------------------------- MODULE MCInformerFactory -------------------------
(* Small instances of InformerFactory for TLC. *)
EXTENDS InformerFactory

CONSTANTS t1, t2, g1, g2, ch1, ch2

TwoTypes == {t1, t2}
OneType == {t1}
TwoCallers == {g1, g2}
TwoChans == {ch1, ch2}

=============================================================================
