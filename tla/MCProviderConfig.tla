-------------------------- MODULE MCProviderConfig --------------------------
(* Small instances of ProviderConfigController for TLC. *)
EXTENDS ProviderConfigController

CONSTANTS k1, k2, w1, w2

OneKey  == {k1}
TwoKeys == {k1, k2}
TwoWorkers == {w1, w2}
None == {}
SecondKey == {k2}

=============================================================================
