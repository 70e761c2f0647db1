---------------------------- MODULE MCTaskQueue ----------------------------
(* Small instances of TaskQueue for TLC. *)
EXTENDS TaskQueue

CONSTANTS k1, k2, w1, w2

MCKey == {k1, k2}
MCWorker == {w1, w2}

=============================================================================
