-------------------------- MODULE MCTenantMetrics --------------------------
(***************************************************************************)
(* TenantMetrics for TLC: two tenants, or one that is set up twice, with   *)
(* two help texts, and their symmetry and that of the emitters.            *)
(***************************************************************************)
EXTENDS TenantMetrics, TLC

CONSTANTS t1, t2, e1, e2, h1, h2

TwoTenants  == {t1, t2}
TwoEmitters == {e1, e2}
TwoHelps    == {h1, h2}

Symmetry ==
  Permutations(TwoTenants) \cup Permutations(TwoEmitters) \cup Permutations(TwoHelps)

=============================================================================
