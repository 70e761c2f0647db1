------------------------ MODULE MCFilteredInformers ------------------------
(***************************************************************************)
(* Instances of FilteredInformers for TLC: tenants that watch nodes.       *)
(***************************************************************************)
EXTENDS FilteredInformers

CONSTANTS t1, t2, n1, n2, node

OneTenant  == {t1}
TwoTenants == {t1, t2}
OneName    == {n1}
TwoNames   == {n1, n2}
OneKind    == {node}

=============================================================================
