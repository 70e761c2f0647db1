-------------------------------- MODULE Keys --------------------------------
(* The keys of the work queue: a ProviderConfig is cluster-scoped, so its   *)
(* key is its name.                                                         *)
CONSTANT Key

=============================================================================
