-------------------------- MODULE TenantLifecycle --------------------------
(***************************************************************************)
(* What the framework promises about one ProviderConfig, whatever happens  *)
(* to its process, to the API server or to the controllers it starts: at   *)
(* most one set of controllers runs, and the finalizer that shields the    *)
(* ProviderConfig from deletion is taken off only when none does.          *)
(* ProviderConfigController implements it.                                 *)
(***************************************************************************)
EXTENDS Naturals

CONSTANT Key

VARIABLES
  running,   \* how many controller sets run for a key
  shielded   \* the stored object carries the framework's finalizer

LifecycleInit ==
  /\ running = [k \in Key |-> 0]
  /\ shielded = [k \in Key |-> FALSE]

Shield(k) ==
  /\ shielded' = [shielded EXCEPT ![k] = TRUE]
  /\ UNCHANGED running

Launch(k) ==
  /\ running[k] = 0
  /\ running' = [running EXCEPT ![k] = 1]
  /\ UNCHANGED shielded

Halt(k) ==
  /\ running' = [running EXCEPT ![k] = 0]
  /\ UNCHANGED shielded

Unshield(k) ==
  /\ running[k] = 0
  /\ shielded' = [shielded EXCEPT ![k] = FALSE]
  /\ UNCHANGED running

Die ==
  /\ running' = [k \in Key |-> 0]
  /\ UNCHANGED shielded

LifecycleNext ==
  \/ \E k \in Key : Shield(k) \/ Launch(k) \/ Halt(k) \/ Unshield(k)
  \/ Die

LifecycleSpec ==
  LifecycleInit /\ [][LifecycleNext]_<<running, shielded>>

=============================================================================
