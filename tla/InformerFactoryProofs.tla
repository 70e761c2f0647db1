------------------------ MODULE InformerFactoryProofs ------------------------
(***************************************************************************)
(* Proofs about InformerFactory, for any number of types, callers and stop *)
(* channels.  IFInv is inductive; the properties follow from it.           *)
(***************************************************************************)
EXTENDS InformerFactory, TLAPS

LEMMA InitHolds == Init => IFInv
  <1> SUFFICES ASSUME Init PROVE IFInv
    OBVIOUS
  <1>1. NoResult \in [ok : SUBSET Type, failed : SUBSET Type]
    BY DEF NoResult
  <1>2. TypeOK
    BY <1>1 DEF Init, TypeOK
  <1>3. \A g \in Caller : res[g].ok = {}
    BY DEF Init, NoResult
  <1>4. QED
    BY <1>2, <1>3 DEF Init, IFInv, OneInformerPerType

(* Asking for an informer, in any of the four ways. *)
LEMMA RequestHolds ==
  ASSUME IFInv, NEW g \in Caller, NEW t \in Type, Request(g, t)
  PROVE  IFInv'
  <1> USE DEF IFInv, TypeOK, OneInformerPerType
  <1>1. CASE InformerFor(t)
    BY <1>1, FactoryAssumption DEF Request, InformerFor, runVars, waitVars
  <1>2. CASE UNCHANGED mapVars
    BY <1>2 DEF Request, mapVars, runVars, waitVars
  <1>3. QED
    BY <1>1, <1>2 DEF Request, Informer, Lister, ForResource

LEMMA StartHolds ==
  ASSUME IFInv, NEW g \in Caller, NEW ch \in Chan, Start(g, ch)
  PROVE  IFInv'
  <1> USE DEF IFInv, TypeOK, OneInformerPerType
  <1>1. CASE shuttingDown
    BY <1>1 DEF Start, mapVars, runVars, waitVars
  <1>2. CASE ~shuttingDown
    <2> SUFFICES ASSUME Spawn(Unstarted, ch) PROVE IFInv'
      BY <1>2 DEF Start
    <2>1. Unstarted \subseteq Type
      BY DEF Unstarted
    <2>2. TypeOK'
      BY <2>1 DEF Spawn, Start, mapVars, waitVars
    <2>3. \A t \in Type :
            /\ runs'[t] = IF t \in started' THEN 1 ELSE 0
            /\ t \in started' => informers'[t] # 0
      BY <2>1 DEF Spawn, Unstarted, Start, mapVars
    <2>4. ready' \subseteq started' /\ routines' \subseteq wg'
      BY DEF Spawn, Unstarted
    <2>5. ~returned'
      BY <1>2 DEF Start
    <2>6. QED
      BY <2>2, <2>3, <2>4, <2>5 DEF Start, mapVars, waitVars
  <1>3. QED
    BY <1>1, <1>2

LEMMA ShutdownHolds ==
  ASSUME IFInv, NEW g \in Caller, Shutdown(g) \/ ShutdownReturns(g)
  PROVE  IFInv'
  <1> USE DEF IFInv, TypeOK, OneInformerPerType
  <1>1. CASE Shutdown(g)
    BY <1>1 DEF Shutdown, Goto, mapVars, runVars, waitVars
  <1>2. CASE ShutdownReturns(g)
    BY <1>2 DEF ShutdownReturns, Goto, mapVars, runVars, waitVars
  <1>3. QED
    BY <1>1, <1>2

LEMMA WaitCallHolds ==
  ASSUME IFInv, NEW g \in Caller, NEW ch \in Chan, WaitForCacheSync(g, ch)
  PROVE  IFInv'
  <1> USE DEF IFInv, TypeOK, OneInformerPerType
  <1>1. ready \subseteq {t \in started : informers[t] # 0}
    OBVIOUS
  <1>2. TypeOK'
    BY DEF WaitForCacheSync, Goto, mapVars, runVars
  <1>3. QED
    BY <1>1, <1>2 DEF WaitForCacheSync, Goto, mapVars, runVars

LEMMA WaitForOneHolds ==
  ASSUME IFInv, NEW g \in Caller, NEW t \in Type, WaitForOne(g, t)
  PROVE  IFInv'
  <1> USE DEF IFInv, TypeOK, OneInformerPerType
  <1>1. PICK r \in [ok : SUBSET Type, failed : SUBSET Type] :
          /\ res' = [res EXCEPT ![g] = r]
          /\ r.ok \subseteq synced
          /\ r.ok \cup r.failed = res[g].ok \cup res[g].failed \cup {t}
    <2>1. CASE t \in synced /\ res' = [res EXCEPT ![g].ok = @ \cup {t}]
      <3>1. WITNESS [res[g] EXCEPT !.ok = @ \cup {t}]
                      \in [ok : SUBSET Type, failed : SUBSET Type]
      <3>2. QED
        BY <2>1
    <2>2. CASE res' = [res EXCEPT ![g].failed = @ \cup {t}]
      <3>1. WITNESS [res[g] EXCEPT !.failed = @ \cup {t}]
                      \in [ok : SUBSET Type, failed : SUBSET Type]
      <3>2. QED
        BY <2>2
    <2>3. QED
      BY <2>1, <2>2 DEF WaitForOne
  <1>2. TypeOK'
    BY <1>1 DEF WaitForOne, mapVars, runVars
  <1>3. QED
    BY <1>1, <1>2 DEF WaitForOne, mapVars, runVars

LEMMA WaitReturnsHolds ==
  ASSUME IFInv, NEW g \in Caller, WaitReturns(g)
  PROVE  IFInv'
  BY DEF IFInv, TypeOK, OneInformerPerType, WaitReturns, Goto, NoResult, mapVars, runVars

LEMMA RoutineHolds ==
  ASSUME IFInv, NEW r \in Type \X Chan, Routine(r)
  PROVE  IFInv'
  <1> USE DEF IFInv, TypeOK, OneInformerPerType
  <1>1. CASE InformerSyncs(r)
    BY <1>1 DEF InformerSyncs, mapVars, runVars, waitVars
  <1>2. CASE RunReturns(r)
    BY <1>2 DEF RunReturns, mapVars, waitVars
  <1>3. CASE Done(r)
    BY <1>3 DEF Done, mapVars, waitVars
  <1>4. QED
    BY <1>1, <1>2, <1>3 DEF Routine

LEMMA CloseHolds ==
  ASSUME IFInv, NEW ch \in Chan, CloseChan(ch)
  PROVE  IFInv'
  BY DEF IFInv, TypeOK, OneInformerPerType, CloseChan, mapVars, runVars, waitVars

LEMMA StepHolds == IFInv /\ [Next]_vars => IFInv'
  <1> SUFFICES ASSUME IFInv, [Next]_vars PROVE IFInv'
    OBVIOUS
  <1>1. CASE UNCHANGED vars
    BY <1>1 DEF IFInv, TypeOK, OneInformerPerType, vars, mapVars, runVars, waitVars
  <1>2. ASSUME NEW g \in Caller, NEW t \in Type, Request(g, t) PROVE IFInv'
    BY <1>2, RequestHolds
  <1>3. ASSUME NEW g \in Caller, NEW ch \in Chan, Start(g, ch) PROVE IFInv'
    BY <1>3, StartHolds
  <1>4. ASSUME NEW g \in Caller, NEW ch \in Chan, WaitForCacheSync(g, ch) PROVE IFInv'
    BY <1>4, WaitCallHolds
  <1>5. ASSUME NEW g \in Caller, Shutdown(g) PROVE IFInv'
    BY <1>5, ShutdownHolds
  <1>6. ASSUME NEW g \in Caller, Proceed(g) PROVE IFInv'
    BY <1>6, ShutdownHolds, WaitReturnsHolds, WaitForOneHolds DEF Proceed
  <1>7. ASSUME NEW r \in Type \X Chan, Routine(r) PROVE IFInv'
    BY <1>7, RoutineHolds
  <1>8. ASSUME NEW ch \in Chan, CloseChan(ch) PROVE IFInv'
    BY <1>8, CloseHolds
  <1>9. QED
    BY <1>1, <1>2, <1>3, <1>4, <1>5, <1>6, <1>7, <1>8 DEF Next

-----------------------------------------------------------------------------
(* IFInv holds in every reachable state of the factory, whatever methods   *)
(* its callers use at the same time.                                       *)
THEOREM FactoryInvariant == Safe => []IFInv
  BY InitHolds, StepHolds, PTL DEF Safe

(* All callers of Informer, Lister, ForResource and InformerFor share the  *)
(* one informer of a type.                                                 *)
THEOREM InformersAreShared == Safe => []OneInformerPerType
  <1>1. IFInv => OneInformerPerType
    BY DEF IFInv
  <1>2. QED
    BY <1>1, FactoryInvariant, PTL

(* Start runs an informer once. *)
THEOREM InformersRunOnce == Safe => []RunsOnce
  <1>1. IFInv => RunsOnce
    <2> SUFFICES ASSUME IFInv, NEW t \in Type PROVE runs[t] <= 1
      BY DEF RunsOnce
    <2>1. runs[t] = 1 \/ runs[t] = 0
      BY DEF IFInv
    <2>2. QED
      BY <2>1
  <1>2. QED
    BY <1>1, FactoryInvariant, PTL

(* Nothing runs once a Shutdown has returned. *)
THEOREM ShutdownHasStoppedAll == Safe => []ShutdownIsFinal
  <1>1. IFInv => ShutdownIsFinal
    BY DEF IFInv, ShutdownIsFinal
  <1>2. QED
    BY <1>1, FactoryInvariant, PTL

(* WaitForCacheSync answers for all started informers, truthfully. *)
THEOREM WaitIsComplete == Safe => []WaitAnswersForStarted
  <1>1. IFInv => WaitAnswersForStarted
    BY DEF IFInv, WaitAnswersForStarted
  <1>2. QED
    BY <1>1, FactoryInvariant, PTL

=============================================================================
