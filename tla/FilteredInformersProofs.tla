----------------------- MODULE FilteredInformersProofs -----------------------
(***************************************************************************)
(* Proofs that a tenant's handlers and its filtered cache agree, that the  *)
(* handlers get calls that make sense to them, that Cleanup reaches and    *)
(* silences them, and that listers are isolated from other tenants, for    *)
(* any number of tenants, kinds, objects and changes.                      *)
(***************************************************************************)
EXTENDS FilteredInformers, FiniteSetTheorems, SequenceTheorems, TLAPS

\* The objects in the shared indexer of a kind; its informer replays them.
Present(d) == {n \in Name : indexer[d][n] # Absent}

\* Before an event handler is added, there is nothing for it.
Unused(v) == turn[v] = Idle /\ pending[v] = <<>> /\ known[v] = {}

\* At work on an update, the handler knows the old object if it passes.
OlderOK(v) ==
  turn[v].step = "older" /\ v \notin stopped =>
    /\ turn[v].newer = Passes(v, turn[v].note.new)
    /\ turn[v].note.name \in known[v] <=> Passes(v, turn[v].note.old)

ListenersOK ==
  \A v \in View :
    /\ v \notin listening => Unused(v)
    /\ v[2] \in halted => pending[v] = <<>>
    /\ OlderOK(v)

FIIndInv ==
  /\ FIInv
  /\ ListenersOK
  /\ CallsFit
  /\ CleanupReachesAll
  /\ \A d \in Kind : IsFiniteSet(Present(d))

-----------------------------------------------------------------------------
(* Chains of notifications. *)

\* Chained, as a property of a sequence of notifications: they lead from an
\* object n that is known or not to its cached state cur.
Chain(v, n, todo, isKnown, cur) ==
  LET At == {i \in 1..Len(todo) : todo[i].name = n}
  IN  /\ At = {} => (isKnown <=> Passes(v, cur))
      /\ \A i \in At :
           /\ (\A j \in At : j >= i) => (isKnown <=> Passes(v, todo[i].old))
           /\ (\A j \in At : j <= i) => todo[i].new = cur
           /\ \A j \in At : i < j /\ (\A m \in At : m <= i \/ m >= j)
                             => todo[i].new = todo[j].old

LEMMA ChainedIsChain ==
  ASSUME NEW v, NEW n
  PROVE  Chained(v, n) <=> Chain(v, n, Todo(v), n \in known[v], indexer[v[2]][n])
PROOF
BY DEF Chained, Chain

(* A notification that is appended starts where the chain ended. *)
LEMMA ChainAppend ==
  ASSUME NEW v, NEW n, NEW todo \in Seq(Note), NEW isKnown \in BOOLEAN, NEW cur,
         NEW note \in Note, Chain(v, n, todo, isKnown, cur)
  PROVE  /\ note.name = n /\ note.old = cur =>
              Chain(v, n, Append(todo, note), isKnown, note.new)
         /\ note.name # n => Chain(v, n, Append(todo, note), isKnown, cur)
PROOF
<1> DEFINE q  == Append(todo, note)
           A  == {i \in 1..Len(todo) : todo[i].name = n}
           B  == {i \in 1..Len(q) : q[i].name = n}
           z  == Len(todo) + 1
<1>1. /\ Len(todo) \in Nat /\ Len(q) = z /\ q[z] = note
      /\ \A i \in 1..Len(todo) : q[i] = todo[i]
  OBVIOUS
<1>2. A \subseteq 1..Len(todo) /\ z \in Nat /\ z \notin A
  BY <1>1
<1>3. /\ A = {} => (isKnown <=> Passes(v, cur))
      /\ \A i \in A :
           /\ (\A j \in A : j >= i) => (isKnown <=> Passes(v, todo[i].old))
           /\ (\A j \in A : j <= i) => todo[i].new = cur
           /\ \A j \in A : i < j /\ (\A m \in A : m <= i \/ m >= j)
                            => todo[i].new = todo[j].old
  BY DEF Chain
<1> HIDE DEF q, A
<1>4. ASSUME note.name # n PROVE Chain(v, n, q, isKnown, cur)
  <2>1. B = A
    BY <1>1, <1>4 DEF A
  <2>2. \A i \in A : q[i] = todo[i]
    BY <1>1, <1>2
  <2>3. /\ B = {} => (isKnown <=> Passes(v, cur))
        /\ \A i \in B :
             /\ (\A j \in B : j >= i) => (isKnown <=> Passes(v, q[i].old))
             /\ (\A j \in B : j <= i) => q[i].new = cur
             /\ \A j \in B : i < j /\ (\A m \in B : m <= i \/ m >= j)
                              => q[i].new = q[j].old
    <3> HIDE DEF B
    <3> QED BY <1>3, <2>1, <2>2
  <2> HIDE DEF B
  <2> QED BY <2>3 DEF Chain, B
<1>5. ASSUME note.name = n, note.old = cur PROVE Chain(v, n, q, isKnown, note.new)
  <2>1. B = A \cup {z}
    BY <1>1, <1>5 DEF A
  <2>2. \A i \in A : q[i] = todo[i] /\ i < z /\ i \in Nat
    BY <1>1, <1>2
  <2>3. ASSUME NEW i \in B, \A j \in B : j >= i
        PROVE  isKnown <=> Passes(v, q[i].old)
    BY <1>1, <1>3, <1>5, <2>1, <2>2, <2>3
  <2>4. ASSUME NEW i \in B, \A j \in B : j <= i
        PROVE  q[i].new = note.new
    BY <1>1, <2>1, <2>2, <2>4
  <2>5. ASSUME NEW i \in B, NEW j \in B, i < j, \A m \in B : m <= i \/ m >= j
        PROVE  q[i].new = q[j].old
    <3>1. i \in A
      BY <1>1, <2>1, <2>2, <2>5
    <3>2. CASE j = z
      <4>1. \A m \in A : m <= i
        BY <1>2, <2>1, <2>2, <2>5, <3>2
      <4> QED BY <1>1, <1>3, <1>5, <2>2, <3>1, <3>2, <4>1
    <3>3. CASE j \in A
      BY <1>3, <2>1, <2>2, <2>5, <3>1, <3>3
    <3> QED BY <2>1, <3>2, <3>3
  <2>6. B # {}
    BY <2>1
  <2> HIDE DEF B
  <2> QED BY <2>3, <2>4, <2>5, <2>6 DEF Chain, B
<1> QED BY <1>4, <1>5 DEF q

(* The first notification starts from what the handler knows; the rest     *)
(* goes on from where it leads.                                            *)
LEMMA ChainTail ==
  ASSUME NEW v, NEW n, NEW todo \in Seq(Note), todo # <<>>,
         NEW isKnown \in BOOLEAN, NEW cur, Chain(v, n, todo, isKnown, cur)
  PROVE  /\ Head(todo).name = n =>
              /\ isKnown <=> Passes(v, Head(todo).old)
              /\ Chain(v, n, Tail(todo), Passes(v, Head(todo).new), cur)
         /\ Head(todo).name # n => Chain(v, n, Tail(todo), isKnown, cur)
PROOF
<1> DEFINE q  == Tail(todo)
           A  == {i \in 1..Len(todo) : todo[i].name = n}
           B  == {i \in 1..Len(q) : q[i].name = n}
<1>1. /\ Len(todo) \in Nat \ {0} /\ Len(q) = Len(todo) - 1
      /\ \A i \in 1..Len(q) : q[i] = todo[i + 1]
      /\ Head(todo) = todo[1]
  OBVIOUS
<1>2. A \subseteq 1..Len(todo) /\ B \subseteq 1..Len(q)
  OBVIOUS
<1>3. /\ A = {} => (isKnown <=> Passes(v, cur))
      /\ \A i \in A :
           /\ (\A j \in A : j >= i) => (isKnown <=> Passes(v, todo[i].old))
           /\ (\A j \in A : j <= i) => todo[i].new = cur
           /\ \A j \in A : i < j /\ (\A m \in A : m <= i \/ m >= j)
                            => todo[i].new = todo[j].old
  BY DEF Chain
<1>4. \A i \in B : /\ i \in Nat \ {0} /\ i + 1 \in A /\ q[i] = todo[i + 1]
  BY <1>1
<1>5. \A i \in A : i = 1 \/ \E p \in B : i = p + 1
  <2> SUFFICES ASSUME NEW i \in A, i # 1 PROVE i - 1 \in B /\ i = (i - 1) + 1
    OBVIOUS
  <2> QED BY <1>1
<1>6. 1 \in A <=> Head(todo).name = n
  BY <1>1
<1> HIDE DEF q, A, B
<1>7. ASSUME NEW i \in B, \A j \in B : j <= i
      PROVE  q[i].new = cur
  <2>1. \A j \in A : j <= i + 1
    BY <1>4, <1>5, <1>7
  <2> QED BY <1>3, <1>4, <2>1
<1>8. ASSUME NEW i \in B, NEW j \in B, i < j, \A m \in B : m <= i \/ m >= j
      PROVE  q[i].new = q[j].old
  <2>1. \A m \in A : m <= i + 1 \/ m >= j + 1
    BY <1>4, <1>5, <1>8
  <2>2. i + 1 < j + 1
    BY <1>4, <1>8
  <2> QED BY <1>3, <1>4, <2>1, <2>2
<1>9. ASSUME Head(todo).name = n
      PROVE  /\ isKnown <=> Passes(v, Head(todo).old)
             /\ Chain(v, n, q, Passes(v, Head(todo).new), cur)
  <2>1. \A j \in A : j >= 1
    BY <1>1, <1>2
  <2>2. isKnown <=> Passes(v, Head(todo).old)
    BY <1>1, <1>3, <1>6, <1>9, <2>1
  <2>3. ASSUME B = {} PROVE Passes(v, Head(todo).new) <=> Passes(v, cur)
    <3>1. \A j \in A : j <= 1
      BY <1>5, <2>3
    <3> QED BY <1>1, <1>3, <1>6, <1>9, <3>1
  <2>4. ASSUME NEW i \in B, \A j \in B : j >= i
        PROVE  Passes(v, Head(todo).new) <=> Passes(v, q[i].old)
    <3>1. \A m \in A : m <= 1 \/ m >= i + 1
      BY <1>4, <1>5, <2>4
    <3>2. 1 < i + 1
      BY <1>4
    <3> QED BY <1>1, <1>3, <1>4, <1>6, <1>9, <3>1, <3>2
  <2> QED BY <1>7, <1>8, <2>2, <2>3, <2>4 DEF Chain, B
<1>10. ASSUME Head(todo).name # n PROVE Chain(v, n, q, isKnown, cur)
  <2>1. ASSUME B = {} PROVE isKnown <=> Passes(v, cur)
    BY <1>3, <1>5, <1>6, <1>10, <2>1
  <2>2. ASSUME NEW i \in B, \A j \in B : j >= i
        PROVE  isKnown <=> Passes(v, q[i].old)
    <3>1. \A j \in A : j >= i + 1
      BY <1>4, <1>5, <1>6, <1>10, <2>2
    <3> QED BY <1>3, <1>4, <3>1
  <2> QED BY <1>7, <1>8, <2>1, <2>2 DEF Chain, B
<1> QED BY <1>9, <1>10 DEF q

(* The replay of a late handler has every present object once, in any      *)
(* order.                                                                  *)
LEMMA ReplayOrder ==
  ASSUME NEW S, IsFiniteSet(S), NEW order \in SetToSeqs(S)
  PROVE  /\ order \in Seq(S)
         /\ DOMAIN order = 1..Len(order)
         /\ \A i, j \in 1..Len(order) : order[i] = order[j] => i = j
         /\ \A n \in S : \E i \in 1..Len(order) : order[i] = n
PROOF
<1> DEFINE c == Cardinality(S)
           D == 1..c
<1>1. c \in Nat
  BY FS_CardinalityType
<1> HIDE DEF c
<1>2. order \in [D -> S] /\ \A i, j \in D : i # j => order[i] # order[j]
  BY DEF SetToSeqs, c
<1>3. order \in Seq(S) /\ Len(order) = c /\ DOMAIN order = D
  BY <1>1, <1>2
<1>4. order \in Injection(D, S)
  BY <1>2 DEF Injection, IsInjective
<1>5. Cardinality(D) = c
  BY <1>1, FS_Interval
<1>6. order \in Surjection(D, S)
  BY <1>4, <1>5, FS_Injection DEF c
<1>7. \A n \in S : \E i \in D : order[i] = n
  BY <1>6 DEF Surjection
<1> QED BY <1>2, <1>3, <1>7

LEMMA ChainReplay ==
  ASSUME NEW v \in View, NEW order \in SetToSeqs(Present(v[2])), IsFiniteSet(Present(v[2])),
         indexer \in [Kind -> [Name -> Label \cup {Absent}]],
         NEW n \in Name
  PROVE  LET todo == [i \in DOMAIN order |-> Replay(v, order[i])]
         IN  /\ todo \in Seq(Note)
             /\ Chain(v, n, todo, FALSE, indexer[v[2]][n])
PROOF
<1> DEFINE todo == [i \in DOMAIN order |-> Replay(v, order[i])]
           A == {i \in 1..Len(todo) : todo[i].name = n}
<1>1. /\ order \in Seq(Present(v[2]))
      /\ DOMAIN order = 1..Len(order)
      /\ \A i, j \in 1..Len(order) : order[i] = order[j] => i = j
      /\ \A m \in Present(v[2]) : \E i \in 1..Len(order) : order[i] = m
  BY ReplayOrder
<1>2. Len(order) \in Nat /\ \A i \in 1..Len(order) : order[i] \in Name
  BY <1>1 DEF Present
<1>3. v[2] \in Kind
  BY DEF View
<1>4. \A i \in 1..Len(order) : Replay(v, order[i]) \in Note
  BY <1>2, <1>3 DEF Replay, Note
<1>5. todo \in [1..Len(order) -> Note]
  BY <1>1, <1>4
<1>6. /\ todo \in Seq(Note) /\ Len(todo) = Len(order)
  <2> HIDE DEF todo
  <2> QED BY <1>2, <1>5
<1>7. \A i \in 1..Len(order) : /\ todo[i].name = order[i] /\ todo[i].old = Absent
                               /\ todo[i].new = indexer[v[2]][order[i]]
  BY <1>1 DEF Replay
<1> HIDE DEF todo
<1>8. \A i, j \in A : i = j
  BY <1>1, <1>6, <1>7
<1>9. A = {} => indexer[v[2]][n] = Absent
  BY <1>1, <1>6, <1>7 DEF Present
<1>10. \A i \in A : /\ todo[i].old = Absent /\ todo[i].new = indexer[v[2]][n]
                    /\ i \in Nat
  BY <1>2, <1>6, <1>7
<1>11. ~Passes(v, Absent)
  BY DEF Passes
<1> HIDE DEF A
<1>12. /\ A = {} => (FALSE <=> Passes(v, indexer[v[2]][n]))
       /\ \A i \in A :
            /\ (\A j \in A : j >= i) => (FALSE <=> Passes(v, todo[i].old))
            /\ (\A j \in A : j <= i) => todo[i].new = indexer[v[2]][n]
            /\ \A j \in A : i < j /\ (\A m \in A : m <= i \/ m >= j)
                             => todo[i].new = todo[j].old
  <2>1. \A i, j \in A : ~(i < j)
    BY <1>8, <1>10
  <2> QED BY <1>9, <1>10, <1>11, <2>1
<1> QED BY <1>6, <1>12 DEF Chain, A, todo

-----------------------------------------------------------------------------
(* The state of one view. *)

CallFits(v) ==
  turn[v].step = "call" =>
    LET n == turn[v].note.name
    IN  IF turn[v].call = "add" THEN n \notin known[v] \/ v \in stopped
                                ELSE n \in known[v]

Chains(v) ==
  \A n \in Name : Chain(v, n, Todo(v), n \in known[v], indexer[v[2]][n])

ViewOK(v) ==
  /\ Live(v) => TurnOK(v) /\ Chains(v)
  /\ v \notin listening => Unused(v)
  /\ v[2] \in halted => pending[v] = <<>>
  /\ OlderOK(v)
  /\ CallFits(v)

\* The inductive invariant, view by view.
ViewsOK ==
  /\ TypeOK
  /\ \A v \in View : ViewOK(v)
  /\ CleanupReachesAll
  /\ \A d \in Kind : IsFiniteSet(Present(d))

LEMMA InvOfViews == FIIndInv <=> ViewsOK
PROOF
<1>1. \A v : (\A n \in Name : Chained(v, n)) <=> Chains(v)
  BY ChainedIsChain DEF Chains
<1> QED BY <1>1 DEF FIIndInv, FIInv, ListenersOK, CallsFit, ViewOK, CallFits, ViewsOK

(* A view that a step does not touch, except perhaps by stopping it.       *)
LEMMA Untouched ==
  ASSUME NEW v \in View, ViewOK(v),
         turn'[v] = turn[v], pending'[v] = pending[v], known'[v] = known[v],
         indexer'[v[2]] = indexer[v[2]],
         v \in listening' <=> v \in listening, v \in stopped => v \in stopped',
         v[2] \in halted' <=> v[2] \in halted
  PROVE  ViewOK(v)'
PROOF
<1>1. Live(v)' => Live(v)
  BY DEF Live
<1>2. TurnOK(v) => TurnOK(v)'
  BY DEF TurnOK
<1>3. Chains(v) => Chains(v)'
  BY DEF Chains, Todo
<1>4. Unused(v) => Unused(v)'
  BY DEF Unused
<1>5. OlderOK(v)'
  BY DEF ViewOK, OlderOK
<1>6. CallFits(v)'
  BY DEF ViewOK, CallFits
<1> QED BY <1>1, <1>2, <1>3, <1>4, <1>5, <1>6 DEF ViewOK

(* The filter of a tenant, where it has not been stopped. *)
LEMMA FilterPasses ==
  ASSUME NEW v \in View, NEW label
  PROVE  /\ MatchValue(label, v[1]) <=> Passes(v, label)
         /\ v \notin stopped => (filterFunc(v, label) <=> Passes(v, label))
         /\ v \in stopped => ~filterFunc(v, label)
PROOF
BY FilteredInformersAssumption DEF View, MatchValue, Passes, filterFunc

LEMMA DispatchCases ==
  ASSUME NEW newer \in BOOLEAN, NEW older \in BOOLEAN
  PROVE  /\ Dispatch(newer, older) \in {"", "add", "update", "delete"}
         /\ Dispatch(newer, older) = "" <=> ~newer /\ ~older
         /\ Dispatch(newer, older) = "add" <=> newer /\ ~older
         /\ Dispatch(newer, older) = "delete" <=> ~newer /\ older
PROOF
BY DEF Dispatch

(* Todo(v) in terms of sequences. *)
LEMMA HeadTail ==
  ASSUME NEW q \in Seq(Note), NEW x \in Note
  PROVE  /\ <<x>> \o q \in Seq(Note) /\ <<x>> \o q # <<>>
         /\ Head(<<x>> \o q) = x /\ Tail(<<x>> \o q) = q
         /\ \A e \in Note : Append(<<x>> \o q, e) = <<x>> \o Append(q, e)
PROOF
<1>1. /\ <<x>> \o q \in Seq(Note) /\ <<x>> \o q # <<>>
      /\ Head(<<x>> \o q) = x /\ Tail(<<x>> \o q) = q
  OBVIOUS
<1>2. \A e \in Note : Append(<<x>> \o q, e) = <<x>> \o Append(q, e)
  OBVIOUS
<1> QED BY <1>1, <1>2

LEMMA SplitHead ==
  ASSUME NEW q \in Seq(Note), q # <<>>
  PROVE  Head(q) \in Note /\ Tail(q) \in Seq(Note) /\ <<Head(q)>> \o Tail(q) = q
PROOF
OBVIOUS

\* What Proceed makes of a turn.
Called(note, call) ==
  IF call = "" THEN Idle
  ELSE [step |-> "call", note |-> note, newer |-> FALSE, call |-> call]

LEMMA TurnFields ==
  /\ Idle.step = "idle"
  /\ \A t \in Turn \cup {Idle} : t.step # "idle" =>
       /\ t # Idle /\ t.step \in {"older", "call"} /\ t.note \in Note
       /\ t.newer \in BOOLEAN /\ t.call \in {"", "add", "update", "delete"}
PROOF
<1>1. Idle.step = "idle"
  BY DEF Idle
<1>2. \A t \in Turn : /\ t.step \in {"older", "call"} /\ t.note \in Note
                      /\ t.newer \in BOOLEAN /\ t.call \in {"", "add", "update", "delete"}
  BY DEF Turn
<1> QED BY <1>1, <1>2

LEMMA CalledIsTurn ==
  ASSUME NEW note \in Note, NEW call \in {"", "add", "update", "delete"}
  PROVE  /\ Called(note, call) \in Turn \cup {Idle}
         /\ call = "" => Called(note, call) = Idle
         /\ call # "" => /\ Called(note, call).step = "call" /\ Called(note, call).note = note
                         /\ Called(note, call).call = call
                         /\ Called(note, call) # Idle
PROOF
BY DEF Called, Turn, Idle

(* FilterFirst, on a note that is taken from pending: what the turn        *)
(* becomes.                                                                *)
LEMMA FirstTurn ==
  ASSUME TypeOK, NEW v \in View, FilterFirst(v)
  PROVE  LET note == Head(pending[v])
         IN  /\ note \in Note /\ pending[v] \in Seq(Note) /\ pending[v] # <<>>
             /\ turn[v] = Idle
             /\ pending' = [pending EXCEPT ![v] = Tail(pending[v])]
             /\ UNCHANGED <<listening, known, sharedVars, factoryVars>>
             /\ \E T \in Turn \cup {Idle} :
                  /\ turn' = [turn EXCEPT ![v] = T]
                  /\ v \in stopped => T = Idle \/ (T.step = "older" /\ ~T.newer)
                  /\ v \notin stopped =>
                       \/ T = [step |-> "older", note |-> note, call |-> "",
                              newer |-> Passes(v, note.new)]
                       \/ T = Called(note, Dispatch(Passes(v, note.new), Passes(v, note.old)))
PROOF
<1> DEFINE note == Head(pending[v])
           new  == filterFunc(v, note.new)
           old  == filterFunc(v, note.old)
           Older == [step |-> "older", note |-> note, call |-> "", newer |-> new]
           Good(T) ==
             /\ v \in stopped => T = Idle \/ (T.step = "older" /\ ~T.newer)
             /\ v \notin stopped =>
                  \/ T = [step |-> "older", note |-> note, call |-> "",
                         newer |-> Passes(v, note.new)]
                  \/ T = Called(note, Dispatch(Passes(v, note.new), Passes(v, note.old)))
<1>1. /\ pending[v] \in Seq(Note) /\ pending[v] # <<>> /\ note \in Note
      /\ turn[v] = Idle
      /\ pending' = [pending EXCEPT ![v] = Tail(pending[v])]
      /\ UNCHANGED <<listening, known, sharedVars, factoryVars>>
  BY SplitHead DEF FilterFirst, TypeOK
<1>2. new \in BOOLEAN /\ old \in BOOLEAN
  BY DEF filterFunc, MatchValue
<1>3. /\ v \in stopped => ~new /\ ~old
      /\ v \notin stopped => (new = Passes(v, note.new)) /\ (old = Passes(v, note.old))
      /\ Passes(v, note.new) \in BOOLEAN /\ Passes(v, note.old) \in BOOLEAN
  <2>1. Passes(v, note.new) \in BOOLEAN /\ Passes(v, note.old) \in BOOLEAN
    BY DEF Passes, MatchValue
  <2>2. /\ v \in stopped => ~new /\ ~old
        /\ v \notin stopped => (new <=> Passes(v, note.new)) /\ (old <=> Passes(v, note.old))
    BY FilterPasses
  <2> HIDE DEF new, old, note
  <2> QED BY <1>2, <2>1, <2>2
<1>4. /\ note.old = Absent => Proceed(v, note, IF new THEN "add" ELSE "")
      /\ note.old # Absent /\ note.new = Absent =>
           Proceed(v, note, IF old THEN "delete" ELSE "")
      /\ note.old # Absent /\ note.new # Absent => turn' = [turn EXCEPT ![v] = Older]
  <2>1. note.old = Absent => Proceed(v, note, IF new THEN "add" ELSE "")
    <3>1. note.old = Absent /\ note.new = Absent => ~new /\ ~old
      BY FilterPasses DEF Passes
    <3>2. note.old = Absent /\ note.new = Absent => Proceed(v, note, "")
      BY <3>1 DEF FilterFirst
    <3>3. note.old = Absent /\ note.new # Absent => Proceed(v, note, IF new THEN "add" ELSE "")
      BY DEF FilterFirst
    <3> QED BY <3>1, <3>2, <3>3
  <2>2. note.old # Absent /\ note.new = Absent =>
           Proceed(v, note, IF old THEN "delete" ELSE "")
    BY DEF FilterFirst
  <2>3. note.old # Absent /\ note.new # Absent => turn' = [turn EXCEPT ![v] = Older]
    BY Zenon DEF FilterFirst
  <2> QED BY <2>1, <2>2, <2>3
<1>5. ~Passes(v, Absent)
  BY DEF Passes
<1>6. ASSUME NEW call \in {"", "add", "update", "delete"}, Proceed(v, note, call),
             v \in stopped => call = "",
             v \notin stopped => call = Dispatch(Passes(v, note.new), Passes(v, note.old))
      PROVE  \E T \in Turn \cup {Idle} : turn' = [turn EXCEPT ![v] = T] /\ Good(T)
  <2>1. turn' = [turn EXCEPT ![v] = Called(note, call)]
    BY <1>6 DEF Proceed, Called
  <2>2. Called(note, call) \in Turn \cup {Idle} /\ (call = "" => Called(note, call) = Idle)
    <3>1. note \in Note
      BY <1>1
    <3> HIDE DEF note
    <3> QED BY <3>1, CalledIsTurn
  <2>3. Good(Called(note, call))
    <3> HIDE DEF note
    <3> QED BY <1>6, <2>2
  <2> HIDE DEF Good
  <2> QED BY <2>1, <2>2, <2>3
<1>7. CASE note.old = Absent
  <2> DEFINE call == IF new THEN "add" ELSE ""
  <2> HIDE DEF note, new, old, Good
  <2>1. v \notin stopped => call = Dispatch(Passes(v, note.new), Passes(v, note.old))
    BY <1>2, <1>3, <1>5, <1>7 DEF Dispatch
  <2>2. v \in stopped => call = ""
    BY <1>3
  <2>3. call \in {"", "add", "update", "delete"} /\ Proceed(v, note, call)
    BY <1>2, <1>4, <1>7
  <2> HIDE DEF call
  <2>4. \E T \in Turn \cup {Idle} : turn' = [turn EXCEPT ![v] = T] /\ Good(T)
    BY <1>6, <2>1, <2>2, <2>3
  <2> QED BY <1>1, <2>4 DEF Good, note
<1>8. CASE note.old # Absent /\ note.new = Absent
  <2> DEFINE call == IF old THEN "delete" ELSE ""
  <2> HIDE DEF note, new, old, Good
  <2>1. v \notin stopped => call = Dispatch(Passes(v, note.new), Passes(v, note.old))
    BY <1>2, <1>3, <1>5, <1>8 DEF Dispatch
  <2>2. v \in stopped => call = ""
    BY <1>3
  <2>3. call \in {"", "add", "update", "delete"} /\ Proceed(v, note, call)
    BY <1>2, <1>4, <1>8
  <2> HIDE DEF call
  <2>4. \E T \in Turn \cup {Idle} : turn' = [turn EXCEPT ![v] = T] /\ Good(T)
    BY <1>6, <2>1, <2>2, <2>3
  <2> QED BY <1>1, <2>4 DEF Good, note
<1>9. CASE note.old # Absent /\ note.new # Absent
  <2> HIDE DEF note, new, old
  <2>1. Older \in Turn /\ Older.step = "older" /\ Older.newer = new
    BY <1>1, <1>2 DEF Turn
  <2>2. v \notin stopped => Older = [step |-> "older", note |-> note, call |-> "",
                                    newer |-> Passes(v, note.new)]
    BY <1>3
  <2>3. Good(Older)
    <3> HIDE DEF Older
    <3> QED BY <1>3, <2>1, <2>2
  <2>4. turn' = [turn EXCEPT ![v] = Older]
    BY <1>4, <1>9
  <2> HIDE DEF Older, Good
  <2>5. \E T \in Turn \cup {Idle} : turn' = [turn EXCEPT ![v] = T] /\ Good(T)
    BY <2>1, <2>3, <2>4
  <2> QED BY <1>1, <2>5 DEF Good, note
<1> QED BY <1>7, <1>8, <1>9

-----------------------------------------------------------------------------
(* The steps of a listener. *)

\* The chains after the first notification of todo has been dealt with.
LEMMA ChainsAfterHead ==
  ASSUME NEW v, NEW todo \in Seq(Note), todo # <<>>, NEW old \in SUBSET Name,
         NEW new \in SUBSET Name, NEW idx,
         \A n \in Name : Chain(v, n, todo, n \in old, idx[n]),
         \A n \in Name \ {Head(todo).name} : n \in new <=> n \in old,
         Head(todo).name \in new <=> Passes(v, Head(todo).new)
  PROVE  \A n \in Name : Chain(v, n, Tail(todo), n \in new, idx[n])
PROOF
<1> SUFFICES ASSUME NEW n \in Name PROVE Chain(v, n, Tail(todo), n \in new, idx[n])
  OBVIOUS
<1> DEFINE o == n \in old
<1>1. Chain(v, n, todo, o, idx[n]) /\ o \in BOOLEAN
  OBVIOUS
<1>2. CASE Head(todo).name = n
  <2>1. Chain(v, n, Tail(todo), Passes(v, Head(todo).new), idx[n])
    <3> HIDE DEF o
    <3> QED BY <1>1, <1>2, ChainTail
  <2>2. (n \in new) <=> Passes(v, Head(todo).new)
    BY <1>2
  <2> QED BY <2>1, <2>2 DEF Chain
<1>3. CASE Head(todo).name # n
  <2>1. Chain(v, n, Tail(todo), o, idx[n])
    <3> HIDE DEF o
    <3> QED BY <1>1, <1>3, ChainTail
  <2>2. (n \in new) <=> o
    BY <1>3
  <2> QED BY <2>1, <2>2 DEF Chain
<1> QED BY <1>2, <1>3

(* The handler knows the object of the first notification if its old state *)
(* passes.                                                                 *)
LEMMA HeadIsKnown ==
  ASSUME NEW v, NEW todo \in Seq(Note), todo # <<>>, NEW old, NEW idx,
         \A n \in Name : Chain(v, n, todo, n \in old, idx[n])
  PROVE  Head(todo).name \in old <=> Passes(v, Head(todo).old)
PROOF
<1> DEFINE n == Head(todo).name
           o == n \in old
<1>1. n \in Name
  BY SplitHead DEF Note
<1>2. Chain(v, n, todo, o, idx[n]) /\ o \in BOOLEAN
  BY <1>1
<1>3. o <=> Passes(v, Head(todo).old)
  <2> HIDE DEF o
  <2> QED BY <1>2, ChainTail
<1> QED BY <1>3

LEMMA FirstKeepsView ==
  ASSUME TypeOK, NEW v \in View, ViewOK(v), FilterFirst(v)
  PROVE  ViewOK(v)' /\ turn' \in [View -> Turn \cup {Idle}] /\ pending' \in [View -> Seq(Note)]
PROOF
<1> DEFINE note == Head(pending[v])
           pn == Passes(v, note.new)
           po == Passes(v, note.old)
<1>1. /\ note \in Note /\ pending[v] \in Seq(Note) /\ pending[v] # <<>>
      /\ turn[v] = Idle
      /\ pending' = [pending EXCEPT ![v] = Tail(pending[v])]
      /\ UNCHANGED <<listening, known, indexer, halted, stopped>>
  BY FirstTurn DEF sharedVars, factoryVars
<1>2. PICK T \in Turn \cup {Idle} :
        /\ turn' = [turn EXCEPT ![v] = T]
        /\ v \in stopped => T = Idle \/ (T.step = "older" /\ ~T.newer)
        /\ v \notin stopped =>
             \/ T = [step |-> "older", note |-> note, call |-> "", newer |-> pn]
             \/ T = Called(note, Dispatch(pn, po))
  BY FirstTurn
<1>3. pn \in BOOLEAN /\ po \in BOOLEAN
  BY DEF Passes, MatchValue
<1>4. /\ turn' \in [View -> Turn \cup {Idle}] /\ turn'[v] = T
      /\ pending' \in [View -> Seq(Note)] /\ pending'[v] = Tail(pending[v])
      /\ Tail(pending[v]) \in Seq(Note) /\ <<note>> \o Tail(pending[v]) = pending[v]
  BY <1>1, <1>2, SplitHead DEF TypeOK
<1>5. v \in listening /\ v[2] \notin halted
  BY <1>1 DEF ViewOK, Unused
<1> HIDE DEF note, pn, po
<1>6. CASE v \in stopped
  <2>1. ~Live(v)'
    BY <1>1, <1>6 DEF Live
  <2>2. T = Idle \/ T.step = "older"
    BY <1>2, <1>6
  <2>3. OlderOK(v)' /\ CallFits(v)'
    BY <1>1, <1>4, <1>6, <2>2 DEF OlderOK, CallFits, Idle
  <2> QED BY <1>1, <1>4, <1>5, <2>1, <2>3 DEF ViewOK
<1>7. CASE v \notin stopped
  <2>1. Live(v) /\ Todo(v) = pending[v]
    BY <1>1, <1>5, <1>7 DEF Live, Todo
  <2>2. \A n \in Name : Chain(v, n, pending[v], n \in known[v], indexer[v[2]][n])
    BY <2>1 DEF ViewOK, Chains
  <2>3. note.name \in known[v] <=> po
    BY <1>1, <2>2, HeadIsKnown DEF note, po
  <2>4. CASE T = [step |-> "older", note |-> note, call |-> "", newer |-> pn]
    <3>1. T # Idle /\ T.note = note /\ T.step = "older" /\ T.newer = pn
      BY <2>4 DEF Idle
    <3>2. Todo(v)' = pending[v]
      BY <1>4, <3>1 DEF Todo
    <3>3. Chains(v)'
      BY <1>1, <2>2, <3>2 DEF Chains
    <3>4. TurnOK(v)'
      BY <1>4, <3>1 DEF TurnOK, pn, Passes
    <3>5. OlderOK(v)'
      BY <1>1, <1>4, <2>3, <3>1 DEF OlderOK, pn, po, Passes
    <3>6. CallFits(v)'
      BY <1>4, <3>1 DEF CallFits
    <3> QED BY <1>1, <1>4, <1>5, <3>3, <3>4, <3>5, <3>6 DEF ViewOK
  <2>5. CASE T = Called(note, Dispatch(pn, po)) /\ Dispatch(pn, po) # ""
    <3>1. /\ T.step = "call" /\ T.note = note /\ T.call = Dispatch(pn, po) /\ T # Idle
      BY <2>5 DEF Called, Idle
    <3>2. Todo(v)' = pending[v]
      BY <1>4, <3>1 DEF Todo
    <3>3. Chains(v)'
      BY <1>1, <2>2, <3>2 DEF Chains
    <3>4. TurnOK(v)'
      BY <1>4, <3>1 DEF TurnOK, pn, po, Passes
    <3>5. OlderOK(v)'
      BY <1>4, <3>1 DEF OlderOK
    <3>6. CallFits(v)'
      BY <1>1, <1>3, <1>4, <2>3, <2>5, <3>1, DispatchCases DEF CallFits
    <3> QED BY <1>1, <1>4, <1>5, <3>3, <3>4, <3>5, <3>6 DEF ViewOK
  <2>6. CASE T = Called(note, Dispatch(pn, po)) /\ Dispatch(pn, po) = ""
    <3>1. T = Idle /\ ~pn /\ ~po
      <4>1. ~pn /\ ~po BY <1>3, <2>6, DispatchCases
      <4> QED BY <2>6, <4>1 DEF Called
    <3>2. Todo(v)' = Tail(pending[v])
      BY <1>4, <3>1 DEF Todo
    <3>3. known[v] \in SUBSET Name
      BY DEF TypeOK
    <3>4. \A n \in Name : Chain(v, n, Tail(pending[v]), n \in known[v], indexer[v[2]][n])
      BY <1>1, <2>2, <2>3, <3>1, <3>3, ChainsAfterHead DEF note, pn
    <3>5. Chains(v)'
      BY <1>1, <3>2, <3>4 DEF Chains
    <3>6. TurnOK(v)' /\ OlderOK(v)' /\ CallFits(v)'
      BY <1>4, <3>1 DEF TurnOK, OlderOK, CallFits, Idle
    <3> QED BY <1>1, <1>4, <1>5, <3>5, <3>6 DEF ViewOK
  <2> QED BY <1>2, <1>7, <2>4, <2>5, <2>6
<1> QED BY <1>4, <1>6, <1>7

LEMMA SecondKeepsView ==
  ASSUME TypeOK, NEW v \in View, ViewOK(v), FilterSecond(v)
  PROVE  ViewOK(v)' /\ turn' \in [View -> Turn \cup {Idle}]
PROOF
<1> DEFINE note  == turn[v].note
           newer == turn[v].newer
           older == filterFunc(v, note.old)
           call  == Dispatch(newer, older)
           T     == Called(note, call)
<1>1. /\ UNCHANGED <<listening, pending, known, indexer, halted, stopped>>
      /\ turn[v].step = "older" /\ turn' = [turn EXCEPT ![v] = T]
  BY DEF FilterSecond, Proceed, Called, sharedVars, factoryVars
<1>2. turn[v] # Idle /\ note \in Note /\ newer \in BOOLEAN
  <2>1. turn[v] \in Turn \cup {Idle} BY DEF TypeOK
  <2> QED BY <1>1, <2>1, TurnFields
<1>3. older \in BOOLEAN
  BY DEF filterFunc, MatchValue
<1>4. /\ call \in {"", "add", "update", "delete"}
      /\ call = "" <=> ~newer /\ ~older
      /\ call = "add" <=> newer /\ ~older
  <2> HIDE DEF newer, older
  <2> QED BY <1>2, <1>3, DispatchCases
<1> HIDE DEF call
<1>5. /\ T \in Turn \cup {Idle}
      /\ call = "" => T = Idle /\ T.step = "idle"
      /\ call # "" => T.step = "call" /\ T.note = note /\ T.call = call /\ T # Idle
  <2>1. note \in Note /\ call \in {"", "add", "update", "delete"}
    BY <1>2, <1>4
  <2> HIDE DEF note
  <2>2. /\ T \in Turn \cup {Idle}
        /\ call = "" => T = Idle
        /\ call # "" => T.step = "call" /\ T.note = note /\ T.call = call /\ T # Idle
    BY <2>1, CalledIsTurn
  <2>3. Idle.step = "idle"
    BY TurnFields
  <2> HIDE DEF T
  <2> QED BY <2>2, <2>3
<1> HIDE DEF T
<1>6. turn' \in [View -> Turn \cup {Idle}] /\ turn'[v] = T
  BY <1>1, <1>5 DEF TypeOK
<1>7. v \in listening' /\ (v[2] \in halted' => pending'[v] = <<>>)
  BY <1>1, <1>2 DEF ViewOK, Unused
<1>8. OlderOK(v)'
  BY <1>5, <1>6 DEF OlderOK
<1>9. CASE v \in stopped
  <2>1. ~Live(v)'
    BY <1>1, <1>9 DEF Live
  <2>2. call \in {"", "add"}
    BY <1>2, <1>3, <1>4, <1>9, FilterPasses
  <2>3. CallFits(v)'
    BY <1>1, <1>5, <1>6, <1>9, <2>2 DEF CallFits
  <2> QED BY <1>6, <1>7, <1>8, <2>1, <2>3 DEF ViewOK
<1>10. CASE v \notin stopped
  <2> DEFINE pn == Passes(v, note.new)
             po == Passes(v, note.old)
  <2>1. (newer <=> pn) /\ (older <=> po) /\ (note.name \in known[v] <=> po)
    BY <1>1, <1>10, FilterPasses DEF ViewOK, OlderOK
  <2>2. call = Dispatch(pn, po)
    BY <2>1 DEF call, Dispatch
  <2>3. TurnOK(v)'
    BY <1>5, <1>6, <2>2 DEF TurnOK, Passes
  <2>4. CallFits(v)'
    <3> HIDE DEF newer, older, pn, po, note
    <3>1. CASE call = ""
      BY <1>5, <1>6, <3>1 DEF CallFits
    <3>2. CASE call = "add"
      BY <1>1, <1>4, <1>5, <1>6, <2>1, <3>2 DEF CallFits
    <3>3. CASE call # "" /\ call # "add"
      BY <1>1, <1>2, <1>3, <1>4, <1>5, <1>6, <2>1, <3>3 DEF CallFits
    <3> QED BY <3>1, <3>2, <3>3
  <2>5. ASSUME Live(v)' PROVE Chains(v)'
    <3>1. Live(v)
      BY <1>1, <2>5 DEF Live
    <3>2. pending[v] \in Seq(Note) /\ Todo(v) = <<note>> \o pending[v]
      BY <1>2 DEF TypeOK, Todo
    <3>3. \A n \in Name : Chain(v, n, Todo(v), n \in known[v], indexer[v[2]][n])
      BY <3>1 DEF ViewOK, Chains
    <3>4. CASE call # ""
      <4>1. Todo(v)' = Todo(v)
        BY <1>1, <1>5, <1>6, <3>2, <3>4 DEF Todo
      <4> QED BY <1>1, <3>3, <4>1 DEF Chains
    <3>5. CASE call = ""
      <4>1. Todo(v)' = pending[v]
        BY <1>1, <1>5, <1>6, <3>5 DEF Todo
      <4>2. ~pn /\ ~po /\ note.name \notin known[v]
        BY <1>4, <2>1, <3>5
      <4>3. /\ Todo(v) \in Seq(Note) /\ Todo(v) # <<>> /\ Head(Todo(v)) = note
            /\ Tail(Todo(v)) = pending[v]
        <5> HIDE DEF note
        <5> QED BY <1>2, <3>2, HeadTail
      <4>4. known[v] \in SUBSET Name
        BY DEF TypeOK
      <4>5. \A n \in Name : Chain(v, n, Tail(Todo(v)), n \in known[v], indexer[v[2]][n])
        <5> HIDE DEF note
        <5> QED BY <3>3, <4>2, <4>3, <4>4, ChainsAfterHead
      <4> QED BY <1>1, <4>1, <4>3, <4>5 DEF Chains
    <3> QED BY <3>4, <3>5
  <2> QED BY <1>6, <1>7, <1>8, <2>3, <2>4, <2>5 DEF ViewOK
<1> QED BY <1>6, <1>9, <1>10

LEMMA CallKeepsView ==
  ASSUME TypeOK, NEW v \in View, ViewOK(v), CallHandler(v)
  PROVE  /\ ViewOK(v)'
         /\ turn' \in [View -> Turn \cup {Idle}]
         /\ known' \in [View -> SUBSET Name]
PROOF
<1> DEFINE note == turn[v].note
           n    == note.name
           call == turn[v].call
<1>1. /\ UNCHANGED <<listening, pending, indexer, halted, stopped>>
      /\ turn[v].step = "call" /\ turn' = [turn EXCEPT ![v] = Idle]
      /\ known' = [known EXCEPT ![v] = IF call = "delete" THEN known[v] \ {n}
                                                         ELSE known[v] \cup {n}]
  BY DEF CallHandler, sharedVars, factoryVars
<1>2. turn[v] # Idle /\ note \in Note /\ n \in Name
  <2>1. turn[v] \in Turn \cup {Idle} BY DEF TypeOK
  <2>2. turn[v] # Idle /\ note \in Note BY <1>1, <2>1, TurnFields
  <2> HIDE DEF note
  <2> QED BY <2>2 DEF Note
<1>3. /\ turn' \in [View -> Turn \cup {Idle}] /\ turn'[v] = Idle
      /\ known' \in [View -> SUBSET Name] /\ known[v] \in SUBSET Name
      /\ known'[v] = IF call = "delete" THEN known[v] \ {n} ELSE known[v] \cup {n}
  BY <1>1, <1>2 DEF TypeOK
<1>4. v \in listening' /\ (v[2] \in halted' => pending'[v] = <<>>)
  BY <1>1, <1>2 DEF ViewOK, Unused
<1>5. OlderOK(v)' /\ CallFits(v)' /\ TurnOK(v)'
  BY <1>3 DEF OlderOK, CallFits, TurnOK, Idle
<1>6. ASSUME Live(v)' PROVE Chains(v)'
  <2>1. Live(v)
    BY <1>1, <1>6 DEF Live
  <2>2. pending[v] \in Seq(Note) /\ Todo(v) = <<note>> \o pending[v]
    BY <1>2 DEF TypeOK, Todo
  <2>3. \A m \in Name : Chain(v, m, Todo(v), m \in known[v], indexer[v[2]][m])
    BY <2>1 DEF ViewOK, Chains
  <2>4. /\ Todo(v) \in Seq(Note) /\ Todo(v) # <<>> /\ Head(Todo(v)) = note
        /\ Tail(Todo(v)) = pending[v]
    <3> HIDE DEF note
    <3> QED BY <1>2, <2>2, HeadTail
  <2> DEFINE pn == Passes(v, note.new)
             po == Passes(v, note.old)
  <2>5. n \in known[v] <=> po
    BY <2>3, <2>4, HeadIsKnown
  <2>6. call = Dispatch(pn, po) /\ pn \in BOOLEAN /\ po \in BOOLEAN
    BY <1>1, <2>1 DEF ViewOK, TurnOK, Passes, MatchValue
  <2>7. call = "add" \/ n \in known[v]
    BY <1>1 DEF ViewOK, CallFits
  <2>8. n \in known'[v] <=> pn
    <3> HIDE DEF pn, po, n, call
    <3>1. CASE call = "delete"
      BY <1>3, <2>6, <3>1, DispatchCases
    <3>2. CASE call # "delete"
      BY <1>3, <2>5, <2>6, <2>7, <3>2, DispatchCases
    <3> QED BY <3>1, <3>2
  <2>9. \A m \in Name \ {n} : m \in known'[v] <=> m \in known[v]
    BY <1>3
  <2>10. \A m \in Name : Chain(v, m, Tail(Todo(v)), m \in known'[v], indexer[v[2]][m])
    <3>1. known'[v] \in SUBSET Name BY <1>3
    <3> QED BY <1>3, <2>3, <2>4, <2>8, <2>9, <3>1, ChainsAfterHead
  <2>11. Todo(v)' = pending[v]
    BY <1>1, <1>3 DEF Todo
  <2> QED BY <1>1, <2>4, <2>10, <2>11 DEF Chains
<1> QED BY <1>3, <1>4, <1>5, <1>6 DEF ViewOK

-----------------------------------------------------------------------------
(* The steps of the factory, of the shared informer and of all listeners.  *)

LEMMA FIInit == Init => ViewsOK
PROOF
<1> SUFFICES ASSUME Init PROVE ViewsOK OBVIOUS
<1>1. TypeOK
  BY FilteredInformersAssumption DEF Init, TypeOK
<1>2. ASSUME NEW v \in View PROVE ViewOK(v)
  <2>1. turn[v] = Idle /\ turn[v].step = "idle" /\ ~Live(v) /\ Unused(v)
    BY TurnFields DEF Init, Live, Unused
  <2> QED BY <2>1 DEF ViewOK, OlderOK, CallFits, Unused
<1>3. CleanupReachesAll
  BY DEF Init, CleanupReachesAll
<1>4. ASSUME NEW d \in Kind PROVE IsFiniteSet(Present(d))
  <2>1. Present(d) = {} BY DEF Init, Present
  <2> QED BY <2>1, FS_EmptySet
<1> QED BY <1>1, <1>2, <1>3, <1>4 DEF ViewsOK

LEMMA FIFactory ==
  ASSUME ViewsOK, (\E v \in View : Informer(v)) \/ (\E t \in Tenant : Cleanup(t))
  PROVE  ViewsOK'
PROOF
<1>0. TypeOK /\ (\A v \in View : ViewOK(v)) /\ CleanupReachesAll
      /\ \A d \in Kind : IsFiniteSet(Present(d))
  BY DEF ViewsOK
<1>1. /\ UNCHANGED <<indexer, halted, changesLeft, listening, pending, turn, known>>
      /\ stopped \subseteq stopped'
  BY DEF Informer, Cleanup, sharedVars, listenerVars, RemoveEventHandlers
<1>2. TypeOK' /\ CleanupReachesAll'
  <2>1. CASE \E v \in View : Informer(v)
    BY <1>0, <1>1, <2>1 DEF TypeOK, CleanupReachesAll, Informer, NewFilteredInformer, View
  <2>2. CASE \E t \in Tenant : Cleanup(t)
    BY <1>0, <1>1, <2>2 DEF TypeOK, CleanupReachesAll, Cleanup, RemoveEventHandlers, sharedVars
  <2> QED BY <2>1, <2>2
<1>3. \A v \in View : ViewOK(v)'
  BY <1>0, <1>1, Untouched
<1>4. \A d \in Kind : IsFiniteSet(Present(d))'
  BY <1>0, <1>1 DEF Present
<1> QED BY <1>2, <1>3, <1>4 DEF ViewsOK

LEMMA FIAddEventHandler ==
  ASSUME ViewsOK, NEW v \in View, AddEventHandler(v)
  PROVE  ViewsOK'
PROOF
<1>0. TypeOK /\ (\A u \in View : ViewOK(u)) /\ CleanupReachesAll
      /\ \A d \in Kind : IsFiniteSet(Present(d))
  BY DEF ViewsOK
<1>1. /\ UNCHANGED <<indexer, indexed, halted, changesLeft, cached, tracked, stopped, turn, known>>
      /\ v \in cached \ listening /\ v[2] \notin halted /\ v[2] \in Kind
      /\ listening' = listening \cup {v}
  BY DEF AddEventHandler, sharedVars, factoryVars, View
<1>2. PICK order \in SetToSeqs(Present(v[2])) :
        pending' = [pending EXCEPT ![v] = [i \in DOMAIN order |-> Replay(v, order[i])]]
  BY DEF AddEventHandler, Present
<1> DEFINE todo == [i \in DOMAIN order |-> Replay(v, order[i])]
<1>3. \A n \in Name : todo \in Seq(Note) /\ Chain(v, n, todo, FALSE, indexer[v[2]][n])
  BY <1>0, <1>1, ChainReplay DEF TypeOK
<1>4. todo \in Seq(Note)
  <2>1. CASE Name = {}
    <3>1. Present(v[2]) = {} BY <2>1 DEF Present
    <3>2. order \in Seq({}) /\ DOMAIN order = 1..Len(order)
      BY <1>0, <1>1, <3>1, ReplayOrder
    <3>3. order = << >> BY <3>2
    <3>4. DOMAIN order = {} BY <3>3
    <3>5. todo = << >> BY <3>4
    <3> QED BY <3>5
  <2>2. CASE Name # {}
    BY <1>3, <2>2
  <2> QED BY <2>1, <2>2
<1> HIDE DEF todo
<1>5. pending' \in [View -> Seq(Note)] /\ pending'[v] = todo
      /\ \A u \in View \ {v} : pending'[u] = pending[u]
  BY <1>0, <1>2, <1>4 DEF TypeOK, todo
<1>6. TypeOK'
  BY <1>0, <1>1, <1>5 DEF TypeOK
<1>7. ViewOK(v)'
  <2>1. turn'[v] = Idle /\ turn'[v].step = "idle" /\ known'[v] = {}
    BY <1>0, <1>1, TurnFields DEF ViewOK, Unused
  <2>2. Todo(v)' = todo
    BY <1>5, <2>1 DEF Todo
  <2>3. Chains(v)'
    <3> SUFFICES ASSUME NEW n \in Name
                 PROVE  Chain(v, n, todo, n \in known'[v], indexer[v[2]][n])
      BY <1>1, <2>2 DEF Chains
    <3>1. Chain(v, n, todo, FALSE, indexer[v[2]][n])
      BY <1>3
    <3>2. n \notin known'[v]
      BY <2>1
    <3> QED BY <3>1, <3>2 DEF Chain
  <2>4. TurnOK(v)' /\ OlderOK(v)' /\ CallFits(v)'
    BY <2>1 DEF TurnOK, OlderOK, CallFits
  <2> QED BY <1>1, <2>3, <2>4 DEF ViewOK
<1>8. ASSUME NEW u \in View, u # v PROVE ViewOK(u)'
  BY <1>0, <1>1, <1>5, <1>8, Untouched
<1>9. CleanupReachesAll' /\ \A d \in Kind : IsFiniteSet(Present(d))'
  BY <1>0, <1>1 DEF CleanupReachesAll, Present
<1> QED BY <1>6, <1>7, <1>8, <1>9 DEF ViewsOK

LEMMA FIListener ==
  ASSUME ViewsOK, NEW v \in View, Listener(v)
  PROVE  ViewsOK'
PROOF
<1>0. TypeOK /\ (\A u \in View : ViewOK(u)) /\ CleanupReachesAll
      /\ \A d \in Kind : IsFiniteSet(Present(d))
  BY DEF ViewsOK
<1>1. /\ UNCHANGED <<indexer, indexed, halted, changesLeft, cached, tracked, stopped, listening>>
      /\ \A u \in View \ {v} : /\ turn'[u] = turn[u] /\ pending'[u] = pending[u]
                                /\ known'[u] = known[u]
  BY <1>0 DEF Listener, FilterFirst, FilterSecond, CallHandler, Proceed, sharedVars,
              factoryVars, TypeOK
<1>2. /\ ViewOK(v)' /\ turn' \in [View -> Turn \cup {Idle}]
      /\ pending' \in [View -> Seq(Note)] /\ known' \in [View -> SUBSET Name]
  <2>1. CASE FilterFirst(v)
    <3>1. known' = known BY <2>1 DEF FilterFirst
    <3> QED BY <1>0, <2>1, <3>1, FirstKeepsView DEF TypeOK
  <2>2. CASE FilterSecond(v)
    <3>1. known' = known /\ pending' = pending BY <2>2 DEF FilterSecond
    <3> QED BY <1>0, <2>2, <3>1, SecondKeepsView DEF TypeOK
  <2>3. CASE CallHandler(v)
    <3>1. pending' = pending BY <2>3 DEF CallHandler
    <3> QED BY <1>0, <2>3, <3>1, CallKeepsView DEF TypeOK
  <2> QED BY <2>1, <2>2, <2>3 DEF Listener
<1>3. TypeOK'
  BY <1>0, <1>1, <1>2 DEF TypeOK
<1>4. ASSUME NEW u \in View, u # v PROVE ViewOK(u)'
  BY <1>0, <1>1, <1>4, Untouched
<1>5. CleanupReachesAll' /\ \A d \in Kind : IsFiniteSet(Present(d))'
  BY <1>0, <1>1 DEF CleanupReachesAll, Present
<1> QED BY <1>2, <1>3, <1>4, <1>5 DEF ViewsOK

(* A change of an object is appended to the chains of the views that       *)
(* listen to its kind.                                                     *)
LEMMA FIChange ==
  ASSUME ViewsOK, NEW d \in Kind, NEW n \in Name, NEW label \in Label \cup {Absent},
         Change(d, n, label)
  PROVE  ViewsOK'
PROOF
<1> DEFINE note == [name |-> n, old |-> indexer[d][n], new |-> label]
<1>0. TypeOK /\ (\A u \in View : ViewOK(u)) /\ CleanupReachesAll
      /\ \A e \in Kind : IsFiniteSet(Present(e))
  BY DEF ViewsOK
<1>1. /\ UNCHANGED <<indexed, halted, cached, tracked, stopped, listening, turn, known>>
      /\ d \notin halted
      /\ indexer' = [indexer EXCEPT ![d][n] = label]
      /\ pending' = [v \in View |-> IF v \in listening /\ v[2] = d
                                    THEN Append(pending[v], note) ELSE pending[v]]
  BY DEF Change, factoryVars
<1>2. changesLeft' \in 0..MaxChanges
  BY <1>0, FilteredInformersAssumption DEF Change, TypeOK
<1>3. note \in Note /\ note.name = n /\ note.old = indexer[d][n] /\ note.new = label
  BY <1>0 DEF TypeOK, Note
<1> HIDE DEF note
<1>4. /\ indexer' \in [Kind -> [Name -> Label \cup {Absent}]]
      /\ indexer'[d][n] = label
      /\ \A m \in Name \ {n} : indexer'[d][m] = indexer[d][m]
      /\ \A e \in Kind \ {d} : indexer'[e] = indexer[e]
  BY <1>0, <1>1 DEF TypeOK
<1>5. pending' \in [View -> Seq(Note)]
  BY <1>0, <1>1, <1>3 DEF TypeOK
<1>6. TypeOK'
  BY <1>0, <1>1, <1>2, <1>4, <1>5 DEF TypeOK
<1>7. ASSUME NEW v \in View PROVE ViewOK(v)'
  <2>1. ViewOK(v) /\ v[2] \in Kind
    BY <1>0 DEF View
  <2>2. CASE v[2] # d
    BY <1>1, <1>4, <2>1, <2>2, Untouched
  <2>3. CASE v[2] = d
    <3>1. OlderOK(v)' /\ CallFits(v)' /\ (TurnOK(v) => TurnOK(v)')
      <4>1. OlderOK(v)' BY <1>1, <2>1 DEF ViewOK, OlderOK
      <4>2. CallFits(v)' BY <1>1, <2>1 DEF ViewOK, CallFits
      <4>3. TurnOK(v) => TurnOK(v)' BY <1>1 DEF TurnOK
      <4> QED BY <4>1, <4>2, <4>3
    <3>2. v \notin listening => Unused(v)'
      BY <1>1, <2>1 DEF ViewOK, Unused
    <3>3. ASSUME Live(v)' PROVE TurnOK(v)' /\ Chains(v)'
      <4>1. Live(v) /\ v \in listening
        BY <1>1, <3>3 DEF Live
      <4>2. \A m \in Name : Chain(v, m, Todo(v), m \in known[v], indexer[d][m])
        BY <2>1, <2>3, <4>1 DEF ViewOK, Chains
      <4>3. pending'[v] = Append(pending[v], note) /\ pending[v] \in Seq(Note)
        BY <1>0, <1>1, <2>3, <4>1 DEF TypeOK
      <4>4. turn[v] # Idle => turn[v].note \in Note
        <5>1. turn[v] \in Turn \cup {Idle} BY <1>0 DEF TypeOK
        <5> QED BY <5>1 DEF Turn
      <4>5. Todo(v) \in Seq(Note) /\ Todo(v)' = Append(Todo(v), note)
        <5>1. CASE turn[v] = Idle
          BY <1>1, <4>3, <5>1 DEF Todo
        <5>2. CASE turn[v] # Idle
          <6> DEFINE x == turn[v].note
          <6>1. x \in Note BY <4>4, <5>2
          <6>2. Todo(v) = <<x>> \o pending[v] /\ Todo(v)' = <<x>> \o Append(pending[v], note)
            BY <1>1, <4>3, <5>2 DEF Todo
          <6> HIDE DEF x
          <6> QED BY <1>3, <4>3, <6>1, <6>2, HeadTail
        <5> QED BY <5>1, <5>2
      <4>6. ASSUME NEW m \in Name
            PROVE  Chain(v, m, Append(Todo(v), note), m \in known[v], indexer'[d][m])
        <5> DEFINE k == m \in known[v]
        <5>1. Chain(v, m, Todo(v), k, indexer[d][m]) /\ k \in BOOLEAN
          BY <4>2
        <5> HIDE DEF k
        <5>2. Chain(v, m, Append(Todo(v), note), k, indexer'[d][m])
          <6>1. CASE m = n
            <7>1. Chain(v, n, Todo(v), k, note.old) /\ note.new = indexer'[d][n]
              BY <1>3, <1>4, <5>1, <6>1
            <7>2. Chain(v, n, Append(Todo(v), note), k, note.new)
              BY <1>3, <4>5, <5>1, <7>1, ChainAppend
            <7> QED BY <6>1, <7>1, <7>2
          <6>2. CASE m # n
            <7>1. indexer'[d][m] = indexer[d][m] BY <1>4, <6>2
            <7> QED BY <1>3, <4>5, <5>1, <6>2, <7>1, ChainAppend
          <6> QED BY <6>1, <6>2
        <5> QED BY <5>2 DEF k
      <4>7. Chains(v)'
        BY <1>1, <2>3, <4>5, <4>6 DEF Chains
      <4>8. TurnOK(v)
        BY <2>1, <4>1 DEF ViewOK
      <4> QED BY <3>1, <4>7, <4>8
    <3> QED BY <1>1, <2>3, <3>1, <3>2, <3>3 DEF ViewOK
  <2> QED BY <2>2, <2>3
<1>8. CleanupReachesAll'
  BY <1>0, <1>1 DEF CleanupReachesAll
<1>9. ASSUME NEW e \in Kind PROVE IsFiniteSet(Present(e)')
  <2>1. Present(e)' \subseteq Present(e) \cup {n}
    BY <1>4 DEF Present
  <2>2. IsFiniteSet(Present(e) \cup {n})
    BY <1>0, FS_AddElement
  <2> QED BY <2>1, <2>2, FS_Subset
<1> QED BY <1>6, <1>7, <1>8, <1>9 DEF ViewsOK

(* The end of a shared informer takes the notifications it has not handed  *)
(* out.                                                                    *)
LEMMA FIHalt ==
  ASSUME ViewsOK, NEW d \in Kind, Halt(d)
  PROVE  ViewsOK'
PROOF
<1>0. TypeOK /\ (\A u \in View : ViewOK(u)) /\ CleanupReachesAll
      /\ \A e \in Kind : IsFiniteSet(Present(e))
  BY DEF ViewsOK
<1>1. /\ UNCHANGED <<indexer, indexed, changesLeft, cached, tracked, stopped, listening, turn, known>>
      /\ halted' = halted \cup {d}
      /\ pending' = [v \in View |-> IF v[2] = d THEN <<>> ELSE pending[v]]
  BY DEF Halt, factoryVars
<1>2. pending' \in [View -> Seq(Note)]
  BY <1>0, <1>1 DEF TypeOK
<1>3. TypeOK'
  BY <1>0, <1>1, <1>2 DEF TypeOK
<1>4. ASSUME NEW v \in View PROVE ViewOK(v)'
  <2>1. ViewOK(v)
    BY <1>0
  <2>2. CASE v[2] # d
    BY <1>1, <2>1, <2>2, Untouched
  <2>3. CASE v[2] = d
    <3>1. ~Live(v)' /\ pending'[v] = <<>>
      BY <1>1, <2>3 DEF Live
    <3>2. OlderOK(v)'
      BY <1>1, <2>1 DEF ViewOK, OlderOK
    <3>3. CallFits(v)'
      BY <1>1, <2>1 DEF ViewOK, CallFits
    <3>4. v \notin listening' => Unused(v)'
      BY <1>1, <2>1, <3>1 DEF ViewOK, Unused
    <3> QED BY <3>1, <3>2, <3>3, <3>4 DEF ViewOK
  <2> QED BY <2>2, <2>3
<1>5. CleanupReachesAll' /\ \A e \in Kind : IsFiniteSet(Present(e))'
  BY <1>0, <1>1 DEF CleanupReachesAll, Present
<1> QED BY <1>3, <1>4, <1>5 DEF ViewsOK

LEMMA FINext == ViewsOK /\ [Next]_vars => ViewsOK'
PROOF
<1> SUFFICES ASSUME ViewsOK, [Next]_vars PROVE ViewsOK' OBVIOUS
<1>1. CASE (\E v \in View : Informer(v)) \/ (\E t \in Tenant : Cleanup(t))
  BY <1>1, FIFactory
<1>2. CASE \E v \in View : AddEventHandler(v)
  BY <1>2, FIAddEventHandler
<1>3. CASE \E v \in View : Listener(v)
  BY <1>3, FIListener
<1>4. CASE \E d \in Kind : Halt(d)
  BY <1>4, FIHalt
<1>5. CASE \E d \in Kind, n \in Name, label \in Label \cup {Absent} : Change(d, n, label)
  BY <1>5, FIChange
<1>6. CASE UNCHANGED vars
  <2>1. UNCHANGED <<indexer, indexed, halted, changesLeft, cached, tracked, stopped,
                    listening, pending, turn, known>>
    BY <1>6 DEF vars, sharedVars, factoryVars, listenerVars
  <2>2. \A v \in View : ViewOK(v)'
    BY <2>1, Untouched DEF ViewsOK
  <2>3. TypeOK' /\ CleanupReachesAll' /\ \A d \in Kind : IsFiniteSet(Present(d))'
    BY <2>1 DEF ViewsOK, TypeOK, CleanupReachesAll, Present
  <2> QED BY <2>2, <2>3 DEF ViewsOK
<1> QED BY <1>1, <1>2, <1>3, <1>4, <1>5, <1>6 DEF Next

-----------------------------------------------------------------------------
(* The results. *)

LEMMA ViewsInvariant == Safe => []ViewsOK
PROOF
BY FIInit, FINext, PTL DEF Safe

(* The notifications on their way to a handler are a gapless history of    *)
(* every object from what the handler knows to what the cache holds, for   *)
(* any number of views and changes and any order of the replays.           *)
THEOREM HistoriesAreGapless == Safe => []FIInv
PROOF
<1>1. ViewsOK => FIInv
  BY InvOfViews DEF FIIndInv
<1> QED BY <1>1, ViewsInvariant, PTL

(* Updates and deletes are of objects the handler was told of, adds of     *)
(* objects it does not know, unless it was removed in between.             *)
THEOREM HandlersGetFittingCalls == Safe => []CallsFit
PROOF
<1>1. ViewsOK => CallsFit
  BY InvOfViews DEF FIIndInv
<1> QED BY <1>1, ViewsInvariant, PTL

(* A handler that has caught up knows what the filtered cache shows.       *)
THEOREM HandlersAgreeWithCache == Safe => []HandlerAgrees
PROOF
<1>1. ASSUME ViewsOK, NEW v \in View, Live(v), pending[v] = <<>>, turn[v] = Idle
      PROVE  known[v] = GetByKey(v)
  <2>1. \A n \in Name : Chain(v, n, << >>, n \in known[v], indexer[v[2]][n])
    BY <1>1 DEF ViewsOK, ViewOK, Chains, Todo
  <2>2. \A n \in Name : n \in known[v] <=> Passes(v, indexer[v[2]][n])
    BY <2>1 DEF Chain
  <2>3. known[v] \subseteq Name
    BY <1>1 DEF ViewsOK, TypeOK
  <2> QED BY <2>2, <2>3 DEF GetByKey, Matching, Passes
<1>2. ViewsOK => HandlerAgrees
  BY <1>1 DEF HandlerAgrees
<1> QED BY <1>2, ViewsInvariant, PTL

(* No informer that a factory has handed out escapes its next Cleanup.     *)
THEOREM CleanupMissesNone == Safe => []CleanupReachesAll
PROOF
<1>1. ViewsOK => CleanupReachesAll
  BY DEF ViewsOK
<1> QED BY <1>1, ViewsInvariant, PTL

\* A view without the index was created after the shared informer stopped.
IndexOK == \A v \in cached : v[2] \in indexed \cup halted

LEMMA IndexInvariant == Safe => []IndexOK
PROOF
<1>1. Init => IndexOK
  BY DEF Init, IndexOK
<1>2. ASSUME IndexOK, [Next]_vars PROVE IndexOK'
  <2>1. CASE \E v \in View : Informer(v)
    BY <1>2, <2>1 DEF Informer, NewFilteredInformer, IndexOK
  <2>2. ASSUME ~\E v \in View : Informer(v)
        PROVE  UNCHANGED <<cached, indexed>> /\ halted \subseteq halted'
    BY <1>2, <2>2 DEF Next, AddEventHandler, Listener, FilterFirst, FilterSecond, CallHandler,
                      Cleanup, Halt, Change, vars, sharedVars, factoryVars
  <2>3. CASE UNCHANGED <<cached, indexed>> /\ halted \subseteq halted'
    BY <1>2, <2>3 DEF IndexOK
  <2> QED BY <2>1, <2>2, <2>3
<1> QED BY <1>1, <1>2, PTL DEF Safe

(* What the listers answer about one object.                               *)
LEMMA Answers ==
  ASSUME NEW v, NEW n \in Name
  PROVE  /\ n \in List(v) <=>
              IF v[2] \in indexed THEN indexer[v[2]][n] = v[1] ELSE Passes(v, indexer[v[2]][n])
         /\ \A label : /\ n \in ByIndex(v, label).items <=>
                            /\ v[2] \in indexed
                            /\ indexer[v[2]][n] = label
                            /\ MatchValue(label, v[1])
                       /\ ByIndex(v, label).err = (v[2] \notin indexed)
PROOF
<1> DEFINE d == v[2]
<1>1. \A label : /\ IndexLookup(d, label).err = (d \notin indexed)
                 /\ IndexLookup(d, label).items =
                      {m \in Name : d \in indexed /\ indexer[d][m] = label}
  BY DEF IndexLookup
<1>2. \A label : /\ ByIndex(v, label).items =
                      {m \in IndexLookup(d, label).items : MatchValue(label, v[1])}
                 /\ ByIndex(v, label).err = IndexLookup(d, label).err
  BY DEF ByIndex, IndexLookup
<1>3. n \in Matching(v) <=> Passes(v, indexer[d][n])
  BY DEF Matching, Passes
<1>4. List(v) = IF d \in indexed THEN IndexLookup(d, v[1]).items ELSE Matching(v)
  BY <1>1 DEF List
<1> QED BY <1>1, <1>2, <1>3, <1>4

(* What a tenant's listers answer changes only with the tenant's own       *)
(* objects, whatever other tenants' factories do to the index they share   *)
(* and whenever the shared informer stops.                                 *)
THEOREM ListersStayIsolated == Safe => ListersAreIsolated
PROOF
<1>1. ASSUME ViewsOK, IndexOK, [Next]_vars, NEW v \in cached
      PROVE  v[2] \in indexed' <=> v[2] \in indexed
  <2>1. CASE \E u \in View : Informer(u)
    BY <1>1, <2>1 DEF Informer, NewFilteredInformer, IndexOK
  <2>2. CASE ~\E u \in View : Informer(u)
    BY <1>1, <2>2 DEF Next, AddEventHandler, Listener, FilterFirst, FilterSecond, CallHandler,
                      Cleanup, Halt, Change, vars, sharedVars
  <2> QED BY <2>1, <2>2
<1>2. ASSUME ViewsOK, NEW v \in cached PROVE Passes(v, v[1])
  BY <1>2, FilteredInformersAssumption DEF ViewsOK, TypeOK, View, Passes, MatchValue
<1>3. ASSUME ViewsOK, IndexOK, [Next]_vars, NEW v \in cached, NEW n \in Name,
             \/ indexer[v[2]][n] = indexer'[v[2]][n]
             \/ ~(Passes(v, indexer[v[2]][n]) \/ Passes(v, indexer'[v[2]][n]))
      PROVE  /\ n \in List(v)' <=> n \in List(v)
             /\ \A label \in Tenant :
                  /\ n \in ByIndex(v, label).items' <=> n \in ByIndex(v, label).items
                  /\ ByIndex(v, label).err' = ByIndex(v, label).err
  <2> DEFINE old == indexer[v[2]][n]
             new == indexer'[v[2]][n]
  <2>1. /\ n \in List(v) <=> IF v[2] \in indexed THEN old = v[1] ELSE Passes(v, old)
        /\ \A label : /\ n \in ByIndex(v, label).items <=>
                           v[2] \in indexed /\ old = label /\ MatchValue(label, v[1])
                      /\ ByIndex(v, label).err = (v[2] \notin indexed)
    BY Answers
  <2>2. /\ n \in List(v)' <=> IF v[2] \in indexed' THEN new = v[1] ELSE Passes(v, new)
        /\ \A label : /\ n \in ByIndex(v, label).items' <=>
                           v[2] \in indexed' /\ new = label /\ MatchValue(label, v[1])
                      /\ ByIndex(v, label).err' = (v[2] \notin indexed')
    <3>1. \A label : /\ IndexLookup(v[2], label).err' = (v[2] \notin indexed')
                     /\ IndexLookup(v[2], label).items' =
                          {m \in Name : v[2] \in indexed' /\ indexer'[v[2]][m] = label}
      BY DEF IndexLookup
    <3>2. \A label : /\ ByIndex(v, label).items' =
                          {m \in IndexLookup(v[2], label).items' : MatchValue(label, v[1])}
                     /\ ByIndex(v, label).err' = IndexLookup(v[2], label).err'
      BY DEF ByIndex, IndexLookup
    <3>3. n \in Matching(v)' <=> Passes(v, new)
      BY DEF Matching, Passes
    <3>4. List(v)' = IF v[2] \in indexed' THEN IndexLookup(v[2], v[1]).items' ELSE Matching(v)'
      BY <3>1 DEF List
    <3> QED BY <1>3, <3>1, <3>2, <3>3, <3>4
  <2>3. v[2] \in indexed' <=> v[2] \in indexed
    BY <1>1, <1>3
  <2>4. \A label \in Tenant : MatchValue(label, v[1]) => Passes(v, label)
    BY FilteredInformersAssumption DEF Passes
  <2>5. Passes(v, v[1])
    BY <1>2, <1>3
  <2>6. old = new \/ ~(Passes(v, old) \/ Passes(v, new))
    BY <1>3
  <2> HIDE DEF old, new
  <2>7. n \in List(v)' <=> n \in List(v)
    BY <2>1, <2>2, <2>3, <2>5, <2>6
  <2>8. ASSUME NEW label \in Tenant
        PROVE  /\ n \in ByIndex(v, label).items' <=> n \in ByIndex(v, label).items
               /\ ByIndex(v, label).err' = ByIndex(v, label).err
    BY <2>1, <2>2, <2>3, <2>4, <2>6
  <2> QED BY <2>7, <2>8
<1>4. ViewsOK /\ IndexOK /\ [Next]_vars =>
        [\A v \in cached : \A n \in Name :
           LET old == indexer[v[2]][n]
               new == indexer'[v[2]][n]
           IN  old = new \/ ~(Passes(v, old) \/ Passes(v, new)) =>
                 /\ n \in List(v)' <=> n \in List(v)
                 /\ \A label \in Tenant :
                      /\ n \in ByIndex(v, label).items' <=> n \in ByIndex(v, label).items
                      /\ ByIndex(v, label).err' = ByIndex(v, label).err]_vars
  BY <1>3
<1> QED BY <1>4, ViewsInvariant, IndexInvariant, PTL DEF Safe, ListersAreIsolated

(* After a listener has seen the flag stopped, its handler is not called   *)
(* any more, whatever changes, replays or resyncs follow.                  *)
THEOREM SilenceLasts == Safe => SilenceIsFinal
PROOF
<1>1. ASSUME ViewsOK, [Next]_vars, NEW v \in View, Silenced(v)
      PROVE  Silenced(v)' /\ known'[v] = known[v]
  <2>0. TypeOK /\ v \in stopped
    BY <1>1 DEF ViewsOK, Silenced
  <2>1. CASE UNCHANGED <<turn, known>> /\ stopped \subseteq stopped'
    BY <1>1, <2>1 DEF Silenced
  <2>2. ASSUME NEW u \in View, Listener(u), u # v
        PROVE  Silenced(v)' /\ known'[v] = known[v]
    <3>1. UNCHANGED <<turn[v], known[v], stopped>>
      BY <2>0, <2>2 DEF Listener, FilterFirst, FilterSecond, CallHandler, Proceed,
                        factoryVars, TypeOK
    <3> QED BY <1>1, <3>1 DEF Silenced
  <2>3. CASE FilterFirst(v)
    <3>1. PICK T \in Turn \cup {Idle} :
            turn' = [turn EXCEPT ![v] = T] /\ (T = Idle \/ (T.step = "older" /\ ~T.newer))
      BY <2>0, <2>3, FirstTurn
    <3>2. turn'[v] = T
      BY <2>0, <3>1 DEF TypeOK
    <3>3. UNCHANGED <<known, stopped>>
      BY <2>3 DEF FilterFirst, factoryVars
    <3> QED BY <2>0, <3>1, <3>2, <3>3 DEF Silenced
  <2>4. CASE FilterSecond(v)
    <3>1. ~turn[v].newer /\ ~filterFunc(v, turn[v].note.old)
      BY <1>1, <2>0, <2>4, FilterPasses, TurnFields DEF Silenced, FilterSecond
    <3>2. Dispatch(turn[v].newer, filterFunc(v, turn[v].note.old)) = ""
      BY <3>1 DEF Dispatch
    <3>3. turn' = [turn EXCEPT ![v] = Idle] /\ UNCHANGED <<known, stopped>>
      BY <2>4, <3>2 DEF FilterSecond, Proceed, factoryVars
    <3> QED BY <2>0, <3>3 DEF Silenced, TypeOK
  <2>5. ~CallHandler(v)
    BY <1>1, TurnFields DEF Silenced, CallHandler
  <2>6. ASSUME \/ \E u \in View : Informer(u) \/ AddEventHandler(u)
               \/ \E t \in Tenant : Cleanup(t)
               \/ \E d \in Kind : Halt(d)
               \/ \E d \in Kind, n \in Name, label \in Label \cup {Absent} : Change(d, n, label)
               \/ UNCHANGED vars
        PROVE  UNCHANGED <<turn, known>> /\ stopped \subseteq stopped'
    BY <2>6 DEF Informer, AddEventHandler, Cleanup, RemoveEventHandlers, Halt, Change, vars,
                factoryVars, listenerVars
  <2> QED BY <1>1, <2>1, <2>2, <2>3, <2>4, <2>5, <2>6 DEF Next, Listener
<1>2. ViewsOK /\ [Next]_vars =>
        [\A v \in View : Silenced(v) => Silenced(v)' /\ known'[v] = known[v]]_vars
  BY <1>1
<1> QED BY <1>2, ViewsInvariant, PTL DEF Safe, SilenceIsFinal

=============================================================================
