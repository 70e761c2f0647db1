------------------------ MODULE TenantMetricsProofs ------------------------
(***************************************************************************)
(* Proofs that a scrape of the MultiGatherer is complete, free of clashes  *)
(* and current, except for what it reports, and that dual emission loses   *)
(* nothing, for any number of tenants, help texts, emitters, factories,    *)
(* emissions and resets.                                                   *)
(***************************************************************************)
EXTENDS TenantMetrics, SetSums, FiniteSetTheorems, FunctionTheorems, TLAPS

Counters == [Series -> Nat]

\* The registries a scrape has read.
Read == {x.reg : x \in result}

\* A handle of any age; the bound on resets plays no role.
AnyHandle ==
  [reg : Registry, series : Series, since : Nat, step : {"local", "global"}]

\* What a registry may export, with counters of any size.
AnyFamily == UNION {[C -> Nat] : C \in SUBSET Series}
AnyAnswer == [reg : Created, family : AnyFamily, refused : BOOLEAN]

TypesOK ==
  /\ factories \in Seq(Tenant)
  /\ help \in Seq(Help)
  /\ Len(help) = Len(factories)
  /\ children \in [Registry -> SUBSET Series]
  /\ Len(factories) <= MaxFactories
  /\ local \in [Registry -> Counters]
  /\ atStart \in [Registry -> Counters]
  /\ resets \in [Registry -> Nat]
  /\ handle \in [Emitter -> AnyHandle \cup {NoHandle}]
  /\ gatherers \in [Tenant -> SUBSET Created]
  /\ todo \subseteq Created
  /\ result \subseteq AnyAnswer

\* Register and Unregister keep one registry of its own for a tenant.
GatherersOK ==
  \A t \in Tenant : \A q, r \in gatherers[t] : q = r /\ factories[r] = t

\* The scrape reads a registry once, and one of a tenant.
ScrapeOK ==
  /\ ~scraping => todo = {} /\ result = {}
  /\ steady \subseteq todo \cup Read
  /\ \A q, r \in todo \cup Read : factories[q] = factories[r] => q = r
  /\ todo \cap Read = {}
  /\ \A x, y \in result : x.reg = y.reg => x = y

\* Counters only grow between resets.
CurrentOK ==
  /\ \A r \in Registry, s \in Series : local[r][s] >= atStart[r][s]
  /\ ScrapeIsCurrent

\* What has been counted since the last reset is exported: the series is a
\* child of the vector, also for a handle that is not detached yet.
ExportOK ==
  /\ \A r \in Registry, s \in Series : s \notin children[r] => local[r][s] = 0
  /\ \A e \in Emitter : handle[e].step # "none" =>
       /\ handle[e].since <= resets[handle[e].reg]
       /\ handle[e].since = resets[handle[e].reg]
            => handle[e].series \in children[handle[e].reg]

TMInv == TypesOK /\ GatherersOK /\ ScrapeOK /\ CurrentOK /\ ExportOK

-----------------------------------------------------------------------------
(* A set of answers with one answer for a registry has as many answers as  *)
(* registries.                                                             *)
LEMMA OneAnswerEach ==
  ASSUME NEW S, IsFiniteSet({x.reg : x \in S}),
         \A x, y \in S : x.reg = y.reg => x = y
  PROVE  Cardinality(S) = Cardinality({x.reg : x \in S})
PROOF
<1> DEFINE R == {x.reg : x \in S}
           f == [x \in S |-> x.reg]
<1>1. \A a, b \in S : f[a] = f[b] => a = b
  OBVIOUS
<1>2. /\ f \in [S -> R]
      /\ \A r \in R : \E x \in S : f[x] = r
  OBVIOUS
<1>3. f \in Bijection(S, R)
  <2> HIDE DEF f, R
  <2> QED BY <1>1, <1>2 DEF Bijection, Injection, IsInjective, Surjection
<1>4. ExistsBijection(R, S)
  <2> HIDE DEF f, R
  <2> QED BY <1>3, Fun_ExistsBijSymmetric DEF ExistsBijection
<1> QED
  BY <1>4, FS_Bijection

(* The registries are finitely many. *)
LEMMA CreatedFinite ==
  ASSUME TypesOK PROVE Created \subseteq Registry /\ IsFiniteSet(Created)
PROOF
<1>1. Len(factories) \in Nat
  BY DEF TypesOK
<1>2. IsFiniteSet(1..Len(factories))
  BY <1>1, FS_Interval
<1> QED BY <1>1, <1>2, TenantMetricsAssumption DEF TypesOK, Created, Registry

(* What a scrape shows is a count. *)
LEMMA ShownIsCount ==
  ASSUME TypesOK, NEW x \in result, NEW s \in Series
  PROVE  Shown(x, s) \in Nat
PROOF
<1>1. x.family \in AnyFamily
  BY DEF TypesOK, AnyAnswer
<1>2. PICK C \in SUBSET Series : x.family \in [C -> Nat]
  BY <1>1 DEF AnyFamily
<1> QED BY <1>2 DEF Shown

LEMMA TMInit == Init => TMInv
PROOF
<1> SUFFICES ASSUME Init PROVE TMInv OBVIOUS
<1> USE TenantMetricsAssumption DEF Init, Counters, Zero, Created
<1>1. TypesOK BY DEF TypesOK, AnyHandle
<1>2. GatherersOK BY DEF GatherersOK
<1>3. ScrapeOK BY DEF ScrapeOK, Read
<1>4. CurrentOK BY DEF CurrentOK, ScrapeIsCurrent
<1>5. ExportOK BY DEF ExportOK, NoHandle
<1> QED BY <1>1, <1>2, <1>3, <1>4, <1>5 DEF TMInv

(* NewMTMetricFactory only appends: the tenants and help texts of the      *)
(* registries that exist stay what they are.                               *)
LEMMA TMNewFactory ==
  ASSUME TMInv, NEW t \in Tenant, NEW h \in Help, NewMTMetricFactory(t, h)
  PROVE  TMInv'
PROOF
<1> USE TenantMetricsAssumption
<1>1. /\ factories' \in Seq(Tenant)
      /\ Len(factories') = Len(factories) + 1
      /\ Len(factories) \in Nat
      /\ Len(factories') <= MaxFactories
      /\ \A r \in Created : factories'[r] = factories[r]
  BY DEF TMInv, TypesOK, NewMTMetricFactory, Created
<1>2. UNCHANGED <<children, local, resets, handle, gatherers, todo, result, scraping, steady,
                  atStart>>
  BY DEF NewMTMetricFactory, emitVars, scrapeVars
<1>3. Created \subseteq Created'
  BY <1>1 DEF Created
<1>4. /\ help' \in Seq(Help) /\ Len(help') = Len(factories')
      /\ \A r \in Created : help'[r] = help[r]
  <2>1. help \in Seq(Help) /\ Len(help) = Len(factories) /\ help' = Append(help, h)
    BY DEF TMInv, TypesOK, NewMTMetricFactory
  <2> QED BY <1>1, <2>1 DEF Created
<1>5. TypesOK'
  <2>1. gatherers' \in [Tenant -> SUBSET Created']
    BY <1>2, <1>3 DEF TMInv, TypesOK
  <2>2. result' \subseteq AnyAnswer'
    BY <1>2, <1>3 DEF TMInv, TypesOK, AnyAnswer
  <2> QED BY <1>1, <1>2, <1>3, <1>4, <2>1, <2>2 DEF TMInv, TypesOK
<1>6. GatherersOK'
  BY <1>1, <1>2 DEF TMInv, TypesOK, GatherersOK
<1>7. todo \cup Read \subseteq Created
  BY DEF TMInv, TypesOK, Read, AnyAnswer
<1>8. ScrapeOK'
  BY <1>1, <1>2, <1>7 DEF TMInv, ScrapeOK, Read
<1>9. CurrentOK'
  <2>1. \A x \in result : help'[x.reg] = help[x.reg]
    BY <1>4 DEF TMInv, TypesOK, AnyAnswer
  <2>2. ScrapeIsCurrent'
    BY <1>2, <2>1 DEF TMInv, CurrentOK, ScrapeIsCurrent
  <2> QED BY <1>2, <2>2 DEF TMInv, CurrentOK
<1>10. ExportOK'
  BY <1>2 DEF TMInv, ExportOK
<1> QED BY <1>5, <1>6, <1>8, <1>9, <1>10 DEF TMInv

(* WithLabelValues makes sure that the series is exported.                 *)
LEMMA TMWithLabelValues ==
  ASSUME TMInv, NEW e \in Emitter, NEW r \in Registry, NEW s \in Series,
         WithLabelValues(e, r, s)
  PROVE  TMInv'
PROOF
<1> DEFINE n == [reg |-> r, series |-> s, since |-> resets[r], step |-> "local"]
<1>1. /\ UNCHANGED <<factories, help, local, resets, gatherers, todo, result, scraping,
                     steady, atStart>>
      /\ handle' = [handle EXCEPT ![e] = n]
      /\ children' = [children EXCEPT ![r] = children[r] \cup {s}]
  BY DEF WithLabelValues, scrapeVars
<1>2. /\ handle \in [Emitter -> AnyHandle \cup {NoHandle}]
      /\ children \in [Registry -> SUBSET Series]
      /\ resets \in [Registry -> Nat]
  BY DEF TMInv, TypesOK
<1>3. n \in AnyHandle
  BY <1>2 DEF AnyHandle
<1>4. /\ n.reg = r /\ n.series = s /\ n.since = resets[r]
  OBVIOUS
<1> HIDE DEF n
<1>5. \A d \in Emitter : handle'[d] = IF d = e THEN n ELSE handle[d]
  BY <1>1, <1>2
<1>6. \A q \in Registry : children[q] \subseteq children'[q]
  BY <1>1, <1>2
<1>7. s \in children'[r]
  BY <1>1, <1>2
<1>8. TypesOK'
  <2>1. handle' \in [Emitter -> AnyHandle \cup {NoHandle}]
    BY <1>1, <1>2, <1>3
  <2>2. children' \in [Registry -> SUBSET Series]
    BY <1>1, <1>2
  <2> QED BY <1>1, <2>1, <2>2 DEF TMInv, TypesOK, Created, AnyAnswer
<1>9. ExportOK'
  <2>1. \A q \in Registry, p \in Series : p \notin children'[q] => local'[q][p] = 0
    BY <1>1, <1>6 DEF TMInv, ExportOK
  <2>2. ASSUME NEW d \in Emitter, handle'[d].step # "none"
        PROVE  /\ handle'[d].since <= resets'[handle'[d].reg]
               /\ handle'[d].since = resets'[handle'[d].reg]
                    => handle'[d].series \in children'[handle'[d].reg]
    <3>1. CASE d = e
      <4>1. handle'[d] = n /\ resets' = resets /\ resets[r] \in Nat
        BY <1>1, <1>2, <1>5, <3>1
      <4> QED BY <1>4, <1>7, <4>1
    <3>2. CASE d # e
      <4>1. handle'[d] = handle[d] /\ resets' = resets
        BY <1>1, <1>5, <3>2
      <4>2. handle[d] \in AnyHandle
        BY <1>2, <2>2, <4>1 DEF NoHandle
      <4>3. handle[d].reg \in Registry
        BY <4>2 DEF AnyHandle
      <4>4. /\ handle[d].since <= resets[handle[d].reg]
            /\ handle[d].since = resets[handle[d].reg]
                 => handle[d].series \in children[handle[d].reg]
        BY <2>2, <4>1 DEF TMInv, ExportOK
      <4> QED BY <1>6, <4>1, <4>3, <4>4
    <3> QED BY <3>1, <3>2
  <2> QED BY <2>1, <2>2 DEF ExportOK
<1>10. CurrentOK'
  BY <1>1 DEF TMInv, CurrentOK, ScrapeIsCurrent
<1> QED BY <1>1, <1>8, <1>9, <1>10 DEF TMInv, GatherersOK, ScrapeOK, Read

(* The two halves of an increment leave factories, gatherers and the       *)
(* scrape alone; the first one counts up, at a series that is exported or  *)
(* nowhere.                                                                *)
LEMMA TMEmit ==
  ASSUME TMInv, NEW e \in Emitter, IncLocal(e) \/ IncGlobal(e)
  PROVE  TMInv'
PROOF
<1> DEFINE h == handle[e]
<1>1. UNCHANGED <<factories, help, children, resets, gatherers, todo, result, scraping,
                  steady, atStart>>
  BY DEF IncLocal, IncGlobal, factoryVars, scrapeVars
<1>2. handle \in [Emitter -> AnyHandle \cup {NoHandle}]
  BY DEF TMInv, TypesOK
<1>3. h \in AnyHandle
  BY <1>2 DEF IncLocal, IncGlobal, NoHandle
<1>4. h.reg \in Registry /\ h.series \in Series /\ h.step # "none"
  BY <1>3 DEF AnyHandle
<1>5. PICK p \in {"local", "global"} : handle' = [handle EXCEPT ![e] = [h EXCEPT !.step = p]]
  BY DEF IncLocal, IncGlobal
<1>6. [h EXCEPT !.step = p] \in AnyHandle
  BY <1>3 DEF AnyHandle
<1>7. /\ [h EXCEPT !.step = p].reg = h.reg /\ [h EXCEPT !.step = p].series = h.series
      /\ [h EXCEPT !.step = p].since = h.since
  BY <1>3 DEF AnyHandle
<1>8. \A d \in Emitter : handle'[d] = IF d = e THEN [h EXCEPT !.step = p] ELSE handle[d]
  BY <1>2, <1>5
<1>9. /\ local' \in [Registry -> Counters]
      /\ \A r \in Registry, s \in Series :
           /\ local'[r][s] >= local[r][s]
           /\ s \notin children[r] => local'[r][s] = local[r][s]
  <2>1. CASE UNCHANGED local
    BY <2>1 DEF TMInv, TypesOK, Counters
  <2>2. CASE local' # local
    <3>1. /\ local' = [local EXCEPT ![h.reg] =
                         [local[h.reg] EXCEPT ![h.series] = local[h.reg][h.series] + 1]]
          /\ h.since = resets[h.reg]
      BY <2>2 DEF IncLocal, IncGlobal, factoryVars
    <3>2. h.series \in children[h.reg]
      BY <1>4, <3>1 DEF TMInv, ExportOK
    <3>3. local \in [Registry -> [Series -> Nat]]
      BY DEF TMInv, TypesOK, Counters
    <3> HIDE DEF h
    <3> QED BY <1>4, <3>1, <3>2, <3>3 DEF Counters
  <2> QED BY <2>1, <2>2
<1>10. TypesOK'
  <2>1. handle' \in [Emitter -> AnyHandle \cup {NoHandle}]
    <3> HIDE DEF h
    <3> QED BY <1>2, <1>5, <1>6
  <2> QED BY <1>1, <1>9, <2>1 DEF TMInv, TypesOK, Created, AnyAnswer
<1>11. CurrentOK'
  <2>1. \A r \in Registry, s \in Series : local'[r][s] >= atStart'[r][s]
    BY <1>1, <1>9 DEF TMInv, TypesOK, CurrentOK, Counters
  <2> QED BY <1>1, <2>1 DEF TMInv, CurrentOK, ScrapeIsCurrent
<1>12. ExportOK'
  <2>1. \A r \in Registry, s \in Series : s \notin children'[r] => local'[r][s] = 0
    BY <1>1, <1>9 DEF TMInv, ExportOK
  <2>2. ASSUME NEW d \in Emitter, handle'[d].step # "none"
        PROVE  /\ handle'[d].since <= resets'[handle'[d].reg]
               /\ handle'[d].since = resets'[handle'[d].reg]
                    => handle'[d].series \in children'[handle'[d].reg]
    <3>1. /\ handle'[d].reg = handle[d].reg /\ handle'[d].series = handle[d].series
          /\ handle'[d].since = handle[d].since /\ handle[d].step # "none"
      BY <1>4, <1>7, <1>8, <2>2
    <3> QED BY <1>1, <3>1 DEF TMInv, ExportOK
  <2> QED BY <2>1, <2>2 DEF ExportOK
<1> QED BY <1>1, <1>10, <1>11, <1>12 DEF TMInv, GatherersOK, ScrapeOK, Read

(* A Reset takes the counters of one vector, and what a scrape has to show *)
(* of them, back to zero, and detaches the handles on it.                  *)
LEMMA TMReset ==
  ASSUME TMInv, NEW r \in Registry, Reset(r)
  PROVE  TMInv'
PROOF
<1>1. UNCHANGED <<factories, help, handle, gatherers, todo, result, scraping, steady>>
  BY DEF Reset, emitVars, scrapeVars
<1>2. /\ local' = [local EXCEPT ![r] = Zero]
      /\ children' = [children EXCEPT ![r] = {}]
      /\ atStart' = [atStart EXCEPT ![r] = Zero]
      /\ resets' = [resets EXCEPT ![r] = resets[r] + 1]
      /\ Zero \in Counters
  BY DEF Reset, Zero, Counters
<1>3. TypesOK'
  BY <1>1, <1>2 DEF TMInv, TypesOK, Created, AnyAnswer
<1>4. CurrentOK'
  <2>1. ASSUME NEW q \in Registry, NEW s \in Series
        PROVE  local'[q][s] >= atStart'[q][s]
    BY <1>2, <2>1 DEF TMInv, TypesOK, CurrentOK, Zero, Counters
  <2>2. ASSUME NEW x \in result, ~x.refused, NEW s \in Series
        PROVE  Shown(x, s) >= atStart'[x.reg][s]
    <3>1. x.reg \in Registry /\ Shown(x, s) \in Nat
      BY CreatedFinite, ShownIsCount DEF TMInv, TypesOK, AnyAnswer
    <3>2. Shown(x, s) >= atStart[x.reg][s]
      BY <2>2 DEF TMInv, CurrentOK, ScrapeIsCurrent
    <3>3. CASE x.reg = r
      BY <1>2, <3>1, <3>3 DEF TMInv, TypesOK, Zero
    <3>4. CASE x.reg # r
      BY <1>2, <3>1, <3>2, <3>4 DEF TMInv, TypesOK
    <3> QED BY <3>3, <3>4
  <2>3. ScrapeIsCurrent'
    <3>1. \A x, y \in result : Merged(x) /\ Merged(y) => help[x.reg] = help[y.reg]
      BY DEF TMInv, CurrentOK, ScrapeIsCurrent
    <3>2. \A x \in result : x.refused =>
            \E y \in result : Merged(y) /\ help[y.reg] # help[x.reg]
      BY DEF TMInv, CurrentOK, ScrapeIsCurrent
    <3> QED BY <1>1, <2>2, <3>1, <3>2 DEF ScrapeIsCurrent, Shown, Merged
  <2> QED BY <2>1, <2>3 DEF CurrentOK
<1>5. ExportOK'
  <2>1. \A q \in Registry, s \in Series : s \notin children'[q] => local'[q][s] = 0
    BY <1>2 DEF TMInv, TypesOK, ExportOK, Zero
  <2>2. ASSUME NEW d \in Emitter, handle[d].step # "none"
        PROVE  /\ handle[d].since <= resets'[handle[d].reg]
               /\ handle[d].since = resets'[handle[d].reg]
                    => handle[d].series \in children'[handle[d].reg]
    <3>1. handle[d] \in AnyHandle
      BY <2>2 DEF TMInv, TypesOK, NoHandle
    <3>2. handle[d].reg \in Registry /\ handle[d].since \in Nat
      BY <3>1 DEF AnyHandle
    <3>3. /\ handle[d].since <= resets[handle[d].reg]
          /\ handle[d].since = resets[handle[d].reg]
               => handle[d].series \in children[handle[d].reg]
      BY <2>2 DEF TMInv, ExportOK
    <3>4. resets \in [Registry -> Nat] /\ children \in [Registry -> SUBSET Series]
      BY DEF TMInv, TypesOK
    <3>5. CASE handle[d].reg = r
      <4>1. resets'[handle[d].reg] = resets[handle[d].reg] + 1 /\ resets[handle[d].reg] \in Nat
        BY <1>2, <3>2, <3>4, <3>5
      <4> QED BY <3>2, <3>3, <4>1
    <3>6. CASE handle[d].reg # r
      BY <1>2, <3>2, <3>3, <3>4, <3>6
    <3> QED BY <3>5, <3>6
  <2> QED BY <1>1, <2>1, <2>2 DEF ExportOK
<1> QED BY <1>1, <1>3, <1>4, <1>5 DEF TMInv, GatherersOK, ScrapeOK, Read

(* Register refuses a tenant that has a registry.                          *)
LEMMA TMRegister ==
  ASSUME TMInv,
         \/ \E r \in Registry : Register(r)
         \/ \E t \in Tenant : Unregister(t)
  PROVE  TMInv'
PROOF
<1>1. UNCHANGED <<factories, help, children, local, resets, handle, todo, result, scraping,
                  atStart>>
  BY DEF Register, Unregister, factoryVars, emitVars, scrapeVars
<1>2. steady' \subseteq steady
  BY DEF Register, Unregister
<1>3. gatherers' \in [Tenant -> SUBSET Created] /\ GatherersOK'
  <2>1. CASE \E r \in Registry : Register(r)
    <3>1. PICK r \in Created : gatherers' = [gatherers EXCEPT ![factories[r]] = {r}]
      BY <2>1 DEF Register
    <3>2. factories[r] \in Tenant
      BY DEF TMInv, TypesOK, Created
    <3> QED BY <1>1, <3>1, <3>2 DEF TMInv, TypesOK, GatherersOK
  <2>2. CASE \E t \in Tenant : Unregister(t)
    <3>1. PICK t \in Tenant : gatherers' = [gatherers EXCEPT ![t] = {}]
      BY <2>2 DEF Unregister
    <3> QED BY <1>1, <3>1 DEF TMInv, TypesOK, GatherersOK
  <2> QED BY <2>1, <2>2
<1>4. TypesOK'
  BY <1>1, <1>3 DEF TMInv, TypesOK, Created, AnyAnswer
<1>5. ScrapeOK'
  BY <1>1, <1>2 DEF TMInv, ScrapeOK, Read
<1>6. CurrentOK' /\ ExportOK'
  BY <1>1 DEF TMInv, CurrentOK, ScrapeIsCurrent, ExportOK
<1> QED BY <1>3, <1>4, <1>5, <1>6 DEF TMInv

(* Gather starts from a copy of the gatherers, one registry of a tenant.   *)
LEMMA TMGather ==
  ASSUME TMInv, Gather PROVE TMInv'
PROOF
<1>1. /\ UNCHANGED <<factories, help, children, local, resets, handle, gatherers>>
      /\ scraping' = TRUE /\ result' = {} /\ atStart' = local
      /\ todo' = UNION Range(gatherers) /\ steady' = todo'
  BY DEF Gather, factoryVars, emitVars
<1>2. \A r \in todo' : \E t \in Tenant : r \in gatherers[t]
  BY <1>1 DEF TMInv, TypesOK, Range
<1>3. TypesOK'
  BY <1>1, <1>2 DEF TMInv, TypesOK, Created
<1>4. GatherersOK'
  BY <1>1 DEF TMInv, GatherersOK
<1>5. Read' = {}
  BY <1>1 DEF Read
<1>6. \A q, r \in todo' : factories[q] = factories[r] => q = r
  BY <1>2 DEF TMInv, GatherersOK
<1>7. ScrapeOK'
  BY <1>1, <1>5, <1>6 DEF ScrapeOK
<1>8. CurrentOK'
  BY <1>1 DEF CurrentOK, ScrapeIsCurrent, TMInv, TypesOK, Counters
<1>9. ExportOK'
  BY <1>1 DEF TMInv, ExportOK
<1> QED BY <1>3, <1>4, <1>7, <1>8, <1>9 DEF TMInv

(* What a registry adds to the answers: it is refused for a family before  *)
(* it, or in the result with all the registry has counted.                 *)
LEMMA AnswerOf ==
  ASSUME TMInv, NEW r \in Created
  PROVE  LET a == Answer(r, Family(r))
         IN  /\ a \in AnyAnswer
             /\ a.reg = r
             /\ a.refused => \E y \in result : Merged(y) /\ help[y.reg] # help[r]
             /\ Merged(a) => \A y \in result : Merged(y) => help[y.reg] = help[r]
             /\ ~a.refused => \A s \in Series : Shown(a, s) = local[r][s]
             /\ DOMAIN a.family \subseteq Series
             /\ \A s \in DOMAIN a.family : a.family[s] = local[r][s]
PROOF
<1> DEFINE f == Family(r)
           no == DOMAIN f # {} /\ \E x \in result : Merged(x) /\ help[x.reg] # help[r]
           a == Answer(r, f)
<1>1. r \in Registry
  BY CreatedFinite DEF TMInv
<1>2. /\ children[r] \subseteq Series
      /\ \A s \in Series : local[r][s] \in Nat
      /\ \A s \in Series : s \notin children[r] => local[r][s] = 0
  BY <1>1 DEF TMInv, TypesOK, Counters, ExportOK
<1>3. /\ f = [s \in children[r] |-> local[r][s]] /\ DOMAIN f = children[r]
      /\ \A s \in children[r] : f[s] = local[r][s]
  BY DEF Family
<1>4. f \in AnyFamily
  <2>1. f \in [children[r] -> Nat]
    BY <1>2, <1>3
  <2> HIDE DEF f
  <2> QED BY <1>2, <2>1 DEF AnyFamily
<1>5. a = [reg |-> r, family |-> f, refused |-> no]
  BY Zenon DEF Answer
<1>6. no \in BOOLEAN
  BY Zenon
<1> HIDE DEF f, no, a
<1>7. a.reg = r /\ a.family = f /\ a.refused = no
  BY <1>5
<1>8. a \in AnyAnswer
  BY <1>4, <1>5, <1>6 DEF AnyAnswer
<1>9. a.refused => \E y \in result : Merged(y) /\ help[y.reg] # help[r]
  BY <1>7 DEF no
<1>10. Merged(a) => \A y \in result : Merged(y) => help[y.reg] = help[r]
  BY <1>7 DEF no, Merged
<1>11. ASSUME ~a.refused, NEW s \in Series PROVE Shown(a, s) = local[r][s]
  BY <1>2, <1>3, <1>7, <1>11 DEF Shown, Merged
<1> QED BY <1>2, <1>3, <1>7, <1>8, <1>9, <1>10, <1>11 DEF a, f

(* A registry that has been read moves from todo to the answers.           *)
LEMMA TMGatherNext ==
  ASSUME TMInv, GatherNext PROVE TMInv'
PROOF
<1>1. PICK r \in todo : /\ todo' = todo \ {r}
                        /\ result' = result \cup {Answer(r, Family(r))}
  BY DEF GatherNext
<1>2. /\ UNCHANGED <<factories, help, children, local, resets, handle, gatherers, scraping,
                     steady, atStart>>
      /\ scraping
  BY DEF GatherNext, factoryVars, emitVars
<1>3. r \in Created /\ r \in Registry /\ local[r] \in Counters
  BY CreatedFinite DEF TMInv, TypesOK
<1> DEFINE a == Answer(r, Family(r))
<1>4. /\ a \in AnyAnswer /\ a.reg = r
      /\ a.refused => \E y \in result : Merged(y) /\ help[y.reg] # help[r]
      /\ Merged(a) => \A y \in result : Merged(y) => help[y.reg] = help[r]
      /\ ~a.refused => \A s \in Series : Shown(a, s) = local[r][s]
  BY <1>3, AnswerOf
<1>5. result' = result \cup {a}
  BY <1>1
<1> HIDE DEF a
<1>6. TypesOK'
  <2>1. result' \subseteq AnyAnswer'
    BY <1>2, <1>4, <1>5 DEF TMInv, TypesOK, AnyAnswer, Created
  <2> QED BY <1>1, <1>2, <2>1 DEF TMInv, TypesOK, Created
<1>7. GatherersOK' /\ ExportOK'
  BY <1>2 DEF TMInv, GatherersOK, ExportOK
<1>8. Read' = Read \cup {r}
  BY <1>4, <1>5 DEF Read
<1>9. ScrapeOK'
  <2>1. todo' \cup Read' = todo \cup Read /\ todo' \cap Read' = {}
    BY <1>1, <1>8 DEF TMInv, ScrapeOK
  <2>2. \A x \in result : x.reg # r
    BY DEF TMInv, ScrapeOK, Read
  <2>3. \A x, y \in result' : x.reg = y.reg => x = y
    BY <1>4, <1>5, <2>2 DEF TMInv, ScrapeOK
  <2> QED BY <1>2, <2>1, <2>3 DEF TMInv, ScrapeOK
<1>10. ScrapeIsCurrent'
  <2>1. /\ \A x, y \in result : Merged(x) /\ Merged(y) => help[x.reg] = help[y.reg]
        /\ \A x \in result : x.refused =>
             \E y \in result : Merged(y) /\ help[y.reg] # help[x.reg]
        /\ \A x \in result : ~x.refused => \A s \in Series : Shown(x, s) >= atStart[x.reg][s]
    BY DEF TMInv, CurrentOK, ScrapeIsCurrent
  <2>2. \A x, y \in result' : Merged(x) /\ Merged(y) => help[x.reg] = help[y.reg]
    BY <1>4, <1>5, <2>1
  <2>3. \A x \in result' : x.refused =>
          \E y \in result' : Merged(y) /\ help[y.reg] # help[x.reg]
    BY <1>4, <1>5, <2>1
  <2>4. ~a.refused => \A s \in Series : Shown(a, s) >= atStart[r][s]
    BY <1>3, <1>4 DEF TMInv, CurrentOK
  <2>5. \A x \in result' : ~x.refused => \A s \in Series : Shown(x, s) >= atStart[x.reg][s]
    BY <1>4, <1>5, <2>1, <2>4
  <2> QED BY <1>2, <2>2, <2>3, <2>5 DEF ScrapeIsCurrent, Shown, Merged
<1>11. CurrentOK'
  BY <1>2, <1>10 DEF TMInv, CurrentOK
<1> QED BY <1>6, <1>7, <1>9, <1>11 DEF TMInv

LEMMA TMGatherReturns ==
  ASSUME TMInv, GatherReturns PROVE TMInv'
PROOF
<1>1. /\ UNCHANGED <<factories, help, children, local, resets, handle, gatherers, todo>>
      /\ todo = {} /\ result' = {} /\ steady' = {} /\ scraping' = FALSE
      /\ atStart' = [r \in Registry |-> Zero] /\ Zero \in Counters
  BY DEF GatherReturns, factoryVars, emitVars, Zero, Counters
<1>2. TypesOK'
  BY <1>1 DEF TMInv, TypesOK, Created
<1>3. CurrentOK'
  BY <1>1 DEF TMInv, TypesOK, CurrentOK, ScrapeIsCurrent, Counters, Zero
<1>4. ExportOK'
  BY <1>1 DEF TMInv, ExportOK
<1> QED BY <1>1, <1>2, <1>3, <1>4 DEF TMInv, GatherersOK, ScrapeOK, Read

LEMMA TMNext == TMInv /\ [Next]_vars => TMInv'
PROOF
<1> SUFFICES ASSUME TMInv, [Next]_vars PROVE TMInv' OBVIOUS
<1>1. CASE \E t \in Tenant, h \in Help : NewMTMetricFactory(t, h)
  BY <1>1, TMNewFactory
<1>2. CASE \E e \in Emitter, r \in Registry, s \in Series : WithLabelValues(e, r, s)
  BY <1>2, TMWithLabelValues
<1>3. CASE \E e \in Emitter : IncLocal(e) \/ IncGlobal(e)
  BY <1>3, TMEmit
<1>4. CASE \E r \in Registry : Reset(r)
  BY <1>4, TMReset
<1>5. CASE (\E r \in Registry : Register(r)) \/ (\E t \in Tenant : Unregister(t))
  BY <1>5, TMRegister
<1>6. CASE Gather BY <1>6, TMGather
<1>7. CASE GatherNext BY <1>7, TMGatherNext
<1>8. CASE GatherReturns BY <1>8, TMGatherReturns
<1>9. CASE UNCHANGED vars
  <2>1. UNCHANGED <<factories, help, children, local, resets, handle, gatherers, todo, result,
                    scraping, steady, atStart>>
    BY <1>9 DEF vars, factoryVars, emitVars, scrapeVars
  <2>2. TypesOK' /\ GatherersOK' /\ ScrapeOK'
    BY <2>1 DEF TMInv, TypesOK, Created, AnyAnswer, GatherersOK, ScrapeOK, Read
  <2>3. CurrentOK' /\ ExportOK'
    BY <2>1 DEF TMInv, CurrentOK, ScrapeIsCurrent, ExportOK
  <2> QED BY <2>2, <2>3 DEF TMInv
<1> QED BY <1>1, <1>2, <1>3, <1>4, <1>5, <1>6, <1>7, <1>8, <1>9 DEF Next

(* The inductive invariant holds in every reachable state, whatever the    *)
(* interleaving of set-up, emission, reset, registration and scrapes.      *)
THEOREM ScrapeInvariant == Safe => []TMInv
PROOF
BY TMInit, TMNext, PTL DEF Safe

(* A scrape reads exactly one registry of each tenant it covers, once, and *)
(* every registry that stays registered while Gather runs without the      *)
(* lock is among them.                                                     *)
THEOREM ScrapesAreComplete == Safe => []ScrapeComplete
PROOF
<1>1. TMInv => ScrapeComplete
  <2> SUFFICES ASSUME TMInv PROVE ScrapeComplete OBVIOUS
  <2>1. IsFiniteSet(Read)
    <3>1. Read \subseteq Created BY DEF TMInv, TypesOK, Read, AnyAnswer
    <3> QED BY <3>1, CreatedFinite, FS_Subset DEF TMInv
  <2>2. Cardinality(result) = Cardinality(Read)
    BY <2>1, OneAnswerEach DEF TMInv, ScrapeOK, Read
  <2> QED BY <2>2 DEF TMInv, ScrapeOK, ScrapeComplete, Read
<1> QED BY <1>1, ScrapeInvariant, PTL

(* What the merged result has of a registry is never older than the        *)
(* scrape, except for what a Reset took away since; what it leaves out has *)
(* another help text than a family in the result, and is reported.         *)
THEOREM ScrapesAreCurrent == Safe => []ScrapeIsCurrent
PROOF
<1>1. TMInv => ScrapeIsCurrent BY DEF TMInv, CurrentOK
<1> QED BY <1>1, ScrapeInvariant, PTL

-----------------------------------------------------------------------------
(* Dual emission.                                                          *)

\* What each registry has counted in a series, still exported or not.
Counted(s) == [r \in Registry |-> local[r][s] + unseen[r][s]]

EmitTypes ==
  /\ unseen \in [Registry -> Counters]
  /\ global \in Counters
  /\ emitted \in 0..MaxEmits
  /\ scraping \in BOOLEAN

\* Every reset counts towards the bound, so a handle is not younger.
ResetsOK ==
  /\ SumOf(resets, Registry) <= MaxResets
  /\ \A e \in Emitter : handle[e].step # "none" => handle[e].since <= MaxResets

\* The books balance in every series, within what has been emitted.
Balanced ==
  \A s \in Series :
    /\ IsFiniteSet(InFlight(s))
    /\ global[s] + Cardinality(InFlight(s)) = SumOf(Counted(s), Registry)
    /\ SumOf(Counted(s), Registry) <= emitted

\* A scrape shows no more than that.
AnswersOK == \A x \in result : \A s \in DOMAIN x.family : x.family[s] <= emitted

EMInv == TMInv /\ EmitTypes /\ ResetsOK /\ Balanced /\ AnswersOK

LEMMA RegistryFinite == IsFiniteSet(Registry)
PROOF
BY TenantMetricsAssumption, FS_Interval DEF Registry

LEMMA CountedType ==
  ASSUME TMInv, EmitTypes, NEW s \in Series
  PROVE  /\ Counted(s) \in [Registry -> Nat]
         /\ \A r \in Registry : /\ Counted(s)[r] = local[r][s] + unseen[r][s]
                                /\ local[r][s] \in Nat /\ unseen[r][s] \in Nat
PROOF
<1>1. \A r \in Registry : local[r][s] \in Nat /\ unseen[r][s] \in Nat
  BY DEF TMInv, TypesOK, EmitTypes, Counters
<1> QED BY <1>1 DEF Counted

(* The sum in NothingLost is the sum of Counted. *)
LEMMA CountedSum ==
  ASSUME NEW s
  PROVE  MapThenSumSet(LAMBDA r : local[r][s] + unseen[r][s], Registry)
           = SumOf(Counted(s), Registry)
PROOF
<1> DEFINE F == Counted(s)
           c(r) == local[r][s] + unseen[r][s]
           Rec(h) == h = [u \in SUBSET Registry |->
                            IF u = {} THEN 0 ELSE c(Pick(u)) + h[Rest(u)]]
<1>1. PICK g : IsSum(g, F, Registry) /\ SumOf(F, Registry) = g[Registry]
  BY RegistryFinite, SumOfIsSum
<1>2. ASSUME NEW h PROVE Rec(h) <=> IsSum(h, F, Registry)
  <2>1. \A r \in Registry : F[r] = c(r)
    BY DEF Counted
  <2>2. \A u \in SUBSET Registry : u # {} => Pick(u) \in Registry
    BY RestIsSmaller
  <2> HIDE DEF F, c
  <2>3. [u \in SUBSET Registry |-> IF u = {} THEN 0 ELSE c(Pick(u)) + h[Rest(u)]]
          = [u \in SUBSET Registry |-> IF u = {} THEN 0 ELSE F[Pick(u)] + h[Rest(u)]]
    BY <2>1, <2>2
  <2> QED BY <2>3, Zenon DEF IsSum
<1>3. PICK h : Rec(h) /\ MapThenSumSet(LAMBDA r : c(r), Registry) = h[Registry]
  <2>1. \E h : Rec(h)
    <3> HIDE DEF Rec, F
    <3> QED BY <1>1, <1>2
  <2> QED BY <2>1, Zenon DEF MapThenSumSet, MapThenFoldSet, Pick, Rest
<1>4. IsSum(h, F, Registry)
  <2> HIDE DEF Rec, F
  <2> QED BY <1>2, <1>3
<1>5. h[Registry] = g[Registry]
  <2> HIDE DEF F
  <2> QED BY <1>1, <1>4, RegistryFinite, SumUnique
<1> QED BY <1>1, <1>3, <1>5, Zenon

(* The bounds of TypeOK follow from the sums.                              *)
LEMMA EMImplies == EMInv => NothingLost
PROOF
<1> SUFFICES ASSUME EMInv PROVE NothingLost OBVIOUS
<1> USE TenantMetricsAssumption
<1>1. \A s \in Series :
        /\ Cardinality(InFlight(s)) \in Nat
        /\ SumOf(Counted(s), Registry) \in Nat
        /\ \A r \in Registry : /\ local[r][s] \in 0..MaxEmits
                               /\ unseen[r][s] \in 0..MaxEmits
                               /\ atStart[r][s] \in 0..MaxEmits
        /\ global[s] \in 0..MaxEmits
  <2> SUFFICES ASSUME NEW s \in Series
      PROVE /\ Cardinality(InFlight(s)) \in Nat
            /\ SumOf(Counted(s), Registry) \in Nat
            /\ \A r \in Registry : /\ local[r][s] \in 0..MaxEmits
                                   /\ unseen[r][s] \in 0..MaxEmits
                                   /\ atStart[r][s] \in 0..MaxEmits
            /\ global[s] \in 0..MaxEmits
    OBVIOUS
  <2>1. Cardinality(InFlight(s)) \in Nat
    BY FS_CardinalityType DEF EMInv, Balanced
  <2>2. /\ SumOf(Counted(s), Registry) \in Nat
        /\ \A r \in Registry : Counted(s)[r] <= SumOf(Counted(s), Registry)
    BY CountedType, RegistryFinite, SumOfNaturals DEF EMInv
  <2>3. SumOf(Counted(s), Registry) <= MaxEmits
    BY <2>2 DEF EMInv, Balanced, EmitTypes
  <2>4. global[s] \in Nat /\ global[s] <= MaxEmits
    BY <2>1, <2>2, <2>3 DEF EMInv, Balanced, EmitTypes, Counters
  <2>5. ASSUME NEW r \in Registry
        PROVE  /\ local[r][s] \in 0..MaxEmits
               /\ unseen[r][s] \in 0..MaxEmits
               /\ atStart[r][s] \in 0..MaxEmits
    <3>1. /\ local[r][s] \in Nat /\ unseen[r][s] \in Nat
          /\ local[r][s] + unseen[r][s] <= MaxEmits
      BY <2>2, <2>3, CountedType DEF EMInv
    <3>2. atStart[r][s] \in Nat /\ local[r][s] >= atStart[r][s]
      BY DEF EMInv, TMInv, TypesOK, CurrentOK, Counters
    <3> QED BY <3>1, <3>2
  <2> QED BY <2>1, <2>2, <2>4, <2>5
<1>2. resets \in [Registry -> 0..MaxResets]
  <2>1. resets \in [Registry -> Nat]
    BY DEF EMInv, TMInv, TypesOK
  <2>2. /\ SumOf(resets, Registry) \in Nat
        /\ \A r \in Registry : resets[r] <= SumOf(resets, Registry)
    BY <2>1, RegistryFinite, SumOfNaturals
  <2> QED BY <2>1, <2>2 DEF EMInv, ResetsOK
<1>3. handle \in [Emitter -> Handle \cup {NoHandle}]
  <2>1. ASSUME NEW e \in Emitter PROVE handle[e] \in Handle \cup {NoHandle}
    <3>1. handle[e] \in AnyHandle \cup {NoHandle}
      BY DEF EMInv, TMInv, TypesOK
    <3>2. CASE handle[e] \in AnyHandle
      <4>1. handle[e].since \in Nat /\ handle[e].since <= MaxResets
        BY <3>2 DEF EMInv, ResetsOK, AnyHandle
      <4> QED BY <3>2, <4>1 DEF AnyHandle, Handle
    <3> QED BY <3>1, <3>2
  <2>2. handle \in [Emitter -> AnyHandle \cup {NoHandle}]
    BY DEF EMInv, TMInv, TypesOK
  <2> QED BY <2>1, <2>2
<1>4. TypeOK
  <2>1. Created \subseteq Registry
    BY CreatedFinite DEF EMInv, TMInv
  <2>2. /\ local \in [Registry -> [Series -> 0..MaxEmits]]
        /\ unseen \in [Registry -> [Series -> 0..MaxEmits]]
        /\ atStart \in [Registry -> [Series -> 0..MaxEmits]]
        /\ global \in [Series -> 0..MaxEmits]
    BY <1>1 DEF EMInv, TMInv, TypesOK, EmitTypes, Counters
  <2>3. result \subseteq [reg : Registry, refused : BOOLEAN,
                          family : UNION {[C -> 0..MaxEmits] : C \in SUBSET Series}]
    <3>1. ASSUME NEW x \in result
          PROVE  x \in [reg : Registry, refused : BOOLEAN,
                        family : UNION {[C -> 0..MaxEmits] : C \in SUBSET Series}]
      <4>1. x \in AnyAnswer
        BY DEF EMInv, TMInv, TypesOK
      <4>2. PICK C \in SUBSET Series : x.family \in [C -> Nat]
        BY <4>1 DEF AnyAnswer, AnyFamily
      <4>3. \A s \in C : x.family[s] \in Nat /\ x.family[s] <= MaxEmits
        BY <4>2 DEF EMInv, AnswersOK, EmitTypes
      <4>4. x.family \in [C -> 0..MaxEmits]
        BY <4>2, <4>3
      <4> QED BY <2>1, <4>1, <4>4 DEF AnyAnswer
    <3> QED BY <3>1
  <2>4. /\ factories \in Seq(Tenant) /\ gatherers \in [Tenant -> SUBSET Registry]
        /\ todo \subseteq Registry /\ steady \subseteq Registry
        /\ help \in Seq(Help) /\ Len(help) = Len(factories)
        /\ children \in [Registry -> SUBSET Series]
    <3>1. Read \subseteq Created
      BY DEF EMInv, TMInv, TypesOK, Read, AnyAnswer
    <3> QED BY <2>1, <3>1 DEF EMInv, TMInv, TypesOK, ScrapeOK
  <2> QED BY <1>2, <1>3, <2>1, <2>2, <2>3, <2>4 DEF TypeOK, EMInv, EmitTypes
<1>5. ASSUME NEW s \in Series
      PROVE  global[s] + Cardinality(InFlight(s)) =
               MapThenSumSet(LAMBDA r : local[r][s] + unseen[r][s], Registry)
  <2>1. global[s] + Cardinality(InFlight(s)) = SumOf(Counted(s), Registry)
    BY DEF EMInv, Balanced
  <2> QED BY <2>1, CountedSum, Zenon
<1> QED BY <1>4, <1>5, Zenon DEF NothingLost

LEMMA EMInit == Init => EMInv
PROOF
<1> SUFFICES ASSUME Init PROVE EMInv OBVIOUS
<1> USE TenantMetricsAssumption
<1>1. TMInv BY TMInit
<1>2. EmitTypes
  <2>1. scraping \in BOOLEAN
    BY Zenon DEF Init
  <2>2. unseen \in [Registry -> Counters] /\ global \in Counters /\ emitted \in 0..MaxEmits
    BY DEF Init, Zero, Counters
  <2> QED BY <2>1, <2>2 DEF EmitTypes
<1>3. ResetsOK
  <2>1. resets \in [Registry -> Nat] /\ \A r \in Registry : resets[r] = 0
    BY DEF Init
  <2>2. SumOf(resets, Registry) = 0
    BY <2>1, RegistryFinite, SumOfNaturals
  <2> QED BY <2>2 DEF Init, ResetsOK, NoHandle
<1>4. Balanced
  <2> SUFFICES ASSUME NEW s \in Series
      PROVE /\ IsFiniteSet(InFlight(s))
            /\ global[s] + Cardinality(InFlight(s)) = SumOf(Counted(s), Registry)
            /\ SumOf(Counted(s), Registry) <= emitted
    BY DEF Balanced
  <2>1. InFlight(s) = {}
    BY DEF Init, InFlight, NoHandle
  <2>2. \A r \in Registry : Counted(s)[r] = 0
    BY DEF Init, Counted, Zero
  <2>3. SumOf(Counted(s), Registry) = 0
    BY <1>1, <1>2, <2>2, CountedType, RegistryFinite, SumOfNaturals
  <2> QED BY <2>1, <2>3, FS_EmptySet DEF Init, Zero
<1>5. AnswersOK BY DEF Init, AnswersOK
<1> QED BY <1>1, <1>2, <1>3, <1>4, <1>5 DEF EMInv

(* Steps that emit nothing and leave the handles' progress and the sum of  *)
(* every series alone keep the books balanced.                             *)
LEMMA SameBooks ==
  ASSUME Balanced, UNCHANGED <<global, emitted>>,
         \A s \in Series : Counted(s)' = Counted(s) /\ InFlight(s)' = InFlight(s)
  PROVE  Balanced'
PROOF
BY DEF Balanced

(* Setting up tenants, registering them and scraping emits nothing.        *)
LEMMA EMScrape ==
  ASSUME EMInv,
         \/ \E t \in Tenant, h \in Help : NewMTMetricFactory(t, h)
         \/ \E t \in Tenant : Unregister(t)
         \/ \E r \in Registry : Register(r)
         \/ Gather \/ GatherNext \/ GatherReturns
         \/ UNCHANGED vars
  PROVE  EMInv'
PROOF
<1>1. TMInv'
  BY TMNext DEF EMInv, Next
<1>2. UNCHANGED <<local, resets, unseen, global, handle, emitted>> /\ scraping' \in BOOLEAN
  BY DEF NewMTMetricFactory, Unregister, Register, Gather, GatherNext, GatherReturns,
         vars, factoryVars, emitVars, scrapeVars, EMInv, EmitTypes
<1>3. EmitTypes'
  BY <1>2 DEF EMInv, EmitTypes
<1>4. ResetsOK'
  BY <1>2 DEF EMInv, ResetsOK
<1>5. Balanced'
  <2>1. \A s \in Series : Counted(s)' = Counted(s) /\ InFlight(s)' = InFlight(s)
    BY <1>2 DEF Counted, InFlight
  <2> QED BY <1>2, <2>1, SameBooks DEF EMInv
<1>6. AnswersOK'
  <2>1. CASE result' \subseteq result
    BY <1>2, <2>1 DEF EMInv, AnswersOK
  <2>2. CASE GatherNext
    <3>1. PICK r \in todo : result' = result \cup {Answer(r, Family(r))}
      BY <2>2 DEF GatherNext
    <3>2. r \in Registry /\ r \in Created
      BY CreatedFinite DEF EMInv, TMInv, TypesOK
    <3>3. ASSUME NEW s \in Series PROVE local[r][s] <= emitted
      <4>1. /\ local[r][s] \in Nat /\ unseen[r][s] \in Nat
            /\ Counted(s)[r] = local[r][s] + unseen[r][s]
        BY <3>2, CountedType DEF EMInv
      <4>2. /\ Counted(s)[r] <= SumOf(Counted(s), Registry)
            /\ SumOf(Counted(s), Registry) \in Nat
        BY <3>2, CountedType, RegistryFinite, SumOfNaturals DEF EMInv
      <4>3. SumOf(Counted(s), Registry) <= emitted /\ emitted \in Nat
        BY DEF EMInv, Balanced, EmitTypes
      <4> QED BY <4>1, <4>2, <4>3
    <3> DEFINE a == Answer(r, Family(r))
    <3>4. DOMAIN a.family \subseteq Series /\ \A s \in DOMAIN a.family : a.family[s] = local[r][s]
      BY <3>2, AnswerOf DEF EMInv
    <3>5. result' = result \cup {a}
      BY <3>1
    <3> HIDE DEF a
    <3> QED BY <1>2, <3>3, <3>4, <3>5 DEF EMInv, AnswersOK
  <2> QED BY <2>1, <2>2 DEF NewMTMetricFactory, Unregister, Register, Gather,
                            GatherReturns, vars, scrapeVars
<1> QED BY <1>1, <1>3, <1>4, <1>5, <1>6 DEF EMInv

(* WithLabelValues replaces a handle that has nothing under way.           *)
LEMMA EMWithLabelValues ==
  ASSUME EMInv, NEW e \in Emitter, NEW r \in Registry, NEW s \in Series,
         WithLabelValues(e, r, s)
  PROVE  EMInv'
PROOF
<1> USE TenantMetricsAssumption
<1> DEFINE n == [reg |-> r, series |-> s, since |-> resets[r], step |-> "local"]
<1>1. TMInv'
  BY TMNext DEF EMInv, Next
<1>2. /\ UNCHANGED <<local, resets, unseen, global, emitted, result, scraping>>
      /\ handle' = [handle EXCEPT ![e] = n] /\ handle[e].step # "global"
  BY DEF WithLabelValues, scrapeVars
<1>3. handle \in [Emitter -> AnyHandle \cup {NoHandle}] /\ resets \in [Registry -> Nat]
  BY DEF EMInv, TMInv, TypesOK
<1>4. \A d \in Emitter : handle'[d] = IF d = e THEN n ELSE handle[d]
  BY <1>2, <1>3
<1>5. ResetsOK'
  <2>1. resets[r] <= SumOf(resets, Registry) /\ SumOf(resets, Registry) \in Nat
    BY <1>3, RegistryFinite, SumOfNaturals
  <2>2. resets[r] <= MaxResets
    BY <1>3, <2>1 DEF EMInv, ResetsOK
  <2> QED BY <1>2, <1>4, <2>2 DEF EMInv, ResetsOK
<1>6. Balanced'
  <2>1. \A p \in Series : InFlight(p)' = InFlight(p)
    BY <1>2, <1>4 DEF InFlight
  <2>2. \A p \in Series : Counted(p)' = Counted(p)
    BY <1>2 DEF Counted
  <2> QED BY <1>2, <2>1, <2>2, SameBooks DEF EMInv
<1> QED BY <1>1, <1>2, <1>5, <1>6 DEF EMInv, EmitTypes, AnswersOK

(* A Reset moves what the vector has counted from one pocket to the other. *)
LEMMA EMReset ==
  ASSUME EMInv, NEW r \in Registry, Reset(r)
  PROVE  EMInv'
PROOF
<1> USE TenantMetricsAssumption
<1>1. TMInv'
  BY TMNext DEF EMInv, Next
<1>2. /\ UNCHANGED <<global, handle, emitted, result, scraping>>
      /\ local' = [local EXCEPT ![r] = Zero]
      /\ unseen' = [unseen EXCEPT ![r] = [s \in Series |-> unseen[r][s] + local[r][s]]]
      /\ resets' = [resets EXCEPT ![r] = resets[r] + 1]
      /\ SumOf(resets, Registry) < MaxResets
  BY DEF Reset, emitVars, scrapeVars, SumOf
<1>3. /\ local \in [Registry -> [Series -> Nat]] /\ unseen \in [Registry -> [Series -> Nat]]
      /\ resets \in [Registry -> Nat]
  BY DEF EMInv, TMInv, TypesOK, EmitTypes, Counters
<1>4. EmitTypes'
  BY <1>2, <1>3 DEF EMInv, EmitTypes, Counters
<1>5. ResetsOK'
  <2>1. resets' \in [Registry -> Nat] /\ resets'[r] = resets[r] + 1
    BY <1>2, <1>3
  <2>2. \A q \in Registry \ {r} : resets'[q] = resets[q]
    BY <1>2, <1>3
  <2>3. SumOf(resets', Registry) = SumOf(resets, Registry) + 1
    BY <1>3, <2>1, <2>2, RegistryFinite, SumIncrement
  <2>4. SumOf(resets, Registry) \in Nat
    BY <1>3, RegistryFinite, SumOfNaturals
  <2>5. SumOf(resets', Registry) <= MaxResets
    BY <1>2, <2>3, <2>4
  <2> QED BY <1>2, <2>5 DEF EMInv, ResetsOK
<1>6. Balanced'
  <2>1. \A s \in Series : InFlight(s)' = InFlight(s)
    BY <1>2 DEF InFlight
  <2>2. ASSUME NEW s \in Series PROVE Counted(s)' = Counted(s)
    <3>1. ASSUME NEW q \in Registry
          PROVE  local'[q][s] + unseen'[q][s] = local[q][s] + unseen[q][s]
      <4>1. CASE q = r
        BY <1>2, <1>3, <4>1 DEF Zero
      <4>2. CASE q # r
        BY <1>2, <1>3, <4>2
      <4> QED BY <4>1, <4>2
    <3> QED BY <3>1 DEF Counted
  <2> QED BY <1>2, <2>1, <2>2, SameBooks DEF EMInv
<1> QED BY <1>1, <1>2, <1>4, <1>5, <1>6 DEF EMInv, AnswersOK

(* The first half of an increment counts once at the tenant, wherever it   *)
(* ends up, and puts the emitter in flight.                                *)
LEMMA EMIncLocal ==
  ASSUME EMInv, NEW e \in Emitter, IncLocal(e)
  PROVE  EMInv'
PROOF
<1> USE TenantMetricsAssumption
<1> DEFINE h == handle[e]
           q == h.reg
           p == h.series
<1>1. TMInv'
  BY TMNext DEF EMInv, Next
<1>2. /\ UNCHANGED <<resets, global, result, scraping>>
      /\ emitted' = emitted + 1 /\ emitted < MaxEmits
      /\ handle' = [handle EXCEPT ![e] = [h EXCEPT !.step = "global"]]
      /\ h.step = "local"
  BY DEF IncLocal, scrapeVars
<1>3. /\ handle \in [Emitter -> AnyHandle \cup {NoHandle}]
      /\ local \in [Registry -> [Series -> Nat]] /\ unseen \in [Registry -> [Series -> Nat]]
      /\ emitted \in Nat
  BY DEF EMInv, TMInv, TypesOK, EmitTypes, Counters
<1>4. h \in AnyHandle
  BY <1>2, <1>3 DEF NoHandle
<1>5. q \in Registry /\ p \in Series
  BY <1>4 DEF AnyHandle
<1>6. \/ /\ local' = [local EXCEPT ![q] = [local[q] EXCEPT ![p] = local[q][p] + 1]]
         /\ unseen' = unseen
      \/ /\ unseen' = [unseen EXCEPT ![q] = [unseen[q] EXCEPT ![p] = unseen[q][p] + 1]]
         /\ local' = local
  BY DEF IncLocal
<1>7. \A d \in Emitter : handle'[d] = IF d = e THEN [h EXCEPT !.step = "global"] ELSE handle[d]
  BY <1>2, <1>3
<1>8. EmitTypes'
  <2>1. unseen' \in [Registry -> Counters]
    <3> HIDE DEF q, p
    <3> QED BY <1>3, <1>5, <1>6 DEF Counters
  <2> QED BY <1>2, <1>3, <2>1 DEF EMInv, EmitTypes
<1>9. ResetsOK'
  <2>1. [h EXCEPT !.step = "global"].since = h.since
    BY <1>4 DEF AnyHandle
  <2> QED BY <1>2, <1>7, <2>1 DEF EMInv, ResetsOK
<1>10. ASSUME NEW s \in Series
       PROVE  /\ Counted(s) \in [Registry -> Nat] /\ Counted(s)' \in [Registry -> Nat]
              /\ s # p => Counted(s)' = Counted(s)
              /\ s = p => /\ Counted(s)'[q] = Counted(s)[q] + 1
                          /\ \A r \in Registry \ {q} : Counted(s)'[r] = Counted(s)[r]
  <2> HIDE DEF q, p
  <2>1. ASSUME NEW r \in Registry
        PROVE  /\ local[r][s] \in Nat /\ unseen[r][s] \in Nat
               /\ local'[r][s] + unseen'[r][s] =
                    IF r = q /\ s = p THEN local[r][s] + unseen[r][s] + 1
                                      ELSE local[r][s] + unseen[r][s]
    <3>1. CASE local' = [local EXCEPT ![q] = [local[q] EXCEPT ![p] = local[q][p] + 1]]
               /\ unseen' = unseen
      BY <1>3, <1>5, <3>1
    <3>2. CASE unseen' = [unseen EXCEPT ![q] = [unseen[q] EXCEPT ![p] = unseen[q][p] + 1]]
               /\ local' = local
      BY <1>3, <1>5, <3>2
    <3> QED BY <1>6, <3>1, <3>2
  <2>2. \A r \in Registry : /\ Counted(s)[r] = local[r][s] + unseen[r][s]
                            /\ Counted(s)'[r] = local'[r][s] + unseen'[r][s]
    BY DEF Counted
  <2>3. Counted(s) \in [Registry -> Nat] /\ Counted(s)' \in [Registry -> Nat]
    BY <2>1 DEF Counted
  <2>4. s # p => Counted(s)' = Counted(s)
    BY <2>1 DEF Counted
  <2> QED BY <1>5, <2>1, <2>2, <2>3, <2>4
<1>11. ASSUME NEW s \in Series
       PROVE  /\ s # p => InFlight(s)' = InFlight(s)
              /\ s = p => InFlight(s)' = InFlight(s) \cup {e} /\ e \notin InFlight(s)
  <2>1. [h EXCEPT !.step = "global"].series = p /\ [h EXCEPT !.step = "global"].step = "global"
    BY <1>4 DEF AnyHandle
  <2> QED BY <1>2, <1>7, <2>1 DEF InFlight
<1>12. Balanced'
  <2> SUFFICES ASSUME NEW s \in Series
      PROVE /\ IsFiniteSet(InFlight(s)')
            /\ global'[s] + Cardinality(InFlight(s)') = SumOf(Counted(s)', Registry)
            /\ SumOf(Counted(s)', Registry) <= emitted'
    BY DEF Balanced
  <2>1. /\ IsFiniteSet(InFlight(s))
        /\ global[s] + Cardinality(InFlight(s)) = SumOf(Counted(s), Registry)
        /\ SumOf(Counted(s), Registry) <= emitted
        /\ global[s] \in Nat
    BY DEF EMInv, Balanced, EmitTypes, Counters
  <2>2. SumOf(Counted(s), Registry) \in Nat /\ Cardinality(InFlight(s)) \in Nat
    BY <1>10, <2>1, RegistryFinite, SumOfNaturals, FS_CardinalityType
  <2> HIDE DEF h, q, p
  <2>3. CASE s # p
    BY <1>2, <1>3, <1>10, <1>11, <2>1, <2>2, <2>3
  <2>4. CASE s = p
    <3>1. SumOf(Counted(s)', Registry) = SumOf(Counted(s), Registry) + 1
      BY <1>5, <1>10, <2>4, RegistryFinite, SumIncrement
    <3>2. /\ IsFiniteSet(InFlight(s)')
          /\ Cardinality(InFlight(s)') = Cardinality(InFlight(s)) + 1
      BY <1>11, <2>1, <2>4, FS_AddElement
    <3>3. global' = global /\ emitted' = emitted + 1
      BY <1>2
    <3>4. SumOf(Counted(s)', Registry) <= emitted'
      BY <1>3, <2>1, <2>2, <3>1, <3>3
    <3>5. global'[s] + Cardinality(InFlight(s)') = SumOf(Counted(s)', Registry)
      BY <2>1, <2>2, <3>1, <3>2, <3>3
    <3> QED BY <3>2, <3>4, <3>5
  <2> QED BY <2>3, <2>4
<1>13. AnswersOK'
  <2>1. \A x \in result : \A s \in DOMAIN x.family : x.family[s] \in Nat
    BY DEF EMInv, TMInv, TypesOK, AnyAnswer, AnyFamily
  <2> QED BY <1>2, <1>3, <2>1 DEF EMInv, AnswersOK
<1> QED BY <1>1, <1>8, <1>9, <1>12, <1>13 DEF EMInv

(* The second half counts it globally and takes the emitter out of flight. *)
LEMMA EMIncGlobal ==
  ASSUME EMInv, NEW e \in Emitter, IncGlobal(e)
  PROVE  EMInv'
PROOF
<1> USE TenantMetricsAssumption
<1> DEFINE h == handle[e]
           p == h.series
<1>1. TMInv'
  BY TMNext DEF EMInv, Next
<1>2. /\ UNCHANGED <<local, unseen, resets, emitted, result, scraping>>
      /\ global' = [global EXCEPT ![p] = global[p] + 1]
      /\ handle' = [handle EXCEPT ![e] = [h EXCEPT !.step = "local"]]
      /\ h.step = "global"
  BY DEF IncGlobal, factoryVars, scrapeVars
<1>3. /\ handle \in [Emitter -> AnyHandle \cup {NoHandle}]
      /\ global \in [Series -> Nat]
  BY DEF EMInv, TMInv, TypesOK, EmitTypes, Counters
<1>4. h \in AnyHandle
  BY <1>2, <1>3 DEF NoHandle
<1>5. p \in Series
  BY <1>4 DEF AnyHandle
<1>6. \A d \in Emitter : handle'[d] = IF d = e THEN [h EXCEPT !.step = "local"] ELSE handle[d]
  BY <1>2, <1>3
<1>7. EmitTypes'
  <2>1. global' \in Counters
    <3> HIDE DEF p
    <3> QED BY <1>2, <1>3, <1>5 DEF Counters
  <2> QED BY <1>2, <2>1 DEF EMInv, EmitTypes
<1>8. ResetsOK'
  <2>1. [h EXCEPT !.step = "local"].since = h.since
    BY <1>4 DEF AnyHandle
  <2> QED BY <1>2, <1>6, <2>1 DEF EMInv, ResetsOK
<1>9. ASSUME NEW s \in Series
      PROVE  /\ s # p => InFlight(s)' = InFlight(s)
             /\ s = p => InFlight(s)' = InFlight(s) \ {e} /\ e \in InFlight(s)
  <2>1. [h EXCEPT !.step = "local"].step = "local"
    BY <1>4 DEF AnyHandle
  <2> QED BY <1>2, <1>6, <2>1 DEF InFlight
<1>10. Balanced'
  <2> SUFFICES ASSUME NEW s \in Series
      PROVE /\ IsFiniteSet(InFlight(s)')
            /\ global'[s] + Cardinality(InFlight(s)') = SumOf(Counted(s)', Registry)
            /\ SumOf(Counted(s)', Registry) <= emitted'
    BY DEF Balanced
  <2>1. /\ IsFiniteSet(InFlight(s))
        /\ global[s] + Cardinality(InFlight(s)) = SumOf(Counted(s), Registry)
        /\ SumOf(Counted(s), Registry) <= emitted
    BY DEF EMInv, Balanced
  <2>2. Counted(s)' = Counted(s)
    BY <1>2 DEF Counted
  <2>3. Cardinality(InFlight(s)) \in Nat
    BY <2>1, FS_CardinalityType
  <2> HIDE DEF h, p
  <2>4. CASE s # p
    <3>1. global'[s] = global[s]
      BY <1>2, <1>3, <2>4
    <3> QED BY <1>2, <1>9, <2>1, <2>2, <2>4, <3>1
  <2>5. CASE s = p
    <3>1. global'[s] = global[s] + 1 /\ global[s] \in Nat
      BY <1>2, <1>3, <2>5
    <3>2. /\ IsFiniteSet(InFlight(s)')
          /\ Cardinality(InFlight(s)') = Cardinality(InFlight(s)) - 1
      BY <1>9, <2>1, <2>5, FS_RemoveElement
    <3>3. global'[s] + Cardinality(InFlight(s)') = global[s] + Cardinality(InFlight(s))
      BY <2>3, <3>1, <3>2
    <3> QED BY <1>2, <2>1, <2>2, <3>2, <3>3
  <2> QED BY <2>4, <2>5
<1> QED BY <1>1, <1>2, <1>7, <1>8, <1>10 DEF EMInv, AnswersOK

LEMMA EMNext == EMInv /\ [Next]_vars => EMInv'
PROOF
<1> SUFFICES ASSUME EMInv, [Next]_vars PROVE EMInv' OBVIOUS
<1>1. CASE \/ \E t \in Tenant, h \in Help : NewMTMetricFactory(t, h)
           \/ \E t \in Tenant : Unregister(t)
           \/ \E r \in Registry : Register(r)
           \/ Gather \/ GatherNext \/ GatherReturns
           \/ UNCHANGED vars
  BY <1>1, EMScrape
<1>2. CASE \E e \in Emitter, r \in Registry, s \in Series : WithLabelValues(e, r, s)
  BY <1>2, EMWithLabelValues
<1>3. CASE \E e \in Emitter : IncLocal(e)
  BY <1>3, EMIncLocal
<1>4. CASE \E e \in Emitter : IncGlobal(e)
  BY <1>4, EMIncGlobal
<1>5. CASE \E r \in Registry : Reset(r)
  BY <1>5, EMReset
<1> QED BY <1>1, <1>2, <1>3, <1>4, <1>5 DEF Next

(* Dual emission loses nothing: in every series the global counter and the *)
(* increments under way make up what the tenants' counters, reset or       *)
(* detached ones included, have counted, whatever the emitters, resets and *)
(* scrapes do in between the two halves of an increment.                   *)
THEOREM EmissionIsDual == Safe => []NothingLost
PROOF
<1>1. Safe => []EMInv
  BY EMInit, EMNext, PTL DEF Safe
<1> QED BY <1>1, EMImplies, PTL

=============================================================================
