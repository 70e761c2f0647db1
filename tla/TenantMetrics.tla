---------------------------- MODULE TenantMetrics ----------------------------
(***************************************************************************)
(* pkg/mtmetrics, metrics in use: emitters, which are goroutines of the    *)
(* tenants, increment every counter in the tenant's registry and in the    *)
(* global one (mt_metrics.go), vectors are reset, tenants come and go, and *)
(* a MultiGatherer scrapes the tenants that are registered (gatherer.go).  *)
(*                                                                         *)
(* One vector of counters stands for all metrics: an observer does with an *)
(* observation what a counter does with an increment.  Without a Reset the *)
(* vector is a scalar metric.  The vectors of the tenants have the same    *)
(* name, type and label names (see MetricRegistration), but each tenant    *)
(* chooses the help text of its own.                                       *)
(***************************************************************************)
EXTENDS Naturals, Sequences, FiniteSetsExt

CONSTANTS
  Tenant,
  Help,          \* help texts that tenants give the metric
  Series,        \* lists of label values that callers use
  Emitter,       \* goroutines that emit
  MaxFactories,  \* how often tenants are set up, all together
  MaxEmits,      \* increments of all emitters together
  MaxResets      \* resets of all vectors together

ASSUME TenantMetricsAssumption == {MaxFactories, MaxEmits, MaxResets} \subseteq Nat

VARIABLES
  factories,   \* the tenants of the factories created so far, in this order
  help,        \* and the help texts of their vectors
  children,    \* the series that the vector in each registry has
  local,       \* their counters
  resets,      \* the number of resets of its vector
  global,      \* the counters in the global registry
  handle,      \* what WithLabelValues has returned to an emitter
  emitted,     \* the number of increments so far
  gatherers,   \* the registries the MultiGatherer has: one for a tenant, or none
  todo,        \* a scrape: registries it has still to read
  result,      \* and what it has read, a set of records
  scraping,    \* whether Gather runs
  unseen,      \* history: increments that are no longer exported by a tenant
  steady,      \* history: registries registered since the scrape began
  atStart      \* history: the tenants' counters when the scrape began, or
               \* zero if they were reset since

factoryVars == <<factories, help, children, local, resets, unseen>>
emitVars    == <<global, handle, emitted>>
scrapeVars  == <<todo, result, scraping>>
vars == <<factoryVars, emitVars, gatherers, scrapeVars, steady, atStart>>

\* A factory has a registry of its own, known by the factory's number.
Registry == 1..MaxFactories
Created  == 1..Len(factories)

\* A handle's step says which of its two counters is incremented next.
Handle == [reg : Registry, series : Series, since : 0..MaxResets,
           step : {"local", "global"}]
NoHandle == [step |-> "none"]

Zero == [s \in Series |-> 0]

Init ==
  /\ factories = <<>>
  /\ help = <<>>
  /\ children = [r \in Registry |-> {}]
  /\ local = [r \in Registry |-> Zero]
  /\ resets = [r \in Registry |-> 0]
  /\ global = Zero
  /\ handle = [e \in Emitter |-> NoHandle]
  /\ emitted = 0
  /\ gatherers = [t \in Tenant |-> {}]
  /\ todo = {}
  /\ result = {}
  /\ scraping = FALSE
  /\ unseen = [r \in Registry |-> Zero]
  /\ steady = {}
  /\ atStart = [r \in Registry |-> Zero]

-----------------------------------------------------------------------------
(* mt_metrics.go *)

(* NewMTMetricFactory, and a vector of the factory with help text h: the   *)
(* tenant starts with an empty registry; callers of an earlier factory     *)
(* keep what they have.                                                    *)
NewMTMetricFactory(t, h) ==
  /\ Len(factories) < MaxFactories
  /\ factories' = Append(factories, t)
  /\ help' = Append(help, h)
  /\ UNCHANGED <<children, local, resets, unseen, emitVars, gatherers, scrapeVars, steady, atStart>>

(* WithLabelValues: the counters that are there now; a vector that has     *)
(* none for these values, or has been reset, makes a new one.              *)
WithLabelValues(e, r, s) ==
  /\ handle[e].step # "global"
  /\ r \in Created
  /\ handle' = [handle EXCEPT ![e] = [reg |-> r, series |-> s, since |-> resets[r],
                                      step |-> "local"]]
  /\ children' = [children EXCEPT ![r] = @ \cup {s}]
  /\ UNCHANGED <<factories, help, local, resets, unseen, global, emitted, gatherers, scrapeVars, steady, atStart>>

(* Inc, Add and Observe, the first half: the tenant's counter, which a     *)
(* Reset may have detached from the vector in the meantime.                *)
IncLocal(e) ==
  LET h == handle[e]
  IN  /\ h.step = "local"
      /\ emitted < MaxEmits
      /\ emitted' = emitted + 1
      /\ handle' = [handle EXCEPT ![e].step = "global"]
      /\ IF h.since = resets[h.reg]
         THEN local' = [local EXCEPT ![h.reg][h.series] = @ + 1] /\ UNCHANGED unseen
         ELSE unseen' = [unseen EXCEPT ![h.reg][h.series] = @ + 1] /\ UNCHANGED local
      /\ UNCHANGED <<factories, help, children, resets, global, gatherers, scrapeVars, steady, atStart>>

(* The second half: the global counter. *)
IncGlobal(e) ==
  LET h == handle[e]
  IN  /\ h.step = "global"
      /\ handle' = [handle EXCEPT ![e].step = "local"]
      /\ global' = [global EXCEPT ![h.series] = @ + 1]
      /\ UNCHANGED <<factoryVars, emitted, gatherers, scrapeVars, steady, atStart>>

\* Mutated: the global vector is reset, too.
ResetBoth(r) ==
  /\ r \in Created
  /\ MapThenSumSet(LAMBDA q : resets[q], Registry) < MaxResets
  /\ resets' = [resets EXCEPT ![r] = @ + 1]
  /\ children' = [children EXCEPT ![r] = {}]
  /\ local' = [local EXCEPT ![r] = Zero]
  /\ unseen' = [unseen EXCEPT ![r] = [s \in Series |-> @[s] + local[r][s]]]
  /\ atStart' = [atStart EXCEPT ![r] = Zero]
  /\ global' = Zero
  /\ UNCHANGED <<factories, help, handle, emitted, gatherers, scrapeVars, steady>>

(* Reset deletes the counters of the tenant's vector only. *)
Reset(r) ==
  /\ r \in Created
  /\ MapThenSumSet(LAMBDA q : resets[q], Registry) < MaxResets
  /\ resets' = [resets EXCEPT ![r] = @ + 1]
  /\ children' = [children EXCEPT ![r] = {}]
  /\ local' = [local EXCEPT ![r] = Zero]
  /\ unseen' = [unseen EXCEPT ![r] = [s \in Series |-> @[s] + local[r][s]]]
  /\ atStart' = [atStart EXCEPT ![r] = Zero]
  /\ UNCHANGED <<factories, help, emitVars, gatherers, scrapeVars, steady>>

-----------------------------------------------------------------------------
(* gatherer.go *)

(* Register of a tenant's registry, refused if the tenant has one. *)
Register(r) ==
  /\ r \in Created
  /\ gatherers[factories[r]] = {}
  /\ gatherers' = [gatherers EXCEPT ![factories[r]] = {r}]
  /\ UNCHANGED <<factoryVars, emitVars, scrapeVars, steady, atStart>>

Unregister(t) ==
  /\ gatherers' = [gatherers EXCEPT ![t] = {}]
  /\ steady' = steady \ gatherers[t]
  /\ UNCHANGED <<factoryVars, emitVars, scrapeVars, atStart>>

(* Gather copies the gatherers under the lock, and reads them after it has *)
(* been released.                                                          *)
Gather ==
  /\ ~scraping
  /\ scraping' = TRUE
  /\ todo' = UNION Range(gatherers)
  /\ result' = {}
  /\ steady' = todo'
  /\ atStart' = local
  /\ UNCHANGED <<factoryVars, emitVars, gatherers>>

\* What a registry exports of its vector: a counter for each child, and no
\* family at all if there is none.
Family(r) == [s \in children[r] |-> local[r][s]]

\* An answer in the merged result; an empty family leaves no trace there.
Merged(x) == ~x.refused /\ DOMAIN x.family # {}

\* The merge of what a registry exports: a family whose help text is not
\* that of the families before it is left out, and reported as an error.
Answer(r, family) ==
  [reg |-> r, family |-> family,
   refused |-> /\ DOMAIN family # {}
               /\ \E x \in result : Merged(x) /\ help[x.reg] # help[r]]

\* Mutated: no copy is made, the map is walked while it changes.
GatherNextLive ==
  /\ scraping
  /\ \E r \in UNION Range(gatherers) :
       /\ r \notin {x.reg : x \in result}
       /\ result' = result \cup {Answer(r, Family(r))}
       /\ todo' = todo \ {r}
  /\ UNCHANGED <<factoryVars, emitVars, gatherers, scraping, steady, atStart>>

\* Mutated: the values of an earlier moment are merged into the answer.
GatherNextStale ==
  /\ scraping
  /\ \E r \in todo : /\ todo' = todo \ {r}
                     /\ result' = result \cup {Answer(r, [s \in children[r] |-> 0])}
  /\ UNCHANGED <<factoryVars, emitVars, gatherers, scraping, steady, atStart>>

(* gatherers.Gather reads one registry after the other and merges what it  *)
(* exports; their order, by the tenants' UIDs, is left open.               *)
GatherNext ==
  /\ scraping
  /\ \E r \in todo : /\ todo' = todo \ {r}
                     /\ result' = result \cup {Answer(r, Family(r))}
  /\ UNCHANGED <<factoryVars, emitVars, gatherers, scraping, steady, atStart>>

(* The merged answer goes to the caller, with the errors. *)
GatherReturns ==
  /\ scraping
  /\ todo = {}
  /\ scraping' = FALSE
  /\ result' = {}
  /\ steady' = {}
  /\ atStart' = [r \in Registry |-> Zero]
  /\ UNCHANGED <<factoryVars, emitVars, gatherers, todo>>

Next ==
  \/ \E t \in Tenant, h \in Help : NewMTMetricFactory(t, h)
  \/ \E t \in Tenant : Unregister(t)
  \/ \E e \in Emitter, r \in Registry, s \in Series : WithLabelValues(e, r, s)
  \/ \E e \in Emitter : IncLocal(e) \/ IncGlobal(e)
  \/ \E r \in Registry : Reset(r) \/ Register(r)
  \/ Gather \/ GatherNext \/ GatherReturns

Safe == Init /\ [][Next]_vars

-----------------------------------------------------------------------------
TypeOK ==
  /\ factories \in Seq(Tenant) /\ Created \subseteq Registry
  /\ help \in Seq(Help) /\ Len(help) = Len(factories)
  /\ children \in [Registry -> SUBSET Series]
  /\ {local, unseen, atStart} \subseteq [Registry -> [Series -> 0..MaxEmits]]
  /\ resets \in [Registry -> 0..MaxResets]
  /\ global \in [Series -> 0..MaxEmits]
  /\ handle \in [Emitter -> Handle \cup {NoHandle}]
  /\ emitted \in 0..MaxEmits
  /\ gatherers \in [Tenant -> SUBSET Registry]
  /\ todo \subseteq Registry
  /\ result \subseteq [reg : Registry, refused : BOOLEAN,
                      family : UNION {[C -> 0..MaxEmits] : C \in SUBSET Series}]
  /\ scraping \in BOOLEAN
  /\ steady \subseteq Registry

\* Increments of s that have reached the tenant's counter only.
InFlight(s) == {e \in Emitter : handle[e].step = "global" /\ handle[e].series = s}

(* Dual emission: whatever is emitted in one series by all tenants, now    *)
(* gone or reset ones included, is in the global counter, except for the   *)
(* increments that are under way.                                          *)
NothingLost ==
  /\ TypeOK
  /\ \A s \in Series :
       global[s] + Cardinality(InFlight(s)) =
         MapThenSumSet(LAMBDA r : local[r][s] + unseen[r][s], Registry)

(* What a scrape has read or is going to read is one registry for a        *)
(* tenant, so that no two answers clash, and every registry that stays     *)
(* registered is among them.                                               *)
ScrapeComplete ==
  LET covered == todo \cup {x.reg : x \in result}
  IN  /\ steady \subseteq covered
      /\ \A q, r \in covered : factories[q] = factories[r] => q = r
      /\ Cardinality(result) = Cardinality({x.reg : x \in result})

\* The count of a series in the merged result, as far as it is from x.
Shown(x, s) == IF Merged(x) /\ s \in DOMAIN x.family THEN x.family[s] ELSE 0

(* The merged result has, of every registry read so far, at least what had *)
(* been emitted there when the scrape began, unless the vector was reset   *)
(* since, and whatever it leaves out for its help text is reported.  The   *)
(* families in it have one help text, and one of them is the reason for    *)
(* every family left out.                                                  *)
ScrapeIsCurrent ==
  /\ \A x, y \in result : Merged(x) /\ Merged(y) => help[x.reg] = help[y.reg]
  /\ \A x \in result :
       IF x.refused THEN \E y \in result : Merged(y) /\ help[y.reg] # help[x.reg]
       ELSE \A s \in Series : Shown(x, s) >= atStart[x.reg][s]

=============================================================================
