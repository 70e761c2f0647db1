------------------------- MODULE MetricRegistration -------------------------
(***************************************************************************)
(* pkg/mtmetrics, creation of metrics: the factories of the tenants        *)
(* (mt_metrics.go) register every metric twice, in the global registry     *)
(* through the GlobalMetricsTracker and in a registry of the tenant's own, *)
(* while the standard factory (metrics.go) may register in the global      *)
(* registry directly.                                                      *)
(*                                                                         *)
(* A collector is reduced to its type, its variable labels and its help    *)
(* text.  The registries are Prometheus' and never forget a collector.     *)
(* The two registrations of one call are two steps; the tracker holds its  *)
(* lock during the first.                                                  *)
(***************************************************************************)
EXTENDS Naturals, SequencesExt

CONSTANTS
  Tenant,
  Metric,       \* fully qualified metric names
  LabelList,    \* the lists of label names that callers use
  Help,         \* the help texts that callers use
  MaxHandles    \* how many metrics one caller creates or is creating

ASSUME MetricRegistrationAssumption ==
  /\ LabelList \subseteq Seq(STRING)
  /\ \A labels \in LabelList : "tenant_uid" \notin Range(labels)
  /\ MaxHandles \in Nat

VARIABLES
  globalReg,     \* the global registry
  localReg,      \* the tenants' registries
  collectors,    \* tracker: the collector of a metric
  metricLabels,  \* tracker: the labels recorded for a metric
  building,      \* a tenant's calls between their two registrations; calls
                 \* that are alike in all they have found count once
  handles,       \* what the calls of a tenant have returned
  stdHandles     \* what the calls of the standard factory have returned

trackerVars == <<collectors, metricLabels>>
vars == <<globalReg, localReg, trackerVars, building, handles, stdHandles>>

Scalar    == {"Counter", "Gauge", "Histogram"}
Vec       == {"CounterVec", "GaugeVec", "HistogramVec"}
None      == [type |-> "none", labels |-> <<>>, help |-> ""]

\* What a caller asks for: a scalar metric has no labels.
Request   == {r \in [metric : Metric, type : Scalar \cup Vec,
                      labels : LabelList \cup {<<>>}, help : Help] :
                r.type \in Scalar => r.labels = <<>>}
MTRequest == {r \in Request : r.type \notin {"Gauge", "GaugeVec"}}

Collector(r) == [type |-> r.type, labels |-> r.labels, help |-> r.help]

Init ==
  /\ globalReg = [m \in Metric |-> None]
  /\ localReg = [t \in Tenant |-> [m \in Metric |-> None]]
  /\ collectors = [m \in Metric |-> None]
  /\ metricLabels = [m \in Metric |-> {}]
  /\ building = [t \in Tenant |-> {}]
  /\ handles = [t \in Tenant |-> {}]
  /\ stdHandles = {}

-----------------------------------------------------------------------------
(* Go's type assertion: every Gauge is a Counter, too. *)
Is(collector, type) ==
  collector.type = type \/ (collector.type = "Gauge" /\ type = "Counter")

(* Register of a Prometheus registry: c is new, or there is a collector    *)
(* with the same name, help and labels, in any order, or it is refused.    *)
Fresh(reg, m)      == reg[m] = None
Existing(reg, m, c) == /\ ~Fresh(reg, m)
                       /\ Range(reg[m].labels) = Range(c.labels)
                       /\ reg[m].help = c.help

(* Registers c unless it exists; Usable says whether the caller may go on  *)
(* with what the registry then holds.                                      *)
Registered(reg, m, c) == IF Fresh(reg, m) THEN [reg EXCEPT ![m] = c] ELSE reg

Usable(reg, m, c, type) ==
  Fresh(reg, m) \/ (Existing(reg, m, c) /\ Is(reg[m], type))

-----------------------------------------------------------------------------
(* metrics.go: New... of the standard factory on the global registry. *)
StdNew(r) ==
  /\ Cardinality(stdHandles) < MaxHandles
  /\ globalReg' = Registered(globalReg, r.metric, Collector(r))
  /\ stdHandles' =
       IF Usable(globalReg, r.metric, Collector(r), r.type)
       THEN stdHandles \cup {[request |-> r, global |-> globalReg'[r.metric]]}
       ELSE stdHandles
  /\ UNCHANGED <<localReg, trackerVars, building, handles>>

-----------------------------------------------------------------------------
(* mt_metrics.go *)

\* Mutated: the labels are recorded but not compared.
validateLabelsOnlyRecords(r) == TRUE

(* validateLabelsLocked: the labels are as recorded, in the same order. *)
validateLabels(r) == metricLabels[r.metric] \subseteq {r.labels}

\* Mutated: the type of the collector is not checked.
TrackedAnyType(r) == collectors[r.metric] # None

Tracked(r) == collectors[r.metric] # None /\ Is(collectors[r.metric], r.type)

(* getOrCreate...: the collector that tracker or registry have, or a new   *)
(* one.  The labels are recorded before the registration, which may fail.  *)
getOrCreate(t, r) ==
  LET m == r.metric
      c == Collector(r)
      Continue == building' = [building EXCEPT ![t] =
                                 @ \cup {[request |-> r, global |-> collectors'[m]]}]
  IN  /\ validateLabels(r)
      /\ metricLabels' = [metricLabels EXCEPT ![m] = {r.labels}]
      /\ \/ /\ collectors[m] # None
            /\ UNCHANGED <<collectors, globalReg>>
            /\ IF Tracked(r) THEN Continue ELSE UNCHANGED building
         \/ /\ collectors[m] = None
            /\ globalReg' = Registered(globalReg, m, c)
            /\ IF Usable(globalReg, m, c, r.type)
               THEN collectors' = [collectors EXCEPT ![m] = globalReg'[m]] /\ Continue
               ELSE UNCHANGED <<collectors, building>>
      /\ UNCHANGED <<localReg, handles, stdHandles>>

\* Mutated: a tenant's metric is registered with the caller's labels only.
LocalWithoutTenant(r) ==
  [type |-> IF r.type \in {"Counter", "CounterVec"} THEN "CounterVec" ELSE "HistogramVec",
   labels |-> r.labels, help |-> r.help]

(* A tenant's own collector is always a vector, partitioned by tenant too. *)
LocalCollector(r) ==
  [type |-> IF r.type \in {"Counter", "CounterVec"} THEN "CounterVec" ELSE "HistogramVec",
   labels |-> Append(r.labels, "tenant_uid"), help |-> r.help]

(* The second half of New...: the registration in the tenant's registry.   *)
NewLocal(t) ==
  \E b \in building[t] :
    LET m == b.request.metric
        c == LocalCollector(b.request)
    IN  /\ localReg' = [localReg EXCEPT ![t] = Registered(@, m, c)]
        /\ handles' =
             [handles EXCEPT ![t] =
                IF Usable(localReg[t], m, c, c.type)
                THEN @ \cup {[request |-> b.request, global |-> b.global,
                              local |-> localReg'[t][m]]}
                ELSE @]
        /\ building' = [building EXCEPT ![t] = @ \ {b}]
        /\ UNCHANGED <<globalReg, trackerVars, stdHandles>>

(* NewCounter, NewHistogram, NewCounterVec and NewHistogramVec; the gauges *)
(* are not implemented and only return an error.                           *)
New(t, r) ==
  /\ Cardinality(building[t]) + Cardinality(handles[t]) < MaxHandles
  /\ getOrCreate(t, r)

Next ==
  \/ \E r \in Request : StdNew(r)
  \/ \E t \in Tenant, r \in MTRequest : New(t, r)
  \/ \E t \in Tenant : NewLocal(t)

Safe == Init /\ [][Next]_vars

-----------------------------------------------------------------------------
LabelName == {"tenant_uid"} \cup UNION {Range(labels) : labels \in LabelList}

AnyCollector ==
  [type : Scalar \cup Vec, labels : Seq(LabelName), help : Help] \cup {None}

TypeOK ==
  /\ globalReg \in [Metric -> AnyCollector]
  /\ localReg \in [Tenant -> [Metric -> AnyCollector]]
  /\ collectors \in [Metric -> AnyCollector]
  /\ metricLabels \in [Metric -> SUBSET (LabelList \cup {<<>>})]
  /\ building \in [Tenant -> SUBSET [request : MTRequest, global : AnyCollector]]
  /\ handles \in [Tenant -> SUBSET [request : MTRequest, global : AnyCollector,
                                    local : AnyCollector]]
  /\ stdHandles \subseteq [request : Request, global : AnyCollector]

(* The tracker and the global registry agree although others register      *)
(* there too: what the tracker hands out is what the registry exports,     *)
(* with the labels it has recorded.                                        *)
TrackerIsRegistered ==
  /\ TypeOK
  /\ \A m \in Metric : collectors[m] # None =>
       /\ collectors[m] = globalReg[m]
       /\ \E labels \in metricLabels[m] : Range(labels) = Range(collectors[m].labels)

(* All tenants emit a metric into one global collector, with the same      *)
(* labels in the same order, so the global series aggregate like with      *)
(* like.                                                                   *)
GlobalIsShared ==
  \A t, u \in Tenant : \A g \in handles[t], h \in handles[u] :
    g.request.metric = h.request.metric =>
      g.global = h.global /\ g.request.labels = h.request.labels

(* The registries of all tenants agree on the type and the label names of  *)
(* a metric, in this order, with one label to tell the tenants apart,      *)
(* although each tenant registers in its own.  They need not agree on its  *)
(* help text: what a scrape does then, see TenantMetrics.                  *)
RegistriesAgree ==
  \A t, u \in Tenant, m \in Metric :
    LET c == localReg[t][m]
    IN  c # None /\ localReg[u][m] # None =>
          /\ localReg[u][m].type = c.type
          /\ localReg[u][m].labels = c.labels
          /\ "tenant_uid" \in Range(c.labels)

\* What an adopted collector must be for the request it answers.
Serves(r, global) ==
  Is(global, r.type) /\ Range(global.labels) = Range(r.labels)

(* Every handle a caller holds emits into collectors of the kind it asked  *)
(* for, in both registries, also when a registration found an existing     *)
(* one; what the first step found is still right after the second.  The    *)
(* labels may be in another order, and a Counter may be a Gauge.           *)
HandlesServe ==
  /\ \A t \in Tenant :
       /\ \A h \in handles[t] :
            /\ Serves(h.request, h.global) /\ h.global = globalReg[h.request.metric]
            /\ h.local = LocalCollector(h.request)
       /\ \A b \in building[t] : Serves(b.request, b.global)
  /\ \A h \in stdHandles :
       Serves(h.request, h.global) /\ h.global = globalReg[h.request.metric]

=============================================================================
