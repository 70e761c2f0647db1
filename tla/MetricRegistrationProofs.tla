---------------------- MODULE MetricRegistrationProofs ----------------------
(***************************************************************************)
(* Proofs about MetricRegistration, for any sets of tenants, metrics, help *)
(* texts and label lists.  None of the properties is inductive: what a     *)
(* call finds in the second registry is right because the tracker has held *)
(* its label list fixed since the first, and because registries never      *)
(* replace a collector.                                                    *)
(***************************************************************************)
EXTENDS MetricRegistration, SequenceTheorems, TLAPS

\* The type of the tenants' collectors of a metric that has collector c in
\* the global registry.
LocalType(c) ==
  IF c.type \in {"Counter", "Gauge", "CounterVec"} THEN "CounterVec" ELSE "HistogramVec"

\* A call that got past the tracker has the labels the tracker recorded, and
\* the collector the tracker and the global registry have.
CallOK(r, global) ==
  /\ Serves(r, global)
  /\ global # None
  /\ global = collectors[r.metric]
  /\ metricLabels[r.metric] = {r.labels}

\* A tenant's collector is derived from the one in the global registry.
LocalOK(m, c) ==
  c # None =>
    /\ collectors[m] # None
    /\ c.type = LocalType(collectors[m])
    /\ \E labels \in LabelList \cup {<<>>} :
         /\ metricLabels[m] = {labels}
         /\ c.labels = Append(labels, "tenant_uid")

MRInv ==
  /\ TrackerIsRegistered
  /\ \A t \in Tenant :
       /\ \A b \in building[t] : CallOK(b.request, b.global)
       /\ \A h \in handles[t] :
            CallOK(h.request, h.global) /\ h.local = LocalCollector(h.request)
       /\ \A m \in Metric : LocalOK(m, localReg[t][m])
  /\ \A h \in stdHandles :
       /\ Serves(h.request, h.global)
       /\ h.global # None
       /\ h.global = globalReg[h.request.metric]

-----------------------------------------------------------------------------
(* Requests and collectors. *)

LEMMA AppendInSeq ==
  ASSUME NEW S, NEW seq \in Seq(S), NEW e \in S
  PROVE  Append(seq, e) \in Seq(S)
  OBVIOUS

LEMMA LabelLists == LabelList \cup {<<>>} \subseteq Seq(LabelName)
  <1> SUFFICES ASSUME NEW labels \in LabelList \cup {<<>>} PROVE labels \in Seq(LabelName)
    OBVIOUS
  <1>1. CASE labels = << >>
    BY <1>1, EmptySeq, Zenon
  <1>2. CASE labels \in LabelList
    <2>1. labels \in Seq(STRING)
      BY <1>2, MetricRegistrationAssumption
    <2>2. labels \in Seq(Range(labels))
      BY <2>1, SeqOfRange, Zenon
    <2>3. Range(labels) \subseteq LabelName
      BY <1>2 DEF LabelName
    <2>4. QED
      BY <2>2, <2>3, SeqMonotonic, Zenon
  <1>3. QED
    BY <1>1, <1>2

LEMMA RequestTypes ==
  ASSUME NEW r \in Request
  PROVE  /\ r.metric \in Metric /\ r.labels \in LabelList \cup {<<>>}
         /\ r.labels \in Seq(LabelName)
         /\ r.type \in Scalar \cup Vec /\ r.help \in Help
         /\ Collector(r) \in AnyCollector
         /\ Collector(r) # None
         /\ Collector(r).type = r.type /\ Collector(r).labels = r.labels
         /\ Collector(r).help = r.help
  <1>1. /\ r.metric \in Metric /\ r.labels \in LabelList \cup {<<>>}
        /\ r.type \in Scalar \cup Vec /\ r.help \in Help
    BY DEF Request
  <1>2. r.labels \in Seq(LabelName)
    BY <1>1, LabelLists
  <1>3. Collector(r) \in AnyCollector
    BY <1>1, <1>2 DEF Collector, AnyCollector
  <1>4. Collector(r) # None
    BY <1>1 DEF Collector, None, Scalar, Vec
  <1>5. QED
    BY <1>1, <1>2, <1>3, <1>4 DEF Collector

LEMMA LocalCollectorType ==
  ASSUME NEW r \in Request
  PROVE  /\ LocalCollector(r) \in AnyCollector
         /\ LocalCollector(r) # None
         /\ LocalCollector(r).labels = Append(r.labels, "tenant_uid")
         /\ LocalCollector(r).type \in {"CounterVec", "HistogramVec"}
         /\ LocalCollector(r).help = r.help
  <1>1. r.labels \in Seq(LabelName) /\ r.help \in Help
    BY RequestTypes
  <1>2. Append(r.labels, "tenant_uid") \in Seq(LabelName)
    <2>1. "tenant_uid" \in LabelName
      BY DEF LabelName
    <2>2. QED
      BY <1>1, <2>1, AppendInSeq, Zenon
  <1>3. QED
    BY <1>1, <1>2 DEF LocalCollector, AnyCollector, None, Scalar, Vec

(* The tenant's collector for a request that c serves. *)
LEMMA LocalTypeOfServed ==
  ASSUME NEW r \in MTRequest, NEW c, Is(c, r.type)
  PROVE  LocalCollector(r).type = LocalType(c)
  <1>1. r.type \in {"Counter", "Histogram", "CounterVec", "HistogramVec"}
    BY DEF MTRequest, Request, Scalar, Vec
  <1>2. QED
    BY <1>1 DEF LocalCollector, LocalType, Is

(* Register of a Prometheus registry. *)
LEMMA RegisterKeeps ==
  ASSUME NEW reg \in [Metric -> AnyCollector], NEW m \in Metric, NEW c \in AnyCollector,
         c # None, NEW type, Is(c, type)
  PROVE  /\ Registered(reg, m, c) \in [Metric -> AnyCollector]
         /\ \A n \in Metric : reg[n] # None => Registered(reg, m, c)[n] = reg[n]
         /\ \A n \in Metric \ {m} : Registered(reg, m, c)[n] = reg[n]
         /\ Usable(reg, m, c, type) =>
              /\ Registered(reg, m, c)[m] # None
              /\ Is(Registered(reg, m, c)[m], type)
              /\ Range(Registered(reg, m, c)[m].labels) = Range(c.labels)
              /\ Registered(reg, m, c)[m].help = c.help
  BY DEF Registered, Usable, Fresh, Existing

-----------------------------------------------------------------------------
LEMMA InitHolds == Init => MRInv
  BY DEF Init, MRInv, TrackerIsRegistered, TypeOK, AnyCollector, LocalOK

LEMMA StdNewHolds ==
  ASSUME MRInv, NEW r \in Request, StdNew(r)
  PROVE  MRInv'
  <1> DEFINE m == r.metric
             c == Collector(r)
  <1>1. c \in AnyCollector /\ c # None /\ m \in Metric /\ Is(c, r.type)
        /\ Range(c.labels) = Range(r.labels)
    BY RequestTypes DEF Is
  <1>2. globalReg \in [Metric -> AnyCollector]
    BY DEF MRInv, TrackerIsRegistered, TypeOK
  <1>3. globalReg' = Registered(globalReg, m, c)
    BY DEF StdNew
  <1> HIDE DEF m, c
  <1>4. /\ globalReg' \in [Metric -> AnyCollector]
        /\ \A n \in Metric : globalReg[n] # None => globalReg'[n] = globalReg[n]
        /\ Usable(globalReg, m, c, r.type) =>
              /\ globalReg'[m] # None
              /\ Is(globalReg'[m], r.type)
              /\ Range(globalReg'[m].labels) = Range(c.labels)
    BY <1>1, <1>2, <1>3, RegisterKeeps
  <1>5. UNCHANGED <<localReg, collectors, metricLabels, building, handles>>
    BY DEF StdNew, trackerVars
  <1>6. ASSUME NEW h \in stdHandles'
        PROVE  /\ h \in [request : Request, global : AnyCollector]
               /\ Serves(h.request, h.global)
               /\ h.global # None
               /\ h.global = globalReg'[h.request.metric]
    <2>1. CASE h \in stdHandles
      <3>1. /\ h \in [request : Request, global : AnyCollector]
            /\ Serves(h.request, h.global) /\ h.global # None
            /\ h.global = globalReg[h.request.metric]
        BY <2>1 DEF MRInv, TrackerIsRegistered, TypeOK
      <3>2. h.request.metric \in Metric
        BY <3>1, RequestTypes
      <3>3. QED
        BY <3>1, <3>2, <1>4
    <2>2. CASE h \notin stdHandles
      <3>1. Usable(globalReg, m, c, r.type) /\ h = [request |-> r, global |-> globalReg'[m]]
        BY <2>2, <1>6 DEF StdNew, m, c
      <3>2. QED
        BY <3>1, <1>1, <1>4 DEF Serves, m
    <2>3. QED
      BY <2>1, <2>2
  <1>7. TrackerIsRegistered'
    BY <1>4, <1>5, <1>6 DEF MRInv, TrackerIsRegistered, TypeOK
  <1>8. QED
    BY <1>5, <1>6, <1>7 DEF MRInv, CallOK, LocalOK

(* The first half of a tenant's call.  If the call goes on, it has the     *)
(* collector that the tracker has from now on.                             *)
LEMMA GetOrCreateHolds ==
  ASSUME MRInv, NEW t \in Tenant, NEW r \in MTRequest, getOrCreate(t, r)
  PROVE  MRInv'
  <1> DEFINE m == r.metric
             c == Collector(r)
  <1>1. r \in Request
    BY DEF MTRequest
  <1>2. c \in AnyCollector /\ c # None /\ m \in Metric /\ Is(c, r.type)
        /\ c.labels = r.labels /\ r.labels \in LabelList \cup {<<>>}
    BY <1>1, RequestTypes DEF Is
  <1>3. TypeOK
    BY DEF MRInv, TrackerIsRegistered
  <1>4. /\ metricLabels[m] \subseteq {r.labels}
        /\ metricLabels' = [metricLabels EXCEPT ![m] = {r.labels}]
        /\ UNCHANGED <<localReg, handles, stdHandles>>
    BY DEF getOrCreate, validateLabels
  <1>5. /\ globalReg' \in [Metric -> AnyCollector]
        /\ collectors' \in [Metric -> AnyCollector]
        /\ \A n \in Metric : globalReg[n] # None => globalReg'[n] = globalReg[n]
        /\ \A n \in Metric : collectors[n] # None => collectors'[n] = collectors[n]
        /\ \A n \in Metric \ {m} : collectors'[n] = collectors[n] /\ globalReg'[n] = globalReg[n]
        /\ collectors'[m] # None =>
             collectors'[m] = globalReg'[m] /\ Range(collectors'[m].labels) = Range(r.labels)
        /\ \/ UNCHANGED building
           \/ /\ building' = [building EXCEPT ![t] =
                                @ \cup {[request |-> r, global |-> collectors'[m]]}]
              /\ collectors'[m] # None
              /\ Is(collectors'[m], r.type)
    <2>1. CASE collectors[m] # None
      <3>1. UNCHANGED <<collectors, globalReg>>
        BY <2>1 DEF getOrCreate
      <3>2. collectors[m] = globalReg[m] /\ Range(collectors[m].labels) = Range(r.labels)
        BY <2>1, <1>2, <1>4 DEF MRInv, TrackerIsRegistered
      <3>3. \/ UNCHANGED building
            \/ /\ building' = [building EXCEPT ![t] =
                                @ \cup {[request |-> r, global |-> collectors'[m]]}]
               /\ Is(collectors[m], r.type)
        BY <2>1 DEF getOrCreate, Tracked
      <3>4. QED
        BY <3>1, <3>2, <3>3, <2>1, <1>3 DEF TypeOK
    <2>2. CASE collectors[m] = None
      <3>1. globalReg' = Registered(globalReg, m, c)
        BY <2>2 DEF getOrCreate
      <3>2. \/ UNCHANGED <<collectors, building>>
            \/ /\ Usable(globalReg, m, c, r.type)
               /\ collectors' = [collectors EXCEPT ![m] = globalReg'[m]]
               /\ building' = [building EXCEPT ![t] =
                                @ \cup {[request |-> r, global |-> collectors'[m]]}]
        BY <2>2 DEF getOrCreate
      <3>3. globalReg \in [Metric -> AnyCollector] /\ collectors \in [Metric -> AnyCollector]
        BY <1>3 DEF TypeOK
      <3> HIDE DEF m, c
      <3>4. /\ globalReg' \in [Metric -> AnyCollector]
            /\ \A n \in Metric : globalReg[n] # None => globalReg'[n] = globalReg[n]
            /\ \A n \in Metric \ {m} : globalReg'[n] = globalReg[n]
            /\ Usable(globalReg, m, c, r.type) =>
                 /\ globalReg'[m] # None
                 /\ Is(globalReg'[m], r.type)
                 /\ Range(globalReg'[m].labels) = Range(c.labels)
        BY <1>2, <3>1, <3>3, RegisterKeeps
      <3>5. CASE UNCHANGED <<collectors, building>>
        BY <3>3, <3>4, <3>5, <2>2
      <3>6. CASE /\ Usable(globalReg, m, c, r.type)
                 /\ collectors' = [collectors EXCEPT ![m] = globalReg'[m]]
                 /\ building' = [building EXCEPT ![t] =
                                @ \cup {[request |-> r, global |-> collectors'[m]]}]
        BY <3>3, <3>4, <3>6, <2>2, <1>2
      <3>7. QED
        BY <3>2, <3>5, <3>6
    <2>3. QED
      BY <2>1, <2>2
  <1> HIDE DEF m, c
  <1>6. metricLabels \in [Metric -> SUBSET (LabelList \cup {<<>>})]
        /\ metricLabels'[m] = {r.labels}
        /\ \A n \in Metric \ {m} : metricLabels'[n] = metricLabels[n]
    BY <1>2, <1>3, <1>4 DEF TypeOK
  <1>7. TypeOK'
    <2>1. metricLabels' \in [Metric -> SUBSET (LabelList \cup {<<>>})]
      BY <1>2, <1>4, <1>6
    <2>2. collectors'[m] \in AnyCollector
      BY <1>2, <1>5
    <2>3. building' \in [Tenant -> SUBSET [request : MTRequest, global : AnyCollector]]
      BY <1>3, <1>5, <2>2 DEF TypeOK
    <2>4. QED
      BY <1>3, <1>4, <1>5, <2>1, <2>3 DEF TypeOK
  <1>8. TrackerIsRegistered'
    <2> SUFFICES ASSUME NEW n \in Metric, collectors'[n] # None
                 PROVE  /\ collectors'[n] = globalReg'[n]
                        /\ \E labels \in metricLabels'[n] :
                             Range(labels) = Range(collectors'[n].labels)
      BY <1>7 DEF TrackerIsRegistered
    <2>1. CASE n = m
      BY <2>1, <1>5, <1>6
    <2>2. CASE n # m
      BY <2>2, <1>5, <1>6 DEF MRInv, TrackerIsRegistered
    <2>3. QED
      BY <2>1, <2>2
  <1>9. ASSUME NEW q \in Request, NEW g, CallOK(q, g) PROVE CallOK(q, g)'
    <2>1. q.metric \in Metric
      BY RequestTypes
    <2>2. collectors'[q.metric] = g
      BY <1>5, <1>9, <2>1 DEF CallOK
    <2>3. metricLabels'[q.metric] = {q.labels}
      BY <1>4, <1>6, <1>9, <2>1 DEF CallOK, m
    <2>4. QED
      BY <1>9, <2>2, <2>3 DEF CallOK
  <1>10. ASSUME NEW u \in Tenant, NEW b \in building'[u] PROVE CallOK(b.request, b.global)'
    <2>1. CASE b \in building[u]
      <3>1. b.request \in Request /\ CallOK(b.request, b.global)
        BY <2>1, <1>3 DEF MRInv, TypeOK, MTRequest
      <3>2. QED
        BY <3>1, <1>9
    <2>2. CASE b \notin building[u]
      <3>1. /\ b = [request |-> r, global |-> collectors'[m]]
            /\ collectors'[m] # None
            /\ Is(collectors'[m], r.type)
        BY <2>2, <1>3, <1>5, <1>10 DEF TypeOK
      <3>2. Range(collectors'[m].labels) = Range(r.labels)
        BY <3>1, <1>5
      <3>3. QED
        BY <3>1, <3>2, <1>6 DEF CallOK, Serves, m
    <2>3. QED
      BY <2>1, <2>2
  <1>11. ASSUME NEW u \in Tenant, NEW h \in handles'[u]
         PROVE  CallOK(h.request, h.global)' /\ h.local = LocalCollector(h.request)
    <2>1. h.request \in Request /\ CallOK(h.request, h.global) /\ h.local = LocalCollector(h.request)
      BY <1>3, <1>4, <1>11 DEF MRInv, TypeOK, MTRequest
    <2>2. QED
      BY <2>1, <1>9
  <1>12. ASSUME NEW u \in Tenant, NEW n \in Metric PROVE LocalOK(n, localReg[u][n])'
    <2> SUFFICES ASSUME localReg[u][n] # None PROVE LocalOK(n, localReg[u][n])'
      BY <1>4 DEF LocalOK
    <2>1. LocalOK(n, localReg[u][n])
      BY DEF MRInv
    <2>2. collectors'[n] = collectors[n] /\ collectors[n] # None
      BY <2>1, <1>5 DEF LocalOK
    <2>3. metricLabels'[n] = metricLabels[n]
      BY <2>1, <1>4, <1>6 DEF LocalOK, m
    <2>4. QED
      BY <1>4, <2>1, <2>2, <2>3 DEF LocalOK
  <1>13. \A h \in stdHandles' :
           /\ Serves(h.request, h.global) /\ h.global # None
           /\ h.global = globalReg'[h.request.metric]
    <2> SUFFICES ASSUME NEW h \in stdHandles PROVE h.global = globalReg'[h.request.metric]
      BY <1>4 DEF MRInv
    <2>1. h.request.metric \in Metric
      BY <1>3, RequestTypes DEF TypeOK
    <2>2. h.global # None /\ h.global = globalReg[h.request.metric]
      BY DEF MRInv
    <2>3. QED
      BY <2>1, <2>2, <1>5
  <1>14. QED
    BY <1>8, <1>10, <1>11, <1>12, <1>13 DEF MRInv

(* The second half: whatever an earlier call of the tenant has left in its *)
(* registry under that name, it is the collector of this call or refused.  *)
LEMMA NewLocalHolds ==
  ASSUME MRInv, NEW t \in Tenant, NewLocal(t)
  PROVE  MRInv'
  <1>1. PICK b \in building[t] :
          LET m == b.request.metric
              c == LocalCollector(b.request)
          IN  /\ localReg' = [localReg EXCEPT ![t] = Registered(@, m, c)]
              /\ handles' =
                   [handles EXCEPT ![t] =
                      IF Usable(localReg[t], m, c, c.type)
                      THEN @ \cup {[request |-> b.request, global |-> b.global,
                                    local |-> localReg'[t][m]]}
                      ELSE @]
              /\ building' = [building EXCEPT ![t] = @ \ {b}]
              /\ UNCHANGED <<globalReg, trackerVars, stdHandles>>
    BY DEF NewLocal
  <1> DEFINE r == b.request
             m == r.metric
             c == LocalCollector(r)
             reg == localReg[t]
  <1>2. TypeOK
    BY DEF MRInv, TrackerIsRegistered
  <1>3. r \in MTRequest /\ r \in Request /\ b.global \in AnyCollector /\ CallOK(r, b.global)
    BY <1>2 DEF MRInv, TypeOK, MTRequest
  <1>4. m \in Metric /\ r.labels \in LabelList \cup {<<>>}
    BY <1>3, RequestTypes
  <1>5. /\ c \in AnyCollector /\ c # None
        /\ c.labels = Append(r.labels, "tenant_uid") /\ c.help = r.help
        /\ c.type \in {"CounterVec", "HistogramVec"}
        /\ c.type = LocalType(collectors[m])
    <2>1. Is(collectors[m], r.type)
      BY <1>3 DEF CallOK, Serves
    <2>2. QED
      BY <1>3, <2>1, LocalCollectorType, LocalTypeOfServed
  <1>6. reg \in [Metric -> AnyCollector] /\ LocalOK(m, reg[m])
    BY <1>2, <1>4 DEF MRInv, TypeOK
  <1>7. UNCHANGED <<globalReg, collectors, metricLabels, stdHandles>>
    BY <1>1 DEF trackerVars
  <1>8. collectors[m] # None /\ metricLabels[m] = {r.labels}
    BY <1>3 DEF CallOK
  <1>9. reg[m] # None => reg[m].type = c.type /\ reg[m].labels = c.labels
    BY <1>5, <1>6, <1>8 DEF LocalOK
  <1>10. localReg'[t] = Registered(reg, m, c)
         /\ \A u \in Tenant \ {t} : localReg'[u] = localReg[u]
    BY <1>1, <1>2 DEF TypeOK
  <1> HIDE DEF r, m, c, reg
  <1>11. /\ localReg'[t] \in [Metric -> AnyCollector]
         /\ \A n \in Metric \ {m} : localReg'[t][n] = reg[n]
         /\ localReg'[t][m] = IF reg[m] = None THEN c ELSE reg[m]
    BY <1>4, <1>5, <1>6, <1>10 DEF Registered, Fresh
  <1>12. Usable(reg, m, c, c.type) => localReg'[t][m] = c
    <2>1. CASE reg[m] = None
      BY <2>1, <1>11
    <2>2. CASE reg[m] # None
      <3>1. SUFFICES ASSUME Existing(reg, m, c) PROVE reg[m] = c
        BY <2>2, <1>11 DEF Usable, Fresh
      <3>2. reg[m].help = c.help /\ reg[m].type = c.type /\ reg[m].labels = c.labels
        BY <2>2, <3>1, <1>9 DEF Existing
      <3>3. reg[m] \in [type : Scalar \cup Vec, labels : Seq(LabelName), help : Help]
            /\ c \in [type : Scalar \cup Vec, labels : Seq(LabelName), help : Help]
        BY <2>2, <1>4, <1>5, <1>6 DEF AnyCollector
      <3>4. QED
        BY <3>2, <3>3
    <2>3. QED
      BY <2>1, <2>2
  <1>13. ASSUME NEW u \in Tenant, NEW h \in handles'[u]
         PROVE  /\ h \in [request : MTRequest, global : AnyCollector, local : AnyCollector]
                /\ CallOK(h.request, h.global)
                /\ h.local = LocalCollector(h.request)
    <2>1. CASE h \in handles[u]
      BY <2>1, <1>2 DEF MRInv, TypeOK
    <2>2. CASE h \notin handles[u]
      <3>1. /\ Usable(reg, m, c, c.type)
            /\ h = [request |-> r, global |-> b.global, local |-> localReg'[t][m]]
        BY <2>2, <1>1, <1>2, <1>13 DEF TypeOK, r, m, c, reg
      <3>2. h = [request |-> r, global |-> b.global, local |-> c]
        BY <3>1, <1>12
      <3>3. QED
        BY <3>2, <1>3, <1>5 DEF c
    <2>3. QED
      BY <2>1, <2>2
  <1>14. TypeOK'
    <2>1. localReg' \in [Tenant -> [Metric -> AnyCollector]]
      BY <1>1, <1>2, <1>11 DEF TypeOK
    <2>2. handles' \in [Tenant -> SUBSET [request : MTRequest, global : AnyCollector,
                                            local : AnyCollector]]
      <3>1. \A u \in Tenant : handles'[u] \subseteq
              [request : MTRequest, global : AnyCollector, local : AnyCollector]
        BY <1>13
      <3>2. handles' = [u \in Tenant |-> handles'[u]]
        BY <1>1, <1>2 DEF TypeOK
      <3>3. QED
        BY <3>1, <3>2
    <2>3. building' \in [Tenant -> SUBSET [request : MTRequest, global : AnyCollector]]
      BY <1>1, <1>2 DEF TypeOK
    <2>4. QED
      BY <1>2, <1>7, <2>1, <2>2, <2>3 DEF TypeOK
  <1>15. TrackerIsRegistered'
    BY <1>7, <1>14 DEF MRInv, TrackerIsRegistered
  <1>16. \A u \in Tenant : \A x \in building'[u] : CallOK(x.request, x.global)
    BY <1>1, <1>2 DEF MRInv, TypeOK
  <1>17. ASSUME NEW u \in Tenant, NEW n \in Metric PROVE LocalOK(n, localReg'[u][n])
    <2>1. CASE u = t /\ n = m
      BY <2>1, <1>4, <1>5, <1>6, <1>8, <1>11 DEF LocalOK
    <2>2. CASE u # t \/ n # m
      BY <2>2, <1>10, <1>11 DEF MRInv, reg
    <2>3. QED
      BY <2>1, <2>2
  <1>18. ASSUME NEW u \in Tenant
         PROVE  (/\ \A x \in building[u] : CallOK(x.request, x.global)
                 /\ \A h \in handles[u] :
                      CallOK(h.request, h.global) /\ h.local = LocalCollector(h.request)
                 /\ \A n \in Metric : LocalOK(n, localReg[u][n]))'
    <2>1. \A x \in building'[u] : CallOK(x.request, x.global)'
      BY <1>7, <1>16 DEF CallOK
    <2>2. \A h \in handles'[u] :
            CallOK(h.request, h.global)' /\ h.local = LocalCollector(h.request)
      BY <1>7, <1>13 DEF CallOK
    <2>3. \A n \in Metric : LocalOK(n, localReg[u][n])'
      BY <1>7, <1>17 DEF LocalOK
    <2>4. QED
      BY <2>1, <2>2, <2>3
  <1>19. QED
    BY <1>7, <1>15, <1>18 DEF MRInv

LEMMA StepHolds == MRInv /\ [Next]_vars => MRInv'
  <1> SUFFICES ASSUME MRInv, [Next]_vars PROVE MRInv'
    OBVIOUS
  <1>1. ASSUME NEW r \in Request, StdNew(r) PROVE MRInv'
    BY <1>1, StdNewHolds
  <1>2. ASSUME NEW t \in Tenant, NEW r \in MTRequest, New(t, r) PROVE MRInv'
    BY <1>2, GetOrCreateHolds DEF New
  <1>3. ASSUME NEW t \in Tenant, NewLocal(t) PROVE MRInv'
    BY <1>3, NewLocalHolds
  <1>4. CASE UNCHANGED vars
    <2>1. UNCHANGED <<globalReg, localReg, collectors, metricLabels, building, handles, stdHandles>>
      BY <1>4 DEF vars, trackerVars
    <2>2. TrackerIsRegistered'
      BY <2>1 DEF MRInv, TrackerIsRegistered, TypeOK
    <2>3. \A r, g : CallOK(r, g)' <=> CallOK(r, g)
      BY <2>1 DEF CallOK
    <2>4. \A m, c : LocalOK(m, c)' <=> LocalOK(m, c)
      BY <2>1 DEF LocalOK
    <2>5. QED
      BY <2>1, <2>2, <2>3, <2>4 DEF MRInv
  <1>5. QED
    BY <1>1, <1>2, <1>3, <1>4 DEF Next

-----------------------------------------------------------------------------
(* MRInv holds in every reachable state, whichever factories register      *)
(* which metrics in which order.                                           *)
THEOREM RegistrationInvariant == Safe => []MRInv
  BY InitHolds, StepHolds, PTL DEF Safe

(* What the tracker hands out is what the global registry exports.         *)
THEOREM TrackerAgrees == Safe => []TrackerIsRegistered
  <1>1. MRInv => TrackerIsRegistered
    BY DEF MRInv
  <1>2. QED
    BY <1>1, RegistrationInvariant, PTL

(* All tenants emit a metric into one global collector, with the same list *)
(* of labels.                                                              *)
THEOREM GlobalCollectorIsShared == Safe => []GlobalIsShared
  <1>1. MRInv => GlobalIsShared
    <2> SUFFICES ASSUME MRInv, NEW t \in Tenant, NEW u \in Tenant,
                        NEW g \in handles[t], NEW h \in handles[u],
                        g.request.metric = h.request.metric
                 PROVE  g.global = h.global /\ g.request.labels = h.request.labels
      BY DEF GlobalIsShared
    <2>1. CallOK(g.request, g.global) /\ CallOK(h.request, h.global)
      BY DEF MRInv
    <2>2. QED
      BY <2>1 DEF CallOK
  <1>2. QED
    BY <1>1, RegistrationInvariant, PTL

(* A metric has the same type and labels in the registries of all tenants, *)
(* the tenant's label among them.                                          *)
THEOREM TenantRegistriesAgree == Safe => []RegistriesAgree
  <1>1. ASSUME NEW S, NEW seq \in Seq(S), NEW e \in S PROVE e \in Range(Append(seq, e))
    <2>1. Append(seq, e)[Len(seq) + 1] = e /\ Len(seq) + 1 \in DOMAIN Append(seq, e)
      BY <1>1
    <2>2. QED
      BY <2>1 DEF Range
  <1>2. MRInv => RegistriesAgree
    <2> SUFFICES ASSUME MRInv, NEW t \in Tenant, NEW u \in Tenant, NEW m \in Metric,
                        localReg[t][m] # None, localReg[u][m] # None
                 PROVE  /\ localReg[u][m].type = localReg[t][m].type
                        /\ localReg[u][m].labels = localReg[t][m].labels
                        /\ "tenant_uid" \in Range(localReg[t][m].labels)
      BY DEF RegistriesAgree
    <2>1. LocalOK(m, localReg[t][m]) /\ LocalOK(m, localReg[u][m])
      BY DEF MRInv
    <2>2. PICK labels \in LabelList \cup {<<>>} :
            /\ metricLabels[m] = {labels}
            /\ localReg[t][m].labels = Append(labels, "tenant_uid")
      BY <2>1 DEF LocalOK
    <2>3. labels \in Seq(LabelName) /\ "tenant_uid" \in LabelName
      BY LabelLists DEF LabelName
    <2>4. "tenant_uid" \in Range(Append(labels, "tenant_uid"))
      BY <1>1, <2>3, Zenon
    <2>5. QED
      BY <2>1, <2>2, <2>4 DEF LocalOK
  <1>3. QED
    BY <1>2, RegistrationInvariant, PTL

(* Every handle emits into collectors of the kind it was asked for, in     *)
(* both registries.                                                        *)
THEOREM HandlesAreServed == Safe => []HandlesServe
  <1>1. MRInv => HandlesServe
    <2> SUFFICES ASSUME MRInv PROVE HandlesServe
      OBVIOUS
    <2>1. ASSUME NEW t \in Tenant, NEW h \in handles[t]
          PROVE  h.global = globalReg[h.request.metric]
      <3>1. CallOK(h.request, h.global) /\ h.request \in Request
        BY DEF MRInv, TrackerIsRegistered, TypeOK, MTRequest
      <3>2. h.request.metric \in Metric
        BY <3>1, RequestTypes
      <3>3. QED
        BY <3>1, <3>2 DEF MRInv, TrackerIsRegistered, CallOK
    <2>2. QED
      BY <2>1 DEF MRInv, HandlesServe, CallOK
  <1>2. QED
    BY <1>1, RegistrationInvariant, PTL

=============================================================================
