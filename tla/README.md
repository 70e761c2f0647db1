# Verification of the GKE Enterprise multi-tenancy framework

This directory holds TLA+ modules that model the tenant framework of
`pkg/framework`, the filtered informers of `pkg/filteredinformer`, the metrics
of `pkg/mtmetrics` and the API types with their generated clients, informers and
listers, the TLC runs that check them on small instances, and TLAPS proofs, for
every value of the constants, of all invariants, action properties and
refinements that the passing runs check. What holds under fairness is
model-checked only.

## The system

The repository is a library. A host process gives `framework.New` a dynamic
client, a shared informer on `ProviderConfig` objects, a finalizer name, a
`ControllerStarter` and a stop channel, and calls `Run`. For every
`ProviderConfig` the framework stores its finalizer on the object, asks the
starter for a set of controllers and keeps the stop channel it gets; when the
object is being deleted it closes the channel and takes the finalizer off.

| Component | State | Operations | Hard part |
|---|---|---|---|
| Work queue (vendored client-go `workqueue`) | `queue`, `dirty`, `processing`, delay channel and heap, failure counts | `Add`, `Get`, `Done`, `AddRateLimited`, `Forget`, `ShutDown`, waiting loop | a key added while it is processed; a full delay channel; shutdown |
| Task queue (`taskqueue.go`) | workers and their `workerDone` channels | `Enqueue`, `Run`, `runInternal`, `Shutdown` | five workers, retries before `Done`, draining |
| Controller (`controller.go`) | queue, informer, `stopCh` | event handlers, `sync`, `syncWrapper`, `Run`, `shutdown` | stale cache, panics, stop before the cache has synced |
| Manager and controller map (`manager.go`, `controller_map.go`) | key -> stop channel | start, stop, finalizer rollback | partial failure between four remote calls, crash, re-created objects |
| Filtered informer and factory (`pkg/filteredinformer`) | the flag `stopped`, informers remembered by a factory, the index on the shared indexer | `AddEventHandler`, `Informer`, `Cleanup`, reads of the filtered cache | labels that change while notifications queue up, removal in the middle of a notification, index and store that disagree |
| Metric factories and tracker (`mt_metrics.go`, `metrics.go`) | tracked collectors and labels, one registry per tenant and a global one | `New...`, `WithLabelValues`, `Inc`/`Add`/`Observe`, `Reset` | two registrations per metric, others on the global registry, two counters per increment |
| Multi gatherer (`gatherer.go`) | tenant -> registry | `Register`, `Unregister`, `Gather` | tenants that come and go during a scrape |
| Informer factories (generated `factory.go`, `generic.go`) | informers by type, which are started, `shuttingDown`, wait group | `InformerFor`, `ForResource`, `Start`, `Shutdown`, `WaitForCacheSync` | callers in any order: late and repeated `Start`, `Start` against `Shutdown`, several stop channels |
| API types (`pkg/apis`) | – | `DeepCopyInto`, `DeepCopy` | references that a copy shares with the cached object |
| Typed clients, informers and listers (generated) | the informer's indexer | nine requests per kind, list and watch functions, `List`, `Get` | outdated copies that are written back, expired watches, list options |
| Clientsets, scheme, fake clients, tenant context | – | – | constructors, tables and test doubles |

Components interact like this. The informer's goroutine updates its cache and
queues a notification; the handler enqueues the object's name; a worker takes
the key and calls `sync`, which reads the cache again and calls the manager;
the manager reads and writes the controller map and the API server, and calls
the starter. A sync that fails is retried through the delay queue. The cached
object is shared: the pointer that `sync` gets from the indexer is the one the
informer keeps.

The controllers of a tenant may use the other two packages. They see nodes and
leases through a filtered factory on top of the host's shared informers: the
shared informer's listener goroutine calls client-go's filtering handler, which
calls the tenant's filter and then the tenant's handler. And they create metrics
with a factory of the tenant, which shares the tracker and the global registry
with all tenants; a scrape of the multi gatherer reads the tenants' registries.
The packages share no state with the framework, so their modules stand alone.

A host obtains its informers on ProviderConfigs and Tenants from the generated
factories. A factory hands the same informer to all who ask for a type, runs it
in a goroutine and waits for that goroutine at shutdown; the informer lists and
watches through the typed client, and listers read its indexer. Whoever wants to
change a listed object deep-copies it, edits the copy and writes it back.

What makes the parts correct: a key is synced by one worker at a time and no
event is lost; a ProviderConfig has one set of controllers at most, protected by
the finalizer, and its deletion goes through in the end; what a tenant's handler
was told agrees with what its cache shows and only concerns its objects; all
tenants emit into one global collector and nothing emitted is lost; a scrape
covers the tenants that are there; a factory runs each informer once and none
after its shutdown; an indexer holds what was stored, whatever its readers do to
their copies, and catches up.

## Modules

* `Keys` – the constant `Key`: names of ProviderConfigs.
* `WorkQueue` – state and methods of the rate limiting queue. Delays are
  nondeterministic: an entry of the waiting loop may be ready at any time.
* `TaskQueue` (extends `WorkQueue`) – workers, each call on the queue a step of
  its own because the queue's lock is released in between. What `sync` does is
  left open. `Restart` is a new process.
* `ApiServer` – what the framework sees of the API server and the informer:
  resource versions and conflicts, finalizers, deletion, watch events in order,
  relist, resync, notifications. The API server is external, modelled from the
  calls made; reflector and shared informer are the vendored client-go's.
* `ProviderConfigController` (extends `TaskQueue` and `ApiServer`) – one worker's
  `sync` as a sequence of steps, one per access to something another actor can
  change (cache, API server, starter). `pc`, `obj`, `existed` and `hadFinalizer`
  are the locals of `sync` and of the manager's methods; `controllers` is the
  controller map and `running` counts the controller sets whose channel is
  open. `ensured` is a history variable.
* `TenantLifecycle` – the abstract specification: at most one controller set
  per key, and the finalizer leaves only when none runs.
* `FilteredInformers` – factories, filtered informers and caches of several
  tenants on shared informers. An object is reduced to its label. The listener
  takes a notification in up to three steps because each call of the filter
  reads the flag `stopped`. The index that all factories share is made by the
  first one that comes while the shared informer runs; reads through it fail
  without it (`IndexLookup`), and `List` then filters the whole store. `known` is
  a history variable: the objects a handler was told of.
* `MetricRegistration` – creating metrics: the tracker, the tenants' registries,
  the global one, and the standard factory on the latter. A call of a tenant's
  factory is two steps, global and local registration, and a tenant may have
  several calls under way. A collector is reduced to type, label names and help
  text.
* `TenantMetrics` – using metrics: an increment is two steps, a handle remembers
  how many resets its vector had, and a scrape reads registries one by one from
  the copy it made and merges what they export. A vector without children
  exports no family, and a family whose help text is not that of the families
  merged before it is left out and reported (`Answer`), which is what the vendored
  `Gatherers.Gather` does. `unseen`, `steady` and `atStart` are history variables.
* `InformerFactory` – the generated factory with any number of goroutines that
  call it. What a method does under the lock is one step; `Shutdown` and
  `WaitForCacheSync` go on without it. `handles`, `runs`, `ready`, `due` and
  `returned` are history variables. The factories of ProviderConfigs and Tenants
  are the same text under other names, so one module serves both.
* `ApiTypes` – the struct types of both kinds: which fields they have, which are
  pointers, slices or maps, and which of these each `DeepCopyInto` gives memory
  of its own. A struct is a record of contents and of the fields whose memory is
  shared with the original.
* `TypedClients` (extends `ApiTypes`) – the requests of both typed clients, the
  list and watch functions of the typed informers with the factory's list
  options, and the listers. Reflector and indexer are the vendored client-go's,
  the API server and its users are external. A consumer copies a listed object, a list or a part of an object, edits the
  copy and writes it back; an edit of a field that is still shared reaches the
  cached object. Other processes use the same clients.
* `TaskQueueProofs`, `ProviderConfigProofs`, `FilteredInformersProofs`,
  `MetricRegistrationProofs`, `TenantMetricsProofs`, `InformerFactoryProofs`,
  `TypedClientsProofs` – theorems about the module each is named after (the
  second: about `ProviderConfigController`, the last: also about `ApiTypes`).
* `SetSums` – what `MapThenSumSet` of the community modules computes, for
  `TenantMetricsProofs`.
* `MCTaskQueue`, `MCProviderConfig`, `MCFilteredInformers`,
  `MCMetricRegistration`, `MCTenantMetrics`, `MCInformerFactory`,
  `MCTypedClients` – instances for TLC.

Definitions whose comment begins with "Mutated" (or that stand under "Mutated
forms") are plausible bugs. They are not part of any specification; each one
replaces the operation it is named after in `PROJECT.json` to show that a
property notices.

### Correspondence to the code

| Action | Code |
|---|---|
| `Lookup` | `sync` up to the manager call: missing object, wrong type or kind, being deleted |
| `StartControllers` | `StartControllersForProviderConfig` up to the Update, with `GetOrCreate` and `SetFinalizers` on the shared object |
| `EnsureFinalizer` | the Update of the finalizer and its error path |
| `StartController` | the starter returns a channel, fails (or returns nil), or panics |
| `RollbackGet`, `RollbackUpdate` | `rollbackFinalizerOnStartFailure` |
| `StopControllers`, `StopGet`, `RemoveFinalizer` | `StopControllersForProviderConfig` |
| `CacheSynced`, `CacheSyncAborted`, `StopReceived`, `RunReturns` | `Run` and its deferred `shutdown` |
| `HandleEvent` | the Add and Update handlers |
| `Informer`, `Cleanup` | `filteredfactory.go`, each under the factory's lock |
| `FilterFirst`, `FilterSecond`, `CallHandler` | client-go's `FilteringResourceEventHandler` around `filterFunc` |
| `GetByKey`, `ByIndex`, `List` | `filteredcache.go`, with the error of a missing index |
| `IndexLookup` | `ByIndex` of the shared indexer, on the index of `NewLabelIndexFunc` |
| `getOrCreate`, `NewLocal` | the two halves of `New...` in `mt_metrics.go` |
| `StdNew` | `New...` in `metrics.go` |
| `IncLocal`, `IncGlobal` | `Inc`, `Add` and `Observe` of the dual emitters |
| `Gather`, `GatherNext`, `GatherReturns` | `MultiGatherer.Gather` up to the unlock, and the reads and the merge after it |
| `Request` | `InformerFor`, directly or through a typed informer, its lister or `ForResource` |
| `Start`, `RunReturns`, `Done` | `Start`, and the goroutines it starts with their deferred `wg.Done` |
| `Shutdown`, `ShutdownReturns` | the flag under the lock, and `wg.Wait` without it |
| `WaitForCacheSync`, `WaitForOne`, `WaitReturns` | the copy of the map under the lock, and the wait for each informer of it |
| `providerConfigsGet` ... `tenantsPatch` | the methods of the typed clients, one request each |
| `ProviderConfigListFunc`, `TenantWatchFunc`, ... | the functions within `NewFiltered...Informer` |
| `...DeepCopyInto` | the methods of that name in `zz_generated.deepcopy.go` |

The object a sync works on is *the same object* as the cached one until the
informer replaces it. `StartControllers` therefore changes `cache` too when the
resource versions agree. A relist that puts a new object with the same version
in between makes no difference that the earlier relist would not make.

## Runs

Constants: `ChanCap = 1` makes the delay channel full as soon as one retry is
waiting (1000 in the code), `MaxRequeues = 1` keeps "failed before" apart from
"not failed", `MaxRV` bounds what users do to one object (framework writes are
not bounded), `Fault`/`MaxFaults` say which faults may happen and how many.

| Run | Instance | Shows |
|---|---|---|
| `task_queue` | 2 keys, 2 workers | `TQInv`, `KeySerialized`, `NoLostRetry`, `DrainedWhenReturned`; under fairness `EventuallySynced`, `ShutdownCompletes` |
| `safety` | 1 key, 2 workers, any 2 of 9 kinds of faults, `MaxRV = 5` (create, finalizer, delete, finalizer removed, create again) | `PCInv`, `OneControllerSet`, `TeardownOrder`, `EnsuredStaysProtected`, `QuietAfterReturn`; the specifications `TQSafe` and `TenantLifecycle` are implemented |
| `liveness` | 1 key, 2 workers, 1 fault | `EventuallyRunning`, `DeletionUnblocked`, `RunStops`, `NoStaleEntry` |
| `foreign_key` | 2 keys, one of which can never be synced | `EventuallyRunning` for the other one |
| `finalizer_protects` | no fault at all | violated, see below |
| `run_returns` | stop | violated |
| `filtered_views` | 2 tenants, 1 kind, 2 objects, 3 changes; one tenant also sees objects without the label | `FIInv`, `CallsFit`, `HandlerAgrees`, `CleanupReachesAll`, `SilenceIsFinal`, `ListersAreIsolated`; under fairness `EventuallyAgrees` |
| `filtered_list` | 1 tenant, 1 object, 2 changes | violated |
| `metric_registration` | 2 tenants, 1 metric, 2 label orders, 2 help texts, 2 handles per caller | `TrackerIsRegistered`, `GlobalIsShared`, `RegistriesAgree`, `HandlesServe` |
| `tenant_metrics` | 2 factories, of two tenants or of one that is set up again, 2 help texts, 2 emitters, 3 increments, 1 reset | `NothingLost`, `ScrapeComplete`, `ScrapeIsCurrent` |
| `informer_factory` | 2 types, one known to `ForResource`, 2 callers, 2 stop channels | `IFInv` (with it `RunsOnce`), `OneInformerPerType`, `ShutdownIsFinal`, `WaitAnswersForStarted`; under fairness `ShutdownReturnsAtLast` |
| `typed_clients` | both kinds, 2 names of which the list options select one, 1 consumer, 3 accepted writes, 1 edit | `CacheIsPristine`, `SpecNeverReverts`; under fairness `CachesConverge` |

Keys are independent in the manager, so one key with two workers already has
every race within a key; two keys matter for the queue (`task_queue`) and for
keys that get in each other's way (`foreign_key`). Objects are independent in a
filtered informer but share its queue of notifications, hence two of them; three
changes take an object out of the filter and back in while an earlier
notification is still queued. Metrics are independent of each other, so one is
enough; two calls or handles per caller make a call meet what an earlier one left
and race with another one of the same tenant. Two factories let a scrape meet
an old and a new registry of one tenant or those of two tenants, whose help
texts agree or not; three increments let two handles emit, one of them a
detached one, while a third increment is under way. Tenants, emitters and help
texts are interchangeable there, which the symmetry set uses. Kinds of objects do not interact, so one is enough.

In the factory two callers make every pair of calls race, two channels let
informers of one factory stop at different times, and the types include one that
is requested late. `MaxInformers` only matters to a factory that creates more
informers than there are types. For the typed clients three writes are a
creation, a change the consumer has not seen and the write of its outdated copy
(or a deletion and a new creation); one edit has a value no object had before,
and it may hit any field of any type, so every reference of both kinds is tried.

Deadlock is checked where something can always happen (the task queue, the
filtered informers, metrics in use, the informer factory); the other runs switch it off because a
framework without events, or one that has shut down, rests, and callers that
have their metrics create no more, and the typed clients rest once the writes are
used up.

Fairness: goroutines that can run do run (workers, waiting loop, informer,
handlers, `Run`), and a sender blocked on a full channel is served in turn,
which is what Go's channels do, hence strong fairness for `Requeue`. For the
filtered informers only the listener goroutines are fair. In the factory blocked
callers go on when they can and an informer's goroutine ends once its channel is
closed; a sync is never assumed. The reflectors of the typed informers list and
watch; that a watch expires at most finitely often is not assumed. Calls of
the API server and of the starter return. Nothing is assumed about users,
faults, resyncs and the stop channel.

### Disagreements between code and documentation

1. `FinalizerProtects`: controllers can run for a ProviderConfig without a
   stored finalizer. `manager.go:109` sets the finalizer on the object shared
   with the cache before the Update; when the Update fails, the retry reads its
   own unsaved change and takes the finalizer as stored. The trace needs only a
   user who deletes the object at the wrong moment. A stale cache after a
   rollback has the same effect.
2. `RunReturnsWhenStopped`: when `stopCh` closes before the cache has synced,
   the deferred shutdown waits for workers that were never spawned.
3. `ListMatchesFilter`: with `allowMissing`, `List` leaves out objects without
   the label, because it answers from the index and the index has none of them.

Other disagreements that the modules show but no run is spent on:

* Controllers that run without a stored finalizer (1.) are never stopped once the
  object is gone: no delete handler is registered (`controller.go:86`, `Notify`)
  and `sync` ignores missing objects (`Lookup`). `src/README.md:18` says that on
  deletion all controllers are stopped.
* A vector with the labels in another order is adopted (`Usable`), and
  `WithLabelValues` is positional. The comment at `mt_metrics.go:74` speaks of the
  vector "matching the name and labelNames".
* The lister's `Get` never finds anything for these kinds (`ProviderConfigListerGet`,
  `TenantListerGet`): it looks for the key `namespace/name`, but both types are
  cluster scoped (`+kubebuilder:resource:scope=Cluster`), lack the marker
  `+genclient:nonNamespaced`, and are indexed by name alone. `List` works.
* `Run` returns and leaves the controllers' stop channels open (`RunReturns` does
  not touch `running`), which the comment at `controller.go:33` denies.
* A handler removed between the two calls of the filter in `OnUpdate` gets an add
  for an object it knows (the exception in `CallsFit`).
* A failed registration leaves its labels recorded (`getOrCreate` changes
  `metricLabels` in every case), and calls with other labels are refused from
  then on although no such metric is tracked.
* A registered Gauge is returned as a Counter (`Is`).
* The tracker does not compare help texts (`RegistriesAgree` speaks of types and
  labels only), and a scrape leaves out every tenant's family whose help text is
  not that of the first one, with an error in place of its values (`Answer`).
  The comment at `gatherer.go:76` says that `Gather` "gathers metrics from all
  registered tenant gatherers and merges them". `ScrapeIsCurrent` says what is
  left: a family is missing from the result for this reason only.

`EnsuredStaysProtected` is the part of 1 that does hold: controllers started
after an Update of their own that succeeded stay protected until stopped.
`HandlesServe` says that an adopted vector has the same labels in some order.

## Proofs

`TaskQueueProofs` proves `TQInv` inductive for any `Key`, any nonempty `Worker`
and any positive capacity. `KeySerialized` is not inductive: a key is handed
out once because the queue never holds a key that a worker holds
(`QueueIsPending`), and that needs the processing set to be what the workers
hold (`HoldersMatch`). `NoLostRetry` needs `RetryBeforeDone`: when a worker is
about to call `Done` the retry is already scheduled. `DrainedWhenReturned` follows from
`ExitsAreFinal`: workers exit only from an empty queue that refuses keys.

`ProviderConfigProofs` builds on it, for any `Key`, any nonempty `Worker`, any
`Fault` set and any bounds:

* `ImplementsTaskQueue`: every step of the controller is a step of the task
  queue, or leaves its variables alone. So all theorems about `TQSafe` hold of
  the controller; most of all, a key has one worker at a time.
* `ControllerInvariant`: `PCInv` together with `TQInv` is inductive. Neither
  `OneControllerSet` nor `EnsuredStaysProtected` is: that a start finds no
  controllers running is known from the step its worker has reached (`WorkerOK`),
  and no other worker can have changed that since because keys are serialized.
  A step of a worker concerns the key it holds only; one lemma says so and
  leaves, for each action, that key and that worker to be checked.
* `ControllersAreUnique`, `EnsuredAreProtected` and `EntriesAreTransient` follow
  from the invariant.
* `LifecycleImplemented`: with `shielded` as "the API server stores the
  finalizer", initial states map to initial states and every step to a step of
  `TenantLifecycle` or a stutter. `TeardownIsOrdered` comes from the same
  invariant: when a finalizer is taken off, the worker has stopped the
  controllers or failed to start them.
* `ReturnIsQuiet`: once `Run` has returned, no sync step is possible. Shutdown
  returns when all workers have exited (`DrainedWhenReturned` of the task queue),
  and every step of the manager is a step of a worker.

`InformerFactoryProofs` proves `IFInv` inductive for any sets of types, callers
and channels. `ShutdownIsFinal` is not inductive: it needs that whoever runs is
counted in the wait group (`routines \subseteq wg`) and that after a return the
flag is set and the group empty, so that no `Start` can add to it. `RunsOnce`
needs that `runs` counts exactly the started types. `WaitAnswersForStarted` needs
that what was requested before a `Start` that took effect is in
`startedInformers` (`ready`), and that what a waiting call owes (`due`) is still
to do or answered; that a type once synced stays so makes the answers true when
the call returns.

`FilteredInformersProofs` works for any tenants, kinds, objects and changes.
`HandlerAgrees` is the case "nothing left to do" of the chain `FIInv`: from what a
handler knows, each notification starts where the one before ended, and the last
one ends at the cached object. `FIInv` is not inductive. In the middle of an
update, between the two calls of the filter, the handler must know the old
object exactly if it passes (`OlderOK`), a handler that is added must have
nothing left over (`Unused`), and the replay for it must be of finitely many
objects (`Present`), which is so because the indexer starts empty; the set of
names need not be finite. `CallsFit` takes part because it says what is left of
the chain once a handler is being removed. The invariant is proved view by view:
a step concerns one listener, or appends one notification to all listeners of a
kind. `ChainAppend`, `ChainTail` and `ChainReplay` say what becomes of a chain
when a notification is queued, when one has been handled, and when a new
handler is given all objects in some order. `SilenceIsFinal` is an action property
and follows from the invariant step by step. `ListersAreIsolated` has an
invariant of its own (`IndexOK`): a kind whose informer a factory has handed out
has the index, or its shared informer has stopped and never gets one. Without
it a factory that comes later could add the index under a tenant that `List` has
answered by the filter, and objects without the label would vanish from the
answer.

`MetricRegistrationProofs`: `GlobalIsShared`, `RegistriesAgree` and `HandlesServe`
compare tenants with each other, but no step does: each caller meets the
tracker only. The inductive invariant `MRInv` therefore relates every call
under way and every handle (`CallOK`), every collector in a tenant's registry
(`LocalOK`) and the standard factory's handles to what the tracker holds and to
the one label list it has recorded; that two tenants agree follows. It holds
although a call releases the tracker between its two halves because nothing the
tracker holds is ever replaced.

`TenantMetricsProofs` has two invariants. `TMInv` is about scrapes: what the
scrape has read and is still to read is disjoint, and one registry for a tenant
(`ScrapeOK`), since that is so of the registered ones when the copy is made
(`GatherersOK`); counters only grow between resets (`CurrentOK`); and a registry
with a count has a child for it, so that its family is not empty when it is read
(`ExportOK`). `EMInv` adds dual emission for `NothingLost`: in every series the books balance (`Balanced`),
finitely many emitters are between the two halves, and the sums are bounded by
what has been emitted, which gives the bounds in `TypeOK`. The sum over all
registries is a recursive function on their subsets. `SetSums` proves that the
recursion has exactly one solution over a finite set, that a sum bounds its
terms, and that it grows by one when one term does. The induction theorems of the
library cannot be used for this, as they take an operator; a minimal
counterexample among the subsets (`MinimalSubset`) does the same.

`TypedClientsProofs` first proves `DeepCopyOwnsMemory`: for each of the struct
types of both kinds, whichever of its fields are nil, the generated deep copy
has the contents of the original and shares no memory with it. From it, `TCInv` is
inductive: every stored object, event and cached object is as the write with its
resource version left it (`LogOK`, `ObjectsOK`), and what a consumer holds shares
no memory (`TypesOK`) and has the values of a stored version or newer ones
(`HeldOK`). `CacheIsPristine` is part of it. `SpecNeverReverts` follows because
an update of the whole object needs the current resource version, by `HeldOK`
with values no older than the stored ones, and an update of the status takes the
rest from the store. Both are stated for `Spec`; its fairness plays no role.

Assumptions are those of the modules and no others: `NoKey`, `Finalizer`, `Other`,
`Missing` and `Absent` are distinct from what they stand beside, `Foreign`, `Known`,
`Selected` and `AllowMissing` are subsets of what they select from, there is a
worker, the capacity is positive, bounds are natural numbers, and callers name no
label of theirs `tenant_uid`, which the factories append (Prometheus would refuse
the tenant's collector; no proof depends on it). No set of keys, tenants, names,
types or emitters need be finite. TLC evaluates the assumptions in the runs. The
inductive invariants were checked with TLC on the instances of the runs before
they were proved.

Model-checked only: everything under fairness (`EventuallySynced`,
`ShutdownCompletes`, `EventuallyRunning`, `DeletionUnblocked`, `RunStops`,
`EventuallyAgrees`, `ShutdownReturnsAtLast`, `CachesConverge`), which is out of
the prover's reach.

## Not modelled

Log messages, the tenant context value, metrics of the work queue, actual
delays of the rate limiter, `Enqueue` of objects without a key (logged and
dropped), several replicas of the framework (the code has no leader election).
Of the filtered informer: what it inherits unchanged from the shared informer
(several handlers of one informer have listeners of their own and behave alike),
and indexes other than the filter's. Of the metrics: bucket layouts, constant
labels, and a `Reset` of the global vector through a handle of the standard
factory.

Of the generated code: the construction of clientsets and REST clients and the
scheme (they run once and keep no state), the fake clients (test doubles around
client-go's object tracker), resync periods, request timeouts, requests that
fail (they change nothing), and namespaces, which cluster-scoped kinds do not
have: a client or lister for one behaves as described above for `Get`. The
listers' selectors and the namespaced `List`, which for the namespace "" is
`List`, only select from what is modelled.

## Plan

1. Done: task queue, controller, manager, life cycle, and their proofs.
2. Done: filtered informers, metric registration, emission and scrape, checked
   with TLC.
3. Done: informer factory with proofs; API types and typed clients, checked with
   TLC.
4. Done: proofs for the filtered informers, metrics in registration and use, API
   types and typed clients.
5. Liveness stays with TLC.
