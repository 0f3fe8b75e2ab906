# A TLA+ model of KubeHICE

KubeHICE is Kubernetes 1.22 with a scheduler for clusters whose nodes differ in
architecture and in single-thread performance. What it adds to Kubernetes is a set
of scheduler plugins (`pkg/scheduler/framework/plugins/hicev1`, `hicev2`, `mhice`)
and a few tools (`kubehice-tools`). The plugins change how pods are filtered and, more
radically, how they are bound: `Bind` does not ask the API server, it edits the pod in
etcd. This project models that scheduler, from the cache it decides on to the etcd keys
it shares with others and the queue it takes its pods from, checks it with TLC on small
instances, and proves with TLAPS, for every instance, the safety properties of the cache and its
snapshots, the queue, the image registry and the binding protocol, up to what the code keeps of
Hicev2's guarantee that no node is given more CPU than it has.

Paths below are relative to the repository; `P` is `pkg/scheduler`.

## 1. Inventory

| Component | State | Operations | Interacts with |
|---|---|---|---|
| Scheduler cache (`P/internal/cache`, `NodeInfo` in `P/framework/types.go`) | `podStates`, `assumedPods`, `nodes` and their linked list with generations, `nodeTree`, `imageStates` under one mutex; the snapshot | Assume, FinishBinding, Forget, Add/Update/RemovePod, Add/Update/RemoveNode, expiry, UpdateSnapshot | scheduling cycle, binding goroutines, informer handlers, its own janitor |
| Scheduling cycle (`P/scheduler.go`, `factory.go`) | snapshot, the pod in its cycle, a goroutine per binding | `scheduleOne`: pop, skip, filter, assume; goroutine: bind, finish, forget, record failure | queue, cache, plugins, API server |
| Event handlers (`P/eventhandlers.go`) | the informers' stores | pod handlers of the queue, pod and node handlers of the cache | API server's watch, queue, cache |
| Scheduling queue (`P/internal/queue`) | `activeQ`, `podBackoffQ`, `unschedulableQ`, `schedulingCycle`, `moveRequestCycle`, a condition variable | Add, Update, Delete, Pop, AddUnschedulableIfNotPresent, Activate, moves by events, two timers | cycle, binding goroutines and their error function, handlers |
| Hicev2 (`hicev2/hice.go`, `fit.go`) | none of its own; labels `hice.kb`, `hice.kj` | Filter (performance, converted CPU), Score, Bind (convert, Get, Put) | snapshot, etcd |
| Hicev1 (`hicev1/hice.go`) | the keys `kubehice/images`, `kubehice/unavailableimages` | PreFilter (read, register unknown images), Filter (architecture), Bind (image names) | etcd, container-manifests |
| container-manifests | a round's lists | get names, inspect each, append to `kubehice/images`, overwrite `kubehice/unavailableimages` | etcd, image registry |
| multi-arch-images | none | overwrite `kubehice/images` | etcd |
| mhice (`mhice/mhice.go`) | a call graph and a network topology | Less (queue order), PreFilter (deployment order), Score | queue, snapshot |
| monitor clients and server, analyse, bench, scheduler-metrics | files | collect, report | HTTP, files |
| Process start (`cmd/kube-scheduler/app/server.go`) | – | start informers, wait for their stores, schedule | all of the above |

What is hard here:

* **Writers that do not compare revisions.** `changePodInEtcd` (hicev2/hice.go:310) reads
  a pod, edits it and puts it back; users delete it, kubelets and the API server update
  it in between. PreFilter, container-manifests and the administrator's import do the
  same to the two image keys.
* **Two units of CPU in one list.** A NodeInfo lists assumed pods with the request their
  owner wrote and confirmed pods with the request `Bind` converted; `fitsRequest` tells them
  apart by whether annotations are nil.
* **State used after it may have changed.** Bind runs in a goroutine and reads the snapshot
  of whatever cycle is running then.
* **A queue with five kinds of callers.** Handlers, timers, the cycle, binding goroutines and
  their error function move pods between three maps; the error function looks a pod up, reads
  the cycle and puts the pod back in separate steps.
* **Incremental snapshots.** `UpdateSnapshot` stops at the first NodeInfo that is not newer, and
  decides by counting whether nodes were removed: every operation must keep the order.
* **A gate that may wait for itself.** mhice refuses a pod until other services run.
* **Crashes, errors, late and merged events.** Assumed pods expire, informers relist, the
  process starts scheduling before its handlers have seen the first list; panics on empty
  answers (`Kvs[0]`) end the process in the middle of things.

What makes the components correct: the cache's structures agree with each other and with
the state machine its interface documents; a node is never given more CPU than it has;
no pod is lost, bound twice or bound after its deletion; the cache converges to etcd;
a pod that fits is bound in the end; pods run only under image names that exist for
their node; a pending pod is in one queue or being tried, and is tried again in the end; a
snapshot is the cache; every microservice is deployed in the end. `PROJECT.json` lists the hazards,
each at its line with the properties that would catch it.

## 2. Modules

| Module | Models | Role |
|---|---|---|
| `SchedulerCache` | cache.go, node_tree.go, NodeInfo | component; one action per operation of the Cache interface |
| `PodLifecycle` | the diagram in interface.go | abstract specification of one pod in the cache |
| `SchedulerCacheProofs` | – | proofs: inductive invariant, refinement of `PodLifecycle` |
| `NodeTree` | node_tree.go | operators: zones and their round-robin list |
| `CacheSnapshot` | the linked list, generations, zones, image states and `UpdateSnapshot` | EXTENDS SchedulerCache and NodeTree: each action is one of SchedulerCache with what it does to the list |
| `SchedulingQueue` | scheduling_queue.go, its handlers, scheduleOne and the error function | component |
| `PendingPods` | the SchedulingQueue interface | abstract specification of the queue: a set of pods |
| `MHice` | mhice's PreFilter | component |
| `HiceCpu` | hicev2's arithmetic | operators: conversion, request of a pod, performance filter |
| `HiceScheduler` | scheduleOne, binding goroutines, hicev2, event handlers, etcd and watch | composition: `Cache == INSTANCE SchedulerCache`, EXTENDS HiceCpu |
| `ImageRegistry` | hicev1, container-manifests, multi-arch-images | component: three programs and two etcd keys |
| `SchedulingQueueProofs` | – | proofs: the queue's invariants, refinement of `PendingPods` |
| `ImageRegistryProofs` | – | proofs: bound pods run existing images |
| `SumTheorems` | – | lemmas: finite sums (`SumFunction`) |
| `HiceSchedulerProofs` | – | proofs: types and coherence, whatever fails |
| `HiceBindingProofs` | – | EXTENDS HiceSchedulerProofs; proofs: no klog.Fatal, no rebinding, convergence |
| `HiceCapacityProofs` | – | EXTENDS HiceBindingProofs; proofs: capacity |
| `CacheSnapshotProofs` | – | EXTENDS CacheSnapshot, SchedulerCacheProofs; proofs: list, node tree, image states, a snapshot is the cache |
| `MC*` | – | instances for TLC |

Operators whose comment begins with "Mutant of" are deliberately wrong variants of the
definition that follows them. No specification uses them; putting one in the place of its
original must break the property named in `PROJECT.json`, which shows that the property
depends on that piece of code.

### SchedulerCache

Absent map entries are `Nil`. Pod objects are whatever records the instance supplies,
with a `uid` and a `node`; their request is the operator constant `Cpu`. Every exported
operation holds the mutex for its whole body, so each is one action; its error returns are
a disjunct that changes nothing. `klog.Fatal` sets `fatal`, after which only `Restart` is
possible. `Next` lets the operations come in any order with any objects, which covers the
scheduler and also callers it does not have (two restrictions: an informer's update keeps
UID and node of the object, and a node is updated only after it was added). The janitor's
loop expires one key per step: its iterations are independent of each other.
`InfoRemovePod` keeps the detail that matters most: the entry is found by UID, the
request subtracted is that of the argument. The running total is therefore right only while all
objects of a pod have the same request, which Hicev2's Bind does not respect (`RequestedDrifts`).

### CacheSnapshot and NodeTree

`items` is the doubly linked list as the code has it, with `head`, `next` and `prev`, and the
generation of each item; the snapshot's own generation is kept beside them under `Nil`.
Generations are only compared, so after each new one they are renumbered from 0, which makes
the state finite without changing any comparison. An assignment through a pointer that may be
nil is `Through`. Each `Snap...` action is the action of `SchedulerCache` with the effect of
the same operation on list, zones and image states. `UpdateSnapshot` follows the loop: it
walks from the head while generations are newer (`Newer`), copies in place (so `nodeInfoList`,
which holds pointers, sees the copies), removes entries of deleted nodes by counting
(`Deleted`: any choice the random order of the map allows), rebuilds the lists if nodes came
or went or affinity changed, and recovers if the length is wrong. Left out: the order of the
snapshot's list (it matters to scoring only), the anti-affinity list, which is kept like the
affinity list, the sizes of images and the summaries in the NodeInfos.

The informer's contract is part of `SnapNodeOperation`: it adds a node it does not have, and
updates and removes one it has with the object it gave last. A removal of a node the cache does not
have is an action of its own, which changes nothing.

### SchedulingQueue and PendingPods

The three queues are maps from pods to QueuedPodInfos or `Nil`. All operations hold the lock
and are one step each. Time is an age in a QueuedPodInfo: backing off, backoff over, longer
than `unschedulableQTimeInterval` (which is larger than the largest backoff). The two cycle
counters only grow and are compared for `>=`; `moveRequested` says whether they are equal, and
an attempt that has read the cycle records in `moved` what the comparison will give. An attempt
(`tasks`) begins with `Pop`, in scheduleOne, may go on in a binding goroutine, and ends with
the binding or with `CheckLister`, `ReadSchedulingCycle`, `Requeue` and `PatchFailure`, which
may interleave with everything else. The handlers of unassigned pods see a pod's states one by
one, or skip some after a relist; the handlers of assigned pods run in another goroutine
(`addPodToCache`, `deletePodFromCache`). Any set of pods may pass a node event's check, any
pod of `ToActivate` may be activated, and any pod may be the head of activeQ.

`PendingPods` is what the interface shows: a set. A pod enters when it appears, changes or
its attempt ends, and leaves when it is taken or is no longer pending. The refinement maps
`queued` to the union of the three maps, so timers, moves and activations must be invisible.
This is the view `HiceScheduler` takes of the queue.

### MHice

`deployed` are the services with a pod in the snapshot, `active` those whose pod may be popped,
`parked` the rejected ones, which come back by the queue's timers (what `EventuallyPopped` of
`SchedulingQueue` says). `PreFilter` is computed as in the code, over a graph that is a constant; `-1`
is no call. `Replace` deletes a deployed pod and its controller creates another, until
`settled`. Less orders the attempts; the model allows every order. Services have one pod each,
which the code's comment assumes (mhice.go:171), and no two services call each other: with
mutual calls the loop at mhice.go:174-191 may give different results in different orders of the map.

### HiceScheduler

`etcd[p]` is the pod under `/registry/pods`, `watch[p]` the events of that key that the
scheduler has not seen, `informer[p]` the lister's object. `PopPod` starts a cycle (or
skips a deleting or assumed pod) and takes the snapshot; `AssumeOn` picks any feasible node
and starts a goroutine; the goroutine's steps are `BindConvert` (snapshot lookup and
conversion), `BindGet`, `BindPut`, `BindDone` or `BindFailed`. Deliveries run both handlers of
an event. What others do is chosen by the constant `Others` (`run`, `delete`, `annotate`,
`relabel`, `nodes`), what fails by `Faults`:
`error` (etcd answers with an error), `applied` (the same, but the Put took effect),
`crash`, `late` (the event of a binding may be later than the expiry of the assumed pod),
`unsynced` (the first cycles after a restart may run before the handlers have filled cache and
queue), `relist` (only the last of several events is seen).

Abstractions, and why they are sound for the properties:

* The labels `hice.kb` and `hice.kj` are positive decimal fractions, taken as integers in a common
  decimal unit (tenths in the runs). The code computes `int64(float64(x)*kb/kj)`. While
  `x*kb < 2^51`, float64 can neither lift a quotient to the next integer nor take one that is not an
  integer below the last, but it may give an integral quotient just below the integer, and
  `int64()` then drops a whole milli-CPU. `Scale` is integer division, less one for the arguments in
  the constant `FallsShort`; the proofs hold for every such set, and the runs are given
  what IEEE 754 arithmetic does to their requests (512m * 0.3 / 0.1 is 1535m). `Exceeds` does the
  same for the comparison of the performance filter. Labels that are 0, negative or not finite
  are left out.
* A request has the three parts the code knows: containers, the largest init container and
  the overhead of the sandbox. Filter converts their total, Bind only the containers.
* Only CPU and the number of pods are counted; other resources are not converted. All
  pods belong to the KubeHICE scheduler. Other filter plugins accept every node.
* The queues are one map from which any pod may be popped (`PendingPods`).
* `recordSchedulingFailure` puts the pod back and patches its condition in one step;
  a failed bind's FinishBinding, ForgetPod and recording are one step too. Nothing but the
  cycle of another pod can come between, and it sees less CPU free, never more.
* Node events are applied when they happen; pod events are queued per pod.
* A pod's name is its UID. Deleting a pod and creating another of the same name is not
  modelled, nor the update event that merges the two.
* After a restart the handlers have run before the first cycle unless `unsynced` is chosen. The
  code does not ensure it: `WaitForCacheSync` (server.go:197) waits for the informers' stores.
* The error function also removes a node from the cache when the error says that the node was
  not found (factory.go:382-394). This is left out: errors arrive wrapped, and the type
  assertion fails.

### ImageRegistry

`images` is the list under `kubehice/images` (or `Nil` without the key) and `unavailable` the
set under the other key; `cycle` is the pod in PreFilter/Filter and `tool` the round of
container-manifests, each with the data it has read so far. Every etcd call is a step of
its own, since that is where the programs interleave. The versions of an image are a
set of records (architecture, image, imported or inspected), which stand for the names to
pull. An unknown image is registered again in each cycle of its pod. The keys begin
as one of `InitialKeys`: none at all, or an empty list and a leftover name. A panic ends the cycle or the
round and the program is started again (both run under a supervisor). Filter and a successful Bind are
one step, for they use only what PreFilter read; a Bind that fails (snapshot, etcd client, Get or Put)
is `BindError`, and the pod comes back in another cycle.

## 3. Runs

Bounds: two pods and at most two nodes are enough for the races in question, which are
between two bindings, or a binding and one other party. The nodes are chosen so that
capacity matters. In `HiceFaults` the pods come from a reference node of 0.3. On the slow node
(0.1, 1535m) the pod of 512m is admitted as 1535m, for float64 falls short, and bound as 1536m; on
the fast one (2.0, 100m) every conversion is cut off (76.8, 16.8 and 37.5 milli-CPU), and there
is room for one pod. In `HiceDeletes` both nodes are slower than the reference node, one pod has overhead and
an init container larger than its containers, and both pods fit one node only after the first is
counted as it is bound. `MaxFaults` bounds errors and crashes together: two in `HiceFaults`,
which allow a failure during the recovery from another, one in the other two runs, whose
users, nodes or late events multiply the states. `HiceHostile` has one pod, for its subject is
what the objects and events of one pod do to the cache. The system may stop once every pod is
bound and every event handled, so the HiceScheduler runs do not check for deadlock; those of
the cache and of the images do.

| Run | States | Checks | Result |
|---|---|---|---|
| `Cache` | 147,007 | the cache's invariants, `AddedIsStable`, refinement of `PodLifecycle`; the list is sorted and well linked, snapshots equal the cache, zones and images; one pod, three nodes (so that the list has a middle), two zones, one image, nodes interchangeable, operations in any order | holds |
| `Queue` | 67,490 | one queue per pod, no lost wakeup, no lost pod, no missed move request, refinement of `PendingPods`, `EventuallyPopped`, `GhostsLeave`; one pod, three attempts at a time, relists | holds |
| `Microservices` | 17,496 | `HeaviestFirst`, `EventuallyDeployed`; eight services and a pod outside the graph | holds |
| `HiceFaults` | 60,052 | capacity and counting up to what float64 rounds off, convergence, no klog.Fatal, no rebinding, `EventuallyBound`; kubelets update pods, two errors or crashes, relists | holds |
| `HiceDeletes` | 1,231,437 | capacity, convergence, no klog.Fatal; pods deleted at any time, one error or crash, relists | holds |
| `HiceHostile` | 449,964 | coherence and convergence of the cache; annotations, relabelled nodes, nodes that leave and rejoin, Puts that are applied and reported as failed, events later than expiry, cycles before the handlers, relists | holds |
| `Images` | 306,848 | pods run under existing names, lookups change only by an import or a stale write after one, pods are placed once the key exists; an import, a fault, a name left over | holds |
| `AnnotatedPods` | – | `NoOvercommit`, the guarantee in the repository's README, for a pod created with annotations | violated |
| `DeletedPods` | – | `BindsLivePods`, what the API server's binding guarantees | violated |
| `AutomaticAlone` | – | `EventuallyPlaced`, the README's alternative to a manual import: PreFilter panics before it registers an image, and the tool has nothing to inspect | violated |
| `RequestedDrifts` | – | `RequestedIsTotal`, the comment of `NodeInfo.Requested`, with the requests Bind converts | violated |
| `Neighbourless` | – | `WaitsForNeighbours`, the comment of mhice's PreFilter: a pod that calls no running service waits | violated |

So Hicev2 keeps the capacity of a node, through failures and deletions and with conversion in both
directions, but for one milli-CPU for each pod whose converted total float64 rounded off, and
under these conditions: the pods have no annotations of their own; on nodes faster than
their reference node they have no overhead and no large init containers; nodes keep their label;
Puts that take effect are answered; events come before an assumed pod expires; and after a restart the
handlers have filled the cache before the first cycle, which is a race in the code (server.go:197).
`findings` in `PROJECT.json` quotes the lines that the violated runs are about.

In `Cache` one pod is enough to exercise every branch, since no operation looks at two pods, and the
theorems of section 4 cover any number of them. In `Queue` likewise; there `MaxTasks` bounds the
attempts under way, `MaxEvents` the states of a pod that wait for the handlers, and `MaxSpec` how
often its owner changes it. Two attempts are needed for a binding goroutine to fail while another
cycle runs, a third for an error function that is later still, and two pending states for a relist to
skip one. One plugin and two kinds of events are enough to tell an event that helps from one
that does not.

`Microservices` leaves out three of the eleven services of `GenerateServiceGraph`, which are
leaves like `currencyservice`. A system that is fully deployed and settled has nothing to do,
so this run does not check for deadlock.

`MaxEntries` bounds `kubehice/images`, which grows without limit in the code while the
scheduler and the tool hand a name back and forth. In `Images` the bound of 16 is never
reached (24 gives the same states), which liveness needs.

### Seen while modelling, in no run

These follow from the definitions as they stand; each is at the line given.

* Bind reads the node from the snapshot in the binding goroutine (hicev2/hice.go:210), where a
  later cycle may have replaced it: what it converts with need not be what Filter checked.
  framework/interface.go:569-571 says that plugins of the binding cycle should not use it.
* float64 may take a whole milli-CPU off what Filter charges: a pod of reference 0.3 with containers
  of 200m, 200m and 112m is charged 1535m on a node of 0.1 and bound with 600m + 600m + 336m = 1536m.
  `NoOvercommit` therefore fails by one milli-CPU in `HiceFaults`; `CapacityKept` is what holds.
* A failed binding is compared with the scheduling cycle that runs by then (factory.go:416), so
  a move request of its own cycle may be missed; the timeout finds the pod (`EventuallyPopped`).
* mhice: once all services of the graph run, a second replica or the new pod of a rolling
  update is rejected for ever (mhice.go:230: the largest edge to a missing service is -1). `Less` prefers
  pods without calls to the running ones, and smaller sums, against its comments (lines 83 and 94), and is not a strict order;
  the gate makes up for it.
* Init containers and overhead keep their request (hicev2/hice.go:276): on a node faster than the
  pod's reference node Filter divides them too, and the node is given more than Filter admitted. The
  pods of `HiceFaults` have small init containers and no overhead for that reason.
* After a restart the first cycles may find the cache empty and overcommit a node (server.go:197).
  `HiceHostile` has such cycles, with one pod, and shows that the cache recovers.
* A Put that is applied and reported as failed (hicev2/hice.go:350) is followed by another
  binding, possibly to another node. `HiceHostile` has it, and checks the cache only.
* Bind appends a PodScheduled condition to that of an earlier failure (hicev2/hice.go:336);
  readers take the first, which says False.
* Names registered during a round are dropped from `kubehice/unavailableimages`
  (container-manifests/main.go:116), and an import between read and write of `kubehice/images`
  is lost (main.go:177). Pods register their images again in each cycle, and
  `PlacedOnceImported` shows that this is enough to place them.
* While only images are left that cannot be inspected, rounds follow each other without the
  minute of sleep that README.md:50 speaks of (main.go:101).

### Fairness

`HiceScheduler!Fairness`: goroutines, the cycle and informers go on (weak fairness); a pod
that is in the queue again and again is popped (strong fairness: the queue orders by
priority and time, so equal pods take turns, and retried pods come back through timers);
klog.Fatal is followed by a restart. Nothing obliges faults, users, kubelets or expiry.
`ImageRegistry!Fairness` is alike: both programs go on, every waiting pod has its turn again.
`EventuallyBound` (in `HiceFaults`) needs no expiry and survives two faults.

`SchedulingQueue!Fairness`: the two timers of `Run` fire, time passes, handlers are called and
attempts come to an end (weak fairness, each is a goroutine or a loop of its own); a pod that
is in activeQ again and again is popped (strong: a pod that fails backs off before it
competes again). Events, activations, users and relists are not owed, so
`EventuallyPopped` is due to the timers alone. `MHice!Fairness` is what this gives:
a waiting pod is popped, and a rejected one made active.

## 4. Proofs

Every theorem is about the specification that TLC checks, for all values of its constants.
The assumptions on constants are ASSUMEs of the model modules, which TLC evaluates in the
runs; two results need more, which their theorems state as hypotheses.

### SchedulerCacheProofs

| Theorem | Statement |
|---|---|
| `TypeCorrect` | `Spec => []TypeOK` |
| `PodsAreWhereTheyAre` | `Spec => []PodsWhereTheyAre` |
| `JanitorIsSafe` | `Spec => []AssumedCanExpire` |
| `TreeIsRight` | `Spec => []TreeMatchesNodes` |
| `AddedPodsAreStable` | `Spec => AddedIsStable` |
| `CacheImplementsLifecycle` | `Spec => Lifecycle!Spec` |

Assumptions: objects have their UID and node in `Pods` and `Nodes` and an integer request
(`ObjectsAssumption`), and `Nil` is none of the values it stands beside (`NilAssumption`).

The inductive invariant is `IInv`: the four invariants together with `KeyedByUid`, the key of a
podState is the UID of its object. None of them is inductive alone. `RemovePod`, expiry and a
confirmation on another node remove the object that `podStates` holds, so that the pod
leaves the right list requires the podState to be under the pod's own key; that the list
then holds no second entry of the pod requires `PodsWhereTheyAre`, and that an unknown node
may be skipped requires that only `Nil` entries list nothing. The argument goes through
`addPod` and `removePod` once (`AddPodEffect`, `RemovePodEffect`: they change one list, by one
pod), then through three kinds of steps (a pod enters, leaves or is replaced: `EnterStep`,
`LeaveStep`, `ReplaceStep`), then operation by operation (`PodOperationStep`,
`NodeOperationStep`).

The refinement mapping reads a pod's node off the NodeInfos, as the filters do, and its
phase off `assumedPods`. Under `IInv` this is what `podStates` says (`MappingHolds`), and
every operation changes one pod along an arrow of the diagram (`PodOperationEffect`).

### SchedulingQueueProofs

| Theorem | Statement |
|---|---|
| `QueueTypeCorrect` | `Spec => []TypeOK` |
| `OneQueueOnly` | `Spec => []InOneQueue` |
| `WakeupsReachPop` | `Spec => []NoLostWakeup` |
| `PodsAreNotLost` | `Spec => []NoPodLost` |
| `MovesAreNotMissed` | `Spec => NoMissedMove` |
| `QueueImplementsPendingPods` | `Spec => ImplementsPendingPods` |

For all pods, plugins, events and bounds (`QueueAssumption`). `IInv == QInv /\ ApiInv /\ TaskInv`.
`QInv`: the three maps are disjoint and Pop does not sleep beside a full activeQ. `ApiInv`:
the events that wait end in what the lister has. `TaskInv` is about the attempts, which are what
makes `NoPodLost` hard: an assumed pod has a binding goroutine until it is bound or gone
(`AssumedIsBinding`); a pod the handlers know to be pending is queued, tried, or no longer
pending in the lister (`SeenIsHandled`: the handlers may be behind the lister the error function
looks at); and a move request since Pop is noted in the cycle the attempt has read or will
read (`MoveIsNoted`). The proofs first say what each operation does to the set of queued pods,
then what each step of an attempt does to the attempts, and the refinement reuses both.

### ImageRegistryProofs

| Theorem | Statement |
|---|---|
| `RegistryTypeCorrect` | `Spec => []TypeOK` |
| `BoundPodsCanRun` | `Spec => []RunsExistingImages` |
| `LookupsAreStable` | `Spec => LookupIsStable` |

`IInv` says that every list, in etcd or in the hands of a program that has read it, is
`Sound`: an entry names only versions of its own image that exist. That is not obvious, because
what a program writes is what it read before, with something appended. `ReadIsCurrent` is
what stability needs: until something is imported, `kubehice/images` is what the tool has read when
it writes the longer list. `LookupsAreStable` speaks of all histories: a lookup changes with an
import, or when the tool writes a list that it read before one, and at no other time. Assumed of the import
and of the keys at the start: their entries are sound too (`InitialAssumption`).

### SumTheorems

`SumFunction` of the community modules is a fold that takes elements in an order of its own.
The lemmas show that the order does not matter and that a sum follows when an element
comes, goes or grows. The library's induction theorems have an operator parameter, which the
provers cannot instantiate, so induction is stated over sets instead: a set of subsets that
contains T when it contains all T without an element contains every subset of a finite
set (`SubsetInduction`, from a minimal counterexample).

### HiceSchedulerProofs, HiceBindingProofs, HiceCapacityProofs

| Theorem | Hypotheses | Statement |
|---|---|---|
| `SchedulerTypeCorrect` | – | `Spec => []TypeOK` |
| `CacheIsCoherent` | – | `Spec => []CacheStaysCoherent` |
| `SchedulerNeverFatal` | `Timely` | `Spec => []NeverFatal` |
| `PodsAreNeverRebound` | `Timely` | `Spec => NeverRebound` |
| `SchedulerIsConsistent` | `Timely` | `Spec => []ConsistentWhenQuiet` |
| `CacheCountsEnough` | `Timely`, `Plain` | `Spec => []CacheNeverUndercounts` |
| `CapacityIsKept` | `Timely`, `Plain` | `Spec => []CapacityKept` |

For all pods, containers, nodes, performance values and bounds, and whatever `Others` and `Faults`
are beyond the hypotheses (`SchedulerAssumption`: CPU and labels are natural numbers, labels
not 0; `FloatAssumption`: any positive arguments may fall short).

* `Timely`: `applied`, `late` and `unsynced` are not among the faults. With `applied` the scheduler binds a
  pod again that is bound already; with `late` it forgets a pod whose event is still to come; with
  `unsynced` it schedules after a restart on a cache that lacks bound pods. In all three cases the
  code does not keep the properties (section 3), so the theorems cannot do without. In particular
  they assume that after a crash the handlers win the race against the first cycle.
* `Plain`: no pod is annotated by its owner, nodes keep their label, and on a node faster than its
  reference node a pod has no overhead and no init container larger than its converted request.
  `AnnotatedPods` and "Seen while modelling" show what happens otherwise.

Both capacity theorems allow one milli-CPU for each pod of the node in `RoundedOff`: those for whose
total and labels float64 falls short. For the other pods the bound is exact.

`HiceScheduler!Cache` is an instance of `SchedulerCache`, so its steps are the cache's steps and the cache's
`IInv` is kept by the lemmas of `SchedulerCacheProofs`, cited through an instance of that
module (`CacheObjects`, `CacheNil` discharge its assumptions). What is left for `IInv` here is that
the objects in the stores belong to their keys and that the old object of an update event
names the node the cache has (`AddedIsSeen`).

`BInv` follows one pod through etcd, its pending events, the informer, the cache, the queue and its
goroutine. The events of a pod, from the informer's object to the last one waiting, name one
node once it is bound and end with etcd's value (`EventsCurrent`, `EventsOneNode`); the cache has
the pod on that node before the event arrives (`EventsCached`); a goroutine that has not
written holds an assumed pod none of whose events is bound (`InFlightAssumed`), and so on.
klog.Fatal would need an event with another node than the cache's, which `EventsCached` excludes.

`CInv` is about amounts. A stored object is as its owner wrote it or converted for the node it is
on, exactly if it is bound (`StoredInv`, `WorkInv`); NodeInfos list both kinds (`NodesInv`). `FitInv`: what
was charged for the pods of the cache on a node fits the node; a pod's `Weight` is what
`fitsRequest` counts for it, but never more than Filter charged. Converting containers one by one
gives at most the exact quotient of their sum (`ConvertedAtMost`: rounding down several times loses no
less than once, and falling short only loses more), and what Bind leaves alone is covered by `Plain`
(`QuotientSlow`). So the converted request exceeds the charge by at most one milli-CPU, and only if
float64 fell short for the total. A confirmation can therefore only reduce a weight; every step but
`AssumeOn` reduces or keeps the weights, and `AssumeOn` adds a pod that Filter admitted into a snapshot
that counts at least what the cache counts by then (`SnapshotCovers`). Every bound pod is in
the cache (`BInv`), so etcd's total exceeds the weights by at most the number of pods in `RoundedOff`
(`BoundOverCharge`).

### CacheSnapshotProofs

| Theorem | Statement |
|---|---|
| `ImagesAreWhereTheyAre` | `SnapSpec => []ImagesWhereTheyAre` |
| `ListIsRecentFirst` | `SnapSpec => []RecentFirst` |
| `TreeIsComplete` | `SnapSpec => []TreeListsEveryNode` |
| `SnapshotsAreCurrent` | `SnapSpec => []SnapshotIsCurrent` |

For any pods, zones and images and finitely many nodes; every node has a zone key, if only the
empty one (`SnapshotAssumption`).

* Every step is a step of `SchedulerCache` or leaves its state alone (`CacheStep`), so the cache's
  `IInv` is kept.
* The list. `Sorted` describes it without walking it: generations are distinct, `next` and `prev`
  lead to the neighbours in the order of generations, and what is not in the map is not
  linked. Drawing a generation and moving to the head keeps it (`TouchSorted`), so does
  unlinking (`DropSorted`). That the walk from the head then meets every item, newest first,
  follows from ranks: the k-th item has k items above it (`WalkRanks`). This gives
  `RecentFirst`, and that `UpdateSnapshot` stops with exactly the newer items (`NewerAre`).
* The tree. `TreeOf(nt, M)`: the lists of the zones hold their members M without repeats, the zones
  named are those with members, and `numNodes` counts them. `list()` finds in round k the k-th node of every
  zone that has one (`RoundFinds`), so it ends with all of them (`ListFindsAll`) and never with all
  zones exhausted.
* The snapshot. `SnapshotCurrent`: what is not newer than the snapshot is in it as it is in the
  cache; this is kept by every operation because every change draws a generation (`Tracks`).
  `SnapshotSelf`: the two lists say what the map says. Entries are deleted by counting; since
  `numNodes` is the size of the tree, exactly the removed nodes go, whatever the order
  of the map (`DeletedAreGone`). `Refreshed` puts the pieces together.

The walk and `list()` are recursive functions. That such a function exists and has the values
its definition says is proved by induction over sets of numbers (`Iteration`,
`OneIteration`), as `SumTheorems` does for subsets.

### Only model-checked

Liveness (`EventuallyBound`, `EventuallyPlaced`, `PlacedOnceImported`, `EventuallyPopped`, `GhostsLeave`,
`EventuallyDeployed`), which needs fairness and ENABLED; and
`HeaviestFirst` of `MHice`, an action property.

## 5. Not modelled, and the plan

Not modelled: upstream Kubernetes beyond what the scheduler sees of it; preemption, nominated
pods, extenders, Reserve/Permit plugins (KubeHICE configures none; a failure of theirs is among
the failures of a cycle in `SchedulingQueue`); the scores of hicev2 and mhice, which only choose
among feasible nodes; logging, metrics and events; the monitoring, benchmark and analysis
tools (file and network I/O); recovery of a name reused by another pod.

Order of the work; steps 1 to 9 are done:

1. `SchedulerCache` with `PodLifecycle`: everything else decides on this state.
2. `HiceCpu`, `HiceScheduler`: the binding protocol, its races and its faults.
3. `ImageRegistry`; proofs about the cache.
4. `CacheSnapshot`: `UpdateSnapshot` as it is, shown to give the snapshot `HiceScheduler` assumes.
5. `SchedulingQueue` and `PendingPods`: three queues behind the set `HiceScheduler` assumes.
6. `MHice`: whether the deployment gate of PreFilter can starve a pod.
7. Theorems: the queue's invariants and its refinement of `PendingPods`; the registry; coherence,
   convergence and capacity of `HiceScheduler`.
8. Conversion lemmas for `HiceCpu`: converting containers one by one never exceeds converting
   their sum.
9. Theorems about `CacheSnapshot`: the list is sorted, and a snapshot is the cache.
10. Names and UIDs apart in `HiceScheduler`: recreated pods.
