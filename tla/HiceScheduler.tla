---------------------------- MODULE HiceScheduler ----------------------------
(***************************************************************************)
(* The KubeHICE scheduler: scheduleOne and its binding goroutines          *)
(* (pkg/scheduler/scheduler.go), the Hicev1/Hicev2 filters and the Hicev2  *)
(* Bind (plugins/hicev2), the informer handlers that keep the cache and    *)
(* the queue up to date (eventhandlers.go), and the stores they share:     *)
(* etcd, the API server's watch, the scheduler's cache (SchedulerCache).   *)
(*                                                                         *)
(* Bind does not ask the API server: it reads the pod from etcd, changes   *)
(* its images, CPU requests, node and conditions, and writes it back       *)
(* without comparing revisions.  Users, the kubelet and the API server     *)
(* write the same keys concurrently.                                       *)
(*                                                                         *)
(* The three queues of SchedulingQueue are one map here, from which any    *)
(* pod may be popped: backoff and unschedulable pods return to the active  *)
(* queue by timers.  Preemption and plugins that only score are left out:  *)
(* any feasible node may be chosen.                                        *)
(***************************************************************************)
EXTENDS HiceCpu

CONSTANTS
    Pods, Nodes, Nil,
    Containers,    \* pod -> CPU requests of its containers, as created
    InitCpu,       \* pod -> largest CPU request of its init containers
    Overhead,      \* pod -> Spec.Overhead, which nobody changes
    Kb,            \* pod -> label hice.kb
    Annotated,     \* pods that are created with annotations
    ArchNodes,     \* pod -> nodes of an architecture all its images exist for
    KjValues,      \* values the label hice.kj takes
    InitialKj,     \* node -> label hice.kj
    Allocatable,   \* node -> allocatable milli-CPU
    AllowedPods,   \* node -> allocatable pods
    Others,        \* what others do: "run", "delete", "annotate", "relabel", "nodes"
    Faults,        \* what fails: "error", "applied", "crash", "late", "unsynced", "relist"
    MaxFaults      \* how many times etcd errors and crashes happen

ASSUME SchedulerAssumption ==
    /\ IsFiniteSet(Pods)
    /\ Annotated \subseteq Pods
    /\ \A p \in Pods : /\ Containers[p] \in Seq(Nat) /\ InitCpu[p] \in Nat /\ Overhead[p] \in Nat
                       /\ Kb[p] \in Nat \ {0} /\ ArchNodes[p] \subseteq Nodes
    /\ KjValues \subseteq Nat \ {0}
    /\ \A n \in Nodes : InitialKj[n] \in KjValues /\ Allocatable[n] \in Nat
    /\ Others \subseteq {"run", "delete", "annotate", "relabel", "nodes"}
    /\ Faults \subseteq {"error", "applied", "crash", "late", "unsynced", "relist"}
    /\ MaxFaults \in Nat

VARIABLES
    etcd,          \* /registry/pods: pod -> object, or Nil
    watch,         \* pod -> events of its key the scheduler has not handled yet
    informer,      \* pod -> object in the pod lister's store, or Nil
    queue,         \* pod -> object in the SchedulingQueue, or Nil
    podStates, assumedPods, nodes, nodeTree, fatal,    \* SchedulerCache
    snapshot,      \* node -> NodeInfo in nodeInfoSnapshot, or Nil
    cycle,         \* the pod object scheduleOne is working on, or Nil
    binding,       \* pod -> state of its binding goroutine, or Nil
    faults         \* etcd errors and crashes so far

cacheVars == <<podStates, assumedPods, nodes, nodeTree, fatal>>
apiVars   == <<etcd, watch>>
schedVars == <<snapshot, cycle, binding>>
vars      == <<etcd, watch, informer, queue, podStates, assumedPods, nodes, nodeTree,
               fatal, snapshot, cycle, binding, faults>>

\* The request of a pod object, as calculateResource and Hicev2 compute it.
Request(o) == ComputePodResourceRequest(o.containers, o.init, Overhead[o.uid])

PodObject == [uid : Pods, node : Nodes \cup {Nil}, containers : Seq(Nat), init : Nat,
              annotated : BOOLEAN, deleting : BOOLEAN, running : BOOLEAN,
              scheduled : Seq(BOOLEAN)]

\* The pods the cache is told of have a node.
AssignedObject == {o \in PodObject : o.node # Nil}

Cache == INSTANCE SchedulerCache
            WITH PodObjects <- AssignedObject, NodeObjects <- KjValues, Cpu <- Request

\* A binding goroutine: where it is, the assumed pod, its converted requests and the
\* object it read from etcd.
Goroutine == [pc : {"convert", "get", "put", "done", "failed"}, pod : AssignedObject,
              containers : Seq(Nat), read : PodObject \cup {Nil}]

\* What stands for an absent key or a nil pointer is none of the values it stands beside.
ASSUME NilAssumption ==
    /\ Nil \notin PodObject \cup Nodes \cup KjValues
    /\ Nil \notin Cache!PodState \cup Cache!NodeInfo \cup Goroutine

-----------------------------------------------------------------------------
(* Pod objects.                                                            *)

\* A pod as its owner creates it: "scheduled" is the list of its PodScheduled
\* conditions, "annotated" says that Annotations is not nil.
NewPod(p) == [uid |-> p, node |-> Nil, containers |-> Containers[p], init |-> InitCpu[p],
              annotated |-> p \in Annotated, deleting |-> FALSE, running |-> FALSE,
              scheduled |-> <<>>]

AssignedPod(o) == o # Nil /\ o.node # Nil
PendingPod(o)  == o # Nil /\ o.node = Nil

\* A write to etcd and the watch event it causes; an update that changes nothing
\* causes none.
WriteEtcd(p, o) ==
    /\ etcd' = [etcd EXCEPT ![p] = o]
    /\ watch' = IF o = etcd[p] THEN watch ELSE [watch EXCEPT ![p] = Append(@, o)]

-----------------------------------------------------------------------------
(* Filters.                                                                *)

\* Mutant of RequestedBy: assumed pods are not converted.
RequestedByUnconverted(o, kj) == Request(o)

\* What fitsRequest adds for a pod that is on the node already.  An object without
\* annotations is taken for one the scheduler assumed, whose request is converted;
\* any other is taken to come from etcd, already converted by Bind.
RequestedBy(o, kj) ==
    IF ~o.annotated THEN Scale(Request(o), Kb[o.uid], kj) ELSE Request(o)

HiceNodeRequestedMilliCPU(ni) ==
    SumFunction([o \in ni.pods |-> RequestedBy(o, ni.node)])

\* Mutant of FitsRequest: the node is taken to be empty.
FitsRequestAlone(request, ni, n) == request <= Allocatable[n]

FitsRequest(request, ni, n) ==
    /\ Cardinality(ni.pods) + 1 <= AllowedPods[n]
    /\ request # 0 => request + HiceNodeRequestedMilliCPU(ni) <= Allocatable[n]

\* Hicev1.Filter by architecture, then Hicev2.Filter.
Filter(o, n) ==
    LET ni == snapshot[n]
        kb == Kb[o.uid]
    IN  /\ n \in ArchNodes[o.uid]
        /\ PerfSuffices(o.containers, kb, ni.node)
        /\ FitsRequest(Scale(Request(o), kb, ni.node), ni, n)

FeasibleNodes(o) == {n \in Nodes : snapshot[n] # Nil /\ Filter(o, n)}

-----------------------------------------------------------------------------
(* The scheduling cycle.                                                   *)

\* UpdateSnapshot: the nodes that have a v1.Node, as the cache has them.
CacheSnapshot ==
    [n \in Nodes |-> IF nodes[n] # Nil /\ nodes[n].node # Nil THEN nodes[n] ELSE Nil]

\* NextPod: a deleting or assumed pod is skipped, otherwise its cycle begins with
\* a new snapshot.
PopPod(p) ==
    /\ cycle = Nil
    /\ queue[p] # Nil
    /\ queue' = [queue EXCEPT ![p] = Nil]
    /\ \/ /\ queue[p].deleting \/ Cache!IsAssumedPod(p)
          /\ UNCHANGED <<snapshot, cycle>>
       \/ /\ ~queue[p].deleting /\ ~Cache!IsAssumedPod(p)
          /\ snapshot' = CacheSnapshot
          /\ cycle' = queue[p]
    /\ UNCHANGED <<apiVars, informer, cacheVars, binding, faults>>

\* Mutant of PatchScheduledFalse: a condition without a status.
PatchScheduledUnset(o) == [o EXCEPT !.scheduled = <<Nil>>]

\* The condition PodScheduled=False.
PatchScheduledFalse(o) ==
    [o EXCEPT !.scheduled = IF @ = <<>> THEN <<FALSE>> ELSE [@ EXCEPT ![1] = FALSE]]

\* Mutant of RecordSchedulingFailure: the pod is not put back.
RecordFailureOnly(p) ==
    /\ UNCHANGED queue
    /\ IF etcd[p] = Nil
       THEN UNCHANGED apiVars
       ELSE WriteEtcd(p, PatchScheduledFalse(etcd[p]))

\* recordSchedulingFailure: the error function puts the pod back, as the lister has
\* it, unless it is gone or bound or queued already; then the condition is patched
\* through the API server.  The branch of the error function that takes a node which
\* was not found out of the cache is left out: errors reach it wrapped, and its type
\* assertion fails.
RecordSchedulingFailure(p) ==
    /\ queue' = IF PendingPod(informer[p]) /\ queue[p] = Nil
                THEN [queue EXCEPT ![p] = informer[p]]
                ELSE queue
    /\ IF etcd[p] = Nil
       THEN UNCHANGED apiVars
       ELSE WriteEtcd(p, PatchScheduledFalse(etcd[p]))

\* A node is chosen and the pod assumed on it; a goroutine starts to bind it.
AssumeOn(p, n) ==
    LET assumed == [cycle EXCEPT !.node = n]
    IN  /\ cycle # Nil /\ cycle.uid = p
        /\ n \in FeasibleNodes(cycle)
        /\ podStates[p] = Nil
        /\ Cache!AssumePod(assumed)
        /\ binding' = [binding EXCEPT ![p] = [pc |-> "convert", pod |-> assumed,
                                              containers |-> <<>>, read |-> Nil]]
        /\ cycle' = Nil
        /\ UNCHANGED <<apiVars, informer, queue, snapshot, faults>>

\* No node fits, or the pod is in the cache already and cannot be assumed.
ScheduleFails(p) ==
    /\ cycle # Nil /\ cycle.uid = p
    /\ FeasibleNodes(cycle) = {} \/ podStates[p] # Nil
    /\ RecordSchedulingFailure(p)
    /\ cycle' = Nil
    /\ UNCHANGED <<informer, cacheVars, snapshot, binding, faults>>

-----------------------------------------------------------------------------
(* The binding goroutine: Hicev2.Bind, changePodInEtcd and the rest of     *)
(* scheduleOne's goroutine.                                                *)

At(p, pc) == binding[p] # Nil /\ binding[p].pc = pc

\* Bind looks the node up in the snapshot of whichever cycle runs now, and converts
\* the requests with the performance it finds there.
BindConvert(p) ==
    LET b  == binding[p]
        ni == snapshot[b.pod.node]
    IN  /\ At(p, "convert")
        /\ IF ni = Nil
           THEN binding' = [binding EXCEPT ![p].pc = "failed"]
           ELSE binding' = [binding EXCEPT
                              ![p].pc = "get",
                              ![p].containers = ConvertPodCpu(b.pod.containers, Kb[p], ni.node)]
        /\ UNCHANGED <<apiVars, informer, queue, cacheVars, snapshot, cycle, faults>>

\* changePodInEtcd reads the key.  resp.Kvs[0] panics when it is gone: see Panic.
BindGet(p) ==
    /\ At(p, "get")
    /\ etcd[p] # Nil
    /\ binding' = [binding EXCEPT ![p].pc = "put", ![p].read = etcd[p]]
    /\ UNCHANGED <<apiVars, informer, queue, cacheVars, snapshot, cycle, faults>>

\* The object changePodInEtcd writes: the one it read, with the containers and the
\* node of the converted pod, one more condition, and annotations that are not nil.
BoundPod(b) ==
    [b.read EXCEPT !.containers = b.containers, !.node = b.pod.node,
                   !.scheduled = Append(@, TRUE), !.annotated = TRUE]

\* Mutant of BindPut: Bind reports an error although it wrote the pod.
BindPutReportsError(p) ==
    /\ At(p, "put")
    /\ WriteEtcd(p, BoundPod(binding[p]))
    /\ binding' = [binding EXCEPT ![p].pc = "failed"]
    /\ UNCHANGED <<informer, queue, cacheVars, snapshot, cycle, faults>>

\* It is put back unconditionally, whatever the key holds by now.
BindPut(p) ==
    /\ At(p, "put")
    /\ WriteEtcd(p, BoundPod(binding[p]))
    /\ binding' = [binding EXCEPT ![p].pc = "done"]
    /\ UNCHANGED <<informer, queue, cacheVars, snapshot, cycle, faults>>

\* The goroutine ends; bind's deferred FinishBinding starts the expiry of the pod.
BindDone(p) ==
    /\ At(p, "done")
    /\ Cache!FinishBinding(p)
    /\ binding' = [binding EXCEPT ![p] = Nil]
    /\ UNCHANGED <<apiVars, informer, queue, snapshot, cycle, faults>>

\* Mutant of BindFailed: the pod stays assumed.
BindFailedKeepsPod(p) ==
    /\ At(p, "failed")
    /\ RecordSchedulingFailure(p)
    /\ binding' = [binding EXCEPT ![p] = Nil]
    /\ UNCHANGED <<informer, cacheVars, snapshot, cycle, faults>>

\* bind returned an error: the pod is forgotten and its failure recorded.
BindFailed(p) ==
    /\ At(p, "failed")
    /\ Cache!ForgetPod(binding[p].pod)
    /\ RecordSchedulingFailure(p)
    /\ binding' = [binding EXCEPT ![p] = Nil]
    /\ UNCHANGED <<informer, snapshot, cycle, faults>>

\* etcd fails: the client, the Get or the Put returns an error.
BindError(p) ==
    /\ "error" \in Faults /\ faults < MaxFaults
    /\ \E pc \in {"convert", "get", "put"} : At(p, pc)
    /\ binding' = [binding EXCEPT ![p].pc = "failed"]
    /\ faults' = faults + 1
    /\ UNCHANGED <<apiVars, informer, queue, cacheVars, snapshot, cycle>>

\* etcd applies the Put, but its answer is an error (a leader change, a timeout).
BindPutApplied(p) ==
    /\ "applied" \in Faults /\ faults < MaxFaults
    /\ At(p, "put")
    /\ WriteEtcd(p, BoundPod(binding[p]))
    /\ binding' = [binding EXCEPT ![p].pc = "failed"]
    /\ faults' = faults + 1
    /\ UNCHANGED <<informer, queue, cacheVars, snapshot, cycle>>

-----------------------------------------------------------------------------
(* Informer events.  Both handlers of an event run in one step; the events *)
(* of one pod arrive in order.                                             *)

\* The handlers of unassigned pods keep the queue.
QueueHandler(p, old, new) ==
    queue' = IF PendingPod(new)
             THEN IF PendingPod(old) /\ Cache!IsAssumedPod(p)
                  THEN queue
                  ELSE [queue EXCEPT ![p] = new]
             ELSE IF PendingPod(old) THEN [queue EXCEPT ![p] = Nil] ELSE queue

\* Mutant of CacheHandler: deletions are not handled.
CacheHandlerNoDelete(old, new) ==
    \/ ~AssignedPod(old) /\ AssignedPod(new) /\ Cache!AddPod(new)
    \/ AssignedPod(old) /\ AssignedPod(new) /\ Cache!UpdatePod(old, new)
    \/ ~AssignedPod(new) /\ UNCHANGED cacheVars

\* Mutant of CacheHandler: updates are not handled.
CacheHandlerNoUpdate(old, new) ==
    \/ ~AssignedPod(old) /\ AssignedPod(new) /\ Cache!AddPod(new)
    \/ AssignedPod(old) /\ ~AssignedPod(new) /\ Cache!RemovePod(old)
    \/ (AssignedPod(old) <=> AssignedPod(new)) /\ UNCHANGED cacheVars

\* The handlers of assigned pods keep the cache.
CacheHandler(old, new) ==
    \/ ~AssignedPod(old) /\ AssignedPod(new) /\ Cache!AddPod(new)
    \/ AssignedPod(old) /\ AssignedPod(new) /\ Cache!UpdatePod(old, new)
    \/ AssignedPod(old) /\ ~AssignedPod(new) /\ Cache!RemovePod(old)
    \/ ~AssignedPod(old) /\ ~AssignedPod(new) /\ UNCHANGED cacheVars

Deliver(p) ==
    /\ watch[p] # <<>>
    /\ informer' = [informer EXCEPT ![p] = Head(watch[p])]
    /\ watch' = [watch EXCEPT ![p] = Tail(@)]
    /\ QueueHandler(p, informer[p], Head(watch[p]))
    /\ CacheHandler(informer[p], Head(watch[p]))
    /\ UNCHANGED <<etcd, schedVars, faults>>

\* After a relist the informer sees the last state and misses what came before.
Relist(p) ==
    /\ "relist" \in Faults
    /\ Len(watch[p]) > 1
    /\ watch' = [watch EXCEPT ![p] = Tail(@)]
    /\ UNCHANGED <<etcd, informer, queue, cacheVars, schedVars, faults>>

\* cleanupAssumedPods, 30 seconds after the binding finished.  Unless the watch may
\* be "late", the event of the binding has been handled by then.
ExpireAssumed(p) ==
    /\ "late" \in Faults \/ watch[p] = <<>>
    /\ Cache!ExpirePod(p)
    /\ UNCHANGED <<apiVars, informer, queue, schedVars, faults>>

-----------------------------------------------------------------------------
(* Restarts.                                                               *)

\* The scheduler starts again: the informers list the pods, and it waits until their
\* stores hold the list, but not until the handlers have seen it.  When it is
\* "unsynced", scheduling cycles run before the cache and the queue know the pods;
\* otherwise the handlers happen to be faster than the first cycle.
StartScheduler ==
    LET bound(n) == {etcd[p] : p \in {q \in Pods : AssignedPod(etcd[q]) /\ etcd[q].node = n}}
        kjOf(n)  == IF nodes[n] = Nil THEN Nil ELSE nodes[n].node
    IN  /\ fatal' = FALSE
        /\ assumedPods' = {}
        /\ snapshot' = [n \in Nodes |-> Nil]
        /\ cycle' = Nil
        /\ binding' = [p \in Pods |-> Nil]
        /\ UNCHANGED <<etcd, nodeTree>>
        /\ IF "unsynced" \in Faults
           THEN /\ informer' = [p \in Pods |-> Nil]
                /\ watch' = [p \in Pods |-> IF etcd[p] = Nil THEN <<>> ELSE <<etcd[p]>>]
                /\ queue' = [p \in Pods |-> Nil]
                /\ podStates' = [p \in Pods |-> Nil]
                /\ nodes' = [n \in Nodes |-> IF kjOf(n) = Nil THEN Nil
                               ELSE [node |-> kjOf(n), pods |-> {}, requested |-> 0]]
           ELSE /\ informer' = etcd
                /\ watch' = [p \in Pods |-> <<>>]
                /\ queue' = [p \in Pods |-> IF PendingPod(etcd[p]) THEN etcd[p] ELSE Nil]
                /\ podStates' = [p \in Pods |->
                     IF AssignedPod(etcd[p]) THEN Cache!NewPodState(etcd[p]) ELSE Nil]
                /\ nodes' = [n \in Nodes |-> Cache!KeepOrDrop(
                     [node |-> kjOf(n), pods |-> bound(n),
                      requested |-> SumFunction([o \in bound(n) |-> Request(o)])])]

\* The process is killed, or klog.Fatal ended it.
Crash ==
    /\ "crash" \in Faults /\ faults < MaxFaults
    /\ faults' = faults + 1
    /\ StartScheduler

Fatal ==
    /\ fatal
    /\ StartScheduler
    /\ UNCHANGED faults

\* resp.Kvs[0] of an empty answer: the pod was deleted since it was assumed, and
\* the panic of its goroutine ends the process.
Panic(p) ==
    /\ At(p, "get")
    /\ etcd[p] = Nil
    /\ StartScheduler
    /\ UNCHANGED faults

-----------------------------------------------------------------------------
(* Users, the kubelet and the cluster's administrators.                    *)

\* An API delete marks the pod (grace period, finalizers) ...
MarkDeleted(p) ==
    /\ "delete" \in Others
    /\ etcd[p] # Nil /\ ~etcd[p].deleting
    /\ WriteEtcd(p, [etcd[p] EXCEPT !.deleting = TRUE])
    /\ UNCHANGED <<informer, queue, cacheVars, schedVars, faults>>

\* ... and removes it once it is marked; a pod that is not bound goes at once.
RemoveDeleted(p) ==
    /\ "delete" \in Others
    /\ etcd[p] # Nil
    /\ etcd[p].deleting \/ etcd[p].node = Nil
    /\ WriteEtcd(p, Nil)
    /\ UNCHANGED <<informer, queue, cacheVars, schedVars, faults>>

\* A user gives a pod its first annotation.
Annotate(p) ==
    /\ "annotate" \in Others
    /\ etcd[p] # Nil /\ ~etcd[p].annotated
    /\ WriteEtcd(p, [etcd[p] EXCEPT !.annotated = TRUE])
    /\ UNCHANGED <<informer, queue, cacheVars, schedVars, faults>>

\* The kubelet of its node starts the pod and reports it.
RunPod(p) ==
    /\ "run" \in Others
    /\ AssignedPod(etcd[p]) /\ ~etcd[p].running
    /\ WriteEtcd(p, [etcd[p] EXCEPT !.running = TRUE])
    /\ UNCHANGED <<informer, queue, cacheVars, schedVars, faults>>

\* The administrator measures the node anew and changes its label hice.kj.
Relabel(n, kj) ==
    /\ "relabel" \in Others
    /\ nodes[n] # Nil /\ nodes[n].node \notin {Nil, kj}
    /\ Cache!UpdateNode(n, kj)
    /\ UNCHANGED <<apiVars, informer, queue, schedVars, faults>>

\* A node leaves the cluster, or joins it.
LeaveCluster(n) ==
    /\ "nodes" \in Others
    /\ n \in nodeTree
    /\ Cache!RemoveNode(n)
    /\ UNCHANGED <<apiVars, informer, queue, schedVars, faults>>

JoinCluster(n) ==
    /\ "nodes" \in Others
    /\ n \notin nodeTree
    /\ Cache!AddNode(n, InitialKj[n])
    /\ UNCHANGED <<apiVars, informer, queue, schedVars, faults>>

-----------------------------------------------------------------------------

Init ==
    /\ etcd = [p \in Pods |-> NewPod(p)]
    /\ watch = [p \in Pods |-> <<NewPod(p)>>]
    /\ informer = [p \in Pods |-> Nil]
    /\ queue = [p \in Pods |-> Nil]
    /\ podStates = [p \in Pods |-> Nil]
    /\ assumedPods = {}
    /\ nodes = [n \in Nodes |-> [node |-> InitialKj[n], pods |-> {}, requested |-> 0]]
    /\ nodeTree = Nodes
    /\ fatal = FALSE
    /\ snapshot = [n \in Nodes |-> Nil]
    /\ cycle = Nil
    /\ binding = [p \in Pods |-> Nil]
    /\ faults = 0

SchedulerStep(p) ==
    \/ PopPod(p)
    \/ \E n \in Nodes : AssumeOn(p, n)
    \/ ScheduleFails(p)
    \/ BindConvert(p) \/ BindGet(p) \/ BindPut(p) \/ BindDone(p) \/ BindFailed(p)
    \/ BindError(p) \/ BindPutApplied(p)
    \/ Deliver(p) \/ Relist(p) \/ ExpireAssumed(p) \/ Panic(p)

OthersStep ==
    \/ \E p \in Pods : MarkDeleted(p) \/ RemoveDeleted(p) \/ Annotate(p) \/ RunPod(p)
    \/ \E n \in Nodes : LeaveCluster(n) \/ JoinCluster(n) \/ \E kj \in KjValues : Relabel(n, kj)

Next ==
    \/ Fatal
    \/ ~fatal /\ (Crash \/ \E p \in Pods : SchedulerStep(p))
    \/ ~fatal /\ OthersStep

Spec == Init /\ [][Next]_vars

\* What the scheduler's own threads and the informers are sure to do: a queued pod
\* is popped in its turn, the cycle and the goroutines go on, events are delivered,
\* klog.Fatal is followed by a restart.  Faults, users and expiry are not owed.
Fairness ==
    /\ WF_vars(Fatal)
    /\ \A p \in Pods :
        /\ SF_vars(~fatal /\ PopPod(p))
        /\ WF_vars(~fatal /\ (ScheduleFails(p) \/ \E n \in Nodes : AssumeOn(p, n)))
        /\ WF_vars(~fatal /\ (\/ BindConvert(p) \/ BindGet(p) \/ BindPut(p) \/ BindDone(p)
                             \/ BindFailed(p) \/ Panic(p)))
        /\ WF_vars(~fatal /\ Deliver(p))

FairSpec == Spec /\ Fairness

-----------------------------------------------------------------------------
(* Properties.                                                             *)

\* Type correctness of the stores, the cache and the goroutines: in particular every
\* object that reaches etcd or a goroutine is a whole pod.
TypeOK ==
    /\ etcd \in [Pods -> PodObject \cup {Nil}]
    /\ \A p \in Pods : watch[p] \in Seq(PodObject \cup {Nil})
    /\ informer \in [Pods -> PodObject \cup {Nil}]
    /\ queue \in [Pods -> PodObject \cup {Nil}]
    /\ Cache!TypeOK
    /\ snapshot \in [Nodes -> Cache!NodeInfo \cup {Nil}]
    /\ cycle \in PodObject \cup {Nil}
    /\ binding \in [Pods -> Goroutine \cup {Nil}]
    /\ \A p \in Pods : binding[p] # Nil => binding[p].pod.uid = p
    /\ faults \in 0..MaxFaults

BoundTo(n) == {p \in Pods : AssignedPod(etcd[p]) /\ etcd[p].node = n}

BoundRequests(n) == SumFunction([p \in BoundTo(n) |-> Request(etcd[p])])

\* README.md: Hicev2 guarantees that the sum of requests.cpu of the pods on a node
\* never exceeds the node's allocatable CPU.
NoOvercommit == \A n \in Nodes : BoundRequests(n) <= Allocatable[n]

\* The bound pods whose total Filter computed one milli-CPU too low.
RoundedOff(n) ==
    {p \in BoundTo(n) : <<Request(NewPod(p)), Kb[p], InitialKj[n]>> \in FallsShort}

\* What that comes to in the code: although requests grow and shrink as Bind converts
\* them container by container, and several bindings are in flight at once, the pods of
\* a node exceed its allocatable CPU by no more than one milli-CPU for each pod whose
\* total float64 rounded off.
CapacityKept == \A n \in Nodes : BoundRequests(n) <= Allocatable[n] + Cardinality(RoundedOff(n))

\* What fitsRequest reads off the cache covers what etcd holds: at no time, between
\* the write of a binding, its event and later updates of the pod, do the filters
\* count less on a node than the pods bound to it ask for, but for what was rounded off.
CacheNeverUndercounts ==
    \A n \in nodeTree :
        BoundRequests(n) <= HiceNodeRequestedMilliCPU(nodes[n]) + Cardinality(RoundedOff(n))

\* "Total requested resources of all pods on this node" (types.go), which NodeResourcesFit
\* takes from what the node has.  (NonZeroRequested, which the scoring plugins read, is
\* kept in the same way.)
RequestedIsTotal == Cache!RequestedIsTotal

\* No event is left and no goroutine runs.
Quiet == \A p \in Pods : watch[p] = <<>> /\ binding[p] = Nil

\* Once every event is handled and every binding is over, the cache holds exactly
\* the bound pods, on their nodes, and every pod that still waits for a node is
\* queued or in its cycle: none is lost.  A pod stays assumed only when a relist
\* swallowed both its binding and its deletion, and then it can expire.
ConsistentWhenQuiet ==
    Quiet /\ ~fatal => \A p \in Pods :
        IF AssignedPod(etcd[p])
        THEN Cache!IsAddedPod(p) /\ podStates[p].pod = etcd[p]
        ELSE /\ podStates[p] # Nil =>
                   etcd[p] = Nil /\ p \in assumedPods /\ podStates[p].bindingFinished
             /\ (etcd[p] # Nil /\ ~etcd[p].deleting) =>
                   queue[p] # Nil \/ (cycle # Nil /\ cycle.uid = p)

\* Whatever is late, repeated or written by others, the NodeInfos of the cache list
\* exactly the pods of podStates, each once and on its own node, and the janitor of
\* assumed pods meets no broken entry.
CacheStaysCoherent == Cache!PodsWhereTheyAre /\ Cache!AssumedCanExpire

\* No event contradicts the cache: UpdatePod and RemovePod never call klog.Fatal.
NeverFatal == ~fatal

\* registry/core/pod/storage: "pod is already assigned to node": once a pod is bound
\* it is never moved to another node.
NeverRebound ==
    [][ \A p \in Pods :
          AssignedPod(etcd[p]) /\ AssignedPod(etcd'[p]) => etcd'[p].node = etcd[p].node ]_vars

\* registry/core/pod/storage: "pod is being deleted, cannot be assigned to a host":
\* a step that binds a pod finds it in etcd and not being deleted.
BindsLivePods ==
    [][ \A p \in Pods :
          ~AssignedPod(etcd[p]) /\ AssignedPod(etcd'[p]) => etcd[p] # Nil /\ ~etcd[p].deleting ]_vars

\* A pod that fits is bound in the end, or deleted, whatever fails on the way.
EventuallyBound == \A p \in Pods : <>[](etcd[p] = Nil \/ AssignedPod(etcd[p]))
=============================================================================
