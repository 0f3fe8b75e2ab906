-------------------------- MODULE HiceBindingProofs --------------------------
(***************************************************************************)
(* Binding without lost answers and with timely events: the cache and the  *)
(* queue follow etcd, event by event.                                      *)
(***************************************************************************)
EXTENDS HiceSchedulerProofs

-----------------------------------------------------------------------------
(* The inductive invariant, per pod.                                       *)

\* What the informer has of a pod, followed by the events it has not handled.
Event(p, i) == IF i = 0 THEN informer[p] ELSE watch[p][i]
LastEvent(p) == Len(watch[p])

\* A goroutine that has not written the pod yet.
InFlight(p) == binding[p] # Nil /\ binding[p].pc # "done"

\* A pod that waits for a node.
Live(p) == PendingPod(etcd[p]) /\ ~etcd[p].deleting

\* The informer catches up with etcd.
EventsCurrent(p) == Event(p, LastEvent(p)) = etcd[p]

\* Once a pod is bound its events name one node, and its deletion is the last.
EventsOneNode(p) ==
    \A i, j \in 0..LastEvent(p) :
        i < j /\ AssignedPod(Event(p, i)) =>
            \/ AssignedPod(Event(p, j)) /\ Event(p, j).node = Event(p, i).node
            \/ Event(p, j) = Nil /\ j = LastEvent(p)

\* The cache has the pod on its node before the event of its binding arrives.
EventsCached(p) ==
    \A i \in 0..LastEvent(p) :
        AssignedPod(Event(p, i)) =>
            podStates[p] # Nil /\ podStates[p].pod.node = Event(p, i).node

\* ... and has the object of the last event afterwards.
SeenIsAdded(p) ==
    AssignedPod(informer[p]) => Cache!IsAddedPod(p) /\ podStates[p].pod = informer[p]

\* The informer has not heard, and will not hear, that the pod is bound.
NoneBound(p) == \A i \in 0..LastEvent(p) : ~AssignedPod(Event(p, i))

\* A pod that is being bound is assumed and has not been bound before.
InFlightAssumed(p) ==
    InFlight(p) =>
        /\ p \in assumedPods /\ podStates[p] # Nil /\ ~podStates[p].bindingFinished
        /\ podStates[p].pod = binding[p].pod
        /\ NoneBound(p)

\* An assumed pod is being bound, or it was written, or is gone since.
AssumedWritten(p) ==
    p \in assumedPods /\ ~InFlight(p) =>
        /\ etcd[p] = Nil \/ AssignedPod(etcd[p])
        /\ binding[p] # Nil \/ podStates[p].bindingFinished

\* A goroutine that wrote the pod outlives the pod's events.
DoneWritten(p) ==
    binding[p] # Nil /\ ~InFlight(p) =>
        /\ etcd[p] = Nil \/ AssignedPod(etcd[p])
        /\ \/ p \in assumedPods
           \/ AssignedPod(informer[p])
           \/ informer[p] = Nil /\ watch[p] = <<>>

\* What is queued waits for a node as far as the informer knows.
QueuedPending(p) == queue[p] # Nil => PendingPod(queue[p]) /\ PendingPod(informer[p])

\* The pod in its cycle is known to nobody else.
CycleFree(p) ==
    cycle # Nil /\ cycle.uid = p =>
        PendingPod(cycle) /\ podStates[p] = Nil /\ binding[p] = Nil

\* A pod that is seen or queued as being deleted is no longer live.
EventsDeleting(p) ==
    \A i \in 0..LastEvent(p) : Event(p, i) # Nil /\ Event(p, i).deleting => ~Live(p)
QueuedDeleting(p) == queue[p] # Nil /\ queue[p].deleting => ~Live(p)

\* A live pod the informer has told of is queued, in its cycle or assumed.
LiveKept(p) ==
    Live(p) /\ PendingPod(informer[p]) =>
        queue[p] # Nil \/ (cycle # Nil /\ cycle.uid = p) \/ p \in assumedPods

PodInv(p) ==
    /\ EventsCurrent(p) /\ EventsOneNode(p) /\ EventsDeleting(p) /\ EventsCached(p)
    /\ SeenIsAdded(p) /\ InFlightAssumed(p) /\ AssumedWritten(p) /\ DoneWritten(p)
    /\ QueuedPending(p) /\ QueuedDeleting(p) /\ CycleFree(p) /\ LiveKept(p)

BInv == ~fatal /\ \A p \in Pods : PodInv(p)

\* What the theorems below assume of the faults: a Put that etcd applies is answered, an
\* event arrives before the pod it is about can expire, and after a restart the handlers
\* have filled the cache and the queue before the first cycle takes its snapshot.  The
\* code ensures none of the three: the last is a race, for WaitForCacheSync waits for the
\* informers' stores and not for the handlers (cmd/kube-scheduler/app/server.go).
Timely == Faults \cap {"applied", "late", "unsynced"} = {}

-----------------------------------------------------------------------------
(* The events of a pod.                                                    *)

\* Positions in the history of a pod.
LEMMA EventTypes ==
    ASSUME StoreInv, NEW p \in Pods
    PROVE  /\ LastEvent(p) \in Nat
           /\ \A i \in 0..LastEvent(p) : Event(p, i) \in ObjectsOf(p)
           /\ Event(p, 0) = informer[p]
           /\ watch[p] = <<>> <=> LastEvent(p) = 0
<1>1. watch[p] \in Seq(ObjectsOf(p)) /\ informer[p] \in ObjectsOf(p)
  BY DEF StoreInv
<1> QED
  <2>1. Len(watch[p]) \in Nat /\ \A i \in 1..Len(watch[p]) : watch[p][i] \in ObjectsOf(p)
    BY <1>1
  <2>2. \A i \in 0..Len(watch[p]) : i = 0 \/ i \in 1..Len(watch[p])
    BY <2>1
  <2>3. watch[p] = <<>> <=> Len(watch[p]) = 0
    BY <1>1
  <2> QED
    BY <1>1, <2>1, <2>2, <2>3 DEF LastEvent, Event

\* A write appends an event.
LEMMA EventsAppend ==
    ASSUME StoreInv, NEW p \in Pods, NEW o \in ObjectsOf(p), UNCHANGED informer,
           watch' = [watch EXCEPT ![p] = Append(@, o)]
    PROVE  /\ LastEvent(p)' = LastEvent(p) + 1
           /\ \A i \in 0..LastEvent(p) : Event(p, i)' = Event(p, i)
           /\ \A i \in {LastEvent(p) + 1} : Event(p, i)' = o
<1>1. watch[p] \in Seq(ObjectsOf(p)) /\ watch'[p] = Append(watch[p], o)
  BY DEF StoreInv
<1> QED
  BY <1>1 DEF LastEvent, Event

\* A delivery moves the history on by one.
LEMMA EventsShift ==
    ASSUME StoreInv, NEW p \in Pods, watch[p] # <<>>,
           informer' = [informer EXCEPT ![p] = Head(watch[p])],
           watch' = [watch EXCEPT ![p] = Tail(watch[p])]
    PROVE  /\ LastEvent(p) >= 1 /\ LastEvent(p)' = LastEvent(p) - 1
           /\ \A i \in 0..(LastEvent(p) - 1) : Event(p, i)' = Event(p, i + 1)
           /\ Event(p, 1) = Head(watch[p])
<1>1. watch[p] \in Seq(ObjectsOf(p)) /\ watch'[p] = Tail(watch[p]) /\ informer'[p] = Head(watch[p])
  BY DEF StoreInv
<1>2. Len(watch[p]) >= 1 /\ Len(Tail(watch[p])) = Len(watch[p]) - 1
  BY <1>1
<1>3. Head(watch[p]) = watch[p][1]
  BY <1>1
<1>4. \A i \in 1..(Len(watch[p]) - 1) : Tail(watch[p])[i] = watch[p][i + 1]
  BY <1>1
<1>5. Len(watch[p]) \in Nat
  BY <1>1
<1>6. ASSUME NEW i \in 0..(Len(watch[p]) - 1)
      PROVE  Event(p, i)' = Event(p, i + 1)
  <2>1. CASE i = 0
    BY <1>1, <1>3, <2>1 DEF Event
  <2>2. CASE i # 0
    <3>1. i \in 1..(Len(watch[p]) - 1) /\ i + 1 # 0
      BY <1>5, <2>2
    <3> QED
      BY <1>1, <1>4, <2>2, <3>1 DEF Event
  <2> QED
    BY <2>1, <2>2
<1>7. LastEvent(p) >= 1 /\ LastEvent(p)' = LastEvent(p) - 1
  BY <1>1, <1>2 DEF LastEvent
<1>8. Event(p, 1) = Head(watch[p])
  BY <1>3 DEF Event
<1> QED
  BY <1>6, <1>7, <1>8 DEF LastEvent

\* A relist drops the event after the one the informer has.
LEMMA EventsDrop ==
    ASSUME StoreInv, NEW p \in Pods, Len(watch[p]) > 1, UNCHANGED informer,
           watch' = [watch EXCEPT ![p] = Tail(watch[p])]
    PROVE  /\ LastEvent(p) > 1 /\ LastEvent(p)' = LastEvent(p) - 1
           /\ \A i \in 1..(LastEvent(p) - 1) : Event(p, i)' = Event(p, i + 1)
           /\ Event(p, 0)' = Event(p, 0)
<1>1. watch[p] \in Seq(ObjectsOf(p)) /\ watch'[p] = Tail(watch[p])
  BY DEF StoreInv
<1>2. Len(Tail(watch[p])) = Len(watch[p]) - 1
  BY <1>1
<1>3. \A i \in 1..(Len(watch[p]) - 1) : Tail(watch[p])[i] = watch[p][i + 1]
  BY <1>1
<1>4. Len(watch[p]) \in Nat
  BY <1>1
<1>5. ASSUME NEW i \in 1..(Len(watch[p]) - 1)
      PROVE  Event(p, i)' = Event(p, i + 1)
  <2>1. i # 0 /\ i + 1 # 0
    BY <1>4
  <2> QED
    BY <1>1, <1>3, <2>1 DEF Event
<1> QED
  BY <1>1, <1>2, <1>5 DEF LastEvent, Event

\* What a write may do to a pod: a bound pod stays where it is or goes, a deleted one
\* does not come back.
Follows(p, o) ==
    /\ AssignedPod(etcd[p]) => o = Nil \/ (AssignedPod(o) /\ o.node = etcd[p].node)
    /\ ~AssignedPod(etcd[p]) => ~AssignedPod(o)
    /\ PendingPod(o) /\ ~o.deleting => Live(p)

\* The part of the invariant that is about the events alone.
EventsInv(p) == EventsCurrent(p) /\ EventsOneNode(p) /\ EventsDeleting(p)

\* Such a write continues the history of the pod.
LEMMA WriteFollows ==
    ASSUME StoreInv, NEW p \in Pods, EventsInv(p), NEW o \in ObjectsOf(p), etcd[p] # Nil,
           WriteEtcd(p, o), UNCHANGED informer, Follows(p, o)
    PROVE  /\ EventsInv(p)'
           /\ EventsCached(p) /\ podStates'[p] = podStates[p] => EventsCached(p)'
           /\ NoneBound(p) => NoneBound(p)'
           /\ Live(p)' => Live(p)
           /\ etcd'[p] = o
<1>1. etcd'[p] = o
  BY DEF StoreInv, WriteEtcd
<1>2. Live(p)' => Live(p)
  BY <1>1 DEF Live, Follows
<1>3. LastEvent(p) \in Nat /\ Event(p, LastEvent(p)) = etcd[p]
  BY EventTypes DEF EventsInv, EventsCurrent
<1> DEFINE k == LastEvent(p)
<1>4. CASE o = etcd[p]
  <2>1. watch' = watch /\ etcd'[p] = etcd[p]
    BY <1>1, <1>4 DEF WriteEtcd
  <2>2. LastEvent(p)' = LastEvent(p) /\ \A i : Event(p, i)' = Event(p, i)
    BY <2>1 DEF LastEvent, Event
  <2>3. EventsCurrent(p)'
    BY <2>1, <2>2 DEF EventsInv, EventsCurrent
  <2>4. EventsOneNode(p)'
    BY <2>1, <2>2 DEF EventsInv, EventsOneNode
  <2>5. EventsDeleting(p)'
    BY <2>1, <2>2 DEF EventsInv, EventsDeleting, Live
  <2>6. EventsCached(p) /\ podStates'[p] = podStates[p] => EventsCached(p)'
    BY <2>1, <2>2 DEF EventsCached
  <2> QED
    BY <1>1, <1>2, <2>2, <2>3, <2>4, <2>5, <2>6 DEF EventsInv, NoneBound
<1>5. CASE o # etcd[p]
  <2>1. watch' = [watch EXCEPT ![p] = Append(@, o)]
    BY <1>5 DEF WriteEtcd
  <2>2. /\ LastEvent(p)' = k + 1 /\ \A i \in {k + 1} : Event(p, i)' = o
        /\ \A i \in 0..k : Event(p, i)' = Event(p, i)
    BY <2>1, EventsAppend
  <2>3. \A i \in 0..(k + 1) : i \in 0..k \/ i = k + 1
    BY <1>3
  <2>4. EventsCurrent(p)'
    <3>1. LastEvent(p)' \in {k + 1}
      BY <2>2
    <3>2. Event(p, LastEvent(p))' = o
      BY <2>2, <3>1 DEF Event
    <3> QED
      BY <1>1, <3>2 DEF EventsCurrent
  <2>5. EventsOneNode(p)'
    <3> SUFFICES ASSUME NEW i \in 0..(k + 1), NEW j \in 0..(k + 1), i < j,
                        AssignedPod(Event(p, i)')
                 PROVE  \/ AssignedPod(Event(p, j)') /\ Event(p, j)'.node = Event(p, i)'.node
                        \/ Event(p, j)' = Nil /\ j = k + 1
      BY <2>2 DEF EventsOneNode
    <3>1. i \in 0..k /\ Event(p, i)' = Event(p, i)
      BY <1>3, <2>2
    <3>2. \A m \in 0..k : i < m => AssignedPod(Event(p, m)) /\ Event(p, m).node = Event(p, i).node
      <4> SUFFICES ASSUME NEW m \in 0..k, i < m
                   PROVE  AssignedPod(Event(p, m)) /\ Event(p, m).node = Event(p, i).node
        OBVIOUS
      <4>1. ASSUME Event(p, m) = Nil /\ m = k PROVE FALSE
        BY <1>3, <4>1
      <4> QED
        BY <3>1, <4>1 DEF EventsInv, EventsOneNode
    <3>3. AssignedPod(etcd[p]) /\ etcd[p].node = Event(p, i).node
      <4>1. CASE i = k
        BY <1>3, <3>1, <4>1
      <4>2. CASE i < k
        <5>1. k \in 0..k
          BY <1>3
        <5> QED
          BY <1>3, <3>2, <4>2, <5>1
      <4> QED
        BY <1>3, <3>1, <4>1, <4>2
    <3>4. CASE j = k + 1
      BY <2>2, <3>1, <3>3, <3>4 DEF Follows
    <3>5. CASE j \in 0..k
      BY <2>2, <3>1, <3>2, <3>5
    <3> QED
      BY <2>3, <3>4, <3>5
  <2>6. EventsDeleting(p)'
    <3> SUFFICES ASSUME NEW i \in 0..(k + 1), Event(p, i)' # Nil, Event(p, i)'.deleting
                 PROVE  ~Live(p)'
      BY <2>2 DEF EventsDeleting
    <3>1. CASE i \in 0..k
      BY <1>2, <2>2, <3>1 DEF EventsInv, EventsDeleting
    <3>2. CASE i = k + 1
      BY <1>1, <2>2, <3>2 DEF Live
    <3> QED
      BY <2>3, <3>1, <3>2
  <2>7. ASSUME EventsCached(p), podStates'[p] = podStates[p]
        PROVE  EventsCached(p)'
    <3> SUFFICES ASSUME NEW i \in 0..(k + 1), AssignedPod(Event(p, i)')
                 PROVE  podStates'[p] # Nil /\ podStates'[p].pod.node = Event(p, i)'.node
      BY <2>2 DEF EventsCached
    <3>1. CASE i \in 0..k
      BY <2>2, <2>7, <3>1 DEF EventsCached
    <3>2. CASE i = k + 1
      <4>1. AssignedPod(etcd[p]) /\ o.node = etcd[p].node /\ k \in 0..k
        BY <1>3, <2>2, <3>2 DEF Follows, AssignedPod
      <4> QED
        BY <1>3, <2>2, <2>7, <3>2, <4>1 DEF EventsCached
    <3> QED
      BY <2>3, <3>1, <3>2
  <2>8. ASSUME NoneBound(p)
        PROVE  NoneBound(p)'
    <3>1. ~AssignedPod(etcd[p]) /\ \A i \in 0..k : ~AssignedPod(Event(p, i))
      BY <1>3, <2>8 DEF NoneBound
    <3>2. ~AssignedPod(o)
      BY <3>1 DEF Follows
    <3> QED
      BY <2>2, <2>3, <3>1, <3>2 DEF NoneBound
  <2> QED
    BY <1>1, <1>2, <2>4, <2>5, <2>6, <2>7, <2>8 DEF EventsInv
<1> QED
  BY <1>4, <1>5

\* The cache keeps the pod where it has it.
SameNode(p) ==
    podStates[p] # Nil => podStates'[p] # Nil /\ podStates'[p].pod.node = podStates[p].pod.node

\* A step that neither writes nor handles an event of the pod.
LEMMA EventsKept ==
    ASSUME NEW p \in Pods, EventsInv(p),
           etcd'[p] = etcd[p], watch'[p] = watch[p], informer'[p] = informer[p]
    PROVE  /\ EventsInv(p)'
           /\ EventsCached(p) /\ SameNode(p) => EventsCached(p)'
           /\ NoneBound(p) => NoneBound(p)'
           /\ Live(p)' <=> Live(p)
<1>1. LastEvent(p)' = LastEvent(p) /\ \A i : Event(p, i)' = Event(p, i)
  BY DEF LastEvent, Event
<1>2. Event(p, LastEvent(p))' = Event(p, LastEvent(p))
  BY DEF LastEvent, Event
<1>3. Live(p)' <=> Live(p)
  BY DEF Live
<1>4. EventsCurrent(p)'
  BY <1>2 DEF EventsInv, EventsCurrent
<1>5. EventsOneNode(p)' /\ EventsDeleting(p)'
  BY <1>1, <1>3 DEF EventsInv, EventsOneNode, EventsDeleting
<1>6. EventsCached(p) /\ SameNode(p) => EventsCached(p)'
  BY <1>1 DEF EventsCached, SameNode
<1> QED
  BY <1>1, <1>3, <1>4, <1>5, <1>6 DEF EventsInv, NoneBound

\* The step does not concern the pod.
SameFor(q) ==
    /\ etcd'[q] = etcd[q] /\ watch'[q] = watch[q] /\ informer'[q] = informer[q]
    /\ queue'[q] = queue[q] /\ binding'[q] = binding[q] /\ podStates'[q] = podStates[q]
    /\ q \in assumedPods' <=> q \in assumedPods
    /\ (cycle # Nil /\ cycle.uid = q) \/ (cycle' # Nil /\ cycle'.uid = q) => cycle' = cycle

\* Then its part of the invariant is kept.
LEMMA OtherPods ==
    ASSUME NEW q \in Pods, PodInv(q), SameFor(q)
    PROVE  PodInv(q)'
<1>1. EventsInv(q) /\ EventsCached(q)
  BY DEF PodInv, EventsInv
<1>2. /\ EventsInv(q)' /\ EventsCached(q)' /\ (NoneBound(q) => NoneBound(q)')
      /\ Live(q)' <=> Live(q)
  BY <1>1, EventsKept DEF SameFor, SameNode
<1>3. InFlight(q)' <=> InFlight(q)
  BY DEF SameFor, InFlight
<1>4. SeenIsAdded(q)'
  BY DEF PodInv, SameFor, SeenIsAdded, Cache!IsAddedPod
<1>5. InFlightAssumed(q)'
  BY <1>2, <1>3 DEF PodInv, SameFor, InFlightAssumed
<1>6. AssumedWritten(q)' /\ DoneWritten(q)'
  BY <1>3 DEF PodInv, SameFor, AssumedWritten, DoneWritten
<1>7. QueuedPending(q)' /\ QueuedDeleting(q)'
  BY <1>2 DEF PodInv, SameFor, QueuedPending, QueuedDeleting
<1>8. CycleFree(q)'
  BY DEF PodInv, SameFor, CycleFree
<1>9. LiveKept(q)'
  BY <1>2 DEF PodInv, SameFor, LiveKept
<1> QED
  BY <1>2, <1>4, <1>5, <1>6, <1>7, <1>8, <1>9 DEF PodInv, EventsInv

\* A step of one pod.
LEMMA OnePodStep ==
    ASSUME BInv, NEW p \in Pods, fatal' = fatal, PodInv(p)',
           \A q \in Pods : q # p => SameFor(q)
    PROVE  BInv'
BY OtherPods DEF BInv

-----------------------------------------------------------------------------
(* The steps.                                                              *)

\* The state of a pod that is new to the cache.
LEMMA NewStateType ==
    ASSUME NEW o \in AssignedObject
    PROVE  /\ Cache!NewPodState(o) \in Cache!PodState /\ Cache!NewPodState(o) # Nil
           /\ Cache!NewPodState(o).pod = o /\ ~Cache!NewPodState(o).bindingFinished
<1>1. Cache!NewPodState(o) \in Cache!PodState
  BY Zenon DEF Cache!NewPodState, Cache!PodState
<1> QED
  BY <1>1, NilAssumption DEF Cache!NewPodState

\* An assumed pod is in the cache.
LEMMA AssumedIsCached ==
    ASSUME CacheInv
    PROVE  \A p \in assumedPods : podStates[p] # Nil
BY DEF CacheInv, CacheProofs!IInv, CacheProofs!AssumedCanExpire

\* A pod that is queued and not assumed is in nobody's hands.
LEMMA QueuedIsFree ==
    ASSUME IInv, BInv, NEW p \in Pods, queue[p] # Nil, p \notin assumedPods
    PROVE  podStates[p] = Nil /\ binding[p] = Nil /\ PendingPod(queue[p])
<1>1. PodInv(p) /\ ~fatal
  BY DEF BInv
<1>2. PendingPod(queue[p]) /\ PendingPod(informer[p])
  BY <1>1 DEF PodInv, QueuedPending
<1>3. podStates[p] = Nil
  BY <1>1, <1>2 DEF IInv, AddedIsSeen, Cache!IsAddedPod, AssignedPod, PendingPod
<1>4. ~InFlight(p)
  BY <1>1 DEF PodInv, InFlightAssumed
<1>5. binding[p] = Nil
  BY <1>1, <1>2, <1>4 DEF PodInv, DoneWritten, AssignedPod, PendingPod
<1> QED
  BY <1>2, <1>3, <1>5

\* A pod is taken from the queue.
LEMMA PopStep ==
    ASSUME IInv, BInv, NEW p \in Pods, PopPod(p)
    PROVE  BInv'
<1>1. PodInv(p) /\ StoreInv
  BY DEF BInv, IInv
<1>2. /\ cycle = Nil /\ queue[p] # Nil /\ queue' = [queue EXCEPT ![p] = Nil]
      /\ UNCHANGED <<apiVars, informer, cacheVars, binding>>
  BY DEF PopPod
<1>3. queue[p].uid = p
  BY <1>1, <1>2 DEF StoreInv, ObjectsOf
<1>4. \/ cycle' = cycle /\ (queue[p].deleting \/ p \in assumedPods)
      \/ cycle' = queue[p] /\ p \notin assumedPods
  BY <1>2 DEF PopPod, Cache!IsAssumedPod
<1>5. \A q \in Pods : q # p => SameFor(q)
  BY <1>1, <1>2, <1>3, <1>4 DEF SameFor, apiVars, cacheVars, StoreInv
<1>6. /\ UNCHANGED <<etcd, watch, informer, podStates, assumedPods, binding, fatal>>
      /\ queue'[p] = Nil
  BY <1>1, <1>2 DEF apiVars, cacheVars, StoreInv
<1>7. /\ EventsInv(p)' /\ EventsCached(p)' /\ (NoneBound(p) => NoneBound(p)')
      /\ Live(p)' <=> Live(p)
  BY <1>1, <1>6, EventsKept DEF PodInv, EventsInv, SameNode
<1>8. InFlight(p)' <=> InFlight(p)
  BY <1>6 DEF InFlight
<1>9. SeenIsAdded(p)' /\ InFlightAssumed(p)' /\ AssumedWritten(p)' /\ DoneWritten(p)'
  BY <1>1, <1>6, <1>7, <1>8 DEF PodInv, SeenIsAdded, InFlightAssumed, AssumedWritten, DoneWritten,
       Cache!IsAddedPod
<1>10. QueuedPending(p)' /\ QueuedDeleting(p)'
  BY <1>6 DEF QueuedPending, QueuedDeleting
<1>11. CycleFree(p)'
  BY <1>2, <1>4, <1>6, QueuedIsFree DEF CycleFree
<1>12. LiveKept(p)'
  <2>1. CASE queue[p].deleting
    BY <1>1, <1>2, <1>7, <2>1 DEF PodInv, QueuedDeleting, LiveKept
  <2>2. CASE p \in assumedPods
    BY <1>6, <2>2 DEF LiveKept
  <2>3. CASE cycle' = queue[p]
    BY <1>2, <1>3, <2>3 DEF LiveKept
  <2> QED
    BY <1>4, <2>1, <2>2, <2>3
<1> QED
  BY <1>5, <1>6, <1>7, <1>9, <1>10, <1>11, <1>12, OnePodStep DEF PodInv, EventsInv

\* A pod is assumed.
LEMMA AssumeStep ==
    ASSUME IInv, BInv, NEW p \in Pods, NEW n \in Nodes, AssumeOn(p, n)
    PROVE  BInv'
<1> DEFINE assumed == [cycle EXCEPT !.node = n]
           b == [pc |-> "convert", pod |-> assumed, containers |-> <<>>, read |-> Nil]
<1>1. PodInv(p) /\ StoreInv /\ BindingInv /\ CacheInv
  BY DEF BInv, IInv
<1>2. cycle # Nil /\ cycle.uid = p /\ podStates[p] = Nil /\ cycle \in PodObject
  BY DEF AssumeOn, IInv, SnapshotInv, Objects
<1>3. assumed.uid = p
  BY <1>2 DEF PodObject
<1>4. /\ podStates' = [podStates EXCEPT ![p] = Cache!NewPodState(assumed)]
      /\ assumedPods' = assumedPods \cup {p} /\ UNCHANGED fatal
  BY <1>2, <1>3 DEF AssumeOn, Cache!AssumePod
<1>5. binding' = [binding EXCEPT ![p] = b]
  BY DEF AssumeOn
<1>6. cycle' = Nil /\ UNCHANGED <<etcd, watch, informer, queue>>
  BY DEF AssumeOn, apiVars
<1> HIDE DEF assumed
<1>7. b # Nil /\ assumed \in AssignedObject
  <2>1. assumed \in AssignedObject
    BY <1>2, NilAssumption DEF assumed, PodObject, AssignedObject
  <2>2. b \in BindingOf(p)
    BY <1>3, <2>1 DEF BindingOf, ObjectsOf
  <2> QED
    BY <2>1, <2>2, GoroutineType
<1>8. /\ binding'[p] = b /\ b.pc = "convert" /\ b.pod = assumed
      /\ podStates'[p] = Cache!NewPodState(assumed) /\ p \in assumedPods'
  BY <1>1, <1>4, <1>5, CacheFacts DEF BindingInv
<1> HIDE DEF b
<1>9. \A q \in Pods : q # p => SameFor(q)
  BY <1>1, <1>2, <1>4, <1>5, <1>6, CacheFacts DEF SameFor, BindingInv
<1>10. NoneBound(p) /\ EventsInv(p)
  BY <1>1, <1>2 DEF PodInv, EventsCached, NoneBound, EventsInv
<1>11. EventsInv(p)' /\ NoneBound(p)' /\ (Live(p)' <=> Live(p))
  BY <1>6, <1>10, EventsKept
<1>12. EventsCached(p)'
  BY <1>11 DEF EventsCached, NoneBound
<1>13. ~AssignedPod(informer[p])
  <2>1. LastEvent(p) \in Nat /\ Event(p, 0) = informer[p]
    BY <1>1, EventTypes
  <2> QED
    BY <1>10, <2>1 DEF NoneBound
<1>14. InFlight(p)'
  BY <1>7, <1>8 DEF InFlight
<1>15. InFlightAssumed(p)'
  <2>1. /\ podStates'[p].pod = binding'[p].pod /\ ~podStates'[p].bindingFinished
    BY <1>8 DEF Cache!NewPodState
  <2>2. podStates'[p] # Nil
    BY <1>7, <1>8, NewStateType
  <2> QED
    BY <1>8, <1>11, <2>1, <2>2 DEF InFlightAssumed
<1>16. SeenIsAdded(p)' /\ AssumedWritten(p)' /\ DoneWritten(p)'
  BY <1>6, <1>13, <1>14 DEF SeenIsAdded, AssumedWritten, DoneWritten
<1>17. QueuedPending(p)' /\ QueuedDeleting(p)' /\ CycleFree(p)' /\ LiveKept(p)'
  BY <1>1, <1>6, <1>8, <1>11 DEF PodInv, QueuedPending, QueuedDeleting, CycleFree, LiveKept
<1> QED
  BY <1>4, <1>9, <1>11, <1>12, <1>15, <1>16, <1>17, OnePodStep DEF PodInv, EventsInv

\* What recording a failure does to the pod, and that it does nothing to others.
LEMMA RecordEffect ==
    ASSUME StoreInv, NEW p \in Pods, PodInv(p), RecordSchedulingFailure(p), UNCHANGED informer
    PROVE  /\ EventsInv(p)' /\ (NoneBound(p) => NoneBound(p)')
           /\ EventsCached(p) /\ podStates'[p] = podStates[p] => EventsCached(p)'
           /\ Live(p)' => Live(p)
           /\ PendingPod(informer[p]) => queue'[p] # Nil
           /\ QueuedPending(p)' /\ QueuedDeleting(p)'
           /\ \A q \in Pods : q # p =>
                 etcd'[q] = etcd[q] /\ watch'[q] = watch[q] /\ queue'[q] = queue[q]
           /\ etcd'[p] = etcd[p] \/ Follows(p, etcd'[p])
<1>1. EventsInv(p) /\ QueuedPending(p) /\ QueuedDeleting(p)
  BY DEF PodInv, EventsInv
<1>2. /\ EventsInv(p)' /\ (NoneBound(p) => NoneBound(p)') /\ (Live(p)' => Live(p))
      /\ EventsCached(p) /\ podStates'[p] = podStates[p] => EventsCached(p)'
      /\ etcd'[p] = etcd[p] \/ Follows(p, etcd'[p])
  <2>1. CASE etcd[p] = Nil
    <3>1. etcd' = etcd /\ watch' = watch
      BY <2>1 DEF RecordSchedulingFailure, apiVars
    <3> QED
      BY <1>1, <3>1, EventsKept DEF SameNode
  <2>2. CASE etcd[p] # Nil
    <3> DEFINE o == PatchScheduledFalse(etcd[p])
    <3>1. etcd[p] \in ObjectsOf(p) /\ etcd[p] \in PodObject
      BY <2>2 DEF StoreInv, ObjectsOf
    <3>2. o \in ObjectsOf(p) /\ o.node = etcd[p].node
      BY <2>2, <3>1, ChangedObject
    <3>3. o.deleting = etcd[p].deleting /\ o # Nil
      <4>1. o.deleting = etcd[p].deleting
        BY <3>1 DEF PatchScheduledFalse, PodObject
      <4>2. o # Nil
        BY <2>2, <3>1, ChangedObject
      <4> QED
        BY <4>1, <4>2
    <3>4. WriteEtcd(p, o)
      BY <2>2 DEF RecordSchedulingFailure
    <3> HIDE DEF o
    <3>5. Follows(p, o)
      BY <2>2, <3>2, <3>3 DEF Follows, AssignedPod, PendingPod, Live
    <3> QED
      BY <1>1, <2>2, <3>2, <3>4, <3>5, WriteFollows
  <2> QED
    BY <2>1, <2>2
<1>3. \/ queue'[p] = queue[p] /\ ~(PendingPod(informer[p]) /\ queue[p] = Nil)
      \/ queue'[p] = informer[p] /\ PendingPod(informer[p])
  BY DEF RecordSchedulingFailure, StoreInv
<1>4. PendingPod(informer[p]) => queue'[p] # Nil
  BY <1>3 DEF PendingPod
<1>5. QueuedPending(p)'
  BY <1>1, <1>3 DEF QueuedPending
<1>6. QueuedDeleting(p)'
  <2>1. LastEvent(p) \in Nat /\ Event(p, 0) = informer[p]
    BY EventTypes
  <2>2. informer[p] # Nil /\ informer[p].deleting => ~Live(p)
    BY <1>1, <2>1 DEF EventsInv, EventsDeleting
  <2> QED
    BY <1>1, <1>2, <1>3, <2>2 DEF QueuedDeleting
<1>7. \A q \in Pods : q # p =>
          etcd'[q] = etcd[q] /\ watch'[q] = watch[q] /\ queue'[q] = queue[q]
  BY DEF RecordSchedulingFailure, WriteEtcd, apiVars, StoreInv
<1> QED
  BY <1>2, <1>4, <1>5, <1>6, <1>7

\* No node fits.
LEMMA ScheduleFailsStep ==
    ASSUME IInv, BInv, NEW p \in Pods, ScheduleFails(p)
    PROVE  BInv'
<1>1. PodInv(p) /\ StoreInv /\ CacheInv
  BY DEF BInv, IInv
<1>2. /\ cycle # Nil /\ cycle.uid = p /\ cycle' = Nil /\ RecordSchedulingFailure(p)
      /\ UNCHANGED <<informer, podStates, assumedPods, fatal, binding>>
  BY DEF ScheduleFails, cacheVars
<1>3. podStates[p] = Nil /\ binding[p] = Nil /\ p \notin assumedPods
  BY <1>1, <1>2, AssumedIsCached DEF PodInv, CycleFree
<1>4. /\ EventsInv(p)' /\ EventsCached(p)' /\ (Live(p)' => Live(p))
      /\ PendingPod(informer[p]) => queue'[p] # Nil
      /\ QueuedPending(p)' /\ QueuedDeleting(p)'
  BY <1>1, <1>2, RecordEffect DEF PodInv
<1>5. \A q \in Pods : q # p =>
          etcd'[q] = etcd[q] /\ watch'[q] = watch[q] /\ queue'[q] = queue[q]
  BY <1>1, <1>2, RecordEffect
<1>6. \A q \in Pods : q # p => SameFor(q)
  BY <1>2, <1>5 DEF SameFor
<1>7. SeenIsAdded(p)'
  BY <1>1, <1>2 DEF PodInv, SeenIsAdded, Cache!IsAddedPod
<1>8. InFlightAssumed(p)' /\ AssumedWritten(p)' /\ DoneWritten(p)' /\ CycleFree(p)'
  BY <1>2, <1>3 DEF InFlightAssumed, InFlight, AssumedWritten, DoneWritten, CycleFree
<1>9. LiveKept(p)'
  BY <1>2, <1>4 DEF LiveKept
<1> QED
  BY <1>2, <1>4, <1>6, <1>7, <1>8, <1>9, OnePodStep DEF PodInv, EventsInv

\* The goroutine moves on without writing the pod.
LEMMA InFlightStep ==
    ASSUME IInv, BInv, NEW p \in Pods, BindConvert(p) \/ BindGet(p) \/ BindError(p)
    PROVE  BInv'
<1>1. PodInv(p) /\ StoreInv /\ BindingInv
  BY DEF BInv, IInv
<1>2. binding[p] # Nil /\ binding[p] \in BindingOf(p) /\ binding[p].pc # "done"
  BY <1>1 DEF BindConvert, BindGet, BindError, At, BindingInv
<1>3. UNCHANGED <<etcd, watch, informer, queue, podStates, assumedPods, fatal, cycle>>
  BY DEF BindConvert, BindGet, BindError, apiVars, cacheVars
<1>4. PICK b \in BindingOf(p) :
          /\ binding' = [binding EXCEPT ![p] = b]
          /\ b.pc # "done" /\ b.pod = binding[p].pod
  BY GoroutineWorks, Zenon
<1>5. \A q \in Pods : q # p => SameFor(q)
  BY <1>1, <1>3, <1>4 DEF SameFor, BindingInv
<1>6. binding'[p] = b /\ b # Nil
  BY <1>1, <1>4, GoroutineType DEF BindingInv
<1>7. InFlight(p) /\ InFlight(p)'
  BY <1>2, <1>4, <1>6 DEF InFlight
<1>8. /\ EventsInv(p)' /\ EventsCached(p)' /\ (NoneBound(p) => NoneBound(p)')
      /\ Live(p)' <=> Live(p)
  BY <1>1, <1>3, EventsKept DEF PodInv, EventsInv, SameNode
<1>9. SeenIsAdded(p)' /\ InFlightAssumed(p)' /\ AssumedWritten(p)' /\ DoneWritten(p)'
  BY <1>1, <1>3, <1>4, <1>6, <1>7, <1>8 DEF PodInv, SeenIsAdded, InFlightAssumed, AssumedWritten,
       DoneWritten, Cache!IsAddedPod
<1>10. QueuedPending(p)' /\ QueuedDeleting(p)' /\ LiveKept(p)'
  BY <1>1, <1>3, <1>8 DEF PodInv, QueuedPending, QueuedDeleting, LiveKept
<1>11. CycleFree(p)'
  BY <1>1, <1>2, <1>3 DEF PodInv, CycleFree
<1> QED
  BY <1>3, <1>5, <1>8, <1>9, <1>10, <1>11, OnePodStep DEF PodInv, EventsInv

\* The goroutine writes the pod.
LEMMA PutStep ==
    ASSUME IInv, BInv, NEW p \in Pods, BindPut(p)
    PROVE  BInv'
<1> DEFINE b == binding[p]
           o == BoundPod(b)
           k == LastEvent(p)
<1>1. PodInv(p) /\ StoreInv /\ BindingInv
  BY DEF BInv, IInv
<1>2. b # Nil /\ b \in BindingOf(p) /\ b.pc = "put" /\ b.read # Nil
  BY <1>1 DEF BindPut, At, BindingInv
<1>3. /\ WriteEtcd(p, o) /\ binding' = [binding EXCEPT ![p].pc = "done"]
      /\ UNCHANGED <<informer, queue, podStates, assumedPods, fatal, cycle>>
  BY DEF BindPut, cacheVars
<1>4. o \in ObjectsOf(p) /\ o # Nil /\ o.node = b.pod.node /\ o.node # Nil
  BY <1>2, BoundObject, CacheObjects, NilAssumption DEF BindingOf
<1>5. binding'[p] # Nil /\ binding'[p].pc = "done" /\ \A q \in Pods : q # p => binding'[q] = binding[q]
  <2> DEFINE c == [b EXCEPT !.pc = "done"]
  <2>1. c \in BindingOf(p) /\ c.pc = "done"
    BY <1>2 DEF BindingOf
  <2>2. binding' = [binding EXCEPT ![p] = c]
    BY <1>3
  <2> HIDE DEF c
  <2> QED
    BY <1>1, <2>1, <2>2, GoroutineType DEF BindingInv
<1>6. InFlight(p) /\ ~InFlight(p)'
  BY <1>2, <1>5 DEF InFlight
<1>7. /\ p \in assumedPods /\ podStates[p] # Nil /\ podStates[p].pod = b.pod
      /\ \A i \in 0..k : ~AssignedPod(Event(p, i))
  BY <1>1, <1>6 DEF PodInv, InFlightAssumed, NoneBound
<1> HIDE DEF o
<1>8. k \in Nat /\ Event(p, k) = etcd[p] /\ Event(p, 0) = informer[p]
  BY <1>1, EventTypes DEF PodInv, EventsCurrent
<1>9. o # etcd[p] /\ AssignedPod(o)
  BY <1>4, <1>7, <1>8 DEF AssignedPod
<1>10. etcd'[p] = o /\ watch' = [watch EXCEPT ![p] = Append(@, o)]
  BY <1>1, <1>3, <1>9 DEF WriteEtcd, StoreInv
<1>11. \A q \in Pods : q # p => SameFor(q)
  BY <1>1, <1>3, <1>5, <1>10 DEF SameFor, WriteEtcd, StoreInv
<1>12. /\ LastEvent(p)' = k + 1 /\ \A i \in {k + 1} : Event(p, i)' = o
       /\ \A i \in 0..k : Event(p, i)' = Event(p, i)
  BY <1>1, <1>3, <1>4, <1>10, EventsAppend
<1>13. \A i \in 0..(k + 1) : i \in 0..k \/ i = k + 1
  BY <1>8
<1>14. \A i \in 0..(k + 1) : AssignedPod(Event(p, i)') => i = k + 1 /\ Event(p, i)' = o
  BY <1>7, <1>12, <1>13
<1>15. EventsCurrent(p)'
  <2>1. Event(p, LastEvent(p))' = o
    BY <1>12 DEF Event
  <2> QED
    BY <1>10, <2>1 DEF EventsCurrent
<1>16. EventsOneNode(p)'
  BY <1>8, <1>12, <1>14 DEF EventsOneNode
<1>17. ~Live(p)'
  BY <1>9, <1>10 DEF Live, AssignedPod, PendingPod
<1>18. EventsDeleting(p)' /\ QueuedDeleting(p)' /\ LiveKept(p)'
  BY <1>17 DEF EventsDeleting, QueuedDeleting, LiveKept
<1>19. EventsCached(p)'
  BY <1>3, <1>4, <1>7, <1>12, <1>14 DEF EventsCached
<1>20. SeenIsAdded(p)' /\ QueuedPending(p)'
  BY <1>1, <1>3 DEF PodInv, SeenIsAdded, QueuedPending, Cache!IsAddedPod
<1>21. InFlightAssumed(p)' /\ AssumedWritten(p)' /\ DoneWritten(p)'
  BY <1>3, <1>5, <1>6, <1>7, <1>9, <1>10 DEF InFlightAssumed, AssumedWritten, DoneWritten
<1>22. CycleFree(p)'
  BY <1>1, <1>2, <1>3 DEF PodInv, CycleFree
<1> QED
  BY <1>3, <1>11, <1>15, <1>16, <1>18, <1>19, <1>20, <1>21, <1>22, OnePodStep DEF PodInv

\* The goroutine ends after the pod is written.
LEMMA DoneStep ==
    ASSUME IInv, BInv, NEW p \in Pods, BindDone(p)
    PROVE  BInv'
<1>1. PodInv(p) /\ StoreInv /\ BindingInv /\ CacheInv
  BY DEF BInv, IInv
<1>2. binding[p] # Nil /\ binding[p].pc = "done" /\ binding' = [binding EXCEPT ![p] = Nil]
  BY DEF BindDone, At
<1>3. Cache!FinishBinding(p) /\ UNCHANGED <<etcd, watch, informer, queue, cycle>>
  BY DEF BindDone, apiVars
<1>4. \/ /\ podStates[p] # Nil /\ p \in assumedPods
         /\ podStates' = [podStates EXCEPT ![p].deadline = TRUE, ![p].bindingFinished = TRUE]
         /\ UNCHANGED <<assumedPods, fatal>>
      \/ (podStates[p] = Nil \/ p \notin assumedPods) /\ UNCHANGED <<podStates, assumedPods, fatal>>
  BY <1>3 DEF Cache!FinishBinding, Cache!IsAssumedPod, Cache!vars
<1>5. podStates \in [Pods -> Cache!PodState \cup {Nil}]
  BY <1>1, CacheFacts
<1>6. /\ \A q \in Pods : q # p => podStates'[q] = podStates[q]
      /\ UNCHANGED <<assumedPods, fatal>>
      /\ p \in assumedPods => podStates[p] # Nil /\ podStates'[p].bindingFinished
      /\ p \notin assumedPods => podStates'[p] = podStates[p]
      /\ SameNode(p) /\ (podStates[p] = Nil => podStates'[p] = Nil)
  <2>1. CASE podStates[p] # Nil /\ p \in assumedPods
    <3> DEFINE s == [podStates[p] EXCEPT !.deadline = TRUE, !.bindingFinished = TRUE]
    <3>1. podStates' = [podStates EXCEPT ![p] = s] /\ UNCHANGED <<assumedPods, fatal>>
      BY <1>4, <2>1
    <3>2. s \in Cache!PodState /\ s.pod = podStates[p].pod /\ s.bindingFinished
      BY <1>5, <2>1 DEF Cache!PodState
    <3> HIDE DEF s
    <3> QED
      BY <1>5, <2>1, <3>1, <3>2, NilAssumption DEF SameNode
  <2>2. CASE podStates[p] = Nil \/ p \notin assumedPods
    BY <1>1, <1>4, <2>2, AssumedIsCached DEF SameNode
  <2> QED
    BY <2>1, <2>2
<1>7. binding'[p] = Nil /\ \A q \in Pods : q # p => binding'[q] = binding[q]
  BY <1>1, <1>2 DEF BindingInv
<1>8. \A q \in Pods : q # p => SameFor(q)
  BY <1>3, <1>6, <1>7 DEF SameFor
<1>9. ~InFlight(p) /\ ~InFlight(p)'
  BY <1>2, <1>7 DEF InFlight
<1>10. EventsInv(p)' /\ EventsCached(p)' /\ (Live(p)' <=> Live(p))
  BY <1>1, <1>3, <1>6, EventsKept DEF PodInv, EventsInv
<1>11. SeenIsAdded(p)'
  BY <1>1, <1>3, <1>6 DEF PodInv, SeenIsAdded, Cache!IsAddedPod
<1>12. InFlightAssumed(p)' /\ AssumedWritten(p)' /\ DoneWritten(p)'
  BY <1>1, <1>3, <1>6, <1>7, <1>9 DEF PodInv, InFlightAssumed, AssumedWritten, DoneWritten
<1>13. QueuedPending(p)' /\ QueuedDeleting(p)' /\ LiveKept(p)' /\ CycleFree(p)'
  BY <1>1, <1>3, <1>6, <1>7, <1>10 DEF PodInv, QueuedPending, QueuedDeleting, LiveKept, CycleFree
<1> QED
  BY <1>6, <1>8, <1>10, <1>11, <1>12, <1>13, OnePodStep DEF PodInv, EventsInv

\* The goroutine ends without having written the pod.
LEMMA FailedStep ==
    ASSUME IInv, BInv, NEW p \in Pods, BindFailed(p)
    PROVE  BInv'
<1>1. PodInv(p) /\ StoreInv /\ BindingInv /\ CacheInv
  BY DEF BInv, IInv
<1>2. binding[p] # Nil /\ binding[p].pc = "failed" /\ binding' = [binding EXCEPT ![p] = Nil]
  BY DEF BindFailed, At
<1>3. Cache!ForgetPod(binding[p].pod) /\ RecordSchedulingFailure(p) /\ UNCHANGED <<informer, cycle>>
  BY DEF BindFailed
<1>4. InFlight(p)
  BY <1>2 DEF InFlight
<1>5. p \in assumedPods /\ podStates[p] # Nil /\ podStates[p].pod = binding[p].pod /\ NoneBound(p)
  BY <1>1, <1>4 DEF PodInv, InFlightAssumed
<1>6. binding[p].pod.uid = p
  BY <1>1, <1>2 DEF BindingInv, BindingOf
<1>7. Cache!Forgettable(binding[p].pod)
  <2>1. Cache!Removable(nodes, podStates[p].pod)
    BY <1>1, <1>5, CachedIsRemovable
  <2> QED
    BY <1>5, <1>6, <2>1 DEF Cache!Forgettable, Cache!IsAssumedPod
<1>8. /\ podStates' = [podStates EXCEPT ![p] = Nil] /\ assumedPods' = assumedPods \ {p}
      /\ UNCHANGED fatal
  BY <1>3, <1>6, <1>7 DEF Cache!ForgetPod
<1>9. podStates'[p] = Nil /\ \A q \in Pods : q # p => podStates'[q] = podStates[q]
  BY <1>1, <1>8, CacheFacts
<1>10. binding'[p] = Nil /\ \A q \in Pods : q # p => binding'[q] = binding[q]
  BY <1>1, <1>2 DEF BindingInv
<1>11. /\ EventsInv(p)' /\ NoneBound(p)' /\ (Live(p)' => Live(p))
       /\ PendingPod(informer[p]) => queue'[p] # Nil
       /\ QueuedPending(p)' /\ QueuedDeleting(p)'
  BY <1>1, <1>3, <1>5, RecordEffect
<1>12. \A q \in Pods : q # p =>
          etcd'[q] = etcd[q] /\ watch'[q] = watch[q] /\ queue'[q] = queue[q]
  BY <1>1, <1>3, RecordEffect
<1>13. \A q \in Pods : q # p => SameFor(q)
  BY <1>3, <1>8, <1>9, <1>10, <1>12 DEF SameFor
<1>14. EventsCached(p)'
  BY <1>11 DEF NoneBound, EventsCached
<1>15. ~AssignedPod(informer[p])
  <2>1. LastEvent(p) \in Nat /\ Event(p, 0) = informer[p]
    BY <1>1, EventTypes
  <2> QED
    BY <1>5, <2>1 DEF NoneBound
<1>16. SeenIsAdded(p)' /\ InFlightAssumed(p)' /\ AssumedWritten(p)' /\ DoneWritten(p)'
  BY <1>3, <1>8, <1>10, <1>15
     DEF SeenIsAdded, InFlightAssumed, InFlight, AssumedWritten, DoneWritten
<1>17. CycleFree(p)' /\ LiveKept(p)'
  BY <1>1, <1>2, <1>3, <1>11 DEF PodInv, CycleFree, LiveKept
<1> QED
  BY <1>8, <1>11, <1>13, <1>14, <1>16, <1>17, OnePodStep DEF PodInv, EventsInv

\* The informer skips an event.
LEMMA RelistStep ==
    ASSUME IInv, BInv, NEW p \in Pods, Relist(p)
    PROVE  BInv'
<1> DEFINE k == LastEvent(p)
<1>1. PodInv(p) /\ StoreInv
  BY DEF BInv, IInv
<1>2. /\ Len(watch[p]) > 1 /\ watch' = [watch EXCEPT ![p] = Tail(watch[p])]
      /\ UNCHANGED <<etcd, informer, queue, podStates, assumedPods, fatal, cycle, binding>>
  BY DEF Relist, cacheVars, schedVars
<1>3. \A q \in Pods : q # p => SameFor(q)
  BY <1>1, <1>2 DEF SameFor, StoreInv
<1>4. /\ k \in Nat /\ k > 1 /\ LastEvent(p)' = k - 1 /\ Event(p, 0)' = Event(p, 0)
      /\ \A i \in 1..(k - 1) : Event(p, i)' = Event(p, i + 1)
  BY <1>1, <1>2, EventsDrop, EventTypes
<1>5. \A i \in 0..(k - 1) : \E j \in 0..k :
          /\ Event(p, i)' = Event(p, j)
          /\ (i = 0 /\ j = 0) \/ (i > 0 /\ j = i + 1)
  <2> SUFFICES ASSUME NEW i \in 0..(k - 1)
               PROVE  \E j \in 0..k : /\ Event(p, i)' = Event(p, j)
                                      /\ (i = 0 /\ j = 0) \/ (i > 0 /\ j = i + 1)
    OBVIOUS
  <2>1. CASE i = 0
    BY <1>4, <2>1
  <2>2. CASE i # 0
    <3>1. i \in 1..(k - 1) /\ i + 1 \in 0..k /\ i > 0
      BY <1>4, <2>2
    <3> QED
      BY <1>4, <3>1
  <2> QED
    BY <2>1, <2>2
<1>6. EventsCurrent(p)'
  <2>1. k - 1 \in 1..(k - 1) /\ (k - 1) + 1 = k
    BY <1>4
  <2>2. Event(p, k) = etcd[p]
    BY <1>1 DEF PodInv, EventsCurrent
  <2>3. \A i \in {k - 1} : Event(p, i)' = etcd[p]
    BY <1>4, <2>1, <2>2
  <2>4. Event(p, LastEvent(p))' = etcd[p]
    BY <1>4, <2>3 DEF Event
  <2> QED
    BY <1>2, <2>4 DEF EventsCurrent
<1>7. EventsOneNode(p)'
  <2> SUFFICES ASSUME NEW i \in 0..(k - 1), NEW j \in 0..(k - 1), i < j,
                      AssignedPod(Event(p, i)')
               PROVE  \/ AssignedPod(Event(p, j)') /\ Event(p, j)'.node = Event(p, i)'.node
                      \/ Event(p, j)' = Nil /\ j = k - 1
    BY <1>4 DEF EventsOneNode
  <2>1. PICK i2 \in 0..k : /\ Event(p, i)' = Event(p, i2)
                           /\ (i = 0 /\ i2 = 0) \/ (i > 0 /\ i2 = i + 1)
    BY <1>5
  <2>2. PICK j2 \in 0..k : /\ Event(p, j)' = Event(p, j2)
                           /\ (j = 0 /\ j2 = 0) \/ (j > 0 /\ j2 = j + 1)
    BY <1>5
  <2>3. i2 < j2 /\ (j2 = k => j = k - 1)
    BY <1>4, <2>1, <2>2
  <2> QED
    BY <1>1, <2>1, <2>2, <2>3 DEF PodInv, EventsOneNode
<1>8. Live(p)' <=> Live(p)
  BY <1>2 DEF Live
<1>9. EventsDeleting(p)' /\ EventsCached(p)' /\ (NoneBound(p) => NoneBound(p)')
  BY <1>1, <1>2, <1>4, <1>5, <1>8 DEF PodInv, EventsDeleting, EventsCached, NoneBound
<1>10. InFlight(p)' <=> InFlight(p)
  BY <1>2 DEF InFlight
<1>11. SeenIsAdded(p)' /\ InFlightAssumed(p)' /\ AssumedWritten(p)'
  BY <1>1, <1>2, <1>9, <1>10
     DEF PodInv, SeenIsAdded, InFlightAssumed, AssumedWritten, Cache!IsAddedPod
<1>12. DoneWritten(p)'
  BY <1>1, <1>2, <1>4, <1>10, EventTypes DEF PodInv, DoneWritten
<1>13. QueuedPending(p)' /\ QueuedDeleting(p)' /\ LiveKept(p)' /\ CycleFree(p)'
  BY <1>1, <1>2, <1>8 DEF PodInv, QueuedPending, QueuedDeleting, LiveKept, CycleFree
<1> QED
  BY <1>2, <1>3, <1>6, <1>7, <1>9, <1>11, <1>12, <1>13, OnePodStep DEF PodInv

\* The events and the queue after a delivery.
LEMMA DeliverEvents ==
    ASSUME IInv, BInv, NEW p \in Pods, Deliver(p)
    PROVE  /\ EventsInv(p)' /\ (NoneBound(p) => NoneBound(p)')
           /\ EventsCached(p) /\ SameNode(p) => EventsCached(p)'
           /\ LastEvent(p) \in Nat /\ LastEvent(p) >= 1 /\ LastEvent(p)' = LastEvent(p) - 1
           /\ Event(p, 0) = informer[p] /\ Event(p, 1) = Head(watch[p])
           /\ informer'[p] = Head(watch[p]) /\ Event(p, 0)' = Head(watch[p])
           /\ QueuedPending(p)' /\ QueuedDeleting(p)'
           /\ Live(p)' <=> Live(p)
           /\ PendingPod(Head(watch[p])) =>
                 queue'[p] # Nil \/ (p \in assumedPods /\ PendingPod(informer[p]))
<1> DEFINE k == LastEvent(p)
           old == informer[p]
           new == Head(watch[p])
<1>1. PodInv(p) /\ StoreInv
  BY DEF BInv, IInv
<1>2. /\ watch[p] # <<>> /\ informer' = [informer EXCEPT ![p] = new]
      /\ watch' = [watch EXCEPT ![p] = Tail(watch[p])]
      /\ QueueHandler(p, old, new) /\ etcd' = etcd
  BY DEF Deliver
<1>3. /\ k \in Nat /\ k >= 1 /\ LastEvent(p)' = k - 1
      /\ \A i \in 0..(k - 1) : Event(p, i)' = Event(p, i + 1)
      /\ Event(p, 1) = new /\ Event(p, 0) = old
  BY <1>1, <1>2, EventsShift, EventTypes
<1>4. informer'[p] = new /\ Event(p, 0)' = new
  BY <1>1, <1>2 DEF Event, StoreInv
<1> HIDE DEF old, new
<1>5. \A i \in 0..(k - 1) : i + 1 \in 0..k
  BY <1>3
<1>6. EventsCurrent(p)'
  <2>1. k - 1 \in 0..(k - 1) /\ (k - 1) + 1 = k
    BY <1>3
  <2>2. Event(p, k) = etcd[p]
    BY <1>1 DEF PodInv, EventsCurrent
  <2>3. \A i \in {k - 1} : Event(p, i)' = etcd[p]
    BY <1>3, <2>1, <2>2
  <2>4. Event(p, LastEvent(p))' = etcd[p]
    BY <1>3, <2>3 DEF Event
  <2> QED
    BY <1>2, <2>4 DEF EventsCurrent
<1>7. EventsOneNode(p)'
  <2> SUFFICES ASSUME NEW i \in 0..(k - 1), NEW j \in 0..(k - 1), i < j,
                      AssignedPod(Event(p, i)')
               PROVE  \/ AssignedPod(Event(p, j)') /\ Event(p, j)'.node = Event(p, i)'.node
                      \/ Event(p, j)' = Nil /\ j = k - 1
    BY <1>3 DEF EventsOneNode
  <2>1. /\ i + 1 \in 0..k /\ j + 1 \in 0..k /\ i + 1 < j + 1 /\ (j + 1 = k => j = k - 1)
        /\ Event(p, i)' = Event(p, i + 1) /\ Event(p, j)' = Event(p, j + 1)
    BY <1>3
  <2> QED
    BY <1>1, <2>1 DEF PodInv, EventsOneNode
<1>8. Live(p)' <=> Live(p)
  BY <1>2 DEF Live
<1>9. EventsDeleting(p)'
  BY <1>1, <1>3, <1>5, <1>8 DEF PodInv, EventsDeleting
<1>10. EventsCached(p) /\ SameNode(p) => EventsCached(p)'
  BY <1>3, <1>5 DEF EventsCached, SameNode
<1>11. NoneBound(p) => NoneBound(p)'
  BY <1>3, <1>5 DEF NoneBound
<1>12. new # Nil /\ new.deleting => ~Live(p)
  <2>1. 1 \in 0..k
    BY <1>3
  <2> QED
    BY <1>1, <1>3, <2>1 DEF PodInv, EventsDeleting
<1>13. \/ PendingPod(new) /\ PendingPod(old) /\ p \in assumedPods /\ queue'[p] = queue[p]
       \/ PendingPod(new) /\ queue'[p] = new
       \/ ~PendingPod(new) /\ PendingPod(old) /\ queue'[p] = Nil
       \/ ~PendingPod(new) /\ ~PendingPod(old) /\ queue'[p] = queue[p]
  BY <1>1, <1>2 DEF QueueHandler, StoreInv, Cache!IsAssumedPod
<1>14. QueuedPending(p) /\ QueuedDeleting(p)
  BY <1>1 DEF PodInv
<1>15. QueuedPending(p)'
  BY <1>4, <1>13, <1>14 DEF QueuedPending, old
<1>16. QueuedDeleting(p)'
  BY <1>8, <1>12, <1>13, <1>14 DEF QueuedDeleting
<1>17. PendingPod(new) => queue'[p] # Nil \/ (p \in assumedPods /\ PendingPod(old))
  <2>1. PendingPod(new) => new # Nil
    BY DEF PendingPod
  <2> QED
    BY <1>13, <2>1
<1> QED
  BY <1>3, <1>4, <1>6, <1>7, <1>8, <1>9, <1>10, <1>11, <1>15, <1>16, <1>17
     DEF EventsInv, old, new

\* The handlers of an event.
LEMMA DeliverStep ==
    ASSUME IInv, BInv, NEW p \in Pods, Deliver(p)
    PROVE  BInv'
<1> DEFINE k == LastEvent(p)
           old == informer[p]
           new == Head(watch[p])
<1>1. PodInv(p) /\ StoreInv /\ CacheInv /\ ~fatal
  BY DEF BInv, IInv
<1>2. /\ EventsInv(p)' /\ (NoneBound(p) => NoneBound(p)')
      /\ EventsCached(p) /\ SameNode(p) => EventsCached(p)'
      /\ k \in Nat /\ k >= 1 /\ LastEvent(p)' = k - 1
      /\ Event(p, 0) = old /\ Event(p, 1) = new /\ informer'[p] = new /\ Event(p, 0)' = new
      /\ QueuedPending(p)' /\ QueuedDeleting(p)'
      /\ Live(p)' <=> Live(p)
      /\ PendingPod(new) => queue'[p] # Nil \/ (p \in assumedPods /\ PendingPod(old))
  BY DeliverEvents
<1>3. /\ CacheHandler(old, new) /\ UNCHANGED <<etcd, cycle, binding>> /\ watch[p] # <<>>
      /\ watch' = [watch EXCEPT ![p] = Tail(watch[p])]
      /\ informer' = [informer EXCEPT ![p] = new]
  BY DEF Deliver, schedVars
<1>4. QueueHandler(p, old, new)
  BY DEF Deliver
<1>5. old \in ObjectsOf(p) /\ new \in ObjectsOf(p)
  <2>1. 1 \in 0..k
    BY <1>2
  <2> QED
    BY <1>1, <1>2, <2>1, EventTypes DEF StoreInv
<1> HIDE DEF old, new
<1>6. ASSUME \A q \in Pods : q # p =>
                podStates'[q] = podStates[q] /\ (q \in assumedPods' <=> q \in assumedPods)
      PROVE  \A q \in Pods : q # p => SameFor(q)
  <2>1. \A q \in Pods : q # p => queue'[q] = queue[q]
    BY <1>1, <1>4 DEF QueueHandler, StoreInv
  <2> QED
    BY <1>1, <1>3, <1>6, <2>1 DEF SameFor, StoreInv
<1>7. 0 \in 0..k /\ 1 \in 0..k
  BY <1>2
<1>8. /\ AssignedPod(old) => (new = Nil /\ k = 1) \/ (AssignedPod(new) /\ new.node = old.node)
      /\ AssignedPod(new) => podStates[p] # Nil /\ podStates[p].pod.node = new.node
      /\ AssignedPod(old) => Cache!IsAddedPod(p) /\ podStates[p].pod = old
      /\ AssignedPod(old) \/ AssignedPod(new) => ~InFlight(p)
  <2>1. AssignedPod(old) => (new = Nil /\ k = 1) \/ (AssignedPod(new) /\ new.node = old.node)
    <3>1. EventsOneNode(p) /\ 0 < 1
      BY <1>1 DEF PodInv
    <3>2. AssignedPod(Event(p, 0)) =>
             \/ AssignedPod(Event(p, 1)) /\ Event(p, 1).node = Event(p, 0).node
             \/ Event(p, 1) = Nil /\ 1 = k
      BY <1>7, <3>1, Zenon DEF EventsOneNode
    <3> QED
      BY <1>2, <3>2
  <2>2. AssignedPod(new) => podStates[p] # Nil /\ podStates[p].pod.node = new.node
    BY <1>1, <1>2, <1>7 DEF PodInv, EventsCached
  <2>3. AssignedPod(old) => Cache!IsAddedPod(p) /\ podStates[p].pod = old
    BY <1>1 DEF PodInv, SeenIsAdded, old
  <2>4. AssignedPod(old) \/ AssignedPod(new) => ~InFlight(p)
    BY <1>1, <1>2, <1>7 DEF PodInv, InFlightAssumed, NoneBound
  <2> QED
    BY <2>1, <2>2, <2>3, <2>4
<1>9. InFlight(p)' <=> InFlight(p)
  BY <1>3 DEF InFlight
<1>10. Cache!IsAddedPod(p) => AssignedPod(old)
  BY <1>1 DEF IInv, AddedIsSeen, old
<1>11. podStates \in [Pods -> Cache!PodState \cup {Nil}]
  BY <1>1, CacheFacts
<1>12. ASSUME AssignedPod(new), podStates'[p] # Nil, podStates'[p].pod = new, p \notin assumedPods',
              fatal' = fatal,
              \A q \in Pods : q # p =>
                podStates'[q] = podStates[q] /\ (q \in assumedPods' <=> q \in assumedPods)
       PROVE  BInv'
  <2>1. EventsCached(p)'
    BY <1>1, <1>2, <1>8, <1>12 DEF PodInv, SameNode
  <2>2. SeenIsAdded(p)'
    BY <1>2, <1>12 DEF SeenIsAdded, Cache!IsAddedPod
  <2>3. InFlightAssumed(p)' /\ AssumedWritten(p)' /\ DoneWritten(p)'
    BY <1>1, <1>2, <1>3, <1>8, <1>9, <1>12 DEF PodInv, InFlightAssumed, AssumedWritten, DoneWritten
  <2>4. CycleFree(p)' /\ LiveKept(p)'
    BY <1>1, <1>2, <1>3, <1>8, <1>12 DEF PodInv, CycleFree, LiveKept, AssignedPod, PendingPod
  <2> QED
    BY <1>2, <1>6, <1>12, <2>1, <2>2, <2>3, <2>4, OnePodStep DEF PodInv, EventsInv
<1>13. CASE ~AssignedPod(old) /\ AssignedPod(new) /\ Cache!AddPod(new)
  <2>1. new.uid = p /\ new # Nil
    BY <1>5, <1>13 DEF ObjectsOf, AssignedPod
  <2>2. podStates[p] # Nil /\ ~Cache!IsAddedPod(p)
    BY <1>8, <1>10, <1>13
  <2>3. Cache!ConfirmPod(new)
    BY <1>13, <2>1, <2>2 DEF Cache!AddPod
  <2> DEFINE s == [podStates[p] EXCEPT !.deadline = FALSE, !.pod = new]
  <2>4. /\ podStates' = [podStates EXCEPT ![p].deadline = FALSE, ![p].pod = new]
        /\ assumedPods' = assumedPods \ {p} /\ UNCHANGED fatal
    BY <2>1, <2>3 DEF Cache!ConfirmPod
  <2>5. podStates' = [podStates EXCEPT ![p] = s]
    BY <2>4
  <2>6. s \in Cache!PodState /\ s.pod = new
    <3>1. new \in AssignedObject
      BY <1>5, <1>13 DEF AssignedObject, AssignedPod, ObjectsOf
    <3> QED
      BY <1>11, <2>2, <3>1 DEF Cache!PodState
  <2> HIDE DEF s
  <2>7. podStates'[p] # Nil /\ podStates'[p].pod = new /\ p \notin assumedPods'
    BY <1>11, <2>4, <2>5, <2>6, NilAssumption
  <2>8. \A q \in Pods : q # p =>
           podStates'[q] = podStates[q] /\ (q \in assumedPods' <=> q \in assumedPods)
    BY <1>11, <2>4, <2>5
  <2> QED
    BY <1>12, <1>13, <2>4, <2>7, <2>8
<1>14. CASE AssignedPod(old) /\ AssignedPod(new) /\ Cache!UpdatePod(old, new)
  <2>1. old.uid = p /\ new.uid = p /\ new \in AssignedObject
    BY <1>5, <1>14 DEF ObjectsOf, AssignedPod, AssignedObject
  <2>2. Cache!IsAddedPod(p) /\ podStates[p].pod = old /\ old.node = new.node /\ podStates[p] # Nil
    BY <1>8, <1>14 DEF Cache!IsAddedPod, AssignedPod
  <2>3. Cache!Removable(nodes, old)
    BY <1>1, <2>2, CachedIsRemovable
  <2>4. Cache!Updatable(old, new) /\ ~Cache!NamesOtherNode(new)
    BY <2>1, <2>2, <2>3 DEF Cache!Updatable, Cache!NamesOtherNode
  <2>5. podStates' = [podStates EXCEPT ![p].pod = new] /\ UNCHANGED <<assumedPods, fatal>>
    BY <1>14, <2>1, <2>4 DEF Cache!UpdatePod, Cache!CorruptedBy
  <2> DEFINE s == [podStates[p] EXCEPT !.pod = new]
  <2>6. podStates' = [podStates EXCEPT ![p] = s]
    BY <2>5
  <2>7. s \in Cache!PodState /\ s.pod = new
    BY <1>11, <2>1, <2>2 DEF Cache!PodState
  <2> HIDE DEF s
  <2>8. podStates'[p] # Nil /\ podStates'[p].pod = new /\ p \notin assumedPods'
    BY <1>11, <2>2, <2>5, <2>6, <2>7, NilAssumption DEF Cache!IsAddedPod
  <2>9. \A q \in Pods : q # p =>
           podStates'[q] = podStates[q] /\ (q \in assumedPods' <=> q \in assumedPods)
    BY <1>11, <2>5, <2>6
  <2> QED
    BY <1>12, <1>14, <2>5, <2>8, <2>9
<1>15. CASE AssignedPod(old) /\ ~AssignedPod(new) /\ Cache!RemovePod(old)
  <2>1. old.uid = p /\ new = Nil /\ k = 1
    BY <1>5, <1>8, <1>15 DEF ObjectsOf, AssignedPod
  <2>2. Cache!IsAddedPod(p) /\ podStates[p].pod = old /\ podStates[p] # Nil /\ p \notin assumedPods
    BY <1>8, <1>15 DEF Cache!IsAddedPod
  <2>3. Cache!Removable(nodes, old)
    BY <1>1, <2>2, CachedIsRemovable
  <2>4. Cache!Deletable(old) /\ ~Cache!NamesOtherNode(old)
    BY <2>1, <2>2, <2>3 DEF Cache!Deletable, Cache!NamesOtherNode
  <2>5. podStates' = [podStates EXCEPT ![p] = Nil] /\ UNCHANGED <<assumedPods, fatal>>
    BY <1>15, <2>1, <2>4 DEF Cache!RemovePod, Cache!CorruptedBy
  <2>6. podStates'[p] = Nil /\ \A q \in Pods : q # p => podStates'[q] = podStates[q]
    BY <1>11, <2>5
  <2>7. LastEvent(p)' = 0 /\ watch'[p] = <<>>
    <3>1. StoreInv'
      BY DeliverKeeps, <1>1 DEF IInv
    <3>2. LastEvent(p)' = 0
      BY <1>2, <2>1
    <3>3. watch'[p] \in Seq(ObjectsOf(p))
      BY <3>1 DEF StoreInv
    <3> QED
      BY <3>2, <3>3 DEF LastEvent
  <2>8. EventsCached(p)'
    <3>1. \A i \in 0..0 : Event(p, i)' = Nil
      BY <1>2, <2>1
    <3> QED
      BY <2>7, <3>1 DEF EventsCached, AssignedPod
  <2>9. SeenIsAdded(p)' /\ InFlightAssumed(p)' /\ AssumedWritten(p)' /\ DoneWritten(p)'
    <3>1. informer'[p] = Nil /\ ~AssignedPod(informer'[p])
      BY <1>2, <2>1 DEF AssignedPod
    <3> QED
      BY <1>1, <1>3, <1>8, <1>9, <1>15, <2>2, <2>5, <2>7, <3>1
         DEF PodInv, SeenIsAdded, InFlightAssumed, AssumedWritten, DoneWritten
  <2>10. CycleFree(p)' /\ LiveKept(p)'
    BY <1>1, <1>2, <1>3, <2>1, <2>2 DEF PodInv, CycleFree, LiveKept, PendingPod
  <2> QED
    BY <1>2, <1>6, <2>5, <2>6, <2>8, <2>9, <2>10, OnePodStep DEF PodInv, EventsInv
<1>16. CASE ~AssignedPod(old) /\ ~AssignedPod(new) /\ UNCHANGED cacheVars
  <2>1. UNCHANGED <<podStates, assumedPods, fatal>>
    BY <1>16 DEF cacheVars
  <2>2. EventsCached(p)'
    BY <1>1, <1>2, <2>1 DEF PodInv, SameNode
  <2>3. SeenIsAdded(p)'
    BY <1>2, <1>16 DEF SeenIsAdded
  <2>4. InFlightAssumed(p)' /\ AssumedWritten(p)'
    BY <1>1, <1>2, <1>3, <1>9, <2>1 DEF PodInv, InFlightAssumed, AssumedWritten
  <2>5. DoneWritten(p)'
    BY <1>1, <1>3, <1>9, <1>16, <2>1 DEF PodInv, DoneWritten, old
  <2>6. CycleFree(p)' /\ LiveKept(p)'
    BY <1>1, <1>2, <1>3, <2>1 DEF PodInv, CycleFree, LiveKept
  <2> QED
    BY <1>2, <1>6, <2>1, <2>2, <2>3, <2>4, <2>5, <2>6, OnePodStep DEF PodInv, EventsInv
<1> QED
  BY <1>3, <1>13, <1>14, <1>15, <1>16 DEF CacheHandler

\* An assumed pod expires: it is one that was bound and deleted, both unseen.
LEMMA ExpireStep ==
    ASSUME Timely, IInv, BInv, NEW p \in Pods, ExpireAssumed(p)
    PROVE  BInv'
<1>1. PodInv(p) /\ StoreInv /\ CacheInv
  BY DEF BInv, IInv
<1>2. watch[p] = <<>> /\ UNCHANGED <<etcd, watch, informer, queue, cycle, binding>>
  BY DEF Timely, ExpireAssumed, apiVars, schedVars
<1>3. /\ p \in assumedPods /\ podStates[p] # Nil /\ podStates[p].bindingFinished
      /\ podStates' = [podStates EXCEPT ![p] = Nil] /\ assumedPods' = assumedPods \ {p}
      /\ UNCHANGED fatal
  BY DEF ExpireAssumed, Cache!ExpirePod, Cache!IsAssumedPod
<1>4. podStates'[p] = Nil /\ \A q \in Pods : q # p => podStates'[q] = podStates[q]
  BY <1>1, <1>3, CacheFacts
<1>5. \A q \in Pods : q # p => SameFor(q)
  BY <1>2, <1>3, <1>4 DEF SameFor
<1>6. ~InFlight(p) /\ ~InFlight(p)'
  BY <1>1, <1>2, <1>3 DEF PodInv, InFlightAssumed, InFlight
<1>7. LastEvent(p) = 0 /\ Event(p, 0) = informer[p] /\ informer[p] = etcd[p]
  BY <1>1, <1>2, EventTypes DEF PodInv, EventsCurrent
<1>8. ~AssignedPod(informer[p])
  BY <1>1, <1>3 DEF PodInv, SeenIsAdded, Cache!IsAddedPod
<1>9. etcd[p] = Nil /\ informer[p] = Nil
  BY <1>1, <1>3, <1>6, <1>7, <1>8 DEF PodInv, AssumedWritten
<1>10. NoneBound(p) /\ EventsInv(p)
  BY <1>1, <1>7, <1>8 DEF NoneBound, PodInv, EventsInv
<1>11. EventsInv(p)' /\ NoneBound(p)' /\ (Live(p)' <=> Live(p))
  BY <1>2, <1>10, EventsKept
<1>12. EventsCached(p)'
  BY <1>11 DEF NoneBound, EventsCached
<1>13. SeenIsAdded(p)' /\ InFlightAssumed(p)' /\ AssumedWritten(p)' /\ DoneWritten(p)'
  BY <1>2, <1>3, <1>6, <1>8, <1>9 DEF SeenIsAdded, InFlightAssumed, AssumedWritten, DoneWritten
<1>14. QueuedPending(p)' /\ QueuedDeleting(p)' /\ CycleFree(p)' /\ LiveKept(p)'
  BY <1>1, <1>2, <1>3, <1>9, <1>11
     DEF PodInv, QueuedPending, QueuedDeleting, CycleFree, LiveKept, PendingPod
<1> QED
  BY <1>3, <1>5, <1>11, <1>12, <1>13, <1>14, OnePodStep DEF PodInv, EventsInv

\* The scheduler starts from what etcd has.
LEMMA StartStep ==
    ASSUME Timely, StoreInv, StartScheduler
    PROVE  BInv'
<1>1. /\ informer' = etcd /\ etcd' = etcd /\ watch' = [p \in Pods |-> <<>>]
      /\ queue' = [p \in Pods |-> IF PendingPod(etcd[p]) THEN etcd[p] ELSE Nil]
      /\ podStates' = [p \in Pods |->
            IF AssignedPod(etcd[p]) THEN Cache!NewPodState(etcd[p]) ELSE Nil]
      /\ assumedPods' = {} /\ fatal' = FALSE /\ cycle' = Nil /\ binding' = [p \in Pods |-> Nil]
  BY DEF Timely, StartScheduler
<1>2. ASSUME NEW p \in Pods
      PROVE  PodInv(p)'
  <2>1. /\ informer'[p] = etcd[p] /\ etcd'[p] = etcd[p] /\ watch'[p] = <<>> /\ binding'[p] = Nil
        /\ queue'[p] = IF PendingPod(etcd[p]) THEN etcd[p] ELSE Nil
        /\ podStates'[p] = IF AssignedPod(etcd[p]) THEN Cache!NewPodState(etcd[p]) ELSE Nil
    BY <1>1
  <2>2. LastEvent(p)' = 0 /\ Event(p, LastEvent(p))' = etcd[p] /\ \A i \in 0..0 : Event(p, i)' = etcd[p]
    BY <2>1 DEF LastEvent, Event
  <2>3. AssignedPod(etcd[p]) => podStates'[p] # Nil /\ podStates'[p].pod = etcd[p]
    <3>1. AssignedPod(etcd[p]) => etcd[p] \in AssignedObject
      BY DEF StoreInv, ObjectsOf, AssignedPod, AssignedObject
    <3> QED
      BY <2>1, <3>1, NewStateType
  <2>4. EventsCurrent(p)'
    BY <2>1, <2>2 DEF EventsCurrent
  <2>5. EventsOneNode(p)' /\ EventsDeleting(p)' /\ EventsCached(p)'
    BY <2>1, <2>2, <2>3 DEF EventsOneNode, EventsDeleting, EventsCached, Live
  <2>6. SeenIsAdded(p)'
    BY <1>1, <2>1, <2>3 DEF SeenIsAdded, Cache!IsAddedPod
  <2>7. InFlightAssumed(p)' /\ AssumedWritten(p)' /\ DoneWritten(p)'
    BY <1>1, <2>1 DEF InFlightAssumed, InFlight, AssumedWritten, DoneWritten
  <2>8. QueuedPending(p)' /\ QueuedDeleting(p)' /\ CycleFree(p)' /\ LiveKept(p)'
    <3>1. PendingPod(etcd[p]) => etcd[p] # Nil
      BY DEF PendingPod
    <3> QED
      BY <1>1, <2>1, <3>1 DEF QueuedPending, QueuedDeleting, CycleFree, LiveKept, Live
  <2> QED
    BY <2>4, <2>5, <2>6, <2>7, <2>8 DEF PodInv
<1> QED
  BY <1>1, <1>2 DEF BInv

\* The writes of users and of the kubelet follow what is there.
LEMMA OthersFollow ==
    ASSUME StoreInv, NEW p \in Pods,
           MarkDeleted(p) \/ RemoveDeleted(p) \/ Annotate(p) \/ RunPod(p)
    PROVE  \E o \in ObjectsOf(p) : WriteEtcd(p, o) /\ Follows(p, o)
<1>0. etcd[p] # Nil /\ etcd[p] \in ObjectsOf(p) /\ etcd[p] \in PodObject
  BY DEF MarkDeleted, RemoveDeleted, Annotate, RunPod, AssignedPod, StoreInv, ObjectsOf
<1>1. ASSUME NEW o \in ObjectsOf(p), o # Nil, o.node = etcd[p].node,
             o.deleting = etcd[p].deleting \/ o.deleting
      PROVE  Follows(p, o)
  BY <1>0, <1>1 DEF Follows, AssignedPod, PendingPod, Live
<1>2. CASE MarkDeleted(p)
  <2> DEFINE o == [etcd[p] EXCEPT !.deleting = TRUE]
  <2>1. o \in ObjectsOf(p) /\ o # Nil /\ o.node = etcd[p].node /\ o.deleting
    BY <1>0, ChangedObject DEF PodObject
  <2>2. WriteEtcd(p, o)
    BY <1>2 DEF MarkDeleted
  <2> HIDE DEF o
  <2> QED
    BY <1>1, <2>1, <2>2
<1>3. CASE RemoveDeleted(p)
  <2>1. WriteEtcd(p, Nil) /\ Nil \in ObjectsOf(p)
    BY <1>3 DEF RemoveDeleted, ObjectsOf
  <2>2. Follows(p, Nil)
    BY DEF Follows, AssignedPod, PendingPod
  <2> QED
    BY <2>1, <2>2
<1>4. CASE Annotate(p)
  <2> DEFINE o == [etcd[p] EXCEPT !.annotated = TRUE]
  <2>1. o \in ObjectsOf(p) /\ o # Nil /\ o.node = etcd[p].node
    BY <1>0, ChangedObject
  <2>2. o.deleting = etcd[p].deleting
    BY <1>0 DEF PodObject
  <2>3. WriteEtcd(p, o)
    BY <1>4 DEF Annotate
  <2> HIDE DEF o
  <2> QED
    BY <1>1, <2>1, <2>2, <2>3
<1>5. CASE RunPod(p)
  <2> DEFINE o == [etcd[p] EXCEPT !.running = TRUE]
  <2>1. o \in ObjectsOf(p) /\ o # Nil /\ o.node = etcd[p].node
    BY <1>0, ChangedObject
  <2>2. o.deleting = etcd[p].deleting
    BY <1>0 DEF PodObject
  <2>3. WriteEtcd(p, o)
    BY <1>5 DEF RunPod
  <2> HIDE DEF o
  <2> QED
    BY <1>1, <2>1, <2>2, <2>3
<1> QED
  BY <1>2, <1>3, <1>4, <1>5

\* Users and the kubelet write the pod.
LEMMA OthersWriteStep ==
    ASSUME IInv, BInv, NEW p \in Pods,
           MarkDeleted(p) \/ RemoveDeleted(p) \/ Annotate(p) \/ RunPod(p)
    PROVE  BInv'
<1>1. PodInv(p) /\ StoreInv
  BY DEF BInv, IInv
<1>2. UNCHANGED <<informer, queue, podStates, assumedPods, fatal, cycle, binding>>
  BY DEF MarkDeleted, RemoveDeleted, Annotate, RunPod, cacheVars, schedVars
<1>3. etcd[p] # Nil /\ etcd[p] \in ObjectsOf(p) /\ etcd[p] \in PodObject
  BY <1>1 DEF MarkDeleted, RemoveDeleted, Annotate, RunPod, AssignedPod, StoreInv, ObjectsOf
<1>4. PICK o \in ObjectsOf(p) : WriteEtcd(p, o) /\ Follows(p, o)
  BY <1>1, OthersFollow
<1>5. EventsInv(p) /\ EventsCached(p)
  BY <1>1 DEF PodInv, EventsInv
<1>6. /\ EventsInv(p)' /\ (EventsCached(p) /\ podStates'[p] = podStates[p] => EventsCached(p)')
      /\ (NoneBound(p) => NoneBound(p)') /\ (Live(p)' => Live(p)) /\ etcd'[p] = o
  BY <1>1, <1>2, <1>3, <1>4, <1>5, WriteFollows
<1>7. \A q \in Pods : q # p => SameFor(q)
  BY <1>1, <1>2, <1>4 DEF SameFor, WriteEtcd, StoreInv
<1>8. InFlight(p)' <=> InFlight(p)
  BY <1>2 DEF InFlight
<1>9. SeenIsAdded(p)' /\ InFlightAssumed(p)'
  BY <1>1, <1>2, <1>6, <1>8 DEF PodInv, SeenIsAdded, InFlightAssumed, Cache!IsAddedPod
<1>10. AssignedPod(etcd[p]) => etcd'[p] = Nil \/ AssignedPod(etcd'[p])
  BY <1>4, <1>6 DEF Follows
<1>11. AssumedWritten(p)'
  BY <1>1, <1>2, <1>3, <1>8, <1>10 DEF PodInv, AssumedWritten
<1>12. ~(informer[p] = Nil /\ watch[p] = <<>>)
  BY <1>1, <1>3, EventTypes DEF PodInv, EventsCurrent
<1>13. DoneWritten(p)'
  BY <1>1, <1>2, <1>3, <1>8, <1>10, <1>12 DEF PodInv, DoneWritten
<1>14. QueuedPending(p)' /\ QueuedDeleting(p)' /\ CycleFree(p)' /\ LiveKept(p)'
  BY <1>1, <1>2, <1>6 DEF PodInv, QueuedPending, QueuedDeleting, CycleFree, LiveKept
<1> QED
  BY <1>2, <1>5, <1>6, <1>7, <1>9, <1>11, <1>13, <1>14, OnePodStep DEF PodInv, EventsInv

\* A step that concerns no pod.
LEMMA QuietStep ==
    ASSUME BInv, fatal' = fatal, \A q \in Pods : SameFor(q)
    PROVE  BInv'
BY OtherPods DEF BInv

\* The changes of the cluster.
LEMMA ClusterStep ==
    ASSUME BInv, NEW n \in Nodes,
           LeaveCluster(n) \/ JoinCluster(n) \/ \E kj \in KjValues : Relabel(n, kj)
    PROVE  BInv'
<1>1. UNCHANGED <<apiVars, informer, queue, schedVars>>
  BY DEF LeaveCluster, JoinCluster, Relabel
<1>2. UNCHANGED <<podStates, assumedPods, fatal>>
  BY DEF LeaveCluster, JoinCluster, Relabel, Cache!RemoveNode, Cache!AddNode, Cache!UpdateNode,
         Cache!vars
<1> QED
  BY <1>1, <1>2, QuietStep DEF SameFor, apiVars, schedVars

-----------------------------------------------------------------------------
(* The theorems.                                                           *)

\* The invariant holds on a new cluster.
LEMMA InitBinding == Init => BInv
<1> SUFFICES ASSUME Init PROVE BInv
  OBVIOUS
<1>1. ASSUME NEW p \in Pods
      PROVE  PodInv(p)
  <2>1. /\ etcd[p] = NewPod(p) /\ watch[p] = <<NewPod(p)>> /\ informer[p] = Nil /\ queue[p] = Nil
        /\ podStates[p] = Nil /\ assumedPods = {} /\ cycle = Nil /\ binding[p] = Nil
    BY DEF Init
  <2>2. NewPod(p).node = Nil /\ ~NewPod(p).deleting
    BY DEF NewPod
  <2>3. LastEvent(p) = 1 /\ Event(p, 1) = NewPod(p) /\ Event(p, 0) = Nil
    BY <2>1 DEF LastEvent, Event
  <2>4. \A i \in 0..1 : i = 0 \/ i = 1
    OBVIOUS
  <2>5. EventsCurrent(p)
    BY <2>1, <2>3 DEF EventsCurrent
  <2>6. NoneBound(p) /\ EventsDeleting(p)
    BY <2>2, <2>3, <2>4 DEF NoneBound, AssignedPod, EventsDeleting
  <2>7. EventsOneNode(p) /\ EventsCached(p)
    BY <2>6 DEF EventsOneNode, EventsCached, NoneBound
  <2>8. SeenIsAdded(p) /\ InFlightAssumed(p) /\ AssumedWritten(p) /\ DoneWritten(p)
    BY <2>1 DEF SeenIsAdded, AssignedPod, InFlightAssumed, InFlight, AssumedWritten, DoneWritten
  <2>9. QueuedPending(p) /\ QueuedDeleting(p) /\ CycleFree(p) /\ LiveKept(p)
    BY <2>1 DEF QueuedPending, QueuedDeleting, CycleFree, LiveKept, PendingPod
  <2> QED
    BY <2>5, <2>6, <2>7, <2>8, <2>9 DEF PodInv
<1> QED
  BY <1>1 DEF BInv, Init

\* A step leaves a pod as it is, or follows what is there, or binds a pod that is not.
LEMMA EtcdSteps ==
    ASSUME Timely, IInv, BInv, [Next]_vars, NEW p \in Pods
    PROVE  etcd'[p] = etcd[p] \/ Follows(p, etcd'[p]) \/ ~AssignedPod(etcd[p])
<1>1. StoreInv /\ \A q \in Pods : PodInv(q)
  BY DEF IInv, BInv
<1>2. ASSUME NEW q \in Pods, NEW o, WriteEtcd(q, o)
      PROVE  etcd'[q] = o /\ (p # q => etcd'[p] = etcd[p])
  BY <1>1, <1>2 DEF WriteEtcd, StoreInv
<1>3. ASSUME NEW q \in Pods, ScheduleFails(q) \/ BindFailed(q)
      PROVE  etcd'[p] = etcd[p] \/ Follows(p, etcd'[p])
  <2>1. RecordSchedulingFailure(q) /\ UNCHANGED informer
    BY <1>3 DEF ScheduleFails, BindFailed
  <2> QED
    BY <1>1, <2>1, RecordEffect
<1>4. ASSUME NEW q \in Pods, BindPut(q)
      PROVE  etcd'[p] = etcd[p] \/ ~AssignedPod(etcd[p])
  <2>1. WriteEtcd(q, BoundPod(binding[q])) /\ InFlight(q)
    BY <1>4 DEF BindPut, At, InFlight
  <2>2. NoneBound(q) /\ EventsCurrent(q) /\ LastEvent(q) \in Nat
    BY <1>1, <2>1, EventTypes DEF PodInv, InFlightAssumed
  <2>3. ~AssignedPod(etcd[q])
    BY <2>2 DEF NoneBound, EventsCurrent
  <2> QED
    BY <1>2, <2>1, <2>3
<1>5. ASSUME NEW q \in Pods, MarkDeleted(q) \/ RemoveDeleted(q) \/ Annotate(q) \/ RunPod(q)
      PROVE  etcd'[p] = etcd[p] \/ Follows(p, etcd'[p])
  <2>1. PICK o \in ObjectsOf(q) : WriteEtcd(q, o) /\ Follows(q, o)
    BY <1>1, <1>5, OthersFollow
  <2> QED
    BY <1>2, <2>1
<1>6. CASE \E q \in Pods : SchedulerStep(q)
  <2>1. PICK q \in Pods : SchedulerStep(q)
    BY <1>6
  <2>2. CASE ScheduleFails(q) \/ BindFailed(q)
    BY <1>3, <2>2
  <2>3. CASE BindPut(q)
    BY <1>4, <2>3
  <2>4. ~BindPutApplied(q)
    BY DEF Timely, BindPutApplied
  <2>5. CASE ~(ScheduleFails(q) \/ BindFailed(q) \/ BindPut(q))
    <3>1. etcd' = etcd
      BY <2>1, <2>4, <2>5 DEF SchedulerStep, PopPod, AssumeOn, BindConvert, BindGet, BindDone,
           BindError, Deliver, Relist, ExpireAssumed, Panic, StartScheduler, apiVars
    <3> QED
      BY <3>1
  <2> QED
    BY <2>2, <2>3, <2>5
<1>7. CASE OthersStep
  <2>1. CASE \E q \in Pods : MarkDeleted(q) \/ RemoveDeleted(q) \/ Annotate(q) \/ RunPod(q)
    BY <1>5, <2>1
  <2>2. CASE \E n \in Nodes : LeaveCluster(n) \/ JoinCluster(n) \/ \E kj \in KjValues : Relabel(n, kj)
    BY <2>2 DEF LeaveCluster, JoinCluster, Relabel, apiVars
  <2> QED
    BY <1>7, <2>1, <2>2 DEF OthersStep
<1>8. CASE Fatal \/ Crash
  BY <1>8 DEF Fatal, Crash, StartScheduler
<1>9. CASE UNCHANGED vars
  BY <1>9 DEF vars
<1> QED
  BY <1>6, <1>7, <1>8, <1>9 DEF Next

\* Every step keeps it.
LEMMA NextBinding ==
    ASSUME Timely
    PROVE  IInv /\ BInv /\ [Next]_vars => BInv'
<1> SUFFICES ASSUME IInv, BInv, [Next]_vars PROVE BInv'
  OBVIOUS
<1>1. CASE UNCHANGED vars
  BY <1>1, QuietStep DEF vars, SameFor
<1>2. CASE Fatal \/ Crash \/ \E p \in Pods : Panic(p)
  BY <1>2, StartStep DEF Fatal, Crash, Panic, IInv
<1>3. ASSUME NEW p \in Pods, SchedulerStep(p), ~Panic(p)
      PROVE  BInv'
  <2>1. CASE PopPod(p) \/ ScheduleFails(p) \/ \E n \in Nodes : AssumeOn(p, n)
    BY <2>1, PopStep, AssumeStep, ScheduleFailsStep
  <2>2. CASE BindConvert(p) \/ BindGet(p) \/ BindError(p)
    BY <2>2, InFlightStep
  <2>3. CASE BindPut(p)
    BY <2>3, PutStep
  <2>4. CASE BindDone(p) \/ BindFailed(p)
    BY <2>4, DoneStep, FailedStep
  <2>5. CASE Deliver(p) \/ Relist(p) \/ ExpireAssumed(p)
    BY <2>5, DeliverStep, RelistStep, ExpireStep
  <2>6. ~BindPutApplied(p)
    BY DEF Timely, BindPutApplied
  <2> QED
    BY <1>3, <2>1, <2>2, <2>3, <2>4, <2>5, <2>6 DEF SchedulerStep
<1>4. CASE OthersStep
  BY <1>4, OthersWriteStep, ClusterStep DEF OthersStep
<1> QED
  BY <1>1, <1>2, <1>3, <1>4 DEF Next

\* Both invariants hold in every state.
LEMMA BindingInvariant ==
    ASSUME Timely
    PROVE  Spec => [](IInv /\ BInv)
<1>1. IInv /\ BInv /\ [Next]_vars => BInv'
  BY NextBinding
<1> QED
  BY <1>1, Invariant, InitBinding, PTL DEF Spec

\* UpdatePod and RemovePod never find an added pod on another node than the event
\* names, so that klog.Fatalf of the cache is never reached: neither etcd errors,
\* crashes and relists nor deletions and changes of the cluster can lead there as long
\* as a Put that etcd applies is answered and events come before the expiry.
THEOREM SchedulerNeverFatal ==
    ASSUME Timely
    PROVE  Spec => []NeverFatal
<1>1. BInv => NeverFatal
  BY DEF BInv, NeverFatal
<1> QED
  BY <1>1, BindingInvariant, PTL

\* Under the same assumption the unconditional Put of changePodInEtcd never moves a
\* pod that is bound: no second goroutine, no retry after a failure and no restarted
\* scheduler binds it again.
THEOREM PodsAreNeverRebound ==
    ASSUME Timely
    PROVE  Spec => NeverRebound
<1>1. IInv /\ BInv /\ [Next]_vars =>
        [\A p \in Pods :
           AssignedPod(etcd[p]) /\ AssignedPod(etcd'[p]) => etcd'[p].node = etcd[p].node]_vars
  <2> SUFFICES ASSUME IInv, BInv, [Next]_vars, NEW p \in Pods,
                      AssignedPod(etcd[p]), AssignedPod(etcd'[p])
               PROVE  etcd'[p].node = etcd[p].node
    OBVIOUS
  <2>1. etcd'[p] = etcd[p] \/ Follows(p, etcd'[p])
    BY EtcdSteps
  <2> QED
    BY <2>1 DEF Follows, AssignedPod
<1> QED
  BY <1>1, BindingInvariant, PTL DEF Spec, NeverRebound

\* Under the same assumption the cache and the queue agree with etcd whenever no event
\* is left and no goroutine runs: a bound pod is in the cache as it is in etcd, a pod
\* that waits is queued or in its cycle, and nothing else is cached but a pod that was
\* bound and deleted during a relist and that the janitor will expire.
THEOREM SchedulerIsConsistent ==
    ASSUME Timely
    PROVE  Spec => []ConsistentWhenQuiet
<1>1. IInv /\ BInv => ConsistentWhenQuiet
  <2> SUFFICES ASSUME IInv, BInv, Quiet, NEW p \in Pods
               PROVE  IF AssignedPod(etcd[p])
                      THEN Cache!IsAddedPod(p) /\ podStates[p].pod = etcd[p]
                      ELSE /\ podStates[p] # Nil =>
                                 etcd[p] = Nil /\ p \in assumedPods /\ podStates[p].bindingFinished
                           /\ (etcd[p] # Nil /\ ~etcd[p].deleting) =>
                                 queue[p] # Nil \/ (cycle # Nil /\ cycle.uid = p)
    BY DEF ConsistentWhenQuiet
  <2>1. PodInv(p) /\ StoreInv /\ ~fatal /\ watch[p] = <<>> /\ binding[p] = Nil
    BY DEF IInv, BInv, Quiet
  <2>2. informer[p] = etcd[p]
    BY <2>1, EventTypes DEF PodInv, EventsCurrent
  <2>3. CASE AssignedPod(etcd[p])
    BY <2>1, <2>2, <2>3 DEF PodInv, SeenIsAdded
  <2>4. CASE ~AssignedPod(etcd[p])
    <3>1. ~Cache!IsAddedPod(p)
      BY <2>1, <2>2, <2>4 DEF IInv, AddedIsSeen
    <3>2. ~InFlight(p)
      BY <2>1 DEF InFlight
    <3>3. p \in assumedPods => etcd[p] = Nil /\ podStates[p].bindingFinished
      BY <2>1, <2>4, <3>2 DEF PodInv, AssumedWritten
    <3>4. podStates[p] # Nil => p \in assumedPods
      BY <3>1 DEF Cache!IsAddedPod
    <3>5. ASSUME etcd[p] # Nil, ~etcd[p].deleting
          PROVE  queue[p] # Nil \/ (cycle # Nil /\ cycle.uid = p)
      <4>1. Live(p) /\ PendingPod(informer[p])
        BY <2>2, <2>4, <3>5 DEF Live, PendingPod, AssignedPod
      <4> QED
        BY <2>1, <3>3, <3>5, <4>1 DEF PodInv, LiveKept
    <3> QED
      BY <2>4, <3>3, <3>4, <3>5
  <2> QED
    BY <2>3, <2>4
<1> QED
  BY <1>1, BindingInvariant, PTL
=============================================================================
