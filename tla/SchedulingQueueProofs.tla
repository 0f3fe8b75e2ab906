------------------------ MODULE SchedulingQueueProofs ------------------------
(***************************************************************************)
(* The invariants of the three queues, of the attempts that put pods back  *)
(* and the refinement of PendingPods, for every set of pods, plugins and   *)
(* events and every bound.                                                 *)
(***************************************************************************)
EXTENDS SchedulingQueue, FiniteSetTheorems, SequenceTheorems, TLAPS

Infos == QueuedPodInfo \cup {Nil}
Objects == PodObject \cup {Nil}

-----------------------------------------------------------------------------
(* The inductive invariant, in parts.                                      *)

\* What the operations of the queue keep on their own.
QueueTypes ==
    /\ activeQ \in [Pods -> Infos]
    /\ podBackoffQ \in [Pods -> Infos]
    /\ unschedulableQ \in [Pods -> Infos]
    /\ moveRequested \in BOOLEAN
    /\ waiting \in BOOLEAN

Disjoint ==
    \A p \in Pods :
        /\ activeQ[p] # Nil => podBackoffQ[p] = Nil /\ unschedulableQ[p] = Nil
        /\ podBackoffQ[p] # Nil => unschedulableQ[p] = Nil

QInv == QueueTypes /\ Disjoint /\ NoLostWakeup

\* The events that wait for the handlers end in what the lister holds.
WatchReachesLister ==
    \A p \in Pods :
        lister[p] = IF watch[p] = <<>> THEN seen[p] ELSE watch[p][Len(watch[p])]

Binding(p) == \E t \in tasks : t.pod = p /\ t.pc = "bind"

\* A pod the cache has assumed is being bound, until it is bound or gone.
AssumedIsBinding ==
    \A p \in assumed :
        \/ ~Pending(lister[p])
        \/ Binding(p)

\* A pod the handlers know to be unassigned is queued or tried, until it is bound or
\* gone.
SeenIsHandled ==
    \A p \in Pods :
        Pending(seen[p]) => Queued(p) \/ InFlight(p) \/ ~Pending(lister[p])

\* A move request since Pop is known to the error function, either from the cycle it
\* still has to read or from the one it has read.
MoveIsNoted ==
    \A t \in tasks :
        t.sawMove => t.sync /\ moveRequested /\ (t.pc = "requeue" => t.moved)

ApiInv ==
    /\ lister \in [Pods -> Objects]
    /\ watch \in [Pods -> Seq(Objects)]
    /\ seen \in [Pods -> Objects]
    /\ WatchReachesLister

TaskInv ==
    /\ assumed \in SUBSET Pods
    /\ added \in SUBSET Pods
    /\ tasks \in SUBSET Task
    /\ AssumedIsBinding
    /\ SeenIsHandled
    /\ MoveIsNoted

IInv == QInv /\ ApiInv /\ TaskInv

-----------------------------------------------------------------------------
(* What each operation of the queue does to the set of queued pods.        *)

KeepsQueued == \A q \in Pods : Queued(q)' <=> Queued(q)
Enqueues(p) == \A q \in Pods : Queued(q)' <=> (Queued(q) \/ q = p)
Dequeues(p) == \A q \in Pods : Queued(q)' <=> (Queued(q) /\ q # p)

\* No pod comes to unschedulableQ.
ParksNone == \A q \in Pods : unschedulableQ[q] = Nil => unschedulableQ'[q] = Nil

\* Infos are not Nil, whatever their age.
LEMMA InfoForms ==
    /\ newQueuedPodInfo \in QueuedPodInfo
    /\ \A i \in QueuedPodInfo : i # Nil /\ Active(i) \in QueuedPodInfo
    /\ \A S \in SUBSET Plugins, a \in 0..2 : [plugins |-> S, age |-> a] \in QueuedPodInfo
  BY NilAssumption DEF newQueuedPodInfo, QueuedPodInfo, Active

\* Add puts the pod in one queue, and parks none in unschedulableQ.
LEMMA AddEffect ==
    ASSUME QInv, NEW p \in Pods, Add(p)
    PROVE  QInv' /\ Enqueues(p) /\ ParksNone
  BY InfoForms DEF QInv, QueueTypes, Disjoint, NoLostWakeup, Infos, Add, Enqueues, ParksNone, Queued

\* Update leaves the pod queued, in the queue it was in or in a better one.
LEMMA UpdateEffect ==
    ASSUME QInv, NEW p \in Pods, NEW old, NEW new, Update(p, old, new)
    PROVE  QInv' /\ Enqueues(p) /\ ParksNone
<1> DEFINE info == unschedulableQ[p]
           inPlace == /\ Queued(p) /\ UNCHANGED <<queueVars, waiting, moveRequested>>
           toBackoff == /\ activeQ[p] = Nil /\ podBackoffQ[p] = Nil /\ info # Nil
                        /\ unschedulableQ' = [unschedulableQ EXCEPT ![p] = Nil]
                        /\ podBackoffQ' = [podBackoffQ EXCEPT ![p] = info]
                        /\ UNCHANGED <<activeQ, waiting, moveRequested>>
           toActive == /\ activeQ[p] = Nil /\ podBackoffQ[p] = Nil /\ info # Nil
                       /\ unschedulableQ' = [unschedulableQ EXCEPT ![p] = Nil]
                       /\ activeQ' = [activeQ EXCEPT ![p] = Active(info)]
                       /\ waiting' = FALSE
                       /\ UNCHANGED <<podBackoffQ, moveRequested>>
           asNew == /\ ~Queued(p)
                    /\ activeQ' = [activeQ EXCEPT ![p] = newQueuedPodInfo]
                    /\ waiting' = FALSE
                    /\ UNCHANGED <<podBackoffQ, unschedulableQ, moveRequested>>
<1>1. inPlace \/ toBackoff \/ toActive \/ asNew
  BY DEF Update, Queued
<1> USE InfoForms DEF QInv, QueueTypes, Disjoint, NoLostWakeup, Infos, Enqueues, ParksNone, Queued
<1>2. CASE inPlace
  BY <1>2 DEF queueVars
<1>3. CASE toBackoff
  BY <1>3
<1>4. CASE toActive
  BY <1>4
<1>5. CASE asNew
  BY <1>5
<1> QED
  BY <1>1, <1>2, <1>3, <1>4, <1>5

\* Delete takes the pod out of whichever queue it is in.
LEMMA DeleteEffect ==
    ASSUME QInv, NEW p \in Pods, Delete(p)
    PROVE  QInv' /\ Dequeues(p) /\ ParksNone
  BY InfoForms DEF QInv, QueueTypes, Disjoint, NoLostWakeup, Infos, Delete,
                   Dequeues, ParksNone, Queued

\* AddUnschedulableIfNotPresent queues the pod, in unschedulableQ only without a move request.
LEMMA AddUnschedulableEffect ==
    ASSUME QInv, NEW p \in Pods, NEW info \in QueuedPodInfo, NEW moved \in BOOLEAN,
           AddUnschedulableIfNotPresent(p, info, moved)
    PROVE  /\ QInv' /\ Enqueues(p)
           /\ \A q \in Pods : unschedulableQ[q] = Nil /\ unschedulableQ'[q] # Nil
                                => q = p /\ ~moved
  BY InfoForms DEF QInv, QueueTypes, Disjoint, NoLostWakeup, Infos,
                   AddUnschedulableIfNotPresent, Enqueues, Queued

\* A move changes the queue of pods and loses none.
LEMMA MoveEffect ==
    ASSUME QInv, NEW S \in SUBSET Unschedulable, NEW plugins,
           movePodsToActiveOrBackoffQueue(S, plugins)
    PROVE  QInv' /\ KeepsQueued /\ ParksNone /\ moveRequested'
  BY InfoForms DEF QInv, QueueTypes, Disjoint, NoLostWakeup, Infos, Unschedulable,
                   movePodsToActiveOrBackoffQueue, MoveRequestRecorded, KeepsQueued, ParksNone, Queued

\* The backoff timer loses no pod.
LEMMA FlushBackoffEffect ==
    ASSUME QInv, flushBackoffQCompleted
    PROVE  QInv' /\ KeepsQueued /\ ParksNone
  BY InfoForms DEF QInv, QueueTypes, Disjoint, NoLostWakeup, Infos,
                   flushBackoffQCompleted, KeepsQueued, ParksNone, Queued

\* Activate loses no pod.
LEMMA ActivateEffect ==
    ASSUME QInv, NEW S \in SUBSET Pods, Activate(S), UNCHANGED moveRequested
    PROVE  QInv' /\ KeepsQueued /\ ParksNone
  BY InfoForms DEF QInv, QueueTypes, Disjoint, NoLostWakeup, Infos,
                   Activate, KeepsQueued, ParksNone, Queued

\* Time changes no queue.
LEMMA AgeEffect ==
    ASSUME QInv, NEW p \in Pods, Age(p)
    PROVE  QInv' /\ KeepsQueued /\ ParksNone
<1> DEFINE backoffEnds ==
              /\ podBackoffQ[p] # Nil /\ podBackoffQ[p].age = 0
              /\ podBackoffQ' = [podBackoffQ EXCEPT ![p].age = 1]
              /\ UNCHANGED <<activeQ, unschedulableQ, waiting, moveRequested>>
           waitsLonger ==
              /\ unschedulableQ[p] # Nil /\ unschedulableQ[p].age < 2
              /\ unschedulableQ' = [unschedulableQ EXCEPT ![p].age = @ + 1]
              /\ UNCHANGED <<activeQ, podBackoffQ, waiting, moveRequested>>
<1>1. backoffEnds \/ waitsLonger
  BY DEF Age
<1>2. \A i \in QueuedPodInfo, a \in 0..2 : [i EXCEPT !.age = a] \in QueuedPodInfo
  BY DEF QueuedPodInfo
<1>3. \A i \in QueuedPodInfo : i.age \in 0..2
  BY DEF QueuedPodInfo
<1> USE InfoForms DEF QInv, QueueTypes, Disjoint, NoLostWakeup, Infos, KeepsQueued, ParksNone, Queued
<1>4. CASE backoffEnds
  <2>1. podBackoffQ[p] \in QueuedPodInfo /\ 1 \in 0..2
    BY <1>4
  <2>2. [podBackoffQ[p] EXCEPT !.age = 1] \in QueuedPodInfo
    BY <1>2, <2>1, Zenon
  <2>3. podBackoffQ' = [podBackoffQ EXCEPT ![p] = [podBackoffQ[p] EXCEPT !.age = 1]]
    BY <1>4
  <2>4. /\ podBackoffQ' \in [Pods -> Infos]
        /\ podBackoffQ'[p] # Nil
        /\ \A q \in Pods \ {p} : podBackoffQ'[q] = podBackoffQ[q]
    BY <2>2, <2>3
  <2> QED
    BY <1>4, <2>4
<1>5. CASE waitsLonger
  <2>1. unschedulableQ[p].age + 1 \in 0..2
    BY <1>3, <1>5
  <2>2. /\ unschedulableQ[p] \in QueuedPodInfo
        /\ [unschedulableQ[p] EXCEPT !.age = @ + 1] \in QueuedPodInfo
    BY <1>2, <1>5, <2>1
  <2>3. unschedulableQ' = [unschedulableQ EXCEPT ![p] = [unschedulableQ[p] EXCEPT !.age = @ + 1]]
    BY <1>5
  <2>4. /\ unschedulableQ' \in [Pods -> Infos]
        /\ unschedulableQ'[p] # Nil
        /\ \A q \in Pods \ {p} : unschedulableQ'[q] = unschedulableQ[q]
    BY <2>2, <2>3
  <2> QED
    BY <1>5, <2>4
<1> QED
  BY <1>1, <1>4, <1>5

-----------------------------------------------------------------------------
(* What the steps do to the informer's store and to the attempts.          *)

\* A pod that is bound or gone stays so.
StaysAssigned == \A q \in Pods : Pending(lister'[q]) => Pending(lister[q])

\* A bound copy of a pod is a pod that is no longer pending.
LEMMA ObjectForms ==
    /\ NewPod \in PodObject
    /\ \A o \in PodObject : /\ o # Nil
                            /\ [o EXCEPT !.bound = TRUE] \in PodObject
                            /\ [o EXCEPT !.bound = TRUE].bound
                            /\ [o EXCEPT !.spec = @ + 1].bound = o.bound
                            /\ o.spec < MaxSpec => [o EXCEPT !.spec = @ + 1] \in PodObject
<1>1. NewPod \in PodObject
  BY QueueAssumption DEF NewPod, PodObject
<1> SUFFICES ASSUME NEW o \in PodObject
             PROVE  /\ o # Nil
                    /\ [o EXCEPT !.bound = TRUE] \in PodObject
                    /\ [o EXCEPT !.bound = TRUE].bound
                    /\ [o EXCEPT !.spec = @ + 1].bound = o.bound
                    /\ o.spec < MaxSpec => [o EXCEPT !.spec = @ + 1] \in PodObject
  BY <1>1
<1>2. o # Nil
  BY NilAssumption
<1>3. [o EXCEPT !.bound = TRUE] \in PodObject /\ [o EXCEPT !.bound = TRUE].bound
  BY DEF PodObject
<1>4. [o EXCEPT !.spec = @ + 1].bound = o.bound
  BY DEF PodObject
<1>5. ASSUME o.spec < MaxSpec PROVE [o EXCEPT !.spec = @ + 1] \in PodObject
  BY <1>5, QueueAssumption DEF PodObject
<1> QED
  BY <1>2, <1>3, <1>4, <1>5

\* The last element of a sequence, for Append and Tail.
LEMMA LastElement ==
    ASSUME NEW S, NEW s \in Seq(S), NEW o \in S
    PROVE  /\ Append(s, o) \in Seq(S) /\ Append(s, o) # <<>>
           /\ Append(s, o)[Len(Append(s, o))] = o
           /\ s # <<>> => /\ Head(s) \in S /\ Tail(s) \in Seq(S)
                          /\ Tail(s) = <<>> => Head(s) = s[Len(s)]
                          /\ Tail(s) # <<>> => Tail(s)[Len(Tail(s))] = s[Len(s)]
           /\ Len(s) > 1 => s # <<>> /\ Tail(s) # <<>>
<1>1. /\ Append(s, o) \in Seq(S) /\ Len(Append(s, o)) = Len(s) + 1
      /\ Append(s, o)[Len(s) + 1] = o
  BY AppendProperties
<1>2. Append(s, o) # <<>>
  BY AppendProperties
<1>3. Len(s) > 1 => s # <<>>
  BY EmptySeq
<1>4. ASSUME s # <<>>
      PROVE  /\ Head(s) \in S /\ Tail(s) \in Seq(S)
             /\ Tail(s) = <<>> => Head(s) = s[Len(s)]
             /\ Tail(s) # <<>> => Tail(s)[Len(Tail(s))] = s[Len(s)]
             /\ Len(s) > 1 => Tail(s) # <<>>
  <2>1. Len(s) \in Nat \ {0} /\ Head(s) = s[1]
    BY <1>4, EmptySeq
  <2>2. /\ Head(s) \in S /\ Tail(s) \in Seq(S) /\ Len(Tail(s)) = Len(s) - 1
        /\ \A i \in 1 .. Len(Tail(s)) : Tail(s)[i] = s[i + 1]
    BY <1>4, HeadTailProperties
  <2>3. ASSUME Tail(s) = <<>> PROVE Len(s) = 1
    <3>1. Len(Tail(s)) = 0
      BY <2>3, EmptySeq, Zenon
    <3>2. \A k \in Nat \ {0} : k - 1 = 0 => k = 1
      OBVIOUS
    <3> QED
      BY <2>1, <2>2, <3>1, <3>2, Zenon
  <2>4. Tail(s) # <<>> => Len(Tail(s)) \in Nat \ {0}
    BY <2>2, EmptySeq
  <2>5. Tail(s) # <<>> => Tail(s)[Len(Tail(s))] = s[Len(s)]
    BY <2>1, <2>2, <2>4
  <2>6. Len(s) > 1 => Tail(s) # <<>>
    <3>1. Len(s) = 1 => ~(Len(s) > 1)
      OBVIOUS
    <3> QED
      BY <2>3, <3>1, Zenon
  <2> QED
    BY <2>1, <2>2, <2>3, <2>5, <2>6
<1> QED
  BY <1>1, <1>2, <1>3, <1>4

\* A write reaches the store at once and the handlers as the last event.
LEMMA WriteEffect ==
    ASSUME ApiInv, NEW p \in Pods, NEW o \in Objects, Write(p, o)
    PROVE  /\ ApiInv'
           /\ lister'[p] = o
           /\ \A q \in Pods : q # p => lister'[q] = lister[q]
           /\ seen' = seen
<1>1. /\ Append(watch[p], o) \in Seq(Objects)
      /\ Append(watch[p], o) # <<>>
      /\ Append(watch[p], o)[Len(Append(watch[p], o))] = o
  BY LastElement DEF ApiInv
<1> QED
  BY <1>1 DEF ApiInv, WatchReachesLister, Write

\* A delivery shows the handler the oldest state it has not seen.
LEMMA DeliverEffect ==
    ASSUME ApiInv, NEW p \in Pods, Deliver(p)
    PROVE  /\ ApiInv'
           /\ seen'[p] = Head(watch[p])
           /\ \A q \in Pods : q # p => seen'[q] = seen[q]
<1> DEFINE w == watch[p]
<1>1. w \in Seq(Objects) /\ w # <<>> /\ Len(w) \in Nat \ {0}
  BY EmptySeq DEF ApiInv, Deliver
<1>2. /\ Head(w) \in Objects /\ Tail(w) \in Seq(Objects)
      /\ Tail(w) = <<>> => Head(w) = w[Len(w)]
      /\ Tail(w) # <<>> => Tail(w)[Len(Tail(w))] = w[Len(w)]
  BY <1>1, LastElement
<1> HIDE DEF w
<1>3. /\ seen' = [seen EXCEPT ![p] = Head(w)]
      /\ watch' = [watch EXCEPT ![p] = Tail(w)]
      /\ lister' = lister
  BY DEF Deliver, w
<1>4. lister[p] = w[Len(w)]
  BY <1>1 DEF ApiInv, WatchReachesLister, w
<1> QED
  BY <1>1, <1>2, <1>3, <1>4 DEF ApiInv, WatchReachesLister, w

\* A relist skips states but never the last one.
LEMMA RelistEffect ==
    ASSUME ApiInv, NEW p \in Pods, Relist(p)
    PROVE  ApiInv'
<1> DEFINE w == watch[p]
<1>1. w \in Seq(Objects) /\ Len(w) > 1 /\ w # <<>>
  BY DEF ApiInv, Relist
<1>2. Tail(w) \in Seq(Objects) /\ Tail(w) # <<>> /\ Tail(w)[Len(Tail(w))] = w[Len(w)]
  BY <1>1, LastElement
<1> HIDE DEF w
<1>3. /\ watch' = [watch EXCEPT ![p] = Tail(w)]
      /\ lister' = lister /\ seen' = seen
  BY DEF Relist, w
<1>4. lister[p] = w[Len(w)]
  BY <1>1 DEF ApiInv, WatchReachesLister, w
<1> QED
  BY <1>1, <1>2, <1>3, <1>4 DEF ApiInv, WatchReachesLister, w

KeepsTries == \A q \in Pods : /\ InFlight(q)' <=> InFlight(q)
                              /\ Binding(q)' <=> Binding(q)

\* A step of one attempt changes no other pod's.
LEMMA StepEffect ==
    ASSUME tasks \in SUBSET Task, NEW t \in tasks, NEW t2 \in Task, t2.pod = t.pod,
           Step(t, t2)
    PROVE  /\ tasks' \in SUBSET Task
           /\ \A q \in Pods : q # t.pod => /\ InFlight(q)' <=> InFlight(q)
                                           /\ Binding(q)' <=> Binding(q)
           /\ t2.pc # "patch" => InFlight(t.pod)'
           /\ t2.pc = "bind" => Binding(t.pod)'
           /\ t.pc # "bind" /\ Binding(t.pod) => Binding(t.pod)'
           /\ t.pc = "patch" /\ InFlight(t.pod) => InFlight(t.pod)'
           /\ InFlight(t.pod)' => InFlight(t.pod) \/ t2.pc # "patch"
  BY DEF Step, InFlight, Binding

\* The end of an attempt touches no other pod's attempts.
LEMMA RemoveEffect ==
    ASSUME tasks \in SUBSET Task, NEW t \in tasks, tasks' = tasks \ {t}
    PROVE  /\ tasks' \in SUBSET Task
           /\ \A q \in Pods : q # t.pod => /\ InFlight(q)' <=> InFlight(q)
                                           /\ Binding(q)' <=> Binding(q)
           /\ t.pc # "bind" => (Binding(t.pod)' <=> Binding(t.pod))
           /\ t.pc = "patch" => (InFlight(t.pod)' <=> InFlight(t.pod))
           /\ InFlight(t.pod)' => InFlight(t.pod)
  BY DEF InFlight, Binding

\* A move request is noted in every attempt that has read the cycle.
LEMMA MoveTasks ==
    ASSUME TaskInv, QueueTypes, NEW S, NEW plugins,
           movePodsToActiveOrBackoffQueue(S, plugins)
    PROVE  tasks' \in SUBSET Task /\ KeepsTries /\ MoveIsNoted'
<1> DEFINE after(t) == [t EXCEPT !.sawMove = t.sync /\ t.pc # "patch",
                                 !.moved = @ \/ (t.pc = "requeue" /\ TRUE)]
<1>1. moveRequested' = TRUE /\ tasks' = {after(t) : t \in tasks}
  BY DEF movePodsToActiveOrBackoffQueue, MoveRequestRecorded
<1>2. \A t \in Task : /\ after(t) \in Task
                      /\ after(t).pod = t.pod /\ after(t).pc = t.pc /\ after(t).sync = t.sync
                      /\ after(t).sawMove => t.sync
                      /\ t.pc = "requeue" => after(t).moved
  BY DEF Task
<1> HIDE DEF after
<1> QED
  BY <1>1, <1>2 DEF TaskInv, KeepsTries, InFlight, Binding, MoveIsNoted

\* A step that leaves the queues alone keeps their invariant.
LEMMA QueueUnchanged ==
    ASSUME QInv, UNCHANGED <<queueVars, moveRequested, waiting>>
    PROVE  QInv' /\ KeepsQueued /\ ParksNone
  BY DEF QInv, QueueTypes, Disjoint, NoLostWakeup, queueVars, KeepsQueued, ParksNone, Queued

\* A step that leaves store and events alone keeps their invariant.
LEMMA ApiUnchanged ==
    ASSUME ApiInv, UNCHANGED apiVars
    PROVE  ApiInv' /\ lister' = lister /\ seen' = seen
  BY DEF ApiInv, WatchReachesLister, apiVars

\* A step that leaves the attempts alone keeps every try.
LEMMA TasksUnchanged ==
    ASSUME TaskInv, UNCHANGED tasks
    PROVE  tasks' \in SUBSET Task /\ KeepsTries
  BY DEF TaskInv, KeepsTries, InFlight, Binding

-----------------------------------------------------------------------------
(* Every step keeps the inductive invariant.                               *)

\* Steps that queue, try and assume no pod for the last time.
LEMMA QuietStep ==
    ASSUME IInv, QInv', ApiInv',
           lister' = lister, seen' = seen,
           assumed' \in SUBSET assumed, added' \in SUBSET Pods, tasks' \in SUBSET Task,
           KeepsQueued, KeepsTries, MoveIsNoted'
    PROVE  IInv'
  BY DEF IInv, TaskInv, ApiInv, AssumedIsBinding, SeenIsHandled, KeepsQueued, KeepsTries

\* Move requests by events and by the handlers of assigned pods.
LEMMA MoveStep ==
    ASSUME IInv, NEW S \in SUBSET Unschedulable, NEW plugins,
           movePodsToActiveOrBackoffQueue(S, plugins), UNCHANGED apiVars,
           assumed' \in SUBSET assumed, added' \in SUBSET Pods
    PROVE  IInv'
<1>1. QInv /\ QueueTypes /\ ApiInv /\ TaskInv
  BY DEF IInv, QInv
<1>2. QInv' /\ KeepsQueued
  BY <1>1, MoveEffect
<1>3. tasks' \in SUBSET Task /\ KeepsTries /\ MoveIsNoted'
  BY <1>1, MoveTasks
<1>4. ApiInv' /\ lister' = lister /\ seen' = seen
  BY <1>1, ApiUnchanged
<1> QED
  BY <1>2, <1>3, <1>4, QuietStep

\* Timers and waiting.
LEMMA TimerStep ==
    ASSUME IInv, PopWaits \/ flushBackoffQCompleted \/ \E p \in Pods : Age(p)
    PROVE  IInv'
<1>1. QInv /\ ApiInv /\ TaskInv
  BY DEF IInv
<1>2. UNCHANGED <<apiVars, cacheVars, tasks, moveRequested>>
  BY DEF PopWaits, flushBackoffQCompleted, Age
<1>3. QInv' /\ KeepsQueued
  <2>1. CASE PopWaits
    BY <1>1, <2>1 DEF PopWaits, QInv, QueueTypes, Disjoint, NoLostWakeup, queueVars,
                      KeepsQueued, Queued
  <2> QED
    BY <1>1, <2>1, FlushBackoffEffect, AgeEffect
<1>4. ApiInv' /\ lister' = lister /\ seen' = seen
  BY <1>1, <1>2, ApiUnchanged
<1>5. tasks' \in SUBSET Task /\ KeepsTries
  BY <1>1, <1>2, TasksUnchanged
<1>6. MoveIsNoted' /\ assumed' = assumed /\ added' = added
  BY <1>1, <1>2 DEF TaskInv, MoveIsNoted, cacheVars
<1> QED
  BY <1>1, <1>3, <1>4, <1>5, <1>6, QuietStep DEF TaskInv

\* A relist: the lister already has what the skipped events said.
LEMMA RelistStep ==
    ASSUME IInv, NEW p \in Pods, Relist(p)
    PROVE  IInv'
<1>1. QInv /\ ApiInv /\ TaskInv
  BY DEF IInv
<1>2. UNCHANGED <<lister, seen, cacheVars, queueVars, moveRequested, waiting, tasks>>
  BY DEF Relist
<1>3. QInv' /\ KeepsQueued /\ tasks' \in SUBSET Task /\ KeepsTries
  BY <1>1, <1>2, QueueUnchanged, TasksUnchanged
<1>4. ApiInv'
  BY <1>1, RelistEffect
<1>5. MoveIsNoted' /\ assumed' = assumed /\ added' = added
  BY <1>1, <1>2 DEF TaskInv, MoveIsNoted, cacheVars
<1> QED
  BY <1>1, <1>2, <1>3, <1>4, <1>5, QuietStep DEF TaskInv

\* A user's write: a pod that is bound or gone stays so.
LEMMA UserStep ==
    ASSUME IInv, NEW p \in Pods, UpdatePod(p) \/ DeletePod(p)
    PROVE  IInv'
<1>1. QInv /\ ApiInv /\ TaskInv
  BY DEF IInv
<1>2. UNCHANGED <<cacheVars, queueVars, moveRequested, waiting, tasks>>
  BY DEF UpdatePod, DeletePod
<1>3. QInv' /\ KeepsQueued /\ tasks' \in SUBSET Task /\ KeepsTries
  BY <1>1, <1>2, QueueUnchanged, TasksUnchanged
<1>4. PICK o \in Objects : Write(p, o) /\ (Pending(o) => Pending(lister[p]))
  <2>1. CASE DeletePod(p)
    BY <2>1 DEF DeletePod, Objects, Pending
  <2>2. CASE UpdatePod(p)
    <3>1. lister[p] \in PodObject /\ lister[p].spec < MaxSpec
      BY <1>1, <2>2 DEF UpdatePod, ApiInv, Objects
    <3>2. [lister[p] EXCEPT !.spec = @ + 1] \in Objects
      BY <3>1, ObjectForms DEF Objects
    <3>3. Pending([lister[p] EXCEPT !.spec = @ + 1]) => Pending(lister[p])
      BY <3>1, ObjectForms DEF Pending
    <3> QED
      BY <2>2, <3>2, <3>3 DEF UpdatePod
  <2> QED
    BY <2>1, <2>2
<1>5. ApiInv' /\ seen' = seen /\ StaysAssigned
  BY <1>1, <1>4, WriteEffect DEF StaysAssigned
<1>6. MoveIsNoted' /\ assumed' = assumed /\ added' = added
  BY <1>1, <1>2 DEF TaskInv, MoveIsNoted, cacheVars
<1>7. AssumedIsBinding' /\ SeenIsHandled'
  BY <1>1, <1>3, <1>5, <1>6 DEF TaskInv, AssumedIsBinding, SeenIsHandled, KeepsQueued,
                                KeepsTries, StaysAssigned
<1> QED
  BY <1>1, <1>3, <1>5, <1>6, <1>7 DEF IInv, TaskInv

\* Pop takes one pod out of activeQ.
LEMMA PopEffect ==
    ASSUME QInv, NEW p \in Pods, Pop(p)
    PROVE  QInv' /\ Dequeues(p) /\ ParksNone
  BY InfoForms DEF QInv, QueueTypes, Disjoint, NoLostWakeup, Infos, Pop, Dequeues, ParksNone, Queued

\* The pod that is taken is tried, or the cache has assumed it.
LEMMA PopTasks ==
    ASSUME QInv, TaskInv, NEW p \in Pods, Pop(p)
    PROVE  /\ tasks' \in SUBSET Task
           /\ MoveIsNoted'
           /\ \A q \in Pods : /\ Binding(q)' <=> Binding(q)
                              /\ InFlight(q)' <=> (InFlight(q) \/ (q = p /\ p \notin assumed))
<1> DEFINE new == [pod |-> p, plugins |-> activeQ[p].plugins, sync |-> TRUE,
                   pc |-> "schedule", moved |-> FALSE, sawMove |-> FALSE]
<1>1. activeQ[p] \in QueuedPodInfo
  BY DEF QInv, QueueTypes, Infos, Pop
<1>2. activeQ[p].plugins \in SUBSET Plugins
  BY <1>1 DEF QueuedPodInfo
<1>3. new \in Task /\ new.pod = p /\ new.pc = "schedule" /\ ~new.sawMove
  BY <1>2 DEF Task
<1>4. tasks' = IF p \in assumed THEN tasks ELSE tasks \cup {new}
  BY DEF Pop
<1> HIDE DEF new
<1>5. \A t \in tasks : ~t.sawMove
  BY DEF Pop, Idle, TaskInv, MoveIsNoted
<1> QED
  BY <1>3, <1>4, <1>5 DEF TaskInv, MoveIsNoted, Binding, InFlight

\* Pop: the pod that leaves the queue is under way or was assumed.
LEMMA PopStep ==
    ASSUME IInv, NEW p \in Pods, Pop(p)
    PROVE  IInv'
<1>1. QInv /\ ApiInv /\ TaskInv
  BY DEF IInv
<1>2. QInv' /\ Dequeues(p)
  BY <1>1, PopEffect
<1>3. /\ tasks' \in SUBSET Task /\ MoveIsNoted'
      /\ \A q \in Pods : /\ Binding(q)' <=> Binding(q)
                         /\ InFlight(q)' <=> (InFlight(q) \/ (q = p /\ p \notin assumed))
  BY <1>1, PopTasks
<1>4. ApiInv' /\ lister' = lister /\ seen' = seen /\ assumed' = assumed /\ added' = added
  BY <1>1, ApiUnchanged DEF Pop, cacheVars
<1>5. AssumedIsBinding'
  BY <1>1, <1>3, <1>4 DEF TaskInv, AssumedIsBinding
<1>6. Binding(p) => InFlight(p)
  BY DEF Binding, InFlight
<1>7. SeenIsHandled'
  BY <1>1, <1>2, <1>3, <1>4, <1>6 DEF TaskInv, AssumedIsBinding, SeenIsHandled, Dequeues
<1> QED
  BY <1>1, <1>2, <1>3, <1>4, <1>5, <1>7 DEF IInv, TaskInv

\* The handlers queue a pod that appears or changes, unless the cache has assumed it.
LEMMA HandlerEffect ==
    ASSUME QInv, NEW p \in Pods, NEW old, NEW new, QueueHandler(p, old, new)
    PROVE  /\ QInv' /\ ParksNone /\ moveRequested' = moveRequested
           /\ \/ ~Pending(old) /\ Pending(new) /\ Enqueues(p)
              \/ Pending(old) /\ Pending(new) /\ p \in assumed /\ KeepsQueued
              \/ Pending(old) /\ Pending(new) /\ Enqueues(p)
              \/ Pending(old) /\ ~Pending(new) /\ Dequeues(p)
              \/ ~Pending(old) /\ ~Pending(new) /\ KeepsQueued
<1>1. CASE ~Pending(old) /\ Pending(new) /\ Add(p)
  BY <1>1, AddEffect DEF Add
<1>2. CASE /\ Pending(old) /\ Pending(new) /\ p \in assumed
           /\ UNCHANGED <<queueVars, moveRequested, waiting>>
  BY <1>2, QueueUnchanged
<1>3. CASE Pending(old) /\ Pending(new) /\ Update(p, old, new)
  BY <1>3, UpdateEffect DEF Update
<1>4. CASE Pending(old) /\ ~Pending(new) /\ Delete(p)
  BY <1>4, DeleteEffect DEF Delete
<1>5. CASE ~Pending(old) /\ ~Pending(new) /\ UNCHANGED <<queueVars, moveRequested, waiting>>
  BY <1>5, QueueUnchanged
<1> QED
  BY <1>1, <1>2, <1>3, <1>4, <1>5, Zenon DEF QueueHandler

\* A delivery to the handlers of unassigned pods: the pod they show is queued.
LEMMA DeliverStep ==
    ASSUME IInv, NEW p \in Pods, Deliver(p)
    PROVE  IInv'
<1>1. QInv /\ ApiInv /\ TaskInv
  BY DEF IInv
<1>2. /\ ApiInv' /\ seen'[p] = Head(watch[p])
      /\ \A q \in Pods : q # p => seen'[q] = seen[q]
  BY <1>1, DeliverEffect
<1>3. /\ lister' = lister /\ assumed' = assumed /\ added' = added /\ tasks' = tasks
      /\ QueueHandler(p, seen[p], Head(watch[p]))
  BY DEF Deliver, cacheVars
<1>4. tasks' \in SUBSET Task /\ KeepsTries
  BY <1>1, <1>3, TasksUnchanged
<1>5. QInv' /\ moveRequested' = moveRequested
  BY <1>1, <1>3, HandlerEffect
<1>6. MoveIsNoted'
  BY <1>1, <1>3, <1>5 DEF TaskInv, MoveIsNoted
<1>7. AssumedIsBinding'
  BY <1>1, <1>3, <1>4 DEF TaskInv, AssumedIsBinding, KeepsTries
<1>8. Binding(p) => InFlight(p)
  BY DEF Binding, InFlight
<1>9. \/ Pending(seen'[p]) /\ Enqueues(p)
      \/ Pending(seen'[p]) /\ p \in assumed /\ KeepsQueued
      \/ ~Pending(seen'[p]) /\ (KeepsQueued \/ Dequeues(p))
  BY <1>1, <1>2, <1>3, HandlerEffect
<1>10. SeenIsHandled'
  BY <1>1, <1>2, <1>3, <1>4, <1>8, <1>9
     DEF TaskInv, AssumedIsBinding, SeenIsHandled, KeepsTries, Enqueues, Dequeues, KeepsQueued
<1> QED
  BY <1>1, <1>2, <1>3, <1>4, <1>5, <1>6, <1>7, <1>10 DEF IInv, TaskInv

\* What a task must know of a move request.
Noted(t) == t.sawMove => t.sync /\ moveRequested /\ (t.pc = "requeue" => t.moved)

\* An attempt goes on: it may end (in "patch") only when the pod is queued, bound or gone.
LEMMA AttemptStep ==
    ASSUME IInv, NEW t \in tasks, NEW t2 \in Task, t2.pod = t.pod, t.pc # "patch",
           Step(t, t2), Noted(t2),
           QInv', ApiInv', UNCHANGED <<lister, seen, moveRequested>>,
           added' = added,
           assumed' \in SUBSET (assumed \cup {t.pod}),
           t.pod \in assumed' => t2.pc = "bind" \/ (t.pc # "bind" /\ t.pod \in assumed),
           \A q \in Pods : Queued(q) => Queued(q)',
           t2.pc = "patch" => Queued(t.pod)' \/ ~Pending(lister[t.pod])
    PROVE  IInv'
<1>1. TaskInv /\ tasks \in SUBSET Task /\ t.pod \in Pods
  BY DEF IInv, TaskInv, Task
<1>2. /\ tasks' \in SUBSET Task
      /\ \A q \in Pods : q # t.pod => /\ InFlight(q)' <=> InFlight(q)
                                      /\ Binding(q)' <=> Binding(q)
      /\ t2.pc # "patch" => InFlight(t.pod)'
      /\ t2.pc = "bind" => Binding(t.pod)'
      /\ t.pc # "bind" /\ Binding(t.pod) => Binding(t.pod)'
  BY <1>1, StepEffect
<1>3. MoveIsNoted'
  BY <1>1 DEF TaskInv, MoveIsNoted, Noted, Step
<1>4. AssumedIsBinding'
  BY <1>1, <1>2 DEF TaskInv, AssumedIsBinding
<1>5. SeenIsHandled'
  BY <1>1, <1>2 DEF TaskInv, SeenIsHandled
<1> QED
  BY <1>1, <1>2, <1>3, <1>4, <1>5 DEF IInv, TaskInv

\* The types of an attempt's fields.
LEMMA TaskFields ==
    ASSUME NEW t \in Task
    PROVE  t.pod \in Pods /\ t.plugins \in SUBSET Plugins /\ t.moved \in BOOLEAN
  BY DEF Task

\* An attempt that is over but for the condition.
LEMMA EndingForm ==
    ASSUME NEW t \in Task
    PROVE  /\ Ending(t) \in Task /\ Ending(t).pod = t.pod /\ Ending(t).pc = "patch"
           /\ Noted(Ending(t))
<1>1. /\ Ending(t) \in Task /\ Ending(t).pod = t.pod /\ Ending(t).pc = "patch"
      /\ Ending(t).sawMove = FALSE
  BY DEF Task, Ending
<1> QED
  BY <1>1 DEF Noted

\* Steps of an attempt that touch neither the queues nor the cache.
LEMMA TryStep ==
    ASSUME IInv, NEW t \in tasks, ScheduleFails(t) \/ CheckLister(t) \/ ReadSchedulingCycle(t)
    PROVE  IInv'
<1>1. QInv /\ ApiInv /\ TaskInv /\ t \in Task /\ Noted(t) /\ moveRequested \in BOOLEAN
  BY DEF IInv, TaskInv, MoveIsNoted, Noted, QInv, QueueTypes
<1>2. /\ UNCHANGED apiVars
      /\ UNCHANGED <<assumed, added>>
      /\ UNCHANGED <<queueVars, moveRequested, waiting>>
      /\ t.pc \in {"schedule", "failed", "checked"}
  BY DEF ScheduleFails, CheckLister, ReadSchedulingCycle, cacheVars
<1>3. QInv' /\ \A q \in Pods : Queued(q) => Queued(q)'
  BY <1>1, <1>2, QueueUnchanged DEF KeepsQueued
<1>4. ApiInv' /\ UNCHANGED <<lister, seen, moveRequested>>
  BY <1>1, <1>2, ApiUnchanged
<1>5. PICK t2 \in Task :
        /\ Step(t, t2) /\ t2.pod = t.pod /\ Noted(t2) /\ t2.pc # "bind"
        /\ t2.pc = "patch" => ~Pending(lister[t.pod])
  <2>1. CASE ScheduleFails(t)
    <3>1. PICK S \in SUBSET Plugins : Step(t, [t EXCEPT !.pc = "failed", !.plugins = S])
      BY <2>1 DEF ScheduleFails
    <3> DEFINE t2 == [t EXCEPT !.pc = "failed", !.plugins = S]
    <3>2. /\ t2 \in Task /\ t2.pod = t.pod /\ t2.pc = "failed"
          /\ t2.sawMove = t.sawMove /\ t2.sync = t.sync
      BY <1>1 DEF Task
    <3>3. Step(t, t2)
      BY <3>1
    <3> HIDE DEF t2
    <3>4. Noted(t2)
      BY <1>1, <3>2 DEF Noted
    <3> QED
      BY <3>2, <3>3, <3>4
  <2>2. CASE CheckLister(t) /\ Pending(lister[t.pod])
    <3> DEFINE t2 == [t EXCEPT !.pc = "checked"]
    <3>1. /\ t2 \in Task /\ t2.pod = t.pod /\ t2.pc = "checked"
          /\ t2.sawMove = t.sawMove /\ t2.sync = t.sync
      BY <1>1 DEF Task
    <3>2. Step(t, t2)
      BY <2>2 DEF CheckLister
    <3> HIDE DEF t2
    <3>3. Noted(t2)
      BY <1>1, <3>1 DEF Noted
    <3> QED
      BY <3>1, <3>2, <3>3
  <2>3. CASE CheckLister(t) /\ ~Pending(lister[t.pod])
    <3>1. Step(t, Ending(t))
      BY <2>3 DEF CheckLister
    <3> QED
      BY <1>1, <2>3, <3>1, EndingForm
  <2>4. CASE ReadSchedulingCycle(t)
    <3> DEFINE t2 == [t EXCEPT !.pc = "requeue", !.moved = moveRequested]
    <3>1. /\ t2 \in Task /\ t2.pod = t.pod /\ t2.pc = "requeue" /\ t2.moved = moveRequested
          /\ t2.sawMove = t.sawMove /\ t2.sync = t.sync
      BY <1>1 DEF Task
    <3>2. Step(t, t2)
      BY <2>4 DEF ReadSchedulingCycle
    <3> HIDE DEF t2
    <3>3. Noted(t2)
      BY <1>1, <3>1 DEF Noted
    <3> QED
      BY <3>1, <3>2, <3>3
  <2> QED
    BY <2>1, <2>2, <2>3, <2>4
<1> QED
  BY <1>2, <1>3, <1>4, <1>5, AttemptStep

\* The error function queues the pod; it parks it only if no move request was noted.
LEMMA RequeueEffect ==
    ASSUME IInv, NEW t \in tasks, Requeue(t)
    PROVE  /\ QInv' /\ Enqueues(t.pod) /\ moveRequested' = moveRequested
           /\ \A q \in Pods : unschedulableQ[q] = Nil /\ unschedulableQ'[q] # Nil
                                => q = t.pod /\ ~t.moved
<1>1. t \in Task /\ QInv
  BY DEF IInv, TaskInv
<1>2. t.pod \in Pods /\ t.plugins \in SUBSET Plugins /\ t.moved \in BOOLEAN
  BY <1>1, TaskFields
<1>3. [plugins |-> t.plugins, age |-> 0] \in QueuedPodInfo
  BY <1>2 DEF QueuedPodInfo
<1> QED
  BY <1>1, <1>2, <1>3, AddUnschedulableEffect DEF Requeue, AddUnschedulableIfNotPresent

\* Requeue: the attempt ends with the pod in a queue.
LEMMA RequeueStep ==
    ASSUME IInv, NEW t \in tasks, Requeue(t)
    PROVE  IInv'
<1>1. QInv /\ ApiInv /\ TaskInv /\ t \in Task /\ t.pod \in Pods
  BY TaskFields DEF IInv, TaskInv
<1>2. QInv' /\ Enqueues(t.pod) /\ moveRequested' = moveRequested
  BY RequeueEffect
<1>3. Ending(t) \in Task /\ Ending(t).pod = t.pod /\ Ending(t).pc = "patch" /\ Noted(Ending(t))
  BY <1>1, EndingForm
<1>4. ApiInv' /\ UNCHANGED <<lister, seen>>
  BY <1>1, ApiUnchanged DEF Requeue
<1>5. Step(t, Ending(t)) /\ t.pc = "requeue" /\ assumed' = assumed /\ added' = added
  BY DEF Requeue, cacheVars
<1>6. Queued(t.pod)' /\ \A q \in Pods : Queued(q) => Queued(q)'
  BY <1>1, <1>2 DEF Enqueues
<1> QED
  BY <1>2, <1>3, <1>4, <1>5, <1>6, AttemptStep

\* A failed binding: the pod is forgotten and its attempt goes on to the error function.
LEMMA BindFailsStep ==
    ASSUME IInv, NEW t \in tasks, BindFails(t)
    PROVE  IInv'
<1>1. QInv /\ ApiInv /\ t \in Task /\ Noted(t)
  BY DEF IInv, TaskInv, MoveIsNoted, Noted
<1>2. QInv' /\ KeepsQueued
  BY <1>1, QueueUnchanged DEF BindFails
<1>3. ApiInv' /\ UNCHANGED <<lister, seen, moveRequested>>
  BY <1>1, ApiUnchanged DEF BindFails
<1> DEFINE t2 == [t EXCEPT !.pc = "failed"]
<1>4. /\ t2 \in Task /\ t2.pod = t.pod /\ t2.pc = "failed"
      /\ t2.sawMove = t.sawMove /\ t2.sync = t.sync
  BY <1>1 DEF Task
<1>5. Step(t, t2)
  BY DEF BindFails
<1> HIDE DEF t2
<1>6. Noted(t2)
  BY <1>1, <1>4 DEF Noted
<1>7. t.pc = "bind" /\ assumed' = assumed \ {t.pod} /\ added' = added
  BY DEF BindFails
<1> QED
  BY <1>2, <1>3, <1>4, <1>5, <1>6, <1>7, AttemptStep DEF KeepsQueued

\* Assume: the pod is in the cache while its goroutine binds it.
LEMMA AssumeStep ==
    ASSUME IInv, NEW t \in tasks, Assume(t)
    PROVE  IInv'
<1>1. QInv /\ ApiInv /\ t \in Task
  BY DEF IInv, TaskInv
<1>2. PICK S \in SUBSET ToActivate : Activate(S)
  BY DEF Assume
<1>3. S \in SUBSET Pods
  BY <1>2, QueueAssumption
<1>4. QInv' /\ KeepsQueued
  BY <1>1, <1>2, <1>3, ActivateEffect DEF Assume
<1>5. ApiInv' /\ UNCHANGED <<lister, seen, moveRequested>>
  BY <1>1, ApiUnchanged DEF Assume
<1> DEFINE t2 == [t EXCEPT !.pc = "bind", !.sync = FALSE, !.plugins = {}, !.sawMove = FALSE]
<1>6. t2 \in Task /\ t2.pod = t.pod /\ t2.pc = "bind" /\ t2.sawMove = FALSE
  BY <1>1 DEF Task
<1>7. Step(t, t2)
  BY DEF Assume
<1> HIDE DEF t2
<1>8. Noted(t2)
  BY <1>6 DEF Noted
<1>9. t.pc = "schedule" /\ assumed' = assumed \cup {t.pod} /\ added' = added
  BY DEF Assume
<1> QED
  BY <1>4, <1>5, <1>6, <1>7, <1>8, <1>9, AttemptStep DEF KeepsQueued

\* The attempt is over, and the pod may have been written.
LEMMA EndStep ==
    ASSUME IInv, NEW t \in tasks, tasks' = tasks \ {t},
           QInv', ApiInv', KeepsQueued, StaysAssigned,
           UNCHANGED <<seen, moveRequested, assumed, added>>,
           t.pc = "patch" \/ (t.pc = "bind" /\ ~Pending(lister'[t.pod]))
    PROVE  IInv'
<1>1. TaskInv /\ tasks \in SUBSET Task /\ t.pod \in Pods
  BY DEF IInv, TaskInv, Task
<1>2. /\ tasks' \in SUBSET Task
      /\ \A q \in Pods : q # t.pod => /\ InFlight(q)' <=> InFlight(q)
                                      /\ Binding(q)' <=> Binding(q)
      /\ t.pc # "bind" => (Binding(t.pod)' <=> Binding(t.pod))
      /\ t.pc = "patch" => (InFlight(t.pod)' <=> InFlight(t.pod))
  BY <1>1, RemoveEffect
<1>3. MoveIsNoted'
  BY <1>1 DEF TaskInv, MoveIsNoted
<1>4. AssumedIsBinding'
  BY <1>1, <1>2 DEF TaskInv, AssumedIsBinding, StaysAssigned
<1>5. SeenIsHandled'
  BY <1>1, <1>2 DEF TaskInv, SeenIsHandled, StaysAssigned, KeepsQueued
<1> QED
  BY <1>1, <1>2, <1>3, <1>4, <1>5 DEF IInv, TaskInv

\* A binding: the pod is no longer pending, so its attempt may end.
LEMMA BindSucceedsStep ==
    ASSUME IInv, NEW t \in tasks, BindSucceeds(t)
    PROVE  IInv'
<1>1. QInv /\ ApiInv /\ t.pod \in Pods
  BY TaskFields DEF IInv, TaskInv
<1>2. PICK S \in SUBSET ToActivate : Activate(S)
  BY DEF BindSucceeds
<1>3. S \in SUBSET Pods
  BY <1>2, QueueAssumption
<1>4. QInv' /\ KeepsQueued
  BY <1>1, <1>2, <1>3, ActivateEffect DEF BindSucceeds
<1> DEFINE o == [lister[t.pod] EXCEPT !.bound = TRUE]
<1>5. lister[t.pod] \in PodObject
  BY <1>1 DEF ApiInv, Objects, BindSucceeds, Pending
<1>6. o \in Objects /\ ~Pending(o)
  BY <1>5, ObjectForms DEF Objects, Pending
<1>7. Write(t.pod, o)
  BY DEF BindSucceeds
<1> HIDE DEF o
<1>8. ApiInv' /\ seen' = seen /\ ~Pending(lister'[t.pod]) /\ StaysAssigned
  BY <1>1, <1>6, <1>7, WriteEffect DEF StaysAssigned
<1> QED
  BY <1>4, <1>8, EndStep DEF BindSucceeds, cacheVars

\* The patch of the failure's condition writes a pod that is queued already.
LEMMA PatchStep ==
    ASSUME IInv, NEW t \in tasks, PatchFailure(t)
    PROVE  IInv'
<1>1. QInv /\ ApiInv /\ t.pod \in Pods
  BY TaskFields DEF IInv, TaskInv
<1>2. QInv' /\ KeepsQueued
  BY <1>1, QueueUnchanged DEF PatchFailure
<1>3. ApiInv' /\ seen' = seen /\ lister' = lister
  <2>1. CASE UNCHANGED apiVars
    BY <1>1, <2>1, ApiUnchanged
  <2>2. CASE Write(t.pod, lister[t.pod])
    <3>1. lister[t.pod] \in Objects
      BY <1>1 DEF ApiInv
    <3>2. lister' = lister
      BY <1>1, <2>2 DEF Write, ApiInv
    <3> QED
      BY <1>1, <2>2, <3>1, <3>2, WriteEffect
  <2> QED
    BY <2>1, <2>2 DEF PatchFailure
<1> QED
  BY <1>2, <1>3, EndStep DEF PatchFailure, cacheVars, StaysAssigned

\* Every move request, and the operations of the cache that end in one.
LEMMA MoveRequestStep ==
    ASSUME IInv,
           \/ flushUnschedulableQLeftover
           \/ \E p \in Pods : addPodToCache(p) \/ deletePodFromCache(p)
           \/ \E e \in Events : \/ AssignedPodChanged(e)
                                \/ \E S \in SUBSET Unschedulable :
                                      MoveAllToActiveOrBackoffQueue(e, S)
    PROVE  /\ \E S \in SUBSET Unschedulable, plugins \in SUBSET Plugins :
                movePodsToActiveOrBackoffQueue(S, plugins)
           /\ UNCHANGED apiVars
           /\ assumed' = assumed \/ \E p \in Pods : assumed' = assumed \ {p}
           /\ added' \in SUBSET Pods
<1>1. assumed \in SUBSET Pods /\ added \in SUBSET Pods
  BY DEF IInv, TaskInv
<1>2. \A e \in Events : EventPlugins[e] \in SUBSET Plugins
  BY QueueAssumption
<1>3. AssignedPodAdd \in Events /\ AssignedPodDelete \in Events
  BY QueueAssumption
<1>4. CASE flushUnschedulableQLeftover
  BY <1>1, <1>4 DEF flushUnschedulableQLeftover, cacheVars
<1>5. CASE \E p \in Pods : addPodToCache(p)
  BY <1>1, <1>2, <1>3, <1>5 DEF addPodToCache
<1>6. CASE \E p \in Pods : deletePodFromCache(p)
  BY <1>1, <1>2, <1>3, <1>6 DEF deletePodFromCache
<1>7. CASE \E e \in Events : AssignedPodChanged(e)
  BY <1>1, <1>2, <1>7 DEF AssignedPodChanged, cacheVars
<1>8. CASE \E e \in Events : \E S \in SUBSET Unschedulable : MoveAllToActiveOrBackoffQueue(e, S)
  BY <1>1, <1>2, <1>8 DEF MoveAllToActiveOrBackoffQueue, cacheVars
<1> QED
  BY <1>4, <1>5, <1>6, <1>7, <1>8

\* The invariant holds when the scheduler starts.
LEMMA InitInvariant == Init => IInv
<1> SUFFICES ASSUME Init PROVE IInv
  OBVIOUS
<1>1. QInv
  BY DEF Init, QInv, QueueTypes, Disjoint, NoLostWakeup, Infos
<1>2. /\ <<NewPod>> \in Seq(Objects) /\ <<NewPod>> # <<>>
      /\ <<NewPod>>[Len(<<NewPod>>)] = NewPod /\ NewPod \in Objects
  BY ObjectForms DEF Objects
<1>3. ApiInv
  BY <1>2 DEF Init, ApiInv, WatchReachesLister, Objects
<1>4. TaskInv
  BY DEF Init, TaskInv, AssumedIsBinding, SeenIsHandled, MoveIsNoted, Pending
<1> QED
  BY <1>1, <1>3, <1>4 DEF IInv

\* The steps of Next by what they do.
LEMMA NextCases ==
    ASSUME Next
    PROVE  \/ PopWaits \/ flushBackoffQCompleted \/ \E p \in Pods : Age(p)
           \/ \E p \in Pods : \/ Pop(p) \/ Deliver(p) \/ Relist(p) \/ UpdatePod(p) \/ DeletePod(p)
           \/ \E t \in tasks : TaskStep(t)
           \/ flushUnschedulableQLeftover
           \/ \E p \in Pods : addPodToCache(p) \/ deletePodFromCache(p)
           \/ \E e \in Events : \/ AssignedPodChanged(e)
                                \/ \E S \in SUBSET Unschedulable :
                                      MoveAllToActiveOrBackoffQueue(e, S)
  BY Zenon DEF Next

\* Every step keeps the invariant.
LEMMA NextInvariant == IInv /\ [Next]_vars => IInv'
<1> SUFFICES ASSUME IInv, [Next]_vars PROVE IInv'
  OBVIOUS
<1>1. CASE PopWaits \/ flushBackoffQCompleted \/ \E p \in Pods : Age(p)
  BY <1>1, TimerStep
<1>2. CASE \E p \in Pods : Pop(p)
  BY <1>2, PopStep
<1>3. CASE \E p \in Pods : Deliver(p)
  BY <1>3, DeliverStep
<1>4. CASE \E p \in Pods : Relist(p)
  BY <1>4, RelistStep
<1>5. CASE \E p \in Pods : UpdatePod(p) \/ DeletePod(p)
  BY <1>5, UserStep
<1>6. CASE \E t \in tasks : TaskStep(t)
  BY <1>6, TryStep, AssumeStep, BindSucceedsStep, BindFailsStep, RequeueStep, PatchStep
     DEF TaskStep
<1>7. CASE \/ flushUnschedulableQLeftover
           \/ \E p \in Pods : addPodToCache(p) \/ deletePodFromCache(p)
           \/ \E e \in Events : \/ AssignedPodChanged(e)
                                \/ \E S \in SUBSET Unschedulable :
                                      MoveAllToActiveOrBackoffQueue(e, S)
  <2>1. /\ \E S \in SUBSET Unschedulable, plugins \in SUBSET Plugins :
             movePodsToActiveOrBackoffQueue(S, plugins)
        /\ UNCHANGED apiVars
        /\ assumed' \in SUBSET assumed /\ added' \in SUBSET Pods
    BY <1>7, MoveRequestStep
  <2> QED
    BY <2>1, MoveStep
<1>8. CASE UNCHANGED vars
  <2>1. /\ UNCHANGED apiVars /\ UNCHANGED <<queueVars, moveRequested, waiting>>
        /\ UNCHANGED <<tasks, moveRequested, assumed, added>>
    BY <1>8 DEF vars, apiVars, queueVars
  <2>2. QInv /\ ApiInv /\ TaskInv
    BY DEF IInv
  <2>3. QInv' /\ KeepsQueued /\ ApiInv' /\ lister' = lister /\ seen' = seen
        /\ tasks' \in SUBSET Task /\ KeepsTries
    BY <2>1, <2>2, QueueUnchanged, ApiUnchanged, TasksUnchanged
  <2>4. MoveIsNoted'
    BY <2>1, <2>2 DEF TaskInv, MoveIsNoted
  <2> QED
    BY <2>1, <2>2, <2>3, <2>4, QuietStep DEF TaskInv
<1> QED
  BY <1>1, <1>2, <1>3, <1>4, <1>5, <1>6, <1>7, <1>8, NextCases

\* The invariant that the theorems follow from.
LEMMA Invariant == Spec => []IInv
  BY InitInvariant, NextInvariant, PTL DEF Spec

-----------------------------------------------------------------------------
(* The theorems.                                                           *)

\* The queues, the stores and the attempts always have their types, whatever the
\* bounds and however the handlers, timers and goroutines interleave.
THEOREM QueueTypeCorrect == Spec => []TypeOK
<1>1. IInv => TypeOK
  BY DEF IInv, QInv, QueueTypes, ApiInv, TaskInv, TypeOK, Infos, Objects
<1> QED
  BY <1>1, Invariant, PTL

\* No pod is ever in two of activeQ, podBackoffQ and unschedulableQ, so Delete removes
\* it from the queue when it stops at the first one that has it.
THEOREM OneQueueOnly == Spec => []InOneQueue
<1>1. IInv => InOneQueue
  <2> SUFFICES ASSUME IInv, NEW p \in Pods
               PROVE  Cardinality({q \in 1..3 :
                         <<activeQ, podBackoffQ, unschedulableQ>>[q][p] # Nil}) <= 1
    BY DEF InOneQueue
  <2> DEFINE In == {q \in 1..3 : <<activeQ, podBackoffQ, unschedulableQ>>[q][p] # Nil}
  <2>1. \A q \in 1..3 : q \in {1, 2, 3}
    OBVIOUS
  <2>2. /\ 1 \in In <=> activeQ[p] # Nil
        /\ 2 \in In <=> podBackoffQ[p] # Nil
        /\ 3 \in In <=> unschedulableQ[p] # Nil
        /\ In \subseteq {1, 2, 3}
    BY <2>1
  <2> HIDE DEF In
  <2>3. In = {} \/ \E q : In = {q}
    <3>1. \A q1, q2 \in In : q1 = q2
      BY <2>2 DEF IInv, QInv, Disjoint
    <3>2. ASSUME NEW q \in In PROVE In = {q}
      BY <3>1
    <3> QED
      BY <3>2
  <2>4. Cardinality(In) = 0 \/ Cardinality(In) = 1
    BY <2>3, FS_EmptySet, FS_Singleton
  <2>5. Cardinality(In) <= 1
    BY <2>4
  <2> QED
    BY <2>5 DEF In
<1> QED
  BY <1>1, Invariant, PTL

\* Pop never sleeps while activeQ holds a pod: every operation that fills activeQ
\* wakes it.
THEOREM WakeupsReachPop == Spec => []NoLostWakeup
<1>1. IInv => NoLostWakeup
  BY DEF IInv, QInv
<1> QED
  BY <1>1, Invariant, PTL

\* An unassigned pod whose events were all handled is in a queue or has an attempt
\* under way, whatever order handlers, skipped pods and error functions run in.
THEOREM PodsAreNotLost == Spec => []NoPodLost
<1>1. IInv => NoPodLost
  BY DEF IInv, ApiInv, TaskInv, WatchReachesLister, SeenIsHandled, NoPodLost
<1> QED
  BY <1>1, Invariant, PTL

\* A pod is put in unschedulableQ only by an attempt that no move request overtook
\* since its Pop.
THEOREM MovesAreNotMissed == Spec => NoMissedMove
<1> DEFINE parked == \A p \in Pods : unschedulableQ[p] = Nil /\ unschedulableQ'[p] # Nil =>
                        \E t \in tasks \ tasks' : t.pod = p /\ ~t.sawMove
<1>1. IInv /\ [Next]_vars => [parked]_vars
  <2> SUFFICES ASSUME IInv, Next PROVE parked
    OBVIOUS
  <2>1. QInv /\ TaskInv
    BY DEF IInv
  <2>2. ParksNone => parked
    BY DEF ParksNone
  <2>3. CASE PopWaits \/ flushBackoffQCompleted \/ \E p \in Pods : Age(p)
    BY <2>1, <2>2, <2>3, FlushBackoffEffect, AgeEffect, QueueUnchanged
       DEF PopWaits, ParksNone, queueVars
  <2>4. CASE \E p \in Pods : Pop(p)
    BY <2>1, <2>2, <2>4, PopEffect
  <2>5. CASE \E p \in Pods : Deliver(p)
    BY <2>1, <2>2, <2>5, HandlerEffect DEF Deliver
  <2>6. CASE \E p \in Pods : Relist(p) \/ UpdatePod(p) \/ DeletePod(p)
    BY <2>2, <2>6 DEF Relist, UpdatePod, DeletePod, queueVars, ParksNone
  <2>7. CASE \E t \in tasks : TaskStep(t) /\ ~Requeue(t)
    <3>1. PICK t \in tasks : TaskStep(t) /\ ~Requeue(t)
      BY <2>7
    <3>2. CASE Assume(t) \/ BindSucceeds(t)
      <4>1. UNCHANGED moveRequested /\ \E S \in SUBSET Pods : Activate(S)
        BY <3>2, QueueAssumption DEF Assume, BindSucceeds
      <4> QED
        BY <2>1, <2>2, <4>1, ActivateEffect
    <3>3. CASE \/ ScheduleFails(t) \/ BindFails(t) \/ CheckLister(t)
               \/ ReadSchedulingCycle(t) \/ PatchFailure(t)
      <4>1. UNCHANGED queueVars
        BY <3>3 DEF ScheduleFails, BindFails, CheckLister, ReadSchedulingCycle, PatchFailure
      <4> QED
        BY <2>2, <4>1 DEF queueVars, ParksNone
    <3> QED
      BY <3>1, <3>2, <3>3 DEF TaskStep
  <2>8. CASE \E t \in tasks : Requeue(t)
    <3>1. PICK t \in tasks : Requeue(t)
      BY <2>8
    <3>2. \A q \in Pods : unschedulableQ[q] = Nil /\ unschedulableQ'[q] # Nil
                            => q = t.pod /\ ~t.moved
      BY <3>1, RequeueEffect
    <3>3. t \in Task /\ Ending(t).pc = "patch"
      BY <2>1, EndingForm DEF TaskInv
    <3>4. t \notin tasks'
      BY <3>1, <3>3 DEF Requeue, Step
    <3>5. ~t.moved => ~t.sawMove
      BY <2>1, <3>1 DEF TaskInv, MoveIsNoted, Requeue
    <3> QED
      BY <3>2, <3>4, <3>5
  <2>9. CASE \/ flushUnschedulableQLeftover
             \/ \E p \in Pods : addPodToCache(p) \/ deletePodFromCache(p)
             \/ \E e \in Events : \/ AssignedPodChanged(e)
                                  \/ \E S \in SUBSET Unschedulable :
                                        MoveAllToActiveOrBackoffQueue(e, S)
    BY <2>1, <2>2, <2>9, MoveRequestStep, MoveEffect
  <2> QED
    BY <2>3, <2>4, <2>5, <2>6, <2>7, <2>8, <2>9, NextCases
<1> QED
  BY <1>1, Invariant, PTL DEF Spec, NoMissedMove

-----------------------------------------------------------------------------
(* The refinement of PendingPods.                                          *)

\* The three sets of PendingPods.
PendingSet == {p \in Pods : Pending(seen[p])}
QueuedSet == {p \in Pods : Queued(p)}
TryingSet == {p \in Pods : InFlight(p) \/ p \in assumed}

Unseen == UNCHANGED <<PendingSet, QueuedSet, TryingSet>>

\* What the actions of PendingPods say of the three sets.
LEMMA SetActions ==
    /\ Set!Init <=> PendingSet = {} /\ QueuedSet = {} /\ TryingSet = {}
    /\ Set!Next <=>
         \E p \in Pods :
            \/ /\ p \notin PendingSet /\ PendingSet' = PendingSet \cup {p}
               /\ QueuedSet' = QueuedSet \cup {p} /\ TryingSet' = TryingSet
            \/ /\ p \in PendingSet /\ PendingSet' = PendingSet \ {p}
               /\ QueuedSet' = QueuedSet \ {p} /\ TryingSet' = TryingSet
            \/ /\ p \in PendingSet /\ QueuedSet' = QueuedSet \cup {p}
               /\ PendingSet' = PendingSet /\ TryingSet' = TryingSet
            \/ /\ p \in QueuedSet /\ QueuedSet' = QueuedSet \ {p}
               /\ TryingSet' = TryingSet \cup {p} /\ PendingSet' = PendingSet
            \/ /\ p \in TryingSet /\ QueuedSet' = QueuedSet \cup {p}
               /\ TryingSet' \in {TryingSet, TryingSet \ {p}} /\ PendingSet' = PendingSet
            \/ /\ p \in TryingSet /\ TryingSet' = TryingSet \ {p}
               /\ PendingSet' = PendingSet /\ QueuedSet' = QueuedSet
    /\ Unseen <=> UNCHANGED Set!vars
  BY DEF Set!Init, Set!Next, Set!Appear, Set!Vanish, Set!Change, Set!Take, Set!Return, Set!Drop,
         Set!vars, PendingSet, QueuedSet, TryingSet, Unseen

\* What the operations do to the queued pods, as a set.
LEMMA QueuedSets ==
    /\ KeepsQueued => QueuedSet' = QueuedSet
    /\ \A p \in Pods : /\ Enqueues(p) => QueuedSet' = QueuedSet \cup {p}
                       /\ Dequeues(p) => QueuedSet' = QueuedSet \ {p}
  BY DEF KeepsQueued, Enqueues, Dequeues, QueuedSet

\* A step that no one behind the interface sees, or that ends a last attempt.
LEMMA TryingSets ==
    ASSUME NEW p \in Pods, KeepsQueued, seen' = seen,
           \A q \in Pods : q # p => /\ InFlight(q)' <=> InFlight(q)
                                    /\ q \in assumed' <=> q \in assumed,
           p \in TryingSet' => p \in TryingSet
    PROVE  Set!Next \/ UNCHANGED Set!vars
<1>1. PendingSet' = PendingSet /\ QueuedSet' = QueuedSet
  BY QueuedSets DEF PendingSet
<1>2. TryingSet' = TryingSet \/ (p \in TryingSet /\ TryingSet' = TryingSet \ {p})
  BY DEF TryingSet
<1> QED
  BY <1>1, <1>2, SetActions DEF Unseen

\* Steps that move no pod into or out of the queue are invisible.
LEMMA QuietRefines ==
    ASSUME KeepsQueued, KeepsTries, seen' = seen, assumed' = assumed
    PROVE  UNCHANGED Set!vars
<1>1. PendingSet' = PendingSet /\ QueuedSet' = QueuedSet /\ TryingSet' = TryingSet
  BY QueuedSets DEF PendingSet, TryingSet, KeepsTries
<1> QED
  BY <1>1, SetActions DEF Unseen

\* Timers, waiting, relisting and users.
LEMMA SilentRefines ==
    ASSUME IInv, \/ PopWaits \/ flushBackoffQCompleted
                 \/ \E p \in Pods : Age(p) \/ Relist(p) \/ UpdatePod(p) \/ DeletePod(p)
    PROVE  UNCHANGED Set!vars
<1>1. QInv /\ TaskInv
  BY DEF IInv
<1>2. UNCHANGED <<seen, tasks, assumed>>
  BY DEF PopWaits, flushBackoffQCompleted, Age, Relist, UpdatePod, DeletePod, Write, apiVars, cacheVars
<1>3. KeepsQueued
  <2>1. CASE UNCHANGED queueVars
    BY <2>1 DEF queueVars, KeepsQueued, Queued
  <2> QED
    BY <1>1, <2>1, FlushBackoffEffect, AgeEffect
       DEF PopWaits, Relist, UpdatePod, DeletePod
<1> QED
  BY <1>1, <1>2, <1>3, TasksUnchanged, QuietRefines

\* Pop takes a pod from the set.
LEMMA PopRefines ==
    ASSUME IInv, NEW p \in Pods, Pop(p)
    PROVE  Set!Next
<1>1. QInv /\ TaskInv
  BY DEF IInv
<1>2. QueuedSet' = QueuedSet \ {p}
  BY <1>1, PopEffect, QueuedSets
<1>3. p \in QueuedSet
  BY DEF Pop, QueuedSet, Queued
<1>4. TryingSet' = TryingSet \cup {p}
  <2>1. \A q \in Pods : InFlight(q)' <=> (InFlight(q) \/ (q = p /\ p \notin assumed))
    BY <1>1, PopTasks
  <2>2. assumed' = assumed
    BY DEF Pop, cacheVars
  <2> QED
    BY <2>1, <2>2 DEF TryingSet
<1>5. PendingSet' = PendingSet
  BY DEF Pop, apiVars, PendingSet
<1> QED
  BY <1>2, <1>3, <1>4, <1>5, SetActions

\* A delivery is the appearance, change or end of one pod.
LEMMA DeliverRefines ==
    ASSUME IInv, NEW p \in Pods, Deliver(p)
    PROVE  Set!Next \/ UNCHANGED Set!vars
<1>1. QInv /\ ApiInv /\ TaskInv
  BY DEF IInv
<1>2. seen'[p] = Head(watch[p]) /\ \A q \in Pods : q # p => seen'[q] = seen[q]
  BY <1>1, DeliverEffect
<1>3. UNCHANGED <<assumed, tasks>> /\ QueueHandler(p, seen[p], Head(watch[p]))
  BY DEF Deliver, cacheVars
<1>4. TryingSet' = TryingSet
  BY <1>1, <1>3, TasksUnchanged DEF KeepsTries, TryingSet
<1>5. \/ ~Pending(seen[p]) /\ Pending(seen'[p]) /\ QueuedSet' = QueuedSet \cup {p}
      \/ Pending(seen[p]) /\ Pending(seen'[p]) /\ QueuedSet' \in {QueuedSet, QueuedSet \cup {p}}
      \/ Pending(seen[p]) /\ ~Pending(seen'[p]) /\ QueuedSet' = QueuedSet \ {p}
      \/ ~Pending(seen[p]) /\ ~Pending(seen'[p]) /\ QueuedSet' = QueuedSet
  BY <1>1, <1>2, <1>3, HandlerEffect, QueuedSets
<1>6. /\ p \in PendingSet <=> Pending(seen[p])
      /\ PendingSet' = IF Pending(seen'[p]) THEN PendingSet \cup {p} ELSE PendingSet \ {p}
  BY <1>2 DEF PendingSet
<1>7. \/ p \notin PendingSet /\ PendingSet' = PendingSet \cup {p} /\ QueuedSet' = QueuedSet \cup {p}
      \/ p \in PendingSet /\ PendingSet' = PendingSet /\ QueuedSet' = QueuedSet \cup {p}
      \/ p \in PendingSet /\ PendingSet' = PendingSet \ {p} /\ QueuedSet' = QueuedSet \ {p}
      \/ PendingSet' = PendingSet /\ QueuedSet' = QueuedSet
  BY <1>5, <1>6
<1> QED
  BY <1>4, <1>7, SetActions DEF Unseen

\* A move between queues is invisible, but for a pod the cache lets go.
LEMMA MoveRefines ==
    ASSUME IInv,
           \E S \in SUBSET Unschedulable, plugins \in SUBSET Plugins :
                movePodsToActiveOrBackoffQueue(S, plugins),
           UNCHANGED apiVars,
           assumed' = assumed \/ \E p \in Pods : assumed' = assumed \ {p}
    PROVE  Set!Next \/ UNCHANGED Set!vars
<1>1. QInv /\ QueueTypes /\ TaskInv /\ seen' = seen
  BY DEF IInv, QInv, apiVars
<1>2. KeepsQueued /\ KeepsTries
  BY <1>1, MoveEffect, MoveTasks
<1>3. CASE assumed' = assumed
  BY <1>1, <1>2, <1>3, QuietRefines
<1>4. CASE \E p \in Pods : assumed' = assumed \ {p}
  <2>1. PICK p \in Pods : assumed' = assumed \ {p}
    BY <1>4
  <2>2. p \in TryingSet' => p \in TryingSet
    BY <1>2, <2>1 DEF TryingSet, KeepsTries
  <2> QED
    BY <1>1, <1>2, <2>1, <2>2, TryingSets DEF KeepsTries
<1> QED
  BY <1>3, <1>4

\* A step of one attempt, or its end.
TaskChange(t) ==
    \/ tasks' = tasks \ {t}
    \/ \E t2 \in Task : t2.pod = t.pod /\ Step(t, t2)

\* A step of an attempt changes this attempt or ends it.
LEMMA TaskChanges ==
    ASSUME IInv, NEW t \in tasks, TaskStep(t)
    PROVE  TaskChange(t)
<1>1. t \in Task /\ moveRequested \in BOOLEAN
  BY DEF IInv, TaskInv, QInv, QueueTypes
<1>2. CASE BindSucceeds(t) \/ PatchFailure(t)
  BY <1>2 DEF BindSucceeds, PatchFailure, TaskChange
<1>3. CASE ScheduleFails(t)
  <2>1. PICK S \in SUBSET Plugins : Step(t, [t EXCEPT !.pc = "failed", !.plugins = S])
    BY <1>3 DEF ScheduleFails
  <2> DEFINE t2 == [t EXCEPT !.pc = "failed", !.plugins = S]
  <2>2. t2 \in Task /\ t2.pod = t.pod
    BY <1>1 DEF Task
  <2> QED
    BY <2>1, <2>2, Zenon DEF TaskChange
<1>4. CASE Assume(t)
  <2> DEFINE t2 == [t EXCEPT !.pc = "bind", !.sync = FALSE, !.plugins = {}, !.sawMove = FALSE]
  <2>1. t2 \in Task /\ t2.pod = t.pod
    BY <1>1 DEF Task
  <2> QED
    BY <1>4, <2>1, Zenon DEF Assume, TaskChange
<1>5. CASE BindFails(t)
  <2> DEFINE t2 == [t EXCEPT !.pc = "failed"]
  <2>1. t2 \in Task /\ t2.pod = t.pod
    BY <1>1 DEF Task
  <2> QED
    BY <1>5, <2>1, Zenon DEF BindFails, TaskChange
<1>6. CASE CheckLister(t)
  <2> DEFINE t2 == [t EXCEPT !.pc = "checked"]
  <2>1. t2 \in Task /\ t2.pod = t.pod
    BY <1>1 DEF Task
  <2>2. Step(t, t2) \/ Step(t, Ending(t))
    BY <1>6, Zenon DEF CheckLister
  <2> QED
    BY <1>1, <2>1, <2>2, EndingForm, Zenon DEF TaskChange
<1>7. CASE ReadSchedulingCycle(t)
  <2> DEFINE t2 == [t EXCEPT !.pc = "requeue", !.moved = moveRequested]
  <2>1. t2 \in Task /\ t2.pod = t.pod
    BY <1>1 DEF Task
  <2> QED
    BY <1>7, <2>1, Zenon DEF ReadSchedulingCycle, TaskChange
<1>8. CASE Requeue(t)
  BY <1>1, <1>8, EndingForm, Zenon DEF Requeue, TaskChange
<1> QED
  BY <1>2, <1>3, <1>4, <1>5, <1>6, <1>7, <1>8 DEF TaskStep

\* A step of an attempt keeps the pod, gives it back or ends the try.
LEMMA TaskRefines ==
    ASSUME IInv, NEW t \in tasks, TaskStep(t)
    PROVE  Set!Next \/ UNCHANGED Set!vars
<1>1. QInv /\ TaskInv /\ tasks \in SUBSET Task /\ t \in Task /\ t.pod \in Pods
  BY TaskFields DEF IInv, TaskInv
<1>2. \A q \in Pods : q # t.pod => (InFlight(q)' <=> InFlight(q))
  BY <1>1, TaskChanges, StepEffect, RemoveEffect DEF TaskChange
<1>3. \A q \in Pods : q # t.pod => (q \in assumed' <=> q \in assumed)
  BY DEF TaskStep, ScheduleFails, Assume, BindSucceeds, BindFails, CheckLister,
         ReadSchedulingCycle, Requeue, PatchFailure, cacheVars
<1>4. seen' = seen
  BY DEF TaskStep, ScheduleFails, Assume, BindSucceeds, BindFails, CheckLister,
         ReadSchedulingCycle, Requeue, PatchFailure, apiVars, Write
<1>5. t.pod \in TryingSet' => t.pod \in TryingSet
  <2>1. CASE t.pc # "patch"
    BY <1>1, <2>1 DEF TryingSet, InFlight
  <2>2. CASE t.pc = "patch"
    <3>1. tasks' = tasks \ {t} /\ assumed' = assumed
      BY <2>2 DEF TaskStep, ScheduleFails, Assume, BindSucceeds, BindFails, CheckLister,
                  ReadSchedulingCycle, Requeue, PatchFailure, cacheVars
    <3> QED
      BY <1>1, <3>1, RemoveEffect DEF TryingSet
  <2> QED
    BY <2>1, <2>2
<1>6. CASE Requeue(t)
  <2>1. QueuedSet' = QueuedSet \cup {t.pod}
    BY <1>1, <1>6, RequeueEffect, QueuedSets
  <2>2. t.pod \in TryingSet
    BY <1>1, <1>6 DEF Requeue, TryingSet, InFlight
  <2>3. TryingSet' \in {TryingSet, TryingSet \ {t.pod}}
    BY <1>2, <1>3, <2>2 DEF TryingSet
  <2>4. PendingSet' = PendingSet
    BY <1>4 DEF PendingSet
  <2> QED
    BY <1>1, <2>1, <2>2, <2>3, <2>4, SetActions
<1>7. CASE ~Requeue(t)
  <2>1. KeepsQueued
    <3>1. CASE UNCHANGED queueVars
      BY <3>1 DEF queueVars, KeepsQueued, Queued
    <3>2. CASE Assume(t) \/ BindSucceeds(t)
      <4>1. UNCHANGED moveRequested /\ \E S \in SUBSET Pods : Activate(S)
        BY <3>2, QueueAssumption DEF Assume, BindSucceeds
      <4> QED
        BY <1>1, <4>1, ActivateEffect
    <3> QED
      BY <1>7, <3>1, <3>2
         DEF TaskStep, ScheduleFails, BindFails, CheckLister, ReadSchedulingCycle, PatchFailure
  <2> QED
    BY <1>1, <1>2, <1>3, <1>4, <1>5, <2>1, TryingSets
<1> QED
  BY <1>6, <1>7

\* The three queues with their timers, backoff and move requests are the set of pods
\* that the callers of the SchedulingQueue interface are promised.
THEOREM QueueImplementsPendingPods == Spec => ImplementsPendingPods
<1>1. Init => Set!Init
  BY SetActions DEF Init, PendingSet, QueuedSet, TryingSet, Pending, Queued, InFlight
<1>2. IInv /\ [Next]_vars => [Set!Next]_Set!vars
  <2> SUFFICES ASSUME IInv, [Next]_vars PROVE Set!Next \/ UNCHANGED Set!vars
    OBVIOUS
  <2>1. CASE UNCHANGED vars
    BY <2>1, QuietRefines DEF vars, KeepsQueued, KeepsTries, Queued, InFlight, Binding
  <2>2. CASE \/ flushUnschedulableQLeftover
             \/ \E p \in Pods : addPodToCache(p) \/ deletePodFromCache(p)
             \/ \E e \in Events : \/ AssignedPodChanged(e)
                                  \/ \E S \in SUBSET Unschedulable :
                                        MoveAllToActiveOrBackoffQueue(e, S)
    BY <2>2, MoveRequestStep, MoveRefines
  <2> QED
    BY <2>1, <2>2, NextCases, SilentRefines, PopRefines, DeliverRefines, TaskRefines
<1> QED
  BY <1>1, <1>2, Invariant, PTL DEF Spec, ImplementsPendingPods, Set!Spec

=============================================================================
