--------------------------- MODULE SchedulingQueue ---------------------------
(***************************************************************************)
(* The scheduler's PriorityQueue                                           *)
(* (pkg/scheduler/internal/queue/scheduling_queue.go) with its callers: the*)
(* handlers of unassigned pods (eventhandlers.go), scheduleOne, its binding*)
(* goroutines and their error function (scheduler.go, factory.go).         *)
(*                                                                         *)
(* Every operation of the queue holds its lock and is one step; the error  *)
(* function is not atomic: it looks the pod up in the lister, reads the    *)
(* scheduling cycle and puts the pod back in three steps, while handlers,  *)
(* timers and other goroutines go on.  The handlers of unassigned and of   *)
(* assigned pods are called from goroutines of their own.                  *)
(*                                                                         *)
(* Time is an age: 0 while a pod backs off, 1 once its backoff is over, 2  *)
(* when it has waited for longer than unschedulableQTimeInterval, which is *)
(* longer than any backoff.  In activeQ the timestamp only serves to order *)
(* the heap, and any pod may be its head.  schedulingCycle and             *)
(* moveRequestCycle only grow and only their comparison matters, so        *)
(* "moveRequested" stands for moveRequestCycle = schedulingCycle.  The copy*)
(* of the pod a QueuedPodInfo holds is not looked at by the queue and left *)
(* out, like metrics, Close, the nominator and attempts (they make backoff *)
(* longer).  That an assumed pod may expire is left to SchedulerCache.     *)
(* Every pod has a name of its own; one that is not bound is deleted       *)
(* without a grace period.                                                 *)
(***************************************************************************)
EXTENDS Integers, Sequences, FiniteSets

CONSTANTS
    Pods,          \* full names of pods, the keys of the three queues
    Nil,
    Plugins,       \* plugins a pod may be found unschedulable by
    Events,        \* cluster events that cause a move request
    AssignedPodAdd, AssignedPodUpdate, AssignedPodDelete,   \* three of them
    EventPlugins,  \* clusterEventMap: event -> plugins it matters to
    Affine,        \* pods with an affinity term that assigned pods match
    ToActivate,    \* pods a plugin may ask to activate
    Changing,      \* pods whose owners update or delete them
    MaxSpec,       \* how often a pod is updated in more than its status
    MaxEvents,     \* events of a pod that wait for the handlers
    MaxTasks       \* attempts that are under way at the same time

ASSUME QueueAssumption ==
    /\ {AssignedPodAdd, AssignedPodUpdate, AssignedPodDelete} \subseteq Events
    /\ EventPlugins \in [Events -> SUBSET Plugins]
    /\ Affine \subseteq Pods /\ ToActivate \subseteq Pods /\ Changing \subseteq Pods
    /\ MaxSpec \in Nat /\ MaxEvents \in Nat \ {0} /\ MaxTasks \in Nat \ {0}

VARIABLES
    lister,          \* the pod informer's store: name -> object, or Nil
    watch,           \* name -> states of the object the handlers have not seen yet
    seen,            \* name -> the last state the handlers have seen
    assumed,         \* pods the cache has assumed
    added,           \* pods the cache was told of as assigned
    activeQ, podBackoffQ, unschedulableQ,    \* name -> QueuedPodInfo, or Nil
    moveRequested,   \* a move request was received in this scheduling cycle
    waiting,         \* Pop waits on the condition variable
    tasks            \* scheduleOne and the goroutines it started

vars == <<lister, watch, seen, assumed, added, activeQ, podBackoffQ, unschedulableQ,
          moveRequested, waiting, tasks>>
cacheVars == <<assumed, added>>
queueVars == <<activeQ, podBackoffQ, unschedulableQ>>
apiVars == <<lister, watch, seen>>

\* What handlers and error function tell apart of a pod: the part isPodUpdated
\* compares and whether it is assigned.  An update of its status is a write that
\* changes neither.
PodObject == [spec : 0..MaxSpec, bound : BOOLEAN]

QueuedPodInfo == [plugins : SUBSET Plugins, age : 0..2]

\* An attempt to schedule a pod.  "sync" is the one of scheduleOne itself, for which
\* sawMove (for the properties) records a move request since its Pop; moved is the
\* outcome of moveRequestCycle >= podSchedulingCycle for the cycle it has read.
Task == [pod : Pods, plugins : SUBSET Plugins, sync : BOOLEAN,
         pc : {"schedule", "bind", "failed", "checked", "requeue", "patch"},
         moved : BOOLEAN, sawMove : BOOLEAN]

\* Nil is none of the values it stands beside.
ASSUME NilAssumption == Nil \notin PodObject \cup QueuedPodInfo

NewPod == [spec |-> 0, bound |-> FALSE]

Pending(o) == o # Nil /\ ~o.bound
Assigned(o) == o # Nil /\ o.bound

Queued(p) == activeQ[p] # Nil \/ podBackoffQ[p] # Nil \/ unschedulableQ[p] # Nil

\* Mutant of newQueuedPodInfo: an empty name for a plugin.
newQueuedPodInfoUnnamed == [plugins |-> {Nil}, age |-> 0]

newQueuedPodInfo == [plugins |-> {}, age |-> 0]

\* In activeQ the age of a pod does not matter.
Active(info) == [info EXCEPT !.age = 0]

-----------------------------------------------------------------------------
(* The operations of the queue.                                            *)

\* Add a pod that is new.  It leaves the other queues if it is there.
Add(p) ==
    /\ activeQ' = [activeQ EXCEPT ![p] = newQueuedPodInfo]
    /\ podBackoffQ' = [podBackoffQ EXCEPT ![p] = Nil]
    /\ unschedulableQ' = [unschedulableQ EXCEPT ![p] = Nil]
    /\ waiting' = FALSE
    /\ UNCHANGED moveRequested

isPodBackingoff(info) == info.age = 0

isPodUpdated(old, new) == old.spec # new.spec

\* Where it is in activeQ or podBackoffQ, the pod is updated in place.  In
\* unschedulableQ, an update of more than its status makes it worth another try.
Update(p, old, new) ==
    LET info == unschedulableQ[p]
    IN  /\ \/ /\ \/ activeQ[p] # Nil \/ podBackoffQ[p] # Nil
                 \/ unschedulableQ[p] # Nil /\ ~isPodUpdated(old, new)
              /\ UNCHANGED <<queueVars, waiting>>
           \/ /\ activeQ[p] = Nil /\ podBackoffQ[p] = Nil
              /\ unschedulableQ[p] # Nil /\ isPodUpdated(old, new)
              /\ unschedulableQ' = [unschedulableQ EXCEPT ![p] = Nil]
              /\ IF isPodBackingoff(info)
                 THEN /\ podBackoffQ' = [podBackoffQ EXCEPT ![p] = info]
                      /\ UNCHANGED <<activeQ, waiting>>
                 ELSE /\ activeQ' = [activeQ EXCEPT ![p] = Active(info)]
                      /\ waiting' = FALSE
                      /\ UNCHANGED podBackoffQ
           \/ /\ ~Queued(p)
              /\ activeQ' = [activeQ EXCEPT ![p] = newQueuedPodInfo]
              /\ waiting' = FALSE
              /\ UNCHANGED <<podBackoffQ, unschedulableQ>>
        /\ UNCHANGED moveRequested

\* It assumes that the pod is in one queue only: the others are not looked at when
\* activeQ has it.
Delete(p) ==
    /\ activeQ' = [activeQ EXCEPT ![p] = Nil]
    /\ IF activeQ[p] # Nil
       THEN UNCHANGED <<podBackoffQ, unschedulableQ>>
       ELSE /\ podBackoffQ' = [podBackoffQ EXCEPT ![p] = Nil]
            /\ unschedulableQ' = [unschedulableQ EXCEPT ![p] = Nil]
    /\ UNCHANGED <<moveRequested, waiting>>

\* Mutant of AddUnschedulableIfNotPresent: activeQ is not looked at.
AddUnlessUnschedulable(p, info, moved) ==
    /\ \/ /\ podBackoffQ[p] # Nil \/ unschedulableQ[p] # Nil
          /\ UNCHANGED <<podBackoffQ, unschedulableQ>>
       \/ /\ podBackoffQ[p] = Nil /\ unschedulableQ[p] = Nil /\ moved
          /\ podBackoffQ' = [podBackoffQ EXCEPT ![p] = info]
          /\ UNCHANGED unschedulableQ
       \/ /\ podBackoffQ[p] = Nil /\ unschedulableQ[p] = Nil /\ ~moved
          /\ unschedulableQ' = [unschedulableQ EXCEPT ![p] = info]
          /\ UNCHANGED podBackoffQ
    /\ UNCHANGED <<activeQ, moveRequested, waiting>>

\* Put a pod that could not be scheduled back, unless it is queued already.
AddUnschedulableIfNotPresent(p, info, moved) ==
    /\ \/ /\ Queued(p)
          /\ UNCHANGED <<podBackoffQ, unschedulableQ>>
       \/ /\ ~Queued(p) /\ moved
          /\ podBackoffQ' = [podBackoffQ EXCEPT ![p] = info]
          /\ UNCHANGED unschedulableQ
       \/ /\ ~Queued(p) /\ ~moved
          /\ unschedulableQ' = [unschedulableQ EXCEPT ![p] = info]
          /\ UNCHANGED podBackoffQ
    /\ UNCHANGED <<activeQ, moveRequested, waiting>>

\* Without the plugins that rejected it, a pod is moved by any event.
Helps(info, plugins) == info.plugins = {} \/ info.plugins \cap plugins # {}

\* Mutant of MoveRequestRecorded: a request that moves nothing is forgotten.
MoveRequestIfMoved(moving) == moveRequested \/ moving # {}

\* moveRequestCycle is set even if nothing was moved.
MoveRequestRecorded(moving) == TRUE

\* Mutant of movePodsToActiveOrBackoffQueue: a pod that backs off is dropped.
moveOnlyToActive(S, plugins) ==
    LET moving  == {p \in S : Helps(unschedulableQ[p], plugins)}
        backing == {p \in moving : isPodBackingoff(unschedulableQ[p])}
    IN  /\ activeQ' = [p \in Pods |->
              IF p \in moving \ backing THEN Active(unschedulableQ[p]) ELSE activeQ[p]]
        /\ unschedulableQ' = [p \in Pods |-> IF p \in moving THEN Nil ELSE unschedulableQ[p]]
        /\ moveRequested' = MoveRequestRecorded(moving)
        /\ waiting' = (waiting /\ moving = {})
        /\ UNCHANGED <<podBackoffQ, tasks>>

\* The pods of S that the event may help go to podBackoffQ or activeQ.
movePodsToActiveOrBackoffQueue(S, plugins) ==
    LET moving  == {p \in S : Helps(unschedulableQ[p], plugins)}
        backing == {p \in moving : isPodBackingoff(unschedulableQ[p])}
    IN  /\ podBackoffQ' = [p \in Pods |->
              IF p \in backing THEN unschedulableQ[p] ELSE podBackoffQ[p]]
        /\ activeQ' = [p \in Pods |->
              IF p \in moving \ backing THEN Active(unschedulableQ[p]) ELSE activeQ[p]]
        /\ unschedulableQ' = [p \in Pods |-> IF p \in moving THEN Nil ELSE unschedulableQ[p]]
        /\ moveRequested' = MoveRequestRecorded(moving)
        /\ tasks' = {[t EXCEPT !.sawMove = t.sync /\ t.pc # "patch",
                               !.moved = @ \/ (t.pc = "requeue" /\ moveRequested')] : t \in tasks}
        /\ waiting' = (waiting /\ moving = {})

Unschedulable == {p \in Pods : unschedulableQ[p] # Nil}

\* Any pod may pass or fail the check of a node event (preCheck).
MoveAllToActiveOrBackoffQueue(e, passing) ==
    /\ passing \subseteq Unschedulable
    /\ movePodsToActiveOrBackoffQueue(passing, EventPlugins[e])
    /\ UNCHANGED <<apiVars, cacheVars>>

\* AssignedPodAdded and AssignedPodUpdated, for a pod that is not in the model.
AssignedPodChanged(e) ==
    /\ e \in {AssignedPodAdd, AssignedPodUpdate}
    /\ movePodsToActiveOrBackoffQueue(Unschedulable \cap Affine, EventPlugins[e])
    /\ UNCHANGED <<apiVars, cacheVars>>

\* Mutant of flushUnschedulableQLeftover: the timeout is not a wildcard event.
flushLeftoverByEvent ==
    LET leftover == {p \in Unschedulable : unschedulableQ[p].age = 2}
    IN  /\ leftover # {}
        /\ movePodsToActiveOrBackoffQueue(leftover, {})
        /\ UNCHANGED <<apiVars, cacheVars>>

\* The timeout is a wildcard event: it helps whatever plugin rejected the pod.
flushUnschedulableQLeftover ==
    LET leftover == {p \in Unschedulable : unschedulableQ[p].age = 2}
    IN  /\ leftover # {}
        /\ movePodsToActiveOrBackoffQueue(leftover, Plugins)
        /\ UNCHANGED <<apiVars, cacheVars>>

\* Mutant of flushBackoffQCompleted: nobody is woken.
flushBackoffQSilently ==
    LET completed == {p \in Pods : podBackoffQ[p] # Nil /\ ~isPodBackingoff(podBackoffQ[p])}
    IN  /\ completed # {}
        /\ activeQ' = [p \in Pods |->
              IF p \in completed THEN Active(podBackoffQ[p]) ELSE activeQ[p]]
        /\ podBackoffQ' = [p \in Pods |-> IF p \in completed THEN Nil ELSE podBackoffQ[p]]
        /\ UNCHANGED <<apiVars, cacheVars, unschedulableQ, moveRequested, waiting, tasks>>

\* The heap is ordered by the end of the backoff, so all that completed it are moved.
flushBackoffQCompleted ==
    LET completed == {p \in Pods : podBackoffQ[p] # Nil /\ ~isPodBackingoff(podBackoffQ[p])}
    IN  /\ completed # {}
        /\ activeQ' = [p \in Pods |->
              IF p \in completed THEN Active(podBackoffQ[p]) ELSE activeQ[p]]
        /\ podBackoffQ' = [p \in Pods |-> IF p \in completed THEN Nil ELSE podBackoffQ[p]]
        /\ waiting' = FALSE
        /\ UNCHANGED <<apiVars, cacheVars, unschedulableQ, moveRequested, tasks>>

\* activate, for every pod of S that is in podBackoffQ or unschedulableQ only.
Activate(S) ==
    LET activated == {p \in S : activeQ[p] = Nil /\ Queued(p)}
        infoOf(p) == IF unschedulableQ[p] # Nil THEN unschedulableQ[p] ELSE podBackoffQ[p]
    IN  /\ activeQ' = [p \in Pods |->
              IF p \in activated THEN Active(infoOf(p)) ELSE activeQ[p]]
        /\ podBackoffQ' = [p \in Pods |-> IF p \in activated THEN Nil ELSE podBackoffQ[p]]
        /\ unschedulableQ' = [p \in Pods |-> IF p \in activated THEN Nil ELSE unschedulableQ[p]]
        /\ waiting' = (waiting /\ activated = {})

\* A pod gets older in podBackoffQ or unschedulableQ.
Age(p) ==
    /\ \/ /\ podBackoffQ[p] # Nil /\ podBackoffQ[p].age = 0
          /\ podBackoffQ' = [podBackoffQ EXCEPT ![p].age = 1]
          /\ UNCHANGED unschedulableQ
       \/ /\ unschedulableQ[p] # Nil /\ unschedulableQ[p].age < 2
          /\ unschedulableQ' = [unschedulableQ EXCEPT ![p].age = @ + 1]
          /\ UNCHANGED podBackoffQ
    /\ UNCHANGED <<apiVars, cacheVars, activeQ, moveRequested, waiting, tasks>>

-----------------------------------------------------------------------------
(* The scheduling cycle and the binding goroutines.                        *)

Idle == \A t \in tasks : ~t.sync

\* Pop finds activeQ empty and waits until it is woken.
PopWaits ==
    /\ Idle /\ ~waiting
    /\ \A p \in Pods : activeQ[p] = Nil
    /\ waiting' = TRUE
    /\ UNCHANGED <<apiVars, cacheVars, queueVars, moveRequested, tasks>>

\* Pop starts a scheduling cycle; skipPodSchedule ends it at once when the pod is
\* assumed.
Pop(p) ==
    /\ Idle /\ ~waiting
    /\ Cardinality(tasks) < MaxTasks
    /\ activeQ[p] # Nil
    /\ activeQ' = [activeQ EXCEPT ![p] = Nil]
    /\ moveRequested' = FALSE
    /\ tasks' = IF p \in assumed
                THEN tasks
                ELSE tasks \cup {[pod |-> p, plugins |-> activeQ[p].plugins, sync |-> TRUE,
                                  pc |-> "schedule", moved |-> FALSE, sawMove |-> FALSE]}
    /\ UNCHANGED <<apiVars, cacheVars, podBackoffQ, unschedulableQ, waiting>>

Step(t, t2) == tasks' = (tasks \ {t}) \cup {t2}

\* The pod fits nowhere, which the plugins of the FitError are blamed for, or the
\* cycle fails by another error: before the pod is assumed the plugins of an earlier
\* attempt stay, and later there are none.
ScheduleFails(t) ==
    /\ t.pc = "schedule"
    /\ \E plugins \in SUBSET Plugins :
          Step(t, [t EXCEPT !.pc = "failed", !.plugins = plugins])
    /\ UNCHANGED <<apiVars, cacheVars, queueVars, moveRequested, waiting>>

\* The pod is assumed, unless the cache has it, pods are activated and the binding
\* goroutine starts with a copy of the QueuedPodInfo, which has no plugins.
Assume(t) ==
    /\ t.pc = "schedule"
    /\ t.pod \notin assumed \cup added
    /\ assumed' = assumed \cup {t.pod}
    /\ Step(t, [t EXCEPT !.pc = "bind", !.sync = FALSE, !.plugins = {}, !.sawMove = FALSE])
    /\ \E S \in SUBSET ToActivate : Activate(S)
    /\ UNCHANGED <<apiVars, added, moveRequested>>

\* A write of the pod, which its handlers will hear of.
Write(p, o) ==
    /\ Len(watch[p]) < MaxEvents
    /\ lister' = [lister EXCEPT ![p] = o]
    /\ watch' = [watch EXCEPT ![p] = Append(@, o)]
    /\ UNCHANGED seen

\* The binding is written to etcd, unless the pod is gone, and pods are activated.
BindSucceeds(t) ==
    /\ t.pc = "bind"
    /\ Pending(lister[t.pod])
    /\ Write(t.pod, [lister[t.pod] EXCEPT !.bound = TRUE])
    /\ tasks' = tasks \ {t}
    /\ \E S \in SUBSET ToActivate : Activate(S)
    /\ UNCHANGED <<cacheVars, moveRequested>>

\* Mutant of BindFails: the pod stays assumed.
BindFailsKeepsPod(t) ==
    /\ t.pc = "bind"
    /\ Step(t, [t EXCEPT !.pc = "failed"])
    /\ UNCHANGED <<apiVars, cacheVars, queueVars, moveRequested, waiting>>

\* The binding fails and the pod is forgotten.
BindFails(t) ==
    /\ t.pc = "bind"
    /\ assumed' = assumed \ {t.pod}
    /\ Step(t, [t EXCEPT !.pc = "failed"])
    /\ UNCHANGED <<apiVars, added, queueVars, moveRequested, waiting>>

\* The attempt has only the condition left to record.
Ending(t) == [t EXCEPT !.pc = "patch", !.plugins = {}, !.moved = FALSE, !.sawMove = FALSE]

\* Mutant of CheckLister: the lister is not asked.
CheckNothing(t) ==
    /\ t.pc = "failed"
    /\ Step(t, [t EXCEPT !.pc = "checked"])
    /\ UNCHANGED <<apiVars, cacheVars, queueVars, moveRequested, waiting>>

\* The error function takes the pod from the lister; one that is gone or assigned
\* is not put back.
CheckLister(t) ==
    /\ t.pc = "failed"
    /\ IF Pending(lister[t.pod])
       THEN Step(t, [t EXCEPT !.pc = "checked"])
       ELSE Step(t, Ending(t))
    /\ UNCHANGED <<apiVars, cacheVars, queueVars, moveRequested, waiting>>

\* It reads the number of the current cycle, not of the one the pod was popped in.
ReadSchedulingCycle(t) ==
    /\ t.pc = "checked"
    /\ Step(t, [t EXCEPT !.pc = "requeue", !.moved = moveRequested])
    /\ UNCHANGED <<apiVars, cacheVars, queueVars, moveRequested, waiting>>

Requeue(t) ==
    /\ t.pc = "requeue"
    /\ AddUnschedulableIfNotPresent(t.pod, [plugins |-> t.plugins, age |-> 0], t.moved)
    /\ Step(t, Ending(t))
    /\ UNCHANGED <<apiVars, cacheVars>>

\* recordSchedulingFailure ends with a patch of the condition, unless it says the same
\* already; the patch may fail.
PatchFailure(t) ==
    /\ t.pc = "patch"
    /\ tasks' = tasks \ {t}
    /\ \/ UNCHANGED apiVars
       \/ lister[t.pod] # Nil /\ Write(t.pod, lister[t.pod])
    /\ UNCHANGED <<cacheVars, queueVars, moveRequested, waiting>>

TaskStep(t) ==
    \/ ScheduleFails(t) \/ Assume(t) \/ BindSucceeds(t) \/ BindFails(t)
    \/ CheckLister(t) \/ ReadSchedulingCycle(t) \/ Requeue(t) \/ PatchFailure(t)

-----------------------------------------------------------------------------
(* Informer events and the users that cause them.                          *)

\* The handlers of unassigned pods.  An update of an assumed pod is bypassed; if it
\* becomes assumed after the check, the outcome is as if it had been before.
QueueHandler(p, old, new) ==
    \/ ~Pending(old) /\ Pending(new) /\ Add(p)
    \/ /\ Pending(old) /\ Pending(new)
       /\ IF p \in assumed
          THEN UNCHANGED <<queueVars, moveRequested, waiting>>
          ELSE Update(p, old, new)
    \/ Pending(old) /\ ~Pending(new) /\ Delete(p)
    \/ ~Pending(old) /\ ~Pending(new) /\ UNCHANGED <<queueVars, moveRequested, waiting>>

\* The handlers of unassigned pods see the next state of the pod.
Deliver(p) ==
    /\ watch[p] # <<>>
    /\ seen' = [seen EXCEPT ![p] = Head(watch[p])]
    /\ watch' = [watch EXCEPT ![p] = Tail(@)]
    /\ QueueHandler(p, seen[p], Head(watch[p]))
    /\ UNCHANGED <<lister, cacheVars, tasks>>

\* addPodToCache: the cache confirms the pod, and pods with a matching term are moved.
addPodToCache(p) ==
    /\ Assigned(lister[p]) /\ p \notin added
    /\ assumed' = assumed \ {p}
    /\ added' = added \cup {p}
    /\ movePodsToActiveOrBackoffQueue(Unschedulable \cap Affine, EventPlugins[AssignedPodAdd])
    /\ UNCHANGED apiVars

\* deletePodFromCache: the pod leaves its node, which may help any other.
deletePodFromCache(p) ==
    /\ lister[p] = Nil /\ p \in added
    /\ added' = added \ {p}
    /\ movePodsToActiveOrBackoffQueue(Unschedulable, EventPlugins[AssignedPodDelete])
    /\ UNCHANGED <<apiVars, assumed>>

\* The watch breaks and the informer lists the pods anew: a state is never seen.
Relist(p) ==
    /\ Len(watch[p]) > 1
    /\ watch' = [watch EXCEPT ![p] = Tail(@)]
    /\ UNCHANGED <<lister, seen, cacheVars, queueVars, moveRequested, waiting, tasks>>

UpdatePod(p) ==
    /\ p \in Changing
    /\ lister[p] # Nil /\ lister[p].spec < MaxSpec
    /\ Write(p, [lister[p] EXCEPT !.spec = @ + 1])
    /\ UNCHANGED <<cacheVars, queueVars, moveRequested, waiting, tasks>>

DeletePod(p) ==
    /\ p \in Changing
    /\ lister[p] # Nil
    /\ Write(p, Nil)
    /\ UNCHANGED <<cacheVars, queueVars, moveRequested, waiting, tasks>>

-----------------------------------------------------------------------------

Init ==
    /\ lister = [p \in Pods |-> NewPod]
    /\ watch = [p \in Pods |-> <<NewPod>>]
    /\ seen = [p \in Pods |-> Nil]
    /\ assumed = {}
    /\ added = {}
    /\ activeQ = [p \in Pods |-> Nil]
    /\ podBackoffQ = [p \in Pods |-> Nil]
    /\ unschedulableQ = [p \in Pods |-> Nil]
    /\ moveRequested = FALSE
    /\ waiting = FALSE
    /\ tasks = {}

Next ==
    \/ PopWaits \/ flushBackoffQCompleted \/ flushUnschedulableQLeftover
    \/ \E p \in Pods : \/ Pop(p) \/ Age(p) \/ Deliver(p) \/ Relist(p)
                       \/ addPodToCache(p) \/ deletePodFromCache(p)
                       \/ UpdatePod(p) \/ DeletePod(p)
    \/ \E t \in tasks : TaskStep(t)
    \/ \E e \in Events : \/ AssignedPodChanged(e)
                         \/ \E S \in SUBSET Unschedulable : MoveAllToActiveOrBackoffQueue(e, S)

Spec == Init /\ [][Next]_vars

\* The timers of Run fire, time passes, the handlers are called, attempts come to an
\* end, and a pod that is in activeQ again and again is its head at last: a pod that
\* fails backs off before it competes again.  Move requests and users are not owed.
Fairness ==
    /\ WF_vars(flushBackoffQCompleted) /\ WF_vars(flushUnschedulableQLeftover)
    /\ \A p \in Pods : /\ SF_vars(Pop(p)) /\ WF_vars(Age(p)) /\ WF_vars(Deliver(p))
                       /\ WF_vars(\E t \in tasks : t.pod = p /\ TaskStep(t))

FairSpec == Spec /\ Fairness

-----------------------------------------------------------------------------
(* Properties.                                                             *)

\* Type correctness of the queues, the informer's stores and the attempts.
TypeOK ==
    /\ lister \in [Pods -> PodObject \cup {Nil}] /\ seen \in [Pods -> PodObject \cup {Nil}]
    /\ watch \in [Pods -> Seq(PodObject \cup {Nil})]
    /\ assumed \subseteq Pods /\ added \subseteq Pods
    /\ \A q \in {activeQ, podBackoffQ, unschedulableQ} : q \in [Pods -> QueuedPodInfo \cup {Nil}]
    /\ moveRequested \in BOOLEAN /\ waiting \in BOOLEAN
    /\ tasks \subseteq Task

\* Delete "assumes the pod is only in one queue", and moving relies on it too: a pod
\* is never in two of activeQ, podBackoffQ and unschedulableQ.
InOneQueue ==
    \A p \in Pods : Cardinality({q \in 1..3 :
        <<activeQ, podBackoffQ, unschedulableQ>>[q][p] # Nil}) <= 1

\* Every addition to activeQ wakes a Pop that waits.
NoLostWakeup == waiting => \A p \in Pods : activeQ[p] = Nil

\* An attempt of the pod that ends in Requeue or in a binding.
InFlight(p) ==
    \E t \in tasks : t.pod = p /\ t.pc # "patch"

\* When the handlers have seen all of a pod that is not assigned, it is in a queue or
\* an attempt is under way that will put it back or bind it: no order of updates,
\* deletions, skipped pods and late error functions loses a pod.
NoPodLost ==
    \A p \in Pods : Pending(lister[p]) /\ watch[p] = <<>> =>
        Queued(p) \/ InFlight(p)

\* scheduling_queue.go: a pod that fails in its scheduling cycle while a move request
\* arrives is put in podBackoffQ and not in unschedulableQ, where it would miss the
\* event.
NoMissedMove ==
    [][ \A p \in Pods : unschedulableQ[p] = Nil /\ unschedulableQ'[p] # Nil =>
          \E t \in tasks \ tasks' : t.pod = p /\ ~t.sawMove ]_vars

\* Whatever queue a pod is in, timers alone bring it to Pop, unless it is deleted.
EventuallyPopped == \A p \in Pods : Queued(p) ~> ~Queued(p)

\* A pod that is deleted or assigned for good leaves the queues for good, although an
\* error function that looked it up before puts it back after its deletion.
GhostsLeave ==
    \A p \in Pods : <>[](~Pending(lister[p])) => <>[](~Queued(p))

-----------------------------------------------------------------------------
(* The three queues implement the set of pods their users see.             *)

Set == INSTANCE PendingPods
          WITH pending <- {p \in Pods : Pending(seen[p])},
               queued <- {p \in Pods : Queued(p)},
               trying <- {p \in Pods : InFlight(p) \/ p \in assumed}

\* Timers, move requests and activations move pods between the three queues without
\* losing one on the way or inventing one; a pod leaves the queues only by Pop or
\* because it is no longer pending, and returns only after a change or an attempt.
ImplementsPendingPods == Set!Spec
=============================================================================
