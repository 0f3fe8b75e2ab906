----------------------------- MODULE PendingPods -----------------------------
(***************************************************************************)
(* What the SchedulingQueue interface promises its callers (interface      *)
(* SchedulingQueue in pkg/scheduler/internal/queue/scheduling_queue.go):   *)
(* a set of pods.  A pod enters it when it appears or changes, or when an  *)
(* attempt to schedule it is over, and leaves it when it is taken or is no *)
(* longer pending.  The three queues, backoff, timers and move requests    *)
(* behind the interface cannot be seen.  HiceScheduler uses this view.     *)
(***************************************************************************)
CONSTANT Pods

VARIABLES
    pending,   \* pods the handlers know to be unassigned
    queued,    \* pods in the queue
    trying     \* pods of the attempts that are under way

vars == <<pending, queued, trying>>

Appear(p) ==
    /\ p \notin pending
    /\ pending' = pending \cup {p}
    /\ queued' = queued \cup {p}
    /\ UNCHANGED trying

\* The pod is deleted or assigned; an attempt to schedule it goes on.
Vanish(p) ==
    /\ p \in pending
    /\ pending' = pending \ {p}
    /\ queued' = queued \ {p}
    /\ UNCHANGED trying

Change(p) ==
    /\ p \in pending
    /\ queued' = queued \cup {p}
    /\ UNCHANGED <<pending, trying>>

Take(p) ==
    /\ p \in queued
    /\ queued' = queued \ {p}
    /\ trying' = trying \cup {p}
    /\ UNCHANGED pending

Return(p) ==
    /\ p \in trying
    /\ queued' = queued \cup {p}
    /\ trying' \in {trying, trying \ {p}}
    /\ UNCHANGED pending

Drop(p) ==
    /\ p \in trying
    /\ trying' = trying \ {p}
    /\ UNCHANGED <<pending, queued>>

Init == pending = {} /\ queued = {} /\ trying = {}

Next ==
    \E p \in Pods :
        Appear(p) \/ Vanish(p) \/ Change(p) \/ Take(p) \/ Return(p) \/ Drop(p)

Spec == Init /\ [][Next]_vars
=============================================================================
