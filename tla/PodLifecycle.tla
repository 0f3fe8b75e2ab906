----------------------------- MODULE PodLifecycle -----------------------------
(***************************************************************************)
(* What the scheduler's cache promises about one pod: the state machine in *)
(* the comment of pkg/scheduler/internal/cache/interface.go, together with *)
(* the node the pod's request is counted on.  "Initial", "Expired" and     *)
(* "Deleted" pods "do not actually exist in cache": all three are Absent.  *)
(***************************************************************************)
CONSTANTS
    Pods,
    Nodes,
    Absent         \* the pod is not in the cache

VARIABLE life      \* pod -> Absent, or its phase and the node it is counted on

Assumed(n) == [phase |-> "assumed", node |-> n]
Added(n)   == [phase |-> "added", node |-> n]

AssumedStates == {Assumed(n) : n \in Nodes}
AddedStates   == {Added(n) : n \in Nodes}

Init == life = [p \in Pods |-> Absent]

Assume(p) ==
    /\ life[p] = Absent
    /\ \E n \in Nodes : life' = [life EXCEPT ![p] = Assumed(n)]

\* Forget, or Expire: only an assumed pod leaves the cache this way.
Drop(p) ==
    /\ life[p] \in AssumedStates
    /\ life' = [life EXCEPT ![p] = Absent]

\* The event confirms an assumed pod, on whichever node it names, or adds a pod
\* that is not in the cache.
Add(p) ==
    /\ life[p] \in AssumedStates \cup {Absent}
    /\ \E n \in Nodes : life' = [life EXCEPT ![p] = Added(n)]

Remove(p) ==
    /\ life[p] \in AddedStates
    /\ life' = [life EXCEPT ![p] = Absent]

\* The process starts again with an empty cache.
Restart == life' = [p \in Pods |-> Absent]

Next == Restart \/ \E p \in Pods : Assume(p) \/ Drop(p) \/ Add(p) \/ Remove(p)

Spec == Init /\ [][Next]_life
=============================================================================
