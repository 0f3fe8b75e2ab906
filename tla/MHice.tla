------------------------------- MODULE MHice -------------------------------
(***************************************************************************)
(* The mhice plugin (pkg/scheduler/framework/plugins/mhice/mhice.go), the  *)
(* part that decides when a microservice may be deployed: PreFilter        *)
(* compares the calls between a pod's service and the services that run    *)
(* with the calls of the services that do not.  A rejected pod waits until *)
(* the scheduling queue retries it (module SchedulingQueue); no pod is     *)
(* woken by the deployment of a service it calls.                          *)
(*                                                                         *)
(* A pod is named by its "app" label, as there is one pod of a service.    *)
(* The cycle sees the pods of a snapshot it takes itself, and its pod is   *)
(* in the next one: an attempt is one step.  Filter and Score choose the   *)
(* node and do not matter here.                                            *)
(***************************************************************************)
EXTENDS Integers, SequencesExt

CONSTANTS
    Vertex,      \* the services of the graph, by index
    Strangers,   \* "app" labels that are not in the graph
    Edge         \* Edge[a][b]: kbit of the calls from a to b, -1 if there are none

Services == Range(Vertex)
Apps == Services \cup Strangers

ASSUME GraphAssumption ==
    /\ Edge \in [Services -> [Services -> Int]]
    /\ \A a, b \in Services : Edge[a][b] >= -1
    /\ \A a, b \in Services : Edge[a][b] = -1 \/ Edge[b][a] = -1   \* no mutual calls
    /\ Services \cap Strangers = {}

VARIABLES
    deployed,    \* apps whose pod is on a node of the snapshot
    active,      \* apps whose pod may be popped
    parked,      \* apps whose pod was rejected and waits for the flush
    settled      \* pods are no longer deleted

vars == <<deployed, active, parked, settled>>

-----------------------------------------------------------------------------
(* The gate.                                                               *)

Traffic(a, b) == IF Edge[a][b] = -1 THEN 0 ELSE Edge[a][b]

\* The sum of neighborEdgeWeight(pod): one edge for each neighbour.
neighborEdgeSum(app) ==
    MapThenSumSet(LAMBDA v : IF Edge[v][app] >= 0 THEN Edge[v][app] ELSE Traffic(app, v),
                  Services)

maxNeighborSum ==
    Max({MapThenSumSet(LAMBDA j : Traffic(v, j) + Traffic(j, v), Services) : v \in Services})

\* Mutant of maxEdge: only the calls the pod makes.
maxEdgeCalled(app, running) == Max({-1} \cup {Edge[app][v] : v \in running})

\* The largest edge between the pod and the running services; -1 if there is none.
maxEdge(app, running) ==
    Max({-1} \cup {Edge[app][v] : v \in running} \cup {Edge[v][app] : v \in running})

\* The inner loop over the services i that do not run.  An edge that raises the
\* maximum hides the edge in the other direction.
Scan(running, k, max) ==
    FoldLeft(LAMBDA m, i : IF Edge[k][i] > m THEN Edge[k][i] ELSE Max({m, Edge[i][k]}), max,
             SelectSeq(Vertex, LAMBDA i : i \notin running))

\* The largest edge between a running service and one that does not run; -1 if there
\* is none.  The outer loop ranges over a map in random order: without mutual calls the
\* result does not depend on it.
deployedSvcMaxNeighborEdge(running) ==
    FoldLeft(LAMBDA m, k : Scan(running, k, m), -1,
             SelectSeq(Vertex, LAMBDA k : k \in running))

\* Mutant of PreFilter: any call to or from a running service is enough.
PreFilterAnyCall(app, running) ==
    IF app \in Strangers THEN TRUE
    ELSE maxEdge(app, running) >= 0 \/ neighborEdgeSum(app) = maxNeighborSum

PreFilter(app, running) ==
    \/ app \in Strangers
    \/ /\ app \in Services
       /\ IF maxEdge(app, running) = -1
          THEN neighborEdgeSum(app) = maxNeighborSum
          ELSE maxEdge(app, running) = deployedSvcMaxNeighborEdge(running)

-----------------------------------------------------------------------------

Running == deployed \cap Services

\* The scheduling cycle takes the pod out of the queue ...
Pop(app) ==
    /\ app \in active
    /\ active' = active \ {app}

\* ... and binds it, or puts it aside: "should not schedule until other svc created".
Attempt(app) ==
    /\ Pop(app)
    /\ \/ PreFilter(app, Running) /\ deployed' = deployed \cup {app} /\ UNCHANGED parked
       \/ ~PreFilter(app, Running) /\ parked' = parked \cup {app} /\ UNCHANGED deployed
    /\ UNCHANGED settled

\* External: the queue's timers make a rejected pod active again.
Flush(app) ==
    /\ app \in parked
    /\ parked' = parked \ {app}
    /\ active' = active \cup {app}
    /\ UNCHANGED <<deployed, settled>>

\* External: a pod that is deployed, or being bound, goes away, and its controller
\* creates another one.
Replace(app) ==
    /\ ~settled
    /\ app \in deployed
    /\ deployed' = deployed \ {app}
    /\ active' = active \cup {app}
    /\ UNCHANGED <<parked, settled>>

\* External: from now on pods stay where they are.
Settle ==
    /\ ~settled
    /\ settled' = TRUE
    /\ UNCHANGED <<deployed, active, parked>>

Init ==
    /\ deployed = {}
    /\ active = Apps
    /\ parked = {}
    /\ settled = FALSE

Next == Settle \/ \E app \in Apps : Attempt(app) \/ Flush(app) \/ Replace(app)

Spec == Init /\ [][Next]_vars

\* The queue gives every waiting pod its turn again and again, and the scheduling
\* loop pops for ever.  (Attempt is possible whenever Pop is.)
Fairness == \A app \in Apps : WF_active(Pop(app)) /\ WF_vars(Flush(app))

FairSpec == Spec /\ Fairness

-----------------------------------------------------------------------------
(* Properties.                                                             *)

Call(a, b) == Max({Edge[a][b], Edge[b][a]})

\* Services are deployed along the heaviest calls, as Prim's algorithm would: the first
\* one is a busiest service of the graph, and one that talks to running services has a
\* call, in either direction, that no call between a running and a missing service
\* outweighs.  (Of one that talks to none of them see WaitsForNeighbours.)
HeaviestFirst ==
    [][ \A app \in Services :
          app \in deployed' \ deployed =>
            /\ Running = {} =>
                  \A w \in Services : neighborEdgeSum(app) >= neighborEdgeSum(w)
            /\ (\E v \in Running : Call(app, v) >= 0) =>
                  \E v \in Running : \A u \in Running, w \in Services \ Running :
                      Call(app, v) >= Call(u, w) ]_vars

\* The comments of PreFilter: when services of the graph are deployed, and a pod has no
\* calls to or from any of them, it waits, if the graph is connected.
WaitsForNeighbours ==
    [][ \A app \in Services :
          app \in deployed' \ deployed /\ Running # {} =>
              \E v \in Running : Call(app, v) >= 0 ]_vars

\* The gate never waits for a service that waits for it: once pods are left alone, every
\* service of the graph is deployed, whichever of them were missing at that time and in
\* whatever order the others are retried.
EventuallyDeployed == settled ~> (deployed = Apps)
=============================================================================
