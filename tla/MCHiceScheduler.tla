---------------------------- MODULE MCHiceScheduler ----------------------------
(***************************************************************************)
(* Instances of HiceScheduler for TLC: two pods, one or two nodes.         *)
(* Performance values are in tenths.                                       *)
(***************************************************************************)
EXTENDS HiceScheduler

CONSTANTS p1, p2, n1, n2

MCPods == {p1, p2}
OnePod == {p1}
TwoNodes == {n1, n2}
OneNode == {n1}
AnyArch == [p \in Pods |-> Nodes]
MCAllowedPods == [n \in Nodes |-> 2]

ForPods(a, b) == [p \in MCPods |-> IF p = p1 THEN a ELSE b]
ForNodes(a, b) == [n \in Nodes |-> IF n = n1 THEN a ELSE b]

\* What IEEE 754 double arithmetic makes of the requests and performance values below:
\* 512 * 0.3 / 0.1 is less than 1536, and 512 * 0.3 / 0.2 less than 768.  No other
\* quotient that occurs is an integer that float64 misses.
Float64Falls == {<<512, 3, 1>>, <<512, 3, 2>>}
Float64Exceeds == {}

\* Pods of a reference node of 0.3.  On n1 (0.1) p1 is charged 1535, all that n1 has, and
\* bound with 1536; on n2 (2.0) every conversion is cut off:
\* 76.8 to 76, 16.8 to 16, 37.5 to 37, and there is room for one of the pods.
Containers512 == ForPods(<<200, 200, 112>>, <<250>>)
SmallInit == ForPods(30, 30)
NoOverhead == ForPods(0, 0)
Kb3 == ForPods(3, 3)
SlowFast == ForNodes(1, 20)
SlowFastValues == {1, 20}
RoomForOne == ForNodes(1535, 100)

\* On nodes no faster than the reference node an init container may ask for more than the
\* containers, and a pod may have overhead: p1 is charged 1200 on n1 (0.1) and 600 on n2
\* (0.2), but bound with 850 and 475; p2 is charged 1535 and 767, but bound with 1536 and
\* 768.  n1 has room for both only after p1 is counted as it is bound.
ContainersOver == ForPods(<<250>>, <<200, 200, 112>>)
LargeInit == ForPods(300, 0)
SandboxOverhead == ForPods(100, 0)
SlowSlower == ForNodes(1, 2)
SlowSlowerValues == {1, 2}
RoomAfterwards == ForNodes(2385, 767)

\* Pods of a reference node of 1.0, on a node of 0.5: their requests double.
Containers500 == ForPods(<<250, 250>>, <<500>>)
NoInit == ForPods(0, 0)
Kb10 == ForPods(10, 10)
Slow == [n \in Nodes |-> 5]
SlowValues == {5}
Room1500 == [n \in Nodes |-> 1500]
=============================================================================
