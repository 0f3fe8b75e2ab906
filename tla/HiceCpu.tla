------------------------------- MODULE HiceCpu -------------------------------
(***************************************************************************)
(* CPU requests on nodes of different single-thread performance            *)
(* (plugins/hicev2/hice.go and fit.go).                                    *)
(*                                                                         *)
(* A pod is configured on a reference node of performance kb (label        *)
(* hice.kb); on a node of performance kj (label hice.kj) a request of x    *)
(* milli-CPU becomes int64(x*kb/kj).  A missing or malformed label is 1.0. *)
(* The labels are decimal fractions: kb and kj are their values in a       *)
(* common decimal unit, as integers.                                       *)
(*                                                                         *)
(* The code computes in float64.  Its error is too small to lift a         *)
(* quotient to the next integer, or to take one that is not an integer     *)
(* below the last (as long as x*kb < 2^51), but a quotient that is an      *)
(* integer may come out just below it, and int64() then drops a whole      *)
(* milli-CPU: 512m * 0.3 / 0.1 is 1535m.  FallsShort says for which        *)
(* arguments that happens.                                                 *)
(***************************************************************************)
EXTENDS Integers, Sequences, FiniteSetsExt, Functions

CONSTANTS
    FallsShort,   \* <<x, kb, kj>> whose quotient float64 gives below the integer it is
    Exceeds       \* <<x, kb, kj>> that need exactly the cores they may have, and for
                  \* which float64 gives more

Positive == Nat \ {0}

ASSUME FloatAssumption == FallsShort \subseteq Positive \X Positive \X Positive

Core == 1000         \* one CPU in milli-CPU

\* int64(x * kb / kj) without rounding errors
Quotient(x, kb, kj) == (x * kb) \div kj

\* int64(float64(x) * kb / kj)
Scale(x, kb, kj) == IF <<x, kb, kj>> \in FallsShort THEN (x * kb - 1) \div kj ELSE Quotient(x, kb, kj)

\* Cores that x milli-CPU need, in milli-CPU: math.Ceil(x / 1000.0), mCeil
mCeil(x) == Core * ((x + Core - 1) \div Core)

\* computePodResourceRequest, calculateResource: containers run together, an init
\* container runs alone, and the overhead of the sandbox comes on top.  "containers" is
\* the sequence of their requests and "init" the largest request of an init container
\* (0 if there is none).
ComputePodResourceRequest(containers, init, overhead) ==
    Max({SumFunction(containers), init}) + overhead

\* Filter: the container that asks for most must not need more cores on the node
\* than it needs on the reference node: maxCpuReq/1000/kj*kb > ceil(maxCpuReq/1000)
\* makes the node unschedulable.
PerfSuffices(containers, kb, kj) ==
    LET maxCpuReq == Max({0} \cup Range(containers))
    IN  \/ maxCpuReq * kb < mCeil(maxCpuReq) * kj
        \/ /\ maxCpuReq * kb = mCeil(maxCpuReq) * kj
           /\ <<maxCpuReq, kb, kj>> \notin Exceeds

\* ConvertPodCpu: every container by itself; init containers and the overhead are left
\* alone.
ConvertPodCpu(containers, kb, kj) == [i \in DOMAIN containers |-> Scale(containers[i], kb, kj)]
=============================================================================
