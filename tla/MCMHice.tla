------------------------------ MODULE MCMHice ------------------------------
(***************************************************************************)
(* An instance of MHice for TLC: the graph of GenerateServiceGraph, without *)
(* adservice, emailservice and paymentservice (like currencyservice, they  *)
(* are called by one service and call none), and with a pod that is not in *)
(* the graph, 0.  The services are                                         *)
(*   1 cartservice      2 checkoutservice         3 currencyservice        *)
(*   4 frontend         5 productcatalogservice   6 recommendationservice  *)
(*   7 redis-cart       8 shippingservice                                  *)
(***************************************************************************)
EXTENDS MHice

MCVertex == <<1, 2, 3, 4, 5, 6, 7, 8>>

\* Row a, column b: the value of SetAPICall(a, b).
MCEdge == << <<-1, -1, -1, -1,  -1, -1,  1, -1>>,
             << 1, -1,  1, -1,  10, -1, -1,  1>>,
             <<-1, -1, -1, -1,  -1, -1, -1, -1>>,
             << 1,  1, -1, -1, 100,  1, -1,  1>>,
             <<-1, -1, -1, -1,  -1, -1, -1, -1>>,
             <<-1, -1, -1, -1,  10, -1, -1, -1>>,
             <<-1, -1, -1, -1,  -1, -1, -1, -1>>,
             <<-1, -1, -1, -1,  -1, -1, -1, -1>> >>
=============================================================================
