---------------------------- MODULE MCImageRegistry ----------------------------
(***************************************************************************)
(* Instances of ImageRegistry for TLC.                                     *)
(***************************************************************************)
EXTENDS ImageRegistry

CONSTANTS p1, p2, web, db, gone, amd64, arm64

TwoPods == {p1, p2}
AllImages == {web, db, gone}
AllArchs == {amd64, arm64}

\* Two images of which one has a manifest list; their pods share one of them.
SharedImage == [p \in TwoPods |-> IF p = p1 THEN <<web, db>> ELSE <<db>>]

MCRegistry == [i \in AllImages |->
    IF i = web THEN {amd64, arm64} ELSE IF i = db THEN {} ELSE Nil]
MCKeyword == [i \in AllImages |-> IF i = db THEN arm64 ELSE Nil]

\* No key yet; or an empty list, and an image that is not in the registry, which a pod
\* that was deleted since asked for.
Fresh == [images |-> Nil, unavailable |-> {}]
Leftover == [images |-> <<>>, unavailable |-> {gone}]
FreshOnly == {Fresh}
FreshOrLeftover == {Fresh, Leftover}

ImportedInf(i, a) == [arch |-> a, of |-> i, imported |-> TRUE]
\* The administrator knows better than the keyword: db runs on both architectures.
MCImport == <<[name |-> db, infs |-> {ImportedInf(db, amd64), ImportedInf(db, arm64)}]>>
=============================================================================
