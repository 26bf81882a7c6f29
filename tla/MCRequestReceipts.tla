--------------------------- MODULE MCRequestReceipts ---------------------------
(***************************************************************************)
(* Instances of RequestReceipts: the times at which the ids were issued.   *)
(***************************************************************************)
EXTENDS RequestReceipts, TLC

CONSTANTS c1, c2, id1, id2, p1, p2

TwoClients == {c1, c2}
TwoIds == {id1, id2}
TwoParams == {p1, p2}

\* One id of the present, and one from a client whose clock runs ahead.
OneAhead == (id1 :> 0) @@ (id2 :> 1)

Present == (id1 :> 0) @@ (id2 :> 0)

Symmetric == Permutations(TwoClients) \cup Permutations(TwoParams)
================================================================================
