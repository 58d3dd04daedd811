--------------------------- MODULE MCCoordinator ----------------------------
(* Instances of Coordinator for TLC.                                       *)
EXTENDS CoordinatorInv, TLC

CONSTANTS s1, s2, s3

\* Two satellites, the first with two tasks.
OrderPair == <<s1, s2>>
TasksPair == s1 :> 2 @@ s2 :> 1

\* A satellite listed twice, one that cannot parse its batch, and one without
\* tasks.
OrderTwice == <<s1, s2, s1, s3>>
TasksTwice == s1 :> 1 @@ s2 :> 1 @@ s3 :> 0
=============================================================================
