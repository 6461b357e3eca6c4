------------------------- MODULE MCResourceManager --------------------------
(* The resource manager on small instances: requests behind a global gate  *)
(* and the gates of two providers.                                         *)
EXTENDS ResourceManager, TLC

CONSTANTS r1, r2, r3, r4, r5, global, p1, p2

(* r1 outranks the others. *)
RankOf == [r \in Requests |-> IF r = r1 THEN 0 ELSE 1]

AllToOneProvider == [r \in Requests |-> p1]

AllPaths == [r \in Requests |-> <<global, p1>>]

(* r3 goes to the other provider. *)
ThreeToTwoProviders == [r \in Requests |-> IF r = r3 THEN p2 ELSE p1]

ThreePaths == [r \in Requests |-> <<global, ThreeToTwoProviders[r]>>]

FourAtOnce == [g \in Gates |-> IF g = global THEN 4 ELSE 1]

(* As the application builds them: every gate is as wide as the global one.*)
EqualWidth == [g \in Gates |-> 3]
=============================================================================
