--------------------------- MODULE MCRoutingServer --------------------------
(* Two links; three requests to customize, two of which name the same link.*)
EXTENDS RoutingServer, TLC

CONSTANTS q1, q2, bad, c1, c2, c3, a, b

MCLinks == {a, b}
MCOriginal == (a :> 1) @@ (b :> 1)
MCUpdates == (c1 :> (a :> 2)) @@ (c2 :> (a :> 3)) @@ (c3 :> (b :> 2))
OneUpdate == c1 :> (a :> 2)
=============================================================================
