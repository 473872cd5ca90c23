--------------------------- MODULE MCSessionStore ---------------------------
(* Model values for the checks of SessionBackends. *)
EXTENDS SessionBackends, TLC

CONSTANTS graphql, grpc, w1, w2, east, west

\* Two policies that sell different amounts of access.
Quotas == (graphql :> 2) @@ (grpc :> 1)
Lives == (graphql :> 1) @@ (grpc :> 2)

\* Two replicas, one of them a second behind the server.
Sites == (w1 :> east) @@ (w2 :> west)
Clocks == (east :> 0) @@ (west :> -1)
=============================================================================
