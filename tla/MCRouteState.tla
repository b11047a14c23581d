---------------------------- MODULE MCRouteState ----------------------------
(* TLC instances of RouteState.                                            *)
EXTENDS RouteState

MCStatuses == {"IN_PROGRESS", "ENDED"}
MCTerminal == {"ENDED"}
MCLive == {"IN_PROGRESS"}

\* Nobody translates the speaker yet, a clone of them does, or text does.
MCRoutes == {[mine |-> "others", text |-> FALSE], [mine |-> "on", text |-> FALSE],
             [mine |-> "off", text |-> TRUE]}

\* Everything, the routes alone, and the status alone, as the repository's tests send them.
MCCarried == {{"routes", "active", "status"}, {"routes"}, {"status"}}
=============================================================================
