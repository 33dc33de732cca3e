---------------------------- MODULE RemoteWorker -----------------------------
(***************************************************************************)
(* The remote workers: the sessions behind /mcp, and the routes of any     *)
(* other request.  A route neither reads nor changes what the sessions     *)
(* keep, so that a request is routed before the first login and ends the   *)
(* behaviour, instead of being interleaved with them.                      *)
(***************************************************************************)
EXTENDS SessionBinding, WorkerRouting

WorkerInit == Init /\ RouteInit

SessionStep == asked = NotAsked /\ Next /\ UNCHANGED routeVars

AskStep == Init /\ RouteNext /\ UNCHANGED vars

WorkerSpec == WorkerInit /\ [][SessionStep \/ AskStep]_<< vars, routeVars >>
=============================================================================
