----------------------------- MODULE RemoteCalls ------------------------------
(***************************************************************************)
(* Tool calls as they come to the workers: on the reviewed hosts the body  *)
(* of the POST that carries a call is read by BoundedBody before the SDK   *)
(* parses it; the other hosts and the local server have no such reader.    *)
(* A host that repeats a call sends the same body again.                   *)
(***************************************************************************)
EXTENDS ToolCalls, BoundedBody

Bounded == offer.mode \in {"openai", "claude"}

RemoteInit == Init /\ BodyInit

ReadBody == Bounded /\ turn = 0 /\ BodyNext /\ UNCHANGED vars

\* fetch hands the request on when its body was rebuilt.
RemoteFirstCall ==
  /\ Bounded => reading = "rebuilt"
  /\ FirstCall
  /\ UNCHANGED bodyVars

AfterwardStep ==
  /\ \/ RepeatCall \/ Served \/ Lost \/ Missing \/ LateEffect
     \/ \E flag \in {"none", "local", "rejected", "unauthenticated", "denied"} :
          Refused(flag)
  /\ UNCHANGED bodyVars

RemoteNext == ReadBody \/ RemoteFirstCall \/ AfterwardStep

RemoteSpec == RemoteInit /\ [][RemoteNext]_<< vars, bodyVars >>
=============================================================================
