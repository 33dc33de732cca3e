----------------------------- MODULE MCToolCalls -----------------------------
(* Every surface the server composes, with all of its tools. *)
EXTENDS ToolSurface, RemoteCalls

MCOffer == Offers(Surfaces)
==============================================================================
