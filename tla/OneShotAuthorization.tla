------------------------ MODULE OneShotAuthorization -------------------------
(***************************************************************************)
(* What one authorization state promises, without leases, clocks, alarms   *)
(* or messages: attempts take turns at holding a backend credential, one   *)
(* at most at a time; one of them may win, after which no other starts;    *)
(* only the winner answers with a code, and only while it holds its        *)
(* credential, which it then keeps.                                        *)
(***************************************************************************)
CONSTANTS Attempt, None

VARIABLES
  holders,   \* attempts that hold a credential or may still be given one
  winner,    \* the attempt the authorization was committed to
  answered   \* attempts that answered with an authorization code

vars == <<holders, winner, answered>>

Init == holders = {} /\ winner = None /\ answered = {}

Acquire(a) ==
  /\ holders = {} /\ winner = None
  /\ holders' = {a}
  /\ UNCHANGED <<winner, answered>>

GiveUp(a) ==
  /\ a \in holders \ answered
  /\ holders' = holders \ {a}
  /\ UNCHANGED <<winner, answered>>

Win(a) ==
  /\ winner = None
  /\ holders \subseteq {a}
  /\ winner' = a
  /\ UNCHANGED <<holders, answered>>

Answer(a) ==
  /\ winner = a
  /\ holders = {a}
  /\ answered = {}
  /\ answered' = {a}
  /\ UNCHANGED <<holders, winner>>

Next == \E a \in Attempt : Acquire(a) \/ GiveUp(a) \/ Win(a) \/ Answer(a)

Spec == Init /\ [][Next]_vars
=============================================================================
