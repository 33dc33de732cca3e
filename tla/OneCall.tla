-------------------------------- MODULE OneCall --------------------------------
(***************************************************************************)
(* What the writes of a client promise, without attempts on a wire, rate   *)
(* limits, timers or retries: a call asks for one intent, which changes    *)
(* the ERP once at most, however many calls ask for it and whenever they   *)
(* take effect.  A call is told one word, and keeps it: "done" if its      *)
(* intent took effect, "nothing" if the call has had no effect and never   *)
(* will, else "unknown".                                                   *)
(***************************************************************************)
CONSTANTS
  Call,
  Intent,
  Repeatable,   \* the intents that several calls may ask for
  Mark,         \* what tells the changes of one call apart
  None

VARIABLES
  intent,       \* what a call asks for, None before
  may,          \* calls that may still take effect
  changes,      \* changes of the ERP: the call, its mark and the intent
  told          \* what a call was told, "waiting" before

vars == << intent, may, changes, told >>

Word == {"done", "nothing", "unknown"}

Waits(c) == intent[c] # None /\ told[c] = "waiting"

Happened(i) == \E x \in changes : x.key = i

Init ==
  /\ intent = [c \in Call |-> None]
  /\ may = {} /\ changes = {}
  /\ told = [c \in Call |-> "waiting"]

Ask(c, i) ==
  /\ intent[c] = None /\ told[c] = "waiting"
  /\ i \in Repeatable \/ \A d \in Call : intent[d] # i
  /\ intent' = [intent EXCEPT ![c] = i]
  /\ may' = may \cup {c}
  /\ UNCHANGED << changes, told >>

AskAgain(c) ==
  /\ Waits(c)
  /\ may' = may \cup {c}
  /\ UNCHANGED << intent, changes, told >>

Lapse(c) ==
  /\ Waits(c)
  /\ may' = may \ {c}
  /\ UNCHANGED << intent, changes, told >>

\* A call takes effect, told or not, unless its intent did already.
Happen(c) ==
  /\ c \in may
  /\ may' \in {may, may \ {c}}
  /\ IF Happened(intent[c]) THEN UNCHANGED changes
     ELSE \E m \in Mark :
            changes' = changes \cup {[call |-> c, no |-> m, key |-> intent[c]]}
  /\ UNCHANGED << intent, told >>

Tell(c, word) ==
  /\ Waits(c)
  /\ may' \in {may, may \ {c}}
  /\ word = "done" => Happened(intent[c])
  /\ word = "nothing" => c \notin may' /\ \A x \in changes : x.call # c
  /\ told' = [told EXCEPT ![c] = word]
  /\ UNCHANGED << intent, changes >>

Next ==
  \E c \in Call :
    \/ \E i \in Intent : Ask(c, i)
    \/ AskAgain(c) \/ Lapse(c) \/ Happen(c)
    \/ \E word \in Word : Tell(c, word)

Spec == Init /\ [][Next]_vars
================================================================================
