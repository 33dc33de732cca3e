--------------------------- MODULE DailyBriefProofs ---------------------------
(***************************************************************************)
(* A brief that does not call itself partial missed nothing: the argument  *)
(* counts.  A page holds as many different records as the answer says      *)
(* there are only if it holds all that there were at that moment, and what *)
(* is stable was there at every moment.                                    *)
(*                                                                         *)
(* The amounts are sums over finite sets, which the community modules fold *)
(* recursively; the facts about them are by minimal counterexample, since  *)
(* the parts of a finite set are well founded (FiniteSetTheorems).         *)
(***************************************************************************)
EXTENDS DailyBrief, FiniteSetTheorems, TLAPS

\* What a page shows of the records it is a page of: no more than the total, and
\* all that were there throughout when it shows as many as the total.
Counts(page, records) ==
  /\ IsFiniteSet(page.ids) /\ page.ids \subseteq records
  /\ page.total # Unknown => page.total \in Nat /\ Cardinality(page.ids) <= page.total
  /\ Covers(Cardinality(page.ids), page.total) => records \cap stable \subseteq page.ids

ActivitiesOf(c) == { a \in Activity : Owner[a] = c }

\* No activity is left without its client.
Owned(S) == \A a \in S \cap Activity : Owner[a] \in S

RecordsInv ==
  /\ paper \in Papers
  /\ existing \subseteq Record /\ IsFiniteSet(existing)
  /\ stable \subseteq existing
  /\ Owned(existing) /\ Owned(stable)

PagesInv ==
  /\ phase \in {"reading", "inspecting", "done", "failed"}
  /\ DOMAIN pages \subseteq Listed
  /\ \A list \in DOMAIN pages : Counts(pages[list], RecordsOf(list))
  /\ phase \in {"inspecting", "done"} =>
       /\ DOMAIN pages = Listed
       /\ inspected \subseteq pages["clients"].ids

ActivitiesInv ==
  /\ DOMAIN crm \subseteq inspected
  /\ \A c \in DOMAIN crm : Counts(crm[c], ActivitiesOf(c))
  /\ phase = "reading" => DOMAIN crm = {} /\ inspected = {}
  /\ phase = "done" => DOMAIN crm = inspected

BriefInv == RecordsInv /\ PagesInv /\ ActivitiesInv

-----------------------------------------------------------------------------
(* Counting *)

\* A page that the API answers counts what it is a page of.
LEMMA APageCounts ==
  ASSUME NEW records, NEW limit, NEW page \in Page(records \cap existing, limit),
         RecordsInv
  PROVE  Counts(page, records)
  <1> DEFINE there == records \cap existing
  <1>1. IsFiniteSet(there) /\ Cardinality(there) \in Nat
    <2>1. there \in SUBSET existing
      OBVIOUS
    <2>2. IsFiniteSet(there)
      BY <2>1, FS_Subset DEF RecordsInv
    <2>3. QED
      BY <2>2, FS_CardinalityType
  <1>2. page.ids \in SUBSET there
    BY DEF Page
  <1>3. page.total = IF counted THEN Cardinality(there) ELSE Unknown
    BY DEF Page
  <1>4. /\ IsFiniteSet(page.ids)
        /\ Cardinality(page.ids) <= Cardinality(there)
        /\ Cardinality(there) = Cardinality(page.ids) => there = page.ids
    BY <1>1, <1>2, FS_Subset
  <1>5. Cardinality(page.ids) \in Nat
    BY <1>4, FS_CardinalityType
  <1>6. page.total # Unknown => page.total = Cardinality(there)
    BY <1>3
  <1>7. ASSUME Covers(Cardinality(page.ids), page.total)
        PROVE  records \cap stable \subseteq page.ids
    <2> HIDE DEF there
    <2>1. page.total = Cardinality(there) /\ Cardinality(page.ids) >= page.total
      BY <1>6, <1>7 DEF Covers
    <2>2. Cardinality(there) = Cardinality(page.ids)
      BY <2>1, <1>1, <1>4, <1>5
    <2>3. there = page.ids
      BY <2>2, <1>4
    <2>4. records \cap stable \subseteq there
      BY DEF RecordsInv, there
    <2>5. QED
      BY <2>3, <2>4
  <1>8. page.total # Unknown => page.total \in Nat /\ Cardinality(page.ids) <= page.total
    BY <1>1, <1>4, <1>6
  <1>9. QED
    BY <1>2, <1>4, <1>7, <1>8 DEF Counts

\* A page keeps counting while records go: what is stable only shrinks.
LEMMA CountsStay ==
  ASSUME NEW page, NEW records, Counts(page, records), stable' \subseteq stable
  PROVE  /\ IsFiniteSet(page.ids)
         /\ page.total # Unknown => page.total \in Nat /\ Cardinality(page.ids) <= page.total
         /\ Covers(Cardinality(page.ids), page.total) => records \cap stable' \subseteq page.ids
  BY DEF Counts

\* Clients of a page, as many of them as the total: all of the page.
LEMMA AllWereInspected ==
  ASSUME NEW page, NEW records, Counts(page, records), NEW S \in SUBSET page.ids,
         Covers(Cardinality(S), page.total)
  PROVE  S = page.ids /\ Covers(Cardinality(page.ids), page.total)
  <1>1. /\ Cardinality(S) <= Cardinality(page.ids)
        /\ Cardinality(page.ids) = Cardinality(S) => page.ids = S
        /\ IsFiniteSet(S)
    BY FS_Subset DEF Counts
  <1>2. Cardinality(S) \in Nat /\ Cardinality(page.ids) \in Nat
    BY <1>1, FS_CardinalityType DEF Counts
  <1>3. /\ page.total # Unknown /\ page.total \in Nat
        /\ Cardinality(page.ids) <= page.total /\ Cardinality(S) >= page.total
    BY DEF Counts, Covers
  <1>4. Cardinality(page.ids) = Cardinality(S) /\ Cardinality(page.ids) >= page.total
    BY <1>1, <1>2, <1>3
  <1>5. QED
    BY <1>1, <1>3, <1>4 DEF Covers

-----------------------------------------------------------------------------
(* The brief *)

LEMMA BriefInvInit == Init => BriefInv
  <1> SUFFICES ASSUME Init PROVE BriefInv
    OBVIOUS
  <1>1. RecordsInv
    BY BriefAssumption DEF Init, RecordsInv, Owned
  <1>2. DOMAIN pages = {} /\ DOMAIN crm = {} /\ phase = "reading" /\ inspected = {}
    BY DEF Init
  <1>3. QED
    BY <1>1, <1>2 DEF BriefInv, PagesInv, ActivitiesInv

\* Steps of others: the answers stay, and what is stable does not grow.
LEMMA AnswersStay ==
  ASSUME PagesInv, ActivitiesInv, stable' \subseteq stable,
         UNCHANGED << phase, pages, inspected, crm >>
  PROVE  PagesInv' /\ ActivitiesInv'
  <1>1. \A list \in DOMAIN pages : Counts(pages[list], RecordsOf(list))'
    <2> TAKE list \in DOMAIN pages
    <2>1. Counts(pages[list], RecordsOf(list))
      BY DEF PagesInv
    <2>2. QED
      BY <2>1, CountsStay DEF Counts, RecordsOf, Covers
  <1>2. \A c \in DOMAIN crm : Counts(crm[c], ActivitiesOf(c))'
    <2> TAKE c \in DOMAIN crm
    <2>1. Counts(crm[c], ActivitiesOf(c))
      BY DEF ActivitiesInv
    <2>2. QED
      BY <2>1, CountsStay DEF Counts, ActivitiesOf, Covers
  <1>3. QED
    BY <1>1, <1>2 DEF PagesInv, ActivitiesInv
LEMMA CreateKeeps ==
  ASSUME BriefInv, NEW x \in Record, Create(x)
  PROVE  BriefInv'
  <1>1. RecordsInv'
    <2>1. existing' = existing \cup {x} /\ stable' = stable
      BY DEF Create
    <2>2. IsFiniteSet(existing')
      BY <2>1, FS_AddElement DEF BriefInv, RecordsInv
    <2>3. Owned(existing')
      BY <2>1 DEF BriefInv, RecordsInv, Owned, Create
    <2>4. QED
      BY <2>1, <2>2, <2>3 DEF BriefInv, RecordsInv, Owned, Create
  <1>2. PagesInv' /\ ActivitiesInv'
    BY AnswersStay DEF BriefInv, Create
  <1>3. QED
    BY <1>1, <1>2 DEF BriefInv

LEMMA RemoveKeeps ==
  ASSUME BriefInv, NEW x \in Record, Remove(x)
  PROVE  BriefInv'
  <1> DEFINE gone == {x} \cup { a \in Activity : Owner[a] = x }
  <1>1. existing' = existing \ gone /\ stable' = stable \ gone
    BY DEF Remove
  <1>2. RecordsInv'
    <2>1. existing' \in SUBSET existing
      BY <1>1
    <2>2. IsFiniteSet(existing')
      BY <2>1, FS_Subset DEF BriefInv, RecordsInv
    <2>3. ASSUME NEW S, Owned(S) PROVE Owned(S \ gone)
      <3> SUFFICES ASSUME NEW a \in (S \ gone) \cap Activity PROVE Owner[a] \in S \ gone
        BY DEF Owned
      <3>1. Owner[a] \in S /\ Owner[a] # x
        BY <2>3 DEF Owned
      <3>2. CASE Owner[a] \notin Activity
        BY <3>1, <3>2
      <3>3. CASE Owner[a] \in Activity
        \* A client is no activity: its own client would have to be one.
        BY <3>3, BriefAssumption
      <3>4. QED
        BY <3>2, <3>3
    <2>4. QED
      BY <1>1, <2>1, <2>2, <2>3 DEF BriefInv, RecordsInv, Remove
  <1>3. PagesInv' /\ ActivitiesInv'
    BY <1>1, AnswersStay DEF BriefInv, Remove
  <1>4. QED
    BY <1>2, <1>3 DEF BriefInv

LEMMA MoveKeeps ==
  ASSUME BriefInv, NEW i \in Invoice, Move(i)
  PROVE  BriefInv'
  <1>1. RecordsInv'
    BY DEF BriefInv, RecordsInv, Owned, Move
  <1>2. PagesInv' /\ ActivitiesInv'
    BY AnswersStay DEF BriefInv, Move
  <1>3. QED
    BY <1>1, <1>2 DEF BriefInv

LEMMA ReadKeeps ==
  ASSUME BriefInv, NEW list \in Listed, Read(list)
  PROVE  BriefInv'
  <1>1. PICK page \in Page(RecordsOf(list) \cap existing, PageLimit) :
          pages' = [ l \in DOMAIN pages \cup {list} |-> IF l = list THEN page ELSE pages[l] ]
    BY DEF Read
  <1>2. Counts(page, RecordsOf(list))
    BY APageCounts DEF BriefInv
  <1>3. RecordsInv'
    BY DEF BriefInv, RecordsInv, Owned, Read
  <1>4. \A l \in DOMAIN pages' : Counts(pages'[l], RecordsOf(l))
    BY <1>1, <1>2 DEF BriefInv, PagesInv
  <1>5. PagesInv'
    BY <1>1, <1>4 DEF BriefInv, PagesInv, Read, Counts, RecordsOf, Covers
  <1>6. ActivitiesInv'
    BY DEF BriefInv, ActivitiesInv, Read, Counts, ActivitiesOf, Covers
  <1>7. QED
    BY <1>3, <1>5, <1>6 DEF BriefInv

LEMMA ReadFailsKeeps ==
  ASSUME BriefInv, ReadFails
  PROVE  BriefInv'
  <1>1. RecordsInv'
    BY DEF BriefInv, RecordsInv, Owned, ReadFails
  <1>2. DOMAIN pages' = {} /\ DOMAIN crm' = {} /\ phase' = "failed"
    BY DEF ReadFails
  <1>3. PagesInv' /\ ActivitiesInv'
    BY <1>2 DEF PagesInv, ActivitiesInv
  <1>4. QED
    BY <1>1, <1>3 DEF BriefInv

LEMMA ChooseClientsKeeps ==
  ASSUME BriefInv, ChooseClients
  PROVE  BriefInv'
  <1>1. RecordsInv'
    BY DEF BriefInv, RecordsInv, Owned, ChooseClients
  <1>2. PagesInv'
    BY DEF BriefInv, PagesInv, ChooseClients, Counts, RecordsOf, Covers
  <1>3. ActivitiesInv'
    BY DEF BriefInv, ActivitiesInv, ChooseClients
  <1>4. QED
    BY <1>1, <1>2, <1>3 DEF BriefInv

LEMMA ReadActivitiesKeeps ==
  ASSUME BriefInv, NEW c \in Client, ReadActivities(c)
  PROVE  BriefInv'
  <1>1. PICK page \in Page(ActivitiesOf(c) \cap existing, ActivityLimit) :
          crm' = [ d \in DOMAIN crm \cup {c} |-> IF d = c THEN page ELSE crm[d] ]
    <2>1. { a \in Activity \cap existing : Owner[a] = c } = ActivitiesOf(c) \cap existing
      BY DEF ActivitiesOf
    <2>2. QED
      BY <2>1 DEF ReadActivities
  <1>2. Counts(page, ActivitiesOf(c))
    BY APageCounts DEF BriefInv
  <1>3. RecordsInv'
    BY DEF BriefInv, RecordsInv, Owned, ReadActivities
  <1>4. PagesInv'
    BY DEF BriefInv, PagesInv, ReadActivities, Counts, RecordsOf, Covers
  <1>5. \A d \in DOMAIN crm' : Counts(crm'[d], ActivitiesOf(d))
    BY <1>1, <1>2 DEF BriefInv, ActivitiesInv
  <1>6. ActivitiesInv'
    BY <1>1, <1>5 DEF BriefInv, ActivitiesInv, ReadActivities, Counts, ActivitiesOf, Covers
  <1>7. QED
    BY <1>3, <1>4, <1>6 DEF BriefInv

LEMMA ReportKeeps ==
  ASSUME BriefInv, Report
  PROVE  BriefInv'
  <1>1. RecordsInv'
    BY DEF BriefInv, RecordsInv, Owned, Report
  <1>2. PagesInv'
    BY DEF BriefInv, PagesInv, Report, Counts, RecordsOf, Covers
  <1>3. ActivitiesInv'
    BY DEF BriefInv, ActivitiesInv, Report, Counts, ActivitiesOf, Covers
  <1>4. QED
    BY <1>1, <1>2, <1>3 DEF BriefInv

LEMMA BriefInvariant == Spec => []BriefInv
  <1>1. BriefInv /\ [Next]_vars => BriefInv'
    <2> SUFFICES ASSUME BriefInv, [Next]_vars PROVE BriefInv'
      OBVIOUS
    <2>1. CASE ErpChanges
      BY <2>1, CreateKeeps, RemoveKeeps, MoveKeeps DEF ErpChanges
    <2>2. CASE \E list \in Listed : Read(list)
      BY <2>2, ReadKeeps
    <2>3. CASE ReadFails
      BY <2>3, ReadFailsKeeps
    <2>4. CASE ChooseClients
      BY <2>4, ChooseClientsKeeps
    <2>5. CASE \E c \in Client : ReadActivities(c)
      BY <2>5, ReadActivitiesKeeps
    <2>6. CASE Report
      BY <2>6, ReportKeeps
    <2>7. CASE UNCHANGED vars
      <3>1. RecordsInv'
        BY <2>7 DEF vars, BriefInv, RecordsInv, Owned
      <3>2. PagesInv' /\ ActivitiesInv'
        BY <2>7, AnswersStay DEF vars, BriefInv
      <3>3. QED
        BY <3>1, <3>2 DEF BriefInv
    <2>8. QED
      BY <2>1, <2>2, <2>3, <2>4, <2>5, <2>6, <2>7 DEF Next
  <1>2. QED
    BY <1>1, BriefInvInit, PTL DEF Spec

\* generateDailyOperationalBrief: whatever others create, remove or change between
\* its reads, however many records there are and whatever its limits, a brief that
\* does not call itself partial has every record that was there throughout.
THEOREM CompleteBriefsMissNothing == Spec => []CompleteBriefMissesNothing
  <1>1. BriefInv => CompleteBriefMissesNothing
    <2> SUFFICES ASSUME BriefInv, phase = "done", ~IsPartial, NEW x \in stable
                 PROVE  x \in Inspected
      BY DEF CompleteBriefMissesNothing
    <2>1. DOMAIN pages = Listed /\ DOMAIN crm = inspected
      BY DEF BriefInv, PagesInv, ActivitiesInv
    <2>2. \A list \in Listed : RecordsOf(list) \cap stable \subseteq pages[list].ids
      <3> SUFFICES ASSUME NEW list \in Listed
                   PROVE  RecordsOf(list) \cap stable \subseteq pages[list].ids
        OBVIOUS
      <3>1. Covers(Cardinality(pages[list].ids), pages[list].total)
        BY DEF IsPartial
      <3>2. Counts(pages[list], RecordsOf(list))
        BY <2>1 DEF BriefInv, PagesInv
      <3>3. QED
        BY <3>1, <3>2 DEF Counts
    <2>3. CASE x \in Document \cup Client
      <3>1. PICK list \in Listed : x \in RecordsOf(list)
        BY <2>3 DEF Document, Listed, RecordsOf
      <3>2. x \in pages[list].ids
        BY <2>2, <3>1
      <3>3. QED
        BY <3>2 DEF Inspected
    <2>4. CASE x \in Activity
      <3> DEFINE c == Owner[x]
      <3>1. c \in Client /\ c \in stable
        BY <2>4, BriefAssumption DEF BriefInv, RecordsInv, Owned
      <3>2. c \in pages["clients"].ids
        BY <2>2, <3>1 DEF Listed, RecordsOf
      <3>3. inspected = pages["clients"].ids
        <4>1. Counts(pages["clients"], RecordsOf("clients"))
          BY <2>1 DEF BriefInv, PagesInv, Listed
        <4>2. Covers(Cardinality(inspected), pages["clients"].total)
          BY DEF IsPartial
        <4>3. inspected \in SUBSET pages["clients"].ids
          BY DEF BriefInv, PagesInv
        <4>4. QED
          BY <4>1, <4>2, <4>3, AllWereInspected
      <3>4. Covers(Cardinality(crm[c].ids), crm[c].total)
        BY <3>2, <3>3 DEF IsPartial
      <3>5. Counts(crm[c], ActivitiesOf(c))
        BY <2>1, <3>2, <3>3 DEF BriefInv, ActivitiesInv
      <3>6. x \in crm[c].ids
        BY <2>4, <3>4, <3>5 DEF Counts, ActivitiesOf
      <3>7. QED
        BY <3>2, <3>3, <3>6 DEF Inspected
    <2>5. QED
      BY <2>3, <2>4 DEF BriefInv, RecordsInv, Record
  <1>2. QED
    BY <1>1, BriefInvariant, PTL
-----------------------------------------------------------------------------
(* Sums over finite sets *)

\* The element that the folds of the community modules take from a set.
Chosen(s) == CHOOSE x \in s : TRUE

\* g is what SumFunctionOnSet recurs on: the sum of f over every part of S.
IsSum(g, f, S) ==
  g = [ s \in SUBSET S |-> IF s = {} THEN 0 ELSE f[Chosen(s)] + g[s \ {Chosen(s)}] ]

\* It is an element.
LEMMA ChosenIsIn == ASSUME NEW s, s # {} PROVE Chosen(s) \in s
  BY DEF Chosen

\* Induction over finite sets, as a minimal counterexample: among the parts of a
\* finite set that are in T, one has no proper part in T.
LEMMA MinimalPart ==
  ASSUME NEW S, IsFiniteSet(S), NEW T, T \subseteq SUBSET S, T # {}
  PROVE  \E s \in T : \A u \in SUBSET s : u # s => u \notin T
  <1>1. IsWellFoundedOn(StrictSubsetOrdering(S), SUBSET S)
    BY FS_StrictSubsetOrderingWellFounded, FS_FiniteSubsetsOfFinite
  <1>2. PICK s \in T : \A u \in T : ~ (<<u, s>> \in StrictSubsetOrdering(S))
    BY <1>1, WFMin
  <1>3. \A u \in SUBSET s : u # s => u \notin T
    BY <1>2 DEF StrictSubsetOrdering
  <1>4. QED
    BY <1>3

\* Two sums of the same terms agree on every part they both know.
LEMMA SumsAgree ==
  ASSUME NEW S, NEW R, IsFiniteSet(S), R \subseteq S, NEW f, NEW g, NEW h,
         IsSum(g, f, S), IsSum(h, f, R)
  PROVE  \A s \in SUBSET R : g[s] = h[s]
  <1> DEFINE T == { s \in SUBSET R : g[s] # h[s] }
  <1>1. SUFFICES ASSUME T # {} PROVE FALSE
    OBVIOUS
  <1>2. IsFiniteSet(R)
    BY FS_Subset
  <1>3. PICK s \in T : \A u \in SUBSET s : u # s => u \notin T
    <2>1. T \subseteq SUBSET R
      OBVIOUS
    <2> HIDE DEF T
    <2>2. QED
      BY <1>1, <1>2, <2>1, MinimalPart
  <1> DEFINE c == Chosen(s)
             rest == s \ {c}
  <1>4. g[s] = (IF s = {} THEN 0 ELSE f[c] + g[rest])
    <2>1. s \in SUBSET S
      OBVIOUS
    <2> HIDE DEF T
    <2>2. QED
      BY <2>1 DEF IsSum
  <1>5. h[s] = (IF s = {} THEN 0 ELSE f[c] + h[rest])
    <2>1. s \in SUBSET R
      OBVIOUS
    <2> HIDE DEF T
    <2>2. QED
      BY <2>1 DEF IsSum
  <1>6. CASE s = {}
    BY <1>4, <1>5, <1>6
  <1>7. CASE s # {}
    <2>1. rest \in SUBSET s /\ rest # s
      BY <1>7, ChosenIsIn
    <2>2. g[rest] = h[rest]
      BY <1>3, <2>1
    <2>3. QED
      BY <1>4, <1>5, <1>7, <2>2
  <1>8. QED
    BY <1>6, <1>7

\* The recursion of a sum over a finite set is well defined.
LEMMA SumExists ==
  ASSUME NEW S, IsFiniteSet(S), NEW f
  PROVE  \E g : IsSum(g, f, S)
  <1> DEFINE T == { s \in SUBSET S : ~ \E g : IsSum(g, f, s) }
  <1>1. SUFFICES ASSUME T # {} PROVE FALSE
    <2>1. S \notin T => \E g : IsSum(g, f, S)
      OBVIOUS
    <2>2. QED
      BY <2>1
  <1>2. PICK s \in T : \A u \in SUBSET s : u # s => u \notin T
    <2>1. T \subseteq SUBSET S
      OBVIOUS
    <2> HIDE DEF T
    <2>2. QED
      BY <1>1, <2>1, MinimalPart
  <1>3. IsFiniteSet(s) /\ s \in SUBSET S
    BY FS_Subset
  <1> DEFINE G(u) == CHOOSE g : IsSum(g, f, u)
             c == Chosen(s)
             rest == s \ {c}
             V == [ u \in SUBSET s |->
                      IF u # s THEN G(u)[u]
                      ELSE IF s = {} THEN 0 ELSE f[c] + G(rest)[rest] ]
  <1>4. \A u \in SUBSET s : u # s => IsSum(G(u), f, u)
    <2>1. \A u \in SUBSET s : u # s => \E g : IsSum(g, f, u)
      BY <1>2, <1>3
    <2>2. QED
      BY <2>1
  <1>5. ASSUME NEW u \in SUBSET s
        PROVE  V[u] = (IF u = {} THEN 0 ELSE f[Chosen(u)] + V[u \ {Chosen(u)}])
    <2> DEFINE d == Chosen(u)
               less == u \ {d}
    <2>1. CASE u = {}
      <3>1. CASE u = s
        BY <2>1, <3>1
      <3>2. CASE u # s
        <4>1. IsSum(G(u), f, u)
          BY <1>4, <3>2
        <4>2. G(u)[u] = 0
          <5> HIDE DEF G
          <5>1. QED
            BY <2>1, <4>1 DEF IsSum
        <4>3. QED
          BY <2>1, <3>2, <4>2
      <3>3. QED
        BY <3>1, <3>2
    <2>2. CASE u # {}
      <3>1. less \in SUBSET u /\ less # u /\ less # s /\ less \in SUBSET s
        BY <2>2, ChosenIsIn
      <3>2. V[less] = G(less)[less]
        BY <3>1
      <3>3. CASE u = s
        BY <2>2, <3>2, <3>3
      <3>4. CASE u # s
        <4>1. IsSum(G(u), f, u) /\ IsSum(G(less), f, less)
          <5> HIDE DEF G, less, V
          <5>1. QED
            BY <1>4, <3>1, <3>4
        <4>2. G(u)[less] = G(less)[less]
          <5>1. IsFiniteSet(u)
            BY <1>3, FS_Subset
          <5> HIDE DEF G, less, V
          <5>2. QED
            BY <4>1, <5>1, <3>1, SumsAgree
        <4>3. G(u)[u] = f[d] + G(u)[less]
          <5> HIDE DEF G
          <5>1. QED
            BY <4>1, <2>2 DEF IsSum
        <4>4. V[u] = G(u)[u]
          BY <3>4
        <4> HIDE DEF G, V
        <4>5. QED
          BY <2>2, <3>2, <4>2, <4>3, <4>4
      <3>5. QED
        BY <3>3, <3>4
    <2>3. QED
      BY <2>1, <2>2
  <1>6. IsSum(V, f, s)
    <2>1. V = [ u \in SUBSET s |-> V[u] ]
      OBVIOUS
    <2> HIDE DEF V
    <2>2. QED
      BY <1>5, <2>1 DEF IsSum
  <1>7. QED
    BY <1>6

\* g gives every part of S what its members are worth.
Adds(g, f, S) ==
  /\ g \in [SUBSET S -> Int]
  /\ g[{}] = 0
  /\ \A s \in SUBSET S : \A x \in s : g[s] = f[x] + g[s \ {x}]

\* It does not depend on the order in which elements are taken.
LEMMA SumAdds ==
  ASSUME NEW S, IsFiniteSet(S), NEW f, \A x \in S : f[x] \in Int, NEW g, IsSum(g, f, S)
  PROVE  Adds(g, f, S)
  <1>1. \A s \in SUBSET S :
          g[s] = (IF s = {} THEN 0 ELSE f[Chosen(s)] + g[s \ {Chosen(s)}])
    BY DEF IsSum
  <1>2. \A s \in SUBSET S : g[s] \in Int
    <2> DEFINE T == { s \in SUBSET S : g[s] \notin Int }
    <2>1. SUFFICES ASSUME T # {} PROVE FALSE
      OBVIOUS
    <2>2. PICK s \in T : \A u \in SUBSET s : u # s => u \notin T
      <3>1. T \subseteq SUBSET S
        OBVIOUS
      <3> HIDE DEF T
      <3>2. QED
        BY <2>1, <3>1, MinimalPart
    <2> DEFINE c == Chosen(s)
               rest == s \ {c}
    <2>3. CASE s = {}
      BY <1>1, <2>3
    <2>4. CASE s # {}
      <3>1. c \in s /\ rest \in SUBSET s /\ rest # s
        BY <2>4, ChosenIsIn
      <3>2. g[rest] \in Int /\ f[c] \in Int
        BY <2>2, <3>1
      <3>3. g[s] = f[c] + g[rest]
        BY <1>1, <2>4
      <3>4. QED
        BY <3>2, <3>3
    <2>5. QED
      BY <2>3, <2>4
  <1>3. \A s \in SUBSET S : \A x \in s : g[s] = f[x] + g[s \ {x}]
    <2> DEFINE T == { s \in SUBSET S : \E x \in s : g[s] # f[x] + g[s \ {x}] }
    <2>1. SUFFICES ASSUME T # {} PROVE FALSE
      OBVIOUS
    <2>2. PICK s \in T : \A u \in SUBSET s : u # s => u \notin T
      <3>1. T \subseteq SUBSET S
        OBVIOUS
      <3> HIDE DEF T
      <3>2. QED
        BY <2>1, <3>1, MinimalPart
    <2>3. PICK x \in s : g[s] # f[x] + g[s \ {x}]
      OBVIOUS
    <2> DEFINE c == Chosen(s)
               rest == s \ {c}
               other == s \ {x}
               both == rest \ {x}
    <2>4. c \in s
      BY <2>3, ChosenIsIn
    <2>5. g[s] = f[c] + g[rest]
      BY <1>1, <2>3
    <2>6. x # c
      BY <2>3, <2>5
    <2>7. rest \in SUBSET s /\ rest # s /\ other \in SUBSET s /\ other # s
          /\ x \in rest /\ c \in other /\ other \ {c} = both
      BY <2>3, <2>4, <2>6
    <2>8. g[rest] = f[x] + g[both]
      <3>1. \A y \in rest : g[rest] = f[y] + g[rest \ {y}]
        BY <2>2, <2>7
      <3>2. QED
        BY <2>7, <3>1
    <2>9. g[other] = f[c] + g[both]
      <3>1. \A y \in other : g[other] = f[y] + g[other \ {y}]
        BY <2>2, <2>7
      <3>2. g[other] = f[c] + g[other \ {c}]
        BY <2>7, <3>1
      <3> HIDE DEF other, both, rest
      <3>3. QED
        BY <2>7, <3>2
    <2>10. f[x] \in Int /\ f[c] \in Int /\ g[both] \in Int
      BY <1>2, <2>3, <2>4
    <2>11. QED
      <3>1. g[s] # f[x] + g[other]
        BY <2>3
      <3> HIDE DEF rest, other, both, c
      <3>2. QED
        BY <2>5, <2>8, <2>9, <2>10, <3>1
  <1>4. QED
    BY <1>1, <1>2, <1>3 DEF IsSum, Adds

\* A sum looks at its terms only.
LEMMA EqualTermsAgree ==
  ASSUME NEW S, NEW R, NEW f, NEW k, NEW g, NEW h,
         Adds(g, f, S), Adds(h, k, R),
         NEW Q, IsFiniteSet(Q), Q \subseteq S, Q \subseteq R, \A x \in Q : f[x] = k[x]
  PROVE  g[Q] = h[Q]
  <1> DEFINE T == { s \in SUBSET Q : g[s] # h[s] }
  <1>1. SUFFICES ASSUME T # {} PROVE FALSE
    OBVIOUS
  <1>2. PICK s \in T : \A u \in SUBSET s : u # s => u \notin T
    <2>1. T \subseteq SUBSET Q
      OBVIOUS
    <2> HIDE DEF T
    <2>2. QED
      BY <1>1, <2>1, MinimalPart
  <1>3. s \in SUBSET Q /\ s \in SUBSET S /\ s \in SUBSET R /\ g[s] # h[s]
    OBVIOUS
  <1>4. PICK x \in s : TRUE
    BY <1>3 DEF Adds
  <1>5. s \ {x} \in SUBSET s /\ s \ {x} # s
    BY <1>4
  <1>6. g[s \ {x}] = h[s \ {x}]
    BY <1>2, <1>3, <1>5
  <1>7. g[s] = f[x] + g[s \ {x}] /\ h[s] = k[x] + h[s \ {x}] /\ f[x] = k[x]
    <2> HIDE DEF T
    <2>1. QED
      BY <1>3, <1>4 DEF Adds
  <1>8. QED
    BY <1>3, <1>6, <1>7

\* Two disjoint parts add up.
LEMMA DisjointPartsAdd ==
  ASSUME NEW S, NEW f, NEW g, Adds(g, f, S), \A x \in S : f[x] \in Int,
         NEW A \in SUBSET S, NEW B \in SUBSET S, IsFiniteSet(A), A \cap B = {}
  PROVE  g[A \cup B] = g[A] + g[B]
  <1> DEFINE T == { s \in SUBSET A : g[s \cup B] # g[s] + g[B] }
  <1>1. SUFFICES ASSUME T # {} PROVE FALSE
    OBVIOUS
  <1>2. PICK s \in T : \A u \in SUBSET s : u # s => u \notin T
    <2>1. T \subseteq SUBSET A
      OBVIOUS
    <2> HIDE DEF T
    <2>2. QED
      BY <1>1, <2>1, MinimalPart
  <1>3. s \in SUBSET A /\ s \in SUBSET S /\ s \cup B \in SUBSET S /\ g[s \cup B] # g[s] + g[B]
    OBVIOUS
  <1>4. g[B] \in Int
    BY DEF Adds
  <1>5. ASSUME s = {} PROVE FALSE
    <2>1. g[s] = 0
      BY <1>5 DEF Adds
    <2>2. s \cup B = B
      BY <1>5
    <2>3. g[s \cup B] # g[s] + g[B]
      BY <1>3
    <2> HIDE DEF T
    <2>4. g[s \cup B] = g[B]
      BY <2>2, Zenon
    <2>5. QED
      BY <1>4, <2>1, <2>3, <2>4
  <1>6. PICK x \in s : TRUE
    BY <1>5
  <1> DEFINE rest == s \ {x}
             more == rest \cup B
  <1>7. rest \in SUBSET s /\ rest # s /\ rest \in SUBSET A /\ rest \in SUBSET S
    BY <1>3, <1>6
  <1>8. g[more] = g[rest] + g[B]
    BY <1>2, <1>7
  <1>9. more = (s \cup B) \ {x}
    BY <1>3, <1>6
  <1> HIDE DEF T, rest, more
  <1>10. g[s] = f[x] + g[rest]
    BY <1>3, <1>6 DEF Adds, rest
  <1>11. g[s \cup B] = f[x] + g[more]
    BY <1>3, <1>6, <1>9 DEF Adds
  <1>12. g[rest] \in Int /\ f[x] \in Int
    BY <1>3, <1>6, <1>7 DEF Adds
  <1>13. QED
    BY <1>3, <1>4, <1>8, <1>10, <1>11, <1>12

\* A sum of naturals is one, and 0 only if every term is.
LEMMA NoNegativeTerm ==
  ASSUME NEW S, NEW f, NEW g, Adds(g, f, S), \A x \in S : f[x] \in Nat,
         NEW Q, Q \subseteq S, IsFiniteSet(Q)
  PROVE  /\ g[Q] \in Nat
         /\ g[Q] = 0 => \A x \in Q : f[x] = 0
  <1>1. \A s \in SUBSET Q : g[s] \in Nat
    <2> DEFINE T == { s \in SUBSET Q : g[s] \notin Nat }
    <2>1. SUFFICES ASSUME T # {} PROVE FALSE
      OBVIOUS
    <2>2. PICK s \in T : \A u \in SUBSET s : u # s => u \notin T
      <3>1. T \subseteq SUBSET Q
        OBVIOUS
      <3> HIDE DEF T
      <3>2. QED
        BY <2>1, <3>1, MinimalPart
    <2>3. s \in SUBSET Q /\ s \in SUBSET S /\ g[s] \notin Nat
      OBVIOUS
    <2>4. PICK x \in s : TRUE
      <3>1. g[{}] = 0
        BY DEF Adds
      <3>2. s # {}
        BY <2>3, <3>1
      <3>3. QED
        BY <3>2
    <2>5. g[s \ {x}] \in Nat
      BY <2>2, <2>3, <2>4
    <2> HIDE DEF T
    <2>6. g[s] = f[x] + g[s \ {x}] /\ f[x] \in Nat
      BY <2>3, <2>4 DEF Adds
    <2>7. QED
      BY <2>3, <2>5, <2>6
  <1>2. ASSUME g[Q] = 0, NEW x \in Q PROVE f[x] = 0
    <2>1. g[Q] = f[x] + g[Q \ {x}] /\ f[x] \in Nat
      BY DEF Adds
    <2>2. g[Q \ {x}] \in Nat
      BY <1>1
    <2>3. QED
      BY <1>2, <2>1, <2>2
  <1>3. QED
    BY <1>1, <1>2

\* A finite set of integers has a least element.
LEMMA LeastExists ==
  ASSUME NEW S, IsFiniteSet(S), S # {}, S \subseteq Int
  PROVE  \E m \in S : \A q \in S : m <= q
  <1> DEFINE T == { s \in SUBSET S : s # {} /\ ~ \E m \in s : \A q \in s : m <= q }
  <1>1. SUFFICES ASSUME T # {} PROVE FALSE
    OBVIOUS
  <1>2. PICK s \in T : \A u \in SUBSET s : u # s => u \notin T
    <2>1. T \subseteq SUBSET S
      OBVIOUS
    <2> HIDE DEF T
    <2>2. QED
      BY <1>1, <2>1, MinimalPart
  <1>3. PICK x \in s : TRUE
    OBVIOUS
  <1>4. s \ {x} # {}
    BY <1>3
  <1>5. PICK m \in s \ {x} : \A q \in s \ {x} : m <= q
    BY <1>2, <1>3, <1>4
  <1>6. CASE m <= x
    BY <1>5, <1>6
  <1>7. CASE ~ (m <= x)
    <2>1. \A q \in s : x <= q
      BY <1>5, <1>7
    <2>2. QED
      BY <1>3, <2>1
  <1>8. QED
    BY <1>6, <1>7

\* What rounding to the cent leaves of a hundredth of x * y.
LEMMA RoundingIsClose ==
  ASSUME NEW x \in Int, NEW rate \in Int
  PROVE  /\ Percent(x, rate) \in Int
         /\ x * rate - 100 * Percent(x, rate) \in -50..50
  <1> DEFINE y == x * rate
  <1>1. y \in Int
    OBVIOUS
  <1>2. Percent(x, rate) = (2 * y + 100) \div 200
    BY DEF Percent, Rounded
  <1> HIDE DEF y
  <1>3. (2 * y + 100) \div 200 \in Int
    BY <1>1
  <1>4. y - 100 * ((2 * y + 100) \div 200) \in -50..50
    BY <1>1
  <1>5. QED
    BY <1>2, <1>3, <1>4 DEF y

\* Parts that are each within half a cent of their share stay, together, within
\* half a cent for each.
LEMMA SharesStayClose ==
  ASSUME NEW S, NEW share, NEW base, NEW g, NEW h, NEW k \in Int,
         Adds(g, share, S), Adds(h, base, S),
         \A r \in S : /\ share[r] \in Int /\ base[r] \in Int
                      /\ 100 * share[r] - base[r] * k \in -50..50,
         NEW Q, IsFiniteSet(Q), Q \subseteq S
  PROVE  100 * g[Q] - h[Q] * k \in -(50 * Cardinality(Q))..(50 * Cardinality(Q))
  <1> DEFINE Close(s) == 100 * g[s] - h[s] * k \in -(50 * Cardinality(s))..(50 * Cardinality(s))
             T == { s \in SUBSET Q : ~Close(s) }
  <1>1. SUFFICES ASSUME T # {} PROVE FALSE
    OBVIOUS
  <1>2. PICK s \in T : \A u \in SUBSET s : u # s => u \notin T
    <2>1. T \subseteq SUBSET Q
      OBVIOUS
    <2> HIDE DEF T
    <2>2. QED
      BY <1>1, <2>1, MinimalPart
  <1>3. s \in SUBSET Q /\ s \in SUBSET S /\ ~Close(s)
    OBVIOUS
  <1>4. s # {}
    <2>1. Close({})
      BY FS_EmptySet DEF Adds
    <2>2. QED
      BY <1>3, <2>1
  <1>5. PICK x \in s : TRUE
    BY <1>4
  <1> DEFINE rest == s \ {x}
             n == Cardinality(rest)
  <1>6. Close(rest)
    BY <1>2, <1>3, <1>5
  <1>7. n \in Nat /\ Cardinality(s) = n + 1
    <2>1. IsFiniteSet(s) /\ IsFiniteSet(rest)
      BY <1>3, FS_Subset
    <2>2. n \in Nat /\ Cardinality(s) \in Nat /\ Cardinality(rest) = Cardinality(s) - 1
      BY <1>5, <2>1, FS_RemoveElement, FS_CardinalityType
    <2>3. QED
      BY <2>2
  <1>8. /\ g[s] = share[x] + g[rest]
        /\ h[s] = base[x] + h[rest]
    <2> HIDE DEF T
    <2>1. QED
      BY <1>3, <1>5 DEF Adds
  <1>9. share[x] \in Int /\ base[x] \in Int /\ g[rest] \in Int /\ h[rest] \in Int
    BY <1>3, <1>5 DEF Adds
  <1>10. 100 * share[x] - base[x] * k \in -50..50
    BY <1>3, <1>5
  <1>11. Close(s)
    <2> DEFINE a == share[x]
               b == base[x]
               p == g[rest]
               q == h[rest]
    <2>1. (b + q) * k = b * k + q * k
      BY <1>9
    <2>2. 100 * p - q * k \in -(50 * n)..(50 * n)
      BY <1>6
    <2>3. 100 * (a + p) - (b + q) * k \in -(50 * (n + 1))..(50 * (n + 1))
      <3> DEFINE bk == b * k
                 qk == q * k
      <3>1. bk \in Int /\ qk \in Int /\ a \in Int /\ p \in Int
        BY <1>9
      <3>2. 100 * a - bk \in -50..50 /\ 100 * p - qk \in -(50 * n)..(50 * n)
        BY <1>10, <2>2
      <3> HIDE DEF a, b, p, q, n, bk, qk
      <3>3. 100 * (a + p) - (bk + qk) \in -(50 * (n + 1))..(50 * (n + 1))
        BY <1>7, <3>1, <3>2
      <3>4. QED
        BY <2>1, <3>3 DEF bk, qk
    <2>4. QED
      BY <1>7, <1>8, <2>3
  <1>12. QED
    BY <1>3, <1>11

\* SumFunctionOnSet of a finite set adds up its terms.
LEMMA SumOnSet ==
  ASSUME NEW S, IsFiniteSet(S), NEW f, \A x \in S : f[x] \in Int
  PROVE  \E g : Adds(g, f, S) /\ SumFunctionOnSet(f, S) = g[S]
  <1>1. \E g : IsSum(g, f, S)
    BY SumExists
  <1>2. PICK g : IsSum(g, f, S) /\ SumFunctionOnSet(f, S) = g[S]
    BY <1>1 DEF SumFunctionOnSet, FoldFunctionOnSet, MapThenFoldSet, IsSum, Chosen
  <1>3. Adds(g, f, S)
    BY <1>2, SumAdds
  <1>4. QED
    BY <1>2, <1>3

\* One function tells every part of a finite set what its terms add up to.
LEMMA SumOnParts ==
  ASSUME NEW S, IsFiniteSet(S), NEW f, \A x \in S : f[x] \in Int
  PROVE  \E g : /\ Adds(g, f, S)
                /\ \A Q \in SUBSET S : SumFunctionOnSet(f, Q) = g[Q]
  <1>1. PICK g : Adds(g, f, S)
    BY SumOnSet
  <1>2. ASSUME NEW Q \in SUBSET S PROVE SumFunctionOnSet(f, Q) = g[Q]
    <2>1. IsFiniteSet(Q)
      BY FS_Subset
    <2>2. PICK h : Adds(h, f, Q) /\ SumFunctionOnSet(f, Q) = h[Q]
      BY <2>1, SumOnSet
    <2>3. g[Q] = h[Q]
      BY <1>1, <2>1, <2>2, EqualTermsAgree
    <2>4. QED
      BY <2>2, <2>3
  <1>3. QED
    BY <1>1, <1>2

\* What is added up class by class is what is added up.
LEMMA ClassesAddUp ==
  ASSUME NEW S, IsFiniteSet(S), NEW f, \A x \in S : f[x] \in Int, NEW g, Adds(g, f, S),
         NEW R, IsFiniteSet(R), NEW e \in [S -> R], NEW b, NEW h, Adds(h, b, R),
         \A r \in R : b[r] = g[{ x \in S : e[x] = r }]
  PROVE  h[R] = g[S]
  <1> DEFINE Of(Q) == { x \in S : e[x] \in Q }
             T == { Q \in SUBSET R : h[Q] # g[Of(Q)] }
  <1>1. Of(R) = S
    OBVIOUS
  <1>2. SUFFICES ASSUME T # {} PROVE FALSE
    <2>1. R \notin T
      BY <1>2
    <2>2. h[R] = g[Of(R)]
      BY <2>1
    <2> HIDE DEF Of, T
    <2>3. QED
      BY <1>1, <2>2
  <1>3. PICK Q \in T : \A u \in SUBSET Q : u # Q => u \notin T
    <2>1. T \subseteq SUBSET R
      OBVIOUS
    <2> HIDE DEF T
    <2>2. QED
      BY <1>2, <2>1, MinimalPart
  <1>4. Q \in SUBSET R /\ h[Q] # g[Of(Q)]
    OBVIOUS
  <1>5. Q # {}
    <2>1. h[{}] = 0 /\ g[{}] = 0
      BY DEF Adds
    <2>2. Of({}) = {}
      OBVIOUS
    <2>3. h[{}] = g[Of({})]
      <3> HIDE DEF Of, T
      <3>1. QED
        BY <2>1, <2>2
    <2>4. QED
      <3> HIDE DEF Of, T
      <3>1. QED
        BY <1>4, <2>3
  <1>6. PICK r \in Q : TRUE
    BY <1>5
  <1> DEFINE rest == Q \ {r}
             class == { x \in S : e[x] = r }
  <1>7. h[rest] = g[Of(rest)]
    <2>1. rest \notin T /\ rest \in SUBSET R
      BY <1>3, <1>4, <1>6
    <2>2. QED
      BY <2>1
  <1>8. /\ class \in SUBSET S /\ Of(rest) \in SUBSET S /\ class \cap Of(rest) = {}
        /\ class \cup Of(rest) = Of(Q)
    BY <1>4, <1>6
  <1>9. IsFiniteSet(class)
    BY <1>8, FS_Subset
  <1>10. r \in R /\ b[r] = g[class]
    BY <1>4, <1>6
  <1> HIDE DEF Of, T, class, rest
  <1>11. g[class \cup Of(rest)] = g[class] + g[Of(rest)]
    BY <1>8, <1>9, DisjointPartsAdd
  <1>12. h[Q] = b[r] + h[rest]
    BY <1>4, <1>6 DEF Adds, rest
  <1>13. QED
    <2>1. g[class \cup Of(rest)] = g[Of(Q)]
      BY <1>8, Zenon
    <2>2. h[Q] = g[class] + g[Of(rest)]
      BY <1>7, <1>10, <1>12
    <2>3. QED
      BY <1>4, <1>11, <2>1, <2>2

-----------------------------------------------------------------------------
(* The discount of a document *)

\* A rate from 0 up of nothing negative is nothing negative.
LEMMA RoundedNaturals ==
  ASSUME NEW x \in Nat, NEW y \in Nat
  PROVE  Percent(x, y) \in Nat
  <1> DEFINE z == x * y
  <1>1. z \in Nat
    OBVIOUS
  <1>2. Percent(x, y) = (2 * z + 100) \div 200
    BY DEF Percent, Rounded
  <1> HIDE DEF z
  <1>3. QED
    BY <1>1, <1>2

\* A line in range is worth a natural number of cents.
LEMMA LineBaseIsNatural ==
  ASSUME NEW doc, InRange(doc), NEW n \in Lines(doc)
  PROVE  LineBase(doc.items[n]) \in Nat
  <1> DEFINE line == doc.items[n]
             price == Percent(line.unitPrice, 100 - line.discount)
  <1>1. line.quantity \in Nat /\ line.unitPrice \in Nat /\ 100 - line.discount \in Nat
    BY DEF InRange
  <1>2. price \in Nat
    <2> HIDE DEF line
    <2>1. QED
      BY <1>1, RoundedNaturals
  <1>3. LineBase(line) = Percent(line.quantity, price)
    BY DEF LineBase, Percent
  <1> HIDE DEF line, price
  <1>4. QED
    BY <1>1, <1>2, <1>3, RoundedNaturals DEF line

\* The bases of the rates add up to the subtotal before the discount.
LEMMA BasesAddUp ==
  ASSUME NEW doc, InRange(doc)
  PROVE  /\ IsFiniteSet(Rates(doc)) /\ Rates(doc) \subseteq 0..100
         /\ \A r \in Rates(doc) : BaseByRate(doc)[r] \in Nat
         /\ SubtotalBeforeDiscount(doc) \in Nat
         /\ \E h : Adds(h, BaseByRate(doc), Rates(doc))
                   /\ h[Rates(doc)] = SubtotalBeforeDiscount(doc)
  <1> DEFINE L == Lines(doc)
             R == Rates(doc)
             f == [ n \in L |-> LineBase(doc.items[n]) ]
             e == [ n \in L |-> EffectiveRate(doc, doc.items[n]) ]
             base == BaseByRate(doc)
             of(r) == { n \in L : EffectiveRate(doc, doc.items[n]) = r }
  <1>1. IsFiniteSet(L) /\ \A n \in L : f[n] \in Nat
    BY LineBaseIsNatural DEF InRange
  <1>2. e \in [L -> R] /\ R = { e[n] : n \in L }
    BY DEF Rates
  <1>3. IsFiniteSet(R)
    <2>1. \A r \in R : \E n \in L : e[n] = r
      BY <1>2
    <2>2. e \in Surjection(L, R)
      <3> HIDE DEF e, R, L
      <3>1. QED
        BY <1>2, <2>1 DEF Surjection
    <2> HIDE DEF e, R, L
    <2>3. QED
      BY <1>1, <2>2, FS_Surjection
  <1>4. R \subseteq 0..100
    BY DEF InRange, Rates
  <1>5. PICK g : /\ Adds(g, f, L)
                 /\ \A Q \in SUBSET L : SumFunctionOnSet(f, Q) = g[Q]
    <2> HIDE DEF L, f
    <2>1. \A n \in L : f[n] \in Int
      BY <1>1
    <2>2. QED
      BY <1>1, <2>1, SumOnParts
  <1>6. \A Q \in SUBSET L : LinesTotal(doc, Q) = g[Q] /\ g[Q] \in Nat
    <2>1. ASSUME NEW Q \in SUBSET L PROVE LinesTotal(doc, Q) = g[Q]
      <3>1. LinesTotal(doc, Q) = SumFunctionOnSet(f, Q)
        BY DEF LinesTotal
      <3> HIDE DEF f
      <3>2. QED
        BY <1>5, <3>1
    <2>2. ASSUME NEW Q \in SUBSET L PROVE g[Q] \in Nat
      <3> HIDE DEF f, L
      <3>1. IsFiniteSet(Q)
        BY <1>1, FS_Subset
      <3>2. QED
        BY <1>1, <1>5, <3>1, NoNegativeTerm
    <2>3. QED
      BY <2>1, <2>2
  <1>7. \A r \in R : base[r] = g[of(r)] /\ base[r] \in Nat
    <2>1. ASSUME NEW r \in R PROVE base[r] = g[of(r)] /\ base[r] \in Nat
      <3>1. of(r) \in SUBSET L
        OBVIOUS
      <3>2. base[r] = LinesTotal(doc, of(r))
        BY DEF BaseByRate
      <3> HIDE DEF of, L, base
      <3>3. QED
        BY <1>6, <3>1, <3>2
    <2> HIDE DEF base, R, of
    <2>2. QED
      BY <2>1
  <1>8. SubtotalBeforeDiscount(doc) = g[L] /\ g[L] \in Nat
    BY <1>6 DEF SubtotalBeforeDiscount
  <1>9. PICK h : Adds(h, base, R)
    <2> HIDE DEF base, R, of
    <2>1. \A r \in R : base[r] \in Int
      BY <1>7
    <2>2. QED
      BY <1>3, <2>1, SumOnSet
  <1>10. h[R] = g[L]
    <2>1. \A r \in R : base[r] = g[{ n \in L : e[n] = r }]
      <3>1. \A r : of(r) = { n \in L : e[n] = r }
        OBVIOUS
      <3> HIDE DEF of, L, e, base, R
      <3>2. QED
        BY <1>7, <3>1
    <2> HIDE DEF L, R, e, f, base, of
    <2>2. \A n \in L : f[n] \in Int
      BY <1>1
    <2>3. IsFiniteSet(L) /\ IsFiniteSet(R) /\ e \in [L -> R] /\ Adds(g, f, L) /\ Adds(h, base, R)
      BY <1>1, <1>2, <1>3, <1>5, <1>9
    <2>4. QED
      BY <2>1, <2>2, <2>3, ClassesAddUp
  <1>11. QED
    <2> HIDE DEF f, e, of
    <2>1. QED
      BY <1>3, <1>4, <1>7, <1>8, <1>9, <1>10

\* What a discount leaves of an amount is within half a cent of its share.
LEMMA KeptIsClose ==
  ASSUME NEW x \in Int, NEW rate \in Int
  PROVE  /\ x - Percent(x, rate) \in Int
         /\ 100 * (x - Percent(x, rate)) - x * (100 - rate) \in -50..50
  <1> DEFINE p == Percent(x, rate)
             y == x * rate
  <1>1. p \in Int /\ y \in Int /\ y - 100 * p \in -50..50
    <2>1. y \in Int
      OBVIOUS
    <2>2. Percent(x, rate) \in Int /\ x * rate - 100 * Percent(x, rate) \in -50..50
      BY RoundingIsClose
    <2>3. QED
      BY <2>1, <2>2
  <1>2. x * (100 - rate) = 100 * x - y
    OBVIOUS
  <1> HIDE DEF p, y
  <1>3. 100 * (x - p) - (100 * x - y) \in -50..50 /\ x - p \in Int
    BY <1>1
  <1>4. QED
    BY <1>2, <1>3 DEF p

\* A rate of 0, or any rate of nothing, takes nothing off.
LEMMA NothingOff ==
  ASSUME NEW x \in Int, NEW rate \in Int, rate = 0 \/ x = 0
  PROVE  Percent(x, rate) = 0 /\ 100 * x - x * (100 - rate) = 0
  <1>1. x * rate = 0
    OBVIOUS
  <1>2. (2 * 0 + 100) \div 200 = 0
    OBVIOUS
  <1>3. Percent(x, rate) = 0
    BY <1>1, <1>2 DEF Percent, Rounded
  <1>4. 100 * x - x * (100 - rate) = x * rate
    OBVIOUS
  <1>5. QED
    BY <1>1, <1>3, <1>4

\* The sum of a function of integers on all of its domain.
LEMMA SumOfFunction ==
  ASSUME NEW S, IsFiniteSet(S), NEW f, DOMAIN f = S, \A x \in S : f[x] \in Int,
         NEW b, NEW h, Adds(h, b, S), NEW Q \in SUBSET S, \A x \in Q : f[x] = b[x]
  PROVE  \E g : Adds(g, f, S) /\ SumFunction(f) = g[S] /\ g[Q] = h[Q]
  <1>1. PICK g : Adds(g, f, S) /\ SumFunctionOnSet(f, S) = g[S]
    BY SumOnSet
  <1>2. SumFunction(f) = SumFunctionOnSet(f, S)
    BY DEF SumFunction
  <1>3. IsFiniteSet(Q)
    BY FS_Subset
  <1>4. g[Q] = h[Q]
    BY <1>1, <1>3, EqualTermsAgree
  <1>5. QED
    BY <1>1, <1>2, <1>4

\* DiscountIsShared of one document, with its shares known to be integers.
Shared(doc) ==
  LET left == DiscountedBase(doc)
      slack == 50 * Cardinality(Rates(doc))
  IN  /\ \A r \in Rates(doc) : left[r] \in Int
      /\ SumFunction(left) = Subtotal(doc)
      /\ \A r \in Rates(doc) :
           100 * left[r] - BaseByRate(doc)[r] * (100 - doc.discountRate) \in -slack..slack

\* Without a discount, or with nothing to take it from, nothing is shared out.
LEMMA UndiscountedIsShared ==
  ASSUME NEW doc, InRange(doc), doc.discountRate = 0 \/ SubtotalBeforeDiscount(doc) = 0
  PROVE  Shared(doc)
  <1> DEFINE R == Rates(doc)
             base == BaseByRate(doc)
             d == doc.discountRate
             total == SubtotalBeforeDiscount(doc)
             slack == 50 * Cardinality(R)
  <1>1. IsFiniteSet(R) /\ total \in Nat /\ d \in Int /\ \A r \in R : base[r] \in Nat
    BY BasesAddUp DEF InRange
  <1>2. PICK h : Adds(h, base, R) /\ h[R] = total
    BY BasesAddUp
  <1>3. DiscountedBase(doc) = base
    BY DEF DiscountedBase
  <1>4. Subtotal(doc) = total
    <2>1. Percent(total, d) = 0
      <3> HIDE DEF total, d
      <3>1. d = 0 \/ total = 0
        BY DEF d, total
      <3>2. QED
        BY <1>1, <3>1, NothingOff
    <2>2. QED
      BY <1>1, <2>1 DEF Subtotal
  <1>5. DOMAIN base = R
    BY DEF BaseByRate
  <1>6. d = 0 \/ total = 0
    OBVIOUS
  <1>7. slack \in Nat
    BY <1>1, FS_CardinalityType
  <1> HIDE DEF R, base, d, total, slack
  <1>8. SumFunction(base) = total
    <2>1. \A r \in R : base[r] \in Int
      BY <1>1
    <2>2. PICK g : SumFunction(base) = g[R] /\ g[R] = h[R]
      BY <1>1, <1>2, <1>5, <2>1, SumOfFunction
    <2>3. QED
      BY <1>2, <2>2
  <1>9. ASSUME NEW r \in R PROVE 100 * base[r] - base[r] * (100 - d) \in -slack..slack
    <2>1. d = 0 \/ base[r] = 0
      <3>1. h[R] = 0 => \A q \in R : base[q] = 0
        BY <1>1, <1>2, NoNegativeTerm
      <3>2. QED
        BY <1>2, <1>6, <3>1
    <2>2. 100 * base[r] - base[r] * (100 - d) = 0
      BY <1>1, <2>1, NothingOff
    <2>3. QED
      BY <1>7, <2>2
  <1>10. QED
    BY <1>1, <1>3, <1>4, <1>8, <1>9 DEF Shared, R, base, d, slack

\* With one, the lowest rate takes what the rounded shares of the others leave:
\* its own rounding and theirs, half a cent each.
LEMMA DiscountedIsShared ==
  ASSUME NEW doc, InRange(doc), ~ (doc.discountRate = 0 \/ SubtotalBeforeDiscount(doc) = 0)
  PROVE  Shared(doc)
  <1> DEFINE R == Rates(doc)
             base == BaseByRate(doc)
             d == doc.discountRate
             k == 100 - d
             total == SubtotalBeforeDiscount(doc)
             sub == Subtotal(doc)
             n == Cardinality(R)
             lowest == CHOOSE r \in R : \A q \in R : r <= q
             others == R \ {lowest}
             share == [ r \in R |-> base[r] - Percent(base[r], d) ]
             left == DiscountedBase(doc)
  <1>1. /\ IsFiniteSet(R) /\ R \subseteq Int /\ total \in Nat /\ d \in Int /\ k \in Int
        /\ \A r \in R : base[r] \in Int
    BY BasesAddUp DEF InRange
  <1>2. PICK h : Adds(h, base, R) /\ h[R] = total
    BY BasesAddUp
  <1>3. total # 0
    OBVIOUS
  <1>4. left = [ share EXCEPT ![lowest] = sub - SumFunctionOnSet(share, others) ]
    BY DEF DiscountedBase
  <1>5. sub \in Int /\ 100 * sub - total * k \in -50..50
    <2>1. sub = total - Percent(total, d)
      BY DEF Subtotal
    <2>2. total \in Int /\ d \in Int
      BY <1>1
    <2> HIDE DEF total, d, sub
    <2>3. /\ total - Percent(total, d) \in Int
          /\ 100 * (total - Percent(total, d)) - total * (100 - d) \in -50..50
      BY <2>2, KeptIsClose
    <2>4. QED
      BY <2>1, <2>3
  <1>6. \A r \in R : share[r] \in Int /\ 100 * share[r] - base[r] * k \in -50..50
    <2>1. ASSUME NEW r \in R
          PROVE  share[r] \in Int /\ 100 * share[r] - base[r] * k \in -50..50
      <3>1. share[r] = base[r] - Percent(base[r], d)
        OBVIOUS
      <3> HIDE DEF share, base, d, R
      <3>2. QED
        BY <1>1, <3>1, KeptIsClose
    <2> HIDE DEF share, base, R, k
    <2>2. QED
      BY <2>1
  <1>7. DOMAIN share = R
    OBVIOUS
  <1> HIDE DEF R, base, d, k, total, sub, share, left
  <1>8. lowest \in R
    <2>1. R # {}
      BY <1>2, <1>3 DEF Adds
    <2>2. \E r \in R : \A q \in R : r <= q
      BY <1>1, <2>1, LeastExists
    <2>3. QED
      BY <2>2
  <1> HIDE DEF lowest
  <1>9. PICK s : Adds(s, share, R) /\ SumFunctionOnSet(share, others) = s[others]
    <2>1. \A r \in R : share[r] \in Int
      BY <1>6
    <2>2. others \in SUBSET R
      OBVIOUS
    <2>3. IsFiniteSet(R)
      BY <1>1
    <2> HIDE DEF others
    <2>4. PICK s : /\ Adds(s, share, R)
                   /\ \A Q \in SUBSET R : SumFunctionOnSet(share, Q) = s[Q]
      BY <2>1, <2>3, SumOnParts
    <2>5. QED
      BY <2>2, <2>4
  <1>10. s[others] \in Int /\ h[others] \in Int
    BY <1>2, <1>9 DEF Adds
  <1>11. /\ DOMAIN left = R /\ left[lowest] = sub - s[others]
         /\ \A r \in others : left[r] = share[r]
    BY <1>4, <1>7, <1>8, <1>9
  <1>12. \A r \in R : left[r] \in Int
    BY <1>5, <1>6, <1>10, <1>11
  <1>13. SumFunction(left) = sub
    <2>1. others \in SUBSET R
      OBVIOUS
    <2>2. PICK g : Adds(g, left, R) /\ SumFunction(left) = g[R] /\ g[others] = s[others]
      <3> HIDE DEF others
      <3>1. IsFiniteSet(R) /\ DOMAIN left = R /\ \A r \in R : left[r] \in Int
        BY <1>1, <1>11, <1>12
      <3>2. Adds(s, share, R) /\ \A r \in others : left[r] = share[r]
        BY <1>9, <1>11
      <3>3. QED
        BY <2>1, <3>1, <3>2, SumOfFunction
    <2>3. g[R] = left[lowest] + g[others]
      BY <1>8, <2>2 DEF Adds
    <2>4. QED
      BY <1>5, <1>10, <1>11, <2>2, <2>3
  <1>14. n \in Nat /\ n >= 1 /\ IsFiniteSet(others) /\ Cardinality(others) = n - 1
    <2>1. IsFiniteSet(others) /\ Cardinality(others) = n - 1
      BY <1>1, <1>8, FS_RemoveElement
    <2>2. n \in Nat /\ Cardinality(others) \in Nat
      BY <1>1, <2>1, FS_CardinalityType
    <2> HIDE DEF others
    <2>3. QED
      BY <2>1, <2>2
  <1>15. 100 * s[others] - h[others] * k \in -(50 * (n - 1))..(50 * (n - 1))
    <2>1. others \subseteq R
      OBVIOUS
    <2> DEFINE m == Cardinality(others)
    <2>2. 100 * s[others] - h[others] * k \in -(50 * m)..(50 * m)
      <3>1. /\ k \in Int /\ Adds(s, share, R) /\ Adds(h, base, R) /\ IsFiniteSet(others)
            /\ \A r \in R : /\ share[r] \in Int /\ base[r] \in Int
                            /\ 100 * share[r] - base[r] * k \in -50..50
        BY <1>1, <1>2, <1>6, <1>9, <1>14
      <3> HIDE DEF others
      <3>2. QED
        BY <2>1, <3>1, SharesStayClose
    <2>3. m = n - 1
      BY <1>14
    <2> HIDE DEF m, n, others
    <2>4. QED
      BY <2>2, <2>3
  <1>16. total = base[lowest] + h[others]
    BY <1>2, <1>8 DEF Adds
  <1> DEFINE slack == 50 * n
  <1>17. 100 * left[lowest] - base[lowest] * k \in -slack..slack
    <2> DEFINE b == base[lowest]
               q == h[others]
               p == s[others]
               bk == b * k
               qk == q * k
    <2>1. b \in Int /\ q \in Int /\ p \in Int /\ bk \in Int /\ qk \in Int
      <3>1. b \in Int /\ q \in Int /\ p \in Int /\ k \in Int
        BY <1>1, <1>8, <1>10
      <3> HIDE DEF b, q, p
      <3>2. QED
        BY <3>1
    <2>2. total * k = bk + qk
      <3>1. (b + q) * k = b * k + q * k
        BY <1>1, <2>1
      <3>2. QED
        BY <1>16, <3>1
    <2>3. 100 * sub - (bk + qk) \in -50..50
      BY <1>5, <2>2
    <2>4. 100 * p - qk \in -(50 * (n - 1))..(50 * (n - 1))
      BY <1>15
    <2>5. left[lowest] = sub - p
      BY <1>11
    <2> HIDE DEF b, q, p, bk, qk, n
    <2>6. 100 * (sub - p) - bk \in -(50 * n)..(50 * n)
      BY <1>5, <1>14, <2>1, <2>3, <2>4
    <2>7. QED
      BY <2>5, <2>6 DEF b, bk
  <1>18. ASSUME NEW r \in R PROVE 100 * left[r] - base[r] * k \in -slack..slack
    <2>1. CASE r = lowest
      BY <1>17, <2>1
    <2>2. CASE r # lowest
      <3>1. left[r] = share[r]
        BY <1>11, <2>2
      <3> DEFINE x == 100 * share[r] - base[r] * k
      <3>2. x \in -50..50
        BY <1>6
      <3> HIDE DEF x, n
      <3>3. x \in -slack..slack
        BY <1>14, <3>2
      <3>4. QED
        BY <3>1, <3>3 DEF x
    <2>3. QED
      BY <2>1, <2>2
  <1>19. QED
    BY <1>12, <1>13, <1>18 DEF Shared, R, left, sub, base, k, d
\* Both cases together.
LEMMA DerivableIsShared ==
  ASSUME NEW doc, InRange(doc)
  PROVE  Shared(doc)
  <1>1. CASE doc.discountRate = 0 \/ SubtotalBeforeDiscount(doc) = 0
    BY <1>1, UndiscountedIsShared
  <1>2. CASE ~ (doc.discountRate = 0 \/ SubtotalBeforeDiscount(doc) = 0)
    BY <1>2, DiscountedIsShared
  <1>3. QED
    BY <1>1, <1>2

\* What is derived from lines in range is an amount.
LEMMA DerivedTotalIsAmount ==
  ASSUME NEW doc, InRange(doc)
  PROVE  DerivedTotal(doc) \in Int
  <1> DEFINE R == Rates(doc)
             sub == Subtotal(doc)
             left == DiscountedBase(doc)
             tax == [ r \in R |-> Percent(left[r], r) ]
  <1>1. IsFiniteSet(R) /\ R \subseteq Int /\ SubtotalBeforeDiscount(doc) \in Int
    BY BasesAddUp
  <1>2. doc.discountRate \in Int /\ doc.equivalenceSurchargeRate \in Int /\ doc.irpfRate \in Int
    BY DEF InRange
  <1>3. sub \in Int
    BY <1>1, <1>2, KeptIsClose DEF Subtotal
  <1>4. \A r \in R : left[r] \in Int
    BY DerivableIsShared DEF Shared
  <1>5. \A r \in R : tax[r] \in Int
    <2>1. ASSUME NEW r \in R PROVE tax[r] \in Int
      <3>1. left[r] \in Int /\ r \in Int
        BY <1>1, <1>4
      <3>2. Percent(left[r], r) \in Int
        <4> HIDE DEF left
        <4>1. QED
          BY <3>1, RoundingIsClose
      <3>3. QED
        BY <3>2
    <2>2. QED
      BY <2>1
  <1>6. SumFunction(tax) \in Int
    <2>1. SumFunction(tax) = SumFunctionOnSet(tax, R)
      BY DEF SumFunction
    <2> HIDE DEF tax, R
    <2>2. PICK g : Adds(g, tax, R) /\ SumFunctionOnSet(tax, R) = g[R]
      BY <1>1, <1>5, SumOnSet
    <2>3. g[R] \in Int
      BY <2>2 DEF Adds
    <2>4. QED
      BY <2>1, <2>2, <2>3
  <1>7. DerivedTotal(doc)
          = sub + SumFunction(tax) + Percent(sub, doc.equivalenceSurchargeRate)
              - Percent(sub, doc.irpfRate)
    BY DEF DerivedTotal
  <1> HIDE DEF sub, tax
  <1>8. Percent(sub, doc.equivalenceSurchargeRate) \in Int /\ Percent(sub, doc.irpfRate) \in Int
    BY <1>2, <1>3, RoundingIsClose
  <1>9. QED
    BY <1>3, <1>6, <1>7, <1>8

\* A derived document, whatever its lines and however many rates they have: its
\* discount is shared out to the cent, and no rate is off by more than half a cent
\* for each rate (the last loop of resolveDocumentAmount).
THEOREM DiscountsAreShared == Spec => []DiscountIsShared
  <1>1. BriefInv => DiscountIsShared
    <2> SUFFICES ASSUME BriefInv, NEW x \in Document, CanBeDerived(paper[x])
                 PROVE  LET doc == paper[x]
                            base == BaseByRate(doc)
                            left == DiscountedBase(doc)
                            off(r) == 100 * left[r] - base[r] * (100 - doc.discountRate)
                            slack == 50 * Cardinality(Rates(doc))
                        IN  /\ SumFunction(left) = Subtotal(doc)
                            /\ \A r \in Rates(doc) : off(r) \in -slack..slack
      BY DEF DiscountIsShared
    <2>1. InRange(paper[x])
      BY AmountAssumption DEF BriefInv, RecordsInv
    <2>2. Shared(paper[x])
      BY <2>1, DerivableIsShared
    <2>3. QED
      BY <2>2 DEF Shared
  <1>2. QED
    BY <1>1, BriefInvariant, PTL

-----------------------------------------------------------------------------
(* Amounts *)

\* A set of at most one element has no two.
LEMMA AtMostOne ==
  ASSUME NEW S, IsFiniteSet(S), ~(Cardinality(S) > 1), NEW c \in S, NEW d \in S
  PROVE  c = d
  <1> SUFFICES ASSUME c # d PROVE FALSE
    OBVIOUS
  <1>1. IsFiniteSet({d}) /\ Cardinality({d}) = 1
    BY FS_Singleton
  <1> DEFINE one == {d}
             two == one \cup {c}
  <1>2. c \notin one /\ two \in SUBSET S
    OBVIOUS
  <1>3. IsFiniteSet(one) /\ Cardinality(one) = 1
    BY <1>1
  <1> HIDE DEF one
  <1>4. Cardinality(two) = Cardinality(one) + 1
    BY <1>2, <1>3, FS_AddElement
  <1> HIDE DEF two
  <1>5. Cardinality(two) <= Cardinality(S)
    BY <1>2, FS_Subset
  <1>6. Cardinality(S) \in Nat
    BY FS_CardinalityType
  <1>7. QED
    BY <1>3, <1>4, <1>5, <1>6

\* A finite group has finitely many currencies.
LEMMA CurrenciesAreFinite ==
  ASSUME NEW group, IsFiniteSet(group), NEW amountOf
  PROVE  IsFiniteSet({ amountOf[x].currency : x \in group })
  <1> DEFINE T == { amountOf[x].currency : x \in group }
             f == [ x \in group |-> amountOf[x].currency ]
  <1>1. f \in Surjection(group, T)
    BY DEF Surjection
  <1>2. QED
    BY <1>1, FS_Surjection

\* sumProvenancedAmounts gives a sum only of a group whose amounts are all known
\* and in one currency.
LEMMA SumIsNotCoerced ==
  ASSUME NEW group, IsFiniteSet(group), NEW amountOf,
         \A x \in group : amountOf[x].provenance # "unavailable" => amountOf[x].amount # Unknown,
         SumProvenancedAmounts(group, amountOf).amount # Unknown
  PROVE  /\ \A x, y \in group : amountOf[x].amount # Unknown
                                /\ amountOf[x].currency = amountOf[y].currency
         /\ SumProvenancedAmounts(group, amountOf).amount = SumOf(group, amountOf)
  <1> DEFINE known == { x \in group : amountOf[x].provenance # "unavailable" }
             currencies == { amountOf[x].currency : x \in known }
  <1>1. known = group /\ ~(Cardinality(currencies) > 1)
        /\ SumProvenancedAmounts(group, amountOf).amount = SumOf(group, amountOf)
    BY DEF SumProvenancedAmounts, ProvenancedAmount
  <1>2. \A x \in group : amountOf[x].amount # Unknown
    BY <1>1
  <1>3. ASSUME NEW x \in group, NEW y \in group
        PROVE  amountOf[x].currency = amountOf[y].currency
    <2>1. IsFiniteSet(currencies)
      BY <1>1, CurrenciesAreFinite
    <2>2. amountOf[x].currency \in currencies /\ amountOf[y].currency \in currencies
      BY <1>1
    <2> HIDE DEF currencies
    <2>3. QED
      BY <1>1, <2>1, <2>2, AtMostOne
  <1>4. QED
    BY <1>1, <1>2, <1>3

\* What resolveDocumentAmount does not call unavailable is an amount.
LEMMA ResolvedIsKnown ==
  ASSUME paper \in Papers, NEW x \in Document, Amounts[x].provenance # "unavailable"
  PROVE  Amounts[x].amount # Unknown
  <1>1. CanBeDerived(paper[x]) => DerivedTotal(paper[x]) # Unknown
    BY DerivedTotalIsAmount, AmountAssumption
  <1>2. QED
    BY <1>1 DEF Amounts, ResolveDocumentAmount, ProvenancedAmount

\* Every group is of one list.
LEMMA GroupsAreRead ==
  ASSUME NEW group \in Groups
  PROVE  \E list \in {"invoices", "quotes", "expenses"} : group \subseteq pages[list].ids
  BY DEF Groups, InvoiceDrafts, IssuedInvoices, PaidInvoices, OutstandingInvoices,
         OverdueInvoices, OnTimeInvoices, QuoteDrafts, Expenses, Deductible,
         ExpensesNeedingReview, InMonth

\* The totals of the brief: whatever the documents say and however many there are,
\* a group is given a total only if every document of it has an amount of its own,
\* all in one currency, and the total is then their sum.
THEOREM TotalsAreTrue == Spec => []TotalsAreNotCoerced
  <1>1. BriefInv => TotalsAreNotCoerced
    <2> SUFFICES ASSUME BriefInv, phase = "done", NEW group \in Groups,
                        Total(group).amount # Unknown
                 PROVE  /\ \A x, y \in group : Amounts[x].amount # Unknown
                                  /\ Amounts[x].currency = Amounts[y].currency
                        /\ Total(group).amount = SumOf(group, Amounts)
      BY DEF TotalsAreNotCoerced
    <2>1. PICK list \in {"invoices", "quotes", "expenses"} : group \subseteq pages[list].ids
      BY GroupsAreRead
    <2>2. Counts(pages[list], RecordsOf(list))
      BY DEF BriefInv, PagesInv, Listed
    <2>3. IsFiniteSet(pages[list].ids) /\ pages[list].ids \subseteq Document
      BY <2>2 DEF Counts, RecordsOf, Document
    <2>4. IsFiniteSet(group) /\ group \subseteq Document
      <3>1. group \in SUBSET pages[list].ids
        BY <2>1
      <3>2. QED
        BY <2>3, <3>1, FS_Subset
    <2>5. \A x \in group : Amounts[x].provenance # "unavailable" => Amounts[x].amount # Unknown
      BY <2>4, ResolvedIsKnown DEF BriefInv, RecordsInv
    <2>6. QED
      BY <2>4, <2>5, SumIsNotCoerced DEF Total
  <1>2. QED
    BY <1>1, BriefInvariant, PTL
===============================================================================
