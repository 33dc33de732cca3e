------------------------------ MODULE DailyBrief ------------------------------
(***************************************************************************)
(* generateDailyOperationalBrief: five reads at once, then the activities  *)
(* of the first clients at once, and a report made of what they returned.  *)
(* There is no snapshot: the ERP changes between any two of the reads.     *)
(***************************************************************************)
EXTENDS DocumentAmount

CONSTANTS
  Invoice, Quote, Expense, Client, Activity,  \* records, by collection
  Owner,         \* the client of each activity
  Papers,        \* what the documents may say: a set of functions of them
  Starts,        \* the records the ERP may hold when the brief begins
  PageLimit, ActivityLimit,
  MaxActivityClients,
  MaxChanges     \* the changes of the ERP during one brief (bound)

Document == Invoice \cup Quote \cup Expense
Record == Document \cup Client \cup Activity
Listed == {"invoices", "quotes", "expenses", "clients"}
InvoiceStatus == {"draft", "sent", "overdue", "paid", "cancelled"}

ASSUME BriefAssumption ==
  /\ Invoice \cap Quote = {} /\ (Invoice \cup Quote) \cap Expense = {}
  /\ Document \cap Client = {} /\ (Document \cup Client) \cap Activity = {}
  /\ Owner \in [Activity -> Client]
  /\ \A S \in Starts :
       /\ S \subseteq Record /\ IsFiniteSet(S)
       /\ \A a \in S \cap Activity : Owner[a] \in S
  /\ PageLimit \in Nat \ {0} /\ ActivityLimit \in Nat \ {0}
  /\ MaxActivityClients \in Nat \ {0} /\ MaxChanges \in Nat

ASSUME AmountAssumption ==
  /\ Unknown \notin Int
  /\ \A P \in Papers : \A x \in Document : CanBeDerived(P[x]) => InRange(P[x])

VARIABLES
  paper,      \* what each document says
  counted,    \* whether the API sends totals with its pages
  existing,   \* the records of the ERP
  status,     \* the status of each invoice
  stable,     \* the records that existed at every moment of the brief
  changes,    \* how often the ERP changed
  phase,      \* "reading", "inspecting", "done" or "failed"
  pages,      \* the list answers: [ids, status, total], NotRead before
  inspected,  \* the clients whose activities are asked for
  crm         \* the activity answers, by client: [ids, total], NotRead before

vars ==
  << paper, counted, existing, status, stable, changes, phase, pages, inspected, crm >>

NotRead == [ ids |-> {}, status |-> << >>, total |-> Unknown ]

RecordsOf(list) ==
  CASE list = "invoices" -> Invoice
    [] list = "quotes" -> Quote
    [] list = "expenses" -> Expense
    [] list = "clients" -> Client

Least(m, n) == IF m < n THEN m ELSE n

Init ==
  /\ paper \in Papers /\ counted \in BOOLEAN
  /\ existing \in Starts
  /\ status = [ i \in Invoice |-> paper[i].status ]
  /\ stable = existing /\ changes = 0
  /\ phase = "reading"
  /\ pages = [ list \in {} |-> NotRead ]
  /\ inspected = {} /\ crm = [ c \in {} |-> NotRead ]

-----------------------------------------------------------------------------
(* The ERP, which others use meanwhile *)

Changing == phase \in {"reading", "inspecting"} /\ changes < MaxChanges

Create(x) ==
  /\ Changing /\ x \notin existing
  /\ x \in Activity => Owner[x] \in existing
  /\ existing' = existing \cup {x} /\ changes' = changes + 1
  /\ UNCHANGED << paper, counted, status, stable, phase, pages, inspected, crm >>

Remove(x) ==
  /\ Changing /\ x \in existing
  /\ LET gone == {x} \cup { a \in Activity : Owner[a] = x }
     IN  existing' = existing \ gone /\ stable' = stable \ gone
  /\ changes' = changes + 1
  /\ UNCHANGED << paper, counted, status, phase, pages, inspected, crm >>

Move(i) ==
  /\ Changing /\ i \in existing
  /\ \E s \in InvoiceStatus \ {status[i], "draft"} :
       /\ status[i] \notin {"paid", "cancelled"}
       /\ status' = [status EXCEPT ![i] = s]
  /\ changes' = changes + 1
  /\ UNCHANGED << paper, counted, existing, stable, phase, pages, inspected, crm >>

-----------------------------------------------------------------------------
(* The reads *)

\* One page of a list, and the total when the API sends one.
Page(records, limit) ==
  { [ ids |-> ids, status |-> status,
      total |-> IF counted THEN Cardinality(records) ELSE Unknown ] :
      ids \in { S \in SUBSET records :
                 Cardinality(S) = Least(limit, Cardinality(records)) } }

Read(list) ==
  /\ phase = "reading" /\ list \in Listed \ DOMAIN pages
  /\ \E page \in Page(RecordsOf(list) \cap existing, PageLimit) :
       pages' = [ l \in DOMAIN pages \cup {list} |-> IF l = list THEN page ELSE pages[l] ]
  /\ UNCHANGED << paper, counted, existing, status, stable, changes, phase, inspected, crm >>

\* Promise.all: one read that fails fails the brief, and no brief is made.
ReadFails ==
  /\ phase \in {"reading", "inspecting"}
  /\ phase' = "failed"
  /\ pages' = [ list \in {} |-> NotRead ]
  /\ inspected' = {} /\ crm' = [ c \in {} |-> NotRead ]
  /\ UNCHANGED << paper, counted, existing, status, stable, changes >>

\* clientsPage.data.slice(0, maxActivityClients)
ChooseClients ==
  /\ phase = "reading" /\ DOMAIN pages = Listed
  /\ phase' = "inspecting"
  /\ \E S \in SUBSET pages["clients"].ids :
       /\ Cardinality(S) = Least(MaxActivityClients, Cardinality(pages["clients"].ids))
       /\ inspected' = S
  /\ UNCHANGED << paper, counted, existing, status, stable, changes, pages, crm >>

\* The activities of a client that is gone are a 404 (ReadFails).
ReadActivities(c) ==
  /\ phase = "inspecting" /\ c \in inspected \ DOMAIN crm /\ c \in existing
  /\ \E page \in Page({ a \in Activity \cap existing : Owner[a] = c }, ActivityLimit) :
       crm' = [ d \in DOMAIN crm \cup {c} |-> IF d = c THEN page ELSE crm[d] ]
  /\ UNCHANGED << paper, counted, existing, status, stable, changes, phase, pages, inspected >>

Report ==
  /\ phase = "inspecting" /\ DOMAIN crm = inspected
  /\ phase' = "done"
  /\ UNCHANGED << paper, counted, existing, status, stable, changes, pages, inspected, crm >>

ErpChanges ==
  \/ \E x \in Record : Create(x) \/ Remove(x)
  \/ \E i \in Invoice : Move(i)

Next ==
  \/ ErpChanges
  \/ \E list \in Listed : Read(list)
  \/ ReadFails \/ ChooseClients
  \/ \E c \in Client : ReadActivities(c)
  \/ Report

Spec == Init /\ [][Next]_vars

-----------------------------------------------------------------------------
(* The report *)

\* length >= total, which is false of a total that is undefined.
Covers(n, total) == total # Unknown /\ n >= total

\* Mutant: the clients that were inspected are enough.
IsPartialByClients ==
  \E list \in Listed : ~Covers(Cardinality(pages[list].ids), pages[list].total)

IsPartial ==
  \/ \E list \in Listed : ~Covers(Cardinality(pages[list].ids), pages[list].total)
  \/ ~Covers(Cardinality(inspected), pages["clients"].total)
  \/ \E c \in inspected : ~Covers(Cardinality(crm[c].ids), crm[c].total)

Inspected == (UNION { pages[list].ids : list \in Listed })
               \cup (UNION { crm[c].ids : c \in inspected })

Amounts == [ x \in Document |-> ResolveDocumentAmount(paper[x]) ]

SeenStatus(i) == pages["invoices"].status[i]
PastDue(i) == SeenStatus(i) = "overdue" \/ paper[i].due = "past"

InvoiceDrafts == { i \in pages["invoices"].ids : SeenStatus(i) = "draft" }
IssuedInvoices ==
  { i \in pages["invoices"].ids : SeenStatus(i) \notin {"draft", "cancelled"} }
PaidInvoices == { i \in IssuedInvoices : SeenStatus(i) = "paid" }
OutstandingInvoices == IssuedInvoices \ PaidInvoices
OverdueInvoices == { i \in OutstandingInvoices : PastDue(i) }

OnTimeInvoices ==
  { i \in OutstandingInvoices : SeenStatus(i) # "overdue" /\ paper[i].due # "past" }

QuoteDrafts == { q \in pages["quotes"].ids : paper[q].status \in {"draft", "sent"} }
Expenses == pages["expenses"].ids
Deductible(d) == { e \in Expenses : paper[e].taxDeductible = d }
ExpensesNeedingReview ==
  { e \in Expenses : paper[e].taxDeductible = Unknown \/ ~paper[e].complete }
InMonth(records) == { x \in records : paper[x].inMonth }

\* Every group of documents the brief gives a total of.
Groups ==
  { InvoiceDrafts, IssuedInvoices, PaidInvoices, OutstandingInvoices,
    OverdueInvoices, OnTimeInvoices, QuoteDrafts, Expenses, Deductible(TRUE),
    Deductible(FALSE), ExpensesNeedingReview, InMonth(IssuedInvoices),
    InMonth(InvoiceDrafts), InMonth(Expenses) }

Total(group) == SumProvenancedAmounts(group, Amounts)

-----------------------------------------------------------------------------
(* Properties *)

\* A brief that does not call itself partial has inspected every record that
\* existed while it was made, the activities of the clients among them,
\* whatever was created, removed or changed between its reads.
CompleteBriefMissesNothing ==
  phase = "done" /\ ~IsPartial => stable \subseteq Inspected

\* No group is given a total unless every document of it has an amount of its
\* own, all in one currency; the total is then their sum.
TotalsAreNotCoerced ==
  phase = "done" =>
    \A group \in Groups :
      Total(group).amount # Unknown =>
        /\ \A x, y \in group : Amounts[x].amount # Unknown
                               /\ Amounts[x].currency = Amounts[y].currency
        /\ Total(group).amount = SumOf(group, Amounts)

\* A document's discount is shared out to the cent: the bases of the rates add
\* up to the discounted subtotal, and none is further from its exact share than
\* half a cent for each rate.
DiscountIsShared ==
  \A x \in Document :
    CanBeDerived(paper[x]) =>
      LET doc == paper[x]
          base == BaseByRate(doc)
          left == DiscountedBase(doc)
          off(r) == 100 * left[r] - base[r] * (100 - doc.discountRate)
          slack == 50 * Cardinality(Rates(doc))
      IN  /\ SumFunction(left) = Subtotal(doc)
          /\ \A r \in Rates(doc) : off(r) \in -slack..slack
=============================================================================
