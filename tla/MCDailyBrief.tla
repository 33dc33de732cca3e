----------------------------- MODULE MCDailyBrief -----------------------------
(* Two invoices, a quote and an expense of many contents, three clients. *)
EXTENDS DailyBrief

CONSTANTS i1, i2, q1, e1, c1, c2, c3, a1, a2, a3

MCOwner == [ a \in {a1, a2, a3} |-> IF a = a3 THEN c2 ELSE c1 ]

\* All records, or those of two clients, or of one.
MCStarts ==
  LET documents == {i1, i2, q1, e1}
  IN  { documents \cup {c1, c2, c3, a1, a2, a3}, documents \cup {c1, c2, a1, a3},
        documents \cup {c1, a1} }

Pick(n, values) == values[(n % Len(values)) + 1]

\* Every number n stands for a line, and for a document of up to four lines.
Line(n) ==
  [ quantity |-> Pick(n, << 100, 150, 33 >>), unitPrice |-> Pick(n \div 2, << 1, 1, 333, 1, 1001, 0 >>),
    discount |-> Pick(n \div 3, << 0, 33, 50 >>),
    taxRate |-> Pick(n, << 21, Unknown, 10, 0, 4 >>), valid |-> n % 29 # 28 ]

\* Two cents under two rates and nothing under a third: at 33 % the lowest rate
\* is left with a cent less than nothing.
CentsApart ==
  [ k \in 1..3 |->
      [ quantity |-> 100, unitPrice |-> IF k = 3 THEN 0 ELSE 1, discount |-> 0,
        taxRate |-> Pick(k, << 0, 21, 10 >>), valid |-> TRUE ] ]

Doc(n) ==
  [ status |-> Pick(n, << "draft", "sent", "overdue", "paid" >>),
    due |-> Pick(n \div 3, << "past", "later", "none" >>), inMonth |-> n % 2 = 0,
    taxDeductible |-> Pick(n, << TRUE, FALSE, Unknown >>), complete |-> n % 3 # 1,
    currency |-> IF n % 5 = 4 THEN "USD" ELSE "EUR",
    total |-> IF n % 6 = 0 THEN 10 * n - 50 ELSE Unknown,
    amount |-> IF n % 8 = 3 THEN 25 ELSE Unknown,
    items |-> IF n = 14 THEN CentsApart ELSE [ k \in 1..(n % 5) |-> Line(6 * n + 3 * k) ],
    discountRate |-> Pick(n, << 33, 0, 50, 33, 0, 10, 100 >>),
    taxRate |-> Pick(n, << 0, 7, 21 >>), irpfRate |-> Pick(n, << 0, 15 >>),
    equivalenceSurchargeRate |-> Pick(n, << 0, 0, 5 >>), supported |-> n % 11 # 5 ]

MCPapers ==
  { [ x \in {i1, i2, q1, e1} |->
        Doc(4 * k + (CASE x = i1 -> 0 [] x = i2 -> 1 [] x = q1 -> 2 [] x = e1 -> 3)) ] :
      k \in 0..7 }
===============================================================================
