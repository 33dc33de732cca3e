---------------------------- MODULE DocumentAmount ----------------------------
(***************************************************************************)
(* The amounts of the daily brief: what a document is worth, and what a    *)
(* group of documents adds up to.  Money is in cents, rates in percent and *)
(* quantities in hundredths, so that roundCurrency is exact; the error of  *)
(* JavaScript's floating-point products is left out.                       *)
(***************************************************************************)
EXTENDS Integers, Sequences, FiniteSets, FiniteSetsExt

CONSTANT Unknown  \* an amount, a field or a count that is not there

\* Math.round of a fraction with a positive denominator: halves go up.
Rounded(numerator, denominator) ==
  (2 * numerator + denominator) \div (2 * denominator)

Percent(cents, rate) == Rounded(cents * rate, 100)

ProvenancedAmount(amount, currency, provenance) ==
  [ amount |-> amount, currency |-> currency, provenance |-> provenance ]

-----------------------------------------------------------------------------
(* resolveDocumentAmount without a stored total or amount *)

EffectiveRate(doc, line) == IF line.taxRate = Unknown THEN doc.taxRate ELSE line.taxRate

LineBase(line) ==
  Rounded(line.quantity * Percent(line.unitPrice, 100 - line.discount), 100)

Lines(doc) == DOMAIN doc.items
Rates(doc) == { EffectiveRate(doc, doc.items[n]) : n \in Lines(doc) }

LinesTotal(doc, lines) ==
  SumFunctionOnSet([ n \in Lines(doc) |-> LineBase(doc.items[n]) ], lines)

SubtotalBeforeDiscount(doc) == LinesTotal(doc, Lines(doc))

BaseByRate(doc) ==
  [ r \in Rates(doc) |->
      LinesTotal(doc, { n \in Lines(doc) : EffectiveRate(doc, doc.items[n]) = r }) ]

Subtotal(doc) ==
  SubtotalBeforeDiscount(doc) - Percent(SubtotalBeforeDiscount(doc), doc.discountRate)

\* Mutant: every rate bears its own share of the discount, the last one too.
DiscountedBaseEach(doc) ==
  [ r \in Rates(doc) |-> BaseByRate(doc)[r] - Percent(BaseByRate(doc)[r], doc.discountRate) ]

\* The document's discount, rate by rate; the lowest rate takes what is left.
DiscountedBase(doc) ==
  LET base == BaseByRate(doc)
      lowest == CHOOSE r \in Rates(doc) : \A q \in Rates(doc) : r <= q
      share == [ r \in Rates(doc) |-> base[r] - Percent(base[r], doc.discountRate) ]
  IN  IF doc.discountRate = 0 \/ SubtotalBeforeDiscount(doc) = 0 THEN base
      ELSE [ share EXCEPT ![lowest] =
               Subtotal(doc) - SumFunctionOnSet(share, Rates(doc) \ {lowest}) ]

DerivedTotal(doc) ==
  Subtotal(doc)
    + SumFunction([ r \in Rates(doc) |-> Percent(DiscountedBase(doc)[r], r) ])
    + Percent(Subtotal(doc), doc.equivalenceSurchargeRate)
    - Percent(Subtotal(doc), doc.irpfRate)

(***************************************************************************)
(* "supported": no prepayment, compound tax or included tax, and all rates *)
(* from 0 to 100; a line is "valid" when its numbers are finite and none   *)
(* is negative.                                                            *)
(***************************************************************************)
CanBeDerived(doc) ==
  /\ doc.items # << >> /\ doc.supported
  /\ \A n \in Lines(doc) : doc.items[n].valid

\* What "supported" and "valid" say of the numbers.
InRange(doc) ==
  /\ IsFiniteSet(Lines(doc))
  /\ \A n \in Lines(doc) :
       LET line == doc.items[n]
       IN  /\ line.quantity \in Nat /\ line.unitPrice \in Nat /\ line.discount \in 0..100
           /\ EffectiveRate(doc, line) \in 0..100
  /\ {doc.discountRate, doc.irpfRate, doc.equivalenceSurchargeRate} \subseteq 0..100

ResolveDocumentAmount(doc) ==
  CASE doc.total # Unknown ->
         ProvenancedAmount(doc.total, doc.currency, "stored_field")
    [] doc.total = Unknown /\ doc.amount # Unknown ->
         ProvenancedAmount(doc.amount, doc.currency, "stored_field")
    [] doc.total = Unknown /\ doc.amount = Unknown /\ CanBeDerived(doc) ->
         ProvenancedAmount(DerivedTotal(doc), doc.currency, "derived_from_items")
    [] OTHER -> ProvenancedAmount(Unknown, doc.currency, "unavailable")

-----------------------------------------------------------------------------
(* Groups of documents: "amountOf" gives the amount of each record *)

SumOf(records, amountOf) == MapThenSumSet(LAMBDA x : amountOf[x].amount, records)

\* Mutant: a document without an amount counts as nothing.
SumProvenancedAmountsCoerced(records, amountOf) ==
  LET known == { x \in records : amountOf[x].provenance # "unavailable" }
      currencies == { amountOf[x].currency : x \in known }
  IN  IF Cardinality(currencies) > 1
      THEN ProvenancedAmount(Unknown, "MIXED", "mixed_currency_unconverted")
      ELSE ProvenancedAmount(SumOf(known, amountOf), "EUR", "stored_field")

SumProvenancedAmounts(records, amountOf) ==
  LET known == { x \in records : amountOf[x].provenance # "unavailable" }
      currencies == { amountOf[x].currency : x \in known }
      derived == \E x \in known : amountOf[x].provenance = "derived_from_items"
      currency == IF currencies = {} THEN "EUR"
                  ELSE IF Cardinality(currencies) > 1 THEN "MIXED"
                  ELSE CHOOSE c \in currencies : TRUE
  IN  CASE known # records -> ProvenancedAmount(Unknown, currency, "unavailable")
        [] known = records /\ Cardinality(currencies) > 1 ->
             ProvenancedAmount(Unknown, "MIXED", "mixed_currency_unconverted")
        [] OTHER ->
             ProvenancedAmount(SumOf(records, amountOf), currency,
               IF derived THEN "derived_from_items" ELSE "stored_field")

=============================================================================
