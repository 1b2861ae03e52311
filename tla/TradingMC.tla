----------------------------- MODULE TradingMC -----------------------------
(* Two quotes, a purchase and a sale, for one company.                     *)
EXTENDS Trading, Functions, TLC

MCOffers == {[side |-> "BUY", in |-> 3, expected |-> 2, min |-> 2],
             [side |-> "SELL", in |-> 1, expected |-> 2, min |-> 1]}

Allowing(sides, maxTrade) ==
  [enabled |-> TRUE, sides |-> sides, maxTrade |-> maxTrade, maxDaily |-> 4,
   maxExposure |-> 5, reserve |-> 1]
OneDecision == <<Allowing({"BUY", "SELL"}, 3)>>
MCDecisions == <<Allowing({"BUY", "SELL"}, 3), Allowing({"BUY", "SELL"}, 2)>>

\* A payout of an escrow, of what a purchase costs.
Payouts == {[usdg |-> 3, stock |-> 0]}

\* Any order of the ids: quotes differ in nothing else.
MCLotId == CHOOSE id \in [Quotes -> 1..Cardinality(Quotes)] : IsInjective(id)

MCSymmetry == Permutations(Keys)
=============================================================================
