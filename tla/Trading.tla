------------------------------ MODULE Trading ------------------------------
(***************************************************************************)
(* TradingService for one company and one stock token: the owner's policy, *)
(* session and eligibility, firm quotes, trades, and the reconciliation of *)
(* a trade with the chain.                                                 *)
(*                                                                         *)
(* The owner's changes and the approval of a trade are transactions under  *)
(* the company's row lock, one step each.  A quote reads its controls      *)
(* before that lock, so it takes two.  From approval on, execute() holds   *)
(* no lock: what it remembers is in `execution', is lost in a crash, and   *)
(* every save is a step.  A reconciliation works under a key of its own,   *)
(* and reads a trade off the changes of the wallet's balances over its     *)
(* block, where other trades and other transfers may move them too.  The   *)
(* model spans one UTC day.                                                *)
(***************************************************************************)
EXTENDS Integers, Sequences, FiniteSets, FiniteSetsExt

CONSTANTS
  Quotes,          \* a quote creates at most one trade, so it names that too
  Offers,          \* what the venue may quote
  Decisions,       \* the policies the owner writes, in order
  Assessments,     \* what the eligibility provider may find
  Keys,            \* idempotency keys of reconciliations
  Earned,          \* verified service revenue less expenses
  Deposit,         \* USDG in the wallet that Normic did not earn
  Price,           \* the oracle's USDG for a unit of the stock token
  Movements,       \* what else may come to the wallet in a block, or leave it
  LotId,           \* the ids of lots, which order those of one block
  MaxBlock,        \* bound on the blocks of the wallet's operations
  MaxSessions,     \* bounds on what the owner does
  MaxEligibility

ASSUME TradingAssumption ==
  /\ Offers \subseteq [side: {"BUY", "SELL"}, in: Nat \ {0}, expected: Nat, min: Nat \ {0}]
  /\ \A offer \in Offers : offer.min <= offer.expected
  /\ Decisions \in Seq([enabled: BOOLEAN, sides: SUBSET {"BUY", "SELL"}, maxTrade: Nat,
                            maxDaily: Nat, maxExposure: Nat, reserve: Nat])
  /\ Assessments \subseteq {"ELIGIBLE", "INELIGIBLE"}
  /\ {Earned, Deposit, Price} \subseteq Nat
  /\ Quotes \cap Keys = {} /\ IsFiniteSet(Quotes)
  /\ Movements \subseteq [usdg: Int, stock: Int] /\ MaxBlock \in Nat
  /\ LotId \in [Quotes -> Nat] /\ \A p, q \in Quotes : LotId[p] = LotId[q] => p = q

VARIABLES
  policies,     \* the versions of the trading policy so far; the last is in force
  session,      \* the company's latest session, live until it is revoked
  eligibility,
  passed,       \* the deadlines that have passed
  quote,        \* trade_quotes
  trade,        \* trades, by their quote
  execution,    \* the running calls of execute()
  reconciling,  \* the calls of reconcile(), by key
  claim,        \* trading_idempotency: execute()'s record by quote, reconcile()'s by key
  answers,      \* what clients were answered under each of them
  chain,        \* what became of the operation sent for each trade
  moved,        \* what came to the wallet other than by its trades, by block
  sent,         \* operations sent for each trade
  books         \* position_lots, and the balances of the posted entries

owner == <<policies, session, eligibility>>
calls == <<execution, reconciling>>
keys == <<claim, answers>>
world == <<chain, moved, sent>>
vars == <<owner, passed, quote, trade, calls, keys, world, books>>

Terminal == {"CONFIRMED", "REJECTED", "SIMULATION_FAILED", "REVERTED"}
TradeStatuses == {"none", "POLICY_APPROVED", "SIMULATED", "PENDING"} \cup Terminal

NoOffer == [side |-> "none", in |-> 0, expected |-> 0, min |-> 0]
NoControls == [policy |-> 0, session |-> 0, eligibility |-> 0]
NoQuote == [status |-> "none", offer |-> NoOffer, policy |-> 0, eligibility |-> 0]
NoTrade == [status |-> "none", policy |-> 0, call |-> FALSE, in |-> 0, out |-> 0]
NoExecution == [step |-> "idle", controls |-> NoControls]
Unused == [step |-> "unused", of |-> "none", trade |-> NoTrade]
NoFill == [state |-> "none", block |-> 0, out |-> 0]
NoMovement == [usdg |-> 0, stock |-> 0]
NoSession == [id |-> 0, policy |-> 0, live |-> FALSE]

\* What the tables may hold.
Versions == 0..Len(Decisions)
PolicyRows == {SubSeq(Decisions, 1, n) : n \in Versions}
Session == [id: 0..MaxSessions, policy: Versions, live: BOOLEAN]
Eligibility == [state: {"UNKNOWN", "ELIGIBLE", "INELIGIBLE", "EXPIRED"}, version: 0..MaxEligibility]
QuoteRow == [status: {"none", "reading", "QUOTED", "EXPIRED", "CONSUMED"}, offer: Offers \cup {NoOffer},
             policy: Versions, eligibility: 0..MaxEligibility]
Trade == [status: TradeStatuses, policy: Versions, call: BOOLEAN, in: Nat, out: Nat]
Books == [units: [Quotes -> Nat], cost: [Quotes -> Nat], cash: Int, stock: Int, pnl: Int]
IdempotencyRow == {"none", "open"} \cup TradeStatuses

Init ==
  /\ policies = <<>>
  /\ session = NoSession
  /\ eligibility = [state |-> "UNKNOWN", version |-> 0]
  /\ passed = {}
  /\ quote = [q \in Quotes |-> NoQuote]
  /\ trade = [q \in Quotes |-> NoTrade]
  /\ execution = [q \in Quotes |-> NoExecution]
  /\ reconciling = [k \in Keys |-> Unused]
  /\ claim = [k \in Quotes \cup Keys |-> "none"]
  /\ answers = [k \in Quotes \cup Keys |-> {}]
  /\ chain = [q \in Quotes |-> NoFill]
  /\ moved = [b \in 1..MaxBlock |-> NoMovement]
  /\ sent = [q \in Quotes |-> 0]
  /\ books = [units |-> [q \in Quotes |-> 0], cost |-> [q \in Quotes |-> 0],
              cash |-> 0, stock |-> 0, pnl |-> 0]

------------------------------------------------------------------------------
(* The owner.                                                              *)

Policy == policies[Len(policies)]

RefreshEligibility(state) ==
  /\ eligibility.version < MaxEligibility
  /\ eligibility' = [state |-> state, version |-> eligibility.version + 1]
  /\ UNCHANGED <<policies, session, passed, quote, trade, calls, keys, world, books>>

Eligible == eligibility.state = "ELIGIBLE"

\* effectiveEligibility: an attestation lapses with time.
LapseEligibility ==
  /\ Eligible
  /\ eligibility' = [eligibility EXCEPT !.state = "EXPIRED"]
  /\ UNCHANGED <<policies, session, passed, quote, trade, calls, keys, world, books>>

\* A new version; a session of an earlier one is revoked with it.
UpdatePolicy ==
  /\ Len(policies) < Len(Decisions)
  /\ LET p == Decisions[Len(policies) + 1] IN
     /\ p.enabled => Eligible
     /\ policies' = Append(policies, p)
  /\ session' = [session EXCEPT !.live = FALSE]
  /\ passed' = passed \ {"policy"}
  /\ UNCHANGED <<eligibility, quote, trade, calls, keys, world, books>>

\* The previous session, if it is still live, is revoked.
RegisterSession ==
  /\ session.id < MaxSessions
  /\ policies # <<>> /\ Policy.enabled /\ Eligible
  /\ session' = [id |-> session.id + 1, policy |-> Len(policies), live |-> TRUE]
  /\ UNCHANGED <<policies, eligibility, passed, quote, trade, calls, keys, world, books>>

RevokeSession ==
  /\ session.live
  /\ session' = [session EXCEPT !.live = FALSE]
  /\ UNCHANGED <<policies, eligibility, passed, quote, trade, calls, keys, world, books>>

\* The policy's (and its session's) or a quote's time is up.
Elapse(deadline) ==
  /\ deadline \notin passed
  /\ \/ deadline = "policy" /\ policies # <<>>
     \/ deadline \in Quotes /\ (quote[deadline].status = "QUOTED" \/ execution[deadline].step # "idle")
  /\ passed' = passed \cup {deadline}
  /\ UNCHANGED <<owner, quote, trade, calls, keys, world, books>>

------------------------------------------------------------------------------
(* What the limits are computed from.                                      *)

Confirmed(side) == {q \in Quotes : trade[q].status = "CONFIRMED" /\ quote[q].offer.side = side}
Landed(side) == {q \in Quotes : chain[q].state = "landed" /\ quote[q].offer.side = side}

\* What was quoted, what the chain did, what the trades record.
OfferedIn == [q \in Quotes |-> quote[q].offer.in]
LandedOut == [q \in Quotes |-> chain[q].out]
TradedIn == [q \in Quotes |-> trade[q].in]
TradedOut == [q \in Quotes |-> trade[q].out]

Total(f, S) == MapThenSumSet(LAMBDA q : f[q], S)

DailyInvestment == Total(TradedIn, Confirmed("BUY"))
Proceeds == Total(TradedOut, Confirmed("SELL"))

\* capital: verified earnings, less purchases, plus the proceeds of sales.
Available == Earned - DailyInvestment + Proceeds

\* lots: what the company holds by its books.
Held == Total(books.units, Quotes)

\* positionValue: what that is worth.
Exposure == Held * Price

\* tokenBalance: what the wallet holds on the chain.
Transferred(token) == MapThenSumSet(LAMBDA b : moved[b][token], 1..MaxBlock)
WalletUsdg ==
  Earned + Deposit + Transferred("usdg") - Total(OfferedIn, Landed("BUY")) + Total(LandedOut, Landed("SELL"))
WalletStock ==
  Transferred("stock") + Total(LandedOut, Landed("BUY")) - Total(OfferedIn, Landed("SELL"))

Usdg(offer) == IF offer.side = "BUY" THEN offer.in ELSE offer.expected

\* The checks quote() makes against the funds and the books.
WithinFunds(offer, p) ==
  IF offer.side = "BUY"
  THEN /\ offer.in <= Available
       /\ offer.in + p.reserve <= WalletUsdg
       /\ DailyInvestment + offer.in <= p.maxDaily
       /\ Exposure + offer.expected * Price <= p.maxExposure
  ELSE offer.in <= Held

\* activeControls, and what it returns.
Active(side) ==
  /\ policies # <<>> /\ Policy.enabled /\ side \in Policy.sides
  /\ "policy" \notin passed
  /\ Eligible
  /\ session.live /\ session.policy = Len(policies)

Controls == [policy |-> Len(policies), session |-> session.id, eligibility |-> eligibility.version]

------------------------------------------------------------------------------
(* Quotes.                                                                 *)

\* quote() reads its controls...
ReadControls(q, offer) ==
  /\ quote[q].status = "none"
  /\ Active(offer.side)
  /\ quote' = [quote EXCEPT ![q] = 
                [status |-> "reading", offer |-> offer, policy |-> Len(policies),
                 eligibility |-> eligibility.version]]
  /\ UNCHANGED <<owner, passed, trade, calls, keys, world, books>>

\* ...then takes the company's lock and checks the limits of the policy it read...
Quote(q) ==
  LET p == policies[quote[q].policy]
      offer == quote[q].offer
  IN
  /\ quote[q].status = "reading"
  /\ Usdg(offer) <= p.maxTrade
  /\ WithinFunds(offer, p)
  /\ quote' = [quote EXCEPT ![q].status = "QUOTED"]
  /\ UNCHANGED <<owner, passed, trade, calls, keys, world, books>>

\* ...or refuses, for a limit or for anything else, and leaves nothing.
RefuseQuote(q) ==
  /\ quote[q].status = "reading"
  /\ quote' = [quote EXCEPT ![q] = NoQuote]
  /\ UNCHANGED <<owner, passed, trade, calls, keys, world, books>>

------------------------------------------------------------------------------
(* execute(): prepareTrade, then the steps outside any transaction.        *)

\* A quote past its deadline is marked so, and refused.
ExpireQuote(q) ==
  /\ quote[q].status = "QUOTED" /\ q \in passed
  /\ quote' = [quote EXCEPT ![q].status = "EXPIRED"]
  /\ UNCHANGED <<owner, passed, trade, calls, keys, world, books>>

UsableUntilFinal(q) == quote[q].status \in {"QUOTED", "CONSUMED"} /\ trade[q].status \notin Terminal
Usable(q) == trade[q].status = "none" /\ quote[q].status = "QUOTED"

QuotedUnderAnyPolicy(q) == TRUE
QuotedUnder(q) ==
  /\ quote[q].policy = Len(policies)
  /\ quote[q].eligibility = eligibility.version

\* Whatever key the call has, a quote is used once.  The limits WithinFunds
\* checks are not checked again.
PrepareTrade(q) ==
  /\ Usable(q) /\ q \notin passed
  /\ Active(quote[q].offer.side) /\ QuotedUnder(q)
  /\ quote' = [quote EXCEPT ![q].status = "CONSUMED"]
  /\ trade' = [trade EXCEPT ![q] = [NoTrade EXCEPT !.status = "POLICY_APPROVED",
                                                   !.policy = Len(policies)]]
  /\ execution' = [execution EXCEPT ![q] = [step |-> "approved", controls |-> Controls]]
  /\ claim' = [claim EXCEPT ![q] = "open"]
  /\ UNCHANGED <<owner, passed, reconciling, answers, world, books>>

\* normic_guard_trade: the statements of saveTrade that the database takes.
TradeGuard(old, new) ==
  \/ old = new
  \/ old.status \notin Terminal /\ new.status = old.status
  \/ old.status = "POLICY_APPROVED" /\ new.status \in {"SIMULATED", "SIMULATION_FAILED", "REJECTED"}
  \/ old.status = "SIMULATED" /\ new.status \in {"PENDING", "REJECTED", "REVERTED"}
  \/ old.status = "PENDING" /\ new.status \in {"CONFIRMED", "REVERTED"}

SaveTrade(q, new) ==
  /\ TradeGuard(trade[q], new)
  /\ trade' = [trade EXCEPT ![q] = new]

Complete(k, answer) ==
  /\ claim' = [claim EXCEPT ![k] = answer]
  /\ answers' = [answers EXCEPT ![k] = @ \cup {answer}]

To(q, step) == execution' = [execution EXCEPT ![q].step = step]
EndExecution(q) == execution' = [execution EXCEPT ![q] = NoExecution]

Simulate(q) ==
  /\ execution[q].step = "approved"
  /\ SaveTrade(q, [trade[q] EXCEPT !.status = "SIMULATED"])
  /\ To(q, "simulated")
  /\ UNCHANGED <<owner, passed, quote, reconciling, keys, world, books>>

\* The simulation, or the revalidation, refuses: the last save of the call.
Reject(q) ==
  /\ \/ /\ execution[q].step = "approved"
        /\ SaveTrade(q, [trade[q] EXCEPT !.status = "SIMULATION_FAILED"])
        /\ Complete(q, "SIMULATION_FAILED")
     \/ /\ execution[q].step = "simulated"
        /\ SaveTrade(q, [trade[q] EXCEPT !.status = "REJECTED"])
        /\ Complete(q, "REJECTED")
  /\ EndExecution(q)
  /\ UNCHANGED <<owner, passed, quote, reconciling, world, books>>

Unchanged(q) == Controls = execution[q].controls

RevalidateBeforeBroadcast(q) ==
  /\ execution[q].step = "simulated"
  /\ Active(quote[q].offer.side) /\ Unchanged(q)
  /\ q \notin passed
  /\ To(q, "revalidated")
  /\ UNCHANGED <<owner, passed, quote, trade, reconciling, keys, world, books>>

SavePending(q) ==
  /\ execution[q].step = "revalidated"
  /\ SaveTrade(q, [trade[q] EXCEPT !.status = "PENDING"])
  /\ To(q, "pending")
  /\ UNCHANGED <<owner, passed, quote, reconciling, keys, world, books>>

\* wallets.execute sends the operation and answers with its id, or fails to
\* answer; or it fails before it sends.
Broadcast(q) ==
  /\ execution[q].step = "pending"
  /\ q \notin passed
  /\ sent' = [sent EXCEPT ![q] = @ + 1]
  /\ chain' = [chain EXCEPT ![q].state = "sent"]
  /\ To(q, "called") \/ To(q, "unknown")
  /\ UNCHANGED <<owner, passed, quote, trade, reconciling, keys, moved, books>>

BroadcastFails(q) ==
  /\ execution[q].step = "pending"
  /\ To(q, "unknown")
  /\ UNCHANGED <<owner, passed, quote, trade, reconciling, keys, world, books>>

\* The id is saved, from the trade the call remembers.  If that answer is
\* lost, the catch saves the same row again.
Remembered(q) == [NoTrade EXCEPT !.status = "PENDING", !.policy = trade[q].policy, !.call = TRUE]

SaveCall(q) ==
  /\ execution[q].step \in {"called", "saved"}
  /\ SaveTrade(q, Remembered(q))
  /\ To(q, "completing") \/ (execution[q].step = "called" /\ To(q, "saved"))
  /\ UNCHANGED <<owner, passed, quote, reconciling, keys, world, books>>

\* broadcast_status_unknown_do_not_retry
SaveUnknown(q) ==
  /\ execution[q].step = "unknown"
  /\ SaveTrade(q, [trade[q] EXCEPT !.status = "PENDING"])
  /\ To(q, "completing")
  /\ UNCHANGED <<owner, passed, quote, reconciling, keys, world, books>>

CompleteExecution(q) ==
  /\ execution[q].step = "completing"
  /\ Complete(q, "PENDING")
  /\ EndExecution(q)
  /\ UNCHANGED <<owner, passed, quote, trade, reconciling, world, books>>

\* The process stops, or a save throws.
CrashExecution(q) ==
  /\ execution[q].step # "idle"
  /\ EndExecution(q)
  /\ UNCHANGED <<owner, passed, quote, trade, reconciling, keys, world, books>>

\* A retry under a completed key is answered from its record; under an open
\* one it is refused.
Replay(k) ==
  /\ claim[k] \notin {"none", "open"}
  /\ answers' = [answers EXCEPT ![k] = @ \cup {claim[k]}]
  /\ UNCHANGED <<owner, passed, quote, trade, calls, claim, world, books>>

------------------------------------------------------------------------------
(* The chain.                                                              *)

LastBlock == Max({0} \cup {chain[q].block : q \in Quotes} \cup {b \in 1..MaxBlock : moved[b] # NoMovement})

\* The block the wallet's next operation may be in: the last one, or a new one.
\* A settlement reads a final block, which no operation joins any more.
Open(block) ==
  /\ block \in 1..MaxBlock /\ block \in {LastBlock, LastBlock + 1}
  /\ \A q \in Quotes : trade[q].status = "CONFIRMED" => chain[q].block # block

\* The operation is included.
Land(q, block, out) ==
  LET offer == quote[q].offer IN
  /\ chain[q].state = "sent"
  /\ Open(block)
  /\ out \in {offer.min, offer.expected}
  /\ offer.in <= (IF offer.side = "BUY" THEN WalletUsdg ELSE WalletStock)
  /\ chain' = [chain EXCEPT ![q] = [state |-> "landed", block |-> block, out |-> out]]
  /\ UNCHANGED <<owner, passed, quote, trade, calls, keys, moved, sent, books>>

\* An escrow pays the wallet or is funded from it, or anyone pays it.
Transfer(block, movement) ==
  /\ Open(block) /\ moved[block] = NoMovement
  /\ WalletUsdg + movement.usdg >= 0 /\ WalletStock + movement.stock >= 0
  /\ moved' = [moved EXCEPT ![block] = movement]
  /\ UNCHANGED <<owner, passed, quote, trade, calls, keys, chain, sent, books>>

Revert(q) ==
  /\ chain[q].state = "sent"
  /\ chain' = [chain EXCEPT ![q].state = "failed"]
  /\ UNCHANGED <<owner, passed, quote, trade, calls, keys, moved, sent, books>>

------------------------------------------------------------------------------
(* reconcile().                                                            *)

\* A record without an answer stays in progress for ever; it may be another
\* process's.
UnclaimedOrAnswered(k) == reconciling[k].step # "claimed"
Unclaimed(k) == claim[k] = "none"

\* A trade that is final, or that the provider can be asked about.
ClaimReconciliation(k, q) ==
  /\ Unclaimed(k)
  /\ trade[q].status \in {"CONFIRMED", "REVERTED", "REJECTED"} \/ trade[q].call
  /\ claim' = [claim EXCEPT ![k] = "open"]
  /\ reconciling' = [reconciling EXCEPT ![k] = [step |-> "claimed", of |-> q, trade |-> trade[q]]]
  /\ UNCHANGED <<owner, passed, quote, trade, execution, answers, world, books>>

EndReconciliation(k) == reconciling' = [reconciling EXCEPT ![k] = [Unused EXCEPT !.step = "done"]]

\* The trade was final, or the provider says it is pending, or does not know.
AnswerAsRead(k) ==
  /\ reconciling[k].step = "claimed"
  /\ Complete(k, reconciling[k].trade.status)
  /\ EndReconciliation(k)
  /\ UNCHANGED <<owner, passed, quote, trade, execution, world, books>>

\* The failure is saved into the trade as the claim read it, without the
\* company's lock.
SaveReverted(k) ==
  LET r == reconciling[k] IN
  /\ r.step = "claimed" /\ r.trade.status \notin Terminal
  /\ chain[r.of].state = "failed"
  /\ SaveTrade(r.of, [r.trade EXCEPT !.status = "REVERTED"])
  /\ Complete(k, "REVERTED")
  /\ EndReconciliation(k)
  /\ UNCHANGED <<owner, passed, quote, execution, world, books>>

\* What the wallet gained and lost in a trade's block: by the trades in it, and
\* otherwise.
InBlock(q, side) == {p \in Landed(side) : chain[p].block = chain[q].block}
Spent(q, side) == Total(OfferedIn, InBlock(q, side))
Received(q, side) == Total(LandedOut, InBlock(q, side))
Other(side) == IF side = "BUY" THEN "SELL" ELSE "BUY"

Pays(side) == IF side = "BUY" THEN "usdg" ELSE "stock"
Came(q, token) == moved[chain[q].block][token]

ActualIn(q) ==
  LET side == quote[q].offer.side IN Spent(q, side) - Received(q, Other(side)) - Came(q, Pays(side))
ActualOut(q) ==
  LET side == quote[q].offer.side IN Received(q, side) - Spent(q, Other(side)) + Came(q, Pays(Other(side)))

\* verifySettlement: the changes of the wallet's balances over the block must
\* be the quote's.
VerifyOutput(q) == ActualIn(q) > 0 /\ ActualOut(q) >= quote[q].offer.min
VerifySettlement(q) == ActualIn(q) = quote[q].offer.in /\ ActualOut(q) >= quote[q].offer.min

\* applySettlement, a purchase: a lot at cost.
BookPurchase(q) ==
  books' = [books EXCEPT !.units[q] = ActualOut(q), !.cost[q] = ActualIn(q),
                         !.cash = @ - ActualIn(q), !.stock = @ + ActualIn(q)]

\* A sale takes the oldest lots first, by block and then by id, and of the last
\* one its share of the cost, rounded down.
Before(o, p) ==
  \/ chain[o].block < chain[p].block
  \/ chain[o].block = chain[p].block /\ LotId[o] < LotId[p]
Older(p) == Total(books.units, {o \in Quotes : Before(o, p)})
Consumed(p, n) == Min({books.units[p], Max({0, n - Older(p)})})
Allocated(p, n) ==
  IF Consumed(p, n) = books.units[p] THEN books.cost[p]
  ELSE (books.cost[p] * Consumed(p, n)) \div books.units[p]

BookSale(q) ==
  LET n == ActualIn(q)
      cost == Total([p \in Quotes |-> Allocated(p, n)], Quotes)
  IN
  /\ n <= Held
  /\ books' = [units |-> [p \in Quotes |-> books.units[p] - Consumed(p, n)],
               cost |-> [p \in Quotes |-> books.cost[p] - Allocated(p, n)],
               cash |-> books.cash + ActualOut(q),
               stock |-> books.stock - cost,
               pnl |-> books.pnl + ActualOut(q) - cost]

\* The settlement, the lots, the entry and the trade, under the company's lock.
Settle(k) ==
  LET q == reconciling[k].of IN
  /\ reconciling[k].step = "claimed" /\ reconciling[k].trade.status \notin Terminal
  /\ chain[q].state = "landed" /\ VerifySettlement(q)
  /\ trade[q].status # "CONFIRMED"
  /\ SaveTrade(q, [trade[q] EXCEPT !.status = "CONFIRMED", !.in = ActualIn(q), !.out = ActualOut(q)])
  /\ IF quote[q].offer.side = "BUY" THEN BookPurchase(q) ELSE BookSale(q)
  /\ Complete(k, "CONFIRMED")
  /\ EndReconciliation(k)
  /\ UNCHANGED <<owner, passed, quote, execution, world>>

\* Another call was first: this one answers, and leaves its key open.
AlreadySettled(k) ==
  LET q == reconciling[k].of IN
  /\ reconciling[k].step = "claimed" /\ reconciling[k].trade.status \notin Terminal
  /\ chain[q].state = "landed" /\ VerifySettlement(q)
  /\ trade[q].status = "CONFIRMED"
  /\ answers' = [answers EXCEPT ![k] = @ \cup {"CONFIRMED"}]
  /\ EndReconciliation(k)
  /\ UNCHANGED <<owner, passed, quote, trade, execution, claim, world, books>>

\* An error, or a crash: the key stays open.
AbandonReconciliation(k) ==
  /\ reconciling[k].step = "claimed"
  /\ EndReconciliation(k)
  /\ UNCHANGED <<owner, passed, quote, trade, execution, keys, world, books>>

------------------------------------------------------------------------------
Next ==
  \/ \E state \in Assessments : RefreshEligibility(state)
  \/ LapseEligibility
  \/ UpdatePolicy
  \/ RegisterSession
  \/ RevokeSession
  \/ \E deadline \in {"policy"} \cup Quotes : Elapse(deadline)
  \/ \E q \in Quotes :
       \/ \E offer \in Offers : ReadControls(q, offer)
       \/ Quote(q) \/ RefuseQuote(q) \/ ExpireQuote(q)
       \/ PrepareTrade(q) \/ Simulate(q) \/ Reject(q)
       \/ RevalidateBeforeBroadcast(q) \/ SavePending(q)
       \/ Broadcast(q) \/ BroadcastFails(q) \/ SaveCall(q) \/ SaveUnknown(q)
       \/ CompleteExecution(q) \/ CrashExecution(q)
       \/ \E block \in 1..MaxBlock, out \in {offer.min : offer \in Offers}
                                                   \cup {offer.expected : offer \in Offers} :
            Land(q, block, out)
       \/ Revert(q)
  \/ \E block \in 1..MaxBlock, movement \in Movements : Transfer(block, movement)
  \/ \E k \in Quotes \cup Keys : Replay(k)
  \/ \E k \in Keys :
       \/ \E q \in Quotes : ClaimReconciliation(k, q)
       \/ AnswerAsRead(k) \/ SaveReverted(k) \/ Settle(k) \/ AlreadySettled(k)
       \/ AbandonReconciliation(k)

Spec == Init /\ [][Next]_vars

------------------------------------------------------------------------------
(* Properties.                                                             *)

\* Every row and every call has its type.
TypeOK ==
  /\ policies \in PolicyRows
  /\ session \in Session
  /\ eligibility \in Eligibility
  /\ books \in Books
  /\ passed \subseteq {"policy"} \cup Quotes
  /\ \A q \in Quotes :
       /\ quote[q] \in QuoteRow
       /\ trade[q] \in Trade
       /\ execution[q].step = "idle" => execution[q] = NoExecution
       /\ execution[q].step \in {"idle", "approved", "simulated", "revalidated", "pending",
                                  "called", "saved", "unknown", "completing"}
       /\ chain[q].state \in {"none", "sent", "landed", "failed"}
  /\ \A k \in Keys : reconciling[k].step \in {"unused", "claimed", "done"}
  /\ \A k \in Quotes \cup Keys :
       /\ claim[k] \in IdempotencyRow
       /\ answers[k] \subseteq TradeStatuses

\* A trade that had its block for itself.
Alone(q) ==
  /\ \A p \in Quotes : chain[p].state = "landed" /\ chain[p].block = chain[q].block => p = q
  /\ moved[chain[q].block] = NoMovement

\* Whatever reconciliations run at once, in whatever order and company trades
\* reach the chain: what is confirmed has happened, cost what was quoted and is
\* booked at no less than the quote's minimum; what had its block for itself is
\* booked as the chain did it; and the lots hold the units booked and not sold,
\* at what is left of their cost, with entries that balance.
BooksMatchChain ==
  /\ \A q \in Confirmed("BUY") \cup Confirmed("SELL") :
       /\ chain[q].state = "landed"
       /\ trade[q].in = quote[q].offer.in /\ trade[q].out >= quote[q].offer.min
       /\ Alone(q) => trade[q].out = chain[q].out
  /\ Held = Total(TradedOut, Confirmed("BUY")) - Total(TradedIn, Confirmed("SELL"))
  /\ books.cash = Proceeds - DailyInvestment
  /\ books.stock = Total(books.cost, Quotes)
  /\ books.cash + books.stock = books.pnl
  /\ \A q \in Quotes : books.units[q] = 0 => books.cost[q] = 0

\* A quote is broadcast once at most, however it is retried and wherever
\* execute() stops, and only behind a trade that is already marked PENDING:
\* no operation is on its way that the records do not know of.
BroadcastOnce ==
  \A q \in Quotes : sent[q] <= 1 /\ (sent[q] = 1 => trade[q].status \in {"PENDING", "CONFIRMED", "REVERTED"})

\* The policy a trade was approved under, and keeps, is one that allows it,
\* although the quote checked the limits of a policy it read before the lock.
ApprovedUnderItsPolicy ==
  \A q \in Quotes : trade[q].status # "none" =>
    LET p == policies[trade[q].policy] IN
    /\ p.enabled /\ quote[q].offer.side \in p.sides
    /\ Usdg(quote[q].offer) <= p.maxTrade

\* All the calls under one key are given the same answer.
OneAnswerPerKey == \A k \in Quotes \cup Keys : Cardinality(answers[k]) <= 1

\* What is final stays as it is, although execute() and reconcile() save
\* trades they read earlier.
TerminalIsFinal ==
  [][\A q \in Quotes : trade[q].status \in Terminal => trade'[q] = trade[q]]_vars

\* TRADING_POLICY.md:7: "Every quote and execution rechecks ... earned
\* capital, wallet cash/reserve, daily spend, exposures".
ExecutionRechecksLimits ==
  [][\A q \in Quotes : trade[q].status = "none" /\ trade'[q].status # "none"
       => WithinFunds(quote[q].offer, Policy)]_vars

\* PORTFOLIO_ACCOUNTING.md:15: "Owner capital, external transfers, and
\* unattributed transfers are recorded separately and contribute zero to
\* autonomous investable capital": what sales add to the capital is what they
\* brought in on the chain.
TransfersAddNoCapital == Available <= Earned - DailyInvestment + Total(LandedOut, Confirmed("SELL"))
=============================================================================
