---------------------------- MODULE TradingProofs ----------------------------
(***************************************************************************)
(* What holds of stock token trading for every number of quotes, policies, *)
(* reconciliations and crashes: a quote is broadcast once at most and only *)
(* behind a trade marked PENDING, every trade is within the policy it was  *)
(* approved under, the calls under one key get one answer, and the books   *)
(* are what the trades did on the chain.                                   *)
(*                                                                         *)
(* The control comes first: there the tables are functions of known fields *)
(* and amounts are left open.  The books, sums over sets of trades, follow *)
(* in the second half with an invariant of their own.                      *)
(*                                                                         *)
(* Last comes the cache of market data that trading reads prices from: an  *)
(* answer is as old as its mark allows, and upstream requests keep apart.  *)
(***************************************************************************)
EXTENDS Trading, MarketData, Sums

\* A table, and the fields of its rows.
Table(f, S) == f = [x \in S |-> f[x]]
IsQuote(row) == row = [status |-> row.status, offer |-> row.offer, policy |-> row.policy,
                       eligibility |-> row.eligibility]
IsTrade(row) == row = [status |-> row.status, policy |-> row.policy, call |-> row.call,
                       in |-> row.in, out |-> row.out]
IsExecution(row) == row = [step |-> row.step, controls |-> row.controls]
IsFill(row) == row = [state |-> row.state, block |-> row.block, out |-> row.out]

PolicyRecord == [enabled: BOOLEAN, sides: SUBSET {"BUY", "SELL"}, maxTrade: Nat,
                 maxDaily: Nat, maxExposure: Nat, reserve: Nat]

Shape ==
  /\ policies \in Seq(PolicyRecord)
  /\ Table(quote, Quotes) /\ Table(trade, Quotes) /\ Table(execution, Quotes)
  /\ Table(chain, Quotes) /\ Table(sent, Quotes) /\ Table(reconciling, Keys)
  /\ Table(claim, Quotes \cup Keys) /\ Table(answers, Quotes \cup Keys)
  /\ \A q \in Quotes :
       /\ IsQuote(quote[q]) /\ IsTrade(trade[q]) /\ IsExecution(execution[q]) /\ IsFill(chain[q])
       /\ trade[q].status \in TradeStatuses

\* A quote holds to the policy it was made under, and so does its trade.
PolicyOf(q) ==
  LET row == quote[q]
      p == policies[row.policy]
  IN
  /\ row.status \in {"none", "reading", "QUOTED", "EXPIRED", "CONSUMED"}
  /\ row.status # "none" =>
       row.policy \in 1..Len(policies) /\ p.enabled /\ row.offer.side \in p.sides
  /\ row.status \in {"QUOTED", "EXPIRED", "CONSUMED"} => Usdg(row.offer) <= p.maxTrade
  /\ trade[q].status # "none" => trade[q].policy = row.policy

\* A quote, its trade and execute()'s key are used up together.
UseOf(q) ==
  /\ trade[q].status = "none" <=> quote[q].status # "CONSUMED"
  /\ trade[q].status = "none" <=> claim[q] = "none"
  /\ trade[q].status = "none" => execution[q].step = "idle" /\ ~trade[q].call

\* How far a running execute() is says what it has saved and sent.
ExecutionOf(q) ==
  LET step == execution[q].step IN
  /\ step \in {"idle", "approved", "simulated", "revalidated", "pending",
               "called", "saved", "unknown", "completing"}
  /\ step # "idle" => claim[q] = "open" /\ answers[q] = {}
  /\ step = "approved" => trade[q].status = "POLICY_APPROVED"
  /\ step \in {"simulated", "revalidated"} => trade[q].status = "SIMULATED"
  /\ step \in {"pending", "called", "unknown"} => trade[q].status = "PENDING" /\ ~trade[q].call
  /\ step = "pending" => sent[q] = 0
  /\ step = "called" => sent[q] = 1
  /\ step = "saved" => trade[q].call

\* An operation is sent once, behind the mark, and the provider's id is of one
\* that was sent.
SentOf(q) ==
  /\ sent[q] \in {0, 1}
  /\ sent[q] = 0 <=> chain[q].state = "none"
  /\ sent[q] = 1 => trade[q].status \in {"PENDING", "CONFIRMED", "REVERTED"}
  /\ trade[q].call => sent[q] = 1

\* A record's answer is the only one given; a call that answers without its
\* record leaves it open, and says that the trade is confirmed.
AnswerOf(k) ==
  /\ claim[k] = "none" => answers[k] = {}
  /\ claim[k] = "open" => answers[k] \subseteq {"CONFIRMED"}
  /\ claim[k] \notin {"none", "open"} => answers[k] \subseteq {claim[k]}

\* A reconciliation has its key for itself, and read a trade that it may only
\* find further on.
ReconciliationOf(k) ==
  LET r == reconciling[k] IN
  r.step = "claimed" =>
    /\ claim[k] = "open" /\ answers[k] = {}
    /\ r.of \in Quotes /\ IsTrade(r.trade) /\ r.trade.status \in TradeStatuses \ {"none"}
    /\ trade[r.of].status # "none" /\ r.trade.policy = trade[r.of].policy
    /\ r.trade.status \in Terminal \/ (r.trade.call /\ trade[r.of].call)

QuoteInv(q) == PolicyOf(q) /\ UseOf(q) /\ ExecutionOf(q) /\ SentOf(q) /\ AnswerOf(q)
KeyInv(k) == AnswerOf(k) /\ ReconciliationOf(k)

IInv ==
  /\ Shape
  /\ \A q \in Quotes : QuoteInv(q)
  /\ \A k \in Keys : KeyInv(k)

------------------------------------------------------------------------------
(* What a step leaves.                                                     *)

\* A trade that exists keeps its policy and the provider's id.
Kept(q) ==
  trade[q].status # "none" =>
    /\ trade'[q].status # "none" /\ trade'[q].policy = trade[q].policy
    /\ trade[q].call => trade'[q].call

Untouched(q) ==
  UNCHANGED <<quote[q], trade[q], execution[q], chain[q], sent[q], claim[q], answers[q]>>

LEMMA QuoteUntouched ==
  ASSUME IInv, NEW q \in Quotes, Untouched(q),
         \A i \in 1..Len(policies) : i \in 1..Len(policies)' /\ policies'[i] = policies[i]
  PROVE  QuoteInv(q)' /\ Kept(q)
BY DEF IInv, QuoteInv, PolicyOf, UseOf, ExecutionOf, SentOf, AnswerOf, Untouched, Kept

LEMMA KeyUntouched ==
  ASSUME IInv, NEW k \in Keys, UNCHANGED <<reconciling[k], claim[k], answers[k]>>,
         \A q \in Quotes : Kept(q)
  PROVE  KeyInv(k)'
BY DEF IInv, KeyInv, AnswerOf, ReconciliationOf, Kept

\* A step on one quote.
LEMMA QuoteMoves ==
  ASSUME IInv, UNCHANGED <<policies, reconciling>>, Shape', NEW q \in Quotes, QuoteInv(q)', Kept(q),
         \A p \in Quotes \ {q} : Untouched(p),
         \A k \in Keys : UNCHANGED <<claim[k], answers[k]>>
  PROVE  IInv'
<1>1. \A p \in Quotes \ {q} : QuoteInv(p)' /\ Kept(p)
  BY QuoteUntouched
<1>2. \A k \in Keys : KeyInv(k)'
  BY <1>1, KeyUntouched
<1> QED BY <1>1, <1>2 DEF IInv

\* A step of one reconciliation, which may save its trade.
LEMMA KeyMoves ==
  ASSUME IInv, UNCHANGED <<policies, quote, execution, chain, sent>>, Shape',
         NEW k \in Keys, KeyInv(k)',
         \A j \in Keys \ {k} : UNCHANGED <<reconciling[j], claim[j], answers[j]>>,
         \A p \in Quotes : UNCHANGED <<claim[p], answers[p]>>,
         NEW q \in Quotes, QuoteInv(q)', Kept(q), \A p \in Quotes \ {q} : UNCHANGED trade[p]
  PROVE  IInv'
<1>1. \A p \in Quotes \ {q} : QuoteInv(p)' /\ Kept(p)
  BY QuoteUntouched DEF Untouched
<1>2. \A j \in Keys \ {k} : KeyInv(j)'
  BY <1>1, KeyUntouched
<1> QED BY <1>1, <1>2 DEF IInv

------------------------------------------------------------------------------
(* The steps.                                                              *)

LEMMA InitIInv == Init => IInv
<1> SUFFICES ASSUME Init PROVE IInv
  OBVIOUS
<1>1. Shape
  BY DEF Init, Shape, Table, IsQuote, IsTrade, IsExecution, IsFill, NoQuote, NoTrade, NoExecution,
         NoFill, TradeStatuses
<1>2. \A q \in Quotes : QuoteInv(q)
  BY DEF Init, QuoteInv, PolicyOf, UseOf, ExecutionOf, SentOf, AnswerOf, NoQuote, NoTrade,
         NoExecution, NoFill
<1>3. \A k \in Keys : KeyInv(k)
  BY DEF Init, KeyInv, AnswerOf, ReconciliationOf, Unused
<1> QED BY <1>1, <1>2, <1>3 DEF IInv

\* The owner, the provider of eligibility and the clock move no trade.
LEMMA OwnerSteps ==
  ASSUME IInv,
         \/ \E state \in Assessments : RefreshEligibility(state)
         \/ LapseEligibility \/ UpdatePolicy \/ RegisterSession \/ RevokeSession
         \/ \E deadline \in {"policy"} \cup Quotes : Elapse(deadline)
         \/ \E block \in 1..MaxBlock, movement \in Movements : Transfer(block, movement)
  PROVE  IInv'
<1>1. UNCHANGED <<quote, trade, execution, reconciling, claim, answers, chain, sent>>
  BY DEF RefreshEligibility, LapseEligibility, UpdatePolicy, RegisterSession, RevokeSession, Elapse,
         Transfer, calls, keys, world
<1>2. /\ policies' \in Seq(PolicyRecord)
      /\ \A i \in 1..Len(policies) : i \in 1..Len(policies)' /\ policies'[i] = policies[i]
  <2>1. CASE UpdatePolicy
    <3>1. Decisions \in Seq(PolicyRecord) /\ policies \in Seq(PolicyRecord)
      BY TradingAssumption DEF PolicyRecord, IInv, Shape
    <3>2. Len(policies) < Len(Decisions) /\ policies' = Append(policies, Decisions[Len(policies) + 1])
      BY <2>1 DEF UpdatePolicy
    <3>3. Decisions[Len(policies) + 1] \in PolicyRecord
      BY <3>1, <3>2
    <3> QED BY <3>1, <3>2, <3>3
  <2>2. CASE ~UpdatePolicy
    BY <2>2 DEF RefreshEligibility, LapseEligibility, RegisterSession, RevokeSession, Elapse, Transfer, owner,
       IInv, Shape
  <2> QED BY <2>1, <2>2
<1>3. Shape'
  BY <1>1, <1>2 DEF IInv, Shape, Table
<1>4. \A q \in Quotes : QuoteInv(q)' /\ Kept(q)
  BY <1>1, <1>2, QuoteUntouched DEF Untouched
<1>5. \A k \in Keys : KeyInv(k)'
  BY <1>1, <1>4, KeyUntouched
<1> QED BY <1>3, <1>4, <1>5 DEF IInv

\* What is known of a quote and of its rows.
LEMMA QuoteKnown ==
  ASSUME IInv, NEW q \in Quotes
  PROVE  /\ IsQuote(quote[q]) /\ IsTrade(trade[q]) /\ IsExecution(execution[q]) /\ IsFill(chain[q])
         /\ trade[q].status \in TradeStatuses
         /\ PolicyOf(q) /\ UseOf(q) /\ ExecutionOf(q) /\ SentOf(q) /\ AnswerOf(q)
         /\ q \notin Keys
BY TradingAssumption DEF IInv, Shape, QuoteInv

\* A step writes the rows of one quote, and of its key.
At(f, g, S, q) == g = [x \in S |-> IF x = q THEN g[q] ELSE f[x]]
WritesAt(q) ==
  /\ At(quote, quote', Quotes, q) /\ At(trade, trade', Quotes, q)
  /\ At(execution, execution', Quotes, q) /\ At(chain, chain', Quotes, q) /\ At(sent, sent', Quotes, q)
  /\ At(claim, claim', Quotes \cup Keys, q) /\ At(answers, answers', Quotes \cup Keys, q)

LEMMA QuoteStep ==
  ASSUME IInv, NEW q \in Quotes, UNCHANGED <<policies, reconciling>>, WritesAt(q),
         IsQuote(quote'[q]), IsTrade(trade'[q]), IsExecution(execution'[q]), IsFill(chain'[q]),
         trade'[q].status \in TradeStatuses, QuoteInv(q)', Kept(q)
  PROVE  IInv'
<1>1. /\ \A p \in Quotes \ {q} : Untouched(p)
      /\ \A k \in Keys : UNCHANGED <<claim[k], answers[k]>>
  BY QuoteKnown DEF WritesAt, At, Untouched
<1>2. Shape'
  BY <1>1 DEF IInv, Shape, Table, WritesAt, At, Untouched
<1> QED BY <1>1, <1>2, QuoteMoves

\* A table that is written nowhere or at one place.
LEMMA TableWrites ==
  ASSUME IInv, NEW q \in Quotes
  PROVE  /\ quote' = quote => At(quote, quote', Quotes, q)
         /\ trade' = trade => At(trade, trade', Quotes, q)
         /\ execution' = execution => At(execution, execution', Quotes, q)
         /\ chain' = chain => At(chain, chain', Quotes, q)
         /\ sent' = sent => At(sent, sent', Quotes, q)
         /\ claim' = claim => At(claim, claim', Quotes \cup Keys, q)
         /\ answers' = answers => At(answers, answers', Quotes \cup Keys, q)
         /\ \A row : quote' = [quote EXCEPT ![q] = row] => At(quote, quote', Quotes, q) /\ quote'[q] = row
         /\ \A row : trade' = [trade EXCEPT ![q] = row] => At(trade, trade', Quotes, q) /\ trade'[q] = row
         /\ \A row : execution' = [execution EXCEPT ![q] = row] =>
              At(execution, execution', Quotes, q) /\ execution'[q] = row
         /\ \A row : chain' = [chain EXCEPT ![q] = row] => At(chain, chain', Quotes, q) /\ chain'[q] = row
         /\ \A n : sent' = [sent EXCEPT ![q] = n] => At(sent, sent', Quotes, q) /\ sent'[q] = n
         /\ \A v : claim' = [claim EXCEPT ![q] = v] =>
              At(claim, claim', Quotes \cup Keys, q) /\ claim'[q] = v
         /\ \A v : answers' = [answers EXCEPT ![q] = v] =>
              At(answers, answers', Quotes \cup Keys, q) /\ answers'[q] = v
BY DEF IInv, Shape, Table, At

\* A row whose status is written keeps its other fields.
LEMMA QuoteStatusWritten ==
  ASSUME NEW r, IsQuote(r), NEW s, NEW row, row = [r EXCEPT !.status = s]
  PROVE  IsQuote(row) /\ row.status = s /\ row.offer = r.offer /\ row.policy = r.policy
<1> DEFINE a == r.status b == r.offer c == r.policy d == r.eligibility
<1>1. r = [status |-> a, offer |-> b, policy |-> c, eligibility |-> d]
  BY DEF IsQuote
<1> HIDE DEF a, b, c, d
<1>2. row = [status |-> s, offer |-> b, policy |-> c, eligibility |-> d]
  BY <1>1
<1> QED BY <1>1, <1>2 DEF IsQuote

LEMMA TradeStatusWritten ==
  ASSUME NEW r, IsTrade(r), NEW s, NEW row, row = [r EXCEPT !.status = s]
  PROVE  IsTrade(row) /\ row.status = s /\ row.call = r.call /\ row.policy = r.policy
<1> DEFINE a == r.status b == r.policy c == r.call d == r.in e == r.out
<1>1. r = [status |-> a, policy |-> b, call |-> c, in |-> d, out |-> e]
  BY DEF IsTrade
<1> HIDE DEF a, b, c, d, e
<1>2. row = [status |-> s, policy |-> b, call |-> c, in |-> d, out |-> e]
  BY <1>1
<1> QED BY <1>1, <1>2 DEF IsTrade

LEMMA StepWritten ==
  ASSUME NEW r, IsExecution(r), NEW s, NEW row, row = [r EXCEPT !.step = s]
  PROVE  IsExecution(row) /\ row.step = s
<1> DEFINE a == r.step b == r.controls
<1>1. r = [step |-> a, controls |-> b]
  BY DEF IsExecution
<1> HIDE DEF a, b
<1>2. row = [step |-> s, controls |-> b]
  BY <1>1
<1> QED BY <1>2 DEF IsExecution

LEMMA StateWritten ==
  ASSUME NEW r, IsFill(r), NEW s, NEW row, row = [r EXCEPT !.state = s]
  PROVE  IsFill(row) /\ row.state = s
<1> DEFINE a == r.state b == r.block c == r.out
<1>1. r = [state |-> a, block |-> b, out |-> c]
  BY DEF IsFill
<1> HIDE DEF a, b, c
<1>2. row = [state |-> s, block |-> b, out |-> c]
  BY <1>1
<1> QED BY <1>2 DEF IsFill

\* The database takes no change of a trade that is final, nor one that skips a step.
LEMMA Guarded ==
  ASSUME NEW old, NEW new, TradeGuard(old, new), old.status \in TradeStatuses
  PROVE  /\ old.status \in Terminal => new = old
         /\ new.status \in {"SIMULATED", "SIMULATION_FAILED"} /\ new.status # old.status =>
              old.status = "POLICY_APPROVED"
BY DEF TradeGuard, Terminal, TradeStatuses

LEMMA QuoteTableSteps ==
  ASSUME IInv, NEW q \in Quotes,
         \/ \E offer \in Offers : ReadControls(q, offer)
         \/ Quote(q) \/ RefuseQuote(q) \/ ExpireQuote(q)
  PROVE  IInv'
<1>1. UNCHANGED <<policies, reconciling, trade, execution, chain, sent, claim, answers>>
  BY DEF ReadControls, Quote, RefuseQuote, ExpireQuote, owner, calls, keys, world
<1> USE QuoteKnown, TableWrites
<1>2. ASSUME NEW row, quote' = [quote EXCEPT ![q] = row], IsQuote(row),
             quote[q].status # "CONSUMED", row.status # "CONSUMED",
             row.status \in {"none", "reading", "QUOTED", "EXPIRED"},
             row.status # "none" =>
               /\ row.policy \in 1..Len(policies) /\ policies[row.policy].enabled
               /\ row.offer.side \in policies[row.policy].sides,
             row.status \in {"QUOTED", "EXPIRED"} => Usdg(row.offer) <= policies[row.policy].maxTrade
      PROVE  IInv'
  <2>1. quote'[q] = row /\ WritesAt(q)
    BY <1>1, <1>2 DEF WritesAt
  <2>2. trade[q].status = "none"
    BY <1>2 DEF UseOf
  <2>3. PolicyOf(q)'
    BY <1>1, <1>2, <2>1, <2>2 DEF PolicyOf
  <2>4. UseOf(q)' /\ ExecutionOf(q)' /\ SentOf(q)' /\ AnswerOf(q)' /\ Kept(q)
    BY <1>1, <1>2, <2>1, <2>2 DEF UseOf, ExecutionOf, SentOf, AnswerOf, Kept
  <2> QED BY <1>1, <1>2, <2>1, <2>3, <2>4, QuoteStep DEF QuoteInv
<1>3. ASSUME NEW offer \in Offers, ReadControls(q, offer) PROVE IInv'
  <2> DEFINE row == [status |-> "reading", offer |-> offer, policy |-> Len(policies),
                     eligibility |-> eligibility.version]
  <2>1. /\ quote' = [quote EXCEPT ![q] = row] /\ quote[q].status = "none" /\ policies # <<>>
        /\ Policy.enabled /\ offer.side \in Policy.sides
    BY <1>3 DEF ReadControls, Active
  <2>2. Len(policies) \in 1..Len(policies)
    BY <2>1 DEF IInv, Shape
  <2>3. IsQuote(row) /\ row.status = "reading" /\ row.policy = Len(policies) /\ row.offer = offer
    BY DEF IsQuote
  <2> HIDE DEF row
  <2> QED BY <1>2, <2>1, <2>2, <2>3 DEF Policy
<1>4. ASSUME Quote(q) \/ ExpireQuote(q) PROVE IInv'
  <2> DEFINE status == IF Quote(q) THEN "QUOTED" ELSE "EXPIRED"
             row == [quote[q] EXCEPT !.status = status]
  <2>1. quote' = [quote EXCEPT ![q] = row] /\ quote[q].status \in {"reading", "QUOTED"}
    BY <1>4 DEF Quote, ExpireQuote
  <2>2. IsQuote(row) /\ row.status = status /\ row.policy = quote[q].policy /\ row.offer = quote[q].offer
    <3> DEFINE r == quote[q]
    <3>1. IsQuote(r) /\ row = [r EXCEPT !.status = status]
      OBVIOUS
    <3> HIDE DEF r, row, status
    <3>2. IsQuote(row) /\ row.status = status /\ row.policy = r.policy /\ row.offer = r.offer
      BY <3>1, QuoteStatusWritten
    <3> QED BY <3>2 DEF r
  <2>3. Usdg(quote[q].offer) <= policies[quote[q].policy].maxTrade
    BY <1>4 DEF Quote, ExpireQuote, PolicyOf
  <2>4. status \in {"QUOTED", "EXPIRED"}
    OBVIOUS
  <2> HIDE DEF row, status
  <2> QED BY <1>2, <2>1, <2>2, <2>3, <2>4 DEF PolicyOf
<1>5. ASSUME RefuseQuote(q) PROVE IInv'
  <2>1. quote' = [quote EXCEPT ![q] = NoQuote] /\ quote[q].status = "reading"
    BY <1>5 DEF RefuseQuote
  <2>2. IsQuote(NoQuote) /\ NoQuote.status = "none"
    BY DEF IsQuote, NoQuote
  <2> QED BY <1>2, <2>1, <2>2
<1> QED BY <1>3, <1>4, <1>5

LEMMA TradeRow ==
  ASSUME NEW a, NEW b, NEW c, NEW d, NEW e, NEW row,
         row = [status |-> a, policy |-> b, call |-> c, in |-> d, out |-> e]
  PROVE  IsTrade(row) /\ row.status = a /\ row.policy = b /\ row.call = c
BY DEF IsTrade

LEMMA PrepareTradeStep ==
  ASSUME IInv, NEW q \in Quotes, PrepareTrade(q)
  PROVE  IInv'
<1> USE QuoteKnown, TableWrites
<1> DEFINE quoteRow == [quote[q] EXCEPT !.status = "CONSUMED"]
           tradeRow == [NoTrade EXCEPT !.status = "POLICY_APPROVED", !.policy = Len(policies)]
           executionRow == [step |-> "approved", controls |-> Controls]
<1>1. /\ UNCHANGED <<policies, reconciling, chain, sent, answers>>
      /\ quote' = [quote EXCEPT ![q] = quoteRow] /\ trade' = [trade EXCEPT ![q] = tradeRow]
      /\ execution' = [execution EXCEPT ![q] = executionRow] /\ claim' = [claim EXCEPT ![q] = "open"]
      /\ trade[q].status = "none" /\ quote[q].status = "QUOTED" /\ quote[q].policy = Len(policies)
  BY DEF PrepareTrade, Usable, QuotedUnder, owner, world
<1>2. /\ IsQuote(quoteRow) /\ quoteRow.status = "CONSUMED" /\ quoteRow.offer = quote[q].offer
      /\ quoteRow.policy = quote[q].policy
      /\ IsTrade(tradeRow) /\ tradeRow.status = "POLICY_APPROVED" /\ tradeRow.policy = Len(policies)
      /\ ~tradeRow.call /\ IsExecution(executionRow) /\ executionRow.step = "approved"
  <2>1. IsExecution(executionRow) /\ executionRow.step = "approved"
    BY DEF IsExecution
  <2> DEFINE r == quote[q]
             v == Len(policies)
  <2>4. tradeRow = [NoTrade EXCEPT !.status = "POLICY_APPROVED", !.policy = v]
    OBVIOUS
  <2>5. IsTrade(tradeRow) /\ tradeRow.status = "POLICY_APPROVED" /\ tradeRow.policy = v /\ tradeRow.call = FALSE
    <3> HIDE DEF tradeRow, v
    <3>1. tradeRow = [status |-> "POLICY_APPROVED", policy |-> v, call |-> FALSE, in |-> 0, out |-> 0]
      BY <2>4 DEF NoTrade
    <3> QED BY <3>1, TradeRow
  <2>2. IsQuote(r) /\ quoteRow = [r EXCEPT !.status = "CONSUMED"]
    OBVIOUS
  <2> HIDE DEF r, quoteRow
  <2>3. IsQuote(quoteRow) /\ quoteRow.status = "CONSUMED" /\ quoteRow.policy = r.policy /\ quoteRow.offer = r.offer
    BY <2>2, QuoteStatusWritten
  <2> QED BY <2>1, <2>3, <2>5 DEF r, v
<1> HIDE DEF quoteRow, tradeRow, executionRow
<1>3. /\ WritesAt(q) /\ quote'[q] = quoteRow /\ trade'[q] = tradeRow /\ execution'[q] = executionRow
      /\ claim'[q] = "open"
  BY <1>1 DEF WritesAt
<1>4. claim[q] = "none" /\ answers[q] = {} /\ sent[q] = 0
  BY <1>1 DEF UseOf, AnswerOf, SentOf
<1>5. PolicyOf(q)'
  BY <1>1, <1>2, <1>3 DEF PolicyOf
<1>6. UseOf(q)' /\ ExecutionOf(q)' /\ SentOf(q)' /\ AnswerOf(q)' /\ Kept(q)
  BY <1>1, <1>2, <1>3, <1>4 DEF UseOf, ExecutionOf, SentOf, AnswerOf, Kept
<1>7. trade'[q].status \in TradeStatuses
  BY <1>2, <1>3 DEF TradeStatuses
<1> QED BY <1>1, <1>2, <1>3, <1>5, <1>6, <1>7, QuoteStep DEF QuoteInv

\* What a step of execute() writes, and what the rows must then say.
Writes(q, tradeRow, row, fill, n) ==
  /\ trade' = [trade EXCEPT ![q] = tradeRow] /\ execution' = [execution EXCEPT ![q] = row]
  /\ chain' = [chain EXCEPT ![q] = fill] /\ sent' = [sent EXCEPT ![q] = n]

RowsFit(q, tradeRow, row, fill, n) ==
  /\ IsTrade(tradeRow) /\ IsExecution(row) /\ IsFill(fill)
  /\ tradeRow.status \in TradeStatuses \ {"none"} /\ tradeRow.policy = trade[q].policy
  /\ trade[q].call => tradeRow.call
  /\ n \in {0, 1} /\ (n = 0 <=> fill.state = "none")
  /\ n = 1 => tradeRow.status \in {"PENDING", "CONFIRMED", "REVERTED"}
  /\ tradeRow.call => n = 1
  /\ row.step \in {"idle", "approved", "simulated", "revalidated", "pending",
                   "called", "saved", "unknown", "completing"}
  /\ row.step = "approved" => tradeRow.status = "POLICY_APPROVED"
  /\ row.step \in {"simulated", "revalidated"} => tradeRow.status = "SIMULATED"
  /\ row.step \in {"pending", "called", "unknown"} => tradeRow.status = "PENDING" /\ ~tradeRow.call
  /\ row.step = "pending" => n = 0
  /\ row.step = "called" => n = 1
  /\ row.step = "saved" => tradeRow.call

\* execute() goes on, or ends with the answer in its record.
Answers(q, row) ==
  \/ UNCHANGED <<claim, answers>>
  \/ row.step = "idle" /\ \E a \in TradeStatuses \ {"none"} :
       claim' = [claim EXCEPT ![q] = a] /\ answers' = [answers EXCEPT ![q] = @ \cup {a}]

\* It leaves the quote as it is, and keeps its trade's policy.
LEMMA ExecutionSteps ==
  ASSUME IInv, NEW q \in Quotes, UNCHANGED <<policies, reconciling, quote>>,
         trade[q].status # "none", execution[q].step # "idle" \/ UNCHANGED <<claim, answers>>,
         NEW tradeRow, NEW row, NEW fill, NEW n,
         Writes(q, tradeRow, row, fill, n), RowsFit(q, tradeRow, row, fill, n), Answers(q, row),
         row.step # "idle" => execution[q].step # "idle"
  PROVE  IInv'
<1>1. execution[q].step # "idle" => claim[q] = "open" /\ answers[q] = {}
  BY QuoteKnown DEF ExecutionOf
<1>2. /\ At(claim, claim', Quotes \cup Keys, q) /\ At(answers, answers', Quotes \cup Keys, q)
      /\ \/ UNCHANGED <<claim, answers>>
         \/ /\ row.step = "idle" /\ claim'[q] \notin {"none", "open"} /\ answers'[q] = {claim'[q]}
  <2>1. CASE UNCHANGED <<claim, answers>>
    BY <2>1, TableWrites
  <2>2. CASE ~UNCHANGED <<claim, answers>>
    <3>1. PICK a \in TradeStatuses \ {"none"} :
            claim' = [claim EXCEPT ![q] = a] /\ answers' = [answers EXCEPT ![q] = @ \cup {a}]
      BY <2>2 DEF Answers
    <3>2. a \notin {"none", "open"}
      BY DEF TradeStatuses, Terminal
    <3>3. answers' = [answers EXCEPT ![q] = {a}]
      BY <1>1, <2>2, <3>1
    <3>4. At(claim, claim', Quotes \cup Keys, q) /\ claim'[q] = a
      BY <3>1, TableWrites
    <3>5. At(answers, answers', Quotes \cup Keys, q) /\ answers'[q] = {a}
      BY <3>3, TableWrites
    <3>6. row.step = "idle"
      BY <2>2 DEF Answers
    <3> QED BY <3>2, <3>4, <3>5, <3>6
  <2> QED BY <2>1, <2>2
<1>3. /\ WritesAt(q) /\ trade'[q] = tradeRow /\ execution'[q] = row /\ chain'[q] = fill /\ sent'[q] = n
  <2>1. At(quote, quote', Quotes, q)
    BY TableWrites
  <2>2. At(trade, trade', Quotes, q) /\ trade'[q] = tradeRow
    BY TableWrites DEF Writes
  <2>3. At(execution, execution', Quotes, q) /\ execution'[q] = row
    BY TableWrites DEF Writes
  <2>4. At(chain, chain', Quotes, q) /\ chain'[q] = fill
    BY TableWrites DEF Writes
  <2>5. At(sent, sent', Quotes, q) /\ sent'[q] = n
    BY TableWrites DEF Writes
  <2> QED BY <1>2, <2>1, <2>2, <2>3, <2>4, <2>5 DEF WritesAt
<1>4. PolicyOf(q)' /\ UseOf(q)' /\ Kept(q)
  BY <1>1, <1>2, <1>3, QuoteKnown DEF PolicyOf, UseOf, Kept, RowsFit
<1>5. ExecutionOf(q)'
  BY <1>1, <1>2, <1>3, QuoteKnown DEF ExecutionOf, RowsFit
<1>6. SentOf(q)' /\ AnswerOf(q)'
  BY <1>2, <1>3, QuoteKnown DEF SentOf, AnswerOf, RowsFit
<1>7. IsQuote(quote'[q])
  BY QuoteKnown
<1>8. IsTrade(trade'[q]) /\ IsExecution(execution'[q]) /\ IsFill(chain'[q]) /\ trade'[q].status \in TradeStatuses
  BY <1>3 DEF RowsFit
<1> QED BY <1>3, <1>4, <1>5, <1>6, <1>7, <1>8, QuoteStep DEF QuoteInv

LEMMA NothingSent ==
  ASSUME IInv, NEW q \in Quotes, UNCHANGED <<chain, sent>>
  PROVE  /\ chain' = [chain EXCEPT ![q] = chain[q]] /\ sent' = [sent EXCEPT ![q] = sent[q]]
         /\ IsFill(chain[q]) /\ sent[q] \in {0, 1} /\ (sent[q] = 0 <=> chain[q].state = "none")
BY QuoteKnown DEF IInv, Shape, Table, SentOf

\* A step of execute() that saves the trade's status, or leaves the trade.
LEMMA SaveSteps ==
  ASSUME IInv, NEW q \in Quotes,
         UNCHANGED <<policies, reconciling, quote, chain, sent>>,
         execution[q].step # "idle",
         NEW status, \/ trade' = trade /\ status = trade[q].status
                     \/ SaveTrade(q, [trade[q] EXCEPT !.status = status]),
         NEW step, To(q, step) \/ (EndExecution(q) /\ step = "idle"),
         Answers(q, [step |-> step]),
         status \in TradeStatuses \ {"none"},
         sent[q] = 1 => status \in {"PENDING", "CONFIRMED", "REVERTED"},
         step \in {"idle", "simulated", "revalidated", "pending", "unknown", "completing"},
         step \in {"simulated", "revalidated"} => status = "SIMULATED",
         step \in {"pending", "unknown"} => status = "PENDING" /\ ~trade[q].call,
         step = "pending" => sent[q] = 0
  PROVE  IInv'
<1> DEFINE old == trade[q]
           tradeRow == [old EXCEPT !.status = status]
           row == IF To(q, step) THEN [execution[q] EXCEPT !.step = step] ELSE NoExecution
<1>1. /\ IsTrade(old) /\ IsExecution(execution[q]) /\ old.status # "none"
      /\ UseOf(q) /\ ExecutionOf(q) /\ SentOf(q)
  BY QuoteKnown DEF UseOf
<1>2. IsTrade(tradeRow) /\ tradeRow.status = status /\ tradeRow.call = old.call /\ tradeRow.policy = old.policy
  <2>1. IsTrade(old)
    BY <1>1
  <2> HIDE DEF old
  <2> QED BY <2>1, TradeStatusWritten
<1>3. IsExecution(row) /\ row.step = step
  BY <1>1, StepWritten DEF NoExecution, IsExecution
<1>4. trade' = [trade EXCEPT ![q] = tradeRow]
  <2>1. CASE trade' = trade /\ status = trade[q].status
    <3>1. tradeRow = old
      <4> DEFINE b == old.policy c == old.call d == old.in e == old.out
      <4>1. old = [status |-> status, policy |-> b, call |-> c, in |-> d, out |-> e]
        BY <1>1, <2>1 DEF IsTrade
      <4> HIDE DEF old, b, c, d, e
      <4> QED BY <4>1
    <3> QED BY <2>1, <3>1 DEF IInv, Shape, Table
  <2>2. CASE SaveTrade(q, [trade[q] EXCEPT !.status = status])
    BY <2>2 DEF SaveTrade
  <2> QED BY <2>1, <2>2
<1>5. execution' = [execution EXCEPT ![q] = row]
  BY DEF To, EndExecution
<1> DEFINE fill == chain[q]
           n == sent[q]
<1>6. Writes(q, tradeRow, row, fill, n)
  BY <1>4, <1>5, NothingSent DEF Writes
<1>7. RowsFit(q, tradeRow, row, fill, n)
  <2>1. IsFill(fill) /\ n \in {0, 1} /\ (n = 0 <=> fill.state = "none")
    BY NothingSent
  <2>2. old.call => n = 1
    BY <1>1 DEF SentOf
  <2> HIDE DEF tradeRow, row, fill
  <2> QED BY <1>2, <1>3, <2>1, <2>2 DEF RowsFit
<1>8. Answers(q, row)
  <2>1. row.step = [step |-> step].step
    BY <1>3
  <2> HIDE DEF row
  <2> QED BY <2>1 DEF Answers
<1> HIDE DEF old, tradeRow, row, fill, n
<1>9. trade[q].status # "none"
  BY <1>1 DEF old
<1> QED BY <1>6, <1>7, <1>8, <1>9, ExecutionSteps

LEMMA SavingSteps ==
  ASSUME IInv, NEW q \in Quotes,
         \/ Simulate(q) \/ Reject(q) \/ RevalidateBeforeBroadcast(q) \/ SavePending(q)
         \/ BroadcastFails(q) \/ SaveUnknown(q) \/ CompleteExecution(q) \/ CrashExecution(q)
  PROVE  IInv'
<1>1. UNCHANGED <<policies, reconciling, quote, chain, sent>>
  BY DEF Simulate, Reject, RevalidateBeforeBroadcast, SavePending, BroadcastFails, SaveUnknown,
     CompleteExecution, CrashExecution, owner, world
<1>2. /\ UseOf(q) /\ ExecutionOf(q) /\ SentOf(q) /\ trade[q].status \in TradeStatuses
      /\ execution[q].step # "idle" => trade[q].status # "none"
  BY QuoteKnown DEF UseOf
<1>3. CASE Simulate(q)
  <2>1. /\ execution[q].step = "approved" /\ SaveTrade(q, [trade[q] EXCEPT !.status = "SIMULATED"])
        /\ To(q, "simulated") /\ UNCHANGED <<claim, answers>>
    BY <1>3 DEF Simulate, keys
  <2>2. sent[q] # 1 /\ "SIMULATED" \in TradeStatuses
    BY <1>2, <2>1 DEF ExecutionOf, SentOf, TradeStatuses
  <2>3. Answers(q, [step |-> "simulated"])
    BY <2>1 DEF Answers
  <2> QED BY <1>1, <2>1, <2>2, <2>3, SaveSteps
<1>4. CASE Reject(q)
  <2>1. PICK status \in {"SIMULATION_FAILED", "REJECTED"} :
          /\ execution[q].step \in {"approved", "simulated"}
          /\ SaveTrade(q, [trade[q] EXCEPT !.status = status])
          /\ Complete(q, status) /\ EndExecution(q)
    BY <1>4 DEF Reject
  <2>2. sent[q] # 1 /\ status \in TradeStatuses \ {"none"}
    BY <1>2, <2>1 DEF ExecutionOf, SentOf, TradeStatuses, Terminal
  <2>3. Answers(q, [step |-> "idle"])
    BY <2>1, <2>2 DEF Answers, Complete
  <2> QED BY <1>1, <2>1, <2>2, <2>3, SaveSteps
<1>5. CASE RevalidateBeforeBroadcast(q)
  <2>1. execution[q].step = "simulated" /\ To(q, "revalidated") /\ UNCHANGED <<trade, claim, answers>>
    BY <1>5 DEF RevalidateBeforeBroadcast, keys
  <2>2. sent[q] # 1 /\ trade[q].status = "SIMULATED" /\ "SIMULATED" \in TradeStatuses
    BY <1>2, <2>1 DEF ExecutionOf, SentOf, TradeStatuses
  <2>3. Answers(q, [step |-> "revalidated"])
    BY <2>1 DEF Answers
  <2> QED BY <1>1, <2>1, <2>2, <2>3, SaveSteps
<1>6. CASE SavePending(q)
  <2>1. /\ execution[q].step = "revalidated" /\ SaveTrade(q, [trade[q] EXCEPT !.status = "PENDING"])
        /\ To(q, "pending") /\ UNCHANGED <<claim, answers>>
    BY <1>6 DEF SavePending, keys
  <2>2. sent[q] = 0 /\ ~trade[q].call /\ "PENDING" \in TradeStatuses
    BY <1>2, <2>1 DEF ExecutionOf, SentOf, TradeStatuses
  <2>3. Answers(q, [step |-> "pending"])
    BY <2>1 DEF Answers
  <2> QED BY <1>1, <2>1, <2>2, <2>3, SaveSteps
<1>7. CASE BroadcastFails(q)
  <2>1. execution[q].step = "pending" /\ To(q, "unknown") /\ UNCHANGED <<trade, claim, answers>>
    BY <1>7 DEF BroadcastFails, keys
  <2>2. sent[q] # 1 /\ trade[q].status = "PENDING" /\ ~trade[q].call /\ "PENDING" \in TradeStatuses
    BY <1>2, <2>1 DEF ExecutionOf, SentOf, TradeStatuses
  <2>3. Answers(q, [step |-> "unknown"])
    BY <2>1 DEF Answers
  <2> QED BY <1>1, <2>1, <2>2, <2>3, SaveSteps
<1>8. CASE SaveUnknown(q)
  <2>1. /\ execution[q].step = "unknown" /\ SaveTrade(q, [trade[q] EXCEPT !.status = "PENDING"])
        /\ To(q, "completing") /\ UNCHANGED <<claim, answers>>
    BY <1>8 DEF SaveUnknown, keys
  <2>2. "PENDING" \in TradeStatuses
    BY DEF TradeStatuses
  <2>3. Answers(q, [step |-> "completing"])
    BY <2>1 DEF Answers
  <2> QED BY <1>1, <2>1, <2>2, <2>3, SaveSteps
<1>9. CASE CompleteExecution(q)
  <2>1. execution[q].step = "completing" /\ Complete(q, "PENDING") /\ EndExecution(q) /\ trade' = trade
    BY <1>9 DEF CompleteExecution
  <2>2. sent[q] = 1 => trade[q].status \in {"PENDING", "CONFIRMED", "REVERTED"}
    BY <1>2 DEF SentOf
  <2>3. Answers(q, [step |-> "idle"])
    BY <2>1 DEF Answers, Complete, TradeStatuses
  <2> QED BY <1>1, <1>2, <2>1, <2>2, <2>3, SaveSteps
<1>10. CASE CrashExecution(q)
  <2>1. execution[q].step # "idle" /\ EndExecution(q) /\ UNCHANGED <<trade, claim, answers>>
    BY <1>10 DEF CrashExecution, keys
  <2>2. sent[q] = 1 => trade[q].status \in {"PENDING", "CONFIRMED", "REVERTED"}
    BY <1>2 DEF SentOf
  <2>3. Answers(q, [step |-> "idle"])
    BY <2>1 DEF Answers
  <2> QED BY <1>1, <1>2, <2>1, <2>2, <2>3, SaveSteps
<1> QED BY <1>3, <1>4, <1>5, <1>6, <1>7, <1>8, <1>9, <1>10

\* The one broadcast: nothing was sent before.
LEMMA BroadcastStep ==
  ASSUME IInv, NEW q \in Quotes, Broadcast(q)
  PROVE  IInv'
<1>1. PICK step \in {"called", "unknown"} : To(q, step)
  BY DEF Broadcast
<1> DEFINE tradeRow == trade[q]
           row == [execution[q] EXCEPT !.step = step]
           fill == [chain[q] EXCEPT !.state = "sent"]
           n == 1
<1>2. /\ UNCHANGED <<policies, reconciling, quote, trade, claim, answers>>
      /\ execution[q].step = "pending" /\ sent' = [sent EXCEPT ![q] = @ + 1]
      /\ chain' = [chain EXCEPT ![q] = fill] /\ execution' = [execution EXCEPT ![q] = row]
  BY <1>1 DEF Broadcast, To, owner, keys
<1>3. /\ IsTrade(tradeRow) /\ IsExecution(execution[q]) /\ IsFill(chain[q]) /\ tradeRow.status \in TradeStatuses
      /\ tradeRow.status = "PENDING" /\ ~tradeRow.call /\ sent[q] = 0
  BY <1>2, QuoteKnown DEF ExecutionOf
<1>4. IsExecution(row) /\ row.step = step /\ IsFill(fill) /\ fill.state = "sent"
  BY <1>3, StepWritten, StateWritten
<1>5. trade' = [trade EXCEPT ![q] = tradeRow]
  BY <1>2 DEF IInv, Shape, Table
<1>6. sent' = [sent EXCEPT ![q] = n]
  BY <1>2, <1>3
<1>7. Writes(q, tradeRow, row, fill, n)
  BY <1>2, <1>5, <1>6 DEF Writes
<1> HIDE DEF tradeRow, row, fill
<1>8. RowsFit(q, tradeRow, row, fill, n)
  <2>1. tradeRow.policy = trade[q].policy /\ (trade[q].call => tradeRow.call)
    BY DEF tradeRow
  <2> QED BY <1>1, <1>3, <1>4, <2>1 DEF RowsFit
<1>9. Answers(q, row) /\ trade[q].status # "none"
  BY <1>2, <1>3 DEF Answers, tradeRow
<1> HIDE DEF n
<1> QED BY <1>2, <1>7, <1>8, <1>9, ExecutionSteps

\* The id is saved into a trade that is still pending.
LEMMA SaveCallStep ==
  ASSUME IInv, NEW q \in Quotes, SaveCall(q)
  PROVE  IInv'
<1>1. PICK step \in {"completing", "saved"} : To(q, step)
  BY DEF SaveCall
<1> DEFINE tradeRow == Remembered(q)
           row == [execution[q] EXCEPT !.step = step]
           fill == chain[q]
           n == sent[q]
<1>2. /\ UNCHANGED <<policies, reconciling, quote, chain, sent, claim, answers>>
      /\ execution[q].step \in {"called", "saved"} /\ TradeGuard(trade[q], tradeRow)
      /\ trade' = [trade EXCEPT ![q] = tradeRow] /\ execution' = [execution EXCEPT ![q] = row]
  BY <1>1 DEF SaveCall, To, SaveTrade, owner, keys, world
<1>3. /\ IsExecution(execution[q]) /\ sent[q] = 1 /\ trade[q].status # "none"
  BY <1>2, QuoteKnown DEF ExecutionOf, SentOf, UseOf
<1>4. IsExecution(row) /\ row.step = step
  BY <1>3, StepWritten
<1>5. Writes(q, tradeRow, row, fill, n) /\ IsFill(fill) /\ n = 1 /\ fill.state # "none"
  BY <1>2, <1>3, NothingSent DEF Writes
<1>6. IsTrade(tradeRow) /\ tradeRow.status = "PENDING" /\ tradeRow.policy = trade[q].policy /\ tradeRow.call
  <2> DEFINE v == trade[q].policy
  <2>1. tradeRow = [NoTrade EXCEPT !.status = "PENDING", !.policy = v, !.call = TRUE]
    BY DEF Remembered
  <2> HIDE DEF tradeRow, v
  <2>2. tradeRow = [status |-> "PENDING", policy |-> v, call |-> TRUE, in |-> 0, out |-> 0]
    BY <2>1 DEF NoTrade
  <2>3. IsTrade(tradeRow) /\ tradeRow.status = "PENDING" /\ tradeRow.policy = v /\ tradeRow.call = TRUE
    BY <2>2, TradeRow
  <2> QED BY <2>3 DEF v
<1> HIDE DEF tradeRow, row, fill, n
<1>7. RowsFit(q, tradeRow, row, fill, n)
  BY <1>1, <1>4, <1>5, <1>6 DEF RowsFit, TradeStatuses
<1>8. Answers(q, row)
  BY <1>2 DEF Answers
<1> QED BY <1>2, <1>3, <1>5, <1>7, <1>8, ExecutionSteps

\* The chain includes what was sent, or fails it.
LEMMA ChainSteps ==
  ASSUME IInv, NEW q \in Quotes, Revert(q) \/ \E block, out : Land(q, block, out)
  PROVE  IInv'
<1>1. PICK fill : chain' = [chain EXCEPT ![q] = fill] /\ IsFill(fill) /\ fill.state \in {"landed", "failed"}
  <2>1. CASE Revert(q)
    <3> DEFINE fill == [chain[q] EXCEPT !.state = "failed"]
    <3>1. IsFill(fill) /\ fill.state = "failed"
      BY QuoteKnown, StateWritten
    <3>2. chain' = [chain EXCEPT ![q] = fill]
      BY <2>1 DEF Revert
    <3> HIDE DEF fill
    <3> QED BY <3>1, <3>2
  <2>2. CASE \E block, out : Land(q, block, out)
    <3>1. PICK block, out : Land(q, block, out)
      BY <2>2
    <3> DEFINE fill == [state |-> "landed", block |-> block, out |-> out]
    <3>2. IsFill(fill) /\ fill.state = "landed"
      BY DEF IsFill
    <3>3. chain' = [chain EXCEPT ![q] = fill]
      BY <3>1 DEF Land
    <3> HIDE DEF fill
    <3> QED BY <3>2, <3>3
  <2> QED BY <2>1, <2>2
<1>2. /\ UNCHANGED <<policies, quote, trade, execution, reconciling, claim, answers, sent>>
      /\ chain[q].state = "sent"
  BY DEF Revert, Land, owner, calls, keys
<1>3. chain'[q] = fill /\ WritesAt(q)
  BY <1>1, <1>2, TableWrites DEF WritesAt
<1>4. PolicyOf(q)' /\ UseOf(q)' /\ ExecutionOf(q)' /\ AnswerOf(q)' /\ Kept(q)
  BY <1>2, QuoteKnown DEF PolicyOf, UseOf, ExecutionOf, AnswerOf, Kept
<1>5. SentOf(q)'
  BY <1>1, <1>2, <1>3, QuoteKnown DEF SentOf
<1>6. IsQuote(quote'[q]) /\ IsTrade(trade'[q]) /\ IsExecution(execution'[q]) /\ trade'[q].status \in TradeStatuses
  BY <1>2, QuoteKnown
<1> QED BY <1>1, <1>2, <1>3, <1>4, <1>5, <1>6, QuoteStep DEF QuoteInv

\* A retry is answered from the record of its key.
LEMMA ReplayStep ==
  ASSUME IInv, NEW k \in Quotes \cup Keys, Replay(k)
  PROVE  IInv'
<1>1. /\ UNCHANGED <<policies, quote, trade, execution, reconciling, claim, chain, sent>>
      /\ answers' = [answers EXCEPT ![k] = @ \cup {claim[k]}] /\ claim[k] \notin {"none", "open"}
  BY DEF Replay, owner, calls, world
<1>2. /\ Table(answers', Quotes \cup Keys) /\ answers'[k] = answers[k] \cup {claim[k]}
      /\ \A j \in Quotes \cup Keys : j # k => answers'[j] = answers[j]
  BY <1>1 DEF IInv, Shape, Table
<1>3. Shape'
  BY <1>1, <1>2 DEF IInv, Shape, Table
<1>4. AnswerOf(k)
  BY DEF IInv, QuoteInv, KeyInv
<1>5. AnswerOf(k)'
  BY <1>1, <1>2, <1>4 DEF AnswerOf
<1>6. \A q \in Quotes : QuoteInv(q)'
  <2>1. ASSUME NEW q \in Quotes, q # k PROVE QuoteInv(q)'
    BY <1>1, <1>2, <2>1, QuoteUntouched DEF Untouched
  <2>2. ASSUME k \in Quotes PROVE QuoteInv(k)'
    <3>1. PolicyOf(k)' /\ UseOf(k)' /\ SentOf(k)'
      BY <1>1, <2>2, QuoteKnown DEF PolicyOf, UseOf, SentOf
    <3>2. ExecutionOf(k)'
      BY <1>1, <2>2, QuoteKnown DEF ExecutionOf
    <3> QED BY <1>5, <3>1, <3>2 DEF QuoteInv
  <2> QED BY <2>1, <2>2
<1>7. \A j \in Keys : KeyInv(j)'
  <2>1. ASSUME NEW j \in Keys, j # k PROVE KeyInv(j)'
    BY <1>1, <1>2, <2>1, KeyUntouched DEF Kept
  <2>2. ASSUME k \in Keys PROVE KeyInv(k)'
    <3>1. ReconciliationOf(k)
      BY <2>2 DEF IInv, KeyInv
    <3>2. ReconciliationOf(k)'
      BY <1>1, <3>1 DEF ReconciliationOf
    <3> QED BY <1>5, <3>2 DEF KeyInv
  <2> QED BY <2>1, <2>2
<1> QED BY <1>3, <1>6, <1>7 DEF IInv

\* A reconciliation's key and call are written, and perhaps its trade.
LEMMA KeyStep ==
  ASSUME IInv, UNCHANGED <<policies, quote, execution, chain, sent>>,
         NEW k \in Keys, NEW q \in Quotes,
         NEW row, reconciling' = [reconciling EXCEPT ![k] = row],
         At(claim, claim', Quotes \cup Keys, k), At(answers, answers', Quotes \cup Keys, k),
         At(trade, trade', Quotes, q), IsTrade(trade'[q]), trade'[q].status \in TradeStatuses,
         KeyInv(k)',
         PolicyOf(q)', UseOf(q)', ExecutionOf(q)', SentOf(q)', Kept(q)
  PROVE  IInv'
<1>0. k \notin Quotes /\ Table(reconciling, Keys)
  BY TradingAssumption DEF IInv, Shape
<1>1. /\ reconciling'[k] = row /\ Table(reconciling', Keys)
      /\ \A j \in Keys \ {k} : UNCHANGED <<reconciling[j], claim[j], answers[j]>>
  BY <1>0 DEF Table, At
<1>2. \A p \in Quotes : UNCHANGED <<claim[p], answers[p]>>
  BY <1>0 DEF At
<1>3. \A p \in Quotes \ {q} : UNCHANGED trade[p]
  BY DEF At
<1>4. AnswerOf(q)'
  BY <1>2, QuoteKnown DEF AnswerOf
<1>5. Shape'
  <2>1. Table(claim', Quotes \cup Keys) /\ Table(answers', Quotes \cup Keys) /\ Table(trade', Quotes)
    BY DEF At, Table
  <2>2. \A p \in Quotes : IsTrade(trade'[p]) /\ trade'[p].status \in TradeStatuses
    BY <1>3, QuoteKnown
  <2> QED BY <1>1, <2>1, <2>2 DEF IInv, Shape
<1>6. QuoteInv(q)'
  BY <1>4 DEF QuoteInv
<1> QED BY <1>1, <1>2, <1>3, <1>5, <1>6, KeyMoves

\* What is known of a key and of its trade.
LEMMA KeyKnown ==
  ASSUME IInv, NEW k \in Keys
  PROVE  /\ AnswerOf(k) /\ ReconciliationOf(k) /\ k \notin Quotes
         /\ reconciling[k].step = "claimed" => reconciling[k].of \in Quotes
         /\ reconciling' = reconciling => reconciling' = [reconciling EXCEPT ![k] = reconciling[k]]
BY TradingAssumption DEF IInv, Shape, Table, KeyInv, ReconciliationOf

LEMMA KeyWrites ==
  ASSUME IInv, NEW k \in Keys
  PROVE  /\ claim' = claim => At(claim, claim', Quotes \cup Keys, k)
         /\ answers' = answers => At(answers, answers', Quotes \cup Keys, k)
         /\ \A v : claim' = [claim EXCEPT ![k] = v] =>
              At(claim, claim', Quotes \cup Keys, k) /\ claim'[k] = v
         /\ \A v : answers' = [answers EXCEPT ![k] = v] =>
              At(answers, answers', Quotes \cup Keys, k) /\ answers'[k] = v
         /\ \A row : reconciling' = [reconciling EXCEPT ![k] = row] => reconciling'[k] = row
BY DEF IInv, Shape, Table, At

\* A trade that is not saved.
LEMMA TradeLeft ==
  ASSUME IInv, NEW q \in Quotes, UNCHANGED <<policies, quote, trade, execution, chain, sent>>,
         UNCHANGED <<claim[q], answers[q]>>
  PROVE  /\ At(trade, trade', Quotes, q) /\ IsTrade(trade'[q]) /\ trade'[q].status \in TradeStatuses
         /\ PolicyOf(q)' /\ UseOf(q)' /\ ExecutionOf(q)' /\ SentOf(q)' /\ Kept(q)
<1>1. At(trade, trade', Quotes, q)
  BY TableWrites
<1>2. QuoteInv(q)' /\ Kept(q)
  BY QuoteUntouched DEF Untouched
<1> QED BY <1>1, <1>2, QuoteKnown DEF QuoteInv

LEMMA ClaimReconciliationStep ==
  ASSUME IInv, NEW k \in Keys, NEW q \in Quotes, ClaimReconciliation(k, q)
  PROVE  IInv'
<1> DEFINE row == [step |-> "claimed", of |-> q, trade |-> trade[q]]
<1>1. /\ UNCHANGED <<policies, quote, trade, execution, chain, sent, answers>>
      /\ claim[k] = "none" /\ claim' = [claim EXCEPT ![k] = "open"]
      /\ reconciling' = [reconciling EXCEPT ![k] = row]
      /\ trade[q].status \in {"CONFIRMED", "REVERTED", "REJECTED"} \/ trade[q].call
  BY DEF ClaimReconciliation, Unclaimed, owner, world
<1>2. row.step = "claimed" /\ row.of = q /\ row.trade = trade[q]
  OBVIOUS
<1> HIDE DEF row
<1>3. /\ At(claim, claim', Quotes \cup Keys, k) /\ claim'[k] = "open" /\ answers'[k] = {}
      /\ At(answers, answers', Quotes \cup Keys, k) /\ reconciling'[k] = row
  BY <1>1, KeyKnown, KeyWrites DEF AnswerOf
<1>4. trade[q].status # "none"
  BY <1>1, QuoteKnown DEF UseOf
<1>5. AnswerOf(k)'
  BY <1>3 DEF AnswerOf
<1>6. ReconciliationOf(k)'
  BY <1>1, <1>2, <1>3, <1>4, QuoteKnown DEF ReconciliationOf, Terminal
<1>7. claim'[q] = claim[q] /\ answers'[q] = answers[q]
  BY <1>3, QuoteKnown DEF At
<1>8. /\ At(trade, trade', Quotes, q) /\ IsTrade(trade'[q]) /\ trade'[q].status \in TradeStatuses
      /\ PolicyOf(q)' /\ UseOf(q)' /\ ExecutionOf(q)' /\ SentOf(q)' /\ Kept(q)
  BY <1>1, <1>7, TradeLeft
<1> QED BY <1>1, <1>3, <1>5, <1>6, <1>8, KeyStep DEF KeyInv

LEMMA EndRow ==
  LET row == [Unused EXCEPT !.step = "done"] IN row.step = "done"
BY DEF Unused

\* A reconciliation ends without saving its trade.
LEMMA EndSteps ==
  ASSUME IInv, NEW k \in Keys, AnswerAsRead(k) \/ AlreadySettled(k) \/ AbandonReconciliation(k)
  PROVE  IInv'
<1> DEFINE row == [Unused EXCEPT !.step = "done"]
<1>1. /\ UNCHANGED <<policies, quote, trade, execution, chain, sent>>
      /\ reconciling[k].step = "claimed" /\ reconciling' = [reconciling EXCEPT ![k] = row]
  BY DEF AnswerAsRead, AlreadySettled, AbandonReconciliation, EndReconciliation, owner, world
<1>2. /\ claim[k] = "open" /\ answers[k] = {} /\ reconciling[k].of \in Quotes
      /\ reconciling[k].trade.status \in TradeStatuses \ {"none"}
  BY <1>1, KeyKnown DEF ReconciliationOf
<1>3. row.step = "done"
  BY EndRow
<1>0. PICK q \in Quotes : q = reconciling[k].of
  BY <1>2
<1> HIDE DEF row
<1>4. /\ At(claim, claim', Quotes \cup Keys, k) /\ At(answers, answers', Quotes \cup Keys, k)
      /\ AnswerOf(k)'
  <2>1. CASE AnswerAsRead(k)
    <3> DEFINE a == reconciling[k].trade.status
    <3>1. claim' = [claim EXCEPT ![k] = a] /\ answers' = [answers EXCEPT ![k] = {a}]
      BY <1>2, <2>1 DEF AnswerAsRead, Complete
    <3>2. a \notin {"none", "open"}
      BY <1>2 DEF TradeStatuses, Terminal
    <3> HIDE DEF a
    <3> QED BY <3>1, <3>2, KeyWrites DEF AnswerOf
  <2>2. CASE AlreadySettled(k)
    <3>1. claim' = claim /\ answers' = [answers EXCEPT ![k] = {"CONFIRMED"}]
      BY <1>2, <2>2 DEF AlreadySettled
    <3> QED BY <1>2, <3>1, KeyWrites DEF AnswerOf
  <2>3. CASE AbandonReconciliation(k)
    <3>1. claim' = claim /\ answers' = answers
      BY <2>3 DEF AbandonReconciliation, keys
    <3> QED BY <1>2, <3>1, KeyWrites DEF AnswerOf
  <2> QED BY <2>1, <2>2, <2>3
<1>5. reconciling'[k] = row
  BY <1>1, KeyWrites
<1>6. ReconciliationOf(k)'
  BY <1>3, <1>5 DEF ReconciliationOf
<1>7. claim'[q] = claim[q] /\ answers'[q] = answers[q]
  BY <1>4, QuoteKnown DEF At
<1>8. /\ At(trade, trade', Quotes, q) /\ IsTrade(trade'[q]) /\ trade'[q].status \in TradeStatuses
      /\ PolicyOf(q)' /\ UseOf(q)' /\ ExecutionOf(q)' /\ SentOf(q)' /\ Kept(q)
  BY <1>1, <1>7, TradeLeft
<1> QED BY <1>1, <1>4, <1>6, <1>8, KeyStep DEF KeyInv

\* A reconciliation saves the outcome of a trade that has the provider's id.
LEMMA SettlingSteps ==
  ASSUME IInv, NEW k \in Keys, SaveReverted(k) \/ Settle(k)
  PROVE  IInv'
<1> DEFINE row == [Unused EXCEPT !.step = "done"]
           status == IF SaveReverted(k) THEN "REVERTED" ELSE "CONFIRMED"
<1>1. /\ UNCHANGED <<policies, quote, execution, chain, sent>>
      /\ reconciling[k].step = "claimed" /\ reconciling[k].trade.status \notin Terminal
      /\ reconciling' = [reconciling EXCEPT ![k] = row] /\ Complete(k, status)
  BY DEF SaveReverted, Settle, EndReconciliation, owner, world
<1>2. /\ reconciling[k].of \in Quotes /\ claim[k] = "open" /\ answers[k] = {}
      /\ ReconciliationOf(k)
  BY <1>1, KeyKnown DEF ReconciliationOf
<1>3. PICK q \in Quotes : q = reconciling[k].of
  BY <1>2
<1>4. /\ reconciling[k].trade.call /\ trade[q].call /\ trade[q].status # "none"
      /\ reconciling[k].trade.policy = trade[q].policy /\ IsTrade(reconciling[k].trade)
  BY <1>1, <1>2, <1>3 DEF ReconciliationOf
<1>5. PICK new : /\ SaveTrade(q, new) /\ IsTrade(new) /\ new.status = status
                 /\ new.policy = trade[q].policy /\ new.call
  <2>1. CASE SaveReverted(k)
    <3> DEFINE old == reconciling[k].trade
               new == [old EXCEPT !.status = "REVERTED"]
    <3>1. SaveTrade(q, new) /\ status = "REVERTED"
      BY <1>3, <2>1 DEF SaveReverted
    <3>2. IsTrade(old) /\ old.call /\ old.policy = trade[q].policy
      BY <1>4
    <3> HIDE DEF old, status
    <3>3. IsTrade(new) /\ new.status = "REVERTED" /\ new.call = old.call /\ new.policy = old.policy
      BY <3>2, TradeStatusWritten
    <3> HIDE DEF new
    <3> QED BY <3>1, <3>2, <3>3
  <2>2. CASE ~SaveReverted(k)
    <3> DEFINE old == trade[q]
               new == [old EXCEPT !.status = "CONFIRMED", !.in = ActualIn(q), !.out = ActualOut(q)]
    <3>1. SaveTrade(q, new) /\ status = "CONFIRMED"
      BY <1>3, <2>2 DEF Settle
    <3>2. IsTrade(old) /\ old.call
      BY <1>4, QuoteKnown
    <3> DEFINE b == old.policy c == old.call x == ActualIn(q) y == ActualOut(q)
    <3>3. new = [status |-> "CONFIRMED", policy |-> b, call |-> c, in |-> x, out |-> y]
      <4> DEFINE d == old.in e == old.out a == old.status
      <4>1. old = [status |-> a, policy |-> b, call |-> c, in |-> d, out |-> e]
        BY <3>2 DEF IsTrade
      <4>2. new = [old EXCEPT !.status = "CONFIRMED", !.in = x, !.out = y]
        OBVIOUS
      <4> HIDE DEF new, old, a, b, c, d, e, x, y
      <4> QED BY <4>1, <4>2
    <3> HIDE DEF new, b, c, x, y
    <3>4. IsTrade(new) /\ new.status = "CONFIRMED" /\ new.policy = b /\ new.call = c
      BY <3>3, TradeRow
    <3> HIDE DEF status
    <3> QED BY <3>1, <3>2, <3>4 DEF b, c
  <2> QED BY <2>1, <2>2
<1>6. status \in {"CONFIRMED", "REVERTED"} /\ row.step = "done"
  BY EndRow
<1> HIDE DEF row
<1>7. PICK a \in {"CONFIRMED", "REVERTED"} : a = status
  BY <1>6
<1> HIDE DEF status
<1>8. /\ At(claim, claim', Quotes \cup Keys, k) /\ At(answers, answers', Quotes \cup Keys, k)
      /\ AnswerOf(k)'
  <2>1. claim' = [claim EXCEPT ![k] = a] /\ answers' = [answers EXCEPT ![k] = {a}]
    BY <1>1, <1>2, <1>7 DEF Complete
  <2> QED BY <2>1, KeyWrites DEF AnswerOf
<1>9. ReconciliationOf(k)'
  BY <1>1, <1>6, KeyWrites DEF ReconciliationOf
<1>10. claim'[q] = claim[q] /\ answers'[q] = answers[q]
  BY <1>8, QuoteKnown DEF At
<1>11. At(trade, trade', Quotes, q) /\ trade'[q] = new /\ new.status \in TradeStatuses
  BY <1>5, <1>7, TableWrites DEF SaveTrade, TradeStatuses, Terminal
<1>12. sent[q] = 1 /\ trade[q].status \in {"PENDING", "CONFIRMED", "REVERTED"}
  BY <1>4, QuoteKnown DEF SentOf
<1>13. execution[q].step \in {"idle", "saved", "completing"}
  BY <1>4, <1>12, QuoteKnown DEF ExecutionOf
<1>14. PolicyOf(q)' /\ UseOf(q)' /\ Kept(q)
  BY <1>1, <1>4, <1>5, <1>7, <1>10, <1>11, QuoteKnown DEF PolicyOf, UseOf, Kept
<1>15. ExecutionOf(q)' /\ SentOf(q)'
  BY <1>1, <1>5, <1>7, <1>10, <1>11, <1>12, <1>13, QuoteKnown DEF ExecutionOf, SentOf
<1> QED BY <1>1, <1>5, <1>8, <1>9, <1>11, <1>14, <1>15, KeyStep DEF KeyInv

LEMMA NextIInv == IInv /\ [Next]_vars => IInv'
<1> SUFFICES ASSUME IInv, [Next]_vars PROVE IInv'
  OBVIOUS
<1>1. CASE UNCHANGED vars
  <2>1. UNCHANGED <<policies, quote, trade, execution, reconciling, claim, answers, chain, sent>>
    BY <1>1 DEF vars, owner, calls, keys, world
  <2>2. Shape'
    BY <2>1 DEF IInv, Shape, Table
  <2>3. \A q \in Quotes : QuoteInv(q)' /\ Kept(q)
    BY <2>1, QuoteUntouched DEF Untouched
  <2>4. \A k \in Keys : KeyInv(k)'
    BY <2>1, <2>3, KeyUntouched
  <2> QED BY <2>2, <2>3, <2>4 DEF IInv
<1>2. CASE \/ \E state \in Assessments : RefreshEligibility(state)
           \/ LapseEligibility \/ UpdatePolicy \/ RegisterSession \/ RevokeSession
           \/ \E deadline \in {"policy"} \cup Quotes : Elapse(deadline)
           \/ \E block \in 1..MaxBlock, movement \in Movements : Transfer(block, movement)
  BY <1>2, OwnerSteps
<1>3. ASSUME NEW q \in Quotes,
             \/ \E offer \in Offers : ReadControls(q, offer)
             \/ Quote(q) \/ RefuseQuote(q) \/ ExpireQuote(q) \/ PrepareTrade(q)
      PROVE  IInv'
  BY <1>3, QuoteTableSteps, PrepareTradeStep
<1>4. ASSUME NEW q \in Quotes,
             \/ Simulate(q) \/ Reject(q) \/ RevalidateBeforeBroadcast(q) \/ SavePending(q)
             \/ BroadcastFails(q) \/ SaveUnknown(q) \/ CompleteExecution(q) \/ CrashExecution(q)
             \/ Broadcast(q) \/ SaveCall(q)
      PROVE  IInv'
  BY <1>4, SavingSteps, BroadcastStep, SaveCallStep
<1>5. ASSUME NEW q \in Quotes, Revert(q) \/ \E block, out : Land(q, block, out) PROVE IInv'
  BY <1>5, ChainSteps
<1>6. ASSUME NEW k \in Quotes \cup Keys, Replay(k) PROVE IInv'
  BY <1>6, ReplayStep
<1>7. ASSUME NEW k \in Keys,
             \/ \E q \in Quotes : ClaimReconciliation(k, q)
             \/ AnswerAsRead(k) \/ SaveReverted(k) \/ Settle(k) \/ AlreadySettled(k)
             \/ AbandonReconciliation(k)
      PROVE  IInv'
  BY <1>7, ClaimReconciliationStep, EndSteps, SettlingSteps
<1> QED BY <1>1, <1>2, <1>3, <1>4, <1>5, <1>6, <1>7 DEF Next

------------------------------------------------------------------------------
(* Theorems.                                                               *)

\* The inductive invariant of quotes, trades and the calls that move them.
THEOREM Invariance == Spec => []IInv
BY InitIInv, NextIInv, PTL DEF Spec

\* However a quote is retried, and wherever execute() stops, it is broadcast
\* once at most, behind a trade that is marked PENDING.
THEOREM BroadcastsOnce == Spec => []BroadcastOnce
<1>1. IInv => BroadcastOnce
  BY DEF IInv, QuoteInv, SentOf, BroadcastOnce
<1> QED BY <1>1, Invariance, PTL

\* Every trade is one that the policy version it keeps allows, although its
\* quote was checked against a policy read before the company's lock.
THEOREM WithinItsPolicy == Spec => []ApprovedUnderItsPolicy
<1>1. IInv => ApprovedUnderItsPolicy
  BY DEF IInv, QuoteInv, PolicyOf, UseOf, ApprovedUnderItsPolicy
<1> QED BY <1>1, Invariance, PTL

\* Replays, lost answers and reconciliations of a settled trade all give the
\* calls under one key one answer.
THEOREM OneAnswer == Spec => []OneAnswerPerKey
<1>1. IInv => OneAnswerPerKey
  <2> SUFFICES ASSUME IInv, NEW k \in Quotes \cup Keys PROVE Cardinality(answers[k]) <= 1
    BY DEF OneAnswerPerKey
  <2>1. AnswerOf(k)
    BY DEF IInv, QuoteInv, KeyInv
  <2>2. PICK a : answers[k] = {} \/ answers[k] = {a}
    BY <2>1 DEF AnswerOf
  <2>3. CASE answers[k] = {}
    BY <2>3, FS_EmptySet
  <2>4. CASE answers[k] = {a}
    <3>1. Cardinality({a}) = 1
      BY FS_Singleton
    <3> QED BY <2>4, <3>1
  <2> QED BY <2>2, <2>3, <2>4
<1> QED BY <1>1, Invariance, PTL

\* What is final stays as it is: a save of an older copy is refused.
THEOREM FinalStays == Spec => TerminalIsFinal
<1> DEFINE A == \A q \in Quotes : trade[q].status \in Terminal => trade'[q] = trade[q]
<1>1. IInv /\ [Next]_vars => [A]_vars
  <2> SUFFICES ASSUME IInv, Next, NEW q \in Quotes, trade[q].status \in Terminal
               PROVE  trade'[q] = trade[q]
    OBVIOUS
  <2>1. CASE \E p \in Quotes : \E new : SaveTrade(p, new)
    <3>0. PICK p \in Quotes : \E new : SaveTrade(p, new)
      BY <2>1
    <3>1. PICK new : SaveTrade(p, new)
      BY <3>0
    <3>2. trade'[p] = new /\ At(trade, trade', Quotes, p) /\ TradeGuard(trade[p], new)
      BY <3>1, TableWrites DEF SaveTrade
    <3> QED BY <3>2, QuoteKnown, Guarded DEF At
  <2>2. CASE \E p \in Quotes : PrepareTrade(p)
    BY <2>2 DEF PrepareTrade, Usable, Terminal, IInv, Shape, Table
  <2>3. CASE trade' = trade
    BY <2>3
  <2>4. ASSUME NEW k \in Keys, Settle(k) \/ SaveReverted(k) PROVE \E p \in Quotes : \E new : SaveTrade(p, new)
    BY <2>4, KeyKnown DEF Settle, SaveReverted
  <2> QED BY <2>1, <2>2, <2>3, <2>4
     DEF Next, RefreshEligibility, LapseEligibility, UpdatePolicy, RegisterSession, RevokeSession, Elapse,
         ReadControls, Quote, RefuseQuote, ExpireQuote, Simulate, Reject, RevalidateBeforeBroadcast,
         SavePending, Broadcast, BroadcastFails, SaveCall, SaveUnknown, CompleteExecution,
         CrashExecution, Land, Revert, Transfer, Replay, ClaimReconciliation, AnswerAsRead, AlreadySettled,
         AbandonReconciliation
<1> QED BY <1>1, Invariance, PTL DEF TerminalIsFinal, Spec

------------------------------------------------------------------------------
(* The books.  The settlement of a trade is read off the changes of the    *)
(* wallet's balances over its block, which other trades in that block and  *)
(* other transfers also move.                                              *)

OnChain(q) == chain[q].state = "landed"
MovedTyped == moved \in [1..MaxBlock -> [usdg: Int, stock: Int]]

\* Offers and fills, whose amounts the balances are made of.
AmountsOf(q) ==
  /\ quote[q].offer \in Offers \cup {NoOffer}
  /\ quote[q].status # "none" => quote[q].offer \in Offers
  /\ chain[q].state \in {"none", "sent", "landed", "failed"}
  /\ chain[q].block \in Nat /\ chain[q].out \in Nat
  /\ OnChain(q) => chain[q].block \in 1..MaxBlock
                   /\ chain[q].out \in {quote[q].offer.min, quote[q].offer.expected}

\* A confirmed trade records what its block shows, and what it did if it had
\* the block for itself; only purchases leave a lot, at a cost while there are
\* units.
BookedOf(q) ==
  /\ trade[q].status = "CONFIRMED" =>
       /\ OnChain(q) /\ trade[q].in = quote[q].offer.in
       /\ trade[q].out \in Nat /\ trade[q].out >= quote[q].offer.min
       /\ Alone(q) => trade[q].out = chain[q].out
  /\ books.units[q] # 0 => q \in Confirmed("BUY")
  /\ books.units[q] = 0 => books.cost[q] = 0

In(side) == SumOver(TradedIn, Confirmed(side))
Out(side) == SumOver(TradedOut, Confirmed(side))
Balanced ==
  /\ SumOver(books.units, Quotes) = Out("BUY") - In("SELL")
  /\ books.cash = Out("SELL") - In("BUY")
  /\ books.stock = SumOver(books.cost, Quotes)
  /\ books.cash + books.stock = books.pnl

BooksInv ==
  /\ books \in Books
  /\ \A q \in Quotes : BookedOf(q)
  /\ Balanced
LedgerInv ==
  /\ IInv
  /\ MovedTyped /\ \A q \in Quotes : AmountsOf(q)
  /\ BooksInv

LEMMA TotalIsSum == \A f, S : Total(f, S) = SumOver(f, S)
BY DEF Total, SumOver

LEMMA AmountsKnown ==
  ASSUME IInv, NEW q \in Quotes, AmountsOf(q)
  PROVE  /\ OfferedIn[q] = quote[q].offer.in /\ quote[q].offer.in \in Nat
         /\ LandedOut[q] = chain[q].out /\ chain[q].out \in Nat
         /\ chain[q].state # "none" =>
              /\ quote[q].status = "CONSUMED" /\ quote[q].offer \in Offers /\ trade[q].status # "none"
         /\ quote[q].offer \in Offers =>
              /\ quote[q].offer.side \in {"BUY", "SELL"}
              /\ quote[q].offer.in \in Nat \ {0} /\ quote[q].offer.min \in Nat \ {0}
              /\ quote[q].offer.expected \in Nat /\ quote[q].offer.min <= quote[q].offer.expected
         /\ OnChain(q) => chain[q].out # 0
<1>1. chain[q].state # "none" => quote[q].status = "CONSUMED" /\ trade[q].status # "none"
  BY QuoteKnown DEF SentOf, UseOf
<1>2. quote[q].offer \in Offers =>
              /\ quote[q].offer.side \in {"BUY", "SELL"}
              /\ quote[q].offer.in \in Nat \ {0} /\ quote[q].offer.min \in Nat \ {0}
              /\ quote[q].offer.expected \in Nat /\ quote[q].offer.min <= quote[q].offer.expected
  BY TradingAssumption
<1> QED BY <1>1, <1>2 DEF AmountsOf, OfferedIn, LandedOut, NoOffer, OnChain

\* What a settlement reads is what was quoted, for the minimum or more; and what
\* the trade did, if nothing else moved the balances.
LEMMA WhatIsRead ==
  ASSUME IInv, MovedTyped, \A p \in Quotes : AmountsOf(p),
         NEW q \in Quotes, OnChain(q), VerifySettlement(q)
  PROVE  /\ ActualIn(q) = quote[q].offer.in
         /\ ActualOut(q) \in Nat \ {0} /\ ActualOut(q) >= quote[q].offer.min
         /\ Alone(q) => ActualOut(q) = chain[q].out
<1> DEFINE side == quote[q].offer.side
           other == Other(side)
           came == moved[chain[q].block][Pays(other)]
<1>1. /\ side \in {"BUY", "SELL"} /\ other \in {"BUY", "SELL"} /\ other # side
      /\ quote[q].offer.min \in Nat \ {0}
  BY AmountsKnown DEF Other, OnChain
<1>2. /\ ActualOut(q) = SumOver(LandedOut, InBlock(q, side)) - SumOver(OfferedIn, InBlock(q, other)) + came
      /\ ActualIn(q) = quote[q].offer.in /\ ActualOut(q) >= quote[q].offer.min
  BY TotalIsSum DEF ActualOut, Spent, Received, Came, VerifySettlement
<1>3. \A p \in Quotes : /\ OfferedIn[p] \in Nat /\ LandedOut[p] \in Nat /\ LandedOut[p] = chain[p].out
                        /\ LandedOut[p] \in Int
  BY AmountsKnown
<1>4. chain[q].block \in 1..MaxBlock /\ came \in Int
  <2>1. chain[q].block \in 1..MaxBlock
    BY DEF AmountsOf
  <2>2. moved[chain[q].block] \in [usdg: Int, stock: Int]
    BY <2>1 DEF MovedTyped
  <2> QED BY <2>1, <2>2 DEF Pays
<1>5. ActualOut(q) \in Nat \ {0}
  <2>1. \A s : InBlock(q, s) \in SUBSET Quotes /\ IsFiniteSet(InBlock(q, s))
    BY TradingAssumption, FS_Subset DEF InBlock, Landed
  <2>2. SumOver(LandedOut, InBlock(q, side)) \in Nat /\ SumOver(OfferedIn, InBlock(q, other)) \in Nat
    BY <1>3, <2>1, SumNatural
  <2> HIDE DEF came, side, other
  <2> QED BY <1>1, <1>2, <1>4, <2>2
<1>6. ASSUME Alone(q) PROVE ActualOut(q) = chain[q].out
  <2>1. InBlock(q, side) = {q} /\ InBlock(q, other) = {}
    BY <1>1, <1>6 DEF Alone, InBlock, Landed, OnChain
  <2>2. came = 0
    BY <1>6 DEF Alone, NoMovement, Pays
  <2>3. SumOver(LandedOut, {q}) = LandedOut[q]
    BY <1>3, SumFew
  <2> QED BY <1>2, <1>3, <2>1, <2>2, <2>3, SumEmpty
<1> QED BY <1>2, <1>5, <1>6

LEMMA Bounds ==
  ASSUME NEW a \in Int, NEW b \in Int
  PROVE  /\ Min({a, b}) = IF a <= b THEN a ELSE b
         /\ Max({a, b}) = IF a <= b THEN b ELSE a
BY DEF Min, Max

\* A sale takes its units from the lots, oldest first, and no lot gives more
\* than it has.
LEMMA OldestFirst ==
  ASSUME IInv, \A q \in Quotes : AmountsOf(q), BooksInv,
         NEW n \in Nat, n <= SumOver(books.units, Quotes)
  PROVE  /\ \A p \in Quotes : Consumed(p, n) \in 0..books.units[p]
         /\ SumOver([p \in Quotes |-> Consumed(p, n)], Quotes) = n
<1> DEFINE U == books.units
           C == [p \in Quotes |-> Consumed(p, n)]
           B == [p \in Quotes |-> chain[p].block]
           Earlier(o, p) == B[o] < B[p] \/ (B[o] = B[p] /\ LotId[o] < LotId[p])
           Elder(p) == {o \in Quotes : Before(o, p)}
           Closed(s) == \A p \in s, o \in Quotes : Earlier(o, p) => o \in s
           Taken(s) == IF n <= SumOver(U, s) THEN n ELSE SumOver(U, s)
           Bad == {s \in SUBSET Quotes : Closed(s) /\ SumOver(C, s) # Taken(s)}
<1>1. /\ U \in [Quotes -> Nat] /\ IsFiniteSet(Quotes) /\ \A p \in Quotes : B[p] \in Nat /\ LotId[p] \in Nat
      /\ \A p, o \in Quotes : LotId[p] = LotId[o] => p = o
  BY TradingAssumption DEF BooksInv, Books, AmountsOf
<1>2. \A s \in SUBSET Quotes : IsFiniteSet(s) /\ SumOver(U, s) \in Nat
  BY <1>1, FS_Subset, SumNatural
<1>3. ASSUME NEW p \in Quotes
      PROVE  /\ C[p] \in Int /\ C[p] \in 0..U[p]
             /\ C[p] = IF n <= SumOver(U, Elder(p)) THEN 0
                       ELSE IF U[p] <= n - SumOver(U, Elder(p)) THEN U[p]
                       ELSE n - SumOver(U, Elder(p))
  <2> DEFINE older == SumOver(U, Elder(p))
             rest == IF n <= older THEN 0 ELSE n - older
  <2>1. older \in Nat /\ Older(p) = older
    BY <1>2, TotalIsSum DEF Older
  <2>2. C[p] = Min({U[p], Max({0, n - older})})
    BY <2>1 DEF Consumed
  <2> HIDE DEF older
  <2>3. Max({0, n - older}) = rest /\ rest \in Nat
    BY <2>1, Bounds
  <2> HIDE DEF C, U, rest
  <2>4. C[p] = IF U[p] <= rest THEN U[p] ELSE rest
    <3>1. U[p] \in Int /\ rest \in Int
      BY <1>1, <2>3
    <3>2. Min({U[p], rest}) = IF U[p] <= rest THEN U[p] ELSE rest
      BY <3>1, Bounds
    <3> QED BY <2>2, <2>3, <3>2
  <2> QED BY <1>1, <2>1, <2>3, <2>4 DEF rest, older
<1>4. Closed(Quotes) /\ \A p \in Quotes : Elder(p) = {o \in Quotes : Earlier(o, p)}
  BY DEF Before
<1> HIDE DEF C, U, B, Elder
<1>6. \A p \in Quotes : C[p] \in Int /\ U[p] \in Int /\ C[p] \in 0..U[p]
  BY <1>1, <1>3
<1>5. SumOver(C, Quotes) = Taken(Quotes)
  <2> SUFFICES ASSUME Bad # {} PROVE FALSE
    BY <1>4
  <2>1. PICK s \in Bad : \A t \in Bad : t \subseteq s => t = s
    <3>1. Bad \in SUBSET SUBSET Quotes
      OBVIOUS
    <3> HIDE DEF Bad
    <3> QED BY <1>1, <3>1, LeastSubset
  <2>2. s # {}
    BY SumEmpty
  <2>3. PICK p \in s : \A o \in s \ {p} : Earlier(o, p) /\ ~Earlier(p, o)
    <3> DEFINE Latest == {o \in s : \A x \in s : B[x] <= B[o]}
    <3>1. IsFiniteSet(s) /\ \A o \in s : B[o] \in Int /\ LotId[o] \in Int
      BY <1>1, <1>2
    <3>2. IsFiniteSet(Latest) /\ Latest # {}
      <4>1. \E o \in s : \A x \in s : B[x] <= B[o]
        BY <2>2, <3>1, Largest
      <4> QED BY <3>1, <4>1, FS_Subset
    <3>3. PICK p \in Latest : \A o \in Latest : LotId[o] <= LotId[p]
      <4>1. \A o \in Latest : LotId[o] \in Int
        BY <3>1
      <4> HIDE DEF Latest
      <4> QED BY <3>2, <4>1, Largest
    <3>4. ASSUME NEW o \in s \ {p} PROVE Earlier(o, p) /\ ~Earlier(p, o)
      <4>1. B[o] <= B[p] /\ B[o] \in Int /\ B[p] \in Int
        BY <3>1
      <4>2. o \in Latest => LotId[o] < LotId[p]
        <5>1. LotId[o] # LotId[p] /\ LotId[o] \in Int /\ LotId[p] \in Int
          BY <1>1, <3>1
        <5> QED BY <3>3, <5>1
      <4>3. B[o] = B[p] => o \in Latest
        OBVIOUS
      <4>4. LotId[o] \in Int /\ LotId[p] \in Int
        BY <3>1
      <4> QED BY <4>1, <4>2, <4>3, <4>4
    <3> QED BY <3>4
  <2> DEFINE r == s \ {p}
  <2>4. r \in SUBSET Quotes /\ r # s /\ r \subseteq s /\ p \in Quotes /\ s \in SUBSET Quotes
    OBVIOUS
  <2>5. Closed(r)
    <3> SUFFICES ASSUME NEW x \in r, NEW o \in Quotes, Earlier(o, x) PROVE o \in r
      OBVIOUS
    <3>1. o \in s /\ x \in s \ {p}
      OBVIOUS
    <3>2. o # p
      BY <2>3, <3>1
    <3> QED BY <3>1, <3>2
  <2>6. SumOver(C, r) = Taken(r)
    BY <2>1, <2>4, <2>5
  <2>7. Elder(p) = r
    <3>1. Elder(p) = {o \in Quotes : Earlier(o, p)} /\ ~Earlier(p, p)
      BY <1>1, <1>4, <2>4
    <3>2. \A o \in Quotes : Earlier(o, p) => o \in s
      OBVIOUS
    <3> HIDE DEF Earlier
    <3> QED BY <2>3, <2>4, <3>1, <3>2
  <2>8. SumOver(C, s) = C[p] + SumOver(C, r) /\ SumOver(U, s) = U[p] + SumOver(U, r)
    <3>1. \A o \in s : C[o] \in Int /\ U[o] \in Int
      BY <1>6, <2>4
    <3> QED BY <1>2, <3>1, SumRemove
  <2>11. SumOver(C, s) = Taken(s)
    <3> DEFINE a == SumOver(U, r)  b == U[p]  c == C[p]
    <3>1. a \in Nat /\ b \in Nat /\ c \in 0..b
      BY <1>1, <1>2, <1>3, <2>4
    <3>2. c = IF n <= a THEN 0 ELSE IF b <= n - a THEN b ELSE n - a
      BY <1>3, <2>7
    <3>3. SumOver(C, s) = c + (IF n <= a THEN n ELSE a) /\ SumOver(U, s) = b + a
      BY <2>6, <2>8
    <3> HIDE DEF a, b, c
    <3> QED BY <3>1, <3>2, <3>3
  <2> QED BY <2>1, <2>11
<1>7. SumOver(C, Quotes) = n
  BY <1>5 DEF U
<1> QED BY <1>6, <1>7 DEF C, U

------------------------------------------------------------------------------
(* What a step moves of it.                                                *)

\* A quote's offer is settled when the quote is used.
LEMMA QuotesMove ==
  ASSUME IInv, Next, NEW q \in Quotes
  PROVE  \/ quote'[q] = quote[q]
         \/ /\ quote[q].status # "CONSUMED"
            /\ \/ quote'[q].offer = quote[q].offer /\ quote[q].status # "none"
               \/ quote'[q].offer \in Offers
               \/ quote'[q] = NoQuote
<1> USE QuoteKnown
<1>1. ASSUME NEW p \in Quotes, NEW offer \in Offers, ReadControls(p, offer)
      PROVE  quote'[q] = quote[q] \/ (quote[q].status # "CONSUMED" /\ quote'[q].offer \in Offers)
  <2> DEFINE row == [status |-> "reading", offer |-> offer, policy |-> Len(policies),
                     eligibility |-> eligibility.version]
  <2>1. quote' = [quote EXCEPT ![p] = row] /\ quote[p].status = "none" /\ row.offer = offer
    BY <1>1 DEF ReadControls
  <2> HIDE DEF row
  <2> QED BY <2>1, TableWrites DEF At
<1>2. ASSUME NEW p \in Quotes, Quote(p) \/ ExpireQuote(p) \/ PrepareTrade(p)
      PROVE  quote'[q] = quote[q] \/ (/\ quote[q].status \notin {"CONSUMED", "none"}
                                      /\ quote'[q].offer = quote[q].offer)
  <2>1. PICK status : quote' = [quote EXCEPT ![p].status = status] /\ quote[p].status \in {"reading", "QUOTED"}
    BY <1>2 DEF Quote, ExpireQuote, PrepareTrade, Usable
  <2> DEFINE r == quote[p]
             row == [r EXCEPT !.status = status]
  <2>2. quote' = [quote EXCEPT ![p] = row] /\ IsQuote(r)
    BY <2>1
  <2> HIDE DEF r, row
  <2>3. row.offer = r.offer
    BY <2>2, QuoteStatusWritten DEF row
  <2> QED BY <2>1, <2>2, <2>3, TableWrites DEF At, r
<1>3. ASSUME NEW p \in Quotes, RefuseQuote(p)
      PROVE  quote'[q] = quote[q] \/ (quote[q].status # "CONSUMED" /\ quote'[q] = NoQuote)
  BY <1>3, TableWrites DEF RefuseQuote, At
<1>4. CASE quote' = quote
  BY <1>4
<1> QED BY <1>1, <1>2, <1>3, <1>4
   DEF Next, RefreshEligibility, LapseEligibility, UpdatePolicy, RegisterSession, RevokeSession, Elapse,
       Simulate, Reject, RevalidateBeforeBroadcast, SavePending, Broadcast, BroadcastFails, SaveCall,
       SaveUnknown, CompleteExecution, CrashExecution, Land, Revert, Transfer, Replay, ClaimReconciliation,
       AnswerAsRead, SaveReverted, Settle, AlreadySettled, AbandonReconciliation

\* An operation is included, or fails, once.
LEMMA ChainMoves ==
  ASSUME IInv, Next, NEW q \in Quotes
  PROVE  \/ chain'[q] = chain[q]
         \/ /\ chain[q].state \in {"none", "sent"} /\ chain'[q].state \in {"sent", "failed"}
            /\ chain'[q].block = chain[q].block /\ chain'[q].out = chain[q].out
         \/ /\ chain[q].state = "sent" /\ chain'[q].state = "landed" /\ quote'[q] = quote[q]
            /\ chain'[q].block \in 1..MaxBlock /\ chain'[q].out \in {quote[q].offer.min, quote[q].offer.expected}
<1> USE QuoteKnown
<1>1. ASSUME NEW p \in Quotes, NEW s \in {"sent", "failed"}, chain' = [chain EXCEPT ![p].state = s],
             chain[p].state \in {"none", "sent"}
      PROVE  \/ chain'[q] = chain[q]
             \/ /\ chain[q].state \in {"none", "sent"} /\ chain'[q].state \in {"sent", "failed"}
                /\ chain'[q].block = chain[q].block /\ chain'[q].out = chain[q].out
  <2> DEFINE r == chain[p]
             b == r.block
             c == r.out
             row == [r EXCEPT !.state = s]
  <2>1. IsFill(r) /\ chain' = [chain EXCEPT ![p] = row]
    BY <1>1
  <2>2. row = [state |-> s, block |-> b, out |-> c]
    <3> DEFINE a == r.state
    <3>1. r = [state |-> a, block |-> b, out |-> c]
      BY <2>1 DEF IsFill
    <3> HIDE DEF r, a, b, c
    <3> QED BY <3>1
  <2> HIDE DEF row
  <2>3. row.state = s /\ row.block = chain[p].block /\ row.out = chain[p].out
    BY <2>2
  <2> QED BY <1>1, <2>1, <2>3, TableWrites DEF At
<1>2. ASSUME NEW p \in Quotes, Broadcast(p) \/ Revert(p)
      PROVE  \E s \in {"sent", "failed"} : chain' = [chain EXCEPT ![p].state = s] /\ chain[p].state \in {"none", "sent"}
  BY <1>2 DEF Broadcast, Revert, ExecutionOf, SentOf
<1>3. ASSUME NEW p \in Quotes, NEW block \in 1..MaxBlock, NEW out, Land(p, block, out)
      PROVE  \/ chain'[q] = chain[q]
             \/ /\ chain[q].state = "sent" /\ chain'[q].state = "landed" /\ quote'[q] = quote[q]
                /\ chain'[q].block \in 1..MaxBlock /\ chain'[q].out \in {quote[q].offer.min, quote[q].offer.expected}
  <2> DEFINE row == [state |-> "landed", block |-> block, out |-> out]
  <2>1. /\ chain' = [chain EXCEPT ![p] = row] /\ chain[p].state = "sent" /\ quote' = quote
        /\ out \in {quote[p].offer.min, quote[p].offer.expected}
        /\ row.state = "landed" /\ row.block = block /\ row.out = out
    BY <1>3 DEF Land
  <2> HIDE DEF row
  <2> QED BY <2>1, TableWrites DEF At
<1>4. CASE chain' = chain
  BY <1>4
<1> QED BY <1>1, <1>2, <1>3, <1>4
   DEF Next, RefreshEligibility, LapseEligibility, UpdatePolicy, RegisterSession, RevokeSession, Elapse,
       ReadControls, Quote, RefuseQuote, ExpireQuote, PrepareTrade,
       Simulate, Reject, RevalidateBeforeBroadcast, SavePending, BroadcastFails, SaveCall,
       SaveUnknown, CompleteExecution, CrashExecution, Transfer, Replay, ClaimReconciliation,
       AnswerAsRead, SaveReverted, Settle, AlreadySettled, AbandonReconciliation, world

\* Only a settlement confirms a trade or writes the books.
LEMMA TradesMove ==
  ASSUME IInv, Next, NEW q \in Quotes
  PROVE  \/ trade'[q] = trade[q]
         \/ trade[q].status # "CONFIRMED" /\ trade'[q].status # "CONFIRMED"
         \/ \E k \in Keys : Settle(k)
<1> USE QuoteKnown
<1>1. ASSUME NEW p \in Quotes, NEW new, SaveTrade(p, new), new.status # "CONFIRMED"
      PROVE  trade'[q] = trade[q] \/ (trade[q].status # "CONFIRMED" /\ trade'[q].status # "CONFIRMED")
  <2>1. trade'[p] = new /\ At(trade, trade', Quotes, p) /\ TradeGuard(trade[p], new)
    BY <1>1, TableWrites DEF SaveTrade
  <2> QED BY <1>1, <2>1, Guarded DEF At, Terminal
<1>2. ASSUME NEW p \in Quotes,
             NEW status \in {"SIMULATED", "SIMULATION_FAILED", "REJECTED", "PENDING"},
             SaveTrade(p, [trade[p] EXCEPT !.status = status])
      PROVE  \E new : SaveTrade(p, new) /\ new.status # "CONFIRMED"
  <2> DEFINE old == trade[p]
             new == [old EXCEPT !.status = status]
  <2>1. IsTrade(old)
    OBVIOUS
  <2> HIDE DEF old
  <2>2. new.status = status
    BY <2>1, TradeStatusWritten
  <2> QED BY <1>2, <2>2 DEF old
<1>3. ASSUME NEW p \in Quotes, Simulate(p) \/ Reject(p) \/ SavePending(p) \/ SaveUnknown(p)
      PROVE  \E new : SaveTrade(p, new) /\ new.status # "CONFIRMED"
  BY <1>2, <1>3 DEF Simulate, Reject, SavePending, SaveUnknown
<1>4. ASSUME NEW p \in Quotes, SaveCall(p)
      PROVE  \E new : SaveTrade(p, new) /\ new.status # "CONFIRMED"
  <2>1. Remembered(p).status = "PENDING"
    BY DEF Remembered, NoTrade
  <2> QED BY <1>4, <2>1 DEF SaveCall
<1>5. ASSUME NEW k \in Keys, SaveReverted(k)
      PROVE  \E p \in Quotes : \E new : SaveTrade(p, new) /\ new.status # "CONFIRMED"
  <2> DEFINE old == reconciling[k].trade
             new == [old EXCEPT !.status = "REVERTED"]
  <2>1. IsTrade(old) /\ reconciling[k].of \in Quotes /\ SaveTrade(reconciling[k].of, new)
    BY <1>5, KeyKnown DEF SaveReverted, ReconciliationOf
  <2> HIDE DEF old
  <2>2. new.status = "REVERTED"
    BY <2>1, TradeStatusWritten
  <2> QED BY <2>1, <2>2
<1>6. ASSUME NEW p \in Quotes, PrepareTrade(p)
      PROVE  trade'[q] = trade[q] \/ (trade[q].status # "CONFIRMED" /\ trade'[q].status # "CONFIRMED")
  <2> DEFINE row == [NoTrade EXCEPT !.status = "POLICY_APPROVED", !.policy = Len(policies)]
  <2>1. trade' = [trade EXCEPT ![p] = row] /\ trade[p].status = "none" /\ row.status = "POLICY_APPROVED"
    BY <1>6 DEF PrepareTrade, Usable, NoTrade
  <2> HIDE DEF row
  <2> QED BY <2>1, TableWrites DEF At
<1>7. CASE trade' = trade
  BY <1>7
<1> QED BY <1>1, <1>3, <1>4, <1>5, <1>6, <1>7
   DEF Next, RefreshEligibility, LapseEligibility, UpdatePolicy, RegisterSession, RevokeSession, Elapse,
       ReadControls, Quote, RefuseQuote, ExpireQuote, RevalidateBeforeBroadcast, Broadcast,
       BroadcastFails, CompleteExecution, CrashExecution, Land, Revert, Transfer, Replay, ClaimReconciliation,
       AnswerAsRead, AlreadySettled, AbandonReconciliation

LEMMA BooksMove ==
  ASSUME IInv, Next
  PROVE  books' = books \/ \E k \in Keys : Settle(k)
BY DEF Next, RefreshEligibility, LapseEligibility, UpdatePolicy, RegisterSession, RevokeSession, Elapse,
       ReadControls, Quote, RefuseQuote, ExpireQuote, PrepareTrade, Simulate, Reject,
       RevalidateBeforeBroadcast, SavePending, Broadcast, BroadcastFails, SaveCall, SaveUnknown,
       CompleteExecution, CrashExecution, Land, Revert, Transfer, Replay, ClaimReconciliation, AnswerAsRead,
       SaveReverted, AlreadySettled, AbandonReconciliation

\* So what has landed stays, and offers and fills stay what they are.
LEMMA LandedStays ==
  ASSUME IInv, Next, NEW q \in Quotes, OnChain(q)
  PROVE  OnChain(q)' /\ chain'[q] = chain[q] /\ quote'[q].offer = quote[q].offer
<1>1. chain'[q] = chain[q]
  BY ChainMoves DEF OnChain
<1>2. quote[q].status = "CONSUMED"
  BY QuoteKnown DEF OnChain, SentOf, UseOf
<1> QED BY <1>1, <1>2, QuotesMove DEF OnChain

LEMMA AmountsStay ==
  ASSUME IInv, Next, NEW q \in Quotes, AmountsOf(q)
  PROVE  AmountsOf(q)'
<1>1. /\ quote'[q].offer \in Offers \cup {NoOffer}
      /\ quote'[q].status # "none" => quote'[q].offer \in Offers
  BY QuotesMove DEF AmountsOf, NoQuote
<1>2. OnChain(q) => quote'[q].offer = quote[q].offer /\ chain'[q] = chain[q]
  BY LandedStays
<1>3. \A o \in Offers : o.min \in Nat /\ o.expected \in Nat
  BY TradingAssumption
<1>4. chain[q].state = "sent" => quote[q].offer \in Offers
  BY AmountsKnown
<1> QED BY <1>1, <1>2, <1>3, <1>4, ChainMoves DEF AmountsOf, OnChain

\* What came to the wallet in a block stays.
LEMMA MovedStays ==
  ASSUME IInv, Next, MovedTyped
  PROVE  MovedTyped' /\ \A b \in 1..MaxBlock : moved[b] # NoMovement => moved'[b] = moved[b]
<1>1. ASSUME NEW b \in 1..MaxBlock, NEW movement \in Movements, Transfer(b, movement)
      PROVE  MovedTyped' /\ \A c \in 1..MaxBlock : moved[c] # NoMovement => moved'[c] = moved[c]
  <2>1. moved' = [moved EXCEPT ![b] = movement] /\ moved[b] = NoMovement
    BY <1>1 DEF Transfer
  <2>2. movement \in [usdg: Int, stock: Int]
    BY TradingAssumption
  <2> QED BY <2>1, <2>2 DEF MovedTyped
<1>2. CASE moved' = moved
  BY <1>2 DEF MovedTyped
<1> QED BY <1>1, <1>2
   DEF Next, RefreshEligibility, LapseEligibility, UpdatePolicy, RegisterSession, RevokeSession, Elapse,
       ReadControls, Quote, RefuseQuote, ExpireQuote, PrepareTrade,
       Simulate, Reject, RevalidateBeforeBroadcast, SavePending, Broadcast, BroadcastFails, SaveCall,
       SaveUnknown, CompleteExecution, CrashExecution, Land, Revert, Replay, ClaimReconciliation,
       AnswerAsRead, SaveReverted, Settle, AlreadySettled, AbandonReconciliation, world

\* A block that others joined is not one's own again.
LEMMA AloneBefore ==
  ASSUME IInv, Next, MovedTyped, NEW q \in Quotes, OnChain(q), AmountsOf(q), Alone(q)'
  PROVE  Alone(q)
<1>1. chain'[q] = chain[q] /\ chain[q].block \in 1..MaxBlock
  BY LandedStays DEF AmountsOf
<1>2. moved[chain[q].block] = NoMovement
  BY <1>1, MovedStays DEF Alone
<1>3. ASSUME NEW p \in Quotes, OnChain(p), chain[p].block = chain[q].block PROVE p = q
  BY <1>1, <1>3, LandedStays DEF Alone, OnChain
<1> QED BY <1>2, <1>3 DEF Alone, OnChain

------------------------------------------------------------------------------
(* The books balance.                                                      *)

LEMMA ConfirmedKnown ==
  ASSUME NEW side
  PROVE  Confirmed(side) \in SUBSET Quotes /\ IsFiniteSet(Confirmed(side))
BY TradingAssumption, FS_Subset DEF Confirmed

\* Confirmed trades that stay what they are add up to the same.
LEMMA QuietSteps ==
  ASSUME IInv, Next, MovedTyped, \A q \in Quotes : AmountsOf(q),
         ~\E k \in Keys : Settle(k), BooksInv
  PROVE  BooksInv'
<1>1. books' = books
  BY BooksMove
<1>2. ASSUME NEW q \in Quotes
      PROVE  /\ trade'[q].status = "CONFIRMED" <=> trade[q].status = "CONFIRMED"
             /\ trade[q].status = "CONFIRMED" => /\ trade'[q] = trade[q] /\ chain'[q] = chain[q]
                                                 /\ OnChain(q)' /\ quote'[q].offer = quote[q].offer
                                                 /\ Alone(q)' => Alone(q)
  BY TradesMove, LandedStays, AloneBefore DEF BooksInv, BookedOf
<1>3. \A side : Confirmed(side)' = Confirmed(side)
  BY <1>2 DEF Confirmed
<1>4. ASSUME NEW side PROVE In(side)' = In(side) /\ Out(side)' = Out(side)
  <2> DEFINE S == Confirmed(side)
             e == TradedIn'
             f == TradedOut'
  <2>1. IsFiniteSet(S) /\ S \in SUBSET Quotes
    BY ConfirmedKnown
  <2>2. \A q \in S : TradedIn[q] = e[q] /\ TradedOut[q] = f[q]
    BY <1>2 DEF TradedIn, TradedOut, Confirmed
  <2>3. In(side)' = SumOver(e, S) /\ Out(side)' = SumOver(f, S)
    BY <1>3 DEF In, Out
  <2> HIDE DEF S, e, f
  <2>4. SumOver(TradedIn, S) = SumOver(e, S) /\ SumOver(TradedOut, S) = SumOver(f, S)
    BY <2>1, <2>2, SumAgree
  <2> QED BY <2>3, <2>4 DEF In, Out, S
<1>5. \A q \in Quotes : BookedOf(q)'
  BY <1>1, <1>2, <1>3 DEF BooksInv, BookedOf
<1>6. Balanced'
  <2>1. SumOver(books.units, Quotes)' = SumOver(books.units, Quotes)
        /\ SumOver(books.cost, Quotes)' = SumOver(books.cost, Quotes)
    BY <1>1
  <2> QED BY <1>1, <1>4, <2>1 DEF BooksInv, Balanced
<1> QED BY <1>1, <1>5, <1>6 DEF BooksInv

\* What a settlement adds to the confirmed trades.
LEMMA Settled ==
  ASSUME IInv, MovedTyped, \A p \in Quotes : AmountsOf(p), BooksInv,
         NEW k \in Keys, Settle(k), NEW q, q = reconciling[k].of
  PROVE  /\ q \in Quotes /\ OnChain(q) /\ trade[q].status # "CONFIRMED"
         /\ UNCHANGED <<quote, chain, moved>>
         /\ \A p \in Quotes : p # q => trade'[p] = trade[p]
         /\ trade'[q].status = "CONFIRMED"
         /\ trade'[q].in = quote[q].offer.in /\ trade'[q].out = ActualOut(q)
         /\ ActualIn(q) = quote[q].offer.in
         /\ ActualOut(q) \in Nat \ {0} /\ ActualOut(q) >= quote[q].offer.min
         /\ Alone(q) => ActualOut(q) = chain[q].out
<1>1. /\ reconciling[k].step = "claimed" /\ chain[q].state = "landed" /\ VerifySettlement(q)
      /\ trade[q].status # "CONFIRMED" /\ UNCHANGED <<quote, chain, moved>>
      /\ SaveTrade(q, [trade[q] EXCEPT !.status = "CONFIRMED", !.in = ActualIn(q), !.out = ActualOut(q)])
  BY DEF Settle, world
<1>2. q \in Quotes /\ OnChain(q)
  BY <1>1, KeyKnown DEF OnChain
<1>3. /\ ActualIn(q) = quote[q].offer.in
      /\ ActualOut(q) \in Nat \ {0} /\ ActualOut(q) >= quote[q].offer.min
      /\ Alone(q) => ActualOut(q) = chain[q].out
  BY <1>1, <1>2, WhatIsRead
<1> DEFINE old == trade[q]
           x == ActualIn(q)
           y == ActualOut(q)
           new == [old EXCEPT !.status = "CONFIRMED", !.in = x, !.out = y]
<1>4. new.status = "CONFIRMED" /\ new.in = x /\ new.out = y
  <2> DEFINE a == old.status b == old.policy c == old.call d == old.in e == old.out
  <2>1. old = [status |-> a, policy |-> b, call |-> c, in |-> d, out |-> e]
    BY <1>2, QuoteKnown DEF IsTrade
  <2>2. new = [old EXCEPT !.status = "CONFIRMED", !.in = x, !.out = y]
    OBVIOUS
  <2> HIDE DEF new, old, a, b, c, d, e, x, y
  <2>3. new = [status |-> "CONFIRMED", policy |-> b, call |-> c, in |-> x, out |-> y]
    BY <2>1, <2>2
  <2> QED BY <2>3
<1> HIDE DEF new
<1>5. trade' = [trade EXCEPT ![q] = new]
  BY <1>1 DEF SaveTrade, new
<1>6. trade'[q] = new /\ \A p \in Quotes : p # q => trade'[p] = trade[p]
  <2> HIDE DEF old, x, y
  <2>1. At(trade, trade', Quotes, q) /\ trade'[q] = new
    BY <1>2, <1>5, TableWrites
  <2> QED BY <2>1, QuoteKnown DEF At
<1> QED BY <1>1, <1>2, <1>3, <1>4, <1>6

LEMMA SettledSums ==
  ASSUME IInv, MovedTyped, \A p \in Quotes : AmountsOf(p), BooksInv,
         NEW k \in Keys, Settle(k), NEW q, q = reconciling[k].of,
         NEW side \in {"BUY", "SELL"}
  PROVE  /\ In(side) \in Nat /\ Out(side) \in Nat
         /\ quote[q].offer.side = side =>
              /\ Confirmed(side)' = Confirmed(side) \cup {q}
              /\ In(side)' = In(side) + quote[q].offer.in /\ Out(side)' = Out(side) + ActualOut(q)
         /\ quote[q].offer.side # side =>
              /\ Confirmed(side)' = Confirmed(side)
              /\ In(side)' = In(side) /\ Out(side)' = Out(side)
<1> DEFINE S == Confirmed(side)
           e == TradedIn'
           f == TradedOut'
<1>1. /\ q \in Quotes /\ trade[q].status # "CONFIRMED" /\ UNCHANGED <<quote, chain>>
      /\ \A p \in Quotes : p # q => trade'[p] = trade[p]
      /\ trade'[q].status = "CONFIRMED"
      /\ trade'[q].in = quote[q].offer.in /\ trade'[q].out = ActualOut(q) /\ ActualOut(q) \in Nat
  BY Settled
<1>2. IsFiniteSet(S) /\ S \in SUBSET Quotes /\ q \notin S
  BY <1>1, ConfirmedKnown DEF Confirmed
<1>3. \A p \in S : /\ TradedIn[p] = e[p] /\ TradedOut[p] = f[p]
                   /\ TradedIn[p] \in Nat /\ TradedOut[p] \in Nat
  <2> SUFFICES ASSUME NEW p \in S
               PROVE  /\ TradedIn[p] = e[p] /\ TradedOut[p] = f[p]
                      /\ TradedIn[p] \in Nat /\ TradedOut[p] \in Nat
    OBVIOUS
  <2>1. p \in Quotes /\ trade'[p] = trade[p] /\ trade[p].status = "CONFIRMED"
    BY <1>1, <1>2 DEF Confirmed
  <2>2. trade[p].in = quote[p].offer.in /\ trade[p].out \in Nat
    BY <2>1 DEF BooksInv, BookedOf
  <2> QED BY <2>1, <2>2, AmountsKnown DEF TradedIn, TradedOut
<1>4. /\ e[q] = quote[q].offer.in /\ f[q] = ActualOut(q) /\ e[q] \in Nat /\ f[q] \in Nat
  BY <1>1, AmountsKnown DEF TradedIn, TradedOut
<1>5. /\ In(side) = SumOver(TradedIn, S) /\ In(side)' = SumOver(e, Confirmed(side)')
      /\ Out(side) = SumOver(TradedOut, S) /\ Out(side)' = SumOver(f, Confirmed(side)')
  BY DEF In, Out
<1>6. Confirmed(side)' = IF quote[q].offer.side = side THEN S \cup {q} ELSE S
  BY <1>1 DEF Confirmed
<1> HIDE DEF e, f, S
<1>7. SumOver(e, S) = SumOver(TradedIn, S) /\ SumOver(f, S) = SumOver(TradedOut, S)
  BY <1>2, <1>3, SumAgree
<1>8. SumOver(e, S \cup {q}) = SumOver(e, S) + e[q] /\ SumOver(f, S \cup {q}) = SumOver(f, S) + f[q]
  <2>1. \A p \in S \cup {q} : e[p] \in Int /\ f[p] \in Int
    BY <1>3, <1>4
  <2> QED BY <1>2, <2>1, SumAdd
<1>9. SumOver(TradedIn, S) \in Nat /\ SumOver(TradedOut, S) \in Nat
  BY <1>2, <1>3, SumNatural
<1> QED BY <1>4, <1>5, <1>6, <1>7, <1>8, <1>9 DEF S

\* What the books say before a step.
LEMMA BooksKnown ==
  ASSUME BooksInv
  PROVE  /\ IsFiniteSet(Quotes) /\ Balanced
         /\ books.units \in [Quotes -> Nat] /\ books.cost \in [Quotes -> Nat]
         /\ books.cash \in Int /\ books.stock \in Int /\ books.pnl \in Int
         /\ SumOver(books.units, Quotes) \in Nat /\ SumOver(books.cost, Quotes) \in Nat
<1>1. /\ IsFiniteSet(Quotes) /\ Balanced /\ books \in Books
  BY TradingAssumption DEF BooksInv
<1>2. books.units \in [Quotes -> Nat] /\ books.cost \in [Quotes -> Nat]
  BY <1>1 DEF Books
<1>3. SumOver(books.units, Quotes) \in Nat /\ SumOver(books.cost, Quotes) \in Nat
  BY <1>1, <1>2, SumNatural
<1> QED BY <1>1, <1>2, <1>3 DEF Books

\* The trades of a settlement, whatever it does to the lots.
LEMMA TradesBooked ==
  ASSUME IInv, MovedTyped, \A p \in Quotes : AmountsOf(p), BooksInv,
         NEW k \in Keys, Settle(k),
         \A p \in Quotes : /\ books'.units[p] # 0 => p \in Confirmed("BUY")'
                           /\ books'.units[p] = 0 => books'.cost[p] = 0
  PROVE  \A p \in Quotes : BookedOf(p)'
<1> DEFINE q == reconciling[k].of
           n == ActualOut(q)
<1>1. /\ q \in Quotes /\ OnChain(q) /\ UNCHANGED <<quote, chain, moved>>
      /\ \A p \in Quotes : p # q => trade'[p] = trade[p]
      /\ trade'[q].status = "CONFIRMED"
      /\ trade'[q].in = quote[q].offer.in /\ trade'[q].out = n
      /\ n \in Nat /\ n >= quote[q].offer.min
      /\ Alone(q) => n = chain[q].out
  BY Settled
<1> HIDE DEF q, n
<1>2. \A p \in Quotes : Alone(p)' = Alone(p)
  BY <1>1 DEF Alone
<1> QED BY <1>1, <1>2 DEF BooksInv, BookedOf, OnChain

\* A purchase leaves a lot where there was none.
LEMMA PurchaseStep ==
  ASSUME IInv, MovedTyped, \A p \in Quotes : AmountsOf(p), BooksInv,
         NEW k \in Keys, Settle(k), NEW q, q = reconciling[k].of, quote[q].offer.side = "BUY"
  PROVE  BooksInv'
<1> DEFINE x == quote[q].offer.in
           y == ActualOut(q)
           u == books.units
           c == books.cost
<1>1. /\ q \in Quotes /\ trade[q].status # "CONFIRMED" /\ ActualIn(q) = x
      /\ x \in Nat /\ y \in Nat /\ y # 0
  BY Settled, AmountsKnown
<1>2. books' = [books EXCEPT !.units[q] = y, !.cost[q] = x, !.cash = @ - x, !.stock = @ + x]
  BY <1>1 DEF Settle, BookPurchase
<1>3. /\ IsFiniteSet(Quotes) /\ Balanced /\ books \in Books
      /\ u \in [Quotes -> Nat] /\ c \in [Quotes -> Nat]
      /\ books.cash \in Int /\ books.stock \in Int /\ books.pnl \in Int
      /\ SumOver(u, Quotes) \in Nat /\ SumOver(c, Quotes) \in Nat
  BY BooksKnown DEF BooksInv
<1>4. u[q] = 0 /\ c[q] = 0
  BY <1>1 DEF BooksInv, BookedOf, Confirmed
<1> DEFINE v == [u EXCEPT ![q] = y]
           d == [c EXCEPT ![q] = x]
<1>5. /\ books'.units = v /\ books'.cost = d
      /\ books'.cash = books.cash - x /\ books'.stock = books.stock + x /\ books'.pnl = books.pnl
      /\ books' \in Books
  <2> DEFINE e == books.cash f == books.stock g == books.pnl
  <2>1. books = [units |-> u, cost |-> c, cash |-> e, stock |-> f, pnl |-> g]
    BY <1>3 DEF Books
  <2>2. v \in [Quotes -> Nat] /\ d \in [Quotes -> Nat]
    BY <1>1, <1>3
  <2>3. books' = [units |-> v, cost |-> d, cash |-> e - x, stock |-> f + x, pnl |-> g]
    <3> HIDE DEF u, c, e, f, g, x, y
    <3> QED BY <1>2, <2>1
  <2> HIDE DEF v, d, x
  <2> QED BY <1>1, <1>3, <2>2, <2>3 DEF Books
<1>6. SumOver(v, Quotes) = SumOver(u, Quotes) + y /\ SumOver(d, Quotes) = SumOver(c, Quotes) + x
  <2>1. /\ \A p \in Quotes : u[p] \in Int /\ v[p] \in Int /\ c[p] \in Int /\ d[p] \in Int
        /\ \A p \in Quotes \ {q} : v[p] = u[p] /\ d[p] = c[p]
        /\ v[q] - u[q] = y /\ d[q] - c[q] = x
    BY <1>1, <1>3, <1>4
  <2> HIDE DEF u, c, v, d, x, y
  <2>2. SumOver(v, Quotes) = SumOver(u, Quotes) + (v[q] - u[q])
    BY <1>1, <1>3, <2>1, SumChange
  <2>3. SumOver(d, Quotes) = SumOver(c, Quotes) + (d[q] - c[q])
    BY <1>1, <1>3, <2>1, SumChange
  <2> QED BY <2>1, <2>2, <2>3
<1>7. /\ In("BUY")' = In("BUY") + x /\ Out("BUY")' = Out("BUY") + y
      /\ In("SELL")' = In("SELL") /\ Out("SELL")' = Out("SELL")
      /\ Confirmed("BUY")' = Confirmed("BUY") \cup {q}
      /\ In("BUY") \in Nat /\ Out("BUY") \in Nat /\ In("SELL") \in Nat /\ Out("SELL") \in Nat
  BY SettledSums
<1>8. \A p \in Quotes : BookedOf(p)'
  <2>1. \A p \in Quotes : /\ books'.units[p] # 0 => p \in Confirmed("BUY")'
                          /\ books'.units[p] = 0 => books'.cost[p] = 0
    BY <1>1, <1>3, <1>5, <1>7 DEF BooksInv, BookedOf
  <2> QED BY <2>1, TradesBooked
<1>9. Balanced'
  <2>1. SumOver(books.units, Quotes)' = SumOver(v, Quotes) /\ SumOver(books.cost, Quotes)' = SumOver(d, Quotes)
    BY <1>5
  <2>2. /\ SumOver(u, Quotes) = Out("BUY") - In("SELL") /\ books.cash = Out("SELL") - In("BUY")
        /\ books.stock = SumOver(c, Quotes) /\ books.cash + books.stock = books.pnl
    BY <1>3 DEF Balanced
  <2> HIDE DEF u, c, v, d, x, y
  <2>3. /\ SumOver(books.units, Quotes)' = Out("BUY")' - In("SELL")'
        /\ books'.cash = Out("SELL")' - In("BUY")'
        /\ books'.stock = SumOver(books.cost, Quotes)'
        /\ books'.cash + books'.stock = books'.pnl
    <3>1. x \in Nat /\ y \in Nat
      BY <1>1
    <3> QED BY <1>3, <1>5, <1>6, <1>7, <2>1, <2>2, <3>1
  <2> QED BY <2>3 DEF Balanced
<1> QED BY <1>5, <1>8, <1>9 DEF BooksInv

\* A lot that gives all its units gives all its cost; otherwise a share.
LEMMA CostTaken ==
  ASSUME BooksInv, NEW n \in Nat, NEW p \in Quotes, Consumed(p, n) \in 0..books.units[p]
  PROVE  /\ Allocated(p, n) \in 0..books.cost[p]
         /\ Consumed(p, n) = books.units[p] => Allocated(p, n) = books.cost[p]
<1> DEFINE c == books.cost[p]
           u == books.units[p]
           k == Consumed(p, n)
<1>1. c \in Nat /\ u \in Nat /\ k \in Nat /\ k <= u
  BY BooksKnown
<1>2. Allocated(p, n) = IF k = u THEN c ELSE (c * k) \div u
  BY DEF Allocated
<1> HIDE DEF c, u, k
<1>3. CASE k = u
  BY <1>1, <1>2, <1>3 DEF c, u, k
<1>4. CASE k # u
  <2>1. k < u
    BY <1>1, <1>4
  <2>2. (c * k) \div u \in 0..c
    BY <1>1, <2>1, SharePart
  <2> QED BY <1>2, <1>4, <2>2 DEF c, u, k
<1> QED BY <1>3, <1>4

\* A sale takes its units and their cost off the lots.
LEMMA SaleStep ==
  ASSUME IInv, MovedTyped, \A p \in Quotes : AmountsOf(p), BooksInv,
         NEW k \in Keys, Settle(k), NEW q, q = reconciling[k].of, quote[q].offer.side = "SELL"
  PROVE  BooksInv'
<1> DEFINE n == quote[q].offer.in
           y == ActualOut(q)
           u == books.units
           c == books.cost
           w == [p \in Quotes |-> Consumed(p, n)]
           a == [p \in Quotes |-> Allocated(p, n)]
           v == [p \in Quotes |-> u[p] - Consumed(p, n)]
           d == [p \in Quotes |-> c[p] - Allocated(p, n)]
           cost == SumOver(a, Quotes)
<1>1. q \in Quotes /\ ActualIn(q) = n /\ n \in Nat /\ y \in Nat
  BY Settled, AmountsKnown
<1>2. /\ n <= SumOver(u, Quotes)
      /\ books' = [units |-> v, cost |-> d, cash |-> books.cash + y,
                   stock |-> books.stock - cost, pnl |-> books.pnl + y - cost]
  <2>1. BookSale(q)
    BY DEF Settle
  <2>2. Held = SumOver(u, Quotes) /\ Total(a, Quotes) = cost
    BY TotalIsSum DEF Held
  <2> QED BY <1>1, <2>1, <2>2 DEF BookSale
<1>3. /\ IsFiniteSet(Quotes) /\ Balanced
      /\ u \in [Quotes -> Nat] /\ c \in [Quotes -> Nat]
      /\ books.cash \in Int /\ books.stock \in Int /\ books.pnl \in Int
      /\ SumOver(u, Quotes) \in Nat /\ SumOver(c, Quotes) \in Nat
  BY BooksKnown
<1>4. /\ \A p \in Quotes : Consumed(p, n) \in 0..u[p]
      /\ SumOver(w, Quotes) = n
  BY <1>1, <1>2, OldestFirst
<1>5. ASSUME NEW p \in Quotes
      PROVE  /\ w[p] \in 0..u[p] /\ a[p] \in 0..c[p] /\ (w[p] = u[p] => a[p] = c[p])
             /\ v[p] = u[p] - w[p] /\ d[p] = c[p] - a[p]
  BY <1>1, <1>4, CostTaken
<1>6. \A p \in Quotes : /\ u[p] \in Nat /\ c[p] \in Nat /\ w[p] \in Nat /\ a[p] \in Nat
                        /\ v[p] \in Nat /\ d[p] \in Nat
                        /\ v[p] # 0 => u[p] # 0
                        /\ v[p] = 0 => d[p] = 0
  <2> SUFFICES ASSUME NEW p \in Quotes
               PROVE  /\ u[p] \in Nat /\ c[p] \in Nat /\ w[p] \in Nat /\ a[p] \in Nat
                      /\ v[p] \in Nat /\ d[p] \in Nat
                      /\ v[p] # 0 => u[p] # 0
                      /\ v[p] = 0 => d[p] = 0
    OBVIOUS
  <2>1. u[p] \in Nat /\ c[p] \in Nat
    BY <1>3
  <2> HIDE DEF u, c, w, a, v, d
  <2> QED BY <1>5, <2>1
<1> HIDE DEF w, a
<1>7. /\ SumOver(v, Quotes) = SumOver(u, Quotes) - n
      /\ SumOver(d, Quotes) = SumOver(c, Quotes) - cost
      /\ cost \in Nat
  <2> HIDE DEF u, c, v, d
  <2>1. SumOver(v, Quotes) = SumOver(u, Quotes) - SumOver(w, Quotes)
    BY <1>3, <1>5, <1>6, SumMinus
  <2>2. SumOver(d, Quotes) = SumOver(c, Quotes) - SumOver(a, Quotes)
    BY <1>3, <1>5, <1>6, SumMinus
  <2>3. SumOver(a, Quotes) \in Nat
    BY <1>3, <1>6, SumNatural
  <2> QED BY <1>4, <2>1, <2>2, <2>3
<1>8. v \in [Quotes -> Nat] /\ d \in [Quotes -> Nat]
  BY <1>6
<1> HIDE DEF v, d, cost
<1>9. /\ books'.units = v /\ books'.cost = d
      /\ books'.cash = books.cash + y /\ books'.stock = books.stock - cost
      /\ books'.pnl = books.pnl + y - cost
      /\ books' \in Books
  BY <1>1, <1>2, <1>3, <1>7, <1>8 DEF Books
<1>10. /\ In("SELL")' = In("SELL") + n /\ Out("SELL")' = Out("SELL") + y
       /\ In("BUY")' = In("BUY") /\ Out("BUY")' = Out("BUY")
       /\ Confirmed("BUY")' = Confirmed("BUY")
       /\ In("BUY") \in Nat /\ Out("BUY") \in Nat /\ In("SELL") \in Nat /\ Out("SELL") \in Nat
  BY SettledSums
<1>11. \A p \in Quotes : BookedOf(p)'
  <2>1. \A p \in Quotes : /\ books'.units[p] # 0 => p \in Confirmed("BUY")'
                          /\ books'.units[p] = 0 => books'.cost[p] = 0
    BY <1>6, <1>9, <1>10 DEF BooksInv, BookedOf
  <2> QED BY <2>1, TradesBooked
<1>12. Balanced'
  <2>1. SumOver(books.units, Quotes)' = SumOver(v, Quotes) /\ SumOver(books.cost, Quotes)' = SumOver(d, Quotes)
    BY <1>9
  <2>2. /\ SumOver(u, Quotes) = Out("BUY") - In("SELL") /\ books.cash = Out("SELL") - In("BUY")
        /\ books.stock = SumOver(c, Quotes) /\ books.cash + books.stock = books.pnl
    BY <1>3 DEF Balanced
  <2> HIDE DEF u, c, n, y
  <2>3. /\ SumOver(books.units, Quotes)' = Out("BUY")' - In("SELL")'
        /\ books'.cash = Out("SELL")' - In("BUY")'
        /\ books'.stock = SumOver(books.cost, Quotes)'
        /\ books'.cash + books'.stock = books'.pnl
    BY <1>1, <1>3, <1>7, <1>9, <1>10, <2>1, <2>2
  <2> QED BY <2>3 DEF Balanced
<1> QED BY <1>9, <1>11, <1>12 DEF BooksInv

LEMMA InitLedgerInv == Init => LedgerInv
<1> SUFFICES ASSUME Init PROVE LedgerInv
  OBVIOUS
<1>1. \A q \in Quotes : AmountsOf(q)
  BY DEF Init, AmountsOf, NoQuote, NoFill, OnChain
<1>2. \A side : Confirmed(side) = {}
  BY DEF Init, Confirmed, NoTrade
<1>3. In("BUY") = 0 /\ Out("BUY") = 0 /\ In("SELL") = 0 /\ Out("SELL") = 0
  BY <1>2, SumEmpty DEF In, Out
<1> DEFINE z == [q \in Quotes |-> 0]
<1>4. /\ books = [units |-> z, cost |-> z, cash |-> 0, stock |-> 0, pnl |-> 0]
      /\ books \in Books
  BY DEF Init, Books
<1>5. SumOver(z, Quotes) = 0
  <2>1. SumOver(z, {}) = 0 /\ \A q \in Quotes : z[q] \in Int /\ z[q] = 0
    BY SumEmpty
  <2> HIDE DEF z
  <2>2. IsFiniteSet(Quotes) /\ {} \in SUBSET Quotes /\ \A q \in Quotes \ {} : z[q] = 0
    BY <2>1, TradingAssumption
  <2>3. SumOver(z, Quotes) = SumOver(z, {})
    BY <2>1, <2>2, SumPad
  <2> QED BY <2>1, <2>3
<1>6. Balanced
  <2> HIDE DEF z
  <2> QED BY <1>3, <1>4, <1>5 DEF Balanced
<1>7. \A q \in Quotes : BookedOf(q)
  BY <1>4 DEF Init, BookedOf, NoTrade
<1>8. MovedTyped
  BY DEF Init, MovedTyped, NoMovement
<1> QED BY <1>1, <1>4, <1>6, <1>7, <1>8, InitIInv DEF LedgerInv, BooksInv

LEMMA NextLedgerInv == LedgerInv /\ [Next]_vars => LedgerInv'
<1> SUFFICES ASSUME LedgerInv, [Next]_vars PROVE LedgerInv'
  OBVIOUS
<1>1. IInv /\ (\A q \in Quotes : AmountsOf(q)) /\ MovedTyped /\ BooksInv /\ IInv'
  BY NextIInv DEF LedgerInv
<1>2. CASE Next
  <2>1. MovedTyped' /\ \A q \in Quotes : AmountsOf(q)'
    BY <1>1, <1>2, AmountsStay, MovedStays
  <2>2. CASE ~\E k \in Keys : Settle(k)
    BY <1>1, <1>2, <2>1, <2>2, QuietSteps DEF LedgerInv
  <2>3. ASSUME NEW k \in Keys, Settle(k) PROVE BooksInv'
    <3>1. PICK q \in Quotes : q = reconciling[k].of /\ OnChain(q)
      BY <1>1, <2>3, Settled
    <3>2. quote[q].offer.side \in {"BUY", "SELL"}
      BY <1>1, <3>1, AmountsKnown DEF OnChain
    <3> QED BY <1>1, <2>3, <3>1, <3>2, PurchaseStep, SaleStep
  <2> QED BY <1>1, <2>1, <2>2, <2>3 DEF LedgerInv
<1>3. CASE UNCHANGED vars
  <2>1. UNCHANGED <<quote, trade, chain, moved, books>>
    BY <1>3 DEF vars, world
  <2>2. MovedTyped' /\ \A q \in Quotes : AmountsOf(q)'
    BY <1>1, <2>1 DEF MovedTyped, AmountsOf, OnChain
  <2>3. BooksInv'
    <3>1. TradedIn' = TradedIn /\ TradedOut' = TradedOut /\ \A side : Confirmed(side)' = Confirmed(side)
      BY <2>1 DEF TradedIn, TradedOut, Confirmed
    <3>2. Balanced => Balanced'
      BY <2>1, <3>1 DEF Balanced, In, Out
    <3>3. \A q \in Quotes : BookedOf(q) => BookedOf(q)'
      BY <2>1, <3>1 DEF BookedOf, OnChain, Alone
    <3> QED BY <1>1, <2>1, <3>2, <3>3 DEF BooksInv
  <2> QED BY <1>1, <2>2, <2>3 DEF LedgerInv
<1> QED BY <1>2, <1>3

\* Whatever reconciliations run at once, in whatever order and company trades
\* are included and settled: what is booked of a trade cost what was quoted,
\* for the minimum or more, and is what the trade did if it had its block for
\* itself; the lots hold the units booked and not sold, and the entries balance.
THEOREM BooksAreTheChains == Spec => []BooksMatchChain
<1>1. LedgerInv => BooksMatchChain
  <2> SUFFICES ASSUME LedgerInv PROVE BooksMatchChain
    OBVIOUS
  <2>1. BooksInv
    BY DEF LedgerInv
  <2>2. \A q \in Confirmed("BUY") \cup Confirmed("SELL") :
          /\ chain[q].state = "landed"
          /\ trade[q].in = quote[q].offer.in /\ trade[q].out >= quote[q].offer.min
          /\ Alone(q) => trade[q].out = chain[q].out
    BY <2>1 DEF BooksInv, BookedOf, Confirmed, OnChain
  <2>3. \A q \in Quotes : books.units[q] = 0 => books.cost[q] = 0
    BY <2>1 DEF BooksInv, BookedOf
  <2>4. /\ Held = SumOver(books.units, Quotes) /\ Total(books.cost, Quotes) = SumOver(books.cost, Quotes)
        /\ Total(TradedOut, Confirmed("BUY")) = Out("BUY") /\ Total(TradedIn, Confirmed("SELL")) = In("SELL")
        /\ Proceeds = Out("SELL") /\ DailyInvestment = In("BUY")
    BY TotalIsSum DEF Held, Proceeds, DailyInvestment, In, Out
  <2> QED BY <2>1, <2>2, <2>3, <2>4 DEF BooksMatchChain, BooksInv, Balanced
<1>2. LedgerInv /\ [Next]_vars => LedgerInv'
  BY NextLedgerInv
<1> QED BY <1>1, <1>2, InitLedgerInv, PTL DEF Spec

------------------------------------------------------------------------------
(* MarketData: the requests that are made, and the answers that readers    *)
(* hold.                                                                   *)

\* The requests that wait for their turn, and how long one may still take.
Queued == {k \in CacheKeys : fetch[k].step = "waiting"}
Left(k) == IF fetch[k].step = "waiting" THEN fetch[k].due + Timeout ELSE fetch[k].due

MarketDataTyped == MarketDataTypeOK /\ cache \in Seq(CacheEntry) /\ DOMAIN reader = Readers

\* A request has a key that is not backing off, a turn of its own before the
\* next one to be given out, and a time within which it is over.
FetchOf(k) ==
  /\ fetch[k].step = "none" => fetch[k] = NoFetch
  /\ fetch[k].step # "none" => retry[k] = 0 /\ fetch[k].age + Left(k) <= Wait
  /\ fetch[k].step = "waiting" => fetch[k].due + Pace <= turn /\ fetch[k].due + idle >= Pace
  /\ fetch[k].kept = NoAnswer \/ fetch[k].kept.state = "cached"

TurnsApart ==
  \A j, k \in Queued : j # k => fetch[j].due + Pace <= fetch[k].due \/ fetch[k].due + Pace <= fetch[j].due

\* The next turn is no further off than the requests before it make it.
TurnInv == turn + idle >= Pace /\ turn + idle <= Pace * Cardinality(Queued) + Pace

\* What an answer's mark allows, and the time a reader's requests may take.
Allowed(state) == CASE state = "live" -> 0 [] state = "cached" -> Fresh [] state = "stale" -> Stale
Span(q) == Cardinality(DOMAIN reader[q]) * Wait

\* Whoever waits, waits for a request; an answer it already has will not be too
\* old when the last request is over.
ReaderOf(q) ==
  \A k \in DOMAIN reader[q] :
    /\ reader[q][k].state = "none" => fetch[k].step # "none"
    /\ reader[q][k].state \in {"live", "cached", "stale"} =>
         /\ reader[q][k].age <= Allowed(reader[q][k].state) + Span(q)
         /\ \A j \in DOMAIN reader[q] : reader[q][j].state = "none" =>
              reader[q][k].age + Left(j) <= Allowed(reader[q][k].state) + Span(q)

MarketDataIInv ==
  /\ MarketDataTyped /\ TurnsApart /\ TurnInv
  /\ \A k \in CacheKeys : FetchOf(k)
  /\ \A q \in Readers : ReaderOf(q)

LEMMA MarketDataConstants ==
  /\ CacheSize \in Nat /\ CacheSize > 0 /\ Fresh \in Nat /\ Stale \in Nat /\ Pace \in Nat /\ Timeout \in Nat
  /\ Retry \in Nat /\ MaxAge \in Nat /\ Backoffs \subseteq Nat /\ Fresh <= Stale /\ Fresh <= MaxAge
  /\ IsFiniteSet(CacheKeys) /\ Cardinality(CacheKeys) \in Nat /\ Wait \in Nat
  /\ Assets \in CacheKeys /\ 0 \in Ages /\ Fresh \in Ages
<1>1. IsFiniteSet(CacheKeys)
  BY MarketDataAssumption, FS_AddElement DEF CacheKeys
<1>2. Cardinality(CacheKeys) \in Nat
  BY <1>1, FS_CardinalityType
<1>3. Pace \in Nat /\ Timeout \in Nat /\ Fresh \in Nat /\ MaxAge \in Nat
  BY MarketDataAssumption
<1>4. Wait \in Nat
  BY <1>2, <1>3 DEF Wait
<1> QED BY <1>1, <1>2, <1>3, <1>4, MarketDataAssumption DEF CacheKeys, Ages

LEMMA NoAnswerTyped ==
  /\ NoAnswer \in Answer /\ NoAnswer.state = "none" /\ Unavailable \in Answer /\ Unavailable.state = "unavailable"
BY MarketDataConstants DEF NoAnswer, Unavailable, Answer

LEMMA NoFetchTyped ==
  /\ NoFetch \in [step: {"none", "waiting", "upstream"}, age: Ages, due: Nat, kept: Answer]
  /\ NoFetch.step = "none" /\ NoFetch.kept = NoAnswer
BY MarketDataConstants, NoAnswerTyped DEF NoFetch

\* Growing older: an age stays one, and grows by no more than the time.
LEMMA AgeGrows ==
  ASSUME NEW a \in Ages, NEW t \in Nat
  PROVE  Sum(a, t) \in Ages /\ Sum(a, t) <= a + t /\ Sum(a, t) \in Nat
BY MarketDataConstants DEF Sum, Ages

LEMMA AgedAnswer ==
  ASSUME NEW a \in Answer, NEW t \in Nat
  PROVE  /\ Aged(a, t) \in Answer /\ Aged(a, t).state = a.state /\ Aged(a, t).age = Sum(a.age, t)
         /\ Aged(a, t).age <= a.age + t /\ a.age \in Ages /\ a.age \in Nat
<1>1. a.age \in Ages /\ a.quoteAge \in Ages
  BY DEF Answer
<1>2. Sum(a.age, t) \in Ages /\ Sum(a.quoteAge, t) \in Ages /\ Sum(a.age, t) <= a.age + t
  BY <1>1, AgeGrows
<1>3. a.age \in Nat
  BY <1>1, MarketDataConstants DEF Ages
<1> QED BY <1>1, <1>2, <1>3 DEF Aged, Answer

LEMMA CachedTyped ==
  ASSUME cache \in Seq(CacheEntry), NEW k \in CacheKeys
  PROVE  /\ Cached(k) \in Answer
         /\ IF k \in Entries THEN Cached(k).state = "cached" ELSE Cached(k) = NoAnswer
<1>1. CASE k \in Entries
  <2>1. \E e \in ToSet(cache) : e.key = k
    BY <1>1 DEF Entries, ToSet
  <2>2. PICK e \in ToSet(cache) : e = CHOOSE d \in ToSet(cache) : d.key = k
    BY <2>1
  <2>3. e \in CacheEntry
    BY DEF ToSet
  <2> QED BY <1>1, <2>2, <2>3 DEF Cached, Answer, CacheEntry
<1>2. CASE k \notin Entries
  BY <1>2, NoAnswerTyped DEF Cached
<1> QED BY <1>1, <1>2

\* What is stored: entries, and no more than the cache holds.
LEMMA StoredTyped ==
  ASSUME cache \in Seq(CacheEntry), Len(cache) <= CacheSize,
         NEW k \in CacheKeys, NEW a \in Ages, NEW b \in Ages
  PROVE  Stored(k, a, b) \in Seq(CacheEntry) /\ Len(Stored(k, a, b)) <= CacheSize
<1>0. PICK e : e = [key |-> k, age |-> a, quoteAge |-> b]
  OBVIOUS
<1>1. e \in CacheEntry /\ Len(cache) \in Nat /\ DOMAIN cache = 1..Len(cache)
  BY <1>0 DEF CacheEntry
<1>2. CASE k \in Entries
  <2>1. Stored(k, a, b) = [n \in 1..Len(cache) |-> IF cache[n].key = k THEN e ELSE cache[n]]
    BY <1>0, <1>1, <1>2 DEF Stored
  <2> QED BY <1>1, <2>1
<1>3. CASE k \notin Entries
  <2>1. Stored(k, a, b) = Append(IF Len(cache) >= CacheSize THEN Tail(cache) ELSE cache, e)
    BY <1>0, <1>3 DEF Stored
  <2>2. CASE Len(cache) >= CacheSize
    <3>1. Tail(cache) \in Seq(CacheEntry) /\ Len(Tail(cache)) = Len(cache) - 1
      BY <1>1, <2>2, MarketDataConstants
    <3> QED BY <1>1, <2>1, <2>2, <3>1, MarketDataConstants
  <2>3. CASE ~(Len(cache) >= CacheSize)
    BY <1>1, <2>1, <2>3, MarketDataConstants
  <2> QED BY <2>2, <2>3
<1> QED BY <1>2, <1>3

LEMMA FallbackTyped ==
  ASSUME NEW a \in Answer, a = NoAnswer \/ a.state = "cached", NEW t \in Nat
  PROVE  /\ Fallback(a, t) \in Answer
         /\ \/ Fallback(a, t).state = "unavailable"
            \/ Fallback(a, t).state = "stale" /\ Fallback(a, t).age <= Stale + t
<1>1. CASE a # NoAnswer /\ a.age <= Stale
  <2>1. Aged(a, t) \in Answer /\ Aged(a, t).age <= a.age + t /\ a.age \in Nat
    BY AgedAnswer
  <2>2. Fallback(a, t) = [Aged(a, t) EXCEPT !.state = "stale"]
    BY <1>1 DEF Fallback
  <2>3. Fallback(a, t) \in Answer /\ Fallback(a, t).state = "stale" /\ Fallback(a, t).age = Aged(a, t).age
    BY <2>1, <2>2 DEF Answer
  <2>4. Aged(a, t).age \in Nat
    BY <2>1, MarketDataConstants DEF Answer, Ages
  <2> QED BY <1>1, <2>1, <2>3, <2>4, MarketDataConstants
<1>2. CASE ~(a # NoAnswer /\ a.age <= Stale)
  BY <1>2, NoAnswerTyped DEF Fallback
<1> QED BY <1>1, <1>2

LEMMA FetchTyped ==
  ASSUME MarketDataIInv, NEW k \in CacheKeys
  PROVE  /\ fetch[k].step \in {"none", "waiting", "upstream"} /\ fetch[k].age \in Ages /\ fetch[k].age \in Nat
         /\ fetch[k].due \in Nat /\ fetch[k].kept \in Answer /\ Left(k) \in Nat
         /\ fetch[k] = NoFetch <=> fetch[k].step = "none"
<1>1. fetch[k] \in [step: {"none", "waiting", "upstream"}, age: Ages, due: Nat, kept: Answer]
  BY DEF MarketDataIInv, MarketDataTyped, MarketDataTypeOK
<1>2. fetch[k].step = "none" => fetch[k] = NoFetch
  BY DEF MarketDataIInv, FetchOf
<1> QED BY <1>1, <1>2, NoFetchTyped, MarketDataConstants DEF Left, Ages

LEMMA QueuedFinite == IsFiniteSet(Queued) /\ Cardinality(Queued) \in Nat /\ Queued \in SUBSET CacheKeys
<1>1. Queued \in SUBSET CacheKeys
  BY DEF Queued
<1> QED BY <1>1, MarketDataConstants, FS_Subset, FS_CardinalityType

\* A reader's requests: the first takes Wait, two of them take it twice.
LEMMA SpanOf ==
  ASSUME NEW D \in SUBSET CacheKeys
  PROVE  /\ Cardinality(D) \in Nat /\ Cardinality(D) * Wait \in Nat
         /\ \A k \in D : Wait <= Cardinality(D) * Wait
         /\ \A j, k \in D : j # k => Wait + Wait <= Cardinality(D) * Wait
<1>1. IsFiniteSet(D) /\ Cardinality(D) \in Nat
  BY MarketDataConstants, FS_Subset, FS_CardinalityType
<1>2. ASSUME NEW k \in D PROVE 1 <= Cardinality(D)
  <2>1. Cardinality(D) # 0
    BY <1>1, <1>2, FS_EmptySet
  <2> QED BY <1>1, <2>1
<1>3. ASSUME NEW j \in D, NEW k \in D, j # k PROVE 2 <= Cardinality(D)
  <2>1. IsFiniteSet(D \ {j}) /\ Cardinality(D \ {j}) = Cardinality(D) - 1
    BY <1>1, FS_RemoveElement
  <2>2. Cardinality(D \ {j}) # 0 /\ Cardinality(D \ {j}) \in Nat
    BY <1>3, <2>1, FS_EmptySet, FS_CardinalityType
  <2> QED BY <1>1, <2>1, <2>2
<1>4. \A n \in Nat : n * Wait \in Nat /\ (1 <= n => Wait <= n * Wait) /\ (2 <= n => Wait + Wait <= n * Wait)
  <2>1. Wait \in Nat
    BY MarketDataConstants
  <2>2. ASSUME NEW n \in Nat PROVE n * Wait \in Nat /\ (1 <= n => Wait <= n * Wait) /\ (2 <= n => Wait + Wait <= n * Wait)
    <3>1. n * Wait \in Nat
      BY <2>1
    <3>2. ASSUME 1 <= n PROVE Wait <= n * Wait
      <4>1. n * Wait = (n - 1) * Wait + Wait /\ (n - 1) * Wait >= 0
        BY <2>1, <3>2
      <4> QED BY <2>1, <4>1
    <3>3. ASSUME 2 <= n PROVE Wait + Wait <= n * Wait
      <4>1. n * Wait = (n - 2) * Wait + Wait + Wait /\ (n - 2) * Wait >= 0
        BY <2>1, <3>3
      <4> QED BY <2>1, <4>1
    <3> QED BY <3>1, <3>2, <3>3
  <2> QED BY <2>2
<1> QED BY <1>1, <1>2, <1>3, <1>4

LEMMA AllowedTyped == \A s \in {"live", "cached", "stale"} : Allowed(s) \in Nat
BY MarketDataConstants DEF Allowed

------------------------------------------------------------------------------
(* Its steps.                                                              *)

LEMMA MarketDataInitIInv == ASSUME MarketDataInit PROVE MarketDataIInv
<1>1. cache \in Seq(CacheEntry) /\ Len(cache) = 0 /\ DOMAIN cache = {}
  BY DEF MarketDataInit
<1>2. /\ \A k \in CacheKeys : fetch[k] = NoFetch /\ retry[k] = 0
      /\ fetch \in [CacheKeys -> {NoFetch}] /\ retry \in [CacheKeys -> Nat]
      /\ \A q \in Readers : DOMAIN reader[q] = {}
      /\ DOMAIN reader = Readers /\ turn = 0 /\ idle = Pace
  BY DEF MarketDataInit
<1>3. MarketDataTyped
  <2>1. fetch \in [CacheKeys -> [step: {"none", "waiting", "upstream"}, age: Ages, due: Nat, kept: Answer]]
    BY <1>2, NoFetchTyped
  <2>2. turn \in Nat /\ idle \in 0..Pace /\ Len(cache) <= CacheSize
    BY <1>1, <1>2, MarketDataConstants
  <2> QED BY <1>1, <1>2, <2>1, <2>2 DEF MarketDataTyped, MarketDataTypeOK
<1>4. Queued = {}
  BY <1>2, NoFetchTyped DEF Queued
<1>5. Cardinality(Queued) = 0
  BY <1>4, FS_EmptySet
<1>6. TurnsApart /\ TurnInv
  BY <1>2, <1>4, <1>5, MarketDataConstants DEF TurnsApart, TurnInv
<1>7. \A k \in CacheKeys : FetchOf(k)
  BY <1>2, NoFetchTyped DEF FetchOf
<1> QED BY <1>2, <1>3, <1>6, <1>7 DEF MarketDataIInv, ReaderOf

\* A request is over, and those who wait for it hear of it.
LEMMA AnswerStep ==
  ASSUME MarketDataIInv, NEW k \in CacheKeys, fetch[k].step = "upstream",
         NEW a \in Answer,
         a.state = "unavailable" \/ (a.state \in {"live", "stale"} /\ a.age <= Allowed(a.state) + Wait),
         Tell(k, a), EndFetch(k),
         cache' \in Seq(CacheEntry), Len(cache') <= CacheSize,
         retry' \in [CacheKeys -> Nat], \A j \in CacheKeys : j # k => retry'[j] = retry[j],
         UNCHANGED <<turn, idle>>
  PROVE  MarketDataIInv'
<1>1. /\ fetch'[k] = NoFetch /\ \A j \in CacheKeys : j # k => fetch'[j] = fetch[j]
      /\ fetch' \in [CacheKeys -> [step: {"none", "waiting", "upstream"}, age: Ages, due: Nat, kept: Answer]]
  BY NoFetchTyped DEF EndFetch, MarketDataIInv, MarketDataTyped, MarketDataTypeOK
<1>2. ASSUME NEW q \in Readers
      PROVE  /\ DOMAIN reader'[q] = DOMAIN reader[q] /\ DOMAIN reader[q] \subseteq CacheKeys
             /\ \A j \in DOMAIN reader[q] :
                  reader'[q][j] = IF j = k /\ reader[q][k].state = "none" THEN a ELSE reader[q][j]
  BY DEF Tell, TellThese, Waiting, MarketDataIInv, MarketDataTyped, MarketDataTypeOK
<1>3. MarketDataTyped'
  <2>1. \A q \in Readers : DOMAIN reader'[q] \subseteq CacheKeys /\ \A j \in DOMAIN reader'[q] : reader'[q][j] \in Answer
    BY <1>2 DEF MarketDataIInv, MarketDataTyped, MarketDataTypeOK
  <2>2. DOMAIN reader' = Readers
    BY DEF Tell, TellThese
  <2>3. \A n \in DOMAIN cache' : cache'[n] \in CacheEntry
    OBVIOUS
  <2> QED BY <1>1, <2>1, <2>2, <2>3 DEF MarketDataIInv, MarketDataTyped, MarketDataTypeOK
<1>4. Queued' = Queued /\ k \notin Queued
  BY <1>1, NoFetchTyped DEF Queued
<1>5. TurnsApart' /\ TurnInv'
  <2>1. \A j \in Queued : fetch'[j] = fetch[j]
    BY <1>1, <1>4, QueuedFinite
  <2>2. TurnsApart'
    BY <1>4, <2>1 DEF MarketDataIInv, TurnsApart
  <2>3. TurnInv'
    BY <1>4 DEF MarketDataIInv, TurnInv
  <2> QED BY <2>2, <2>3
<1>6. ASSUME NEW j \in CacheKeys PROVE FetchOf(j)'
  <2>1. CASE j = k
    BY <1>1, <2>1, NoFetchTyped DEF FetchOf
  <2>2. CASE j # k
    BY <1>1, <2>2 DEF MarketDataIInv, FetchOf, Left
  <2> QED BY <2>1, <2>2
<1>7. ASSUME NEW q \in Readers PROVE ReaderOf(q)'
  <2>1. Span(q)' = Span(q)
    BY <1>2 DEF Span
  <2>2. \A j \in DOMAIN reader[q] : reader'[q][j].state = "none" =>
          j # k /\ reader[q][j].state = "none" /\ Left(j)' = Left(j) /\ fetch'[j].step = fetch[j].step
    <3>1. a.state # "none"
      OBVIOUS
    <3> QED BY <1>1, <1>2, <3>1 DEF Left
  <2>3. ASSUME NEW j \in DOMAIN reader[q]
        PROVE  /\ reader'[q][j].state = "none" => fetch'[j].step # "none"
               /\ reader'[q][j].state \in {"live", "cached", "stale"} =>
                    /\ reader'[q][j].age <= Allowed(reader'[q][j].state) + Span(q)
                    /\ \A i \in DOMAIN reader[q] : reader'[q][i].state = "none" =>
                         reader'[q][j].age + Left(i)' <= Allowed(reader'[q][j].state) + Span(q)
    <3>1. CASE j = k /\ reader[q][k].state = "none"
      <4>1. reader'[q][j] = a
        BY <1>2, <3>1
      <4>2. CASE a.state = "unavailable"
        BY <4>1, <4>2
      <4>3. CASE a.state \in {"live", "stale"}
        <5>1. a.age <= Allowed(a.state) + Wait /\ a.age \in Nat /\ Allowed(a.state) \in Nat
          BY <4>3, AllowedTyped, MarketDataConstants DEF Answer, Ages
        <5>2. Wait <= Span(q) /\ Span(q) \in Nat /\ Wait \in Nat
          BY <1>2, <3>1, SpanOf, MarketDataConstants DEF Span
        <5>3. ASSUME NEW i \in DOMAIN reader[q], reader'[q][i].state = "none"
              PROVE  a.age + Left(i)' <= Allowed(a.state) + Span(q)
          <6>1. i # k /\ Left(i)' = Left(i) /\ fetch[i].step # "none" /\ i \in CacheKeys
            BY <1>2, <2>2, <5>3 DEF MarketDataIInv, ReaderOf
          <6>2. fetch[i].age + Left(i) <= Wait /\ fetch[i].age \in Nat /\ Left(i) \in Nat
            BY <6>1, FetchTyped DEF MarketDataIInv, FetchOf
          <6>3. Wait + Wait <= Span(q)
            BY <1>2, <3>1, <6>1, SpanOf DEF Span
          <6> QED BY <5>1, <5>2, <6>1, <6>2, <6>3
        <5> QED BY <4>1, <4>3, <5>1, <5>2, <5>3
      <4> QED BY <4>2, <4>3
    <3>2. CASE ~(j = k /\ reader[q][k].state = "none")
      <4>1. reader'[q][j] = reader[q][j]
        BY <1>2, <3>2
      <4> QED BY <2>2, <4>1 DEF MarketDataIInv, ReaderOf
    <3> QED BY <3>1, <3>2
  <2> QED BY <1>2, <2>1, <2>3 DEF ReaderOf
<1> QED BY <1>3, <1>5, <1>6, <1>7 DEF MarketDataIInv

LEMMA RespondStep == ASSUME MarketDataIInv, NEW k \in CacheKeys, Respond(k) PROVE MarketDataIInv'
<1>1. fetch[k].step = "upstream" /\ EndFetch(k) /\ UNCHANGED <<retry, turn, idle>>
  BY DEF Respond
<1>2. PICK b \in IF k = Assets THEN {fetch[k].age} ELSE {0, Fresh} :
        /\ cache' = Stored(k, fetch[k].age, b)
        /\ Tell(k, [state |-> "live", age |-> fetch[k].age, quoteAge |-> b])
  BY DEF Respond
<1>3. fetch[k].age \in Ages /\ b \in Ages
  BY FetchTyped, MarketDataConstants
<1>4. cache' \in Seq(CacheEntry) /\ Len(cache') <= CacheSize
  BY <1>2, <1>3, StoredTyped DEF MarketDataIInv, MarketDataTyped, MarketDataTypeOK
<1>5. PICK a : a = [state |-> "live", age |-> fetch[k].age, quoteAge |-> b]
  OBVIOUS
<1>6. a \in Answer /\ a.state = "live" /\ a.age <= Allowed("live") + Wait
  <2>1. fetch[k].age + Left(k) <= Wait
    BY <1>1 DEF MarketDataIInv, FetchOf
  <2>2. fetch[k].age <= Allowed("live") + Wait
    BY <2>1, FetchTyped, MarketDataConstants DEF Allowed
  <2> QED BY <1>3, <1>5, <2>2 DEF Answer
<1>7. retry' \in [CacheKeys -> Nat]
  BY <1>1 DEF MarketDataIInv, MarketDataTyped, MarketDataTypeOK
<1> QED BY <1>1, <1>2, <1>4, <1>5, <1>6, <1>7, AnswerStep

LEMMA FailSteps ==
  ASSUME MarketDataIInv, NEW k \in CacheKeys, RateLimited(k) \/ Fail(k)
  PROVE  MarketDataIInv'
<1>1. PICK off \in Nat : Fails(k, off)
  BY MarketDataConstants DEF RateLimited, Fail
<1>2. /\ fetch[k].step = "upstream" /\ EndFetch(k) /\ UNCHANGED <<cache, turn, idle>>
      /\ Tell(k, Fallback(fetch[k].kept, fetch[k].age))
      /\ retry' = [retry EXCEPT ![k] = IF off > fetch[k].age THEN off - fetch[k].age ELSE 0]
  BY <1>1 DEF Fails
<1>3. PICK a : a = Fallback(fetch[k].kept, fetch[k].age)
  OBVIOUS
<1>4. /\ a \in Answer
      /\ a.state = "unavailable" \/ (a.state \in {"live", "stale"} /\ a.age <= Allowed(a.state) + Wait)
  <2>1. fetch[k].kept \in Answer /\ (fetch[k].kept = NoAnswer \/ fetch[k].kept.state = "cached")
    BY FetchTyped DEF MarketDataIInv, FetchOf
  <2>2. fetch[k].age \in Nat /\ Left(k) \in Nat /\ fetch[k].age + Left(k) <= Wait
    BY <1>2, FetchTyped DEF MarketDataIInv, FetchOf
  <2>3. /\ a \in Answer
        /\ a.state = "unavailable" \/ (a.state = "stale" /\ a.age <= Stale + fetch[k].age)
    BY <1>3, <2>1, <2>2, FallbackTyped
  <2>4. CASE a.state = "stale"
    <3>1. a.age \in Nat
      BY <2>3, MarketDataConstants DEF Answer, Ages
    <3>2. a.age <= Stale + Wait
      BY <2>2, <2>3, <2>4, <3>1, MarketDataConstants
    <3> QED BY <2>3, <2>4, <3>2 DEF Allowed
  <2> QED BY <2>3, <2>4
<1>5. retry' \in [CacheKeys -> Nat] /\ \A j \in CacheKeys : j # k => retry'[j] = retry[j]
  BY <1>2, FetchTyped DEF MarketDataIInv, MarketDataTyped, MarketDataTypeOK
<1>6. cache' \in Seq(CacheEntry) /\ Len(cache') <= CacheSize
  BY <1>2 DEF MarketDataIInv, MarketDataTyped, MarketDataTypeOK
<1> QED BY <1>2, <1>3, <1>4, <1>5, <1>6, AnswerStep

\* One request fewer waits.
LEMMA StartStep == ASSUME MarketDataIInv, NEW k \in CacheKeys, Start(k) PROVE MarketDataIInv'
<1>1. /\ fetch[k].step = "waiting" /\ fetch[k].due = 0 /\ idle' = 0
      /\ UNCHANGED <<cache, retry, turn, reader>>
  BY DEF Start
<1>2. PICK f : f = [fetch[k] EXCEPT !.step = "upstream", !.due = Timeout]
  OBVIOUS
<1>3. /\ f \in [step: {"none", "waiting", "upstream"}, age: Ages, due: Nat, kept: Answer]
      /\ f.step = "upstream" /\ f.due = Timeout /\ f.age = fetch[k].age /\ f.kept = fetch[k].kept
  <2>1. fetch[k] \in [step: {"none", "waiting", "upstream"}, age: Ages, due: Nat, kept: Answer]
    BY DEF MarketDataIInv, MarketDataTyped, MarketDataTypeOK
  <2> QED BY <1>2, <2>1, MarketDataConstants
<1>4. /\ fetch'[k] = f /\ \A j \in CacheKeys : j # k => fetch'[j] = fetch[j]
      /\ fetch' \in [CacheKeys -> [step: {"none", "waiting", "upstream"}, age: Ages, due: Nat, kept: Answer]]
  BY <1>2, <1>3 DEF Start, MarketDataIInv, MarketDataTyped, MarketDataTypeOK
<1>5. MarketDataTyped'
  BY <1>1, <1>4, MarketDataConstants DEF MarketDataIInv, MarketDataTyped, MarketDataTypeOK
<1>6. Queued' = Queued \ {k} /\ k \in Queued
  BY <1>1, <1>3, <1>4 DEF Queued
<1>7. Cardinality(Queued') = Cardinality(Queued) - 1 /\ Cardinality(Queued) \in Nat /\ Cardinality(Queued') \in Nat
  BY <1>6, QueuedFinite, FS_RemoveElement, FS_CardinalityType, FS_Subset
<1>8. /\ fetch[k].age + Left(k) <= Wait /\ Left(k) = Timeout /\ retry[k] = 0
      /\ Pace <= turn /\ Pace <= idle /\ idle \in 0..Pace /\ turn \in Nat
  <2>1. Left(k) = Timeout
    BY <1>1, MarketDataConstants DEF Left
  <2>2. FetchOf(k) /\ idle \in 0..Pace /\ turn \in Nat
    BY DEF MarketDataIInv, MarketDataTyped, MarketDataTypeOK
  <2> QED BY <1>1, <2>1, <2>2, MarketDataConstants DEF FetchOf
<1>9. \A j \in Queued' : fetch'[j].due = fetch[j].due /\ fetch[j].due >= Pace /\ fetch[j].due \in Nat
  <2>1. ASSUME NEW j \in Queued' PROVE fetch'[j].due = fetch[j].due /\ fetch[j].due >= Pace /\ fetch[j].due \in Nat
    <3>1. j \in Queued /\ j # k /\ j \in CacheKeys
      BY <1>6, QueuedFinite
    <3>2. fetch[j].due + Pace <= fetch[k].due \/ fetch[k].due + Pace <= fetch[j].due
      BY <1>6, <3>1 DEF MarketDataIInv, TurnsApart
    <3>3. fetch[j].due \in Nat
      BY <3>1, FetchTyped
    <3> QED BY <1>1, <1>4, <3>1, <3>2, <3>3, MarketDataConstants
  <2> QED BY <2>1
<1>10. TurnsApart'
  BY <1>6, <1>9 DEF MarketDataIInv, TurnsApart
<1>11. TurnInv'
  <2>1. turn + idle <= Pace * Cardinality(Queued) + Pace
    BY DEF MarketDataIInv, TurnInv
  <2>2. Pace * Cardinality(Queued) = Pace * (Cardinality(Queued) - 1) + Pace
    BY <1>7, MarketDataConstants
  <2>3. Pace * Cardinality(Queued') \in Nat /\ Pace * Cardinality(Queued) = Pace * Cardinality(Queued') + Pace
    BY <1>7, <2>2, MarketDataConstants
  <2>4. turn' + idle' <= Pace * Cardinality(Queued') + Pace /\ turn' + idle' >= Pace
    BY <1>1, <1>8, <2>1, <2>3, MarketDataConstants
  <2> QED BY <2>4 DEF TurnInv
<1>12. ASSUME NEW j \in CacheKeys PROVE FetchOf(j)'
  <2>1. CASE j = k
    <3>1. Left(j)' = Timeout
      BY <1>3, <1>4, <2>1 DEF Left
    <3>2. fetch'[j].kept = NoAnswer \/ fetch'[j].kept.state = "cached"
      BY <1>3, <1>4, <2>1 DEF MarketDataIInv, FetchOf
    <3> QED BY <1>1, <1>3, <1>4, <1>8, <2>1, <3>1, <3>2 DEF FetchOf
  <2>2. CASE j # k
    <3>1. FetchOf(j) /\ fetch'[j] = fetch[j] /\ Left(j)' = Left(j)
      BY <1>4, <2>2 DEF MarketDataIInv, Left
    <3>2. fetch'[j].step = "waiting" => fetch[j].due >= Pace /\ fetch[j].due \in Nat
      BY <1>9, <3>1 DEF Queued
    <3> QED BY <1>1, <3>1, <3>2, MarketDataConstants DEF FetchOf
  <2> QED BY <2>1, <2>2
<1>13. ASSUME NEW q \in Readers PROVE ReaderOf(q)'
  <2>1. \A j \in CacheKeys : Left(j)' = Left(j) /\ (fetch[j].step # "none" => fetch'[j].step # "none")
    <3>1. Left(k)' = Timeout
      BY <1>3, <1>4 DEF Left
    <3>2. \A j \in CacheKeys : j # k => Left(j)' = Left(j)
      BY <1>4 DEF Left
    <3> QED BY <1>3, <1>4, <1>8, <3>1, <3>2
  <2>2. DOMAIN reader[q] \subseteq CacheKeys /\ Span(q)' = Span(q) /\ reader' = reader
    BY <1>1 DEF MarketDataIInv, MarketDataTyped, MarketDataTypeOK, Span
  <2> QED BY <2>1, <2>2 DEF MarketDataIInv, ReaderOf
<1> QED BY <1>5, <1>10, <1>11, <1>12, <1>13 DEF MarketDataIInv

\* A reader asks: its new requests wait one after another, from the next turn on.
LEMMA ReadStep ==
  ASSUME MarketDataIInv, NEW q \in Readers, NEW wanted \in SUBSET CacheKeys,
         \E s \in CacheKeys : wanted = {s, Assets}, Read(q, wanted)
  PROVE  MarketDataIInv'
<1>0. PICK new, n : new = {k \in wanted : Needs(k)} /\ n = Cardinality(new)
  OBVIOUS
<1> DEFINE Place(k) == IF k = Assets THEN n ELSE 1
<1>1. /\ fetch' = [k \in CacheKeys |->
           IF k \in new THEN [step |-> "waiting", age |-> 0, due |-> Turn(Place(k)), kept |-> Cached(k)]
                        ELSE fetch[k]]
      /\ turn' = IF new = {} THEN turn ELSE Turn(n) + Pace
      /\ reader' = [reader EXCEPT ![q] = [k \in wanted |-> AtOnce(k)]]
      /\ UNCHANGED <<cache, retry, idle>> /\ ~Reading(q)
  BY <1>0 DEF Read
<1>2. /\ new \subseteq CacheKeys /\ IsFiniteSet(new) /\ n \in Nat
      /\ \A k \in new : fetch[k].step = "none" /\ retry[k] = 0
  <2>1. new \subseteq CacheKeys /\ \A k \in new : fetch[k] = NoFetch /\ retry[k] = 0
    BY <1>0 DEF Needs
  <2> QED BY <1>0, <2>1, NoFetchTyped, MarketDataConstants, FS_Subset, FS_CardinalityType
\* There are two at most, and they have different places.
<1>3. /\ new = {} => n = 0
      /\ \A k \in new : Place(k) \in Nat /\ 1 <= Place(k) /\ Place(k) <= n
      /\ \A j, k \in new : j # k => Place(j) # Place(k)
  <2>1. PICK s \in CacheKeys : wanted = {s, Assets}
    OBVIOUS
  <2>2. new = {} \/ new = {s} \/ new = {Assets} \/ (s # Assets /\ new = {s, Assets})
    BY <1>0, <2>1
  <2>3. new = {} => n = 0
    BY <1>0, FS_EmptySet
  <2>4. new = {s} \/ new = {Assets} => n = 1
    BY <1>0, FS_Singleton
  <2>5. s # Assets /\ new = {s, Assets} => n = 2
    <3>1. ASSUME s # Assets PROVE Cardinality({s, Assets}) = 2
      <4>1. Cardinality({s}) = 1 /\ IsFiniteSet({s})
        BY FS_Singleton
      <4>2. Cardinality({s} \cup {Assets}) = Cardinality({s}) + 1
        BY <3>1, <4>1, FS_AddElement
      <4>3. {s} \cup {Assets} = {s, Assets}
        OBVIOUS
      <4> QED BY <4>1, <4>2, <4>3
    <3> QED BY <1>0, <3>1
  <2> QED BY <2>2, <2>3, <2>4, <2>5
<1>4. /\ turn \in Nat /\ idle \in Nat /\ idle <= Pace /\ Pace \in Nat /\ Wait \in Nat /\ Timeout \in Nat
      /\ turn + idle >= Pace /\ turn + idle <= Pace * Cardinality(Queued) + Pace
      /\ DOMAIN retry = CacheKeys
  BY MarketDataConstants DEF MarketDataIInv, MarketDataTyped, MarketDataTypeOK, TurnInv
<1>5. \A i \in Nat : 1 <= i => Turn(i) \in Nat /\ turn <= Turn(i) /\ Turn(i) + Pace = turn + Pace * i
  <2>1. ASSUME NEW i \in Nat, 1 <= i PROVE Turn(i) \in Nat /\ turn <= Turn(i) /\ Turn(i) + Pace = turn + Pace * i
    <3>1. (i - 1) * Pace \in Nat /\ (i - 1) * Pace + Pace = Pace * i
      BY <1>4, <2>1
    <3> QED BY <1>4, <3>1 DEF Turn
  <2> QED BY <2>1
<1>6. \A i, j \in Nat : i < j => Pace * i + Pace <= Pace * j
  <2>1. ASSUME NEW i \in Nat, NEW j \in Nat, i < j PROVE Pace * i + Pace <= Pace * j
    <3>1. j - i - 1 \in Nat
      BY <2>1
    <3>2. Pace * (j - i - 1) >= 0 /\ Pace * j = Pace * i + Pace + Pace * (j - i - 1)
      BY <1>4, <2>1, <3>1
    <3>3. Pace * i \in Nat /\ Pace * j \in Nat /\ Pace * (j - i - 1) \in Nat
      BY <1>4, <2>1, <3>1
    <3> QED BY <1>4, <3>2, <3>3
  <2> QED BY <2>1
<1>7. \A i, j \in Nat : i <= j => Pace * i <= Pace * j /\ Pace * i \in Nat /\ Pace * j \in Nat
  <2>1. ASSUME NEW i \in Nat, NEW j \in Nat, i <= j
        PROVE  Pace * i <= Pace * j /\ Pace * i \in Nat /\ Pace * j \in Nat
    <3>1. Pace * i \in Nat /\ Pace * j \in Nat
      BY <1>4
    <3>2. CASE i = j
      BY <3>1, <3>2
    <3>3. CASE i < j
      BY <1>4, <1>6, <3>1, <3>3
    <3> QED BY <2>1, <3>2, <3>3
  <2> QED BY <2>1
<1>8. /\ Queued' = Queued \cup new /\ Queued \cap new = {}
      /\ \A k \in new : fetch'[k].step = "waiting" /\ fetch'[k].age = 0 /\ fetch'[k].kept = Cached(k)
                        /\ fetch'[k].due = Turn(Place(k))
      /\ \A k \in CacheKeys : k \notin new => fetch'[k] = fetch[k]
  <2>1. \A k \in new : fetch'[k].step = "waiting" /\ fetch'[k].age = 0 /\ fetch'[k].kept = Cached(k)
                        /\ fetch'[k].due = Turn(Place(k))
    <3> HIDE DEF Place
    <3> QED BY <1>1, <1>2
  <2>2. \A k \in CacheKeys : k \notin new => fetch'[k] = fetch[k]
    BY <1>1
  <2> QED BY <1>2, <2>1, <2>2 DEF Queued
<1>9. /\ Cardinality(Queued') = Cardinality(Queued) + n
      /\ Cardinality(Queued) \in Nat /\ Cardinality(Queued) + n <= Cardinality(CacheKeys)
  <2>1. Cardinality(Queued \cup new) = Cardinality(Queued) + Cardinality(new) - Cardinality(Queued \cap new)
    BY <1>2, QueuedFinite, FS_Union
  <2>2. Cardinality(Queued \cap new) = 0
    BY <1>8, FS_EmptySet
  <2>3. Queued \cup new \in SUBSET CacheKeys
    BY <1>2, QueuedFinite
  <2>4. Cardinality(Queued \cup new) <= Cardinality(CacheKeys)
    BY <2>3, MarketDataConstants, FS_Subset
  <2> QED BY <1>0, <1>2, <1>8, <2>1, <2>2, <2>4, QueuedFinite
\* A new request starts in time: it and those that wait before it have
\* different keys, so there are no more of them than keys.
<1>10. ASSUME NEW k \in new
       PROVE  /\ fetch'[k].due \in Nat /\ turn <= fetch'[k].due
              /\ fetch'[k].due + Timeout <= Wait
              /\ fetch'[k].due + Pace <= turn'
              /\ fetch'[k].due + idle >= Pace
  <2>0. PICK i \in Nat : i = Place(k) /\ 1 <= i /\ i <= n
    BY <1>3
  <2>1. fetch'[k].due = Turn(i) /\ Turn(i) \in Nat /\ turn <= Turn(i) /\ Turn(i) + Pace = turn + Pace * i
    BY <1>5, <1>8, <2>0
  <2>2. Turn(i) + Pace <= Pace * Cardinality(Queued) + Pace + Pace * i
    <3>1. Pace * Cardinality(Queued) \in Nat /\ Pace * i \in Nat
      BY <1>4, <1>9
    <3> QED BY <1>4, <2>1, <3>1
  <2>3. Pace * Cardinality(Queued) + Pace * i <= Pace * Cardinality(CacheKeys)
    <3>1. Pace * (Cardinality(Queued) + i) <= Pace * Cardinality(CacheKeys)
      <4>1. Cardinality(Queued) + i \in Nat /\ Cardinality(Queued) + i <= Cardinality(CacheKeys)
        BY <1>2, <1>9, <2>0, MarketDataConstants
      <4> QED BY <1>7, <4>1, MarketDataConstants
    <3>2. Pace * (Cardinality(Queued) + i) = Pace * Cardinality(Queued) + Pace * i
      BY <1>4, <1>9
    <3> QED BY <3>1, <3>2
  <2>4. Turn(i) <= Pace * Cardinality(CacheKeys)
    <3>1. Pace * Cardinality(Queued) \in Nat /\ Pace * i \in Nat /\ Pace * Cardinality(CacheKeys) \in Nat
      BY <1>4, <1>9, MarketDataConstants
    <3> QED BY <1>4, <2>1, <2>2, <2>3, <3>1
  <2>5. Turn(i) + Timeout <= Wait
    <3>1. Pace * Cardinality(CacheKeys) \in Nat
      BY <1>4, MarketDataConstants
    <3> QED BY <1>4, <2>1, <2>4, <3>1 DEF Wait
  <2>6. turn' = turn + Pace * n /\ Pace * i <= Pace * n /\ Pace * i \in Nat /\ Pace * n \in Nat
    BY <1>1, <1>2, <1>5, <1>7, <2>0
  <2> QED BY <1>4, <2>1, <2>5, <2>6
<1>11. /\ turn' = turn + Pace * n /\ turn' \in Nat /\ Pace * n \in Nat /\ turn <= turn'
  <2>1. Pace * n \in Nat
    BY <1>2, <1>4
  <2>2. CASE new = {}
    BY <1>1, <1>3, <1>4, <2>2
  <2>3. CASE new # {}
    BY <1>1, <1>2, <1>3, <1>4, <1>5, <2>1, <2>3
  <2> QED BY <1>4, <2>1, <2>2, <2>3
<1>12. TurnInv'
  <2>1. Pace * Cardinality(Queued') = Pace * Cardinality(Queued) + Pace * n
    BY <1>2, <1>4, <1>9
  <2>2. Pace * Cardinality(Queued) \in Nat
    BY <1>4, <1>9
  <2>3. turn' + idle' >= Pace /\ turn' + idle' <= Pace * Cardinality(Queued') + Pace
    BY <1>1, <1>4, <1>11, <2>1, <2>2
  <2> QED BY <2>3 DEF TurnInv
<1>13. TurnsApart'
  <2>1. ASSUME NEW j \in Queued', NEW k \in Queued', j # k
        PROVE  fetch'[j].due + Pace <= fetch'[k].due \/ fetch'[k].due + Pace <= fetch'[j].due
    <3>1. \A i \in Queued : /\ fetch'[i] = fetch[i] /\ fetch[i].due + Pace <= turn /\ fetch[i].due \in Nat
      BY <1>8, QueuedFinite, FetchTyped DEF MarketDataIInv, FetchOf, Queued
    <3>2. CASE j \in Queued /\ k \in Queued
      BY <2>1, <3>1, <3>2 DEF MarketDataIInv, TurnsApart
    <3>3. CASE j \in Queued /\ k \in new
      BY <1>4, <1>10, <3>1, <3>3
    <3>4. CASE j \in new /\ k \in Queued
      BY <1>4, <1>10, <3>1, <3>4
    <3>5. CASE j \in new /\ k \in new
      <4>1. PICK a \in Nat, b \in Nat : a = Place(j) /\ b = Place(k) /\ 1 <= a /\ 1 <= b /\ a # b
        BY <1>3, <2>1, <3>5
      <4>2. /\ fetch'[j].due + Pace = turn + Pace * a /\ fetch'[k].due + Pace = turn + Pace * b
            /\ fetch'[j].due \in Nat /\ fetch'[k].due \in Nat
        BY <1>5, <1>8, <3>5, <4>1
      <4>3. Pace * a + Pace <= Pace * b \/ Pace * b + Pace <= Pace * a
        BY <1>6, <4>1
      <4>4. Pace * a \in Nat /\ Pace * b \in Nat
        BY <1>4
      <4> QED BY <1>4, <4>2, <4>3, <4>4
    <3> QED BY <1>8, <2>1, <3>2, <3>3, <3>4, <3>5
  <2> QED BY <2>1 DEF TurnsApart
<1>14. ASSUME NEW k \in CacheKeys PROVE FetchOf(k)'
  <2>1. CASE k \in new
    <3>1. Left(k)' = fetch'[k].due + Timeout
      BY <1>8, <2>1 DEF Left
    <3>2. Cached(k) = NoAnswer \/ Cached(k).state = "cached"
      BY CachedTyped DEF MarketDataIInv, MarketDataTyped
    <3>3. /\ fetch'[k].step = "waiting" /\ fetch'[k].age = 0 /\ fetch'[k].kept = Cached(k)
          /\ retry'[k] = 0 /\ idle' = idle
      BY <1>1, <1>2, <1>8, <2>1
    <3>4. fetch'[k].age + Left(k)' <= Wait
      BY <1>4, <1>10, <2>1, <3>1, <3>3
    <3>5. fetch'[k].due + Pace <= turn' /\ fetch'[k].due + idle' >= Pace
      BY <1>10, <2>1, <3>3
    <3> HIDE DEF Place
    <3> QED BY <3>2, <3>3, <3>4, <3>5 DEF FetchOf
  <2>2. CASE k \notin new
    <3>1. FetchOf(k) /\ fetch'[k] = fetch[k] /\ Left(k)' = Left(k) /\ fetch[k].due \in Nat
      BY <1>8, <2>2, FetchTyped DEF MarketDataIInv, Left
    <3> QED BY <1>1, <1>4, <1>11, <3>1 DEF FetchOf
  <2> QED BY <2>1, <2>2
\* What the reader has at once.
<1>15. ASSUME NEW k \in wanted
       PROVE  /\ AtOnce(k) \in Answer
              /\ AtOnce(k).state = "none" => fetch'[k].step # "none"
              /\ AtOnce(k).state \in {"live", "cached", "stale"} => AtOnce(k).age <= Allowed(AtOnce(k).state)
  <2>1. k \in CacheKeys /\ cache \in Seq(CacheEntry)
    BY DEF MarketDataIInv, MarketDataTyped
  <2>2. /\ Cached(k) \in Answer
        /\ IF k \in Entries THEN Cached(k).state = "cached" ELSE Cached(k) = NoAnswer
    BY <2>1, CachedTyped
  <2>3. CASE fetch[k] # NoFetch \/ Needs(k)
    <3>1. AtOnce(k) = NoAnswer
      BY <2>3 DEF AtOnce
    <3>2. fetch'[k].step # "none"
      <4>1. CASE k \in new
        BY <1>8, <4>1
      <4>2. CASE k \notin new
        BY <1>0, <1>8, <2>1, <2>3, <4>2, FetchTyped
      <4> QED BY <4>1, <4>2
    <3> QED BY <3>1, <3>2, NoAnswerTyped
  <2>4. CASE ~(fetch[k] # NoFetch \/ Needs(k)) /\ IsFresh(k)
    <3>1. AtOnce(k) = Cached(k)
      BY <2>4 DEF AtOnce
    <3> QED BY <2>2, <2>4, <3>1 DEF IsFresh, Allowed
  <2>5. CASE ~(fetch[k] # NoFetch \/ Needs(k)) /\ ~IsFresh(k)
    <3>1. AtOnce(k) = Fallback(Cached(k), 0)
      BY <2>5 DEF AtOnce
    <3>2. /\ Fallback(Cached(k), 0) \in Answer
          /\ \/ Fallback(Cached(k), 0).state = "unavailable"
             \/ Fallback(Cached(k), 0).state = "stale" /\ Fallback(Cached(k), 0).age <= Stale + 0
      BY <2>2, FallbackTyped
    <3> QED BY <3>1, <3>2, MarketDataConstants DEF Allowed
  <2> QED BY <2>3, <2>4, <2>5
<1>16. /\ reader'[q] = [k \in wanted |-> AtOnce(k)] /\ DOMAIN reader' = Readers
       /\ \A r \in Readers : r # q => reader'[r] = reader[r]
       /\ \A r \in Readers : DOMAIN reader[r] \subseteq CacheKeys
  BY <1>1 DEF MarketDataIInv, MarketDataTyped, MarketDataTypeOK
<1>17. MarketDataTyped'
  <2>1. fetch' \in [CacheKeys -> [step: {"none", "waiting", "upstream"}, age: Ages, due: Nat, kept: Answer]]
    <3>1. ASSUME NEW k \in CacheKeys
          PROVE  (IF k \in new THEN [step |-> "waiting", age |-> 0, due |-> Turn(Place(k)), kept |-> Cached(k)]
                               ELSE fetch[k])
                 \in [step: {"none", "waiting", "upstream"}, age: Ages, due: Nat, kept: Answer]
      <4>1. Cached(k) \in Answer
        BY CachedTyped DEF MarketDataIInv, MarketDataTyped
      <4>2. k \in new => Turn(Place(k)) \in Nat
        BY <1>8, <1>10
      <4>3. fetch[k] \in [step: {"none", "waiting", "upstream"}, age: Ages, due: Nat, kept: Answer]
        BY DEF MarketDataIInv, MarketDataTyped, MarketDataTypeOK
      <4> HIDE DEF Place
      <4> QED BY <4>1, <4>2, <4>3, MarketDataConstants
    <3> HIDE DEF Place
    <3> QED BY <1>1, <3>1
  <2>2. \A r \in Readers : DOMAIN reader'[r] \subseteq CacheKeys /\ \A k \in DOMAIN reader'[r] : reader'[r][k] \in Answer
    <3>1. \A r \in Readers : r # q => DOMAIN reader'[r] \subseteq CacheKeys /\ \A k \in DOMAIN reader'[r] : reader'[r][k] \in Answer
      BY <1>16 DEF MarketDataIInv, MarketDataTyped, MarketDataTypeOK
    <3>2. DOMAIN reader'[q] = wanted /\ \A k \in wanted : reader'[q][k] = AtOnce(k)
      BY <1>16
    <3> QED BY <1>15, <3>1, <3>2
  <2> QED BY <1>1, <1>11, <1>16, <2>1, <2>2 DEF MarketDataIInv, MarketDataTyped, MarketDataTypeOK
<1>18. \A j \in CacheKeys : fetch[j].step # "none" => fetch'[j].step # "none" /\ Left(j)' = Left(j)
  BY <1>2, <1>8 DEF Left
<1>19. ASSUME NEW r \in Readers PROVE ReaderOf(r)'
  <2>1. CASE r # q
    <3>1. reader'[r] = reader[r] /\ Span(r)' = Span(r) /\ DOMAIN reader[r] \subseteq CacheKeys
      BY <1>16, <2>1 DEF Span
    <3> QED BY <1>18, <3>1 DEF MarketDataIInv, ReaderOf
  <2>2. CASE r = q
    <3>1. /\ DOMAIN reader'[q] = wanted /\ Span(q)' = Cardinality(wanted) * Wait
          /\ \A k \in wanted : reader'[q][k] = AtOnce(k) /\ Wait <= Span(q)'
          /\ Span(q)' \in Nat
      BY <1>16, SpanOf DEF Span
    <3>2. ASSUME NEW k \in wanted, AtOnce(k).state \in {"live", "cached", "stale"}
          PROVE  /\ AtOnce(k).age <= Allowed(AtOnce(k).state) + Span(q)'
                 /\ \A j \in wanted : AtOnce(j).state = "none" =>
                      AtOnce(k).age + Left(j)' <= Allowed(AtOnce(k).state) + Span(q)'
      <4>1. AtOnce(k).age \in Nat /\ AtOnce(k).age <= Allowed(AtOnce(k).state) /\ Allowed(AtOnce(k).state) \in Nat
        BY <1>15, <3>2, AllowedTyped, MarketDataConstants DEF Answer, Ages
      <4>2. ASSUME NEW j \in wanted, AtOnce(j).state = "none" PROVE Left(j)' \in Nat /\ Left(j)' <= Wait
        <5>1. fetch'[j].step # "none" /\ FetchOf(j)'
          BY <1>14, <1>15, <4>2
        <5>2. fetch'[j] \in [step: {"none", "waiting", "upstream"}, age: Ages, due: Nat, kept: Answer]
          BY <1>17 DEF MarketDataTyped, MarketDataTypeOK
        <5>3. fetch'[j].age + Left(j)' <= Wait
          BY <5>1 DEF FetchOf
        <5>4. fetch'[j].age \in Nat /\ Left(j)' \in Nat
          BY <1>4, <5>2, MarketDataConstants DEF Left, Ages
        <5> QED BY <1>4, <5>3, <5>4
      <4> QED BY <1>4, <3>1, <4>1, <4>2
    <3> QED BY <1>15, <2>2, <3>1, <3>2 DEF ReaderOf
  <2> QED BY <2>1, <2>2
<1> QED BY <1>12, <1>13, <1>14, <1>17, <1>19 DEF MarketDataIInv

LEMMA AgedEntry == ASSUME NEW e \in CacheEntry PROVE Aged(e, 1) \in CacheEntry
<1>1. e.age \in Ages /\ e.quoteAge \in Ages /\ e.key \in CacheKeys
  BY DEF CacheEntry
<1>2. Sum(e.age, 1) \in Ages /\ Sum(e.quoteAge, 1) \in Ages
  BY <1>1, AgeGrows
<1> QED BY <1>1, <1>2 DEF Aged, CacheEntry

\* Time passes, and every request is closer to its end by as much as the
\* answers grow older.
LEMMA TickStep == ASSUME MarketDataIInv, Tick PROVE MarketDataIInv'
<1>1. \A k \in CacheKeys : fetch[k] # NoFetch => fetch[k].due > 0
  BY DEF Tick
<1>2. /\ cache \in Seq(CacheEntry) /\ Len(cache) <= CacheSize /\ Len(cache) \in Nat
      /\ fetch \in [CacheKeys -> [step: {"none", "waiting", "upstream"}, age: Ages, due: Nat, kept: Answer]]
      /\ retry \in [CacheKeys -> Nat] /\ turn \in Nat /\ idle \in Nat /\ idle <= Pace /\ Pace \in Nat
      /\ \A q \in Readers : DOMAIN reader[q] \subseteq CacheKeys /\ \A k \in DOMAIN reader[q] : reader[q][k] \in Answer
  BY MarketDataConstants DEF MarketDataIInv, MarketDataTyped, MarketDataTypeOK
<1>3. \A n \in Nat : Less(n) \in Nat /\ (n > 0 => Less(n) = n - 1) /\ (n = 0 => Less(n) = 0)
  BY DEF Less
<1>4. /\ turn' = Less(turn) /\ idle' = (IF idle < Pace THEN idle + 1 ELSE idle)
      /\ retry' \in [CacheKeys -> Nat] /\ \A k \in CacheKeys : retry'[k] = Less(retry[k])
  BY <1>2, <1>3 DEF Tick
<1>5. ASSUME NEW k \in CacheKeys, fetch[k].step = "none" PROVE fetch'[k] = NoFetch
  BY <1>5, FetchTyped DEF Tick
<1>6. ASSUME NEW k \in CacheKeys, fetch[k].step # "none"
      PROVE  /\ fetch'[k].step = fetch[k].step /\ fetch'[k].kept = fetch[k].kept
             /\ fetch'[k].due = fetch[k].due - 1 /\ fetch[k].due > 0 /\ fetch[k].due \in Nat
             /\ fetch'[k].age \in Ages /\ fetch'[k].age \in Nat /\ fetch'[k].age <= fetch[k].age + 1
             /\ fetch[k].age \in Nat
             /\ fetch'[k] \in [step: {"none", "waiting", "upstream"}, age: Ages, due: Nat, kept: Answer]
  <2>1. fetch'[k] = [fetch[k] EXCEPT !.age = Sum(@, 1), !.due = @ - 1]
    BY <1>6, FetchTyped DEF Tick
  <2>2. fetch[k].age \in Ages /\ fetch[k].age \in Nat /\ fetch[k].due \in Nat /\ fetch[k].due > 0
    BY <1>1, <1>6, FetchTyped
  <2>3. Sum(fetch[k].age, 1) \in Ages /\ Sum(fetch[k].age, 1) \in Nat /\ Sum(fetch[k].age, 1) <= fetch[k].age + 1
    BY <2>2, AgeGrows
  <2>4. fetch[k].due - 1 \in Nat
    BY <2>2
  <2>5. fetch[k] \in [step: {"none", "waiting", "upstream"}, age: Ages, due: Nat, kept: Answer]
    BY <1>2
  <2> QED BY <2>1, <2>2, <2>3, <2>4, <2>5
<1>7. ASSUME NEW k \in CacheKeys, fetch[k].step # "none"
      PROVE  Left(k) \in Nat /\ Left(k) >= 1 /\ Left(k)' = Left(k) - 1
  BY <1>6, <1>7, MarketDataConstants DEF Left
<1>8. \A k \in CacheKeys : fetch'[k].step = fetch[k].step
  BY <1>5, <1>6, NoFetchTyped
<1>9. Queued' = Queued
  BY <1>8 DEF Queued
<1>10. TurnsApart'
  <2>1. \A k \in Queued : k \in CacheKeys /\ fetch'[k].due = fetch[k].due - 1 /\ fetch[k].due \in Nat
    BY <1>6 DEF Queued
  <2>2. ASSUME NEW j \in Queued, NEW k \in Queued, j # k
        PROVE  fetch'[j].due + Pace <= fetch'[k].due \/ fetch'[k].due + Pace <= fetch'[j].due
    <3>1. fetch[j].due + Pace <= fetch[k].due \/ fetch[k].due + Pace <= fetch[j].due
      BY <2>2 DEF MarketDataIInv, TurnsApart
    <3> QED BY <1>2, <2>1, <3>1
  <2> QED BY <1>9, <2>2 DEF TurnsApart
<1>11. TurnInv'
  <2>1. turn + idle >= Pace /\ turn + idle <= Pace * Cardinality(Queued) + Pace
    BY DEF MarketDataIInv, TurnInv
  <2>2. Pace * Cardinality(Queued) \in Nat
    BY <1>2, QueuedFinite
  <2>3. turn' + idle' >= Pace /\ turn' + idle' <= Pace * Cardinality(Queued) + Pace
    <3>1. CASE turn = 0
      BY <1>2, <1>3, <1>4, <2>1, <2>2, <3>1
    <3>2. CASE turn > 0
      <4>1. turn' = turn - 1
        BY <1>2, <1>3, <1>4, <3>2
      <4>2. CASE idle < Pace
        BY <1>2, <1>4, <2>1, <2>2, <3>2, <4>1, <4>2
      <4>3. CASE ~(idle < Pace)
        BY <1>2, <1>4, <2>1, <2>2, <3>2, <4>1, <4>3
      <4> QED BY <4>2, <4>3
    <3> QED BY <1>2, <3>1, <3>2
  <2> QED BY <1>9, <2>3 DEF TurnInv
<1>12. ASSUME NEW k \in CacheKeys PROVE FetchOf(k)'
  <2>0. FetchOf(k)
    BY DEF MarketDataIInv
  <2>1. CASE fetch[k].step = "none"
    BY <1>5, <2>1, NoFetchTyped DEF FetchOf
  <2>2. CASE fetch[k].step # "none"
    <3>1. retry'[k] = 0
      BY <1>3, <1>4, <2>0, <2>2 DEF FetchOf
    <3>2. fetch'[k].age + Left(k)' <= Wait
      BY <1>6, <1>7, <2>0, <2>2, MarketDataConstants DEF FetchOf
    <3>3. fetch'[k].step = "waiting" => fetch'[k].due + Pace <= turn' /\ fetch'[k].due + idle' >= Pace
      <4>1. ASSUME fetch[k].step = "waiting"
            PROVE  fetch'[k].due + Pace <= turn' /\ fetch'[k].due + idle' >= Pace
        <5>1. fetch[k].due + Pace <= turn /\ fetch[k].due + idle >= Pace
          BY <2>0, <4>1 DEF FetchOf
        <5>2. turn > 0
          BY <1>2, <1>6, <2>2, <5>1
        <5>3. turn' = turn - 1 /\ fetch'[k].due = fetch[k].due - 1 /\ fetch[k].due > 0 /\ fetch[k].due \in Nat
          BY <1>2, <1>3, <1>4, <1>6, <2>2, <5>2
        <5>4. CASE idle < Pace
          BY <1>2, <1>4, <5>1, <5>3, <5>4
        <5>5. CASE ~(idle < Pace)
          BY <1>2, <1>4, <5>1, <5>3, <5>5
        <5> QED BY <5>4, <5>5
      <4> QED BY <1>8, <4>1
    <3>4. fetch'[k].kept = NoAnswer \/ fetch'[k].kept.state = "cached"
      BY <1>6, <2>0, <2>2 DEF FetchOf
    <3> QED BY <1>8, <2>2, <3>1, <3>2, <3>3, <3>4 DEF FetchOf
  <2> QED BY <2>1, <2>2
\* What becomes of an answer that a reader has.
<1>13. ASSUME NEW q \in Readers, ~Done(q)
       PROVE  /\ DOMAIN reader'[q] = DOMAIN reader[q]
              /\ \A k \in DOMAIN reader[q] :
                   /\ reader'[q][k] \in Answer /\ reader'[q][k].state = reader[q][k].state
                   /\ reader'[q][k].age \in Nat /\ reader[q][k].age \in Nat
                   /\ reader'[q][k].age <= reader[q][k].age + 1
  <2>1. reader'[q] = [k \in DOMAIN reader[q] |-> IF reader[q][k].state \in {"none", "unavailable"} THEN reader[q][k]
                                                ELSE Aged(reader[q][k], 1)]
    BY <1>13 DEF Tick
  <2>2. ASSUME NEW k \in DOMAIN reader[q]
        PROVE  /\ reader'[q][k] \in Answer /\ reader'[q][k].state = reader[q][k].state
               /\ reader'[q][k].age \in Nat /\ reader[q][k].age \in Nat
               /\ reader'[q][k].age <= reader[q][k].age + 1
    <3>1. reader[q][k] \in Answer
      BY <1>2
    <3>2. /\ Aged(reader[q][k], 1) \in Answer /\ Aged(reader[q][k], 1).state = reader[q][k].state
          /\ Aged(reader[q][k], 1).age <= reader[q][k].age + 1 /\ reader[q][k].age \in Nat
      BY <3>1, AgedAnswer
    <3>3. Aged(reader[q][k], 1).age \in Nat
      BY <3>2, AgedAnswer
    <3> QED BY <2>1, <3>1, <3>2, <3>3
  <2> QED BY <2>1, <2>2
<1>14. ASSUME NEW q \in Readers, Done(q) PROVE DOMAIN reader'[q] = {}
  <2>1. reader'[q] = [k \in {} |-> NoAnswer]
    BY <1>14 DEF Tick
  <2> QED BY <2>1
<1>15. MarketDataTyped'
  <2>1. cache' \in Seq(CacheEntry) /\ Len(cache') = Len(cache) /\ \A n \in DOMAIN cache' : cache'[n] \in CacheEntry
    <3>0. DOMAIN cache = 1..Len(cache)
      BY <1>2
    <3>1. cache' = [n \in 1..Len(cache) |-> Aged(cache[n], 1)]
      BY <3>0 DEF Tick
    <3>2. \A n \in 1..Len(cache) : Aged(cache[n], 1) \in CacheEntry
      BY <1>2, AgedEntry
    <3> QED BY <1>2, <3>1, <3>2
  <2>2. fetch' \in [CacheKeys -> [step: {"none", "waiting", "upstream"}, age: Ages, due: Nat, kept: Answer]]
    <3>1. fetch' = [k \in CacheKeys |-> fetch'[k]]
      BY DEF Tick
    <3>2. \A k \in CacheKeys : fetch'[k] \in [step: {"none", "waiting", "upstream"}, age: Ages, due: Nat, kept: Answer]
      BY <1>5, <1>6, NoFetchTyped
    <3> QED BY <3>1, <3>2
  <2>3. turn' \in Nat /\ idle' \in 0..Pace
    BY <1>2, <1>3, <1>4
  <2>4. \A q \in Readers : DOMAIN reader'[q] \subseteq CacheKeys /\ \A k \in DOMAIN reader'[q] : reader'[q][k] \in Answer
    BY <1>2, <1>13, <1>14
  <2>5. DOMAIN reader' = Readers
    BY DEF Tick
  <2> QED BY <1>2, <1>4, <2>1, <2>2, <2>3, <2>4, <2>5 DEF MarketDataTyped, MarketDataTypeOK
<1>16. ASSUME NEW q \in Readers PROVE ReaderOf(q)'
  <2>1. CASE Done(q)
    BY <1>14, <2>1 DEF ReaderOf
  <2>2. CASE ~Done(q)
    <3>1. DOMAIN reader'[q] = DOMAIN reader[q] /\ DOMAIN reader[q] \subseteq CacheKeys /\ Span(q)' = Span(q) /\ Span(q) \in Nat
      BY <1>2, <1>13, <2>2, SpanOf DEF Span
    <3>2. ASSUME NEW k \in DOMAIN reader[q], reader[q][k].state \in {"live", "cached", "stale"}
          PROVE  /\ reader'[q][k].age <= Allowed(reader[q][k].state) + Span(q)
                 /\ \A j \in DOMAIN reader[q] : reader[q][j].state = "none" =>
                      reader'[q][k].age + Left(j)' <= Allowed(reader[q][k].state) + Span(q)
      <4>1. /\ reader'[q][k].age \in Nat /\ reader[q][k].age \in Nat
            /\ reader'[q][k].age <= reader[q][k].age + 1 /\ Allowed(reader[q][k].state) \in Nat
        BY <1>13, <2>2, <3>2, AllowedTyped
      <4>2. ASSUME NEW j \in DOMAIN reader[q], reader[q][j].state = "none"
            PROVE  /\ reader'[q][k].age + Left(j)' <= Allowed(reader[q][k].state) + Span(q)
                   /\ Left(j)' \in Nat
        <5>1. fetch[j].step # "none" /\ j \in CacheKeys
          BY <3>1, <4>2 DEF MarketDataIInv, ReaderOf
        <5>2. reader[q][k].age + Left(j) <= Allowed(reader[q][k].state) + Span(q)
          BY <3>2, <4>2 DEF MarketDataIInv, ReaderOf
        <5>3. Left(j) \in Nat /\ Left(j) >= 1 /\ Left(j)' = Left(j) - 1
          BY <1>7, <5>1
        <5> QED BY <3>1, <4>1, <5>2, <5>3
      <4>3. \E j \in DOMAIN reader[q] : reader[q][j].state = "none"
        BY <2>2, <3>2 DEF Done, Reading
      <4>4. reader'[q][k].age <= Allowed(reader[q][k].state) + Span(q)
        BY <3>1, <4>1, <4>2, <4>3
      <4> QED BY <4>2, <4>4
    <3>3. ASSUME NEW k \in DOMAIN reader[q], reader[q][k].state = "none" PROVE fetch'[k].step # "none"
      BY <1>8, <3>1, <3>3 DEF MarketDataIInv, ReaderOf
    <3> QED BY <1>13, <2>2, <3>1, <3>2, <3>3 DEF ReaderOf
  <2> QED BY <2>1, <2>2
<1> QED BY <1>10, <1>11, <1>12, <1>15, <1>16 DEF MarketDataIInv

LEMMA MarketDataNextIInv ==
  ASSUME MarketDataIInv, [MarketDataNext]_marketDataVars
  PROVE  MarketDataIInv'
<1>1. CASE Tick
  BY <1>1, TickStep
<1>2. ASSUME NEW q \in Readers, Read(q, {Assets}) PROVE MarketDataIInv'
  <2>1. {Assets} = {Assets, Assets} /\ Assets \in CacheKeys
    BY MarketDataConstants
  <2> QED BY <1>2, <2>1, ReadStep
<1>3. ASSUME NEW q \in Readers, NEW s \in Symbols, Read(q, {s, Assets}) PROVE MarketDataIInv'
  <2>1. s \in CacheKeys /\ Assets \in CacheKeys
    BY DEF CacheKeys
  <2> QED BY <1>3, <2>1, ReadStep
<1>4. ASSUME NEW k \in CacheKeys, Start(k) PROVE MarketDataIInv'
  BY <1>4, StartStep
<1>5. ASSUME NEW k \in CacheKeys, Respond(k) PROVE MarketDataIInv'
  BY <1>5, RespondStep
<1>6. ASSUME NEW k \in CacheKeys, RateLimited(k) \/ Fail(k) PROVE MarketDataIInv'
  BY <1>6, FailSteps
<1>7. CASE UNCHANGED marketDataVars
  BY <1>7 DEF marketDataVars, MarketDataIInv, MarketDataTyped, MarketDataTypeOK, TurnsApart, TurnInv, FetchOf,
              ReaderOf, Queued, Left, Span
<1> QED BY <1>1, <1>2, <1>3, <1>4, <1>5, <1>6, <1>7 DEF MarketDataNext

------------------------------------------------------------------------------
(* Its theorems.                                                           *)

\* The invariant holds in every behaviour.
THEOREM MarketDataInvariance == MarketDataSpec => []MarketDataIInv
<1>1. MarketDataInit => MarketDataIInv
  BY MarketDataInitIInv
<1>2. MarketDataIInv /\ [MarketDataNext]_marketDataVars => MarketDataIInv'
  BY MarketDataNextIInv
<1> QED BY <1>1, <1>2, PTL DEF MarketDataSpec

\* The market data cache's state keeps its types, and the cache its size.
THEOREM MarketDataTypeCorrect == MarketDataSpec => []MarketDataTypeOK
<1>1. MarketDataIInv => MarketDataTypeOK
  BY DEF MarketDataIInv, MarketDataTyped
<1> QED BY <1>1, MarketDataInvariance, PTL

\* An answer is no older than its mark and the requests that its reader waits
\* for allow, whatever was shared, delayed or has failed; and a price no older
\* than its own mark allows, in either of its answers.
THEOREM AnswersKeepTheirMarks == MarketDataSpec => []OldAnswersAreMarked
<1>1. ASSUME MarketDataIInv PROVE OldAnswersAreMarked
  <2>1. ASSUME NEW q \in Readers, Done(q), NEW k \in DOMAIN reader[q]
        PROVE  /\ reader[q][k].state = "live" => reader[q][k].age <= Cardinality(DOMAIN reader[q]) * Wait
               /\ reader[q][k].state = "cached" => reader[q][k].age <= Fresh + Cardinality(DOMAIN reader[q]) * Wait
               /\ reader[q][k].state = "stale" => reader[q][k].age <= Stale + Cardinality(DOMAIN reader[q]) * Wait
    <3>1. reader[q][k].state \in {"live", "cached", "stale"} =>
            reader[q][k].age <= Allowed(reader[q][k].state) + Cardinality(DOMAIN reader[q]) * Wait
      BY <1>1, <2>1 DEF MarketDataIInv, ReaderOf, Span
    <3>2. DOMAIN reader[q] \in SUBSET CacheKeys
      BY <1>1 DEF MarketDataIInv, MarketDataTyped, MarketDataTypeOK
    <3>3. Cardinality(DOMAIN reader[q]) * Wait \in Nat
      BY <3>2, SpanOf
    <3>4. Allowed("live") = 0 /\ Allowed("cached") = Fresh /\ Allowed("stale") = Stale
      BY DEF Allowed
    <3> QED BY <3>1, <3>3, <3>4
  <2>2. ASSUME NEW q \in Readers, Done(q), NEW s \in DOMAIN reader[q] \cap Symbols,
             NEW k \in DOMAIN reader[q] \cap {s, Assets}
        PROVE  /\ PriceState(q, s) = "live" => reader[q][k].age <= Cardinality(DOMAIN reader[q]) * Wait
               /\ PriceState(q, s) = "cached" =>
                    reader[q][k].age <= Fresh + Cardinality(DOMAIN reader[q]) * Wait
    <3> DEFINE wait == Cardinality(DOMAIN reader[q]) * Wait
    <3>1. k \in {s, Assets}
      BY <2>2
    <3>2. reader[q][k].state \in {"live", "cached", "stale", "unavailable"} /\ reader[q][k].age \in Nat
      <4>1. reader[q][k] \in Answer
        BY <1>1, <2>2 DEF MarketDataIInv, MarketDataTyped, MarketDataTypeOK
      <4>2. reader[q][k].state # "none"
        BY <2>2 DEF Done, Reading
      <4> QED BY <4>1, <4>2, MarketDataConstants DEF Answer, Ages
    <3>3. /\ PriceState(q, s) = "live" => reader[q][k].state = "live"
          /\ PriceState(q, s) = "cached" => reader[q][k].state \in {"live", "cached"}
      BY <3>1, <3>2 DEF PriceState
    <3>4. wait \in Nat /\ Fresh \in Nat
      <4>1. DOMAIN reader[q] \in SUBSET CacheKeys
        BY <1>1 DEF MarketDataIInv, MarketDataTyped, MarketDataTypeOK
      <4> QED BY <4>1, SpanOf, MarketDataConstants
    <3>5. /\ reader[q][k].state = "live" => reader[q][k].age <= wait
          /\ reader[q][k].state = "cached" => reader[q][k].age <= Fresh + wait
      BY <2>1, <2>2
    <3>6. reader[q][k].state = "live" => reader[q][k].age <= Fresh + wait
      <4> HIDE DEF wait
      <4> QED BY <3>2, <3>4, <3>5
    <3> QED BY <3>3, <3>5, <3>6
  <2> QED BY <2>1, <2>2 DEF OldAnswersAreMarked
<1> QED BY <1>1, MarketDataInvariance, PTL

\* Requests start Pace apart, and none for a key that is backing off.
THEOREM UpstreamIsSpared == MarketDataSpec => PoliteUpstream
<1>1. ASSUME MarketDataIInv, NEW k \in CacheKeys, Start(k) PROVE idle >= Pace /\ retry[k] = 0
  <2>1. fetch[k].step = "waiting" /\ fetch[k].due = 0 /\ FetchOf(k)
    BY <1>1 DEF Start, MarketDataIInv
  <2>2. idle \in Nat
    BY <1>1, MarketDataConstants DEF MarketDataIInv, MarketDataTyped, MarketDataTypeOK
  <2> QED BY <2>1, <2>2, MarketDataConstants DEF FetchOf
<1>2. MarketDataIInv => [\A k \in CacheKeys : Start(k) => idle >= Pace /\ retry[k] = 0]_marketDataVars
  BY <1>1
<1> QED BY <1>2, MarketDataInvariance, PTL DEF PoliteUpstream

=============================================================================
