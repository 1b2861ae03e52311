---------------------------- MODULE EscrowProofs ----------------------------
(***************************************************************************)
(* What holds of the escrow contract for every set of wallets, terms,      *)
(* policies and fees: its types, its solvency, the session's budget, the   *)
(* finality of a submitted result, whose the money is, and that it         *)
(* implements the lifecycle; and what holds of the contract's deployment   *)
(* for every number of runs of the script.                                 *)
(***************************************************************************)
EXTENDS Escrow, Deployment, Sums

Holders == Wallets \cup {EscrowAddress}

\* What the properties need beyond their own statements: only submitted
\* payments carry a commitment.
CommitmentMeansSubmitted ==
  \A t \in Terms : invocations[t].resultHash # NoHash =>
     invocations[t].state \in {"SUBMITTED", "DISPUTED", "RELEASED", "REFUNDED"}

IInv == /\ TypeOK
        /\ Solvent
        /\ CommitmentMeansSubmitted

------------------------------------------------------------------------------
(* The token.                                                              *)

\* A transfer keeps balances natural numbers.
LEMMA TransferType ==
  ASSUME TypeOK, NEW from \in Holders, NEW to \in Holders \cup {ZeroAddress}, from # to,
         NEW amount \in Nat, NEW fee \in Nat, Transfer(from, to, amount, fee)
  PROVE  balance' \in [Holders -> Nat]
<1>1. balance \in [Holders -> Nat]
  BY DEF TypeOK, Holders
<1>2. \A h \in Holders : balance'[h] = IF h = from THEN balance[h] - amount
                                      ELSE IF h = to THEN balance[h] + (amount - fee)
                                      ELSE balance[h]
  BY <1>1 DEF Transfer
<1>3. \A h \in Holders : balance'[h] \in Nat
  BY <1>1, <1>2 DEF Transfer
<1>4. DOMAIN balance' = Holders /\ balance' = [h \in DOMAIN balance' |-> balance'[h]]
  BY <1>1 DEF Transfer
<1> QED BY <1>3, <1>4

\* A transfer out of the contract costs it exactly the amount.
LEMMA TransferOut ==
  ASSUME TypeOK, NEW to \in Wallets \cup {ZeroAddress},
         NEW amount \in Nat, NEW fee \in Nat, Transfer(EscrowAddress, to, amount, fee)
  PROVE  /\ balance'[EscrowAddress] = balance[EscrowAddress] - amount
         /\ balance[EscrowAddress] \in Nat
BY EscrowAssumption DEF TypeOK, Transfer

\* A transfer from a wallet to the contract never costs the contract anything.
LEMMA TransferIn ==
  ASSUME TypeOK, NEW from \in Wallets, NEW amount \in Nat, NEW fee \in Nat,
         Transfer(from, EscrowAddress, amount, fee)
  PROVE  /\ balance'[EscrowAddress] = balance[EscrowAddress] + (amount - fee)
         /\ balance[EscrowAddress] \in Nat
BY EscrowAssumption DEF TypeOK, Transfer

------------------------------------------------------------------------------
(* What the two money-moving helpers do to the state.                      *)

LEMMA TermsTyped ==
  ASSUME NEW t \in Terms
  PROVE  /\ t.amount \in Nat /\ t.buyer \in Wallets
         /\ t.provider \in Wallets \cup {ZeroAddress}
         /\ t.acceptBy \in 0..MaxUint64 /\ t.completeBy \in 0..MaxUint64
         /\ t.reviewPeriod \in 0..MaxUint64
BY EscrowAssumption DEF TermsType

\* Settling pays one party and changes one payment's state; the surplus stays.
LEMMA SettleFacts ==
  ASSUME TypeOK, NEW t \in Terms, NEW s \in States,
         NEW payee \in Wallets \cup {ZeroAddress}, Settle(t, s, payee)
  PROVE  /\ invocations' = [invocations EXCEPT ![t].state = s]
         /\ invocations' \in [Terms -> Invocation]
         /\ totalObligations' \in Nat
         /\ balance' \in [Holders -> Nat]
         /\ Surplus' = Surplus
<1>1. invocations' = [invocations EXCEPT ![t].state = s]
  BY DEF Settle, SetState
<1>2. invocations' \in [Terms -> Invocation]
  BY <1>1 DEF TypeOK, Invocation
<1>3. t.amount \in Nat
  BY TermsTyped
<1>4. /\ totalObligations' \in Nat
      /\ totalObligations' = totalObligations - t.amount
  BY <1>3 DEF Settle, TypeOK
<1>5. PICK fee \in Fees : Transfer(EscrowAddress, payee, t.amount, fee)
  BY DEF Settle
<1>6. fee \in Nat
  BY <1>5, EscrowAssumption
<1>7. balance' \in [Holders -> Nat]
  BY <1>3, <1>5, <1>6, TransferType, EscrowAssumption DEF Holders
<1>8. /\ balance'[EscrowAddress] = balance[EscrowAddress] - t.amount
      /\ balance[EscrowAddress] \in Nat
  BY <1>3, <1>5, <1>6, TransferOut
<1>9. totalObligations \in Nat
  BY DEF TypeOK
<1>10. Surplus' = Surplus
  BY <1>3, <1>4, <1>8, <1>9 DEF Surplus
<1> QED BY <1>1, <1>2, <1>4, <1>7, <1>10

\* Funding opens one payment and the whole amount arrives; the surplus stays.
LEMMA FundFacts ==
  ASSUME TypeOK, NEW w \in Wallets, NEW t \in Terms, FundInternal(w, t)
  PROVE  /\ w = t.buyer
         /\ invocations[t].state = "UNFUNDED"
         /\ invocations' = [invocations EXCEPT ![t] = [NoInvocation EXCEPT !.state = "FUNDED"]]
         /\ invocations' \in [Terms -> Invocation]
         /\ totalObligations' \in Nat
         /\ balance' \in [Holders -> Nat]
         /\ Surplus' = Surplus
<1>1. /\ w = t.buyer
      /\ invocations[t].state = "UNFUNDED"
      /\ invocations' = [invocations EXCEPT ![t] = [NoInvocation EXCEPT !.state = "FUNDED"]]
  BY DEF FundInternal, ValidTerms
<1>2. [NoInvocation EXCEPT !.state = "FUNDED"] \in Invocation
  BY EscrowAssumption DEF NoInvocation, Invocation, States
<1>3. invocations' \in [Terms -> Invocation]
  BY <1>1, <1>2 DEF TypeOK
<1>4. t.amount \in Nat /\ t.buyer \in Wallets
  BY TermsTyped
<1>5. totalObligations' \in Nat /\ totalObligations' = totalObligations + t.amount
  BY <1>4 DEF FundInternal, TypeOK
<1>6. PICK fee \in Fees : Transfer(t.buyer, EscrowAddress, t.amount, fee)
  BY DEF FundInternal
<1>7. fee \in Nat
  BY <1>6, EscrowAssumption
<1>8. balance' \in [Holders -> Nat]
  BY <1>4, <1>6, <1>7, TransferType, EscrowAssumption DEF Holders
<1>9. balance'[EscrowAddress] = balance[EscrowAddress] + t.amount /\ balance[EscrowAddress] \in Nat
  BY DEF FundInternal, TypeOK
<1>10. Surplus' = Surplus
  BY <1>4, <1>5, <1>9 DEF Surplus, TypeOK
<1> QED BY <1>1, <1>3, <1>5, <1>8, <1>10

------------------------------------------------------------------------------
(* The inductive invariant.                                                *)

LEMMA InitIInv == Init => IInv
<1> SUFFICES ASSUME Init PROVE IInv
  OBVIOUS
<1>1. TypeOK
  <2>1. now \in Time
    BY EscrowAssumption DEF Init, Time
  <2>2. resolvers \subseteq Resolvers
    BY DEF Init
  <2>3. NoInvocation \in Invocation
    BY EscrowAssumption DEF NoInvocation, Invocation, States
  <2>4. NoPolicy \in SpendingPolicy
    BY EscrowAssumption DEF NoPolicy, SpendingPolicy
  <2>5. balance \in [Wallets \cup {EscrowAddress} -> Nat]
    BY EscrowAssumption DEF Init
  <2> QED BY <2>1, <2>2, <2>3, <2>4, <2>5 DEF Init, TypeOK
<1>2. Solvent
  BY DEF Init, Solvent, Surplus
<1>5. CommitmentMeansSubmitted
  BY DEF Init, CommitmentMeansSubmitted, NoInvocation
<1> QED BY <1>1, <1>2, <1>5 DEF IInv

\* Changing only a payment's state, from a state where a commitment may
\* stand to one where it may stand, keeps the commitments where they belong.
LEMMA StateChange ==
  ASSUME TypeOK, CommitmentMeansSubmitted, NEW t \in Terms, NEW s \in States,
         invocations' = [invocations EXCEPT ![t].state = s],
         \/ s \in {"SUBMITTED", "DISPUTED", "RELEASED", "REFUNDED"}
         \/ invocations[t].state \in {"UNFUNDED", "FUNDED", "ACCEPTED"}
  PROVE  /\ invocations' \in [Terms -> Invocation]
         /\ CommitmentMeansSubmitted'
BY DEF TypeOK, Invocation, CommitmentMeansSubmitted

LEMMA TodayIsADay == ASSUME TypeOK PROVE Today \in Days
BY DEF TypeOK, Today, Days

\* The parts of IInv a call that moves no money and no session state keeps.
LEMMA PaymentStep ==
  ASSUME IInv, UNCHANGED <<now, settings, session, money>>,
         invocations' \in [Terms -> Invocation], CommitmentMeansSubmitted'
  PROVE  IInv'
BY DEF IInv, TypeOK, Solvent, Surplus, settings, session, money

\* The same for a settlement.
LEMMA SettlementStep ==
  ASSUME IInv, UNCHANGED <<now, settings, session>>,
         NEW t \in Terms, NEW s \in {"RELEASED", "REFUNDED"},
         NEW payee \in Wallets \cup {ZeroAddress}, Settle(t, s, payee)
  PROVE  IInv'
<1>1. s \in States
  BY DEF States
<1>2. /\ invocations' = [invocations EXCEPT ![t].state = s]
      /\ invocations' \in [Terms -> Invocation]
      /\ totalObligations' \in Nat
      /\ balance' \in [Holders -> Nat]
      /\ Surplus' = Surplus
  BY <1>1, SettleFacts DEF IInv
<1>3. CommitmentMeansSubmitted'
  BY <1>1, <1>2, StateChange DEF IInv
<1>4. TypeOK'
  BY <1>2 DEF IInv, TypeOK, Holders, settings, session
<1> QED
  BY <1>2, <1>3, <1>4 DEF IInv, Solvent, session

\* The same for funding that leaves the session alone.
LEMMA FundingStep ==
  ASSUME IInv, UNCHANGED <<now, settings>>, NEW w \in Wallets, NEW t \in Terms,
         FundInternal(w, t)
  PROVE  /\ Solvent'
         /\ CommitmentMeansSubmitted'
         /\ (/\ dailySpend' \in [Wallets -> [Days -> Nat]] /\ UNCHANGED spendingPolicies
             /\ sessionDay' \in [Terms -> Days \cup {NoDay}])
              => TypeOK'
<1>1. /\ invocations' = [invocations EXCEPT ![t] = [NoInvocation EXCEPT !.state = "FUNDED"]]
      /\ invocations' \in [Terms -> Invocation]
      /\ totalObligations' \in Nat
      /\ balance' \in [Holders -> Nat]
      /\ Surplus' = Surplus
  BY FundFacts DEF IInv
<1>2. Solvent'
  BY <1>1 DEF IInv, Solvent
<1>3. [NoInvocation EXCEPT !.state = "FUNDED"].resultHash = NoHash
  BY DEF NoInvocation
<1>4. CommitmentMeansSubmitted'
  BY <1>1, <1>3 DEF IInv, TypeOK, CommitmentMeansSubmitted
<1> QED BY <1>1, <1>2, <1>4 DEF IInv, TypeOK, Holders, settings

LEMMA NextIInv == IInv /\ [Next]_vars => IInv'
<1> SUFFICES ASSUME IInv, [Next]_vars PROVE IInv'
  OBVIOUS
<1>0. TypeOK
  BY DEF IInv
<1>1. CASE Tick
  BY <1>1, EscrowAssumption DEF Tick, IInv, TypeOK, Time, Solvent, Surplus,
         CommitmentMeansSubmitted, settings, session, money
<1>2. CASE Pause \/ Unpause
  BY <1>2 DEF Pause, Unpause, IInv, TypeOK, Solvent, Surplus,
         CommitmentMeansSubmitted, session, money
<1>3. ASSUME NEW r \in Resolvers, GrantResolver(r) \/ RevokeResolver(r) PROVE IInv'
  BY <1>3 DEF GrantResolver, RevokeResolver, IInv, TypeOK, Solvent, Surplus,
         CommitmentMeansSubmitted, session, money
<1>4. ASSUME NEW w \in Wallets, NEW amount \in 1..MaxDonation, Donate(w, amount) PROVE IInv'
  <2>1. Transfer(w, EscrowAddress, amount, 0) /\ amount \in Nat
    BY <1>4, EscrowAssumption DEF Donate
  <2>2. balance' \in [Holders -> Nat]
    BY <1>0, <2>1, TransferType, EscrowAssumption DEF Holders
  <2>3. balance'[EscrowAddress] = balance[EscrowAddress] + (amount - 0) /\ balance[EscrowAddress] \in Nat
    BY <1>0, <2>1, TransferIn
  <2>4. Solvent'
    BY <1>4, <2>1, <2>3 DEF IInv, TypeOK, Solvent, Surplus, Donate
  <2> QED
    BY <1>4, <2>2, <2>4 DEF Donate, Holders, IInv, TypeOK,
           CommitmentMeansSubmitted, settings, session
<1>5. ASSUME NEW w \in Wallets, NEW p \in Policies, ConfigureSpending(w, p) PROVE IInv'
  <2>1. p \in SpendingPolicy
    BY EscrowAssumption
  <2>2. spendingPolicies' = [spendingPolicies EXCEPT ![w] = p]
    BY <1>5 DEF ConfigureSpending
  <2>3. TypeOK'
    BY <1>5, <2>1, <2>2 DEF IInv, TypeOK, ConfigureSpending, settings, money
  <2> QED
    BY <1>5, <2>3 DEF ConfigureSpending, IInv, Solvent, Surplus, CommitmentMeansSubmitted, money
<1>6. ASSUME NEW w \in Wallets, NEW t \in Terms, Fund(w, t) PROVE IInv'
  <2>1. FundInternal(w, t) /\ UNCHANGED <<now, settings, session>>
    BY <1>6 DEF Fund
  <2>2. Solvent' /\ CommitmentMeansSubmitted' /\ TypeOK'
    BY <2>1, FundingStep DEF IInv, TypeOK, session
  <2> QED BY <2>2 DEF IInv
<1>7. ASSUME NEW w \in Wallets, NEW t \in Terms, FundWithSession(w, t) PROVE IInv'
  <2>1. /\ FundInternal(w, t) /\ UNCHANGED <<now, settings, spendingPolicies>>
        /\ dailySpend' = [dailySpend EXCEPT ![w][Today] = @ + t.amount]
        /\ sessionDay' = [sessionDay EXCEPT ![t] = Today]
    BY <1>7 DEF FundWithSession
  <2>2. t.amount \in Nat /\ Today \in Days
    BY <1>0, TermsTyped, TodayIsADay
  <2>3. /\ dailySpend' \in [Wallets -> [Days -> Nat]]
        /\ sessionDay' \in [Terms -> Days \cup {NoDay}]
    BY <1>0, <2>1, <2>2 DEF TypeOK
  <2>4. Solvent' /\ CommitmentMeansSubmitted' /\ TypeOK'
    BY <2>1, <2>3, FundingStep
  <2> QED BY <2>4 DEF IInv
<1>8. ASSUME NEW w \in Wallets, NEW t \in Terms, Accept(w, t) PROVE IInv'
  <2>1. invocations' = [invocations EXCEPT ![t].state = "ACCEPTED"]
        /\ invocations[t].state = "FUNDED" /\ UNCHANGED <<now, settings, session, money>>
    BY <1>8 DEF Accept, SetState
  <2>2. "ACCEPTED" \in States
    BY DEF States
  <2> QED BY <2>1, <2>2, StateChange, PaymentStep DEF IInv
<1>9. ASSUME NEW w \in Wallets, NEW t \in Terms, NEW hash \in Hashes, SubmitResult(w, t, hash)
      PROVE IInv'
  <2> DEFINE submitted == [state |-> "SUBMITTED", resultHash |-> hash,
                           reviewBy |-> now + t.reviewPeriod]
  <2>1. /\ invocations' = [invocations EXCEPT ![t] = submitted]
        /\ now + t.reviewPeriod <= MaxUint64
        /\ UNCHANGED <<now, settings, session, money>>
    BY <1>9 DEF SubmitResult
  <2>2. now + t.reviewPeriod \in 0..MaxUint64
    BY <1>0, <2>1, TermsTyped, EscrowAssumption DEF TypeOK, Time
  <2>3. submitted \in Invocation
    BY <2>2 DEF Invocation, States
  <2>4. invocations' \in [Terms -> Invocation] /\ CommitmentMeansSubmitted'
    BY <1>0, <2>1, <2>3 DEF IInv, TypeOK, CommitmentMeansSubmitted
  <2> QED BY <2>1, <2>4, PaymentStep
<1>10. ASSUME NEW w \in Wallets, NEW t \in Terms, AcceptResult(w, t) PROVE IInv'
  BY <1>10, TermsTyped, SettlementStep DEF AcceptResult
<1>11. ASSUME NEW w \in Wallets, NEW t \in Terms, Refund(w, t) PROVE IInv'
  BY <1>11, TermsTyped, SettlementStep DEF Refund
<1>12. ASSUME NEW w \in Wallets, NEW t \in Terms, Dispute(w, t) PROVE IInv'
  <2>1. invocations' = [invocations EXCEPT ![t].state = "DISPUTED"]
        /\ UNCHANGED <<now, settings, session, money>>
    BY <1>12 DEF Dispute, SetState
  <2>2. "DISPUTED" \in States
    BY DEF States
  <2> QED BY <2>1, <2>2, StateChange, PaymentStep DEF IInv
<1>13. ASSUME NEW t \in Terms, ReleaseAfterWindow(t) PROVE IInv'
  BY <1>13, TermsTyped, SettlementStep DEF ReleaseAfterWindow
<1>14. ASSUME NEW r \in Resolvers, NEW t \in Terms, NEW b \in BOOLEAN, ResolveDispute(r, t, b)
       PROVE IInv'
  BY <1>14, TermsTyped, SettlementStep DEF ResolveDispute
<1>15. CASE UNCHANGED vars
  BY <1>15 DEF vars, settings, session, money, IInv, TypeOK, Solvent, Surplus,
         CommitmentMeansSubmitted
<1> QED
  BY <1>1, <1>2, <1>3, <1>4, <1>5, <1>6, <1>7, <1>8, <1>9, <1>10, <1>11, <1>12, <1>13,
     <1>14, <1>15 DEF Next

\* Every reachable state satisfies the inductive invariant.
THEOREM Inductive == Spec => []IInv
BY InitIInv, NextIInv, PTL DEF Spec

\* Every variable keeps its type; reviewBy fits in a uint64 and no obligation
\* or balance becomes negative.
THEOREM TypeCorrect == Spec => []TypeOK
<1>1. IInv => TypeOK
  BY DEF IInv
<1> QED BY <1>1, Inductive, PTL

\* The contract always holds what it owes.
THEOREM AlwaysSolvent == Spec => []Solvent
<1>1. IInv => Solvent
  BY DEF IInv
<1> QED BY <1>1, Inductive, PTL

------------------------------------------------------------------------------
(* What a step may do to a payment.                                        *)

\* A step replaces one payment's record by an admissible one: the arcs of the
\* lifecycle, with the commitment written only by submitResult.
Arc(t, to) ==
  LET from == invocations[t]
  IN  \/ from.state = "UNFUNDED" /\ to.state = "FUNDED" /\ to.resultHash = NoHash
      \/ /\ from.state = "ACCEPTED" /\ to.state = "SUBMITTED"
         /\ to.reviewBy = now + t.reviewPeriod
      \/ /\ to.resultHash = from.resultHash /\ to.reviewBy = from.reviewBy
         /\ \/ from.state = "FUNDED" /\ to.state \in {"ACCEPTED", "REFUNDED"}
            \/ from.state = "ACCEPTED" /\ to.state = "REFUNDED"
            \/ from.state = "SUBMITTED" /\ to.state = "RELEASED"
            \/ from.state = "SUBMITTED" /\ to.state = "DISPUTED" /\ now <= from.reviewBy
            \/ from.state = "DISPUTED" /\ to.state \in {"RELEASED", "REFUNDED"}

PaymentMove(t) ==
  \E to \in Invocation : /\ invocations' = [invocations EXCEPT ![t] = to]
                         /\ Arc(t, to)
                         /\ now' = now

\* A change of the state alone is a move when its arc is admissible.
LEMMA StateMove ==
  ASSUME TypeOK, NEW t \in Terms, NEW s \in States,
         invocations' = [invocations EXCEPT ![t].state = s], now' = now,
         Arc(t, [invocations[t] EXCEPT !.state = s])
  PROVE  PaymentMove(t)
<1> DEFINE to == [invocations[t] EXCEPT !.state = s]
<1>1. to \in Invocation
  BY DEF TypeOK, Invocation
<1>2. invocations' = [invocations EXCEPT ![t] = to]
  OBVIOUS
<1> QED BY <1>1, <1>2 DEF PaymentMove

\* A settlement is a move when its state arc is admissible.
LEMMA SettleMove ==
  ASSUME TypeOK, NEW t \in Terms, NEW s \in {"RELEASED", "REFUNDED"},
         NEW payee \in Wallets \cup {ZeroAddress}, Settle(t, s, payee), now' = now,
         \/ invocations[t].state = "SUBMITTED" /\ s = "RELEASED"
         \/ invocations[t].state \in {"FUNDED", "ACCEPTED"} /\ s = "REFUNDED"
         \/ invocations[t].state = "DISPUTED"
  PROVE  PaymentMove(t)
<1>1. s \in States /\ invocations[t] \in Invocation
  BY DEF States, TypeOK
<1>2. invocations' = [invocations EXCEPT ![t].state = s]
  BY <1>1, SettleFacts
<1>3. Arc(t, [invocations[t] EXCEPT !.state = s])
  BY <1>1 DEF Arc, Invocation
<1> QED BY <1>1, <1>2, <1>3, StateMove

\* Opening a payment is a move.
LEMMA FundMove ==
  ASSUME TypeOK, NEW w \in Wallets, NEW t \in Terms, FundInternal(w, t), now' = now
  PROVE  PaymentMove(t)
<1> DEFINE to == [NoInvocation EXCEPT !.state = "FUNDED"]
<1>1. /\ invocations[t].state = "UNFUNDED"
      /\ invocations' = [invocations EXCEPT ![t] = to]
  BY FundFacts
<1>2. to \in Invocation /\ to.state = "FUNDED" /\ to.resultHash = NoHash
  BY EscrowAssumption DEF NoInvocation, Invocation, States
<1> QED BY <1>1, <1>2 DEF PaymentMove, Arc

LEMMA StepMoves ==
  ASSUME TypeOK, [Next]_vars
  PROVE  \/ invocations' = invocations /\ now' \in {now, now + 1}
         \/ \E t \in Terms : PaymentMove(t)
<1> USE DEF settings, session, money
<1>1. CASE \/ Tick \/ Pause \/ Unpause \/ UNCHANGED vars
           \/ \E r \in Resolvers : GrantResolver(r) \/ RevokeResolver(r)
           \/ \E w \in Wallets : \E amount \in 1..MaxDonation : Donate(w, amount)
           \/ \E w \in Wallets : \E p \in Policies : ConfigureSpending(w, p)
  BY <1>1 DEF Tick, Pause, Unpause, vars, GrantResolver, RevokeResolver, Donate, ConfigureSpending
<1>2. ASSUME NEW w \in Wallets, NEW t \in Terms, Fund(w, t) \/ FundWithSession(w, t)
      PROVE PaymentMove(t)
  <2>1. FundInternal(w, t) /\ now' = now
    BY <1>2 DEF Fund, FundWithSession
  <2> QED BY <2>1, FundMove
<1>3. ASSUME NEW w \in Wallets, NEW t \in Terms, Accept(w, t) PROVE PaymentMove(t)
  <2>1. /\ invocations' = [invocations EXCEPT ![t].state = "ACCEPTED"]
        /\ invocations[t].state = "FUNDED" /\ now' = now
    BY <1>3 DEF Accept, SetState
  <2>2. Arc(t, [invocations[t] EXCEPT !.state = "ACCEPTED"]) /\ "ACCEPTED" \in States
    BY <2>1 DEF Arc, States, TypeOK, Invocation
  <2> QED BY <2>1, <2>2, StateMove
<1>4. ASSUME NEW w \in Wallets, NEW t \in Terms, NEW hash \in Hashes, SubmitResult(w, t, hash)
      PROVE PaymentMove(t)
  <2> DEFINE to == [state |-> "SUBMITTED", resultHash |-> hash,
                    reviewBy |-> now + t.reviewPeriod]
  <2>1. /\ invocations' = [invocations EXCEPT ![t] = to]
        /\ invocations[t].state = "ACCEPTED" /\ now' = now
        /\ now + t.reviewPeriod <= MaxUint64
    BY <1>4 DEF SubmitResult
  <2>2. now + t.reviewPeriod \in 0..MaxUint64
    BY <2>1, TermsTyped, EscrowAssumption DEF TypeOK, Time
  <2>3. to \in Invocation
    BY <2>2 DEF Invocation, States
  <2> QED BY <2>1, <2>3 DEF PaymentMove, Arc
<1>5. ASSUME NEW w \in Wallets, NEW t \in Terms, AcceptResult(w, t) PROVE PaymentMove(t)
  BY <1>5, TermsTyped, SettleMove DEF AcceptResult
<1>6. ASSUME NEW w \in Wallets, NEW t \in Terms, Refund(w, t) PROVE PaymentMove(t)
  BY <1>6, TermsTyped, SettleMove DEF Refund
<1>7. ASSUME NEW w \in Wallets, NEW t \in Terms, Dispute(w, t) PROVE PaymentMove(t)
  <2>1. /\ invocations' = [invocations EXCEPT ![t].state = "DISPUTED"] /\ now' = now
        /\ invocations[t].state = "SUBMITTED" /\ now <= invocations[t].reviewBy
    BY <1>7 DEF Dispute, SetState
  <2>2. Arc(t, [invocations[t] EXCEPT !.state = "DISPUTED"]) /\ "DISPUTED" \in States
    BY <2>1 DEF Arc, States, TypeOK, Invocation
  <2> QED BY <2>1, <2>2, StateMove
<1>8. ASSUME NEW t \in Terms, ReleaseAfterWindow(t) PROVE PaymentMove(t)
  BY <1>8, TermsTyped, SettleMove DEF ReleaseAfterWindow
<1>9. ASSUME NEW r \in Resolvers, NEW t \in Terms, NEW b \in BOOLEAN, ResolveDispute(r, t, b)
      PROVE PaymentMove(t)
  BY <1>9, TermsTyped, SettleMove DEF ResolveDispute
<1> QED
  BY <1>1, <1>2, <1>3, <1>4, <1>5, <1>6, <1>7, <1>8, <1>9 DEF Next

------------------------------------------------------------------------------
(* Consequences.                                                           *)

\* A submitted result is never replaced and its review window never moves.
THEOREM CommitmentIsFrozen == Spec => CommitmentFrozen
<1> DEFINE Frozen == \A t \in Terms :
                       invocations[t].resultHash # NoHash =>
                         /\ invocations'[t].resultHash = invocations[t].resultHash
                         /\ invocations'[t].reviewBy = invocations[t].reviewBy
<1>1. IInv /\ [Next]_vars => Frozen
  <2> SUFFICES ASSUME IInv, [Next]_vars PROVE Frozen
    OBVIOUS
  <2>1. CASE invocations' = invocations
    BY <2>1
  <2>2. CASE \E t \in Terms : PaymentMove(t)
    BY <2>2 DEF PaymentMove, Arc, IInv, TypeOK, CommitmentMeansSubmitted
  <2> QED BY <2>1, <2>2, StepMoves DEF IInv
<1>2. IInv /\ [Next]_vars => [Frozen]_vars
  BY <1>1
<1> QED BY <1>2, Inductive, PTL DEF Spec, CommitmentFrozen

\* The buyer's review period is never cut short by the width of reviewBy.
THEOREM ReviewPeriodIsGranted == Spec => ReviewPeriodGranted
<1> DEFINE Granted == \A t \in Terms :
       (invocations[t].state # "SUBMITTED" /\ invocations'[t].state = "SUBMITTED")
         => invocations'[t].reviewBy - now >= t.reviewPeriod
<1>1. TypeOK /\ [Next]_vars => Granted
  <2> SUFFICES ASSUME TypeOK, [Next]_vars PROVE Granted
    OBVIOUS
  <2>1. CASE invocations' = invocations
    BY <2>1
  <2>2. CASE \E t \in Terms : PaymentMove(t)
    <3>1. now \in Int /\ \A t \in Terms : t.reviewPeriod \in Int
      BY TermsTyped, EscrowAssumption DEF TypeOK, Time
    <3> QED BY <2>2, <3>1 DEF PaymentMove, Arc, TypeOK
  <2> QED BY <2>1, <2>2, StepMoves
<1>2. TypeOK /\ [Next]_vars => [Granted]_vars
  BY <1>1
<1> QED BY <1>2, TypeCorrect, PTL DEF Spec, ReviewPeriodGranted

\* Once a review window closes undisputed, the money stays the provider's.
THEOREM ClosedReviewIsFinal == Spec => UndisputedIsFinal
<1> DEFINE Final(t) == ReviewClosed(t) \/ invocations[t].state = "RELEASED"
           Providers(t) == invocations[t].state \in {"SUBMITTED", "RELEASED"}
<1>1. ASSUME NEW t \in Terms
      PROVE  Spec => [](ReviewClosed(t) => []Providers(t))
  <2>1. TypeOK /\ Final(t) /\ [Next]_vars => Final(t)'
    <3> SUFFICES ASSUME TypeOK, Final(t), [Next]_vars PROVE Final(t)'
      OBVIOUS
    <3>1. now \in Nat /\ invocations[t].reviewBy \in Nat
      BY EscrowAssumption DEF TypeOK, Time, Invocation
    <3>2. CASE invocations' = invocations /\ now' \in {now, now + 1}
      BY <3>1, <3>2 DEF ReviewClosed
    <3>3. CASE \E u \in Terms : PaymentMove(u)
      <4>1. PICK u \in Terms : PaymentMove(u)
        BY <3>3
      <4>2. CASE u = t
        BY <3>1, <4>1, <4>2 DEF PaymentMove, Arc, TypeOK, ReviewClosed
      <4>3. CASE u # t
        BY <4>1, <4>3 DEF PaymentMove, TypeOK, ReviewClosed
      <4> QED BY <4>2, <4>3
    <3> QED BY <3>2, <3>3, StepMoves
  <2>2. ReviewClosed(t) => Final(t)
    OBVIOUS
  <2>3. Final(t) => Providers(t)
    BY DEF ReviewClosed
  <2>4. []TypeOK /\ [][Next]_vars => [](ReviewClosed(t) => []Providers(t))
    <3> HIDE DEF Final, Providers
    <3> QED BY <2>1, <2>2, <2>3, PTL
  <2> QED BY <2>4, TypeCorrect, PTL DEF Spec
<1> QED BY <1>1 DEF UndisputedIsFinal

\* The contract implements the lifecycle of a payment.
THEOREM EscrowImplementsLifecycle == Spec => ImplementsLifecycle
<1> DEFINE phase == [t \in Terms |-> invocations[t].state]
<1>1. Init => Lifecycle!Init
  BY DEF Init, Lifecycle!Init, NoInvocation
<1>2. TypeOK /\ [Next]_vars => [Lifecycle!Next]_phase
  <2> SUFFICES ASSUME TypeOK, [Next]_vars PROVE [Lifecycle!Next]_phase
    OBVIOUS
  <2>1. CASE invocations' = invocations
    BY <2>1
  <2>2. CASE \E t \in Terms : PaymentMove(t)
    <3>1. PICK t \in Terms, to \in Invocation :
            invocations' = [invocations EXCEPT ![t] = to] /\ Arc(t, to)
      BY <2>2 DEF PaymentMove
    <3>2. phase' = [phase EXCEPT ![t] = to.state]
      BY <3>1 DEF TypeOK
    <3>3. to.state \in Lifecycle!Successors[invocations[t].state]
      BY <3>1 DEF Arc, Lifecycle!Successors
    <3>4. Lifecycle!Move(t)
      BY <3>2, <3>3 DEF Lifecycle!Move
    <3> QED BY <3>4 DEF Lifecycle!Next
  <2> QED BY <2>1, <2>2, StepMoves
<1> QED BY <1>1, <1>2, TypeCorrect, PTL DEF Spec, ImplementsLifecycle, Lifecycle!Spec

------------------------------------------------------------------------------
(* Whose money it is.                                                      *)

Amounts == [t \in Terms |-> t.amount]

\* What a wallet is out of pocket for, and what it has earned.
Released(t) == invocations[t].state = "RELEASED"
Committed(w) == {t \in Terms : t.buyer = w /\ (Live(t) \/ Released(t))}
Earned(w) == {t \in Terms : t.provider = w /\ Released(t)}

\* What each wallet has less than the payments explain, and what the token kept
\* of all the transfers so far.
Missing == [w \in Wallets |-> InitialFunds + SumOver(Amounts, Earned(w))
                                - balance[w] - SumOver(Amounts, Committed(w))]
Kept == Cardinality(Wallets) * InitialFunds - SumOver(balance, Holders)

\* Nobody has more than the payments explain, and all that is missing was kept
\* by the token or was sent to the contract unasked.
Accounted ==
  /\ \A w \in Wallets : Missing[w] \in Nat
  /\ SumOver(Missing, Wallets) = Kept + Surplus
ProvidersKnown == \A t \in Terms : invocations[t].state # "UNFUNDED" => t.provider \in Wallets
MoneyInv == IInv /\ ProvidersKnown /\ Accounted

\* The sum over a set of terms, as EntitlementsExact writes it.
LEMMA AmountSum ==
  ASSUME NEW S \in SUBSET Terms
  PROVE  /\ MapThenSumSet(LAMBDA t : t.amount, S) = SumOver(Amounts, S)
         /\ SumOver(Amounts, S) \in Nat
<1>1. IsFiniteSet(S) /\ \A t \in S : Amounts[t] = t.amount /\ Amounts[t] \in Nat
  BY EscrowAssumption, TermsTyped, FS_Subset DEF Amounts
<1> DEFINE g == CHOOSE iter :
                  iter = [s \in SUBSET S |-> IF s = {} THEN 0
                                             ELSE Pick(s).amount + iter[s \ {Pick(s)}]]
<1>2. PICK h : Solves(Amounts, S, h)
  BY <1>1, Recursion
<1>3. \A s \in SUBSET S : s # {} => Amounts[Pick(s)] = Pick(s).amount
  BY <1>1, Picked
<1>4. h = [s \in SUBSET S |-> IF s = {} THEN 0 ELSE Pick(s).amount + h[s \ {Pick(s)}]]
  BY <1>2, <1>3 DEF Solves, Added
<1>5. g = [s \in SUBSET S |-> IF s = {} THEN 0 ELSE Pick(s).amount + g[s \ {Pick(s)}]]
  BY <1>4
<1>6. Solves(Amounts, S, g)
  <2> HIDE DEF g
  <2> QED BY <1>3, <1>5 DEF Solves, Added
<1>7. MapThenSumSet(LAMBDA t : t.amount, S) = g[S]
  BY DEF MapThenSumSet, MapThenFoldSet, Pick
<1>8. SumOver(Amounts, S) = g[S]
  <2> HIDE DEF g
  <2>1. PICK k : Solves(Amounts, S, k) /\ SumOver(Amounts, S) = k[S]
    BY <1>1, Fold
  <2>2. k[S] = g[S]
    BY <1>1, <1>6, <2>1, Unique
  <2> QED BY <2>1, <2>2
<1> QED BY <1>1, <1>7, <1>8, SumNatural

LEMMA HoldersFinite == IsFiniteSet(Holders) /\ IsFiniteSet(Wallets)
BY EscrowAssumption, FS_AddElement DEF Holders

\* A transfer takes from all the balances what the token keeps.
LEMMA TransferSum ==
  ASSUME TypeOK, NEW from \in Holders, NEW to \in Holders, from # to,
         NEW amount \in Nat, NEW fee \in Nat, Transfer(from, to, amount, fee)
  PROVE  Kept' = Kept + fee /\ Kept \in Int
<1> DEFINE paid == [balance EXCEPT ![from] = @ - amount]
<1>1. balance \in [Holders -> Nat] /\ balance' \in [Holders -> Nat]
  BY TransferType DEF TypeOK, Holders
<1>2. SumOver(paid, Holders) = SumOver(balance, Holders) + (paid[from] - balance[from])
  <2>1. \A h \in Holders : balance[h] \in Int /\ paid[h] \in Int
    BY <1>1
  <2>2. \A h \in Holders \ {from} : paid[h] = balance[h]
    BY <1>1
  <2> HIDE DEF paid
  <2> QED BY <2>1, <2>2, HoldersFinite, SumChange
<1>3. \A h \in Holders :
        /\ paid[h] \in Int /\ balance'[h] \in Int
        /\ balance'[h] = IF h = to THEN paid[h] + (amount - fee) ELSE paid[h]
  BY <1>1 DEF Transfer
<1>4. SumOver(balance', Holders) = SumOver(paid, Holders) + (balance'[to] - paid[to])
  <2> HIDE DEF paid
  <2>1. \A h \in Holders \ {to} : balance'[h] = paid[h]
    BY <1>3
  <2> QED BY <1>3, <2>1, HoldersFinite, SumChange
<1>5. paid[from] = balance[from] - amount /\ balance'[to] = paid[to] + (amount - fee)
  BY <1>1, <1>3
<1>6. SumOver(balance, Holders) \in Int
  BY <1>1, HoldersFinite, SumTyped
<1>7. Cardinality(Wallets) * InitialFunds \in Int
  BY HoldersFinite, FS_CardinalityType, EscrowAssumption
<1>8. SumOver(balance', Holders) = SumOver(balance, Holders) - fee
  <2>1. balance[from] \in Int /\ paid[to] \in Int
    BY <1>1, <1>3
  <2> HIDE DEF paid
  <2> QED BY <1>2, <1>4, <1>5, <1>6, <2>1
<1> QED BY <1>6, <1>7, <1>8 DEF Kept

\* One wallet's missing money, and all of it, grow by the same amount.
LEMMA MissingGrows ==
  ASSUME TypeOK, Accounted, NEW w \in Wallets, NEW more \in Nat,
         \A v \in Wallets : Missing'[v] = IF v = w THEN Missing[v] + more ELSE Missing[v],
         Kept' + Surplus' = Kept + Surplus + more, Kept + Surplus \in Int
  PROVE  Accounted'
<1>1. \A v \in Wallets : Missing[v] \in Nat /\ Missing'[v] \in Nat
  BY DEF Accounted
<1>2. SumOver(Missing', Wallets) = SumOver(Missing, Wallets) + (Missing'[w] - Missing[w])
  BY <1>1, HoldersFinite, SumChange
<1>3. Missing'[w] - Missing[w] = more
  BY <1>1
<1> QED BY <1>1, <1>2, <1>3 DEF Accounted

\* Which payments are live, released or open at all, and the money.
SamePhases ==
  \A t \in Terms : /\ Live(t)' <=> Live(t)
                   /\ Released(t)' <=> Released(t)
                   /\ invocations'[t].state = "UNFUNDED" <=> invocations[t].state = "UNFUNDED"

Opens(t) == FundInternal(t.buyer, t)
Donates(w) == \E amount \in Nat : /\ Transfer(w, EscrowAddress, amount, 0)
                                  /\ UNCHANGED <<invocations, totalObligations>>
Closes(t) == Live(t) /\ (Settle(t, "RELEASED", t.provider) \/ Settle(t, "REFUNDED", t.buyer))

\* A step leaves the money alone, or is a gift, a deposit or a settlement.
LEMMA MoneyStep ==
  ASSUME TypeOK, [Next]_vars
  PROVE  \/ UNCHANGED money /\ SamePhases
         \/ \E w \in Wallets : Donates(w)
         \/ \E t \in Terms : Opens(t) \/ Closes(t)
<1> USE DEF settings, session, money
<1>1. CASE UNCHANGED <<invocations, money>>
  BY <1>1 DEF SamePhases, Live, Released
<1>2. UNCHANGED <<invocations, money>>
      \/ (\E w \in Wallets : \E amount \in 1..MaxDonation : Donate(w, amount))
      \/ (\E w \in Wallets : \E t \in Terms :
            \/ Fund(w, t) \/ FundWithSession(w, t)
            \/ Accept(w, t) \/ \E hash \in Hashes : SubmitResult(w, t, hash)
            \/ AcceptResult(w, t) \/ Refund(w, t) \/ Dispute(w, t))
      \/ (\E t \in Terms : ReleaseAfterWindow(t))
      \/ (\E r \in Resolvers, t \in Terms, b \in BOOLEAN : ResolveDispute(r, t, b))
  BY DEF Next, vars, Tick, Pause, Unpause, GrantResolver, RevokeResolver, ConfigureSpending
<1>3. ASSUME NEW w \in Wallets, NEW amount \in 1..MaxDonation, Donate(w, amount)
      PROVE  Donates(w)
  <2>1. amount \in Nat
    BY EscrowAssumption
  <2> QED BY <1>3, <2>1 DEF Donate, Donates
<1>4. ASSUME NEW w \in Wallets, NEW t \in Terms, Fund(w, t) \/ FundWithSession(w, t)
      PROVE  Opens(t)
  <2>1. FundInternal(w, t)
    BY <1>4 DEF Fund, FundWithSession
  <2>2. w = t.buyer
    BY <2>1 DEF FundInternal, ValidTerms
  <2> QED BY <2>1, <2>2 DEF Opens
<1>5. ASSUME NEW w \in Wallets, NEW t \in Terms, Accept(w, t) \/ Dispute(w, t)
      PROVE  UNCHANGED money /\ SamePhases
  BY <1>5 DEF Accept, Dispute, SetState, TypeOK, Invocation, SamePhases, Live, Released
<1>6. ASSUME NEW w \in Wallets, NEW t \in Terms, NEW hash \in Hashes, SubmitResult(w, t, hash)
      PROVE  UNCHANGED money /\ SamePhases
  BY <1>6 DEF SubmitResult, TypeOK, Invocation, SamePhases, Live, Released
<1>7. ASSUME NEW w \in Wallets, NEW t \in Terms,
             AcceptResult(w, t) \/ Refund(w, t) \/ ReleaseAfterWindow(t)
      PROVE  Closes(t)
  BY <1>7 DEF AcceptResult, Refund, ReleaseAfterWindow, Closes, Live
<1>8. ASSUME NEW r \in Resolvers, NEW t \in Terms, NEW b \in BOOLEAN, ResolveDispute(r, t, b)
      PROVE  Closes(t)
  BY <1>8 DEF ResolveDispute, Closes, Live
<1>9. ASSUME NEW t \in Terms, ReleaseAfterWindow(t) PROVE Closes(t)
  BY <1>9 DEF ReleaseAfterWindow, Closes, Live
<1> QED BY <1>1, <1>2, <1>3, <1>4, <1>5, <1>6, <1>7, <1>8, <1>9

LEMMA GiftAccounted ==
  ASSUME MoneyInv, NEW w \in Wallets, Donates(w)
  PROVE  Accounted'
<1>1. PICK amount \in Nat : Transfer(w, EscrowAddress, amount, 0)
                            /\ UNCHANGED <<invocations, totalObligations>>
  BY DEF Donates
<1>2. TypeOK /\ Accounted /\ w \in Holders /\ EscrowAddress \in Holders /\ w # EscrowAddress
  BY EscrowAssumption DEF MoneyInv, IInv, Holders
<1>3. Kept' = Kept /\ Kept \in Int
  <2>1. Kept' = Kept + 0 /\ Kept \in Int
    BY <1>1, <1>2, TransferSum
  <2> QED BY <2>1
<1>4. balance'[EscrowAddress] = balance[EscrowAddress] + amount /\ balance[EscrowAddress] \in Nat
  BY <1>1, <1>2, TransferIn
<1>5. Surplus' = Surplus + amount /\ Surplus \in Int
  BY <1>1, <1>2, <1>4 DEF Surplus, TypeOK
<1>6. \A v \in Wallets : /\ balance'[v] = IF v = w THEN balance[v] - amount ELSE balance[v]
                         /\ balance[v] \in Nat
  BY <1>1, <1>2, EscrowAssumption DEF Transfer, TypeOK
<1>7. \A v \in Wallets : Committed(v)' = Committed(v) /\ Earned(v)' = Earned(v)
  BY <1>1 DEF Committed, Earned, Live, Released
<1>8. \A v \in Wallets : SumOver(Amounts, Committed(v)) \in Nat /\ SumOver(Amounts, Earned(v)) \in Nat
  BY AmountSum DEF Committed, Earned
<1>9. \A v \in Wallets : Missing'[v] = IF v = w THEN Missing[v] + amount ELSE Missing[v]
  BY <1>6, <1>7, <1>8, EscrowAssumption DEF Missing
<1> QED BY <1>2, <1>3, <1>5, <1>9, MissingGrows

\* Putting a payment into a set of payments adds its amount.
LEMMA AmountAdd ==
  ASSUME NEW S \in SUBSET Terms, NEW t \in Terms, t \notin S
  PROVE  /\ SumOver(Amounts, S \cup {t}) = SumOver(Amounts, S) + t.amount
         /\ SumOver(Amounts, S) \in Nat /\ t.amount \in Nat
<1>1. IsFiniteSet(S) /\ \A x \in S \cup {t} : Amounts[x] \in Int
  BY EscrowAssumption, TermsTyped, FS_Subset DEF Amounts
<1>2. SumOver(Amounts, S \cup {t}) = SumOver(Amounts, S) + Amounts[t]
  BY <1>1, SumAdd
<1> QED BY <1>2, AmountSum, TermsTyped DEF Amounts

LEMMA DepositAccounted ==
  ASSUME MoneyInv, NEW t \in Terms, Opens(t)
  PROVE  Accounted'
<1> DEFINE w == t.buyer
<1>1. /\ TypeOK /\ Accounted /\ t.amount \in Nat
      /\ w \in Wallets /\ w \in Holders /\ EscrowAddress \in Holders /\ w # EscrowAddress
  BY TermsTyped, EscrowAssumption DEF MoneyInv, IInv, Holders
<1>2. /\ FundInternal(w, t) /\ invocations[t].state = "UNFUNDED"
      /\ invocations' = [invocations EXCEPT ![t] = [NoInvocation EXCEPT !.state = "FUNDED"]]
      /\ Surplus' = Surplus
  BY <1>1, FundFacts DEF Opens
<1>3. PICK fee \in Fees : Transfer(w, EscrowAddress, t.amount, fee)
  BY <1>2 DEF FundInternal
<1>4. fee = 0
  <2>1. balance'[EscrowAddress] = balance[EscrowAddress] + t.amount
    BY <1>2 DEF FundInternal
  <2>2. fee \in Nat
    BY EscrowAssumption
  <2>3. /\ balance'[EscrowAddress] = balance[EscrowAddress] + (t.amount - fee)
        /\ balance[EscrowAddress] \in Nat
    BY <1>1, <1>3, <2>2, TransferIn
  <2> QED BY <1>1, <2>1, <2>2, <2>3
<1>5. Kept' = Kept + 0 /\ Kept \in Int
  BY <1>1, <1>3, <1>4, TransferSum
<1>6. \A v \in Wallets : /\ balance'[v] = IF v = w THEN balance[v] - t.amount ELSE balance[v]
                         /\ balance[v] \in Nat
  BY <1>1, <1>3, EscrowAssumption DEF Transfer, TypeOK
<1>7. \A v \in Wallets : /\ Earned(v)' = Earned(v)
                         /\ t \notin Committed(v)
                         /\ Committed(v)' = IF v = w THEN Committed(v) \cup {t} ELSE Committed(v)
  BY <1>1, <1>2 DEF TypeOK, Committed, Earned, Live, Released, NoInvocation
<1>8. \A v \in Wallets : /\ SumOver(Amounts, Committed(v)) \in Nat
                         /\ SumOver(Amounts, Committed(v) \cup {t})
                              = SumOver(Amounts, Committed(v)) + t.amount
                         /\ SumOver(Amounts, Earned(v)) \in Nat
  BY <1>7, AmountSum, AmountAdd DEF Committed, Earned
<1>9. \A v \in Wallets : Missing'[v] = IF v = w THEN Missing[v] + 0 ELSE Missing[v]
  BY <1>1, <1>6, <1>7, <1>8, EscrowAssumption DEF Missing
<1>10. Surplus \in Int
  BY <1>1, EscrowAssumption DEF Surplus, TypeOK
<1>11. Kept' + Surplus' = Kept + Surplus + 0 /\ Kept + Surplus \in Int
  BY <1>2, <1>5, <1>10
<1> QED BY <1>1, <1>9, <1>11, MissingGrows

\* Settling gives the payee the amount, but for what the token keeps.
LEMMA PaidOut ==
  ASSUME TypeOK, NEW t \in Terms, NEW s \in States, NEW payee \in Wallets, Settle(t, s, payee)
  PROVE  \E fee \in Nat :
           /\ Kept' = Kept + fee /\ Kept \in Int
           /\ \A v \in Wallets :
                /\ balance'[v] = IF v = payee THEN balance[v] + (t.amount - fee) ELSE balance[v]
                /\ balance[v] \in Nat
<1>1. /\ t.amount \in Nat /\ payee \in Holders /\ EscrowAddress \in Holders
      /\ payee # EscrowAddress
  BY TermsTyped, EscrowAssumption DEF Holders
<1>2. PICK fee \in Fees : Transfer(EscrowAddress, payee, t.amount, fee)
  BY DEF Settle
<1>3. fee \in Nat
  BY EscrowAssumption
<1>4. Kept' = Kept + fee /\ Kept \in Int
  BY <1>1, <1>2, <1>3, TransferSum
<1>5. \A v \in Wallets :
        /\ balance'[v] = IF v = payee THEN balance[v] + (t.amount - fee) ELSE balance[v]
        /\ balance[v] \in Nat
  BY <1>1, <1>2, EscrowAssumption DEF Transfer, TypeOK
<1> QED BY <1>3, <1>4, <1>5

LEMMA SettlementAccounted ==
  ASSUME MoneyInv, NEW t \in Terms, Closes(t)
  PROVE  Accounted'
<1>1. /\ TypeOK /\ Accounted /\ t.amount \in Nat /\ Live(t) /\ ~Released(t)
      /\ t.buyer \in Wallets /\ t.provider \in Wallets
  BY TermsTyped DEF MoneyInv, IInv, ProvidersKnown, Closes, Live, Released
<1>2. \A v \in Wallets : /\ SumOver(Amounts, Committed(v)) \in Nat
                         /\ SumOver(Amounts, Earned(v)) \in Nat
                         /\ t \notin Earned(v)
                         /\ SumOver(Amounts, Earned(v) \cup {t})
                              = SumOver(Amounts, Earned(v)) + t.amount
  BY <1>1, AmountSum, AmountAdd DEF Committed, Earned
<1>3. Surplus \in Int
  BY <1>1, EscrowAssumption DEF Surplus, TypeOK
<1>4. CASE Settle(t, "RELEASED", t.provider)
  <2>1. /\ invocations' = [invocations EXCEPT ![t].state = "RELEASED"] /\ Surplus' = Surplus
    BY <1>1, <1>4, SettleFacts DEF States
  <2>2. PICK fee \in Nat :
          /\ Kept' = Kept + fee /\ Kept \in Int
          /\ \A v \in Wallets :
               /\ balance'[v] = IF v = t.provider THEN balance[v] + (t.amount - fee) ELSE balance[v]
               /\ balance[v] \in Nat
    BY <1>1, <1>4, PaidOut DEF States
  <2>3. \A v \in Wallets :
          /\ Committed(v)' = Committed(v)
          /\ Earned(v)' = IF v = t.provider THEN Earned(v) \cup {t} ELSE Earned(v)
    BY <1>1, <2>1 DEF TypeOK, Invocation, Committed, Earned, Live, Released
  <2>4. \A v \in Wallets : Missing'[v] = IF v = t.provider THEN Missing[v] + fee ELSE Missing[v]
    BY <1>1, <1>2, <2>2, <2>3, EscrowAssumption DEF Missing
  <2> QED BY <1>1, <1>3, <2>1, <2>2, <2>4, MissingGrows
<1>5. CASE Settle(t, "REFUNDED", t.buyer)
  <2>1. /\ invocations' = [invocations EXCEPT ![t].state = "REFUNDED"] /\ Surplus' = Surplus
    BY <1>1, <1>5, SettleFacts DEF States
  <2>2. PICK fee \in Nat :
          /\ Kept' = Kept + fee /\ Kept \in Int
          /\ \A v \in Wallets :
               /\ balance'[v] = IF v = t.buyer THEN balance[v] + (t.amount - fee) ELSE balance[v]
               /\ balance[v] \in Nat
    BY <1>1, <1>5, PaidOut DEF States
  <2>3. \A v \in Wallets :
          /\ Earned(v)' = Earned(v)
          /\ Committed(v)' = Committed(v) \ {t}
          /\ Committed(v) = IF v = t.buyer THEN Committed(v)' \cup {t} ELSE Committed(v)'
    BY <1>1, <2>1 DEF TypeOK, Invocation, Committed, Earned, Live, Released
  <2>4. \A v \in Wallets :
          /\ SumOver(Amounts, Committed(v)') \in Nat
          /\ SumOver(Amounts, Committed(v)' \cup {t}) = SumOver(Amounts, Committed(v)') + t.amount
    BY <2>3, AmountAdd DEF Committed
  <2>5. ASSUME NEW v \in Wallets
        PROVE  Missing'[v] = IF v = t.buyer THEN Missing[v] + fee ELSE Missing[v]
    <3>1. /\ Missing[v] = InitialFunds + SumOver(Amounts, Earned(v)) - balance[v]
                          - SumOver(Amounts, Committed(v))
          /\ Missing'[v] = InitialFunds + SumOver(Amounts, Earned(v)) - balance'[v]
                           - SumOver(Amounts, Committed(v)')
      BY <2>3 DEF Missing
    <3>2. CASE v = t.buyer
      <4>1. SumOver(Amounts, Committed(v)) = SumOver(Amounts, Committed(v)') + t.amount
        BY <2>3, <2>4, <3>2
      <4>2. /\ balance[v] \in Nat /\ balance'[v] = balance[v] + (t.amount - fee)
            /\ SumOver(Amounts, Earned(v)) \in Nat /\ SumOver(Amounts, Committed(v)') \in Nat
            /\ InitialFunds \in Nat /\ t.amount \in Nat
        BY <1>1, <1>2, <2>2, <2>4, <3>2, EscrowAssumption
      <4> QED BY <3>1, <3>2, <4>1, <4>2
    <3>3. CASE v # t.buyer
      BY <2>2, <2>3, <3>1, <3>3
    <3> QED BY <3>2, <3>3
  <2> QED BY <1>1, <1>3, <2>1, <2>2, <2>5, MissingGrows
<1> QED BY <1>4, <1>5 DEF Closes

LEMMA MoneyStarts == Init => MoneyInv
<1> SUFFICES ASSUME Init PROVE MoneyInv
  OBVIOUS
<1>1. IInv
  BY InitIInv
<1>2. ProvidersKnown
  BY DEF Init, NoInvocation, ProvidersKnown
<1>3. \A w \in Wallets : Earned(w) = {} /\ Committed(w) = {} /\ balance[w] = InitialFunds
  BY EscrowAssumption DEF Init, NoInvocation, Earned, Committed, Live, Released
<1>4. \A w \in Wallets : Missing[w] = 0
  BY <1>3, SumEmpty, EscrowAssumption DEF Missing
<1>5. SumOver(Missing, Wallets) = 0
  <2>1. SumOver(Missing, Wallets) = Cardinality(Wallets) * 0
    BY <1>4, HoldersFinite, SumConstant
  <2> QED BY <2>1, HoldersFinite, FS_CardinalityType
<1>6. SumOver(balance, Holders) = Cardinality(Wallets) * InitialFunds
  <2>1. SumOver(balance, Wallets) = Cardinality(Wallets) * InitialFunds
    BY <1>3, HoldersFinite, EscrowAssumption, SumConstant
  <2>2. balance[EscrowAddress] = 0 /\ EscrowAddress \notin Wallets
    BY EscrowAssumption DEF Init
  <2>3. \A h \in Wallets \cup {EscrowAddress} : balance[h] \in Int
    BY <1>3, <2>2, EscrowAssumption
  <2>4. SumOver(balance, Holders) = SumOver(balance, Wallets) + balance[EscrowAddress]
    BY <2>2, <2>3, HoldersFinite, SumAdd DEF Holders
  <2>5. Cardinality(Wallets) * InitialFunds \in Int
    BY HoldersFinite, FS_CardinalityType, EscrowAssumption
  <2> QED BY <2>1, <2>2, <2>4, <2>5
<1>7. Kept = 0 /\ Surplus = 0
  <2>1. Cardinality(Wallets) * InitialFunds \in Int
    BY HoldersFinite, FS_CardinalityType, EscrowAssumption
  <2> QED BY <1>6, <2>1, EscrowAssumption DEF Kept, Surplus, Init
<1> QED BY <1>1, <1>2, <1>4, <1>5, <1>7 DEF MoneyInv, Accounted

LEMMA MoneyContinues == MoneyInv /\ [Next]_vars => MoneyInv'
<1> SUFFICES ASSUME MoneyInv, [Next]_vars PROVE MoneyInv'
  OBVIOUS
<1>1. IInv' /\ TypeOK
  BY NextIInv DEF MoneyInv, IInv
<1>2. CASE UNCHANGED money /\ SamePhases
  <2>1. ProvidersKnown'
    BY <1>2 DEF MoneyInv, ProvidersKnown, SamePhases
  <2>2. \A w \in Wallets : Earned(w)' = Earned(w) /\ Committed(w)' = Committed(w)
    BY <1>2 DEF SamePhases, Earned, Committed
  <2>3. Missing' = Missing /\ Kept' = Kept /\ Surplus' = Surplus
    BY <1>2, <2>2 DEF Missing, Kept, Surplus, money
  <2>4. Accounted'
    BY <2>3 DEF MoneyInv, Accounted
  <2> QED BY <1>1, <2>1, <2>4 DEF MoneyInv
<1>3. ASSUME NEW w \in Wallets, Donates(w) PROVE MoneyInv'
  <2>1. ProvidersKnown'
    BY <1>3 DEF MoneyInv, ProvidersKnown, Donates
  <2> QED BY <1>1, <1>3, <2>1, GiftAccounted DEF MoneyInv
<1>4. ASSUME NEW t \in Terms, Opens(t) PROVE MoneyInv'
  <2>1. t.provider \in Wallets
    BY <1>4, TermsTyped DEF Opens, FundInternal, ValidTerms
  <2>2. invocations' = [invocations EXCEPT ![t] = [NoInvocation EXCEPT !.state = "FUNDED"]]
    BY <1>4 DEF Opens, FundInternal
  <2>3. ProvidersKnown'
    BY <1>1, <2>1, <2>2 DEF MoneyInv, ProvidersKnown, TypeOK
  <2> QED BY <1>1, <1>4, <2>3, DepositAccounted DEF MoneyInv
<1>5. ASSUME NEW t \in Terms, Closes(t) PROVE MoneyInv'
  <2>1. t.provider \in Wallets
    BY <1>5 DEF MoneyInv, ProvidersKnown, Closes, Live
  <2>2. \E s \in States : invocations' = [invocations EXCEPT ![t].state = s]
    BY <1>5 DEF Closes, Settle, SetState, States
  <2>3. ProvidersKnown'
    BY <1>1, <2>1, <2>2 DEF MoneyInv, ProvidersKnown, TypeOK
  <2> QED BY <1>1, <1>5, <2>3, SettlementAccounted DEF MoneyInv
<1> QED BY <1>1, <1>2, <1>3, <1>4, <1>5, MoneyStep

\* While the token is exact, the payments alone explain every wallet's balance:
\* then nothing is missing altogether, so nothing is missing anywhere.
THEOREM EntitlementsAreExact == Spec => []EntitlementsExact
<1>1. Spec => []MoneyInv
  BY MoneyStarts, MoneyContinues, PTL DEF Spec
<1>2. MoneyInv => EntitlementsExact
  <2> SUFFICES ASSUME MoneyInv, TokenExact PROVE EntitlementsExact
    BY DEF EntitlementsExact
  <2>1. balance \in [Holders -> Nat] /\ Accounted
    BY DEF MoneyInv, IInv, TypeOK, Holders
  <2>2. SumOver(balance, Holders) = Cardinality(Wallets) * InitialFunds /\ Surplus = 0
    BY <2>1 DEF TokenExact, SumOver
  <2>3. SumOver(Missing, Wallets) = 0
    <3>1. Cardinality(Wallets) * InitialFunds \in Int
      BY HoldersFinite, FS_CardinalityType, EscrowAssumption
    <3> QED BY <2>1, <2>2, <3>1 DEF Accounted, Kept
  <2>4. \A w \in Wallets : Missing[w] \in Nat /\ Missing[w] <= 0
    BY <2>1, <2>3, HoldersFinite, SumTerm DEF Accounted
  <2>5. \A w \in Wallets : Missing[w] = 0
    BY <2>4
  <2>6. ASSUME NEW w \in Wallets
        PROVE  balance[w] + SumOver(Amounts, Committed(w))
                 = InitialFunds + SumOver(Amounts, Earned(w))
    <3>1. /\ balance[w] \in Nat /\ SumOver(Amounts, Committed(w)) \in Nat
          /\ SumOver(Amounts, Earned(w)) \in Nat /\ InitialFunds \in Nat
      BY <2>1, AmountSum, EscrowAssumption DEF Holders, Committed, Earned
    <3> QED BY <2>5, <3>1 DEF Missing
  <2>7. \A w \in Wallets :
          /\ MapThenSumSet(LAMBDA t : t.amount, Committed(w)) = SumOver(Amounts, Committed(w))
          /\ MapThenSumSet(LAMBDA t : t.amount, Earned(w)) = SumOver(Amounts, Earned(w))
    BY AmountSum DEF Committed, Earned
  <2>8. \A w \in Wallets :
          /\ Committed(w) = {t \in Terms : t.buyer = w /\ (Live(t) \/ invocations[t].state = "RELEASED")}
          /\ Earned(w) = {t \in Terms : t.provider = w /\ invocations[t].state = "RELEASED"}
    BY DEF Committed, Earned, Released
  <2> QED BY <2>6, <2>7, <2>8 DEF EntitlementsExact
<1> QED BY <1>1, <1>2, PTL

------------------------------------------------------------------------------
(* The session's day.                                                      *)

\* The contract's counter is the sum of what sessions have paid, and a payment
\* that was never funded was not funded by a session.
SessionInv ==
  /\ \A t \in Terms : invocations[t].state = "UNFUNDED" => sessionDay[t] = NoDay
  /\ \A w \in Wallets, d \in Days : dailySpend[w][d] = SumOver(Amounts, InSession(w, d))

LEMMA DaysNatural == NoDay \notin Days
<1>1. \A t \in Time : t \div DayLength \in Nat
  <2> SUFFICES ASSUME NEW t \in Time PROVE t \div DayLength \in Nat
    OBVIOUS
  <2>1. t \in Nat /\ DayLength \in Nat \ {0} /\ 0 \in Nat /\ 0 <= t
    BY EscrowAssumption DEF Time
  <2>2. 0 \div DayLength <= t \div DayLength /\ t \div DayLength \in Int
    BY <2>1, DaysPass
  <2>3. 0 \div DayLength = 0
    BY <2>1
  <2> QED BY <2>2, <2>3
<1> QED BY <1>1 DEF Days, NoDay

LEMMA SessionStarts == Init => SessionInv
<1> SUFFICES ASSUME Init PROVE SessionInv
  OBVIOUS
<1>1. \A w \in Wallets, d \in Days : InSession(w, d) = {}
  BY DaysNatural DEF Init, InSession
<1>2. \A w \in Wallets, d \in Days : dailySpend[w][d] = SumOver(Amounts, InSession(w, d))
  BY <1>1, SumEmpty DEF Init
<1> QED BY <1>2 DEF Init, SessionInv

\* A session's payment was unfunded, and the day's sum grows by its amount.
LEMMA SessionPays ==
  ASSUME IInv, SessionInv, NEW w \in Wallets, NEW t \in Terms, FundWithSession(w, t)
  PROVE  /\ SessionInv' /\ w = t.buyer /\ Today \in Days
         /\ SumOver(Amounts, InSession(w, Today)') = dailySpend[w][Today] + t.amount
<1>1. /\ FundInternal(w, t)
      /\ dailySpend' = [dailySpend EXCEPT ![w][Today] = @ + t.amount]
      /\ sessionDay' = [sessionDay EXCEPT ![t] = Today]
  BY DEF FundWithSession
<1>2. /\ w = t.buyer /\ invocations[t].state = "UNFUNDED"
      /\ invocations' = [invocations EXCEPT ![t] = [NoInvocation EXCEPT !.state = "FUNDED"]]
      /\ Today \in Days /\ TypeOK
  BY <1>1, FundFacts, TodayIsADay DEF IInv
<1>3. sessionDay[t] = NoDay
  BY <1>2 DEF SessionInv
<1>4. \A v \in Wallets, d \in Days :
        InSession(v, d)' = IF v = w /\ d = Today THEN InSession(v, d) \cup {t} ELSE InSession(v, d)
  BY <1>1, <1>2, <1>3, DaysNatural DEF InSession, TypeOK
<1>5. /\ SumOver(Amounts, InSession(w, Today) \cup {t})
           = SumOver(Amounts, InSession(w, Today)) + t.amount
      /\ t.amount \in Nat
  <2>1. t \notin InSession(w, Today)
    BY <1>2, <1>3, DaysNatural DEF InSession
  <2> QED BY <2>1, AmountAdd DEF InSession
<1>6. \A v \in Wallets, d \in Days :
        dailySpend'[v][d] = IF v = w /\ d = Today THEN dailySpend[v][d] + t.amount
                            ELSE dailySpend[v][d]
  BY <1>1, <1>2 DEF TypeOK
<1>7. \A v \in Wallets, d \in Days : dailySpend'[v][d] = SumOver(Amounts, InSession(v, d)')
  BY <1>4, <1>5, <1>6 DEF SessionInv
<1>8. \A u \in Terms : invocations'[u].state = "UNFUNDED" => sessionDay'[u] = NoDay
  BY <1>1, <1>2 DEF SessionInv, TypeOK, NoInvocation
<1>9. SumOver(Amounts, InSession(w, Today)') = dailySpend[w][Today] + t.amount
  <2>1. InSession(w, Today)' = InSession(w, Today) \cup {t}
    <3>1. Today' = Today
      BY DEF FundWithSession, Today
    <3> QED BY <1>2, <1>4, <3>1 DEF InSession
  <2> QED BY <1>2, <1>5, <2>1 DEF SessionInv
<1>10. SessionInv'
  BY <1>7, <1>8 DEF SessionInv
<1> QED BY <1>2, <1>9, <1>10

\* No other call touches the counter or the history, or makes a payment unfunded.
LEMMA SessionRests ==
  ASSUME IInv, [Next]_vars, ~\E w \in Wallets, t \in Terms : FundWithSession(w, t)
  PROVE  dailySpend' = dailySpend /\ sessionDay' = sessionDay
BY DEF Next, vars, Tick, Pause, Unpause, GrantResolver, RevokeResolver, Donate, ConfigureSpending,
       Fund, Accept, SubmitResult, AcceptResult, Refund, Dispute, ReleaseAfterWindow,
       ResolveDispute, session

LEMMA SessionContinues == IInv /\ SessionInv /\ [Next]_vars => SessionInv'
<1> SUFFICES ASSUME IInv, SessionInv, [Next]_vars PROVE SessionInv'
  OBVIOUS
<1>1. ASSUME NEW w \in Wallets, NEW t \in Terms, FundWithSession(w, t) PROVE SessionInv'
  BY <1>1, SessionPays
<1>2. CASE ~\E w \in Wallets, t \in Terms : FundWithSession(w, t)
  <2>1. dailySpend' = dailySpend /\ sessionDay' = sessionDay
    BY <1>2, SessionRests
  <2>2. \A w \in Wallets, d \in Days : InSession(w, d)' = InSession(w, d)
    BY <2>1 DEF InSession
  <2>3. \A t \in Terms : invocations'[t].state = "UNFUNDED" => invocations[t].state = "UNFUNDED"
    <3>1. (\E t \in Terms : PaymentMove(t)) \/ invocations' = invocations
      BY StepMoves DEF IInv
    <3>2. ASSUME NEW t \in Terms, PaymentMove(t) PROVE invocations'[t].state # "UNFUNDED"
      BY <3>2 DEF PaymentMove, Arc, IInv, TypeOK
    <3> QED BY <3>1, <3>2 DEF PaymentMove, IInv, TypeOK
  <2> QED BY <2>1, <2>2, <2>3 DEF SessionInv
<1> QED BY <1>1, <1>2

\* Whenever a session funds a payment, all that sessions have paid for the
\* wallet that day is within the limit of the policy in force, however policies
\* were replaced.
THEOREM SessionBudget == Spec => SessionWithinLimit
<1> DEFINE Within == \A t \in Terms : sessionDay'[t] # sessionDay[t] =>
                       AmountOf(InSession(t.buyer, Today)') <= spendingPolicies[t.buyer].perDay
<1>1. IInv /\ SessionInv /\ [Next]_vars => Within
  <2> SUFFICES ASSUME IInv, SessionInv, [Next]_vars PROVE Within
    OBVIOUS
  <2>1. ASSUME NEW w \in Wallets, NEW u \in Terms, FundWithSession(w, u) PROVE Within
    <3>1. /\ sessionDay' = [sessionDay EXCEPT ![u] = Today] /\ now' = now
          /\ dailySpend[w][Today] + u.amount <= spendingPolicies[w].perDay
      BY <2>1 DEF FundWithSession, SpendingAllowed
    <3>2. w = u.buyer /\ SumOver(Amounts, InSession(w, Today)') = dailySpend[w][Today] + u.amount
      BY <2>1, SessionPays
    <3>3. InSession(w, Today)' \in SUBSET Terms
      BY DEF InSession
    <3>4. AmountOf(InSession(w, Today)') = SumOver(Amounts, InSession(w, Today)')
      BY <3>3, AmountSum DEF AmountOf
    <3>5. \A t \in Terms : sessionDay'[t] # sessionDay[t] => t = u
      BY <3>1 DEF IInv, TypeOK
    <3> QED BY <3>1, <3>2, <3>4, <3>5
  <2>2. CASE ~\E w \in Wallets, t \in Terms : FundWithSession(w, t)
    BY <2>2, SessionRests
  <2> QED BY <2>1, <2>2
<1>2. IInv /\ SessionInv /\ [Next]_vars => [Within]_vars
  BY <1>1
<1>3. Spec => [](IInv /\ SessionInv)
  BY InitIInv, NextIInv, SessionStarts, SessionContinues, PTL DEF Spec
<1> QED BY <1>2, <1>3, PTL DEF Spec, SessionWithinLimit

------------------------------------------------------------------------------
(* The contract's deployment: what was sent is recorded, and a deployment  *)
(* whose outcome no marker tells is followed by none at a later nonce.     *)

\* The transactions that have taken their nonce.
Accepted(r) == tx[r] \in {"pool", "deployed", "reverted"}
Taken(n) == \E r \in Runs : Accepted(r) /\ nonce[r] = n

\* The types without their bounds, which follow from the rest.
Shape ==
  /\ step \in [Runs -> {"idle", "nonce", "unresolved", "reconciled", "marked", "sent",
                        "submitted", "stopped"}]
  /\ nonce \in [Runs -> Nat]
  /\ code \in CreationCode
  /\ marker \in [Runs -> {"none", "BROADCASTING_OR_UNKNOWN", "SUBMITTED", "DEPLOYED", "unreadable"}]
  /\ tx \in [Runs -> TxStatuses]
  /\ latest \in Nat

\* Where a run is says what it has written and sent.
RunInv(r) ==
  /\ step[r] = "idle" => nonce[r] = 0
  /\ step[r] \in {"idle", "nonce", "unresolved", "reconciled"} => marker[r] = "none" /\ tx[r] = "none"
  /\ step[r] = "marked" => marker[r] = "BROADCASTING_OR_UNKNOWN" /\ tx[r] = "none"
  /\ step[r] \in {"sent", "submitted"} => marker[r] # "none" /\ Accepted(r)
  /\ tx[r] # "none" => marker[r] # "none"
  /\ marker[r] = "DEPLOYED" => tx[r] = "deployed"

\* A nonce is taken once, and those before the latest by what was mined.
ChainInv ==
  /\ \A r \in Runs : Mined(r) => nonce[r] < latest
  /\ \A r \in Runs : tx[r] = "pool" => nonce[r] >= latest
  /\ \A r, s \in Runs : Accepted(r) /\ Accepted(s) /\ nonce[r] = nonce[s] => r = s
  /\ \A n \in 0..(latest - 1) : Taken(n)

\* The nonces before the one that a run has read are taken.
NonceInv(r) == step[r] # "idle" => \A n \in 0..(nonce[r] - 1) : Taken(n)

\* A run that has read the markers, or has sent.
PastMarkers(r) ==
  step[r] \in {"unresolved", "reconciled", "marked", "sent", "submitted"} \/ tx[r] # "none"

\* It either read the nonce of an unresolved attempt or a later one, and then
\* another transaction has the attempt's.
AttemptInv(r, s) ==
  marker[r] = "BROADCASTING_OR_UNKNOWN" /\ PastMarkers(s) /\ nonce[s] > nonce[r] =>
    \E t \in Runs \ {r} : Accepted(t) /\ nonce[t] = nonce[r]

DeploymentIInv ==
  /\ Shape /\ ChainInv
  /\ \A r \in Runs : RunInv(r) /\ NonceInv(r)
  /\ \A r, s \in Runs : AttemptInv(r, s)

------------------------------------------------------------------------------
(* The pending nonce.                                                      *)

\* A nonce that the count of pending transactions has passed is taken.
LEMMA PendingTaken ==
  ASSUME Shape, ChainInv
  PROVE  PendingNonce \in Nat /\ PendingNonce >= latest /\ \A n \in 0..(PendingNonce - 1) : Taken(n)
<1> DEFINE run == {n \in {nonce[r] : r \in Pooled} : \A k \in latest..n : \E s \in Pooled : nonce[s] = k}
<1>1. latest \in Nat /\ \A r \in Runs : nonce[r] \in Nat
  BY DEF Shape
<1>2. \A n \in run : n \in Nat /\ n >= latest
  BY <1>1 DEF Pooled, ChainInv
<1>3. ASSUME NEW n \in Nat, n >= latest, \A s \in Pooled : nonce[s] # n
      PROVE  IsFiniteSet(run) /\ Cardinality(run) \in Nat /\ latest + Cardinality(run) <= n
  <2>1. ASSUME NEW m \in run PROVE m \in latest..(n - 1)
    <3>1. m \in Nat /\ m >= latest /\ \A k \in latest..m : \E s \in Pooled : nonce[s] = k
      BY <1>2, <2>1
    <3>2. ~(n <= m)
      BY <1>1, <1>3, <3>1
    <3> QED BY <1>1, <3>1, <3>2
  <2>2. IsFiniteSet(latest..(n - 1)) /\ Cardinality(latest..(n - 1)) = n - latest
    <3>1. latest \in Int /\ n - 1 \in Int
      BY <1>1
    <3>2. /\ IsFiniteSet(latest..(n - 1))
          /\ Cardinality(latest..(n - 1)) = IF latest > n - 1 THEN 0 ELSE n - 1 - latest + 1
      BY <3>1, FS_Interval
    <3> QED BY <1>1, <1>3, <3>2
  <2> HIDE DEF run
  <2>3. IsFiniteSet(run) /\ Cardinality(run) <= Cardinality(latest..(n - 1))
    BY <2>1, <2>2, FS_Subset
  <2>4. Cardinality(run) \in Nat
    BY <2>3, FS_CardinalityType
  <2> QED BY <1>1, <2>2, <2>3, <2>4
<1>4. IsFiniteSet(run) /\ Cardinality(run) \in Nat
  <2>1. run \subseteq {nonce[r] : r \in Runs}
    BY DEF Pooled
  <2> DEFINE read == [r \in Runs |-> nonce[r]]
  <2>2. read \in Surjection(Runs, {nonce[r] : r \in Runs})
    BY DEF Surjection
  <2>3. IsFiniteSet({nonce[r] : r \in Runs})
    BY <2>2, DeploymentAssumption, FS_Surjection
  <2> HIDE DEF run
  <2>4. IsFiniteSet(run)
    BY <2>1, <2>3, FS_Subset
  <2> QED BY <2>4, FS_CardinalityType
<1>5. PendingNonce = latest + Cardinality(run)
  BY DEF PendingNonce
<1> HIDE DEF run
<1>6. ASSUME NEW n \in 0..(PendingNonce - 1), n >= latest PROVE Taken(n)
  <2>1. n \in Nat /\ ~(latest + Cardinality(run) <= n)
    BY <1>1, <1>4, <1>5, <1>6
  <2>2. PICK s \in Pooled : nonce[s] = n
    BY <1>3, <1>6, <2>1
  <2> QED BY <2>2 DEF Pooled, Taken, Accepted
<1>7. ASSUME NEW n \in 0..(PendingNonce - 1), ~(n >= latest) PROVE Taken(n)
  BY <1>1, <1>4, <1>5, <1>7 DEF ChainInv
<1> QED BY <1>1, <1>4, <1>5, <1>6, <1>7

\* As many nonces are taken as there are runs, at most.
LEMMA TakenBound ==
  ASSUME NEW m \in Nat, \A n \in 0..(m - 1) : Taken(n)
  PROVE  m <= Cardinality(Runs)
<1>1. Cardinality(Runs) \in Nat /\ IsFiniteSet(Runs)
  BY DeploymentAssumption, FS_CardinalityType
<1> SUFFICES ASSUME Cardinality(Runs) < m PROVE FALSE
  BY <1>1
<1> DEFINE by == [n \in 0..(m - 1) |-> CHOOSE r \in Runs : nonce[r] = n]
<1>2. \A n \in 0..(m - 1) : by[n] \in Runs /\ nonce[by[n]] = n
  BY DEF Taken
<1>3. IsFiniteSet(0..(m - 1)) /\ Cardinality(0..(m - 1)) = m
  <2>1. 0 \in Int /\ m - 1 \in Int
    OBVIOUS
  <2>2. /\ IsFiniteSet(0..(m - 1))
        /\ Cardinality(0..(m - 1)) = IF 0 > m - 1 THEN 0 ELSE m - 1 - 0 + 1
    BY <2>1, FS_Interval
  <2> QED BY <2>2
<1>4. by \in [0..(m - 1) -> Runs]
  BY <1>2
<1> HIDE DEF by
<1>5. Cardinality(Runs) < Cardinality(0..(m - 1))
  BY <1>3
<1>6. \E j, k \in 0..(m - 1) : j # k /\ by[j] = by[k]
  BY <1>1, <1>3, <1>4, <1>5, FS_PigeonHole
<1> QED BY <1>2, <1>6

------------------------------------------------------------------------------
(* The steps.                                                              *)

LEMMA DeploymentStarts == DeploymentInit => DeploymentIInv
BY DEF DeploymentInit, DeploymentIInv, Shape, ChainInv, RunInv, NonceInv, AttemptInv,
       PastMarkers, Accepted, Mined, Taken,
       TxStatuses, CreationCode

\* A run writes a marker or goes on; the chain stays as it is.
LEMMA DirectorySteps ==
  ASSUME DeploymentIInv, NEW r \in Runs, UNCHANGED <<nonce, code, Network>>, Shape',
         step[r] # "idle", step'[r] # "idle",
         \A q \in Runs \ {r} : step'[q] = step[q] /\ marker'[q] = marker[q],
         RunInv(r)', \A q \in Runs : AttemptInv(r, q)' /\ AttemptInv(q, r)'
  PROVE  DeploymentIInv'
<1>1. tx' = tx /\ latest' = latest /\ nonce' = nonce
  BY DEF Network
<1>2. ChainInv'
  BY <1>1 DEF DeploymentIInv, ChainInv, Mined, Accepted, Taken
<1>3. \A q \in Runs : RunInv(q)' /\ NonceInv(q)'
  <2>1. \A q \in Runs \ {r} : RunInv(q)'
    BY <1>1 DEF DeploymentIInv, RunInv, Accepted
  <2>2. \A q \in Runs : NonceInv(q)'
    BY <1>1 DEF DeploymentIInv, NonceInv, Taken, Accepted
  <2> QED BY <2>1, <2>2
<1>4. \A q, s \in Runs \ {r} : AttemptInv(q, s)'
  BY <1>1 DEF DeploymentIInv, AttemptInv, PastMarkers, Accepted
<1> QED BY <1>2, <1>3, <1>4 DEF DeploymentIInv

\* A marker is not made unresolved, nor a run brought past the markers.
LEMMA AttemptsKept ==
  ASSUME DeploymentIInv, NEW r \in Runs, UNCHANGED <<nonce, code, Network>>,
         marker'[r] = "BROADCASTING_OR_UNKNOWN" => marker[r] = "BROADCASTING_OR_UNKNOWN",
         PastMarkers(r)' => PastMarkers(r),
         \A q \in Runs \ {r} : step'[q] = step[q] /\ marker'[q] = marker[q]
  PROVE  \A q \in Runs : AttemptInv(r, q)' /\ AttemptInv(q, r)'
<1>1. tx' = tx /\ latest' = latest /\ nonce' = nonce
  BY DEF Network
<1>2. \A q \in Runs : PastMarkers(q)' => PastMarkers(q)
  BY <1>1 DEF PastMarkers
<1> QED BY <1>1, <1>2 DEF DeploymentIInv, AttemptInv, Accepted

LEMMA RunSteps ==
  ASSUME DeploymentIInv, NEW r \in Runs,
         Reconcile(r) \/ SigningFails(r) \/ SaveHash(r) \/ Verify(r) \/ Stop(r) \/ Tear(r)
  PROVE  DeploymentIInv'
<1>1. /\ UNCHANGED <<nonce, code, Network>> /\ step[r] # "idle"
      /\ \/ step' = [step EXCEPT ![r] = "stopped"]
         \/ step' = [step EXCEPT ![r] = "reconciled"] /\ step[r] = "unresolved" /\ marker' = marker
         \/ step' = [step EXCEPT ![r] = "submitted"] /\ step[r] = "sent"
            /\ marker' = [marker EXCEPT ![r] = "SUBMITTED"]
      /\ \/ marker' = marker
         \/ marker' = [marker EXCEPT ![r] = "unreadable"]
         \/ marker' = [marker EXCEPT ![r] = "SUBMITTED"] /\ step[r] = "sent"
         \/ marker' = [marker EXCEPT ![r] = "DEPLOYED"] /\ tx[r] = "deployed"
  BY DEF Reconcile, SigningFails, SaveHash, Verify, Stop, Tear, Go, ReadyToSend
<1>2. Shape /\ RunInv(r)
  BY DEF DeploymentIInv
<1>3. /\ Shape' /\ tx' = tx /\ step'[r] # "idle"
      /\ \A q \in Runs \ {r} : step'[q] = step[q] /\ marker'[q] = marker[q]
      /\ marker'[r] = "BROADCASTING_OR_UNKNOWN" => marker[r] = "BROADCASTING_OR_UNKNOWN"
  BY <1>1, <1>2 DEF Shape, Network
<1>4. RunInv(r)'
  BY <1>1, <1>2, <1>3 DEF Shape, RunInv, Accepted
<1>5. PastMarkers(r)' => PastMarkers(r)
  BY <1>1, <1>2, <1>3 DEF Shape, PastMarkers
<1> QED BY <1>1, <1>3, <1>4, <1>5, AttemptsKept, DirectorySteps

\* A run goes on only if it has the nonce of every unresolved attempt.
LEMMA ReadMarkersStep ==
  ASSUME DeploymentIInv, NEW r \in Runs, ReadMarkers(r)
  PROVE  DeploymentIInv'
<1>1. /\ UNCHANGED <<nonce, code, Network>> /\ step[r] = "nonce" /\ marker' = marker
      /\ \/ step' = [step EXCEPT ![r] = "stopped"]
         \/ /\ \E s \in {"reconciled", "unresolved"} : step' = [step EXCEPT ![r] = s]
            /\ \A q \in Unresolved : Matches(r, q)
  BY DEF ReadMarkers, Go
<1>2. Shape /\ RunInv(r)
  BY DEF DeploymentIInv
<1>3. /\ Shape' /\ tx' = tx /\ nonce' = nonce /\ step'[r] # "idle"
      /\ \A q \in Runs \ {r} : step'[q] = step[q]
  BY <1>1, <1>2 DEF Shape, Network
<1>4. RunInv(r)'
  BY <1>1, <1>2, <1>3 DEF Shape, RunInv
<1>5. ASSUME NEW q \in Runs PROVE AttemptInv(r, q)' /\ AttemptInv(q, r)'
  <2>1. AttemptInv(r, q)'
    BY <1>1, <1>2 DEF RunInv, AttemptInv
  <2>2. AttemptInv(q, r)'
    <3>1. CASE step' = [step EXCEPT ![r] = "stopped"]
      BY <1>1, <1>2, <1>3, <3>1 DEF AttemptInv, PastMarkers, RunInv, Shape
    <3>2. CASE \A s \in Unresolved : Matches(r, s)
      <4>1. marker[q] = "BROADCASTING_OR_UNKNOWN" => nonce[q] = nonce[r]
        BY <3>2 DEF Unresolved, Matches
      <4> QED BY <1>1, <1>2, <1>3, <4>1 DEF AttemptInv, Shape
    <3> QED BY <1>1, <3>1, <3>2
  <2> QED BY <2>1, <2>2
<1> QED BY <1>1, <1>3, <1>4, <1>5, DirectorySteps

\* When the marker is written, whoever has read a later nonce found this one
\* taken by another transaction.
LEMMA WriteMarkerStep ==
  ASSUME DeploymentIInv, NEW r \in Runs, WriteMarker(r)
  PROVE  DeploymentIInv'
<1>1. /\ UNCHANGED <<nonce, code, Network>> /\ step[r] = "reconciled"
      /\ marker' = [marker EXCEPT ![r] = "BROADCASTING_OR_UNKNOWN"]
      /\ step' = [step EXCEPT ![r] = "marked"]
  BY DEF WriteMarker, Go
<1>2. Shape /\ RunInv(r)
  BY DEF DeploymentIInv
<1>3. /\ Shape' /\ tx' = tx /\ nonce' = nonce /\ step'[r] = "marked"
      /\ marker'[r] = "BROADCASTING_OR_UNKNOWN"
      /\ \A q \in Runs \ {r} : step'[q] = step[q] /\ marker'[q] = marker[q]
  BY <1>1, <1>2 DEF Shape, Network
<1>4. RunInv(r)'
  BY <1>1, <1>2, <1>3 DEF RunInv
<1>5. ASSUME NEW q \in Runs PROVE AttemptInv(r, q)' /\ AttemptInv(q, r)'
  <2>1. AttemptInv(r, q)'
    <3> SUFFICES ASSUME PastMarkers(q)', nonce[q] > nonce[r]
                 PROVE  \E t \in Runs \ {r} : Accepted(t)' /\ nonce[t] = nonce[r]
      BY <1>3 DEF AttemptInv
    <3>1. step[q] # "idle"
      <4>1. q # r
        BY <1>2 DEF Shape
      <4>2. RunInv(q)
        BY DEF DeploymentIInv
      <4> QED BY <1>3, <4>1, <4>2 DEF PastMarkers, RunInv
    <3>2. nonce[r] \in 0..(nonce[q] - 1)
      BY <1>2 DEF Shape
    <3>3. Taken(nonce[r])
      BY <3>1, <3>2 DEF DeploymentIInv, NonceInv
    <3>4. ~Accepted(r)
      BY <1>1, <1>2 DEF RunInv, Accepted
    <3> QED BY <1>3, <3>3, <3>4 DEF Taken, Accepted
  <2>2. CASE q # r
    <3>1. PastMarkers(r) /\ AttemptInv(q, r)
      BY <1>1 DEF PastMarkers, DeploymentIInv
    <3> QED BY <1>3, <2>1, <2>2, <3>1 DEF AttemptInv, Accepted
  <2> QED BY <2>1, <2>2
<1> QED BY <1>1, <1>3, <1>4, <1>5, DirectorySteps

\* A transaction is accepted, delayed or lost; what was accepted stays so.
LEMMA NetworkSteps ==
  ASSUME DeploymentIInv, NEW r \in Runs, Arrive(r) \/ Lose(r) \/ Send(r) \/ SendFails(r)
  PROVE  DeploymentIInv'
<1>1. /\ UNCHANGED <<nonce, code, marker, latest>>
      /\ \/ tx[r] = "wire" /\ step' = step
         \/ step[r] = "marked" /\ \E s \in {"sent", "stopped"} : step' = [step EXCEPT ![r] = s]
      /\ \/ \E t \in {"dropped", "wire"} : tx' = [tx EXCEPT ![r] = t] /\ step'[r] # "sent"
         \/ tx' = [tx EXCEPT ![r] = "pool"] /\ Accepts(r)
  <2>1. Shape
    BY DEF DeploymentIInv
  <2>2. tx[r] = "wire" => step[r] # "sent"
    BY DEF DeploymentIInv, RunInv, Accepted
  <2> QED BY <2>1, <2>2 DEF Shape, Arrive, Lose, Send, SendFails, Go, ReadyToSend
<1>2. Shape /\ RunInv(r) /\ ChainInv
  BY DEF DeploymentIInv
<1>3. /\ Shape' /\ nonce' = nonce /\ latest' = latest
      /\ \A q \in Runs \ {r} : step'[q] = step[q] /\ tx'[q] = tx[q]
      /\ step'[r] = "idle" <=> step[r] = "idle"
  BY <1>1, <1>2 DEF Shape, TxStatuses
<1>4. /\ tx[r] \in {"none", "wire"} /\ ~Accepted(r)
      /\ \/ tx'[r] \in {"dropped", "wire"} /\ step'[r] # "sent"
         \/ tx'[r] = "pool" /\ Accepts(r)
  BY <1>1, <1>2 DEF RunInv, Accepted, Shape
<1>5. \A q \in Runs : Accepted(q) => Accepted(q)'
  BY <1>3, <1>4 DEF Accepted
<1>6. \A n : Taken(n) => Taken(n)'
  BY <1>3, <1>5 DEF Taken
<1>7. ChainInv'
  <2>1. \A q \in Runs : Mined(q)' => nonce'[q] < latest'
    BY <1>2, <1>3, <1>4 DEF ChainInv, Mined
  <2>2. \A q \in Runs : tx'[q] = "pool" => nonce'[q] >= latest'
    BY <1>2, <1>3, <1>4 DEF ChainInv, Accepts
  <2>3. \A q \in Runs \ {r} : Accepted(q) /\ tx'[r] = "pool" => nonce[q] # nonce[r]
    <3>1. ASSUME NEW q \in Runs \ {r}, Accepted(q), Accepts(r) PROVE nonce[q] # nonce[r]
      <4>1. CASE tx[q] = "pool"
        BY <3>1, <4>1 DEF Accepts, Pooled
      <4>2. CASE Mined(q)
        BY <1>2, <3>1, <4>2 DEF ChainInv, Accepts, Shape
      <4> QED BY <3>1, <4>1, <4>2 DEF Accepted, Mined
    <3> QED BY <1>4, <3>1
  <2>4. \A q, s \in Runs : Accepted(q)' /\ Accepted(s)' /\ nonce'[q] = nonce'[s] => q = s
    <3>1. \A q \in Runs \ {r} : Accepted(q)' => Accepted(q)
      BY <1>3 DEF Accepted
    <3>2. Accepted(r)' => tx'[r] = "pool"
      BY <1>4 DEF Accepted
    <3> QED BY <1>2, <1>3, <2>3, <3>1, <3>2 DEF ChainInv
  <2>5. \A n \in 0..(latest' - 1) : Taken(n)'
    BY <1>2, <1>3, <1>6 DEF ChainInv
  <2> QED BY <2>1, <2>2, <2>4, <2>5 DEF ChainInv
<1>8. ASSUME NEW q \in Runs PROVE RunInv(q)' /\ NonceInv(q)'
  <2>1. NonceInv(q)'
    BY <1>3, <1>6 DEF DeploymentIInv, NonceInv
  <2>2. CASE q # r
    BY <1>1, <1>3, <2>1, <2>2 DEF DeploymentIInv, RunInv, Accepted
  <2>3. CASE q = r
    <3>1. marker'[r] = marker[r] /\ marker[r] # "none" /\ marker[r] # "DEPLOYED"
      BY <1>1, <1>2, <1>4 DEF RunInv
    <3>2. step'[r] \notin {"idle", "nonce", "unresolved", "reconciled", "marked"}
      BY <1>1, <1>2 DEF RunInv, Shape
    <3>3. step'[r] \in {"sent", "submitted"} => Accepted(r)'
      BY <1>1, <1>2, <1>4 DEF RunInv, Accepted, Shape
    <3> QED BY <2>1, <2>3, <3>1, <3>2, <3>3 DEF RunInv
  <2> QED BY <2>2, <2>3
<1>9. ASSUME NEW q \in Runs, NEW s \in Runs PROVE AttemptInv(q, s)'
  <2>1. PastMarkers(s)' => PastMarkers(s)
    BY <1>1, <1>3 DEF PastMarkers
  <2> QED BY <1>1, <1>3, <1>5, <2>1 DEF DeploymentIInv, AttemptInv
<1> QED BY <1>3, <1>7, <1>8, <1>9 DEF DeploymentIInv

LEMMA MineStep ==
  ASSUME DeploymentIInv, NEW r \in Runs, Mine(r)
  PROVE  DeploymentIInv'
<1>1. /\ UNCHANGED <<step, nonce, code, marker>> /\ tx[r] = "pool" /\ nonce[r] = latest
      /\ \E outcome \in {"deployed", "reverted"} : tx' = [tx EXCEPT ![r] = outcome]
      /\ latest' = latest + 1
  BY DEF Mine
<1>2. Shape /\ RunInv(r) /\ ChainInv
  BY DEF DeploymentIInv
<1>3. /\ Shape' /\ Mined(r)' /\ tx'[r] # "pool" /\ \A q \in Runs \ {r} : tx'[q] = tx[q]
  BY <1>1, <1>2 DEF Shape, TxStatuses, Mined
<1>4. \A q \in Runs : Accepted(q)' = Accepted(q)
  BY <1>1, <1>3 DEF Accepted, Mined
<1>5. \A n : Taken(n)' <=> Taken(n)
  BY <1>1, <1>4 DEF Taken
<1>6. ChainInv'
  <2>1. \A q \in Runs : Mined(q)' => nonce'[q] < latest'
    BY <1>1, <1>2, <1>3 DEF ChainInv, Mined, Shape
  <2>2. \A q \in Runs : tx'[q] = "pool" => nonce'[q] >= latest'
    <3>1. ASSUME NEW q \in Runs, tx'[q] = "pool" PROVE nonce[q] >= latest + 1
      <4>1. q # r /\ tx[q] = "pool" /\ nonce[q] >= latest
        BY <1>2, <1>3, <3>1 DEF ChainInv
      <4>2. nonce[q] # latest
        BY <1>1, <1>2, <4>1 DEF ChainInv, Accepted
      <4> QED BY <1>2, <4>1, <4>2 DEF Shape
    <3> QED BY <1>1, <3>1
  <2>3. \A q, s \in Runs : Accepted(q)' /\ Accepted(s)' /\ nonce'[q] = nonce'[s] => q = s
    BY <1>1, <1>2, <1>4 DEF ChainInv
  <2>4. \A n \in 0..(latest' - 1) : Taken(n)'
    <3>1. Taken(latest)
      BY <1>1 DEF Taken, Accepted
    <3> QED BY <1>1, <1>2, <1>5, <3>1 DEF ChainInv, Shape
  <2> QED BY <2>1, <2>2, <2>3, <2>4 DEF ChainInv
<1>7. ASSUME NEW q \in Runs PROVE RunInv(q)' /\ NonceInv(q)'
  <2>1. NonceInv(q)'
    BY <1>1, <1>5 DEF DeploymentIInv, NonceInv
  <2>2. RunInv(q)'
    <3>1. tx'[q] = "none" <=> tx[q] = "none"
      BY <1>1, <1>3 DEF Mined
    <3>2. RunInv(q) /\ (tx[q] = "deployed" => tx'[q] = "deployed")
      BY <1>1, <1>3 DEF DeploymentIInv
    <3> QED BY <1>1, <1>4, <3>1, <3>2 DEF RunInv
  <2> QED BY <2>1, <2>2
<1>8. ASSUME NEW q \in Runs, NEW s \in Runs PROVE AttemptInv(q, s)'
  <2>1. PastMarkers(s)' => PastMarkers(s)
    BY <1>1, <1>3 DEF PastMarkers
  <2> QED BY <1>1, <1>4, <2>1 DEF DeploymentIInv, AttemptInv
<1> QED BY <1>3, <1>6, <1>7, <1>8 DEF DeploymentIInv

LEMMA ReadNonceStep ==
  ASSUME DeploymentIInv, NEW r \in Runs, ReadNonce(r)
  PROVE  DeploymentIInv'
<1>1. /\ UNCHANGED <<code, marker, tx, latest>> /\ step[r] = "idle"
      /\ nonce' = [nonce EXCEPT ![r] = PendingNonce] /\ step' = [step EXCEPT ![r] = "nonce"]
  BY DEF ReadNonce, Go, Network
<1>2. Shape /\ RunInv(r) /\ ChainInv
  BY DEF DeploymentIInv
<1>3. PendingNonce \in Nat /\ \A n \in 0..(PendingNonce - 1) : Taken(n)
  BY <1>2, PendingTaken
<1>4. /\ Shape' /\ nonce'[r] = PendingNonce /\ step'[r] = "nonce"
      /\ \A q \in Runs \ {r} : step'[q] = step[q] /\ nonce'[q] = nonce[q]
  BY <1>1, <1>2, <1>3 DEF Shape
<1>5. tx[r] = "none" /\ marker[r] = "none"
  BY <1>1, <1>2 DEF RunInv
<1>6. \A q \in Runs : (Accepted(q)' <=> Accepted(q)) /\ (Accepted(q) => nonce'[q] = nonce[q] /\ q # r)
  BY <1>1, <1>4, <1>5 DEF Accepted
<1>7. \A n : Taken(n)' <=> Taken(n)
  BY <1>4, <1>6 DEF Taken
<1>8. ChainInv'
  <2>1. \A q \in Runs : Mined(q) \/ tx[q] = "pool" => Accepted(q)
    BY DEF Mined, Accepted
  <2>2. \A q \in Runs : Mined(q)' <=> Mined(q)
    BY <1>1 DEF Mined
  <2> QED BY <1>1, <1>2, <1>6, <1>7, <2>1, <2>2 DEF ChainInv
<1>9. ASSUME NEW q \in Runs PROVE RunInv(q)' /\ NonceInv(q)'
  <2>1. RunInv(q)'
    BY <1>1, <1>4, <1>5, <1>6 DEF DeploymentIInv, RunInv
  <2>2. CASE q = r
    BY <1>3, <1>4, <1>7, <2>1, <2>2 DEF NonceInv
  <2>3. CASE q # r
    BY <1>4, <1>7, <2>1, <2>3 DEF DeploymentIInv, NonceInv
  <2> QED BY <2>2, <2>3
<1>10. ASSUME NEW q \in Runs, NEW s \in Runs PROVE AttemptInv(q, s)'
  <2>1. PastMarkers(s)' => PastMarkers(s) /\ s # r
    BY <1>1, <1>4, <1>5 DEF PastMarkers
  <2>2. marker'[q] = "BROADCASTING_OR_UNKNOWN" => q # r /\ marker[q] = "BROADCASTING_OR_UNKNOWN"
    BY <1>1, <1>5
  <2> QED BY <1>4, <1>6, <2>1, <2>2 DEF DeploymentIInv, AttemptInv
<1> QED BY <1>4, <1>8, <1>9, <1>10 DEF DeploymentIInv

------------------------------------------------------------------------------
(* The theorems.                                                           *)

LEMMA DeploymentContinues == DeploymentIInv /\ [DeploymentNext]_deploymentVars => DeploymentIInv'
<1> SUFFICES ASSUME DeploymentIInv, [DeploymentNext]_deploymentVars PROVE DeploymentIInv'
  OBVIOUS
<1>1. ASSUME NEW r \in Runs, Arrive(r) \/ Lose(r) \/ Send(r) \/ SendFails(r) PROVE DeploymentIInv'
  BY <1>1, NetworkSteps
<1>2. ASSUME NEW r \in Runs, Mine(r) PROVE DeploymentIInv'
  BY <1>2, MineStep
<1>3. ASSUME NEW r \in Runs, ReadNonce(r) PROVE DeploymentIInv'
  BY <1>3, ReadNonceStep
<1>4. ASSUME NEW r \in Runs, ReadMarkers(r) PROVE DeploymentIInv'
  BY <1>4, ReadMarkersStep
<1>5. ASSUME NEW r \in Runs, WriteMarker(r) PROVE DeploymentIInv'
  BY <1>5, WriteMarkerStep
<1>6. ASSUME NEW r \in Runs,
             Reconcile(r) \/ SigningFails(r) \/ SaveHash(r) \/ Verify(r) \/ Stop(r) \/ Tear(r)
      PROVE  DeploymentIInv'
  BY <1>6, RunSteps
<1>7. CASE UNCHANGED deploymentVars
  BY <1>7 DEF deploymentVars, DeploymentIInv, Shape, ChainInv, RunInv, NonceInv,
              AttemptInv, PastMarkers, Accepted, Mined, Taken
<1> QED BY <1>1, <1>2, <1>3, <1>4, <1>5, <1>6, <1>7 DEF DeploymentNext

\* The inductive invariant: markers, nonces and the chain agree at every step.
THEOREM DeploymentInvariance == DeploymentSpec => []DeploymentIInv
BY DeploymentStarts, DeploymentContinues, PTL DEF DeploymentSpec

\* Types; a nonce is never beyond the number of runs.
THEOREM DeploymentTypeCorrect == DeploymentSpec => []DeploymentTypeOK
<1>1. DeploymentIInv => DeploymentTypeOK
  <2> SUFFICES ASSUME DeploymentIInv PROVE DeploymentTypeOK
    OBVIOUS
  <2>1. Shape /\ ChainInv /\ Cardinality(Runs) \in Nat
    BY DeploymentAssumption, FS_CardinalityType DEF DeploymentIInv
  <2>2. latest <= Cardinality(Runs)
    BY <2>1, TakenBound DEF Shape, ChainInv
  <2>3. ASSUME NEW r \in Runs, step[r] # "idle" PROVE nonce[r] <= Cardinality(Runs)
    BY <2>1, <2>3, TakenBound DEF DeploymentIInv, Shape, NonceInv
  <2>4. \A r \in Runs : nonce[r] \in 0..Cardinality(Runs)
    BY <2>1, <2>3 DEF DeploymentIInv, RunInv, Shape
  <2>5. nonce \in [Runs -> 0..Cardinality(Runs)] /\ latest \in 0..Cardinality(Runs)
    BY <2>1, <2>2, <2>4 DEF Shape
  <2> QED BY <2>1, <2>5 DEF DeploymentTypeOK, Shape
<1> QED BY <1>1, DeploymentInvariance, PTL

\* Nothing is sent without a marker, and no marker claims what is not there.
THEOREM DeploymentsRecorded == DeploymentSpec => []EveryDeploymentRecorded
<1>1. DeploymentIInv => EveryDeploymentRecorded
  BY DEF DeploymentIInv, RunInv, EveryDeploymentRecorded
<1> QED BY <1>1, DeploymentInvariance, PTL

\* No run deploys at a later nonce on the assumption that an attempt it knows
\* nothing of has failed.
THEOREM NeverBlind == DeploymentSpec => []NoBlindRedeployment
<1>1. DeploymentIInv => NoBlindRedeployment
  <2> SUFFICES ASSUME DeploymentIInv, NEW r \in Runs, NEW s \in Runs, Mined(r),
                      marker[r] = "BROADCASTING_OR_UNKNOWN", tx[s] # "none"
               PROVE  nonce[s] <= nonce[r]
    BY DEF NoBlindRedeployment
  <2>1. Shape /\ ChainInv /\ AttemptInv(r, s) /\ PastMarkers(s) /\ Accepted(r)
    BY DEF DeploymentIInv, PastMarkers, Accepted, Mined
  <2>2. ~(nonce[s] > nonce[r])
    BY <2>1 DEF AttemptInv, ChainInv
  <2> QED BY <2>1, <2>2 DEF Shape
<1> QED BY <1>1, DeploymentInvariance, PTL
=============================================================================
