------------------------------- MODULE Escrow -------------------------------
(***************************************************************************)
(* NormicServiceEscrow.sol: the contract that holds a buyer's USDG from    *)
(* funding to settlement.  Every external function is one action: an EVM   *)
(* transaction is atomic, and a revert is a disabled action.  An           *)
(* invocation id is the hash of its terms, so the terms stand for the id.  *)
(* Several transactions may share a block timestamp; Tick is the passing   *)
(* of time between blocks.                                                 *)
(***************************************************************************)
EXTENDS Integers, FiniteSetsExt

CONSTANTS
  Wallets,        \* addresses of buyers, providers and owners
  ZeroAddress,    \* address(0)
  EscrowAddress,  \* address(this)
  Terms,          \* the terms parties may write down, legal or not
  Hashes,         \* result commitments other than bytes32(0)
  NoHash,         \* bytes32(0)
  Policies,       \* arguments configureSpending may be called with
  Resolvers,      \* addresses that may hold RESOLVER_ROLE
  MaxPayment,     \* maxPayment, fixed by the constructor
  MaxUint64,      \* largest uint64
  DayLength,      \* 1 days
  MaxTime,        \* bound on block.timestamp
  Fees,           \* what the token may keep of a transfer (0: exact)
  InitialFunds,   \* each wallet's USDG at the start
  MaxDonation     \* bound on tokens sent to the contract unasked

Time == 1..MaxTime
Days == {t \div DayLength : t \in Time}

States == {"UNFUNDED", "FUNDED", "ACCEPTED", "SUBMITTED", "DISPUTED",
           "RELEASED", "REFUNDED"}
TermsType == [nonce: Nat, buyer: Wallets, provider: Wallets \cup {ZeroAddress},
              providerOwner: Wallets \cup {ZeroAddress}, amount: Nat,
              acceptBy: 0..MaxUint64, completeBy: 0..MaxUint64,
              reviewPeriod: 0..MaxUint64]
Invocation == [state: States, resultHash: Hashes \cup {NoHash},
               reviewBy: 0..MaxUint64]
SpendingPolicy == [enabled: BOOLEAN, expiresAt: 0..MaxUint64,
                   perTransaction: Nat, perDay: Nat]

ASSUME EscrowAssumption ==
  /\ IsFiniteSet(Wallets) /\ IsFiniteSet(Terms) \* addresses and fields have a width
  /\ Terms \subseteq TermsType
  /\ Policies \subseteq SpendingPolicy
  /\ EscrowAddress \notin Wallets \cup {ZeroAddress} /\ ZeroAddress \notin Wallets
  /\ NoHash \notin Hashes
  /\ MaxPayment \in Nat \ {0} /\ MaxUint64 \in Nat /\ DayLength \in Nat \ {0}
  /\ MaxTime \in 1..MaxUint64
  /\ Fees \subseteq Nat /\ InitialFunds \in Nat /\ MaxDonation \in Nat

VARIABLES
  now,                \* block.timestamp
  paused,             \* Pausable
  resolvers,          \* holders of RESOLVER_ROLE
  invocations,        \* invocations[id], id standing for the terms' hash
  totalObligations,
  spendingPolicies,   \* spendingPolicies[wallet]
  dailySpend,         \* dailySpend[wallet][day]
  balance,            \* the token's balanceOf
  sessionDay          \* history: the day a session funded a payment, which
                      \* the contract does not store and no action reads

settings == <<paused, resolvers>>
session == <<spendingPolicies, dailySpend, sessionDay>>
money == <<totalObligations, balance>>
vars == <<now, settings, invocations, session, money>>

Live(t) == invocations[t].state \in {"FUNDED", "ACCEPTED", "SUBMITTED", "DISPUTED"}
Settled(t) == invocations[t].state \in {"RELEASED", "REFUNDED"}

NoDay == -1   \* not funded by a session
NoPolicy == [enabled |-> FALSE, expiresAt |-> 0, perTransaction |-> 0, perDay |-> 0]
NoInvocation == [state |-> "UNFUNDED", resultHash |-> NoHash, reviewBy |-> 0]

Init ==
  /\ now = 1
  /\ paused = FALSE
  /\ resolvers \in {{r} : r \in Resolvers}
  /\ invocations = [t \in Terms |-> NoInvocation]
  /\ totalObligations = 0
  /\ spendingPolicies = [w \in Wallets |-> NoPolicy]
  /\ dailySpend = [w \in Wallets |-> [d \in Days |-> 0]]
  /\ sessionDay = [t \in Terms |-> NoDay]
  /\ balance = [a \in Wallets \cup {EscrowAddress} |->
                  IF a = EscrowAddress THEN 0 ELSE InitialFunds]

------------------------------------------------------------------------------
(* Time, the administrator's functions and the inherited role table.       *)

Tick == /\ now < MaxTime
        /\ now' = now + 1
        /\ UNCHANGED <<settings, invocations, session, money>>

Pause == /\ ~paused
         /\ paused' = TRUE
         /\ UNCHANGED <<now, resolvers, invocations, session, money>>

Unpause == /\ paused
           /\ paused' = FALSE
           /\ UNCHANGED <<now, resolvers, invocations, session, money>>

GrantResolver(r) == /\ r \notin resolvers
                    /\ resolvers' = resolvers \cup {r}
                    /\ UNCHANGED <<now, paused, invocations, session, money>>

RevokeResolver(r) == /\ r \in resolvers
                     /\ resolvers' = resolvers \ {r}
                     /\ UNCHANGED <<now, paused, invocations, session, money>>

------------------------------------------------------------------------------
(* The token.  The recipient may be credited less than the sender gave     *)
(* (fee); tokens may reach the contract without any call to it.            *)

Transfer(from, to, amount, fee) ==
  /\ fee <= amount
  /\ balance[from] >= amount
  /\ balance' = [balance EXCEPT ![from] = @ - amount, ![to] = @ + (amount - fee)]

Donate(w, amount) ==
  /\ balance[EscrowAddress] + amount <= totalObligations + MaxDonation
  /\ Transfer(w, EscrowAddress, amount, 0)
  /\ UNCHANGED <<now, settings, invocations, session, totalObligations>>

------------------------------------------------------------------------------
(* Spending policy and funding.                                            *)

SoundPolicy(p) == /\ p.expiresAt > now
                  /\ p.perTransaction # 0 /\ p.perDay # 0
                  /\ p.perTransaction <= p.perDay
                  /\ p.perTransaction <= MaxPayment

\* Mutant: a new policy starts the day's spending afresh.
ConfigureSpendingAfresh(sender, p) ==
  /\ p.enabled => SoundPolicy(p)
  /\ spendingPolicies' = [spendingPolicies EXCEPT ![sender] = p]
  /\ dailySpend' = [dailySpend EXCEPT ![sender][now \div DayLength] = 0]
  /\ UNCHANGED <<now, settings, invocations, sessionDay, money>>

ConfigureSpending(sender, p) ==
  /\ p.enabled => SoundPolicy(p)
  /\ spendingPolicies' = [spendingPolicies EXCEPT ![sender] = p]
  /\ UNCHANGED <<now, settings, invocations, dailySpend, sessionDay, money>>

ValidTerms(sender, t) ==
  /\ sender = t.buyer
  /\ t.provider # ZeroAddress /\ t.providerOwner # ZeroAddress
  /\ t.buyer # t.provider /\ t.buyer # t.providerOwner
  /\ t.amount # 0 /\ t.amount <= MaxPayment /\ t.nonce # 0
  /\ t.acceptBy > now /\ t.completeBy > t.acceptBy /\ t.reviewPeriod # 0

\* Mutant: the credited amount is not compared with the promised one.
FundInternalInexact(sender, t) ==
  /\ ValidTerms(sender, t)
  /\ invocations[t].state = "UNFUNDED"
  /\ invocations' = [invocations EXCEPT ![t] = [NoInvocation EXCEPT !.state = "FUNDED"]]
  /\ totalObligations' = totalObligations + t.amount
  /\ \E fee \in Fees : Transfer(t.buyer, EscrowAddress, t.amount, fee)

\* _fund: the deposit must be credited in full (InexactTransfer).
FundInternal(sender, t) ==
  /\ ValidTerms(sender, t)
  /\ invocations[t].state = "UNFUNDED"
  /\ invocations' = [invocations EXCEPT ![t] = [NoInvocation EXCEPT !.state = "FUNDED"]]
  /\ totalObligations' = totalObligations + t.amount
  /\ \E fee \in Fees : Transfer(t.buyer, EscrowAddress, t.amount, fee)
  /\ balance'[EscrowAddress] = balance[EscrowAddress] + t.amount

Fund(sender, t) ==
  /\ ~paused
  /\ FundInternal(sender, t)
  /\ UNCHANGED <<now, settings, session>>

Today == now \div DayLength

\* The session's limits: enabled, unexpired, per transaction and per day.
SpendingAllowed(wallet, amount) ==
  LET p == spendingPolicies[wallet]
  IN  /\ p.enabled
      /\ now < p.expiresAt
      /\ amount <= p.perTransaction
      /\ dailySpend[wallet][Today] + amount <= p.perDay

FundWithSession(sender, t) ==
  /\ ~paused
  /\ SpendingAllowed(sender, t.amount)
  /\ dailySpend' = [dailySpend EXCEPT ![sender][Today] = @ + t.amount]
  /\ FundInternal(sender, t)
  /\ sessionDay' = [sessionDay EXCEPT ![t] = Today]
  /\ UNCHANGED <<now, settings, spendingPolicies>>

------------------------------------------------------------------------------
(* The provider's and the buyer's steps.                                   *)

SetState(t, s) == invocations' = [invocations EXCEPT ![t].state = s]

Accept(sender, t) ==
  /\ ~paused
  /\ invocations[t].state = "FUNDED"
  /\ sender = t.provider
  /\ now <= t.acceptBy
  /\ SetState(t, "ACCEPTED")
  /\ UNCHANGED <<now, settings, session, money>>

\* Mutant: the addition wraps (an unchecked block).
SubmitResultWraps(sender, t, hash) ==
  /\ ~paused /\ sender = t.provider /\ now <= t.completeBy
  /\ invocations[t].state = "ACCEPTED" /\ hash # NoHash
  /\ invocations' = [invocations EXCEPT ![t] =
       [state |-> "SUBMITTED", resultHash |-> hash,
        reviewBy |-> (now + t.reviewPeriod) % (MaxUint64 + 1)]]
  /\ UNCHANGED <<now, settings, session, money>>

\* reviewBy is a checked uint64 addition: an overflow reverts.
SubmitResult(sender, t, hash) ==
  /\ ~paused
  /\ invocations[t].state = "ACCEPTED" /\ hash # NoHash
  /\ sender = t.provider
  /\ now <= t.completeBy
  /\ now + t.reviewPeriod <= MaxUint64
  /\ invocations' = [invocations EXCEPT ![t] =
       [state |-> "SUBMITTED", resultHash |-> hash, reviewBy |-> now + t.reviewPeriod]]
  /\ UNCHANGED <<now, settings, session, money>>

\* _release and _refund: the obligation is dropped (checked subtraction)
\* and the amount leaves the contract.
Settle(t, state, payee) ==
  /\ SetState(t, state)
  /\ totalObligations >= t.amount
  /\ totalObligations' = totalObligations - t.amount
  /\ \E fee \in Fees : Transfer(EscrowAddress, payee, t.amount, fee)

AcceptResult(sender, t) ==
  /\ ~paused
  /\ sender = t.buyer
  /\ invocations[t].state = "SUBMITTED"
  /\ Settle(t, "RELEASED", t.provider)
  /\ UNCHANGED <<now, settings, session>>

\* Anyone may call it.
ReleaseAfterWindow(t) ==
  /\ ~paused
  /\ invocations[t].state = "SUBMITTED"
  /\ now > invocations[t].reviewBy
  /\ Settle(t, "RELEASED", t.provider)
  /\ UNCHANGED <<now, settings, session>>

\* Mutant: a submitted result does not stop the refund.
RefundSubmitted(sender, t) ==
  /\ sender = t.buyer
  /\ \/ invocations[t].state = "FUNDED" /\ now > t.acceptBy
     \/ invocations[t].state \in {"ACCEPTED", "SUBMITTED"} /\ now > t.completeBy
  /\ Settle(t, "REFUNDED", t.buyer)
  /\ UNCHANGED <<now, settings, session>>

\* Deliberately not gated by pause.
Refund(sender, t) ==
  /\ sender = t.buyer
  /\ \/ invocations[t].state = "FUNDED" /\ now > t.acceptBy
     \/ invocations[t].state = "ACCEPTED" /\ now > t.completeBy
  /\ Settle(t, "REFUNDED", t.buyer)
  /\ UNCHANGED <<now, settings, session>>

\* Mutant: the window is not checked.
DisputeLate(sender, t) ==
  /\ sender = t.buyer /\ invocations[t].state = "SUBMITTED"
  /\ SetState(t, "DISPUTED")
  /\ UNCHANGED <<now, settings, session, money>>

Dispute(sender, t) ==
  /\ sender = t.buyer
  /\ invocations[t].state = "SUBMITTED"
  /\ now <= invocations[t].reviewBy
  /\ SetState(t, "DISPUTED")
  /\ UNCHANGED <<now, settings, session, money>>

\* Mutant: the provider is paid either way.
ResolveDisputeToProvider(sender, t, releaseFunds) ==
  /\ sender \in resolvers /\ invocations[t].state = "DISPUTED"
  /\ Settle(t, IF releaseFunds THEN "RELEASED" ELSE "REFUNDED", t.provider)
  /\ UNCHANGED <<now, settings, session>>

\* Mutant: whenNotPaused added.
ResolveDisputeWhenNotPaused(sender, t, releaseFunds) ==
  /\ ~paused /\ sender \in resolvers /\ invocations[t].state = "DISPUTED"
  /\ IF releaseFunds THEN Settle(t, "RELEASED", t.provider)
                     ELSE Settle(t, "REFUNDED", t.buyer)
  /\ UNCHANGED <<now, settings, session>>

ResolveDispute(sender, t, releaseFunds) ==
  /\ sender \in resolvers
  /\ invocations[t].state = "DISPUTED"
  /\ IF releaseFunds THEN Settle(t, "RELEASED", t.provider)
                     ELSE Settle(t, "REFUNDED", t.buyer)
  /\ UNCHANGED <<now, settings, session>>

------------------------------------------------------------------------------

Next ==
  \/ Tick \/ Pause \/ Unpause
  \/ \E r \in Resolvers : GrantResolver(r) \/ RevokeResolver(r)
  \/ \E w \in Wallets :
       \/ \E amount \in 1..MaxDonation : Donate(w, amount)
       \/ \E p \in Policies : ConfigureSpending(w, p)
       \/ \E t \in Terms :
            \/ Fund(w, t) \/ FundWithSession(w, t)
            \/ Accept(w, t) \/ \E hash \in Hashes : SubmitResult(w, t, hash)
            \/ AcceptResult(w, t) \/ Refund(w, t) \/ Dispute(w, t)
  \/ \E t \in Terms : ReleaseAfterWindow(t)
  \/ \E r \in Resolvers, t \in Terms, releaseFunds \in BOOLEAN :
       ResolveDispute(r, t, releaseFunds)

Spec == Init /\ [][Next]_vars

(***************************************************************************)
(* Time passes; a buyer entitled to a refund asks for it; somebody who     *)
(* keeps finding a closed review window releases it (pausing may disable   *)
(* it in between, hence strong fairness), and so does a resolver with a    *)
(* dispute.  Nothing is assumed of the administrator.                      *)
(***************************************************************************)
Fairness ==
  /\ WF_vars(Tick)
  /\ \A t \in Terms :
       /\ WF_vars(Refund(t.buyer, t))
       /\ SF_vars(ReleaseAfterWindow(t))
       /\ SF_vars(\E r \in Resolvers, b \in BOOLEAN : ResolveDispute(r, t, b))

FairSpec == Spec /\ Fairness

------------------------------------------------------------------------------
(* Properties.                                                              *)

TypeOK ==
  /\ now \in Time
  /\ paused \in BOOLEAN
  /\ resolvers \subseteq Resolvers
  /\ invocations \in [Terms -> Invocation]
  /\ totalObligations \in Nat
  /\ spendingPolicies \in [Wallets -> SpendingPolicy]
  /\ dailySpend \in [Wallets -> [Days -> Nat]]
  /\ balance \in [Wallets \cup {EscrowAddress} -> Nat]
  /\ sessionDay \in [Terms -> Days \cup {NoDay}]

Surplus == balance[EscrowAddress] - totalObligations

\* The contract always holds at least what it owes, whatever the token keeps
\* of a transfer and whatever is sent to it unasked ("token balance >=
\* unsettled obligations", _fund's InexactTransfer check).
Solvent == Surplus >= 0

\* The token kept nothing of any transfer and nobody sent the contract anything.
TokenExact ==
  /\ MapThenSumSet(LAMBDA a : balance[a], DOMAIN balance) = Cardinality(Wallets) * InitialFunds
  /\ Surplus = 0

\* As long as the token is exact a wallet's balance is explained by the payments
\* alone: a buyer is out of pocket for what it has live or released, a provider
\* gains exactly what was released to it, each payment once.
EntitlementsExact ==
  TokenExact =>
    \A w \in Wallets :
      balance[w] + MapThenSumSet(LAMBDA t : t.amount,
                     {t \in Terms : t.buyer = w /\ (Live(t) \/ invocations[t].state = "RELEASED")})
        = InitialFunds + MapThenSumSet(LAMBDA t : t.amount,
                     {t \in Terms : t.provider = w /\ invocations[t].state = "RELEASED"})

ReviewClosed(t) == invocations[t].state = "SUBMITTED" /\ now > invocations[t].reviewBy

\* Once a review window has closed undisputed the money is the provider's:
\* neither the buyer nor a resolver can ever get it back.
UndisputedIsFinal ==
  \A t \in Terms :
    [](ReviewClosed(t) => [](invocations[t].state \in {"SUBMITTED", "RELEASED"}))

\* A submitted result binds both sides: whatever is called afterwards, the
\* commitment is not replaced and the review window is not moved.
CommitmentFrozen ==
  [][\A t \in Terms :
       invocations[t].resultHash # NoHash =>
         /\ invocations'[t].resultHash = invocations[t].resultHash
         /\ invocations'[t].reviewBy = invocations[t].reviewBy]_vars

\* The buyer gets its whole review period: a result is never accepted with a
\* reviewBy nearer than the agreed period (the addition cannot wrap).
ReviewPeriodGranted ==
  [][\A t \in Terms :
       (invocations[t].state # "SUBMITTED" /\ invocations'[t].state = "SUBMITTED")
         => invocations'[t].reviewBy - now >= t.reviewPeriod]_vars

AmountOf(S) == MapThenSumSet(LAMBDA t : t.amount, S)

\* What sessions paid for a wallet on a day: the payments themselves, not the
\* contract's counter.
InSession(w, d) == {t \in Terms : t.buyer = w /\ sessionDay[t] = d}

\* Whenever a session funds a payment, all that sessions have paid for that
\* wallet on that day, whatever policies were in force meanwhile and whatever
\* was refunded or settled, is within the daily limit of the policy in force
\* now: replacing, disabling or enabling a policy never refills the day.
SessionWithinLimit ==
  [][\A t \in Terms : sessionDay'[t] # sessionDay[t] =>
       AmountOf(InSession(t.buyer, Today)') <= spendingPolicies[t.buyer].perDay]_vars

Lifecycle == INSTANCE EscrowLifecycle
               WITH Ids <- Terms, phase <- [t \in Terms |-> invocations[t].state]

\* Every call moves a payment along the lifecycle the database enforces too,
\* and settles it at most once.
ImplementsLifecycle == Lifecycle!Spec

\* If the contract is not paused for ever and there is a resolver again and
\* again, every funded payment is settled.
EveryPaymentSettles ==
  ([]<>~paused /\ []<>(resolvers # {})) => \A t \in Terms : Live(t) ~> Settled(t)
==============================================================================
