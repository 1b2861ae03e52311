----------------------------- MODULE Operations -----------------------------
(***************************************************************************)
(* FinancialService: how an agent's payment operation is prepared,         *)
(* broadcast and reconciled under the owner's spending policy and session. *)
(* execute is a chain of steps: it reads the operation, marks it           *)
(* 'broadcasting' in one transaction, then in a second one, which holds    *)
(* the company's lock, checks the authorization again, calls the wallet    *)
(* provider and records the outcome; any exception ends in 'unknown'.      *)
(* Between the steps other calls, ingested events and crashes interleave,  *)
(* and each step writes back the copy of the operation read at the start.  *)
(*                                                                         *)
(* One company and one agent; several execute calls may run at once.       *)
(***************************************************************************)
EXTENDS Integers, FiniteSets, FiniteSetsExt

CONSTANTS
  Payments,     \* paid invocations of the company
  Amount,       \* Amount[i] in token units
  Actions,      \* actions the agent prepares
  Events,       \* kinds of finalized event that reach the indexer
  OpIds,        \* operation ids
  Executors,    \* concurrent execute calls
  Limits,       \* maxPerDay the owner may set
  MaxVersion,   \* bound on policy versions
  MaxDay        \* bound on days

AllActions == {"fund", "accept", "submit", "release", "dispute", "refund"}
None == "none"

ASSUME OperationsAssumption ==
  /\ None \notin Executors /\ None \notin OpIds
  /\ Amount \in [Payments -> Nat \ {0}]
  /\ Actions \subseteq AllActions /\ Events \subseteq AllActions
  /\ Limits \subseteq Nat /\ IsFiniteSet(OpIds)
  /\ MaxVersion \in Nat /\ MaxDay \in Nat \ {0}

\* The payment states prepare requires, and the one the event leads to.
Expected == [ fund |-> {"payment_required"}, accept |-> {"FUNDED"}, submit |-> {"ACCEPTED"},
              release |-> {"SUBMITTED"}, dispute |-> {"SUBMITTED"},
              refund |-> {"FUNDED", "ACCEPTED"} ]
Outcome == [ fund |-> "FUNDED", accept |-> "ACCEPTED", submit |-> "SUBMITTED",
             release |-> "RELEASED", dispute |-> "DISPUTED", refund |-> "REFUNDED" ]
\* A resolver's decision releases or refunds a dispute.
Emitted(action) == IF action \in {"release", "refund"} THEN Expected[action] \cup {"DISPUTED"}
                   ELSE Expected[action]

States == {"payment_required", "FUNDED", "ACCEPTED", "SUBMITTED", "DISPUTED", "RELEASED", "REFUNDED"}
Statuses == {"prepared", "broadcasting", "submitted", "unknown", "confirmed", "failed"}

VARIABLES
  day,        \* the current UTC day
  policy,     \* spending_policies: enabled, version, maxPerDay
  session,    \* the unrevoked row of financial_sessions, if any
  grants,     \* policy versions with an unconsumed session authorization
  payment,    \* state of each paid invocation
  ops,        \* payment_operations
  call,       \* how often each operation was submitted to the network
  step,       \* where each execute call stands
  copy,       \* the operation it read when it started
  lock,       \* the execute call holding the company's lock, if any
  reading,    \* per payment, the event an open ingest applies and the operation it read
  reported    \* operations the provider has answered 'failed' for

authority == <<policy, session, grants>>
running == <<step, copy, lock>>
ingesting == <<payment, reading>>
vars == <<day, authority, ingesting, ops, call, running, reported>>

NoSession == [live |-> FALSE, version |-> 0, expired |-> FALSE]
NoOp == [status |-> None]
NoCopy == [id |-> None]
NoEvent == [action |-> None]
Op == [payment: Payments, action: AllActions, status: Statuses, callId: BOOLEAN,
       transaction: BOOLEAN, version: 1..MaxVersion, day: 1..MaxDay]

Init ==
  /\ day = 1
  /\ policy = [enabled |-> FALSE, version |-> 0, maxPerDay |-> 0]
  /\ session = NoSession
  /\ grants = {}
  /\ payment = [i \in Payments |-> "payment_required"]
  /\ ops = [o \in OpIds |-> NoOp]
  /\ call = [o \in OpIds |-> None]
  /\ step = [e \in Executors |-> "idle"]
  /\ copy = [e \in Executors |-> NoCopy]
  /\ lock = None
  /\ reading = [i \in Payments |-> NoEvent]
  /\ reported = {}

Prepared(o) == ops[o] # NoOp
Live(o) == Prepared(o) /\ ops[o].status # "failed"
ActionOperation(i, action) ==
  {o \in OpIds : Live(o) /\ ops[o].payment = i /\ ops[o].action = action}
CompanyUnlocked == lock = None

------------------------------------------------------------------------------
(* The owner: policy, session authorization, revocation.                   *)

UpdatePolicy(enabled, limit) ==
  /\ CompanyUnlocked /\ policy.version < MaxVersion
  /\ policy' = [enabled |-> enabled, version |-> policy.version + 1, maxPerDay |-> limit]
  /\ session' = NoSession
  /\ UNCHANGED <<day, grants, ingesting, ops, call, running, reported>>

PrepareSessionAuthorization ==
  /\ CompanyUnlocked
  /\ policy.enabled /\ ~session.live
  /\ grants' = grants \cup {policy.version}
  /\ UNCHANGED <<day, policy, session, ingesting, ops, call, running, reported>>

\* The wallet's own check: an enabled policy with its own unexpired session.
ValidSession(s) == policy.enabled /\ s.live /\ ~s.expired /\ s.version = policy.version

\* The owner's signature turns an authorization of the current policy into
\* the session, once.
RegisterSession(v) ==
  LET new == [live |-> TRUE, version |-> v, expired |-> FALSE] IN
  /\ CompanyUnlocked
  /\ v \in grants
  /\ ~session.live
  /\ ValidSession(new)
  /\ session' = new
  /\ grants' = grants \ {v}
  /\ UNCHANGED <<day, policy, ingesting, ops, call, running, reported>>

RevokeSession ==
  /\ CompanyUnlocked /\ policy.version \in 1..(MaxVersion - 1)
  /\ policy' = [policy EXCEPT !.enabled = FALSE, !.version = @ + 1]
  /\ session' = NoSession
  /\ UNCHANGED <<day, grants, ingesting, ops, call, running, reported>>

SessionExpires ==
  /\ session.live /\ ~session.expired
  /\ session' = [session EXCEPT !.expired = TRUE]
  /\ UNCHANGED <<day, policy, grants, ingesting, ops, call, running, reported>>

NextDay ==
  /\ day < MaxDay
  /\ day' = day + 1
  /\ UNCHANGED <<authority, ingesting, ops, call, running, reported>>

------------------------------------------------------------------------------
(* prepare.                                                                *)

\* spending admits an operation under the current policy and its session.
Authorized == ValidSession(session)

ReservedOn(d) ==
  MapThenSumSet(LAMBDA o : Amount[ops[o].payment],
                {o \in OpIds : Live(o) /\ ops[o].action = "fund" /\ ops[o].day = d})

\* Mutant: only broadcast operations count against the day.
WithinDailyLimitBroadcast(i, action) ==
  action = "fund" =>
    Amount[i] + MapThenSumSet(LAMBDA o : Amount[ops[o].payment],
                  {o \in OpIds : Live(o) /\ ops[o].action = "fund" /\ ops[o].day = day
                                 /\ ops[o].status # "prepared"}) <= policy.maxPerDay

WithinDailyLimit(i, action) ==
  action = "fund" => ReservedOn(day) + Amount[i] <= policy.maxPerDay

\* Preparing an action again while its operation is still prepared returns
\* that operation as it was, with the policy version and the day it had: no
\* step here.  Any other live operation refuses the call.
Prepare(o, i, action) ==
  /\ CompanyUnlocked /\ reading[i] = NoEvent
  /\ ~Prepared(o) /\ ActionOperation(i, action) = {}
  /\ payment[i] \in Expected[action]
  /\ Authorized
  /\ WithinDailyLimit(i, action)
  /\ ops' = [ops EXCEPT ![o] =
       [payment |-> i, action |-> action, status |-> "prepared", callId |-> FALSE,
        transaction |-> FALSE, version |-> policy.version, day |-> day]]
  /\ UNCHANGED <<day, authority, ingesting, call, running, reported>>

------------------------------------------------------------------------------
(* execute.                                                                *)

\* The operation is read without a lock; its idempotency record does not stop
\* the call, so a retry starts another one.
BeginExecute(e, o) ==
  /\ step[e] = "idle"
  /\ Prepared(o)
  /\ step' = [step EXCEPT ![e] = "read"]
  /\ copy' = [copy EXCEPT ![e] = [id |-> o, op |-> ops[o]]]
  /\ UNCHANGED <<day, authority, ingesting, ops, call, lock, reported>>

\* Mutant: the marker is checked on the copy read before.
MarkCopy(e) ==
  /\ step[e] = "read" /\ CompanyUnlocked
  /\ copy[e].op.status = "prepared" /\ Authorized
  /\ ops' = [ops EXCEPT ![copy[e].id].status = "broadcasting"]
  /\ step' = [step EXCEPT ![e] = "marked"]
  /\ UNCHANGED <<day, authority, ingesting, call, copy, lock, reported>>

\* First transaction: under the row lock, a prepared operation is marked.
Mark(e) ==
  /\ step[e] = "read" /\ CompanyUnlocked
  /\ ops[copy[e].id].status = "prepared" /\ Authorized
  /\ ops' = [ops EXCEPT ![copy[e].id].status = "broadcasting"]
  /\ step' = [step EXCEPT ![e] = "marked"]
  /\ UNCHANGED <<day, authority, ingesting, call, copy, lock, reported>>

\* Refused before the marker (already attempted, denied, simulation failed).
Refuse(e) ==
  /\ step[e] = "read"
  /\ step' = [step EXCEPT ![e] = "idle"]
  /\ copy' = [copy EXCEPT ![e] = NoCopy]
  /\ UNCHANGED <<day, authority, ingesting, ops, call, lock, reported>>

\* Mutant: the second transaction does not lock the company.
AuthorizeUnlocked(e) ==
  /\ step[e] = "marked" /\ CompanyUnlocked
  /\ Authorized /\ policy.version = copy[e].op.version
  /\ step' = [step EXCEPT ![e] = "authorized"]
  /\ UNCHANGED <<day, authority, ingesting, ops, call, copy, lock, reported>>

\* Second transaction: the company's lock, then the same checks, pinned to the
\* policy the operation was prepared under.
Authorize(e) ==
  /\ step[e] = "marked" /\ CompanyUnlocked
  /\ Authorized /\ policy.version = copy[e].op.version
  /\ step' = [step EXCEPT ![e] = "authorized"]
  /\ lock' = e
  /\ UNCHANGED <<day, authority, ingesting, ops, call, copy, reported>>

\* wallets.execute hands the call to the network; a second submission of the
\* same operation would be "twice".
Broadcast(e) ==
  /\ step[e] = "authorized"
  /\ call' = [call EXCEPT ![copy[e].id] = IF @ = None THEN "once" ELSE "twice"]
  /\ step' = [step EXCEPT ![e] = "sent"]
  /\ UNCHANGED <<day, authority, ingesting, ops, copy, lock, reported>>

Finish(e) ==
  /\ step' = [step EXCEPT ![e] = "idle"]
  /\ copy' = [copy EXCEPT ![e] = NoCopy]
  /\ lock' = IF lock = e THEN None ELSE lock

\* The provider answered with a call id: the copy is saved as submitted.
Record(e) ==
  /\ step[e] = "sent"
  /\ ops' = [ops EXCEPT ![copy[e].id] =
               [copy[e].op EXCEPT !.status = "submitted", !.callId = TRUE]]
  /\ Finish(e)
  /\ UNCHANGED <<day, authority, ingesting, call, reported>>

\* Denied after the marker, or an exception before or after the call left:
\* the transaction rolls back and releases the lock ...
Throw(e) ==
  /\ step[e] \in {"marked", "authorized", "sent"}
  /\ step' = [step EXCEPT ![e] = "threw"]
  /\ lock' = IF lock = e THEN None ELSE lock
  /\ UNCHANGED <<day, authority, ingesting, ops, call, copy, reported>>

\* ... and the copy is saved as unknown.
Catch(e) ==
  /\ step[e] = "threw"
  /\ ops' = [ops EXCEPT ![copy[e].id] = [copy[e].op EXCEPT !.status = "unknown"]]
  /\ Finish(e)
  /\ UNCHANGED <<day, authority, ingesting, call, reported>>

\* The process dies: what was not committed is gone, the lock is released.
Crash(e) ==
  /\ step[e] # "idle"
  /\ Finish(e)
  /\ UNCHANGED <<day, authority, ingesting, ops, call, reported>>

------------------------------------------------------------------------------
(* The indexer and reconcileOperation.  Whether the network includes what    *)
(* was submitted is open: events and the provider's answers come either way. *)

\* ingest of a finalized event: caused by this agent's call, by the owner's
\* own wallet, or by the other party (anyone may release after the window).
\* Its transaction holds the payment's row from here on; the operation it
\* will confirm is read without a lock.
ReadEvent(i, action) ==
  /\ reading[i] = NoEvent
  /\ payment[i] \in Emitted(action)
  /\ \E found \in IF ActionOperation(i, action) = {} THEN {NoCopy}
                  ELSE {[id |-> o, op |-> ops[o]] : o \in ActionOperation(i, action)} :
       reading' = [reading EXCEPT ![i] = [action |-> action, found |-> found]]
  /\ UNCHANGED <<day, authority, payment, ops, call, running, reported>>

\* The transaction commits: the payment moves on and the operation read is
\* written back whole, as confirmed, over whatever its row holds by now.
Ingest(i) ==
  LET event == reading[i] IN
  /\ event # NoEvent
  /\ payment' = [payment EXCEPT ![i] = Outcome[event.action]]
  /\ ops' = [o \in OpIds |->
               IF o = event.found.id
               THEN [event.found.op EXCEPT !.status = "confirmed", !.transaction = TRUE]
               ELSE ops[o]]
  /\ reading' = [reading EXCEPT ![i] = NoEvent]
  /\ UNCHANGED <<day, authority, call, running, reported>>

\* The batch rolls back or the indexer dies; the event comes again.
RollBack(i) ==
  /\ reading[i] # NoEvent
  /\ reading' = [reading EXCEPT ![i] = NoEvent]
  /\ UNCHANGED <<day, authority, payment, ops, call, running, reported>>

\* reconcileOperation asks the provider about a call id and is told 'failed':
\* the answer may come before the network has decided, and may be wrong.
ProviderReportsFailed(o) ==
  /\ Prepared(o) /\ ops[o].callId
  /\ reported' = reported \cup {o}
  /\ UNCHANGED <<day, authority, ingesting, ops, call, running>>

\* Then it gives the operation up, in a transaction of its own, unless an
\* event confirmed it.
ReconcileFailed(o) ==
  /\ o \in reported /\ ~ops[o].transaction
  /\ ops' = [ops EXCEPT ![o].status = "failed"]
  /\ UNCHANGED <<day, authority, ingesting, call, running, reported>>

------------------------------------------------------------------------------

Next ==
  \/ \E enabled \in BOOLEAN, limit \in Limits : UpdatePolicy(enabled, limit)
  \/ PrepareSessionAuthorization \/ RevokeSession \/ SessionExpires \/ NextDay
  \/ \E v \in 1..MaxVersion : RegisterSession(v)
  \/ \E o \in OpIds, i \in Payments, action \in Actions : Prepare(o, i, action)
  \/ \E e \in Executors :
       \/ \E o \in OpIds : BeginExecute(e, o)
       \/ Mark(e) \/ Refuse(e) \/ Authorize(e) \/ Broadcast(e) \/ Record(e)
       \/ Throw(e) \/ Catch(e) \/ Crash(e)
  \/ \E o \in OpIds : ProviderReportsFailed(o) \/ ReconcileFailed(o)
  \/ \E i \in Payments : \/ \E action \in Events : ReadEvent(i, action)
                          \/ Ingest(i) \/ RollBack(i)

Spec == Init /\ [][Next]_vars

------------------------------------------------------------------------------
(* Properties.                                                              *)

TypeOK ==
  /\ day \in 1..MaxDay
  /\ policy \in [enabled: BOOLEAN, version: 0..MaxVersion, maxPerDay: Limits \cup {0}]
  /\ session \in [live: BOOLEAN, version: 0..MaxVersion, expired: BOOLEAN]
  /\ grants \subseteq 1..MaxVersion
  /\ payment \in [Payments -> States]
  /\ ops \in [OpIds -> Op \cup {NoOp}]
  /\ call \in [OpIds -> {None, "once", "twice"}]
  /\ step \in [Executors -> {"idle", "read", "marked", "authorized", "sent", "threw"}]
  /\ copy \in [Executors -> [id: OpIds, op: Op] \cup {NoCopy}]
  /\ lock \in Executors \cup {None}
  /\ reading \in [Payments -> [action: AllActions, found: [id: OpIds, op: Op] \cup {NoCopy}]
                                \cup {NoEvent}]
  /\ reported \subseteq OpIds

\* However calls to execute are retried, repeated or interrupted, an operation
\* reaches the network at most once, and an action of a payment is submitted a
\* second time only after the provider reported the other submission failed.
BroadcastAtMostOnce ==
  /\ \A o \in OpIds : call[o] # "twice"
  /\ \A o, other \in OpIds :
       (/\ o # other /\ call[o] # None /\ call[other] # None
        /\ ops[o].payment = ops[other].payment /\ ops[o].action = ops[other].action)
         => o \in reported \/ other \in reported

\* An operation that was handed to the network is never open to execution or
\* preparation again: the committed marker survives every stale write.
SubmittedStaysMarked ==
  \A o \in OpIds : call[o] # None => Prepared(o) /\ ops[o].status # "prepared"

\* Nothing is submitted on a revoked session or under another policy than the
\* one the operation was prepared under, even if the owner changes it while
\* the call to the wallet provider is being made.
BroadcastUnderOwnPolicy ==
  [][\A o \in OpIds : (call[o] = None /\ call'[o] # None) =>
       /\ policy.enabled /\ policy.version = ops[o].version
       /\ session.live /\ session.version = ops[o].version]_vars

\* A session never outlives the policy version the owner signed it for.
SessionPinned ==
  session.live => policy.enabled /\ session.version = policy.version

\* The fundings prepared on a day, but for those the provider reported failed,
\* stay within a limit the owner set: even when an event confirms an operation
\* that was given up while it was being ingested, and whose units prepare has
\* meanwhile granted to another one.
DailyFundingBounded ==
  \A d \in 1..MaxDay :
    LET units == MapThenSumSet(LAMBDA o : Amount[ops[o].payment],
                   {o \in OpIds : Prepared(o) /\ ops[o].action = "fund" /\ ops[o].day = d
                                  /\ o \notin reported})
    IN units # 0 => \E limit \in Limits : units <= limit

\* FINANCIAL_ARCHITECTURE.md: "Confirmed events update operation status."  An
\* operation confirmed by a finalized event stays confirmed.
ConfirmedStaysConfirmed ==
  [][\A o \in OpIds : (Prepared(o) /\ ops[o].status = "confirmed")
                        => ops'[o].status = "confirmed"]_vars
==============================================================================
