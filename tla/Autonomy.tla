------------------------------ MODULE Autonomy ------------------------------
(***************************************************************************)
(* AutonomyService: an agent submits action plans, the owner's mandate     *)
(* blocks them, sends them to the owner for approval or lets them run, and *)
(* the spending they will do is reserved against the company's earned      *)
(* capital.  One company; every plan buys something and is known by the    *)
(* idempotency key of its submission.                                      *)
(*                                                                         *)
(* Submissions and approvals read the day's spending and the reservations  *)
(* under the company's lock, in two queries; executions read the mandate,  *)
(* inspect the action, call the payment service and record their result    *)
(* without that lock, one after the other.  The payment service acts once  *)
(* per idempotency key: a plan run again under the same key finds its      *)
(* operation already attempted and throws.                                 *)
(*                                                                         *)
(* pauseAll and the MANUAL mode both stop every plan that spends and are   *)
(* one here; the other controls (risk inspection, circuit breakers, the    *)
(* agent's credential) may refuse at any time.                             *)
(***************************************************************************)
EXTENDS Integers, FiniteSetsExt

CONSTANTS
  Plans,        \* action plans
  Amount,       \* Amount[p]: units plan p spends
  Expiries,     \* times a plan may expire at
  Calls,        \* concurrent calls to the service
  Mandates,     \* what the owner may grant: mode, limits and session expiry
  Capital,      \* verified earned capital
  Retries,      \* which calls are repeated while the plan executes: "submit", "approve"
  Uncertain,    \* whether the payment service's answer can be lost
  DayLength,    \* seconds of a day
  MaxVersion,   \* bound on the mandate's versions
  MaxTime,      \* bound on time
  None

Modes == {"MANUAL", "SUPERVISED", "AUTONOMOUS"}
Time == 0..MaxTime

ASSUME AutonomyAssumption ==
  /\ IsFiniteSet(Plans)
  /\ Amount \in [Plans -> Nat \ {0}]
  /\ Expiries \subseteq Time
  /\ None \notin Calls \cup {"PENDING", "APPROVED", "REJECTED", "EXPIRED", "EXECUTED", "FAILED",
                             "ACTIVE", "CONSUMED", "RELEASED"}
  /\ Mandates \subseteq [mode: Modes, perPurchase: Nat, perDay: Nat, expiresAt: Time]
  /\ Capital \in Nat
  /\ Retries \subseteq {"submit", "approve"}
  /\ Uncertain \in BOOLEAN
  /\ DayLength \in Nat \ {0}
  /\ MaxVersion \in Nat /\ MaxTime \in Nat

VARIABLES
  now,
  mandate,       \* the current mandate, version 0 when there is none
  heartbeat,     \* when the agent's heartbeat expires, 0 when absent or paused
  plans,         \* autonomy_action_plans
  approval,      \* status of the plan's approval
  reservation,   \* status of the plan's spend reservation
  lock,          \* the call that holds the company's row lock
  call,          \* what each concurrent call is doing
  sent,          \* sent[p]: keys under which the payment service acted for p
  effects        \* effects[p]: how often it did

control == <<mandate, heartbeat>>
records == <<plans, approval, reservation>>
world == <<sent, effects>>
vars == <<now, control, records, lock, call, world>>

Statuses == {"none", "BLOCKED", "PENDING_APPROVAL", "REJECTED", "EXPIRED",
             "EXECUTING", "EXECUTED", "FAILED"}
Terminal == {"BLOCKED", "REJECTED", "EXPIRED", "EXECUTED", "FAILED"}
Mandate == [mode: Modes, perPurchase: Nat, perDay: Nat, expiresAt: Time, version: 0..MaxVersion]
NoMandate == [mode |-> "MANUAL", perPurchase |-> 0, perDay |-> 0, expiresAt |-> 0, version |-> 0]
Plan == [status: Statuses, version: 0..MaxVersion, expiresAt: Time, executedAt: Time]
NoPlan == [status |-> "none", version |-> 0, expiresAt |-> 0, executedAt |-> 0]

\* A call: its step, the plan and key it works for, the plans its first sum
\* counted, when its transaction began or its action ended, the heartbeat and
\* the mandate it saw.
Idle == [step |-> "idle"]
Steps == {"submitting", "deciding", "prepared", "inspecting", "checked", "answered", "threw"}

Init ==
  /\ now = 0
  /\ mandate = NoMandate /\ heartbeat = 0
  /\ plans = [p \in Plans |-> NoPlan]
  /\ approval = [p \in Plans |-> None]
  /\ reservation = [p \in Plans |-> None]
  /\ lock = None
  /\ call = [c \in Calls |-> Idle]
  /\ sent = [p \in Plans |-> {}]
  /\ effects = [p \in Plans |-> 0]

------------------------------------------------------------------------------
(* The sums and the controls.                                              *)

Total(S) == MapThenSumSet(LAMBDA p : Amount[p], S)
Day(t) == t \div DayLength

\* dailyExecutedSpend, in a transaction that began at time t.
ExecutedOn(t) == {p \in Plans : plans[p].status = "EXECUTED" /\ Day(plans[p].executedAt) >= Day(t)}
DailyExecutedSpend(t) == Total(ExecutedOn(t))

\* activeReservations, in a transaction that began at time t.
ActiveOn(t) == {p \in Plans : reservation[p] = "ACTIVE" /\ plans[p].expiresAt > t}
ActiveReservations(t) == Total(ActiveOn(t))

HeartbeatCurrent == heartbeat > now

\* mandateDecision for a purchase, with what was already spent that day.
MandateAllows(m, p, dailySpend) ==
  /\ m.version > 0 /\ m.expiresAt > now /\ m.mode # "MANUAL"
  /\ Amount[p] <= m.perPurchase
  /\ dailySpend + Amount[p] <= m.perDay

CompanyUnlocked == lock = None

\* The time is kept that the record of the outcome starts from.
Move(c, step) ==
  call' = [call EXCEPT ![c].step = step, ![c].counted = {}, ![c].seen = NoMandate,
                       ![c].at = IF step \in {"answered", "threw"} THEN now ELSE 0]
End(c) == call' = [call EXCEPT ![c] = Idle]
Start(c, step, p, key, counted, online) ==
  /\ call[c] = Idle
  /\ call' = [call EXCEPT ![c] = [step |-> step, plan |-> p, key |-> key,
                                  counted |-> counted, at |-> now, online |-> online,
                                  seen |-> NoMandate]]

------------------------------------------------------------------------------
(* The owner's and the agent's controls.                                   *)

UpdateMandate(m) ==
  /\ CompanyUnlocked
  /\ mandate.version < MaxVersion
  /\ m.expiresAt > now
  /\ mandate' = [mode |-> m.mode, perPurchase |-> m.perPurchase, perDay |-> m.perDay,
                 expiresAt |-> m.expiresAt, version |-> mandate.version + 1]
  /\ UNCHANGED <<now, heartbeat, records, lock, call, world>>

\* The owner's or the agent's emergency stop.
PauseAutonomy ==
  /\ CompanyUnlocked
  /\ mandate.version \in 1..(MaxVersion - 1)
  /\ mandate' = [mandate EXCEPT !.mode = "MANUAL", !.version = @ + 1]
  /\ UNCHANGED <<now, heartbeat, records, lock, call, world>>

\* A heartbeat is current and within the mandate's session; a paused one
\* (expiry 0) is as good as none.
Heartbeat(t) ==
  /\ mandate.version > 0
  /\ t = 0 \/ (t > now /\ t <= mandate.expiresAt)
  /\ heartbeat' = t
  /\ UNCHANGED <<now, mandate, records, lock, call, world>>

------------------------------------------------------------------------------
(* submitActionPlan.                                                       *)

\* The company is locked; mandate, heartbeat and the day's spending are read.
SubmitBegin(c, p) ==
  /\ CompanyUnlocked
  /\ plans[p].status = "none"
  /\ Start(c, "submitting", p, "submit", ExecutedOn(now), HeartbeatCurrent)
  /\ lock' = c
  /\ UNCHANGED <<now, control, records, world>>

Submitting(c, t) ==
  /\ call[c].step = "submitting"
  /\ t > call[c].at

\* The reservations are read next, and the mandate judges both sums.
Admitted(c) ==
  /\ call[c].online
  /\ MandateAllows(mandate, call[c].plan,
                   Total(call[c].counted) + ActiveReservations(call[c].at))

CapitalCovers(c, other) == Amount[call[c].plan] + Total(call[c].counted) + other <= Capital

NewPlan(c, t, status) ==
  plans' = [plans EXCEPT ![call[c].plan] =
              [status |-> status, version |-> mandate.version, expiresAt |-> t, executedAt |-> 0]]

\* Policy, risk or capital.
SubmitBlocked(c, t) ==
  /\ Submitting(c, t)
  /\ NewPlan(c, t, "BLOCKED")
  /\ lock' = None /\ End(c)
  /\ UNCHANGED <<now, control, approval, reservation, world>>

SubmitPending(c, t) ==
  /\ Submitting(c, t)
  /\ Admitted(c) /\ mandate.mode = "SUPERVISED"
  /\ NewPlan(c, t, "PENDING_APPROVAL")
  /\ approval' = [approval EXCEPT ![call[c].plan] = "PENDING"]
  /\ lock' = None /\ End(c)
  /\ UNCHANGED <<now, control, reservation, world>>

SubmitReserved(c, t) ==
  /\ Submitting(c, t)
  /\ Admitted(c) /\ mandate.mode = "AUTONOMOUS"
  /\ CapitalCovers(c, ActiveReservations(call[c].at))
  /\ NewPlan(c, t, "EXECUTING")
  /\ reservation' = [reservation EXCEPT ![call[c].plan] = "ACTIVE"]
  /\ lock' = None /\ Move(c, "prepared")
  /\ UNCHANGED <<now, control, approval, world>>

\* The same submission again: the stored plan is returned as it stands now and
\* runs, under the submission's key, if it is executing.
Resubmit(c, p) ==
  /\ "submit" \in Retries /\ CompanyUnlocked
  /\ plans[p].status = "EXECUTING" /\ plans[p].expiresAt > now
  /\ Start(c, "prepared", p, "submit", {}, TRUE)
  /\ UNCHANGED <<now, control, records, lock, world>>

------------------------------------------------------------------------------
(* decideActionPlan.                                                       *)

Decidable(p) == CompanyUnlocked /\ approval[p] = "PENDING"

\* Mutant: only the plan is locked, not the company.
ApproveBeginUnlocked(c, p) ==
  /\ Decidable(p) /\ plans[p].expiresAt > now
  /\ Start(c, "deciding", p, "approve", ActiveOn(now), TRUE)
  /\ UNCHANGED <<now, control, records, lock, world>>

\* Plan and company are locked and the reservations read.
ApproveBegin(c, p) ==
  /\ Decidable(p) /\ plans[p].expiresAt > now
  /\ Start(c, "deciding", p, "approve", ActiveOn(now), TRUE)
  /\ lock' = c
  /\ UNCHANGED <<now, control, records, world>>

\* Mutant: only the reservations count, not what was executed that day.
ApproveReservedOnly(c) ==
  /\ call[c].step = "deciding"
  /\ Amount[call[c].plan] + Total(call[c].counted) <= Capital
  /\ plans' = [plans EXCEPT ![call[c].plan].status = "EXECUTING"]
  /\ approval' = [approval EXCEPT ![call[c].plan] = "APPROVED"]
  /\ reservation' = [reservation EXCEPT ![call[c].plan] = "ACTIVE"]
  /\ lock' = None /\ Move(c, "prepared")
  /\ UNCHANGED <<now, control, world>>

\* Then the day's spending: the capital must cover both and the plan.
Approve(c) ==
  /\ call[c].step = "deciding"
  /\ CapitalCovers(c, DailyExecutedSpend(call[c].at))
  /\ plans' = [plans EXCEPT ![call[c].plan].status = "EXECUTING"]
  /\ approval' = [approval EXCEPT ![call[c].plan] = "APPROVED"]
  /\ reservation' = [reservation EXCEPT ![call[c].plan] = "ACTIVE"]
  /\ lock' = None /\ Move(c, "prepared")
  /\ UNCHANGED <<now, control, world>>

ApproveDenied(c) ==
  /\ call[c].step = "deciding"
  /\ ~CapitalCovers(c, DailyExecutedSpend(call[c].at))
  /\ lock' = None /\ End(c)
  /\ UNCHANGED <<now, control, records, world>>

Decide(p, status) ==
  /\ Decidable(p)
  /\ plans' = [plans EXCEPT ![p].status = status]
  /\ approval' = [approval EXCEPT ![p] = status]
  /\ UNCHANGED <<now, control, reservation, lock, call, world>>

Reject(p) == plans[p].expiresAt > now /\ Decide(p, "REJECTED")
DecideExpired(p) == plans[p].expiresAt <= now /\ Decide(p, "EXPIRED")

\* The same approval again, while the plan executes.
Reapprove(c, p) ==
  /\ "approve" \in Retries /\ CompanyUnlocked
  /\ plans[p].status = "EXECUTING" /\ approval[p] = "APPROVED"
  /\ Start(c, "prepared", p, "approve", {}, TRUE)
  /\ UNCHANGED <<now, control, records, lock, world>>

------------------------------------------------------------------------------
(* executePrepared.                                                        *)

\* Mutant: the mandate's version is not compared with the plan's.
CheckAnyVersion(c) ==
  /\ call[c].step = "prepared"
  /\ plans[call[c].plan].expiresAt > now
  /\ HeartbeatCurrent
  /\ call' = [call EXCEPT ![c].step = "inspecting", ![c].seen = mandate]
  /\ UNCHANGED <<now, control, records, lock, world>>

\* Without a lock, and whatever the plan's status is by now: the mandate is
\* read, and must be the one the plan was admitted under.
CheckMandate(c) ==
  /\ call[c].step = "prepared"
  /\ plans[call[c].plan].expiresAt > now
  /\ HeartbeatCurrent
  /\ mandate.version = plans[call[c].plan].version
  /\ call' = [call EXCEPT ![c].step = "inspecting", ![c].seen = mandate]
  /\ UNCHANGED <<now, control, records, lock, world>>

\* After the inspection of the action: the day's spending is read, and the
\* mandate read before judges it.
CheckSpending(c) ==
  /\ call[c].step = "inspecting"
  /\ MandateAllows(call[c].seen, call[c].plan, DailyExecutedSpend(now))
  /\ Move(c, "checked")
  /\ UNCHANGED <<now, control, records, lock, world>>

\* operations.execute takes effect, once per key.
Send(c) ==
  /\ call[c].step = "checked"
  /\ LET p == call[c].plan
     IN  /\ call[c].key \notin sent[p]
         /\ sent' = [sent EXCEPT ![p] = @ \cup {call[c].key}]
         /\ effects' = [effects EXCEPT ![p] = @ + 1]
  /\ Move(c, "answered")
  /\ UNCHANGED <<now, control, records, lock>>

\* A check fails, the service refuses (it always does when it acted under this
\* key before), or its answer is lost.
Throw(c) ==
  /\ \/ call[c].step \in {"prepared", "inspecting", "checked"}
     \/ Uncertain /\ call[c].step = "answered"
  /\ Move(c, "threw")
  /\ UNCHANGED <<now, control, records, lock, world>>

\* Mutant: terminal plans are not immutable.
WritableAlways(p) == TRUE

\* normic_guard_action_plan: a terminal plan cannot be saved again.
Writable(p) == plans[p].status \notin Terminal

\* The clock was read at time t, before the transaction.
FinishPlan(p, status, held, t) ==
  /\ plans' = [plans EXCEPT ![p].status = status, ![p].executedAt = t]
  /\ reservation' = [reservation EXCEPT ![p] = IF @ = "ACTIVE" THEN held ELSE @]
  /\ approval' = [approval EXCEPT ![p] = IF @ = None THEN None ELSE status]

RecordExecuted(c) ==
  /\ call[c].step = "answered" /\ Writable(call[c].plan)
  /\ \E t \in call[c].at..now : FinishPlan(call[c].plan, "EXECUTED", "CONSUMED", t)
  /\ End(c)
  /\ UNCHANGED <<now, control, lock, world>>

RecordRefused(c) ==
  /\ call[c].step = "answered" /\ ~Writable(call[c].plan)
  /\ Move(c, "threw")
  /\ UNCHANGED <<now, control, records, lock, world>>

RecordFailed(c) ==
  /\ call[c].step = "threw" /\ Writable(call[c].plan)
  /\ \E t \in call[c].at..now : FinishPlan(call[c].plan, "FAILED", "RELEASED", t)
  /\ End(c)
  /\ UNCHANGED <<now, control, lock, world>>

FailureRefused(c) ==
  /\ call[c].step = "threw" /\ ~Writable(call[c].plan)
  /\ End(c)
  /\ UNCHANGED <<now, control, records, lock, world>>

\* The process dies: open transactions roll back, the rest stays as it is.
Crash(c) ==
  /\ call[c] # Idle
  /\ End(c)
  /\ lock' = IF lock = c THEN None ELSE lock
  /\ UNCHANGED <<now, control, records, world>>

Tick ==
  /\ now < MaxTime
  /\ now' = now + 1
  /\ UNCHANGED <<control, records, lock, call, world>>

------------------------------------------------------------------------------

Next ==
  \/ Tick \/ PauseAutonomy
  \/ \E m \in Mandates : UpdateMandate(m)
  \/ \E t \in Time : Heartbeat(t)
  \/ \E p \in Plans : Reject(p) \/ DecideExpired(p)
  \/ \E c \in Calls :
       \/ \E p \in Plans : SubmitBegin(c, p) \/ Resubmit(c, p) \/ ApproveBegin(c, p) \/ Reapprove(c, p)
       \/ \E t \in Expiries : SubmitBlocked(c, t) \/ SubmitPending(c, t) \/ SubmitReserved(c, t)
       \/ Approve(c) \/ ApproveDenied(c)
       \/ CheckMandate(c) \/ CheckSpending(c) \/ Send(c) \/ Throw(c)
       \/ RecordExecuted(c) \/ RecordRefused(c) \/ RecordFailed(c) \/ FailureRefused(c)
       \/ Crash(c)

Spec == Init /\ [][Next]_vars

------------------------------------------------------------------------------
(* Properties.                                                             *)

ActiveCall == [step: Steps, plan: Plans, key: {"submit", "approve"}, counted: SUBSET Plans,
               at: Time, online: BOOLEAN, seen: Mandate]

TypeOK ==
  /\ now \in Time
  /\ mandate \in Mandate /\ heartbeat \in Time
  /\ plans \in [Plans -> Plan]
  /\ approval \in [Plans -> {None, "PENDING", "APPROVED", "REJECTED", "EXPIRED", "EXECUTED", "FAILED"}]
  /\ reservation \in [Plans -> {None, "ACTIVE", "CONSUMED", "RELEASED"}]
  /\ lock \in Calls \cup {None}
  /\ call \in [Calls -> ActiveCall \cup {Idle}]
  /\ sent \in [Plans -> SUBSET {"submit", "approve"}]
  /\ effects \in [Plans -> Nat]

HeldFor(status) == CASE status = "EXECUTING" -> "ACTIVE"
                     [] status = "EXECUTED"  -> "CONSUMED"
                     [] status = "FAILED"    -> "RELEASED"
                     [] OTHER                -> None

\* Two executions of one plan, or an execution and a decision, never leave its
\* three records apart: money is held exactly while the plan executes, and an
\* approval, where there is one, says what the plan says.
RecordsAgree ==
  \A p \in Plans :
    /\ reservation[p] = HeldFor(plans[p].status)
    /\ approval[p] \in CASE plans[p].status \in {"none", "BLOCKED"}  -> {None}
                         [] plans[p].status = "PENDING_APPROVAL"     -> {"PENDING"}
                         [] plans[p].status = "EXECUTING"            -> {None, "APPROVED"}
                         [] plans[p].status \in {"EXECUTED", "FAILED"} -> {None, plans[p].status}
                         [] OTHER                                    -> {plans[p].status}

\* What was blocked, rejected, left to expire or not yet decided has no effect,
\* and nothing that could still give it one is under way.
Running(p) == \E c \in Calls : call[c] # Idle /\ call[c].plan = p
                               /\ call[c].step \in {"prepared", "inspecting", "checked", "answered"}
OnlyAllowedPlansAct ==
  \A p \in Plans : (effects[p] > 0 \/ Running(p)) =>
                      plans[p].status \in {"EXECUTING", "EXECUTED", "FAILED"}

\* An action takes effect at most once, however often its submission or its
\* approval is repeated.  It does not hold of a plan run under both keys.
ActsAtMostOnce == \A p \in Plans : effects[p] <= 1

\* A pause or a new mandate stops every plan submitted before for good, whether
\* it still waits for the owner, executes, or is submitted or approved again
\* later, and whatever mandates follow: it takes no effect, and nothing brings it
\* back under the mandate.  The exception is a plan whose call had read the
\* mandate already, while its inspection or the service answers.
PastMandate(p) == \E c \in Calls : call[c] # Idle /\ call[c].plan = p
                                    /\ call[c].step \in {"inspecting", "checked"}
Superseded(p) ==
  plans[p].status # "none" /\ plans[p].version < mandate.version /\ ~PastMandate(p)
SupersededPlansRest ==
  [][\A p \in Plans : Superseded(p) => Superseded(p)' /\ effects'[p] = effects[p]]_vars

\* Plans that hold a reservation never hold more than the capital, let through
\* by the owner or by an autonomous mandate: two decisions never reserve the
\* same units.
CapitalReserved == Total(ActiveOn(now)) <= Capital

\* When the owner approves a plan, the capital covers it with all that is still
\* reserved and all that was executed that day, although the two sums are read
\* one after the other and executions turn reservations into spending meanwhile.
ApprovalsCovered ==
  [][\A p \in Plans : approval[p] = "PENDING" /\ approval'[p] = "APPROVED"
       => Total(ActiveOn(now) \cup ExecutedOn(now))' <= Capital]_vars

\* What autonomous purchases spend in all is covered by earned capital.
SpendingCovered == MapThenSumSet(LAMBDA p : effects[p] * Amount[p], Plans) <= Capital
==============================================================================
