--------------------------- MODULE AutonomyProofs ---------------------------
(***************************************************************************)
(* What holds of action plans for every number of plans and of concurrent  *)
(* calls, every mandate and every amount: the records of a plan agree,     *)
(* only admitted and approved plans act, those a new mandate supersedes    *)
(* rest for good, and what is let through is covered by the capital.       *)
(***************************************************************************)
EXTENDS Autonomy, Sums

Acting == {"EXECUTING", "EXECUTED", "FAILED"}
Executions == {"prepared", "inspecting", "checked", "answered", "threw"}

\* What a call may rely on: a decision holds the company's lock and its plan
\* still waits for it; a plan once handed to an execution stays acting.
CallsMatchPlans ==
  \A c \in Calls :
    /\ call[c].step = "submitting" => lock = c /\ plans[call[c].plan].status = "none"
    /\ call[c].step = "deciding"   => lock = c /\ plans[call[c].plan].status = "PENDING_APPROVAL"
    /\ call[c].step \in Executions => plans[call[c].plan].status \in Acting

EffectsAreAllowed == \A p \in Plans : effects[p] > 0 => plans[p].status \in Acting

IInv == TypeOK /\ RecordsAgree /\ CallsMatchPlans /\ EffectsAreAllowed

------------------------------------------------------------------------------
(* Calls.                                                                  *)

\* A call under way is a full record; only an idle one is not.
LEMMA CallIsActive ==
  ASSUME TypeOK, NEW c \in Calls, call[c].step # "idle"
  PROVE  call[c] \in ActiveCall /\ call[c].plan \in Plans
BY DEF TypeOK, ActiveCall, Idle

LEMMA NoMandateTyped == NoMandate \in Mandate /\ 0 \in Time
BY AutonomyAssumption DEF NoMandate, Mandate, Modes, Time

\* Moving a call to another step leaves its plan as it is.
LEMMA MoveKeeps ==
  ASSUME TypeOK, NEW c \in Calls, NEW step \in Steps, call[c].step # "idle", Move(c, step)
  PROVE  /\ call' \in [Calls -> ActiveCall \cup {Idle}]
         /\ call'[c].step = step /\ call'[c].plan = call[c].plan
         /\ call'[c] # Idle
         /\ \A d \in Calls \ {c} : call'[d] = call[d]
<1> DEFINE since == IF step \in {"answered", "threw"} THEN now ELSE 0
<1>1. call[c] \in ActiveCall /\ since \in Time
  BY CallIsActive, NoMandateTyped DEF TypeOK
<1>2. call' = [call EXCEPT ![c] =
                [call[c] EXCEPT !.step = step, !.counted = {}, !.seen = NoMandate, !.at = since]]
  BY DEF Move, TypeOK
<1> HIDE DEF since
<1>3. call'[c] = [call[c] EXCEPT !.step = step, !.counted = {}, !.seen = NoMandate, !.at = since]
  BY <1>2 DEF TypeOK
<1>4. call'[c] \in ActiveCall /\ call'[c].step = step /\ call'[c].plan = call[c].plan
  BY <1>1, <1>3, NoMandateTyped DEF ActiveCall
<1>5. \A d \in Calls \ {c} : call'[d] = call[d]
  BY <1>2 DEF TypeOK
<1>6. call' \in [Calls -> ActiveCall \cup {Idle}]
  BY <1>2, <1>3, <1>4 DEF TypeOK
<1>7. call'[c] # Idle
  BY <1>4 DEF Idle, Steps
<1> QED BY <1>4, <1>5, <1>6, <1>7

\* So does reading the mandate.
LEMMA CheckKeeps ==
  ASSUME TypeOK, NEW c \in Calls, CheckMandate(c)
  PROVE  /\ call' \in [Calls -> ActiveCall \cup {Idle}]
         /\ call'[c].step = "inspecting" /\ call'[c].plan = call[c].plan
         /\ \A d \in Calls \ {c} : call'[d] = call[d]
<1>1. call[c] \in ActiveCall /\ mandate \in Mandate
  BY CallIsActive DEF CheckMandate, TypeOK
<1>2. call' = [call EXCEPT ![c] = [call[c] EXCEPT !.step = "inspecting", !.seen = mandate]]
  BY DEF CheckMandate, TypeOK
<1>3. call'[c] = [call[c] EXCEPT !.step = "inspecting", !.seen = mandate]
  BY <1>2 DEF TypeOK
<1>4. call'[c] \in ActiveCall /\ call'[c].step = "inspecting" /\ call'[c].plan = call[c].plan
  BY <1>1, <1>3 DEF ActiveCall, Steps
<1> QED BY <1>2, <1>3, <1>4 DEF TypeOK

LEMMA EndKeeps ==
  ASSUME TypeOK, NEW c \in Calls, End(c)
  PROVE  /\ call' \in [Calls -> ActiveCall \cup {Idle}]
         /\ call'[c] = Idle /\ call'[c].step = "idle"
         /\ \A d \in Calls \ {c} : call'[d] = call[d]
BY DEF End, TypeOK, Idle

LEMMA StartKeeps ==
  ASSUME TypeOK, NEW c \in Calls, NEW step \in Steps, NEW p \in Plans,
         NEW key \in {"submit", "approve"}, NEW counted \in SUBSET Plans, NEW online \in BOOLEAN,
         Start(c, step, p, key, counted, online)
  PROVE  /\ call' \in [Calls -> ActiveCall \cup {Idle}]
         /\ call[c] = Idle
         /\ call'[c].step = step /\ call'[c].plan = p /\ call'[c] # Idle
         /\ \A d \in Calls \ {c} : call'[d] = call[d]
<1> DEFINE r == [step |-> step, plan |-> p, key |-> key, counted |-> counted, at |-> now,
                 online |-> online, seen |-> NoMandate]
<1>1. r \in ActiveCall
  BY NoMandateTyped DEF TypeOK, ActiveCall
<1>2. call'[c] = r /\ r.step = step /\ r.plan = p
  BY DEF Start, TypeOK
<1>3. r # Idle
  BY <1>2 DEF Idle, Steps
<1> QED BY <1>1, <1>2, <1>3 DEF Start, TypeOK

------------------------------------------------------------------------------
(* The invariant.                                                          *)

LEMMA InitIInv == Init => IInv
<1> SUFFICES ASSUME Init PROVE IInv
  OBVIOUS
<1>1. TypeOK
  BY AutonomyAssumption
     DEF Init, TypeOK, Time, Mandate, NoMandate, Modes, Plan, NoPlan, Statuses, ActiveCall, Idle
<1>2. RecordsAgree
  BY DEF Init, RecordsAgree, HeldFor, NoPlan
<1>3. CallsMatchPlans /\ EffectsAreAllowed
  BY DEF Init, CallsMatchPlans, EffectsAreAllowed, Idle, Executions
<1> QED BY <1>1, <1>2, <1>3 DEF IInv

\* The company's lock is free: no call is submitting or deciding.
LEMMA FreeLock ==
  ASSUME IInv, CompanyUnlocked, NEW c \in Calls
  PROVE  call[c].step \notin {"submitting", "deciding"}
BY AutonomyAssumption DEF IInv, CallsMatchPlans, CompanyUnlocked

\* Steps that write no record and move no execution back.
LEMMA ControlSteps ==
  ASSUME IInv,
         Tick \/ PauseAutonomy \/ (\E m \in Mandates : UpdateMandate(m)) \/ (\E t \in Time : Heartbeat(t))
  PROVE  IInv'
<1>1. UNCHANGED <<records, lock, call, world>>
  BY DEF Tick, PauseAutonomy, UpdateMandate, Heartbeat, world, records
<1>2. TypeOK'
  <2>1. CASE Tick
    BY <2>1, AutonomyAssumption DEF Tick, IInv, TypeOK, Time, control, records, world
  <2>2. CASE PauseAutonomy
    <3>0. mandate \in Mandate /\ mandate.version + 1 \in 0..MaxVersion /\ "MANUAL" \in Modes
      BY <2>2, AutonomyAssumption DEF PauseAutonomy, IInv, TypeOK, Modes, Mandate
    <3>1. mandate' \in Mandate
      BY <2>2, <3>0 DEF PauseAutonomy, Mandate
    <3> QED BY <2>2, <3>1 DEF PauseAutonomy, IInv, TypeOK, records, world
  <2>3. ASSUME NEW m \in Mandates, UpdateMandate(m) PROVE TypeOK'
    <3>1. mandate' \in Mandate
      BY <2>3, AutonomyAssumption DEF UpdateMandate, IInv, TypeOK, Mandate
    <3> QED BY <2>3, <3>1 DEF UpdateMandate, IInv, TypeOK, records, world
  <2>4. ASSUME NEW t \in Time, Heartbeat(t) PROVE TypeOK'
    BY <2>4 DEF Heartbeat, IInv, TypeOK, records, world
  <2> QED BY <2>1, <2>2, <2>3, <2>4
<1>3. RecordsAgree' /\ CallsMatchPlans' /\ EffectsAreAllowed'
  BY <1>1 DEF IInv, RecordsAgree, CallsMatchPlans, EffectsAreAllowed, records, world
<1> QED BY <1>2, <1>3 DEF IInv

\* Steps that only move a call: the records stay, and a call enters a step its
\* plan allows.
LEMMA CallSteps ==
  ASSUME IInv, UNCHANGED <<now, control, records>>,
         NEW c \in Calls,
         call' \in [Calls -> ActiveCall \cup {Idle}],
         \A d \in Calls \ {c} : call'[d] = call[d],
         lock' \in Calls \cup {None},
         \A d \in Calls \ {c} : lock = d => lock' = d,
         call'[c].step \in {"submitting", "deciding"} => lock' = c,
         call'[c].step = "submitting" => plans[call'[c].plan].status = "none",
         call'[c].step = "deciding" => plans[call'[c].plan].status = "PENDING_APPROVAL",
         call'[c].step \in Executions => plans[call'[c].plan].status \in Acting,
         UNCHANGED world
  PROVE  IInv'
<1>1. TypeOK'
  BY DEF IInv, TypeOK, control, records, world
<1>2. RecordsAgree' /\ EffectsAreAllowed'
  BY DEF IInv, RecordsAgree, EffectsAreAllowed, records, world
<1>3. ASSUME NEW d \in Calls
      PROVE  /\ call'[d].step = "submitting" => lock' = d /\ plans'[call'[d].plan].status = "none"
             /\ call'[d].step = "deciding"
                  => lock' = d /\ plans'[call'[d].plan].status = "PENDING_APPROVAL"
             /\ call'[d].step \in Executions => plans'[call'[d].plan].status \in Acting
  <2>1. plans' = plans
    BY DEF records
  <2>2. CASE d = c
    BY <2>1, <2>2
  <2>3. CASE d # c
    BY <2>1, <2>3 DEF IInv, CallsMatchPlans
  <2> QED BY <2>2, <2>3
<1> QED BY <1>1, <1>2, <1>3 DEF IInv, CallsMatchPlans

\* The records of one plan, as a step may leave them.
Agree(status, held, decided) ==
  /\ held = HeldFor(status)
  /\ decided \in CASE status \in {"none", "BLOCKED"}    -> {None}
                    [] status = "PENDING_APPROVAL"       -> {"PENDING"}
                    [] status = "EXECUTING"              -> {None, "APPROVED"}
                    [] status \in {"EXECUTED", "FAILED"} -> {None, status}
                    [] OTHER                             -> {status}

\* A step that writes the records of plan p, and perhaps moves call c, keeps
\* the invariant if it leaves them in agreement, never takes an acting plan
\* back, and no other call was deciding on p.
LEMMA RecordSteps ==
  ASSUME IInv, UNCHANGED <<now, control, world>>,
         NEW p \in Plans, NEW c \in Calls,
         plans' \in [Plans -> Plan],
         approval' \in [Plans -> {None, "PENDING", "APPROVED", "REJECTED", "EXPIRED",
                                 "EXECUTED", "FAILED"}],
         reservation' \in [Plans -> {None, "ACTIVE", "CONSUMED", "RELEASED"}],
         \A q \in Plans \ {p} : /\ plans'[q] = plans[q] /\ approval'[q] = approval[q]
                               /\ reservation'[q] = reservation[q],
         Agree(plans'[p].status, reservation'[p], approval'[p]),
         plans[p].status \in Acting => plans'[p].status \in Acting,
         \/ plans[p].status \in Acting
         \/ \A d \in Calls \ {c} : call[d].step \notin {"submitting", "deciding"},
         call' \in [Calls -> ActiveCall \cup {Idle}],
         \A d \in Calls \ {c} : call'[d] = call[d],
         lock' \in Calls \cup {None},
         \A d \in Calls \ {c} : lock = d /\ call[d].step \in {"submitting", "deciding"} => lock' = d,
         call'[c].step \notin {"submitting", "deciding"},
         call'[c].step \in Executions => call'[c].plan = p /\ plans'[p].status \in Acting
  PROVE  IInv'
<1>1. TypeOK'
  BY DEF IInv, TypeOK, control, world
<1>2. RecordsAgree'
  <2> SUFFICES ASSUME NEW q \in Plans
               PROVE  Agree(plans'[q].status, reservation'[q], approval'[q])
    BY DEF RecordsAgree, Agree
  <2>1. CASE q = p
    BY <2>1
  <2>2. CASE q # p
    <3>1. Agree(plans[q].status, reservation[q], approval[q])
      BY DEF IInv, RecordsAgree, Agree
    <3> QED BY <2>2, <3>1
  <2> QED BY <2>1, <2>2
<1>3. EffectsAreAllowed'
  BY DEF IInv, EffectsAreAllowed, world
<1>4. ASSUME NEW d \in Calls
      PROVE  /\ call'[d].step = "submitting" => lock' = d /\ plans'[call'[d].plan].status = "none"
             /\ call'[d].step = "deciding"
                  => lock' = d /\ plans'[call'[d].plan].status = "PENDING_APPROVAL"
             /\ call'[d].step \in Executions => plans'[call'[d].plan].status \in Acting
  <2>1. CASE d = c
    BY <2>1
  <2>2. CASE d # c /\ call[d].step = "idle"
    BY <2>2 DEF Executions
  <2>3. CASE d # c /\ call[d].step # "idle"
    <3>1. call'[d] = call[d] /\ call[d].plan \in Plans
      BY <2>3, CallIsActive DEF IInv
    <3>2. CASE call[d].plan = p
      BY <2>3, <3>1, <3>2 DEF IInv, CallsMatchPlans, Acting, Executions
    <3>3. CASE call[d].plan # p
      BY <2>3, <3>1, <3>3 DEF IInv, CallsMatchPlans
    <3> QED BY <3>2, <3>3
  <2> QED BY <2>1, <2>2, <2>3
<1> QED BY <1>1, <1>2, <1>3, <1>4 DEF IInv, CallsMatchPlans

\* Writing the status of a plan keeps its type.
LEMMA PlanTyped ==
  ASSUME TypeOK, NEW p \in Plans, NEW status \in Statuses,
         plans' = [plans EXCEPT ![p].status = status]
  PROVE  /\ plans' \in [Plans -> Plan] /\ plans'[p].status = status
         /\ \A q \in Plans \ {p} : plans'[q] = plans[q]
<1>1. [plans[p] EXCEPT !.status = status] \in Plan
  BY DEF TypeOK, Plan
<1>2. plans' = [plans EXCEPT ![p] = [plans[p] EXCEPT !.status = status]]
  OBVIOUS
<1> QED BY <1>1, <1>2 DEF TypeOK, Plan

\* So does writing its status and the time it finished.
LEMMA FinishTyped ==
  ASSUME TypeOK, NEW p \in Plans, NEW status \in Statuses,
         NEW t \in Time, plans' = [plans EXCEPT ![p].status = status, ![p].executedAt = t]
  PROVE  /\ plans' \in [Plans -> Plan] /\ plans'[p].status = status
         /\ \A q \in Plans \ {p} : plans'[q] = plans[q]
<1> DEFINE r == [plans[p] EXCEPT !.status = status, !.executedAt = t]
<1>1. plans[p] \in Plan
  BY DEF TypeOK
<1>2. r \in Plan /\ r.status = status
  BY <1>1 DEF Plan
<1>3. plans' = [plans EXCEPT ![p] = r]
  OBVIOUS
<1> QED BY <1>2, <1>3 DEF TypeOK

\* A plan whose approval is pending still waits for it.
LEMMA PendingPlan ==
  ASSUME IInv, NEW p \in Plans, approval[p] = "PENDING"
  PROVE  plans[p].status = "PENDING_APPROVAL"
<1>1. plans[p].status \in Statuses
  BY DEF IInv, TypeOK, Plan
<1> QED BY <1>1, AutonomyAssumption DEF IInv, RecordsAgree, Statuses

------------------------------------------------------------------------------
(* One step per action.                                                    *)

\* A submission leaves its plan blocked, pending or executing.
LEMMA SubmitSteps ==
  ASSUME IInv, NEW c \in Calls, NEW t \in Expiries,
         SubmitBlocked(c, t) \/ SubmitPending(c, t) \/ SubmitReserved(c, t)
  PROVE  IInv'
<1> DEFINE p == call[c].plan
<1>1. call[c].step = "submitting" /\ TypeOK
  BY DEF SubmitBlocked, SubmitPending, SubmitReserved, Submitting, IInv
<1>2. p \in Plans /\ lock = c /\ plans[p].status = "none"
  BY <1>1, CallIsActive DEF IInv, CallsMatchPlans
<1>3. reservation[p] = None /\ approval[p] = None
  BY <1>2 DEF IInv, RecordsAgree, HeldFor
<1>4. \A d \in Calls \ {c} : call[d].step \notin {"submitting", "deciding"} /\ lock # d
  BY <1>2 DEF IInv, CallsMatchPlans
<1>5. ASSUME NEW status \in Statuses, NewPlan(c, t, status)
      PROVE  /\ plans' \in [Plans -> Plan] /\ plans'[p].status = status
             /\ \A q \in Plans \ {p} : plans'[q] = plans[q]
  <2>1. t \in Time /\ 0 \in Time /\ mandate.version \in 0..MaxVersion
    BY <1>1, AutonomyAssumption DEF TypeOK, Mandate, Time
  <2>2. [status |-> status, version |-> mandate.version, expiresAt |-> t, executedAt |-> 0] \in Plan
    BY <2>1 DEF Plan
  <2> QED BY <1>1, <1>2, <1>5, <2>2 DEF NewPlan, TypeOK
<1>6. CASE SubmitBlocked(c, t)
  <2>1. call' \in [Calls -> ActiveCall \cup {Idle}] /\ call'[c].step = "idle"
        /\ \A d \in Calls \ {c} : call'[d] = call[d]
    BY <1>1, <1>6, EndKeeps DEF SubmitBlocked
  <2>2. plans' \in [Plans -> Plan] /\ plans'[p].status = "BLOCKED"
        /\ \A q \in Plans \ {p} : plans'[q] = plans[q]
    BY <1>5, <1>6 DEF SubmitBlocked, Statuses
  <2>3. Agree(plans'[p].status, reservation'[p], approval'[p])
    BY <1>3, <1>6, <2>2 DEF Agree, HeldFor, SubmitBlocked
  <2>4. approval' = approval /\ reservation' = reservation /\ lock' = None
        /\ UNCHANGED <<now, control, world>>
    BY <1>6 DEF SubmitBlocked
  <2> HIDE DEF p
  <2> QED BY <1>1, <1>2, <1>4, <2>1, <2>2, <2>3, <2>4, RecordSteps DEF TypeOK, Acting, Executions
<1>7. CASE SubmitPending(c, t)
  <2>1. call' \in [Calls -> ActiveCall \cup {Idle}] /\ call'[c].step = "idle"
        /\ \A d \in Calls \ {c} : call'[d] = call[d]
    BY <1>1, <1>7, EndKeeps DEF SubmitPending
  <2>2. plans' \in [Plans -> Plan] /\ plans'[p].status = "PENDING_APPROVAL"
        /\ \A q \in Plans \ {p} : plans'[q] = plans[q]
    BY <1>5, <1>7 DEF SubmitPending, Statuses
  <2>3. approval' = [approval EXCEPT ![p] = "PENDING"] /\ reservation' = reservation /\ lock' = None
        /\ UNCHANGED <<now, control, world>>
    BY <1>7 DEF SubmitPending
  <2>4. Agree(plans'[p].status, reservation'[p], approval'[p])
    BY <1>1, <1>2, <1>3, <2>2, <2>3 DEF Agree, HeldFor, TypeOK
  <2> HIDE DEF p
  <2> QED BY <1>1, <1>2, <1>4, <2>1, <2>2, <2>3, <2>4, RecordSteps DEF TypeOK, Acting, Executions
<1>8. CASE SubmitReserved(c, t)
  <2>1. call' \in [Calls -> ActiveCall \cup {Idle}] /\ call'[c].step = "prepared"
        /\ call'[c].plan = p /\ \A d \in Calls \ {c} : call'[d] = call[d]
    BY <1>1, <1>8, MoveKeeps DEF SubmitReserved, Steps
  <2>2. plans' \in [Plans -> Plan] /\ plans'[p].status = "EXECUTING"
        /\ \A q \in Plans \ {p} : plans'[q] = plans[q]
    BY <1>5, <1>8 DEF SubmitReserved, Statuses
  <2>3. approval' = approval /\ reservation' = [reservation EXCEPT ![p] = "ACTIVE"] /\ lock' = None
        /\ UNCHANGED <<now, control, world>>
    BY <1>8 DEF SubmitReserved
  <2>4. Agree(plans'[p].status, reservation'[p], approval'[p])
    BY <1>1, <1>2, <1>3, <2>2, <2>3 DEF Agree, HeldFor, TypeOK
  <2> HIDE DEF p
  <2> QED BY <1>1, <1>2, <1>4, <2>1, <2>2, <2>3, <2>4, RecordSteps DEF TypeOK, Acting, Executions
<1> QED BY <1>6, <1>7, <1>8

\* A call begins: only under a free lock, on a plan that allows it.
LEMMA StartSteps ==
  ASSUME IInv, NEW c \in Calls, NEW p \in Plans,
         SubmitBegin(c, p) \/ Resubmit(c, p) \/ ApproveBegin(c, p) \/ Reapprove(c, p)
  PROVE  IInv'
<1>1. CompanyUnlocked /\ TypeOK /\ UNCHANGED <<now, control, records>> /\ UNCHANGED world
  BY DEF SubmitBegin, Resubmit, ApproveBegin, Reapprove, Decidable, IInv
<1>2. lock = None /\ \A d \in Calls : lock # d
  BY <1>1, AutonomyAssumption DEF CompanyUnlocked
<1>3. ExecutedOn(now) \in SUBSET Plans /\ ActiveOn(now) \in SUBSET Plans /\ {} \in SUBSET Plans
      /\ HeartbeatCurrent \in BOOLEAN /\ TRUE \in BOOLEAN
  BY DEF ExecutedOn, ActiveOn, HeartbeatCurrent
<1>4. CASE SubmitBegin(c, p)
  <2>1. /\ call' \in [Calls -> ActiveCall \cup {Idle}]
        /\ call'[c].step = "submitting" /\ call'[c].plan = p
        /\ \A d \in Calls \ {c} : call'[d] = call[d]
    BY <1>1, <1>3, <1>4, StartKeeps DEF SubmitBegin, Steps
  <2>2. lock' = c /\ plans[p].status = "none"
    BY <1>4 DEF SubmitBegin
  <2> QED BY <1>1, <1>2, <2>1, <2>2, CallSteps DEF Executions
<1>5. CASE ApproveBegin(c, p)
  <2>1. /\ call' \in [Calls -> ActiveCall \cup {Idle}]
        /\ call'[c].step = "deciding" /\ call'[c].plan = p
        /\ \A d \in Calls \ {c} : call'[d] = call[d]
    BY <1>1, <1>3, <1>5, StartKeeps DEF ApproveBegin, Steps
  <2>2. lock' = c /\ approval[p] = "PENDING"
    BY <1>5 DEF ApproveBegin, Decidable
  <2>3. plans[p].status = "PENDING_APPROVAL"
    BY <2>2, PendingPlan
  <2> QED BY <1>1, <1>2, <2>1, <2>2, <2>3, CallSteps DEF Executions
<1>6. CASE Resubmit(c, p) \/ Reapprove(c, p)
  <2>1. /\ call' \in [Calls -> ActiveCall \cup {Idle}]
        /\ call'[c].step = "prepared" /\ call'[c].plan = p
        /\ \A d \in Calls \ {c} : call'[d] = call[d]
    BY <1>1, <1>3, <1>6, StartKeeps DEF Resubmit, Reapprove, Steps
  <2>2. lock' = lock /\ lock \in Calls \cup {None} /\ plans[p].status = "EXECUTING"
    BY <1>1, <1>6 DEF Resubmit, Reapprove, TypeOK
  <2> QED BY <1>1, <2>1, <2>2, CallSteps DEF Acting, Executions
<1> QED BY <1>4, <1>5, <1>6

\* A call moves on without writing a record.
LEMMA MoveSteps ==
  ASSUME IInv, NEW c \in Calls,
         CheckMandate(c) \/ CheckSpending(c) \/ Throw(c) \/ RecordRefused(c)
  PROVE  IInv'
<1>1. TypeOK /\ call[c].step \in Executions /\ call[c].step # "idle"
      /\ lock' = lock /\ UNCHANGED <<now, control, records>> /\ UNCHANGED world
  BY DEF CheckMandate, CheckSpending, Throw, RecordRefused, Executions, IInv
<1>2. /\ call' \in [Calls -> ActiveCall \cup {Idle}]
      /\ call'[c].step \in Executions /\ call'[c].plan = call[c].plan
      /\ \A d \in Calls \ {c} : call'[d] = call[d]
  <2>1. CASE CheckMandate(c)
    BY <1>1, <2>1, CheckKeeps DEF Executions
  <2>2. CASE CheckSpending(c) \/ Throw(c) \/ RecordRefused(c)
    <3>1. PICK step \in {"checked", "threw"} : Move(c, step)
      BY <2>2 DEF CheckSpending, Throw, RecordRefused
    <3> QED BY <1>1, <3>1, MoveKeeps DEF Steps, Executions
  <2> QED BY <2>1, <2>2
<1>3. plans[call'[c].plan].status \in Acting
  BY <1>1, <1>2 DEF IInv, CallsMatchPlans
<1> QED BY <1>1, <1>2, <1>3, CallSteps DEF TypeOK, Executions

\* A call ends without writing a record.
LEMMA EndSteps ==
  ASSUME IInv, NEW c \in Calls, ApproveDenied(c) \/ FailureRefused(c) \/ Crash(c)
  PROVE  IInv'
<1>1. TypeOK /\ End(c) /\ UNCHANGED <<now, control, records>> /\ UNCHANGED world
  BY DEF ApproveDenied, FailureRefused, Crash, IInv
<1>2. /\ call' \in [Calls -> ActiveCall \cup {Idle}]
      /\ call'[c].step = "idle"
      /\ \A d \in Calls \ {c} : call'[d] = call[d]
  BY <1>1, EndKeeps
<1>3. lock' \in Calls \cup {None} /\ \A d \in Calls \ {c} : lock = d => lock' = d
  BY <1>1 DEF ApproveDenied, FailureRefused, Crash, IInv, CallsMatchPlans, TypeOK
<1> QED BY <1>1, <1>2, <1>3, CallSteps DEF Executions

\* An approval writes all three records of its plan.
LEMMA ApproveStep ==
  ASSUME IInv, NEW c \in Calls, Approve(c)
  PROVE  IInv'
<1> DEFINE p == call[c].plan
<1>1. call[c].step = "deciding" /\ TypeOK
  BY DEF Approve, IInv
<1>2. p \in Plans /\ lock = c /\ plans[p].status = "PENDING_APPROVAL"
  BY <1>1, CallIsActive DEF IInv, CallsMatchPlans
<1>3. \A d \in Calls \ {c} : call[d].step \notin {"submitting", "deciding"} /\ lock # d
  BY <1>2 DEF IInv, CallsMatchPlans
<1>4. /\ call' \in [Calls -> ActiveCall \cup {Idle}] /\ call'[c].step = "prepared"
      /\ call'[c].plan = p /\ \A d \in Calls \ {c} : call'[d] = call[d]
  BY <1>1, MoveKeeps DEF Approve, Steps
<1>5. /\ plans' = [plans EXCEPT ![p].status = "EXECUTING"]
      /\ approval' = [approval EXCEPT ![p] = "APPROVED"]
      /\ reservation' = [reservation EXCEPT ![p] = "ACTIVE"]
      /\ lock' = None /\ UNCHANGED <<now, control, world>>
  BY DEF Approve
<1>6. /\ plans' \in [Plans -> Plan] /\ plans'[p].status = "EXECUTING"
      /\ \A q \in Plans \ {p} : plans'[q] = plans[q]
  BY <1>1, <1>2, <1>5, PlanTyped DEF Statuses
<1>7. Agree(plans'[p].status, reservation'[p], approval'[p])
  BY <1>1, <1>2, <1>5, <1>6 DEF Agree, HeldFor, TypeOK
<1> HIDE DEF p
<1> QED BY <1>1, <1>2, <1>3, <1>4, <1>5, <1>6, <1>7, RecordSteps DEF TypeOK, Acting, Executions

\* The result of an execution.
LEMMA FinishSteps ==
  ASSUME IInv, NEW c \in Calls, RecordExecuted(c) \/ RecordFailed(c)
  PROVE  IInv'
<1> DEFINE p == call[c].plan
<1>1. call[c].step \in Executions /\ call[c].step # "idle" /\ TypeOK
  BY DEF RecordExecuted, RecordFailed, Executions, IInv
<1>2. p \in Plans /\ plans[p].status = "EXECUTING"
  BY <1>1, CallIsActive
     DEF RecordExecuted, RecordFailed, Writable, Terminal, Acting, IInv, CallsMatchPlans
<1>3. reservation[p] = "ACTIVE" /\ approval[p] \in {None, "APPROVED"}
  BY <1>2 DEF IInv, RecordsAgree, HeldFor
<1>4. /\ call' \in [Calls -> ActiveCall \cup {Idle}] /\ call'[c].step = "idle"
      /\ \A d \in Calls \ {c} : call'[d] = call[d]
  BY <1>1, EndKeeps DEF RecordExecuted, RecordFailed
<1>5. PICK status \in {"EXECUTED", "FAILED"}, held \in {"CONSUMED", "RELEASED"},
           t \in call[c].at..now :
        held = HeldFor(status) /\ FinishPlan(p, status, held, t)
  BY DEF RecordExecuted, RecordFailed, HeldFor
<1>t. t \in Time
  <2>1. call[c].at \in Time /\ now \in Time
    BY <1>1, CallIsActive DEF ActiveCall, TypeOK
  <2> QED BY <2>1, AutonomyAssumption DEF Time
<1>6. lock' = lock /\ UNCHANGED <<now, control, world>>
  BY DEF RecordExecuted, RecordFailed
<1>7. /\ plans' \in [Plans -> Plan] /\ plans'[p].status = status
      /\ \A q \in Plans \ {p} : plans'[q] = plans[q]
  BY <1>1, <1>2, <1>5, <1>t, FinishTyped DEF FinishPlan, Statuses
<1>8. /\ reservation' = [reservation EXCEPT ![p] = held]
      /\ approval' = [approval EXCEPT ![p] = IF @ = None THEN None ELSE status]
  BY <1>1, <1>2, <1>3, <1>5 DEF FinishPlan, TypeOK
<1>9. Agree(plans'[p].status, reservation'[p], approval'[p])
  BY <1>1, <1>2, <1>3, <1>5, <1>7, <1>8 DEF Agree, TypeOK
<1> HIDE DEF p
<1> QED BY <1>1, <1>2, <1>4, <1>6, <1>7, <1>8, <1>9, RecordSteps DEF TypeOK, Acting, Executions

\* A rejected or expired plan: nothing runs it, and no decision on it is open.
LEMMA DecideSteps ==
  ASSUME IInv, NEW p \in Plans, NEW status \in {"REJECTED", "EXPIRED"}, Decide(p, status)
  PROVE  IInv'
<1>1. /\ TypeOK /\ CompanyUnlocked /\ approval[p] = "PENDING"
      /\ plans' = [plans EXCEPT ![p].status = status]
      /\ approval' = [approval EXCEPT ![p] = status]
      /\ reservation' = reservation /\ lock' = lock /\ call' = call
      /\ UNCHANGED <<now, control, world>>
  BY DEF Decide, Decidable, IInv
<1>2. plans[p].status = "PENDING_APPROVAL"
  BY <1>1, PendingPlan
<1>3. /\ plans' \in [Plans -> Plan] /\ plans'[p].status = status
      /\ \A q \in Plans \ {p} : plans'[q] = plans[q]
  BY <1>1, PlanTyped DEF Statuses
<1>4. TypeOK'
  BY <1>1, <1>3 DEF TypeOK, control, world
<1>5. RecordsAgree'
  <2> SUFFICES ASSUME NEW q \in Plans
               PROVE  Agree(plans'[q].status, reservation'[q], approval'[q])
    BY DEF RecordsAgree, Agree
  <2>1. Agree(plans[q].status, reservation[q], approval[q])
    BY DEF IInv, RecordsAgree, Agree
  <2>2. CASE q = p
    <3>1. approval'[p] = status /\ reservation'[p] = reservation[p]
      BY <1>1 DEF TypeOK
    <3> QED BY <1>2, <1>3, <2>1, <2>2, <3>1 DEF Agree, HeldFor
  <2>3. CASE q # p
    BY <1>1, <1>3, <2>1, <2>3 DEF TypeOK
  <2> QED BY <2>2, <2>3
<1>6. CallsMatchPlans'
  BY <1>1, <1>2, <1>3, FreeLock, CallIsActive DEF IInv, CallsMatchPlans, Acting, Executions
<1>7. EffectsAreAllowed'
  BY <1>1, <1>2, <1>3 DEF IInv, EffectsAreAllowed, Acting, world
<1> QED BY <1>4, <1>5, <1>6, <1>7 DEF IInv

\* The payment service acts: only for a plan handed to an execution.
LEMMA SendStep ==
  ASSUME IInv, NEW c \in Calls, Send(c)
  PROVE  IInv'
<1> DEFINE p == call[c].plan
<1>1. call[c].step = "checked" /\ TypeOK
      /\ UNCHANGED <<now, control, records, lock>>
  BY DEF Send, IInv
<1>2. p \in Plans /\ plans[p].status \in Acting /\ call[c].key \in {"submit", "approve"}
  BY <1>1, CallIsActive DEF IInv, CallsMatchPlans, ActiveCall, Executions
<1>3. /\ call' \in [Calls -> ActiveCall \cup {Idle}] /\ call'[c].step = "answered"
      /\ call'[c].plan = p /\ \A d \in Calls \ {c} : call'[d] = call[d]
  BY <1>1, MoveKeeps DEF Send, Steps
<1>4. /\ sent' \in [Plans -> SUBSET {"submit", "approve"}]
      /\ effects' \in [Plans -> Nat] /\ \A q \in Plans \ {p} : effects'[q] = effects[q]
  BY <1>1, <1>2 DEF Send, TypeOK
<1>5. TypeOK'
  BY <1>1, <1>3, <1>4 DEF TypeOK, control, records
<1>6. RecordsAgree'
  BY <1>1 DEF IInv, RecordsAgree, records
<1>7. EffectsAreAllowed'
  BY <1>1, <1>2, <1>4 DEF IInv, EffectsAreAllowed, records
<1>8. CallsMatchPlans'
  <2> SUFFICES ASSUME NEW d \in Calls
        PROVE  /\ call'[d].step = "submitting" => lock' = d /\ plans'[call'[d].plan].status = "none"
               /\ call'[d].step = "deciding"
                    => lock' = d /\ plans'[call'[d].plan].status = "PENDING_APPROVAL"
               /\ call'[d].step \in Executions => plans'[call'[d].plan].status \in Acting
    BY DEF CallsMatchPlans
  <2>1. plans' = plans /\ lock' = lock
    BY <1>1 DEF records
  <2>2. CASE d = c
    BY <1>2, <1>3, <2>1, <2>2
  <2>3. CASE d # c
    BY <1>3, <2>1, <2>3 DEF IInv, CallsMatchPlans
  <2> QED BY <2>2, <2>3
<1> QED BY <1>5, <1>6, <1>7, <1>8 DEF IInv

LEMMA NextIInv == IInv /\ [Next]_vars => IInv'
<1> SUFFICES ASSUME IInv, [Next]_vars PROVE IInv'
  OBVIOUS
<1>1. CASE Tick \/ PauseAutonomy \/ (\E m \in Mandates : UpdateMandate(m))
             \/ (\E t \in Time : Heartbeat(t))
  BY <1>1, ControlSteps
<1>2. CASE \E p \in Plans : Reject(p) \/ DecideExpired(p)
  BY <1>2, DecideSteps DEF Reject, DecideExpired
<1>3. ASSUME NEW c \in Calls,
             \E p \in Plans : SubmitBegin(c, p) \/ Resubmit(c, p) \/ ApproveBegin(c, p) \/ Reapprove(c, p)
      PROVE  IInv'
  BY <1>3, StartSteps
<1>4. ASSUME NEW c \in Calls,
             \E t \in Expiries : SubmitBlocked(c, t) \/ SubmitPending(c, t) \/ SubmitReserved(c, t)
      PROVE  IInv'
  BY <1>4, SubmitSteps
<1>5. ASSUME NEW c \in Calls,
             CheckMandate(c) \/ CheckSpending(c) \/ Throw(c) \/ RecordRefused(c)
      PROVE  IInv'
  BY <1>5, MoveSteps
<1>6. ASSUME NEW c \in Calls, ApproveDenied(c) \/ FailureRefused(c) \/ Crash(c) PROVE IInv'
  BY <1>6, EndSteps
<1>7. ASSUME NEW c \in Calls, RecordExecuted(c) \/ RecordFailed(c) PROVE IInv'
  BY <1>7, FinishSteps
<1>8. CASE UNCHANGED vars
  BY <1>8 DEF IInv, TypeOK, RecordsAgree, CallsMatchPlans, EffectsAreAllowed, vars, control,
              records, world
<1> QED BY <1>1, <1>2, <1>3, <1>4, <1>5, <1>6, <1>7, <1>8, ApproveStep, SendStep DEF Next

THEOREM Invariance == Spec => []IInv
BY InitIInv, NextIInv, PTL DEF Spec

------------------------------------------------------------------------------
(* The theorems.                                                           *)

\* Every record of the service keeps its type.
THEOREM TypeCorrect == Spec => []TypeOK
BY Invariance, PTL DEF IInv

\* Plan, approval and reservation agree, whatever decisions and executions of
\* one plan overlap, fail or are cut short.
THEOREM RecordsAlwaysAgree == Spec => []RecordsAgree
BY Invariance, PTL DEF IInv

\* A plan that was blocked, rejected, left to expire or not yet decided has had
\* no effect and is not being executed.
THEOREM OnlyAllowedEverAct == Spec => []OnlyAllowedPlansAct
<1>1. IInv => OnlyAllowedPlansAct
  BY DEF IInv, CallsMatchPlans, EffectsAreAllowed, OnlyAllowedPlansAct, Running, Acting, Executions
<1> QED BY <1>1, Invariance, PTL

------------------------------------------------------------------------------
(* What a step does to one call and to the records of one plan.            *)

LEMMA CallMoves ==
  ASSUME TypeOK, Next, NEW d \in Calls
  PROVE  \/ call'[d] = call[d]
         \/ call'[d].step \in {"idle", "prepared", "answered", "threw"}
         \/ CheckMandate(d) \/ CheckSpending(d)
         \/ \E p \in Plans : SubmitBegin(d, p) \/ ApproveBegin(d, p)
<1>1. ASSUME NEW c \in Calls, End(c)
      PROVE  call'[d] = call[d] \/ call'[d].step = "idle"
  BY <1>1, EndKeeps
<1>2. ASSUME NEW c \in Calls, call[c].step # "idle",
             Move(c, "prepared") \/ Move(c, "answered") \/ Move(c, "threw")
      PROVE  call'[d] = call[d] \/ call'[d].step \in {"prepared", "answered", "threw"}
  BY <1>2, MoveKeeps DEF Steps
<1>3. ASSUME NEW c \in Calls, CheckMandate(c) \/ CheckSpending(c)
      PROVE  call'[d] = call[d] \/ CheckMandate(d) \/ CheckSpending(d)
  <2>1. CASE c = d
    BY <1>3, <2>1
  <2>2. CASE c # d
    BY <1>3, <2>2, CheckKeeps, MoveKeeps DEF CheckSpending, Steps
  <2> QED BY <2>1, <2>2
<1>4. ASSUME NEW c \in Calls, NEW p \in Plans,
             SubmitBegin(c, p) \/ Resubmit(c, p) \/ ApproveBegin(c, p) \/ Reapprove(c, p)
      PROVE  \/ call'[d] = call[d] \/ call'[d].step = "prepared"
             \/ SubmitBegin(d, p) \/ ApproveBegin(d, p)
  <2>1. CASE c = d
    BY <1>4, <2>1 DEF Resubmit, Reapprove, Start, TypeOK
  <2>2. CASE c # d
    BY <1>4, <2>2 DEF SubmitBegin, Resubmit, ApproveBegin, Reapprove, Start, TypeOK
  <2> QED BY <2>1, <2>2
<1>5. ASSUME NEW c \in Calls, NEW t \in Expiries,
             SubmitBlocked(c, t) \/ SubmitPending(c, t) \/ SubmitReserved(c, t)
      PROVE  call'[d] = call[d] \/ call'[d].step \in {"idle", "prepared", "answered", "threw"}
  BY <1>1, <1>2, <1>5 DEF SubmitBlocked, SubmitPending, SubmitReserved, Submitting
<1>6. ASSUME NEW c \in Calls, Approve(c) \/ Send(c) \/ Throw(c) \/ RecordRefused(c)
      PROVE  call'[d] = call[d] \/ call'[d].step \in {"prepared", "answered", "threw"}
  BY <1>2, <1>6 DEF Approve, Send, Throw, RecordRefused
<1>7. ASSUME NEW c \in Calls,
             ApproveDenied(c) \/ RecordExecuted(c) \/ RecordFailed(c) \/ FailureRefused(c) \/ Crash(c)
      PROVE  call'[d] = call[d] \/ call'[d].step = "idle"
  BY <1>1, <1>7 DEF ApproveDenied, RecordExecuted, RecordFailed, FailureRefused, Crash
<1>8. Tick \/ PauseAutonomy \/ (\E m \in Mandates : UpdateMandate(m))
         \/ (\E t \in Time : Heartbeat(t)) \/ (\E p \in Plans : Reject(p) \/ DecideExpired(p))
       => call' = call
  BY DEF Tick, PauseAutonomy, UpdateMandate, Heartbeat, Reject, DecideExpired, Decide
<1> QED BY <1>3, <1>4, <1>5, <1>6, <1>7, <1>8 DEF Next

\* The actions that write the records of plan p.
Writes(p) ==
  \/ \E c \in Calls :
       /\ call[c].plan = p /\ call[c].step # "idle"
       /\ \/ \E t \in Expiries : SubmitBlocked(c, t) \/ SubmitPending(c, t) \/ SubmitReserved(c, t)
          \/ Approve(c) \/ RecordExecuted(c) \/ RecordFailed(c)
  \/ Reject(p) \/ DecideExpired(p)

LEMMA RecordMoves ==
  ASSUME TypeOK, Next, NEW p \in Plans
  PROVE  \/ /\ plans'[p] = plans[p] /\ reservation'[p] = reservation[p]
            /\ approval'[p] = approval[p]
         \/ Writes(p)
<1> DEFINE Same == /\ plans'[p] = plans[p] /\ reservation'[p] = reservation[p]
                   /\ approval'[p] = approval[p]
<1>1. ASSUME NEW c \in Calls, NEW t \in Expiries,
             SubmitBlocked(c, t) \/ SubmitPending(c, t) \/ SubmitReserved(c, t)
      PROVE  Same \/ Writes(p)
  <2>1. CASE call[c].plan = p
    BY <1>1, <2>1 DEF Writes, SubmitBlocked, SubmitPending, SubmitReserved, Submitting
  <2>2. CASE call[c].plan # p
    BY <1>1, <2>2 DEF SubmitBlocked, SubmitPending, SubmitReserved, NewPlan, TypeOK
  <2> QED BY <2>1, <2>2
<1>2. ASSUME NEW c \in Calls, Approve(c) \/ RecordExecuted(c) \/ RecordFailed(c)
      PROVE  Same \/ Writes(p)
  <2>1. CASE call[c].plan = p
    BY <1>2, <2>1 DEF Writes, Approve, RecordExecuted, RecordFailed
  <2>2. CASE call[c].plan # p
    BY <1>2, <2>2 DEF Approve, RecordExecuted, RecordFailed, FinishPlan, TypeOK
  <2> QED BY <2>1, <2>2
<1>3. ASSUME NEW q \in Plans, Reject(q) \/ DecideExpired(q)
      PROVE  Same \/ Writes(p)
  <2>1. CASE q = p
    BY <1>3, <2>1 DEF Writes
  <2>2. CASE q # p
    BY <1>3, <2>2 DEF Reject, DecideExpired, Decide, TypeOK
  <2> QED BY <2>1, <2>2
<1>4. ASSUME NEW c \in Calls,
             \/ \E q \in Plans : SubmitBegin(c, q) \/ Resubmit(c, q) \/ ApproveBegin(c, q)
                                 \/ Reapprove(c, q)
             \/ ApproveDenied(c) \/ CheckMandate(c) \/ CheckSpending(c) \/ Send(c) \/ Throw(c)
             \/ RecordRefused(c) \/ FailureRefused(c) \/ Crash(c)
      PROVE  Same
  BY <1>4 DEF SubmitBegin, Resubmit, ApproveBegin, Reapprove, ApproveDenied, CheckMandate,
              CheckSpending, Send, Throw, RecordRefused, FailureRefused, Crash, records
<1>5. Tick \/ PauseAutonomy \/ (\E m \in Mandates : UpdateMandate(m)) \/ (\E t \in Time : Heartbeat(t))
       => Same
  BY DEF Tick, PauseAutonomy, UpdateMandate, Heartbeat, records
<1> HIDE DEF Same
<1>6. Same \/ Writes(p)
  BY <1>1, <1>2, <1>3, <1>4, <1>5 DEF Next
<1> QED BY <1>6 DEF Same

\* What such an action leaves: the plan keeps version and lifetime once it
\* exists, only an approval or an autonomous submission reserves, and only an
\* approval approves.
LEMMA WritesKeep ==
  ASSUME IInv, NEW p \in Plans, Writes(p)
  PROVE  /\ plans[p].status # "none" => /\ plans'[p].status # "none"
                                        /\ plans'[p].version = plans[p].version
                                        /\ plans'[p].expiresAt = plans[p].expiresAt
         /\ \/ reservation'[p] # "ACTIVE" /\ approval'[p] # "APPROVED"
            \/ \E c \in Calls :
                 call[c].plan = p /\ (Approve(c) \/ \E t \in Expiries : SubmitReserved(c, t))
         /\ \/ approval'[p] # "APPROVED"
            \/ approval[p] # "PENDING"
            \/ \E c \in Calls : call[c].plan = p /\ Approve(c)
<1>0. TypeOK /\ plans[p] \in Plan
  BY DEF IInv, TypeOK
<1>1. ASSUME NEW status, plans' = [plans EXCEPT ![p].status = status]
      PROVE  /\ plans'[p].status = status /\ plans'[p].version = plans[p].version
             /\ plans'[p].expiresAt = plans[p].expiresAt
  <2>1. plans' = [plans EXCEPT ![p] = [plans[p] EXCEPT !.status = status]]
    BY <1>1
  <2> QED BY <1>0, <2>1 DEF TypeOK, Plan
<1>2. ASSUME NEW c \in Calls, NEW t \in Expiries, call[c].plan = p,
             SubmitBlocked(c, t) \/ SubmitPending(c, t) \/ SubmitReserved(c, t)
      PROVE  plans[p].status = "none" /\ approval[p] = None /\ reservation[p] = None
  <2>1. plans[p].status = "none"
    BY <1>2 DEF SubmitBlocked, SubmitPending, SubmitReserved, Submitting, IInv, CallsMatchPlans
  <2> QED BY <2>1 DEF IInv, RecordsAgree, HeldFor
<1>3. ASSUME NEW c \in Calls, NEW t \in Expiries, call[c].plan = p,
             SubmitBlocked(c, t) \/ SubmitPending(c, t)
      PROVE  reservation'[p] # "ACTIVE" /\ approval'[p] # "APPROVED"
  <2>1. approval'[p] \in {None, "PENDING"} /\ reservation'[p] = None
    BY <1>0, <1>2, <1>3 DEF SubmitBlocked, SubmitPending, TypeOK
  <2> QED BY <2>1, AutonomyAssumption
<1>4. ASSUME NEW c \in Calls, call[c].plan = p, call[c].step # "idle",
             RecordExecuted(c) \/ RecordFailed(c)
      PROVE  /\ plans'[p].status # "none" /\ plans'[p].version = plans[p].version
             /\ plans'[p].expiresAt = plans[p].expiresAt
             /\ reservation'[p] # "ACTIVE" /\ approval'[p] # "APPROVED"
  <2>1. PICK status \in {"EXECUTED", "FAILED"}, held \in {"CONSUMED", "RELEASED"},
             t \in call[c].at..now : FinishPlan(p, status, held, t)
    BY <1>4 DEF RecordExecuted, RecordFailed
  <2>2. plans' = [plans EXCEPT ![p] = [plans[p] EXCEPT !.status = status, !.executedAt = t]]
    BY <2>1 DEF FinishPlan
  <2>3. plans'[p].status = status /\ plans'[p].version = plans[p].version
        /\ plans'[p].expiresAt = plans[p].expiresAt
    BY <1>0, <2>2 DEF TypeOK, Plan
  <2>4. reservation'[p] = (IF reservation[p] = "ACTIVE" THEN held ELSE reservation[p])
        /\ approval'[p] = (IF approval[p] = None THEN None ELSE status)
    BY <1>0, <2>1 DEF FinishPlan, TypeOK
  <2> QED BY <2>3, <2>4, AutonomyAssumption
<1>5. ASSUME Reject(p) \/ DecideExpired(p)
      PROVE  /\ plans'[p].status # "none" /\ plans'[p].version = plans[p].version
             /\ plans'[p].expiresAt = plans[p].expiresAt
             /\ reservation'[p] # "ACTIVE" /\ approval'[p] # "APPROVED"
  <2>1. PICK status \in {"REJECTED", "EXPIRED"} : Decide(p, status)
    BY <1>5 DEF Reject, DecideExpired
  <2>2. reservation[p] = None
    BY <2>1, PendingPlan DEF Decide, Decidable, IInv, RecordsAgree, HeldFor
  <2> QED BY <1>0, <1>1, <2>1, <2>2, AutonomyAssumption DEF Decide, TypeOK
<1>6. ASSUME NEW c \in Calls, call[c].plan = p, Approve(c)
      PROVE  /\ plans'[p].status # "none" /\ plans'[p].version = plans[p].version
             /\ plans'[p].expiresAt = plans[p].expiresAt
  BY <1>1, <1>6 DEF Approve
<1>7. CASE \E c \in Calls, t \in Expiries :
             call[c].plan = p /\ (SubmitBlocked(c, t) \/ SubmitPending(c, t) \/ SubmitReserved(c, t))
  BY <1>2, <1>3, <1>7, AutonomyAssumption
<1>8. CASE \E c \in Calls : call[c].plan = p /\ call[c].step # "idle"
                            /\ (RecordExecuted(c) \/ RecordFailed(c))
  BY <1>4, <1>8
<1>9. CASE \E c \in Calls : call[c].plan = p /\ Approve(c)
  BY <1>6, <1>9
<1> QED BY <1>5, <1>7, <1>8, <1>9 DEF Writes

------------------------------------------------------------------------------
(* Plans a new mandate supersedes.                                         *)

\* The service acts only by Send.
LEMMA WorldMoves ==
  ASSUME Next, sent' # sent \/ effects' # effects
  PROVE  \E c \in Calls : Send(c)
<1>1. ASSUME NEW c \in Calls, NEW q \in Plans,
             SubmitBegin(c, q) \/ Resubmit(c, q) \/ ApproveBegin(c, q) \/ Reapprove(c, q)
      PROVE  FALSE
  BY <1>1 DEF SubmitBegin, Resubmit, ApproveBegin, Reapprove, world
<1>2. ASSUME NEW c \in Calls, NEW t \in Expiries,
             SubmitBlocked(c, t) \/ SubmitPending(c, t) \/ SubmitReserved(c, t)
      PROVE  FALSE
  BY <1>2 DEF SubmitBlocked, SubmitPending, SubmitReserved, world
<1>3. ASSUME NEW c \in Calls,
             \/ Approve(c) \/ ApproveDenied(c) \/ CheckMandate(c) \/ CheckSpending(c) \/ Throw(c)
              \/ RecordExecuted(c)
             \/ RecordRefused(c) \/ RecordFailed(c) \/ FailureRefused(c) \/ Crash(c)
      PROVE  FALSE
  BY <1>3 DEF Approve, ApproveDenied, CheckMandate, CheckSpending, Throw, RecordExecuted, RecordRefused, RecordFailed,
              FailureRefused, Crash, world
<1>4. ASSUME Tick \/ PauseAutonomy \/ (\E m \in Mandates : UpdateMandate(m))
               \/ (\E t \in Time : Heartbeat(t)) \/ (\E p \in Plans : Reject(p) \/ DecideExpired(p))
      PROVE  FALSE
  BY <1>4 DEF Tick, PauseAutonomy, UpdateMandate, Heartbeat, Reject, DecideExpired, Decide, world
<1> QED BY <1>1, <1>2, <1>3, <1>4 DEF Next

\* Versions of the mandate only grow.
LEMMA MandatesGrow ==
  ASSUME TypeOK, Next
  PROVE  mandate'.version \in Int /\ mandate.version <= mandate'.version
<1>0. mandate \in Mandate /\ mandate.version \in Int
  BY DEF TypeOK, Mandate
<1>1. CASE PauseAutonomy
  <2> PICK old \in Mandate : old = mandate
    BY <1>0
  <2>1. mandate' = [old EXCEPT !.mode = "MANUAL", !.version = @ + 1]
    BY <1>1 DEF PauseAutonomy
  <2>2. mandate'.version = old.version + 1
    BY <2>1 DEF Mandate
  <2> QED BY <1>0, <2>2
<1>2. ASSUME NEW m \in Mandates, UpdateMandate(m)
      PROVE  mandate'.version = mandate.version + 1
  BY <1>2 DEF UpdateMandate
<1>3. \/ mandate' = mandate
      \/ PauseAutonomy \/ \E m \in Mandates : UpdateMandate(m)
  BY DEF Next, Tick, Heartbeat, Reject, DecideExpired, Decide, SubmitBegin, Resubmit,
         ApproveBegin, Reapprove, SubmitBlocked, SubmitPending, SubmitReserved, Approve,
         ApproveDenied, CheckMandate, CheckSpending, Send, Throw, RecordExecuted, RecordRefused,
         RecordFailed, FailureRefused, Crash, control
<1> QED BY <1>0, <1>1, <1>2, <1>3

LEMMA SupersededStays ==
  ASSUME IInv, [Next]_vars, NEW p \in Plans, Superseded(p)
  PROVE  Superseded(p)' /\ effects'[p] = effects[p]
<1>0. TypeOK
  BY DEF IInv
<1>1. CASE UNCHANGED vars
  BY <1>1 DEF Superseded, PastMandate, vars, control, records, world
<1>2. CASE Next
  <2>1. plans[p].version \in Int /\ mandate.version \in Int
    BY <1>0 DEF TypeOK, Plan, Mandate
  <2>2. plans'[p].status # "none" /\ plans'[p].version < mandate'.version
    <3>1. plans'[p].status # "none" /\ plans'[p].version = plans[p].version
      BY <1>0, <1>2, RecordMoves, WritesKeep DEF Superseded
    <3> QED BY <1>0, <1>2, <2>1, <3>1, MandatesGrow DEF Superseded
  <2>3. ~PastMandate(p)'
    <3> SUFFICES ASSUME NEW d \in Calls, call'[d] # Idle, call'[d].plan = p,
                        call'[d].step \in {"inspecting", "checked"}
                 PROVE  FALSE
      BY DEF PastMandate
    <3>1. CASE call'[d] = call[d]
      BY <3>1 DEF Superseded, PastMandate
    <3>2. CASE CheckMandate(d)
      <4>1. call[d].plan = p /\ mandate.version = plans[call[d].plan].version
        BY <1>0, <3>2, CheckKeeps DEF CheckMandate
      <4> QED BY <2>1, <4>1 DEF Superseded
    <3>3. CASE CheckSpending(d)
      <4>1. call[d].step = "inspecting" /\ call[d].plan = p
        BY <1>0, <3>3, MoveKeeps DEF CheckSpending, Steps
      <4> QED BY <4>1 DEF Superseded, PastMandate, Idle
    <3>4. CASE \E q \in Plans : SubmitBegin(d, q) \/ ApproveBegin(d, q)
      BY <1>0, <3>4 DEF SubmitBegin, ApproveBegin, Start, TypeOK
    <3> QED BY <1>0, <1>2, <3>1, <3>2, <3>3, <3>4, CallMoves
  <2>4. effects'[p] = effects[p]
    <3>1. CASE effects' # effects
      <4>1. PICK c \in Calls : Send(c)
        BY <1>2, <3>1, WorldMoves
      <4>2. p # call[c].plan
        BY <4>1 DEF Send, Superseded, PastMandate, Idle
      <4> QED BY <1>0, <4>1, <4>2 DEF Send, TypeOK
    <3> QED BY <3>1
  <2> QED BY <2>2, <2>3, <2>4 DEF Superseded
<1> QED BY <1>1, <1>2

\* A pause or a new mandate stops every plan submitted before it for good, on
\* whichever way it would come to execution, unless its call had read the
\* mandate already.
THEOREM NewMandateStopsThem == Spec => SupersededPlansRest
<1>1. IInv /\ [Next]_vars =>
        [\A p \in Plans : Superseded(p) => Superseded(p)' /\ effects'[p] = effects[p]]_vars
  BY SupersededStays
<1> QED BY <1>1, Invariance, PTL DEF Spec, SupersededPlansRest

------------------------------------------------------------------------------
(* What the plans may spend.                                               *)

\* A submission or decision began in the past, and a decision has counted every
\* plan that still holds a reservation.
ReservationsSeen ==
  \A c \in Calls :
    /\ call[c].step \in {"submitting", "deciding"} => call[c].at <= now
    /\ call[c].step = "deciding" =>
         \A p \in Plans : reservation[p] = "ACTIVE" /\ plans[p].expiresAt > call[c].at
                            => p \in call[c].counted

CapitalInv == ReservationsSeen /\ CapitalReserved

LEMMA Totals ==
  ASSUME AutonomyAssumption, NEW A \in SUBSET Plans, NEW B \in SUBSET Plans
  PROVE  /\ Total(A) \in Nat
         /\ A \subseteq B => Total(A) <= Total(B)
         /\ Total(A \cup B) <= Total(A) + Total(B)
<1>1. \A S \in SUBSET Plans : Total(S) = SumOver(Amount, S)
  BY DEF Total, SumOver
<1>2. IsFiniteSet(A) /\ IsFiniteSet(B) /\ \A p \in Plans : Amount[p] \in Nat
  BY FS_Subset DEF AutonomyAssumption
<1>3. SumOver(Amount, A) \in Nat
  BY <1>2, SumNatural
<1>4. A \subseteq B => SumOver(Amount, A) <= SumOver(Amount, B)
  BY <1>2, SumPart
<1>5. SumOver(Amount, A \cup B) <= SumOver(Amount, A) + SumOver(Amount, B)
  BY <1>2, SumUnion DEF AutonomyAssumption
<1> QED BY <1>1, <1>3, <1>4, <1>5

LEMMA TotalOne ==
  ASSUME AutonomyAssumption, NEW p \in Plans
  PROVE  Total({p}) = Amount[p]
<1>1. Total({p}) = SumOver(Amount, {p})
  BY DEF Total, SumOver
<1>2. SumOver(Amount, {p}) = SumOver(Amount, {}) + Amount[p]
  <2>1. IsFiniteSet({}) /\ {} \cup {p} = {p} /\ p \notin {} /\ \A x \in {} \cup {p} : Amount[x] \in Int
    BY FS_EmptySet DEF AutonomyAssumption
  <2> QED BY <2>1, SumAdd
<1> QED BY <1>1, <1>2, SumEmpty DEF AutonomyAssumption

\* Two sets that the capital covers together with one plan.
LEMMA TotalsFit ==
  ASSUME AutonomyAssumption, NEW A \in SUBSET Plans, NEW B \in SUBSET Plans, NEW p \in Plans,
         NEW S \in SUBSET Plans, S \subseteq A \cup B \cup {p},
         Amount[p] + Total(A) + Total(B) <= Capital
  PROVE  Total(S) <= Capital
<1>1. A \cup B \in SUBSET Plans /\ {p} \in SUBSET Plans /\ A \cup B \cup {p} \in SUBSET Plans
  OBVIOUS
<1>2. Total(S) <= Total(A \cup B \cup {p}) /\ Total(S) \in Nat /\ Total(A \cup B \cup {p}) \in Nat
  BY <1>1, Totals
<1>3. Total(A \cup B \cup {p}) <= Total(A \cup B) + Total({p}) /\ Total(A \cup B) \in Nat
  BY <1>1, Totals
<1>4. Total(A \cup B) <= Total(A) + Total(B) /\ Total(A) \in Nat /\ Total(B) \in Nat
  BY <1>1, Totals
<1>5. Total({p}) = Amount[p] /\ Amount[p] \in Nat /\ Capital \in Nat
  BY TotalOne DEF AutonomyAssumption
<1> QED BY <1>2, <1>3, <1>4, <1>5

LEMMA Times ==
  ASSUME TypeOK, NEW p \in Plans
  PROVE  /\ now \in Nat /\ plans[p].expiresAt \in Nat /\ plans[p].executedAt \in Nat
         /\ \A c \in Calls : call[c].step # "idle" => call[c].at \in Nat
<1>1. \A c \in Calls : call[c].step # "idle" => call[c].at \in Time
  BY CallIsActive DEF ActiveCall
<1> QED BY <1>1, AutonomyAssumption DEF TypeOK, Plan, Time

LEMMA TimePasses ==
  ASSUME TypeOK, Next
  PROVE  now \in Nat /\ now' \in Nat /\ now <= now'
<1>1. now \in Nat
  BY AutonomyAssumption DEF TypeOK, Time
<1>2. now' = now \/ now' = now + 1
  BY DEF Next, Tick, PauseAutonomy, UpdateMandate, Heartbeat, Reject, DecideExpired, Decide,
         SubmitBegin, Resubmit, ApproveBegin, Reapprove, SubmitBlocked, SubmitPending,
         SubmitReserved, Approve, ApproveDenied, CheckMandate, CheckSpending, Send, Throw,
         RecordExecuted, RecordRefused, RecordFailed, FailureRefused, Crash
<1> QED BY <1>1, <1>2

\* Only approvals and autonomous submissions, which hold the lock, reserve.
Reserving == \E c \in Calls : Approve(c) \/ \E t \in Expiries : SubmitReserved(c, t)

LEMMA ActiveStays ==
  ASSUME IInv, Next, NEW p \in Plans, reservation'[p] = "ACTIVE"
  PROVE  \/ reservation[p] = "ACTIVE" /\ plans'[p].expiresAt = plans[p].expiresAt
         \/ \E c \in Calls :
              call[c].plan = p /\ (Approve(c) \/ \E t \in Expiries : SubmitReserved(c, t))
BY RecordMoves, WritesKeep DEF IInv

LEMMA SeenStays ==
  ASSUME IInv, IInv', Next, ReservationsSeen
  PROVE  ReservationsSeen'
<1>0. TypeOK /\ TypeOK'
  BY DEF IInv
<1> SUFFICES ASSUME NEW d \in Calls, call'[d].step \in {"submitting", "deciding"}
             PROVE  /\ call'[d].at <= now'
                    /\ call'[d].step = "deciding" =>
                         \A p \in Plans : reservation'[p] = "ACTIVE"
                                            /\ plans'[p].expiresAt > call'[d].at
                                            => p \in call'[d].counted
  BY DEF ReservationsSeen
<1>1. now \in Nat /\ now' \in Nat /\ now <= now'
  BY <1>0, TimePasses
<1>2. CASE call'[d] = call[d]
  <2>1. call[d].at \in Nat
    <3>1. call[d].at \in Time
      BY <1>0, <1>2, CallIsActive DEF ActiveCall
    <3> QED BY <3>1, AutonomyAssumption DEF Time
  <2>2. call'[d].at <= now'
    BY <1>1, <1>2, <2>1 DEF ReservationsSeen
  <2>3. ASSUME NEW p \in Plans, call'[d].step = "deciding", reservation'[p] = "ACTIVE",
               plans'[p].expiresAt > call'[d].at
        PROVE  p \in call'[d].counted
    <3>1. lock = d /\ lock' = d
      BY <1>2, <2>3 DEF IInv, CallsMatchPlans
    <3>2. ~Reserving
      BY <3>1, AutonomyAssumption DEF Reserving, Approve, SubmitReserved
    <3>3. reservation[p] = "ACTIVE" /\ plans'[p].expiresAt = plans[p].expiresAt
      BY <2>3, <3>2, ActiveStays DEF Reserving
    <3> QED BY <1>2, <2>3, <3>3 DEF ReservationsSeen
  <2> QED BY <2>2, <2>3
<1>3. ASSUME NEW p \in Plans, SubmitBegin(d, p) \/ ApproveBegin(d, p)
      PROVE  /\ call'[d].at = now /\ UNCHANGED <<now, records>>
             /\ call'[d].step = "deciding" => call'[d].counted = ActiveOn(now)
  BY <1>0, <1>3 DEF SubmitBegin, ApproveBegin, Start, TypeOK
<1>4. CASE \E p \in Plans : SubmitBegin(d, p) \/ ApproveBegin(d, p)
  BY <1>1, <1>3, <1>4 DEF ActiveOn, records
<1>5. CASE CheckMandate(d) \/ CheckSpending(d)
  BY <1>0, <1>5, CheckKeeps, MoveKeeps DEF CheckSpending, Steps
<1> QED BY <1>0, <1>2, <1>4, <1>5, CallMoves

\* What an approval leaves reserved and executed that day, it has counted.
LEMMA ApproveCovers ==
  ASSUME IInv, ReservationsSeen, NEW c \in Calls, Approve(c)
  PROVE  Total(ActiveOn(now) \cup ExecutedOn(now))' <= Capital
<1> DEFINE p == call[c].plan
           counted == call[c].counted
           at == call[c].at
           S == ActiveOn(now) \cup ExecutedOn(now)
<1>1. call[c].step = "deciding" /\ TypeOK
  BY DEF Approve, IInv
<1>2. p \in Plans /\ counted \in SUBSET Plans /\ at \in Nat /\ now \in Nat /\ at <= now
  <2>1. call[c] \in ActiveCall /\ call[c].plan \in Plans
    BY <1>1, CallIsActive
  <2>2. at \in Nat /\ now \in Nat
    BY <1>1, <2>1, Times
  <2> QED BY <1>1, <2>1, <2>2 DEF ActiveCall, ReservationsSeen
<1>3. /\ now' = now /\ plans'[p].status = "EXECUTING"
      /\ \A q \in Plans \ {p} : plans'[q] = plans[q] /\ reservation'[q] = reservation[q]
  BY <1>1, <1>2 DEF Approve, TypeOK, Plan
<1>4. S' \subseteq counted \cup ExecutedOn(at) \cup {p}
  <2> SUFFICES ASSUME NEW q \in S', q # p PROVE q \in counted \cup ExecutedOn(at)
    OBVIOUS
  <2>1. q \in Plans /\ plans'[q] = plans[q] /\ reservation'[q] = reservation[q]
    BY <1>3 DEF ActiveOn, ExecutedOn
  <2>2. plans[q].expiresAt \in Nat /\ plans[q].executedAt \in Nat
    BY <1>1, <2>1, Times
  <2>3. CASE q \in ActiveOn(now)'
    BY <1>1, <1>2, <1>3, <2>1, <2>2, <2>3 DEF ActiveOn, ReservationsSeen
  <2>4. CASE q \in ExecutedOn(now)'
    <3>1. plans[q].status = "EXECUTED" /\ Day(plans[q].executedAt) >= Day(now)
      BY <1>3, <2>1, <2>4 DEF ExecutedOn, Day
    <3>2. DayLength \in Nat \ {0}
      BY AutonomyAssumption
    <3>3. /\ Day(at) \in Int /\ Day(now) \in Int /\ Day(at) <= Day(now)
          /\ Day(plans[q].executedAt) \in Int
      BY <1>2, <2>2, <3>2, DaysPass DEF Day
    <3>4. Day(plans[q].executedAt) >= Day(at)
      BY <3>1, <3>3
    <3> QED BY <2>1, <3>1, <3>4 DEF ExecutedOn
  <2> QED BY <2>3, <2>4
<1>5. ExecutedOn(at) \in SUBSET Plans /\ S' \in SUBSET Plans
  BY DEF ExecutedOn, ActiveOn
<1>6. Amount[p] + Total(counted) + Total(ExecutedOn(at)) <= Capital
  BY DEF Approve, CapitalCovers, DailyExecutedSpend
<1> HIDE DEF p, counted, at, S
<1>7. Total(S') <= Capital
  BY <1>2, <1>4, <1>5, <1>6, TotalsFit, AutonomyAssumption
<1> QED BY <1>7 DEF S

\* An autonomous submission has summed all reservations, and adds its own.
LEMMA SubmitCovers ==
  ASSUME IInv, ReservationsSeen, NEW c \in Calls, NEW t \in Expiries, SubmitReserved(c, t)
  PROVE  CapitalReserved'
<1> DEFINE p == call[c].plan
           counted == call[c].counted
           at == call[c].at
           S == ActiveOn(now)
<1>1. call[c].step = "submitting" /\ TypeOK
  BY DEF SubmitReserved, Submitting, IInv
<1>2. p \in Plans /\ counted \in SUBSET Plans /\ at \in Nat /\ now \in Nat /\ at <= now
  <2>1. call[c] \in ActiveCall /\ call[c].plan \in Plans
    BY <1>1, CallIsActive
  <2>2. at \in Nat /\ now \in Nat
    BY <1>1, <2>1, Times
  <2> QED BY <1>1, <2>1, <2>2 DEF ActiveCall, ReservationsSeen
<1>3. /\ now' = now
      /\ \A q \in Plans \ {p} : plans'[q] = plans[q] /\ reservation'[q] = reservation[q]
  BY <1>1, <1>2 DEF SubmitReserved, NewPlan, TypeOK
<1>4. S' \subseteq counted \cup ActiveOn(at) \cup {p}
  <2> SUFFICES ASSUME NEW q \in S', q # p PROVE q \in ActiveOn(at)
    OBVIOUS
  <2>1. /\ q \in Plans /\ reservation[q] = "ACTIVE" /\ plans[q].expiresAt > now
    BY <1>3 DEF ActiveOn
  <2>2. plans[q].expiresAt \in Nat
    BY <1>1, <2>1, Times
  <2> QED BY <1>2, <2>1, <2>2 DEF ActiveOn
<1>5. ActiveOn(at) \in SUBSET Plans /\ S' \in SUBSET Plans
  BY DEF ActiveOn
<1>6. Amount[p] + Total(counted) + Total(ActiveOn(at)) <= Capital
  BY DEF SubmitReserved, CapitalCovers, ActiveReservations
<1> HIDE DEF p, counted, at
<1>7. Total(S') <= Capital
  BY <1>2, <1>4, <1>5, <1>6, TotalsFit, AutonomyAssumption
<1> QED BY <1>7 DEF CapitalReserved

LEMMA CapitalKept ==
  ASSUME IInv, IInv', CapitalInv, [Next]_vars
  PROVE  CapitalInv'
<1>1. CASE UNCHANGED vars
  BY <1>1 DEF CapitalInv, ReservationsSeen, CapitalReserved, ActiveOn, vars, records
<1>2. CASE Next
  <2>0. TypeOK /\ TypeOK' /\ ReservationsSeen'
    BY <1>2, SeenStays DEF CapitalInv, IInv
  <2>1. CASE ~Reserving
    <3> DEFINE S == ActiveOn(now)
    <3>1. S' \subseteq S
      <4> SUFFICES ASSUME NEW q \in S' PROVE q \in S
        OBVIOUS
      <4>1. q \in Plans /\ reservation'[q] = "ACTIVE" /\ plans'[q].expiresAt > now'
        BY DEF ActiveOn
      <4>2. reservation[q] = "ACTIVE" /\ plans'[q].expiresAt = plans[q].expiresAt
        BY <1>2, <2>1, <4>1, ActiveStays DEF Reserving
      <4>3. now \in Nat /\ now' \in Nat /\ now <= now' /\ plans[q].expiresAt \in Nat
        BY <1>2, <2>0, <4>1, TimePasses, Times
      <4> QED BY <4>1, <4>2, <4>3 DEF ActiveOn
    <3>2. S \in SUBSET Plans /\ S' \in SUBSET Plans
      BY DEF ActiveOn
    <3>3. Total(S) <= Capital
      BY DEF CapitalInv, CapitalReserved
    <3> HIDE DEF S
    <3>4. Total(S') <= Capital
      <4>1. Total(S') <= Total(S) /\ Total(S') \in Nat /\ Total(S) \in Nat
        BY <3>1, <3>2, Totals, AutonomyAssumption
      <4> QED BY <3>3, <4>1, AutonomyAssumption
    <3> QED BY <2>0, <3>4 DEF CapitalInv, CapitalReserved, S
  <2>2. ASSUME NEW c \in Calls, Approve(c) PROVE CapitalReserved'
    <3> DEFINE S == ActiveOn(now)
               T == ActiveOn(now) \cup ExecutedOn(now)
    <3>1. S' \subseteq T' /\ S' \in SUBSET Plans /\ T' \in SUBSET Plans
      BY DEF ActiveOn, ExecutedOn
    <3>2. Total(T') <= Capital
      BY <2>2, ApproveCovers DEF CapitalInv
    <3> HIDE DEF S, T
    <3>3. Total(S') <= Total(T') /\ Total(S') \in Nat /\ Total(T') \in Nat
      BY <3>1, Totals, AutonomyAssumption
    <3>4. Total(S') <= Capital
      BY <3>2, <3>3, AutonomyAssumption
    <3> QED BY <3>4 DEF CapitalReserved, S
  <2> QED BY <2>0, <2>1, <2>2, SubmitCovers DEF CapitalInv, Reserving
<1> QED BY <1>1, <1>2

LEMMA CapitalInvariance == Spec => []CapitalInv
<1>1. Init => CapitalInv
  <2> SUFFICES ASSUME Init PROVE CapitalInv
    OBVIOUS
  <2>1. ActiveOn(now) = {}
    BY AutonomyAssumption DEF Init, ActiveOn
  <2>2. Total({}) = 0
    <3>1. Total({}) = SumOver(Amount, {})
      BY DEF Total, SumOver
    <3> QED BY <3>1, SumEmpty
  <2>3. CapitalReserved
    BY <2>1, <2>2, AutonomyAssumption DEF CapitalReserved
  <2> QED BY <2>3 DEF Init, CapitalInv, ReservationsSeen, Idle
<1> QED BY <1>1, CapitalKept, Invariance, PTL DEF Spec

\* Whatever submissions, decisions and executions overlap and whatever mandates
\* follow, the plans that hold a reservation are covered by the capital.
THEOREM CapitalIsReserved == Spec => []CapitalReserved
BY CapitalInvariance, PTL DEF CapitalInv

\* And an approval is covered together with what was executed that day.  An
\* autonomous submission counts in the other order and may miss a plan that
\* moves from one sum to the other (AutonomyConcurrent.cfg).
THEOREM ApprovalsAreCovered == Spec => ApprovalsCovered
<1> DEFINE Covered == \A p \in Plans :
                        approval[p] = "PENDING" /\ approval'[p] = "APPROVED"
                          => Total(ActiveOn(now) \cup ExecutedOn(now))' <= Capital
<1>1. IInv /\ CapitalInv /\ [Next]_vars => [Covered]_vars
  <2> SUFFICES ASSUME IInv, CapitalInv, Next, NEW p \in Plans,
                      approval[p] = "PENDING", approval'[p] = "APPROVED"
               PROVE  Total(ActiveOn(now) \cup ExecutedOn(now))' <= Capital
    BY DEF Covered
  <2>1. PICK c \in Calls : Approve(c)
    BY RecordMoves, WritesKeep DEF IInv
  <2> QED BY <2>1, ApproveCovers DEF CapitalInv
<1> HIDE DEF Covered
<1>2. Spec => [][Covered]_vars
  BY <1>1, Invariance, CapitalInvariance, PTL DEF Spec
<1> QED BY <1>2 DEF ApprovalsCovered, Covered
=============================================================================
