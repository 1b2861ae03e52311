----------------------------- MODULE JobsProofs -----------------------------
(***************************************************************************)
(* What holds of free service jobs for every number of agents, services,   *)
(* jobs, keys and concurrent calls: the two rows of a job agree, a request *)
(* takes effect once under its key, and is agreed on current terms.        *)
(***************************************************************************)
EXTENDS Jobs, FiniteSetTheorems, TLAPS

HoldsService(c) == call[c].step = "locked" /\ call[c].request.op \in {"update", "request"}
HoldsJob(c) == call[c].step = "locked" /\ call[c].request.op \in JobOps

\* Until a job ends, its status says which dates it has: so a copy of an
\* invocation with the status of the row has the dates of the row.
DatesOf(row) ==
  /\ row.status \in {"none", "created"} => row.dates = {}
  /\ row.status = "accepted" => row.dates = {"accepted"}
  /\ row.status = "processing" => row.dates = {"accepted", "processing"}

DatesFollowStatus ==
  /\ \A j \in Jobs : DatesOf(invocation[j])
  /\ \A c \in Calls : DatesOf(call[c].invocation)

\* A row lock has one holder, and what the holder read is what the row is.
JobLocks ==
  /\ \A c \in Calls : call[c].step = "read" =>
       call[c].request.op = "cancel" /\ call[c].invocation.status \in {"created", "accepted"}
  /\ \A c \in Calls : HoldsJob(c) =>
       LET j == call[c].request.target IN
       /\ invocation[j].status \in {"created", "accepted", "processing"}
       /\ call[c].invocation.status = invocation[j].status
       /\ call[c].invocation.dates = invocation[j].dates
  /\ \A c, d \in Calls :
       HoldsJob(c) /\ HoldsJob(d) /\ call[c].request.target = call[d].request.target => c = d

\* A service may be created after a call that found none has locked nothing.
ServiceLocks ==
  /\ \A c \in Calls : HoldsService(c) =>
       call[c].service \in {service[call[c].request.target], NoService}
  /\ \A c, d \in Calls :
       HoldsService(c) /\ HoldsService(d) /\ call[c].request.target = call[d].request.target => c = d

\* Before a job is requested there is no row of it, but there may be a status.
RowsExist == \A j \in Jobs : invocation[j].status = "none" => invocation[j] = NoInvocation

\* One open transaction may hold the claim of a key that has no record yet.
ClaimsHeld ==
  /\ \A c \in Calls : HoldsClaim(c) => claims[Record(call[c].request)] = None
  /\ \A c, d \in Calls :
       HoldsClaim(c) /\ HoldsClaim(d) /\ Record(call[c].request) = Record(call[d].request) => c = d

\* What the record of a key says has happened under it.
AnswersRecorded ==
  /\ \A k \in Records : claims[k] = None => audit[k] = 0
  /\ \A k \in Records : claims[k] # None => audit[k] = 1 /\ Record(claims[k].request) = k
  /\ \A r \in Requests : answers[r] \subseteq
       {a \in View : claims[Record(r)] = [request |-> r, answer |-> a]}

IInv ==
  /\ TypeOK
  /\ RowsAgree /\ RowsExist /\ DatesFollowStatus /\ JobLocks
  /\ ServiceLocks
  /\ ClaimsHeld /\ AnswersRecorded

------------------------------------------------------------------------------
(* Requests, calls and keys.                                               *)

LEMMA RequestTyped ==
  ASSUME NEW r \in Requests
  PROVE  /\ r.op \in JobOps \cup ServiceOps /\ r.agent \in Agents
         /\ r.op \in JobOps => r.target \in Jobs
         /\ r.op \in ServiceOps => r.target \in Services
         /\ r.op \in {"create", "update"} => r.offer \in Offers
         /\ Record(r) \in Records
         /\ r # None
<1>1. \/ r \in [agent: Agents, op: JobOps, key: STRING, target: Jobs]
      \/ r \in [agent: Agents, op: {"request"}, key: STRING, target: Services]
      \/ r \in [agent: Agents, op: {"create", "update"}, key: STRING, target: Services, offer: Offers]
  BY JobsAssumption
<1>2. r # None /\ Record(r) \in Records
  BY JobsAssumption DEF Records
<1> QED BY <1>1, <1>2 DEF JobOps, ProviderOps, ServiceOps

LEMMA CallTyped ==
  ASSUME TypeOK, NEW c \in Calls
  PROVE  /\ call[c] \in CallRecord
         /\ call[c].step # "idle" => call[c].request \in Requests
BY DEF TypeOK, CallRecord

LEMMA IdleTyped == Idle \in CallRecord /\ Idle.step = "idle" /\ Idle.request = None
BY DEF Idle, CallRecord, Steps, NoService, NoInvocation, Service, Invocation, ServiceStatuses, JobStatuses, Dates

\* One call moves.
LEMMA OneCall ==
  ASSUME TypeOK, NEW c \in Calls, NEW r \in CallRecord, call' = [call EXCEPT ![c] = r],
         r.step = "idle" <=> r.request = None
  PROVE  /\ call' \in [Calls -> CallRecord]
         /\ \A d \in Calls : call'[d].step = "idle" <=> call'[d].request = None
         /\ call'[c] = r /\ \A d \in Calls \ {c} : call'[d] = call[d]
BY DEF TypeOK

\* A call that moves, or begins or ends, and writes no row: it may take what no
\* other call holds, and must have read what is there.
LEMMA CallSteps ==
  ASSUME IInv, UNCHANGED <<rows, claims, audit>>,
         answers' \in [Requests -> SUBSET View], AnswersRecorded',
         NEW c \in Calls, NEW r \in CallRecord, call' = [call EXCEPT ![c] = r],
         r.step = "idle" <=> r.request = None,
         DatesOf(r.invocation),
         r.step = "read" =>
           r.request.op = "cancel" /\ r.invocation.status \in {"created", "accepted"},
         r.step = "locked" /\ r.request.op \in JobOps =>
           /\ invocation[r.request.target].status \in {"created", "accepted", "processing"}
           /\ r.invocation.status = invocation[r.request.target].status
           /\ r.invocation.dates = invocation[r.request.target].dates
           /\ \A d \in Calls : HoldsJob(d) => call[d].request.target # r.request.target,
         r.step = "locked" /\ r.request.op \in {"update", "request"} =>
           /\ r.service = service[r.request.target]
           /\ \A d \in Calls : HoldsService(d) => call[d].request.target # r.request.target,
         r.step \in {"claimed", "read", "locked"} =>
           /\ claims[Record(r.request)] = None
           /\ \A d \in Calls \ {c} : HoldsClaim(d) => Record(call[d].request) # Record(r.request)
  PROVE  IInv'
<1>1. UNCHANGED <<service, invocation, job, results, claims, audit>>
  BY DEF rows
<1>2. /\ call' \in [Calls -> CallRecord]
      /\ \A d \in Calls : call'[d].step = "idle" <=> call'[d].request = None
      /\ call'[c] = r /\ \A d \in Calls \ {c} : call'[d] = call[d]
  BY OneCall DEF IInv
<1>3. TypeOK'
  BY <1>1, <1>2 DEF IInv, TypeOK
<1>4. RowsAgree' /\ RowsExist'
  BY <1>1 DEF IInv, RowsAgree, RowsExist
<1>5. DatesFollowStatus'
  BY <1>1, <1>2 DEF IInv, DatesFollowStatus, DatesOf
<1>6. JobLocks'
  BY <1>1, <1>2 DEF IInv, JobLocks, HoldsJob
<1>7. ServiceLocks'
  BY <1>1, <1>2 DEF IInv, ServiceLocks, HoldsService
<1>8. ClaimsHeld'
  BY <1>1, <1>2 DEF IInv, ClaimsHeld, HoldsClaim
<1> QED BY <1>3, <1>4, <1>5, <1>6, <1>7, <1>8 DEF IInv

\* The commit of a call: its key gets its one record, and nobody else holds it.
LEMMA Commits ==
  ASSUME IInv, NEW c \in Calls, HoldsClaim(c), NEW answer \in View, CompleteIdempotency(c, answer)
  PROVE  /\ claims' \in IdempotencyRecords /\ audit' \in AuditEvents
         /\ answers' \in [Requests -> SUBSET View]
         /\ call' \in [Calls -> CallRecord]
         /\ \A d \in Calls : call'[d].step = "idle" <=> call'[d].request = None
         /\ call'[c] = Idle /\ \A d \in Calls \ {c} : call'[d] = call[d]
         /\ ClaimsHeld' /\ AnswersRecorded'
<1> DEFINE r == call[c].request
           k == Record(r)
           row == [request |-> r, answer |-> answer]
<1>1. TypeOK /\ r \in Requests /\ k \in Records
  BY CallTyped, RequestTyped DEF IInv, HoldsClaim
<1>2. /\ claims' = [claims EXCEPT ![k] = row] /\ audit' = [audit EXCEPT ![k] = @ + 1]
      /\ answers' = [answers EXCEPT ![r] = @ \cup {answer}] /\ call' = [call EXCEPT ![c] = Idle]
  BY DEF CompleteIdempotency, End
<1>3. row \in Claim /\ row # None /\ row.request = r
  BY <1>1, NoneIsNoClaim DEF Claim
<1>4. claims[k] = None /\ audit[k] = 0
  BY <1>1 DEF IInv, ClaimsHeld, AnswersRecorded
<1>5. ASSUME NEW q \in Requests, Record(q) = k PROVE answers[q] = {}
  <2> SUFFICES ASSUME NEW a \in answers[q] PROVE FALSE
    OBVIOUS
  <2>1. a \in View /\ claims[k] = [request |-> q, answer |-> a]
    BY <1>5 DEF IInv, AnswersRecorded
  <2>2. claims[k] \in Claim
    BY <2>1 DEF Claim
  <2> QED BY <1>4, <2>2, NoneIsNoClaim
<1>6. claims' \in IdempotencyRecords /\ audit' \in AuditEvents /\ answers' \in [Requests -> SUBSET View]
  BY <1>1, <1>2, <1>3 DEF TypeOK, IdempotencyRecords, AuditEvents
<1>7. /\ call' \in [Calls -> CallRecord]
      /\ \A d \in Calls : call'[d].step = "idle" <=> call'[d].request = None
      /\ call'[c] = Idle /\ \A d \in Calls \ {c} : call'[d] = call[d]
  BY <1>1, <1>2, IdleTyped, OneCall
<1> HIDE DEF row
<1>8. /\ claims'[k] = row /\ \A i \in Records \ {k} : claims'[i] = claims[i]
      /\ audit'[k] = 1 /\ \A i \in Records \ {k} : audit'[i] = audit[i]
      /\ answers'[r] = {answer} /\ \A q \in Requests \ {r} : answers'[q] = answers[q]
  BY <1>1, <1>2, <1>4, <1>5 DEF TypeOK, IdempotencyRecords, AuditEvents
<1>9. ClaimsHeld'
  <2>1. ASSUME NEW d \in Calls, HoldsClaim(d)'
        PROVE  d # c /\ HoldsClaim(d) /\ call'[d] = call[d] /\ Record(call[d].request) \in Records \ {k}
    <3>1. d # c /\ call'[d] = call[d] /\ HoldsClaim(d)
      BY <1>7, <2>1, IdleTyped DEF HoldsClaim
    <3>2. Record(call[d].request) \in Records
      BY <1>1, <3>1, CallTyped, RequestTyped DEF HoldsClaim
    <3>3. Record(call[d].request) # k
      BY <3>1 DEF IInv, ClaimsHeld
    <3> QED BY <3>1, <3>2, <3>3
  <2> HIDE DEF k
  <2> QED BY <1>8, <2>1 DEF ClaimsHeld, IInv
<1>10. AnswersRecorded'
  <2>1. ASSUME NEW i \in Records
        PROVE  /\ claims'[i] = None => audit'[i] = 0
               /\ claims'[i] # None => audit'[i] = 1 /\ Record(claims'[i].request) = i
    <3>1. CASE i = k
      BY <1>3, <1>8, <3>1
    <3>2. CASE i # k
      BY <1>8, <3>2 DEF IInv, AnswersRecorded
    <3> QED BY <3>1, <3>2
  <2>2. ASSUME NEW q \in Requests
        PROVE  answers'[q] \subseteq {a \in View : claims'[Record(q)] = [request |-> q, answer |-> a]}
    <3>0. Record(q) \in Records
      BY RequestTyped
    <3>1. CASE q = r
      BY <1>8, <3>1 DEF row
    <3>2. CASE q # r /\ Record(q) = k
      BY <1>5, <1>8, <3>2
    <3>3. CASE Record(q) # k
      BY <1>8, <3>0, <3>3 DEF IInv, AnswersRecorded
    <3> QED BY <3>1, <3>2, <3>3
  <2> QED BY <2>1, <2>2 DEF AnswersRecorded
<1> QED BY <1>6, <1>7, <1>9, <1>10

------------------------------------------------------------------------------
(* The steps.                                                              *)

LEMMA InitIInv == Init => IInv
<1> SUFFICES ASSUME Init PROVE IInv
  OBVIOUS
<1>1. NoService \in Service /\ NoInvocation \in Invocation /\ NoJob \in Job
  BY DEF NoService, NoInvocation, NoJob, Service, Invocation, Job, ServiceStatuses, JobStatuses, Dates
<1>2. TypeOK
  BY <1>1, IdleTyped
     DEF Init, TypeOK, ServiceRows, InvocationRows, JobRows, ResultRows, IdempotencyRecords, AuditEvents
<1>3. RowsAgree /\ RowsExist
  BY DEF Init, RowsAgree, RowsExist, NoJob, NoInvocation
<1>4. \A c \in Calls : call[c].step = "idle"
  BY IdleTyped DEF Init
<1>5. DatesFollowStatus
  BY DEF Init, DatesFollowStatus, DatesOf, NoInvocation, Idle
<1>6. JobLocks /\ ServiceLocks /\ ClaimsHeld
  BY <1>4 DEF JobLocks, ServiceLocks, ClaimsHeld, HoldsJob, HoldsService, HoldsClaim
<1>7. AnswersRecorded
  BY DEF Init, AnswersRecorded
<1> QED BY <1>2, <1>3, <1>5, <1>6, <1>7 DEF IInv

LEMMA AnswersUnchanged ==
  ASSUME IInv, UNCHANGED <<claims, history>>
  PROVE  answers' \in [Requests -> SUBSET View] /\ AnswersRecorded' /\ audit' = audit
BY DEF IInv, TypeOK, AnswersRecorded, history

LEMMA CallStep ==
  ASSUME IInv, NEW c \in Calls, NEW q \in Requests, Call(c, q)
  PROVE  IInv'
<1> DEFINE r == [Idle EXCEPT !.step = "calling", !.request = q]
<1>1. call' = [call EXCEPT ![c] = r] /\ UNCHANGED <<rows, claims, history>>
  BY DEF Call
<1>2. r \in CallRecord /\ r.step = "calling" /\ r.request # None /\ r.invocation = NoInvocation
  BY IdleTyped, RequestTyped DEF CallRecord, Steps, Idle
<1>3. DatesOf(r.invocation)
  BY <1>2 DEF DatesOf, NoInvocation
<1> HIDE DEF r
<1> QED BY <1>1, <1>2, <1>3, AnswersUnchanged, CallSteps

LEMMA ClaimStep ==
  ASSUME IInv, NEW c \in Calls, ClaimIdempotency(c)
  PROVE  IInv'
<1> DEFINE r == [call[c] EXCEPT !.step = "claimed"]
<1>1. call' = [call EXCEPT ![c] = r] /\ UNCHANGED <<rows, claims, history>> /\ call[c].step = "calling"
  BY DEF ClaimIdempotency
<1>2. call[c] \in CallRecord /\ call[c].request \in Requests
  BY <1>1, CallTyped DEF IInv
<1>3. /\ r \in CallRecord /\ r.step = "claimed" /\ r.request = call[c].request /\ r.request # None
      /\ r.invocation = call[c].invocation
  BY <1>2, RequestTyped DEF CallRecord, Steps
<1>4. DatesOf(r.invocation)
  BY <1>3 DEF IInv, DatesFollowStatus
<1>5. /\ claims[Record(r.request)] = None
      /\ \A d \in Calls \ {c} : HoldsClaim(d) => Record(call[d].request) # Record(r.request)
  BY <1>3 DEF ClaimIdempotency, KeyFree
<1> HIDE DEF r
<1> QED BY <1>1, <1>3, <1>4, <1>5, AnswersUnchanged, CallSteps

\* A call ends with nothing written, or with the answer there is.
LEMMA EndSteps ==
  ASSUME IInv, NEW c \in Calls, Replay(c) \/ Refuse(c) \/ Rollback(c)
  PROVE  IInv'
<1>1. call' = [call EXCEPT ![c] = Idle] /\ UNCHANGED <<rows, claims, audit>>
  BY DEF Replay, Refuse, Rollback, End, history
<1>2. answers' \in [Requests -> SUBSET View] /\ AnswersRecorded'
  <2>1. CASE Refuse(c) \/ Rollback(c)
    BY <2>1, AnswersUnchanged DEF Refuse, Rollback
  <2>2. CASE Replay(c)
    <3> DEFINE r == call[c].request
               a == claims[Record(r)].answer
    <3>1. r \in Requests /\ Record(r) \in Records /\ TypeOK
      BY <2>2, CallTyped, RequestTyped DEF Replay, IInv
    <3>2. claims[Record(r)] \in Claim /\ claims[Record(r)].request = r
      BY <2>2, <3>1 DEF Replay, TypeOK, IdempotencyRecords
    <3>3. a \in View /\ claims[Record(r)] = [request |-> r, answer |-> a]
      BY <3>2 DEF Claim
    <3>4. answers' = [answers EXCEPT ![r] = @ \cup {a}]
      BY <2>2 DEF Replay
    <3> QED BY <1>1, <3>1, <3>3, <3>4 DEF IInv, TypeOK, AnswersRecorded
  <2> QED BY <2>1, <2>2
<1>3. DatesOf(Idle.invocation)
  BY DEF DatesOf, Idle, NoInvocation
<1> QED BY <1>1, <1>2, <1>3, IdleTyped, CallSteps

LEMMA LockServiceStep ==
  ASSUME IInv, NEW c \in Calls, LockService(c)
  PROVE  IInv'
<1> DEFINE r == [call[c] EXCEPT !.step = "locked", !.service = service[call[c].request.target]]
<1>1. /\ call' = [call EXCEPT ![c] = r] /\ UNCHANGED <<rows, claims, history>>
      /\ call[c].step = "claimed" /\ call[c].request.op \in {"update", "request"}
  BY DEF LockService
<1>2. call[c] \in CallRecord /\ call[c].request \in Requests /\ call[c].request.target \in Services
  BY <1>1, CallTyped, RequestTyped DEF IInv, ServiceOps
<1>3. service[call[c].request.target] \in Service
  BY <1>2 DEF IInv, TypeOK, ServiceRows
<1>4. /\ r \in CallRecord /\ r.step = "locked" /\ r.request = call[c].request /\ r.request # None
      /\ r.invocation = call[c].invocation /\ r.service = service[r.request.target]
  BY <1>2, <1>3, RequestTyped DEF CallRecord, Steps
<1>5. DatesOf(r.invocation)
  BY <1>4 DEF IInv, DatesFollowStatus
<1>6. \A d \in Calls : HoldsService(d) => call[d].request.target # r.request.target
  BY <1>4 DEF LockService, ServiceUnlocked, HoldsService
<1>7. /\ claims[Record(r.request)] = None
      /\ \A d \in Calls \ {c} : HoldsClaim(d) => Record(call[d].request) # Record(r.request)
  BY <1>1, <1>4 DEF IInv, ClaimsHeld, HoldsClaim
<1>8. r.request.op \notin JobOps
  BY <1>1, <1>4 DEF JobOps, ProviderOps
<1> HIDE DEF r
<1> QED BY <1>1, <1>4, <1>5, <1>6, <1>7, <1>8, AnswersUnchanged, CallSteps

LEMMA RequireProviderJobStep ==
  ASSUME IInv, NEW c \in Calls, RequireProviderJob(c)
  PROVE  IInv'
<1> DEFINE j == call[c].request.target
           r == [call[c] EXCEPT !.step = "locked", !.invocation = invocation[j]]
<1>1. /\ call' = [call EXCEPT ![c] = r] /\ UNCHANGED <<rows, claims, history>>
      /\ call[c].step = "claimed" /\ call[c].request.op \in ProviderOps
      /\ job[j].status \in Expected(call[c].request.op) /\ invocation[j].status = job[j].status
  BY DEF RequireProviderJob
<1>2. call[c] \in CallRecord /\ call[c].request \in Requests /\ j \in Jobs
  BY <1>1, CallTyped, RequestTyped DEF IInv, JobOps
<1>3. invocation[j] \in Invocation
  BY <1>2 DEF IInv, TypeOK, InvocationRows
<1>4. /\ r \in CallRecord /\ r.step = "locked" /\ r.request = call[c].request /\ r.request # None
      /\ r.invocation = invocation[j]
  BY <1>2, <1>3, RequestTyped DEF CallRecord, Steps
<1>5. DatesOf(r.invocation)
  BY <1>2, <1>4 DEF IInv, DatesFollowStatus
<1>6. invocation[j].status \in {"created", "accepted", "processing"}
  BY <1>1 DEF Expected, ProviderOps
<1>7. \A d \in Calls : HoldsJob(d) => call[d].request.target # j
  BY DEF RequireProviderJob, JobUnlocked, HoldsJob
<1>8. /\ claims[Record(r.request)] = None
      /\ \A d \in Calls \ {c} : HoldsClaim(d) => Record(call[d].request) # Record(r.request)
  BY <1>1, <1>4 DEF IInv, ClaimsHeld, HoldsClaim
<1>9. r.request.op \notin {"update", "request"} /\ r.request.target = j
  BY <1>1, <1>4 DEF ProviderOps
<1> HIDE DEF r, j
<1> QED BY <1>1, <1>4, <1>5, <1>6, <1>7, <1>8, <1>9, AnswersUnchanged, CallSteps

LEMMA ReadInvocationStep ==
  ASSUME IInv, NEW c \in Calls, ReadInvocation(c)
  PROVE  IInv'
<1> DEFINE j == call[c].request.target
           r == [call[c] EXCEPT !.step = "read", !.invocation = invocation[j]]
<1>1. /\ call' = [call EXCEPT ![c] = r] /\ UNCHANGED <<rows, claims, history>>
      /\ call[c].step = "claimed" /\ call[c].request.op = "cancel"
      /\ invocation[j].status \in {"created", "accepted"}
  BY DEF ReadInvocation, Expected
<1>2. call[c] \in CallRecord /\ call[c].request \in Requests /\ j \in Jobs
  BY <1>1, CallTyped, RequestTyped DEF IInv, JobOps
<1>3. invocation[j] \in Invocation
  BY <1>2 DEF IInv, TypeOK, InvocationRows
<1>4. /\ r \in CallRecord /\ r.step = "read" /\ r.request = call[c].request /\ r.request # None
      /\ r.invocation = invocation[j]
  BY <1>2, <1>3, RequestTyped DEF CallRecord, Steps
<1>5. DatesOf(r.invocation)
  BY <1>2, <1>4 DEF IInv, DatesFollowStatus
<1>6. /\ claims[Record(r.request)] = None
      /\ \A d \in Calls \ {c} : HoldsClaim(d) => Record(call[d].request) # Record(r.request)
  BY <1>1, <1>4 DEF IInv, ClaimsHeld, HoldsClaim
<1> HIDE DEF r, j
<1> QED BY <1>1, <1>4, <1>5, <1>6, AnswersUnchanged, CallSteps

\* The check after the lock: an invocation with the job's status has its dates.
LEMMA LockJobForCancelStep ==
  ASSUME IInv, NEW c \in Calls, LockJobForCancel(c)
  PROVE  IInv'
<1> DEFINE j == call[c].request.target
           r == [call[c] EXCEPT !.step = "locked"]
<1>1. /\ call' = [call EXCEPT ![c] = r] /\ UNCHANGED <<rows, claims, history>>
      /\ call[c].step = "read" /\ job[j].status = call[c].invocation.status
  BY DEF LockJobForCancel
<1>2. /\ call[c] \in CallRecord /\ call[c].request \in Requests /\ call[c].request.op = "cancel"
      /\ call[c].invocation.status \in {"created", "accepted"}
  BY <1>1, CallTyped DEF IInv, JobLocks
<1>3. j \in Jobs
  BY <1>2, RequestTyped DEF JobOps
<1>4. /\ r \in CallRecord /\ r.step = "locked" /\ r.request = call[c].request /\ r.request # None
      /\ r.invocation = call[c].invocation
  BY <1>2, RequestTyped DEF CallRecord, Steps
<1>5. DatesOf(r.invocation)
  BY <1>4 DEF IInv, DatesFollowStatus
<1>6. invocation[j].status = call[c].invocation.status
  BY <1>1, <1>3 DEF IInv, RowsAgree
<1>7. call[c].invocation.dates = invocation[j].dates
  BY <1>2, <1>3, <1>6 DEF IInv, DatesFollowStatus, DatesOf
<1>8. \A d \in Calls : HoldsJob(d) => call[d].request.target # j
  BY DEF LockJobForCancel, JobUnlocked, HoldsJob
<1>9. /\ claims[Record(r.request)] = None
      /\ \A d \in Calls \ {c} : HoldsClaim(d) => Record(call[d].request) # Record(r.request)
  BY <1>1, <1>4 DEF IInv, ClaimsHeld, HoldsClaim
<1>10. r.request.op \notin {"update", "request"} /\ r.request.target = j
  BY <1>2, <1>4
<1> HIDE DEF r, j
<1> QED BY <1>1, <1>2, <1>4, <1>5, <1>6, <1>7, <1>8, <1>9, <1>10, AnswersUnchanged, CallSteps

\* A commit also moves rows: the rows a call left holds stay as it has read them.
LEMMA CommitSteps ==
  ASSUME IInv, NEW c \in Calls, HoldsClaim(c), NEW answer \in View, CompleteIdempotency(c, answer),
         service' \in ServiceRows, invocation' \in InvocationRows, job' \in JobRows,
         results' \in ResultRows, RowsAgree', RowsExist',
         \A j \in Jobs : DatesOf(invocation'[j]),
         \A d \in Calls \ {c} : HoldsJob(d) =>
           LET j == call[d].request.target IN
           invocation'[j].status = invocation[j].status /\ invocation'[j].dates = invocation[j].dates,
         \A d \in Calls \ {c} : HoldsService(d) =>
           call[d].service \in {service'[call[d].request.target], NoService}
  PROVE  IInv'
<1>1. /\ claims' \in IdempotencyRecords /\ audit' \in AuditEvents
      /\ answers' \in [Requests -> SUBSET View]
      /\ call' \in [Calls -> CallRecord]
      /\ \A d \in Calls : call'[d].step = "idle" <=> call'[d].request = None
      /\ call'[c] = Idle /\ \A d \in Calls \ {c} : call'[d] = call[d]
      /\ ClaimsHeld' /\ AnswersRecorded'
  BY Commits
<1>2. TypeOK'
  BY <1>1 DEF TypeOK
<1>3. DatesFollowStatus'
  <2>1. DatesOf(call'[c].invocation)
    BY <1>1 DEF Idle, NoInvocation, DatesOf
  <2>2. \A d \in Calls \ {c} : DatesOf(call'[d].invocation)
    BY <1>1 DEF IInv, DatesFollowStatus
  <2> QED BY <2>1, <2>2 DEF DatesFollowStatus, DatesOf
<1>4. call'[c].step = "idle"
  BY <1>1, IdleTyped
<1>5. JobLocks'
  BY <1>1, <1>4 DEF IInv, JobLocks, HoldsJob
<1>6. ServiceLocks'
  BY <1>1, <1>4 DEF IInv, ServiceLocks, HoldsService
<1> QED BY <1>1, <1>2, <1>3, <1>5, <1>6 DEF IInv

LEMMA ViewsTyped ==
  /\ \A n \in Nat : ServiceView(n) \in View
  /\ \A j \in Jobs, s \in JobStatuses : InvocationView(j, s) \in View
BY DEF ServiceView, InvocationView, View, JobStatuses

\* A committed service row: no call that left a job behind is concerned.
LEMMA ServiceCommit ==
  ASSUME IInv, NEW c \in Calls, HoldsClaim(c), NEW answer \in View, CompleteIdempotency(c, answer),
         NEW s \in Services, NEW row \in Service, service' = [service EXCEPT ![s] = row],
         UNCHANGED <<invocation, job, results>>,
         \A d \in Calls \ {c} : HoldsService(d) /\ call[d].request.target = s =>
           call[d].service = NoService
  PROVE  IInv'
<1>1. service' \in ServiceRows
  BY DEF IInv, TypeOK, ServiceRows
<1>2. invocation' \in InvocationRows /\ job' \in JobRows /\ results' \in ResultRows
  BY DEF IInv, TypeOK
<1>3. RowsAgree' /\ RowsExist' /\ \A j \in Jobs : DatesOf(invocation'[j])
  BY DEF IInv, RowsAgree, RowsExist, DatesFollowStatus
<1>4. ASSUME NEW d \in Calls \ {c}, HoldsService(d)
      PROVE  call[d].service \in {service'[call[d].request.target], NoService}
  <2>1. call[d].request.target \in Services
    BY <1>4, CallTyped, RequestTyped DEF IInv, HoldsService, ServiceOps
  <2>2. call[d].service \in {service[call[d].request.target], NoService}
    BY <1>4 DEF IInv, ServiceLocks
  <2> QED BY <1>4, <2>1, <2>2 DEF IInv, TypeOK, ServiceRows
<1> QED BY <1>1, <1>2, <1>3, <1>4, CommitSteps

LEMMA CreateServiceStep ==
  ASSUME IInv, NEW c \in Calls, CreateService(c)
  PROVE  IInv'
<1> DEFINE r == call[c].request
           row == [status |-> r.offer.status, priced |-> r.offer.priced, version |-> 1,
                   agent |-> r.agent]
<1>1. /\ call[c].step = "claimed" /\ r.op = "create" /\ service[r.target] = NoService
      /\ service' = [service EXCEPT ![r.target] = row]
      /\ CompleteIdempotency(c, ServiceView(1)) /\ UNCHANGED <<invocation, job, results>>
  BY DEF CreateService
<1>2. r \in Requests /\ r.target \in Services /\ r.agent \in Agents /\ r.offer \in Offers
  BY <1>1, CallTyped, RequestTyped DEF IInv, ServiceOps
<1>3. row \in Service
  BY <1>2 DEF Service, Offers
<1>4. \A d \in Calls \ {c} : HoldsService(d) /\ call[d].request.target = r.target =>
        call[d].service = NoService
  BY <1>1 DEF IInv, ServiceLocks
<1>5. HoldsClaim(c) /\ ServiceView(1) \in View
  BY <1>1, ViewsTyped DEF HoldsClaim
<1> HIDE DEF r, row
<1> QED BY <1>1, <1>2, <1>3, <1>4, <1>5, ServiceCommit

LEMMA UpdateServiceStep ==
  ASSUME IInv, NEW c \in Calls, UpdateService(c)
  PROVE  IInv'
<1> DEFINE r == call[c].request
           current == call[c].service
           row == [status |-> r.offer.status, priced |-> r.offer.priced,
                   version |-> current.version + 1, agent |-> current.agent]
<1>1. /\ call[c].step = "locked" /\ r.op = "update"
      /\ service' = [service EXCEPT ![r.target] = row]
      /\ CompleteIdempotency(c, ServiceView(current.version + 1))
      /\ UNCHANGED <<invocation, job, results>>
  BY DEF UpdateService
<1>2. r \in Requests /\ r.target \in Services /\ r.offer \in Offers /\ call[c] \in CallRecord
  BY <1>1, CallTyped, RequestTyped DEF IInv, ServiceOps
<1>3. current \in Service /\ current.version + 1 \in Nat
  BY <1>2 DEF CallRecord, Service
<1>4. row \in Service
  BY <1>2, <1>3 DEF Service, Offers
<1>5. \A d \in Calls \ {c} : HoldsService(d) => call[d].request.target # r.target
  BY <1>1 DEF IInv, ServiceLocks, HoldsService
<1>6. HoldsClaim(c) /\ ServiceView(current.version + 1) \in View
  BY <1>1, <1>3, ViewsTyped DEF HoldsClaim
<1> DEFINE answer == ServiceView(current.version + 1)
           s == r.target
<1>7. /\ service' = [service EXCEPT ![s] = row] /\ UNCHANGED <<invocation, job, results>>
      /\ CompleteIdempotency(c, answer) /\ HoldsClaim(c) /\ answer \in View
      /\ s \in Services /\ row \in Service
      /\ \A d \in Calls \ {c} : HoldsService(d) /\ call[d].request.target = s =>
           call[d].service = NoService
  BY <1>1, <1>2, <1>4, <1>5, <1>6
<1> HIDE DEF r, current, row, answer, s
<1> QED BY <1>7, ServiceCommit

\* A committed job: its two rows move together, under the lock of the job or
\* before there is a job to lock.
LEMMA JobCommit ==
  ASSUME IInv, NEW c \in Calls, HoldsClaim(c), NEW answer \in View, CompleteIdempotency(c, answer),
         NEW j \in Jobs, NEW iRow \in Invocation, NEW jRow \in Job,
         invocation' = [invocation EXCEPT ![j] = iRow], job' = [job EXCEPT ![j] = jRow],
         results' = results \cup (IF jRow.status = "completed" THEN {j} ELSE {}),
         jRow.status # "completed" => j \notin results,
         UNCHANGED service,
         iRow.status # "none", DatesOf(iRow), jRow.status = iRow.status, jRow.dates = iRow.dates,
         jRow.provider = iRow.provider,
         \A d \in Calls \ {c} : HoldsJob(d) => call[d].request.target # j
  PROVE  IInv'
<1>1. service' \in ServiceRows /\ invocation' \in InvocationRows /\ job' \in JobRows
  BY DEF IInv, TypeOK, InvocationRows, JobRows
<1>2. results' \in ResultRows
  BY DEF IInv, TypeOK, ResultRows
<1>3. /\ invocation'[j] = iRow /\ job'[j] = jRow
      /\ \A i \in Jobs \ {j} : invocation'[i] = invocation[i] /\ job'[i] = job[i]
      /\ \A i \in Jobs \ {j} : i \in results' <=> i \in results
      /\ j \in results' <=> jRow.status = "completed"
  BY DEF IInv, TypeOK, InvocationRows, JobRows
<1>4. RowsAgree'
  BY <1>3 DEF IInv, RowsAgree
<1>5. RowsExist'
  BY <1>3 DEF IInv, RowsExist
<1>6. \A i \in Jobs : DatesOf(invocation'[i])
  <2>1. \A i \in Jobs \ {j} : DatesOf(invocation'[i])
    BY <1>3 DEF IInv, DatesFollowStatus
  <2> QED BY <1>3, <2>1
<1>7. ASSUME NEW d \in Calls \ {c}, HoldsJob(d)
      PROVE  invocation'[call[d].request.target] = invocation[call[d].request.target]
  <2>1. call[d].request.target \in Jobs
    BY <1>7, CallTyped, RequestTyped DEF IInv, HoldsJob
  <2> QED BY <1>3, <1>7, <2>1
<1>8. \A d \in Calls \ {c} : HoldsService(d) =>
        call[d].service \in {service'[call[d].request.target], NoService}
  BY DEF IInv, ServiceLocks
<1> QED BY <1>1, <1>2, <1>4, <1>5, <1>6, <1>7, <1>8, CommitSteps

LEMMA RequestServiceStep ==
  ASSUME IInv, NEW c \in Calls, NEW j \in Jobs, RequestService(c, j)
  PROVE  IInv'
<1> DEFINE r == call[c].request
           s == call[c].service
           iRow == [status |-> "created", dates |-> {}, provider |-> s.agent,
                    buyer |-> r.agent, service |-> r.target, version |-> s.version]
           jRow == [status |-> "created", dates |-> {}, provider |-> s.agent]
<1>1. /\ call[c].step = "locked" /\ r.op = "request" /\ invocation[j] = NoInvocation
      /\ invocation' = [invocation EXCEPT ![j] = iRow] /\ job' = [job EXCEPT ![j] = jRow]
      /\ CompleteIdempotency(c, InvocationView(j, "created")) /\ UNCHANGED <<service, results>>
  BY DEF RequestService
<1>2. r \in Requests /\ r.target \in Services /\ r.agent \in Agents /\ call[c] \in CallRecord
  BY <1>1, CallTyped, RequestTyped DEF IInv, ServiceOps
<1>3. s \in Service
  BY <1>2 DEF CallRecord
<1>4. iRow \in Invocation /\ jRow \in Job
  BY <1>2, <1>3 DEF Invocation, Job, Service, JobStatuses
<1>5. DatesOf(iRow)
  BY DEF DatesOf
<1>6. invocation[j].status = "none" /\ j \notin results
  BY <1>1 DEF IInv, RowsAgree, NoInvocation
<1>7. \A d \in Calls \ {c} : HoldsJob(d) => call[d].request.target # j
  BY <1>6 DEF IInv, JobLocks
<1>8. HoldsClaim(c) /\ InvocationView(j, "created") \in View
  BY <1>1, ViewsTyped DEF HoldsClaim, JobStatuses
<1>9. /\ jRow.status = "created" /\ iRow.status = "created" /\ jRow.dates = iRow.dates
      /\ jRow.provider = iRow.provider
  OBVIOUS
<1> HIDE DEF r, s, iRow, jRow
<1> QED BY <1>1, <1>4, <1>5, <1>6, <1>7, <1>8, <1>9, JobCommit

\* The dates written are those of the copy: they are the row's own.
LEMMA UpdateStep ==
  ASSUME IInv, NEW c \in Calls, HoldsJob(c),
         NEW to \in {"accepted", "processing", "completed", "failed", "cancelled"},
         NEW date \in Dates, Update(c, to, date),
         to = "accepted" => date = "accepted",
         to = "processing" => date = "processing",
         results' = results \cup (IF to = "completed" THEN {call[c].request.target} ELSE {})
  PROVE  IInv'
<1> DEFINE j == call[c].request.target
           iRow == [invocation[j] EXCEPT !.status = to, !.dates = @ \cup {date}]
           jRow == [job[j] EXCEPT !.status = to, !.dates = @ \cup {date}]
<1>1. j \in Jobs
  BY CallTyped, RequestTyped DEF IInv, HoldsJob
<1>2. invocation[j] \in Invocation /\ job[j] \in Job
  BY <1>1 DEF IInv, TypeOK, InvocationRows, JobRows
<1>3. /\ InvocationGuard(invocation[j].status, to)
      /\ job' = [job EXCEPT ![j].status = to, ![j].dates = @ \cup {date}]
      /\ invocation' = [invocation EXCEPT ![j].status = to, ![j].dates = call[c].invocation.dates \cup {date}]
      /\ CompleteIdempotency(c, InvocationView(j, to)) /\ UNCHANGED service
  BY DEF Update
<1>4. invocation[j].dates = call[c].invocation.dates
  BY DEF IInv, JobLocks
<1>5. job' = [job EXCEPT ![j] = jRow] /\ invocation' = [invocation EXCEPT ![j] = iRow]
  BY <1>1, <1>2, <1>3, <1>4 DEF IInv, TypeOK, InvocationRows, JobRows, Invocation, Job
<1>6. to \in JobStatuses /\ invocation[j].dates \cup {date} \in SUBSET Dates /\ job[j].dates \cup {date} \in SUBSET Dates
  BY <1>2 DEF JobStatuses, Invocation, Job
<1>7. /\ iRow.status = to /\ iRow.dates = invocation[j].dates \cup {date} /\ iRow.provider = invocation[j].provider
      /\ jRow.status = to /\ jRow.dates = job[j].dates \cup {date} /\ jRow.provider = job[j].provider
  BY <1>2 DEF Invocation, Job
<1>8. iRow \in Invocation /\ jRow \in Job
  BY <1>2, <1>6 DEF Invocation, Job
<1>9. /\ job[j].dates = invocation[j].dates /\ job[j].provider = invocation[j].provider
      /\ job[j].status = invocation[j].status /\ (j \in results <=> job[j].status = "completed")
  BY <1>1 DEF IInv, RowsAgree
<1>10. DatesOf(iRow)
  <2>1. DatesOf(invocation[j])
    BY <1>1 DEF IInv, DatesFollowStatus
  <2>2. /\ to = "accepted" => invocation[j].status = "created"
        /\ to = "processing" => invocation[j].status = "accepted"
    BY <1>3 DEF InvocationGuard
  <2> QED BY <1>7, <2>1, <2>2 DEF DatesOf
<1>11. j \notin results
  BY <1>3, <1>9 DEF InvocationGuard
<1>12. \A d \in Calls \ {c} : HoldsJob(d) => call[d].request.target # j
  BY DEF IInv, JobLocks
<1>13. HoldsClaim(c) /\ InvocationView(j, to) \in View
  BY <1>1, <1>6, ViewsTyped DEF HoldsClaim, HoldsJob
<1> HIDE DEF j, iRow, jRow
<1>14. results' = results \cup (IF jRow.status = "completed" THEN {j} ELSE {})
  BY <1>7 DEF j
<1>15. /\ iRow.status # "none" /\ jRow.status = iRow.status /\ jRow.dates = iRow.dates
       /\ jRow.provider = iRow.provider
  BY <1>7, <1>9
<1> DEFINE answer == InvocationView(j, to)
<1>16. CompleteIdempotency(c, answer) /\ answer \in View /\ UNCHANGED service /\ HoldsClaim(c)
  BY <1>3, <1>13
<1> HIDE DEF answer
<1> QED BY <1>1, <1>5, <1>8, <1>10, <1>11, <1>12, <1>14, <1>15, <1>16, JobCommit

LEMMA JobSteps ==
  ASSUME IInv, NEW c \in Calls,
         AcceptJob(c) \/ StartJob(c) \/ SubmitResult(c) \/ FailJob(c) \/ CancelInvocation(c)
  PROVE  IInv'
<1>0. \A op \in JobOps : Holding(c, op) => HoldsJob(c)
  BY DEF Holding, HoldsJob
<1>1. CASE AcceptJob(c)
  BY <1>0, <1>1, UpdateStep DEF AcceptJob, JobOps, ProviderOps, Dates
<1>2. CASE StartJob(c)
  BY <1>0, <1>2, UpdateStep DEF StartJob, JobOps, ProviderOps, Dates
<1>3. CASE SubmitResult(c)
  BY <1>0, <1>3, UpdateStep DEF SubmitResult, JobOps, ProviderOps, Dates
<1>4. CASE FailJob(c)
  BY <1>0, <1>4, UpdateStep DEF FailJob, JobOps, ProviderOps, Dates
<1>5. CASE CancelInvocation(c)
  BY <1>0, <1>5, UpdateStep DEF CancelInvocation, JobOps, Dates
<1> QED BY <1>1, <1>2, <1>3, <1>4, <1>5

LEMMA NextIInv == IInv /\ [Next]_vars => IInv'
<1> SUFFICES ASSUME IInv, [Next]_vars PROVE IInv'
  OBVIOUS
<1>1. CASE UNCHANGED vars
  BY <1>1 DEF vars, rows, history, IInv, TypeOK, RowsAgree, RowsExist, DatesFollowStatus, DatesOf,
     JobLocks, ServiceLocks, ClaimsHeld, AnswersRecorded, HoldsJob, HoldsService, HoldsClaim
<1>2. CASE Next
  BY <1>2, CallStep, ClaimStep, EndSteps, LockServiceStep, CreateServiceStep, UpdateServiceStep,
     RequestServiceStep, RequireProviderJobStep, ReadInvocationStep, LockJobForCancelStep, JobSteps
     DEF Next
<1> QED BY <1>1, <1>2

------------------------------------------------------------------------------
(* Theorems.                                                               *)

\* The inductive invariant of the service and of its row locks.
THEOREM Invariance == Spec => []IInv
BY InitIInv, NextIInv, PTL DEF Spec

\* Rows, calls and answers always have their types.
THEOREM TypeCorrect == Spec => []TypeOK
<1>1. IInv => TypeOK
  BY DEF IInv
<1> QED BY <1>1, Invariance, PTL

\* The service_jobs and service_invocations rows of a job always agree, dates
\* and result included, however many calls race on it: cancelInvocation's check
\* after its lock makes the copy it writes back as good as the row.
THEOREM RowsAlwaysAgree == Spec => []RowsAgree
<1>1. IInv => RowsAgree
  BY DEF IInv
<1> QED BY <1>1, Invariance, PTL

\* However many calls repeat or share a key, one takes effect, and every answer
\* given under the key is the one in its idempotency record.
THEOREM OnceUnderItsKey == Spec => []OncePerKey
<1>1. IInv => OncePerKey
  <2> SUFFICES ASSUME IInv, NEW k \in Records
               PROVE  LET given == UNION {{<<r, a>> : a \in answers[r]} : r \in {q \in Requests : Record(q) = k}} IN
                      /\ audit[k] <= 1
                      /\ Cardinality(given) <= 1
                      /\ given # {} => audit[k] = 1
    BY DEF OncePerKey
  <2> DEFINE given == UNION {{<<r, a>> : a \in answers[r]} : r \in {q \in Requests : Record(q) = k}}
             only == <<claims[k].request, claims[k].answer>>
  <2>1. audit[k] <= 1
    BY DEF IInv, AnswersRecorded
  <2>2. given \subseteq {only}
    <3> SUFFICES ASSUME NEW q \in Requests, Record(q) = k, NEW a \in answers[q]
                 PROVE  <<q, a>> = only
      OBVIOUS
    <3>1. claims[k] = [request |-> q, answer |-> a]
      BY DEF IInv, AnswersRecorded
    <3> QED BY <3>1
  <2>3. given # {} => claims[k] # None
    <3> SUFFICES ASSUME NEW q \in Requests, Record(q) = k, NEW a \in answers[q]
                 PROVE  claims[k] # None
      OBVIOUS
    <3>1. a \in View /\ claims[k] = [request |-> q, answer |-> a]
      BY DEF IInv, TypeOK, AnswersRecorded
    <3> QED BY <3>1, NoneIsNoClaim DEF Claim
  <2>4. given # {} => audit[k] = 1
    BY <2>3 DEF IInv, AnswersRecorded
  <2> HIDE DEF given, only
  <2>5. Cardinality(given) <= 1
    <3>1. given = {} \/ given = {only}
      BY <2>2
    <3> QED BY <3>1, FS_EmptySet, FS_Singleton
  <2> QED BY <2>1, <2>4, <2>5 DEF given
<1> QED BY <1>1, Invariance, PTL

\* A request is agreed on the terms in force at its commit: the lock on the
\* service keeps an owner's update away from what the request has read.
THEOREM AgreementIsCurrent == Spec => AgreementCurrent
<1> DEFINE Agreed(j) ==
      LET agreed == invocation'[j] IN
      /\ service[agreed.service].status = "active" /\ ~service[agreed.service].priced
      /\ agreed.version = service[agreed.service].version
      /\ agreed.provider = service[agreed.service].agent /\ agreed.buyer # agreed.provider
<1>1. ASSUME IInv, [Next]_vars, NEW j \in Jobs, invocation[j] = NoInvocation, invocation'[j] # NoInvocation
      PROVE  Agreed(j)
  <2>1. PICK c \in Calls :
          \/ \E i \in Jobs : RequestService(c, i)
          \/ AcceptJob(c) \/ StartJob(c) \/ SubmitResult(c) \/ FailJob(c) \/ CancelInvocation(c)
    BY <1>1 DEF Next, vars, rows, history, Call, ClaimIdempotency, Replay, Refuse, Rollback, LockService,
       CreateService, UpdateService, RequireProviderJob, ReadInvocation, LockJobForCancel
  <2>2. CASE \E i \in Jobs : RequestService(c, i)
    <3>1. PICK i \in Jobs : RequestService(c, i)
      BY <2>2
    <3> DEFINE r == call[c].request
               s == call[c].service
               row == [status |-> "created", dates |-> {}, provider |-> s.agent,
                       buyer |-> r.agent, service |-> r.target, version |-> s.version]
    <3>2. /\ invocation' = [invocation EXCEPT ![i] = row] /\ Requestable(s, r.agent)
          /\ call[c].step = "locked" /\ r.op = "request"
      BY <3>1 DEF RequestService
    <3>3. i = j /\ invocation'[j] = row
      BY <1>1, <3>2 DEF IInv, TypeOK, InvocationRows
    <3>4. s.status = "active" /\ s.agent # r.agent /\ ~s.priced /\ s # NoService
      BY <3>2 DEF Requestable, NoService
    <3>5. s = service[r.target]
      <4>1. HoldsService(c)
        BY <3>2 DEF HoldsService
      <4> QED BY <4>1, <1>1, <3>4 DEF IInv, ServiceLocks
    <3> QED BY <3>3, <3>4, <3>5
  <2>3. CASE AcceptJob(c) \/ StartJob(c) \/ SubmitResult(c) \/ FailJob(c) \/ CancelInvocation(c)
    <3>1. PICK to \in {"accepted", "processing", "completed", "failed", "cancelled"}, date \in Dates :
             Update(c, to, date)
      BY <2>3 DEF AcceptJob, StartJob, SubmitResult, FailJob, CancelInvocation, Dates
    <3>2. invocation[call[c].request.target].status # "none"
      BY <3>1 DEF Update, InvocationGuard
    <3>3. call[c].request.target # j
      BY <1>1, <3>2 DEF NoInvocation
    <3> QED BY <1>1, <3>1, <3>3 DEF Update, IInv, TypeOK, InvocationRows
  <2> QED BY <2>1, <2>2, <2>3
<1> HIDE DEF Agreed
<1>2. IInv /\ [Next]_vars =>
        [\A j \in Jobs : invocation[j] = NoInvocation /\ invocation'[j] # NoInvocation => Agreed(j)]_vars
  BY <1>1
<1> QED BY <1>2, Invariance, PTL DEF Spec, AgreementCurrent, Agreed
=============================================================================
