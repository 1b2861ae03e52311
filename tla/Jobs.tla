-------------------------------- MODULE Jobs --------------------------------
(***************************************************************************)
(* EconomyService: agents publish services, other agents request them, and *)
(* the provider accepts, starts, completes or fails the job, or the buyer  *)
(* cancels it.  A job is two rows, service_jobs and service_invocations,   *)
(* that every operation moves together.                                    *)
(*                                                                         *)
(* Every mutation is one READ COMMITTED transaction that first inserts the *)
(* record of its idempotency key.  Another call with that key waits until  *)
(* the transaction ends, then replays its answer or starts anew.  A call's *)
(* record in `call' is what the transaction has read; its writes become    *)
(* visible, and its row locks free, in the step that commits.              *)
(***************************************************************************)
EXTENDS Integers, FiniteSets

CONSTANTS
  Agents,
  Services,
  Jobs,       \* identifiers of an invocation and its job
  Calls,      \* concurrent calls to the service
  Requests,   \* what clients ask for, and ask for again under the same key
  None

ServiceStatuses == {"none", "draft", "active", "paused", "archived"}
ProviderOps == {"accept", "start", "submit", "fail"}
JobOps == ProviderOps \cup {"cancel"}
ServiceOps == {"create", "update", "request"}

\* The offer is the part of a service an update changes that a request reads.
Offers == [status: ServiceStatuses \ {"none"}, priced: BOOLEAN]

ASSUME JobsAssumption ==
  /\ Requests \subseteq [agent: Agents, op: JobOps, key: STRING, target: Jobs]
       \cup [agent: Agents, op: {"request"}, key: STRING, target: Services]
       \cup [agent: Agents, op: {"create", "update"}, key: STRING, target: Services, offer: Offers]
  /\ None \notin Agents \cup Services \cup Jobs \cup Requests
  /\ IsFiniteSet(Requests)

VARIABLES
  service,     \* services
  invocation,  \* service_invocations
  job,         \* service_jobs
  results,     \* the jobs with a row in service_results
  claims,      \* idempotency_records, by agent, operation and key
  call,        \* the open calls
  audit,       \* audit events written for each idempotency key
  answers      \* answers given to each request

rows == <<service, invocation, job, results>>
history == <<audit, answers>>
vars == <<rows, claims, call, history>>

JobStatuses == {"none", "created", "accepted", "processing", "completed", "failed", "cancelled"}
Dates == {"accepted", "processing", "completed"}

Service == [status: ServiceStatuses, priced: BOOLEAN, version: Nat, agent: Agents \cup {None}]
NoService == [status |-> "none", priced |-> FALSE, version |-> 0, agent |-> None]

Job == [status: JobStatuses, dates: SUBSET Dates, provider: Agents \cup {None}]
NoJob == [status |-> "none", dates |-> {}, provider |-> None]

Invocation == [status: JobStatuses, dates: SUBSET Dates, provider: Agents \cup {None},
               buyer: Agents \cup {None}, service: Services \cup {None}, version: Nat]
NoInvocation == [status |-> "none", dates |-> {}, provider |-> None, buyer |-> None,
                 service |-> None, version |-> 0]

\* An open call: its step, its request and the rows its transaction has read.
Steps == {"idle", "calling", "claimed", "read", "locked"}
Idle == [step |-> "idle", request |-> None, service |-> NoService, invocation |-> NoInvocation]

\* What a call answers: the service, or the job, as it leaves them.
View == [job: Jobs \cup {None}, status: JobStatuses, version: Nat]
ServiceView(version) == [job |-> None, status |-> "none", version |-> version]
InvocationView(j, status) == [job |-> j, status |-> status, version |-> 0]

Record(r) == <<r.agent, r.op, r.key>>
Records == {Record(r) : r \in Requests}

\* What the tables may hold.
Claim == [request: Requests, answer: View]
ServiceRows == [Services -> Service]
InvocationRows == [Jobs -> Invocation]
JobRows == [Jobs -> Job]
ResultRows == SUBSET Jobs
IdempotencyRecords == [Records -> Claim \cup {None}]
AuditEvents == [Records -> Nat]

ASSUME NoneIsNoClaim == None \notin Claim

Init ==
  /\ service = [s \in Services |-> NoService]
  /\ invocation = [j \in Jobs |-> NoInvocation]
  /\ job = [j \in Jobs |-> NoJob]
  /\ results = {}
  /\ claims = [k \in Records |-> None]
  /\ call = [c \in Calls |-> Idle]
  /\ audit = [k \in Records |-> 0]
  /\ answers = [r \in Requests |-> {}]

------------------------------------------------------------------------------
(* Idempotency keys.                                                       *)

\* The transaction of c has inserted the record of its key.
HoldsClaim(c) == call[c].step \in {"claimed", "read", "locked"}
KeyFreeAlways(r) == TRUE
KeyFree(r) == \A c \in Calls : HoldsClaim(c) => Record(call[c].request) # Record(r)

End(c) == call' = [call EXCEPT ![c] = Idle]

\* authorizeMutation, before the claim: the service of an update must exist
\* and be the caller's.
AuthorizeMutation(r) == r.op = "update" => service[r.target].agent = r.agent

Call(c, r) ==
  /\ call[c].step = "idle"
  /\ call' = [call EXCEPT ![c] = [Idle EXCEPT !.step = "calling", !.request = r]]
  /\ UNCHANGED <<rows, claims, history>>

\* claimIdempotency inserts the record...
ClaimIdempotency(c) ==
  LET r == call[c].request IN
  /\ call[c].step = "calling"
  /\ AuthorizeMutation(r)
  /\ KeyFree(r) /\ claims[Record(r)] = None
  /\ call' = [call EXCEPT ![c].step = "claimed"]
  /\ UNCHANGED <<rows, claims, history>>

\* ...or finds the committed one: the same request gets the stored answer...
Replay(c) ==
  LET r == call[c].request IN
  /\ call[c].step = "calling"
  /\ AuthorizeMutation(r)
  /\ claims[Record(r)] # None /\ claims[Record(r)].request = r
  /\ answers' = [answers EXCEPT ![r] = @ \cup {claims[Record(r)].answer}]
  /\ End(c)
  /\ UNCHANGED <<rows, claims, audit>>

\* ...and another request under that key, or one without authority, none.
Refuse(c) ==
  LET r == call[c].request IN
  /\ call[c].step = "calling"
  /\ \/ ~AuthorizeMutation(r)
     \/ claims[Record(r)] # None /\ claims[Record(r)].request # r
  /\ End(c)
  /\ UNCHANGED <<rows, claims, history>>

\* A check that throws, a statement that fails, a lost connection: the
\* transaction leaves nothing, not even the record of its key.
Rollback(c) ==
  /\ HoldsClaim(c)
  /\ End(c)
  /\ UNCHANGED <<rows, claims, history>>

\* record, completeIdempotency and the commit.
CompleteIdempotency(c, answer) ==
  LET r == call[c].request IN
  /\ claims' = [claims EXCEPT ![Record(r)] = [request |-> r, answer |-> answer]]
  /\ audit' = [audit EXCEPT ![Record(r)] = @ + 1]
  /\ answers' = [answers EXCEPT ![r] = @ \cup {answer}]
  /\ End(c)

------------------------------------------------------------------------------
(* Services.                                                               *)

ServiceUnlockedAlways(s) == TRUE

\* lockServiceForUpdate waits for the calls that hold the row.
ServiceUnlocked(s) ==
  \A c \in Calls : call[c].step = "locked" /\ call[c].request.op \in {"update", "request"}
                     => call[c].request.target # s

LockService(c) ==
  LET r == call[c].request IN
  /\ call[c].step = "claimed" /\ r.op \in {"update", "request"}
  /\ ServiceUnlocked(r.target)
  /\ call' = [call EXCEPT ![c].step = "locked", ![c].service = service[r.target]]
  /\ UNCHANGED <<rows, claims, history>>

\* The slug is looked up before the insertion; the table's constraint on it
\* decides between two calls that both found it free.
CreateService(c) ==
  LET r == call[c].request IN
  /\ call[c].step = "claimed" /\ r.op = "create"
  /\ service[r.target] = NoService
  /\ service' = [service EXCEPT ![r.target] =
                  [status |-> r.offer.status, priced |-> r.offer.priced, version |-> 1,
                   agent |-> r.agent]]
  /\ CompleteIdempotency(c, ServiceView(1))
  /\ UNCHANGED <<invocation, job, results>>

UpdateService(c) ==
  LET r == call[c].request
      current == call[c].service IN
  /\ call[c].step = "locked" /\ r.op = "update"
  /\ current # NoService /\ current.agent = r.agent
  /\ service' = [service EXCEPT ![r.target] =
                  [status |-> r.offer.status, priced |-> r.offer.priced,
                   version |-> current.version + 1, agent |-> current.agent]]
  /\ CompleteIdempotency(c, ServiceView(current.version + 1))
  /\ UNCHANGED <<invocation, job, results>>

\* Only active services of other agents, and only free ones.
Requestable(s, buyer) == s.status = "active" /\ s.agent # buyer /\ ~s.priced

RequestService(c, j) ==
  LET r == call[c].request
      s == call[c].service IN
  /\ call[c].step = "locked" /\ r.op = "request"
  /\ Requestable(s, r.agent)
  /\ invocation[j] = NoInvocation
  /\ invocation' = [invocation EXCEPT ![j] =
                     [status |-> "created", dates |-> {}, provider |-> s.agent,
                      buyer |-> r.agent, service |-> r.target, version |-> s.version]]
  /\ job' = [job EXCEPT ![j] = [status |-> "created", dates |-> {}, provider |-> s.agent]]
  /\ CompleteIdempotency(c, InvocationView(j, "created"))
  /\ UNCHANGED <<service, results>>

------------------------------------------------------------------------------
(* Jobs.                                                                   *)

\* lockJobForUpdate waits for the calls that hold the row.
JobUnlocked(j) ==
  \A c \in Calls : call[c].step = "locked" /\ call[c].request.op \in JobOps
                     => call[c].request.target # j

Expected(op) ==
  CASE op = "accept" -> {"created"}
    [] op = "start"  -> {"accepted"}
    [] op = "submit" -> {"processing"}
    [] op = "fail"   -> {"created", "accepted", "processing"}
    [] op = "cancel" -> {"created", "accepted"}

\* requireProviderJob: the lock, then the checks, then the invocation.
RequireProviderJob(c) ==
  LET r == call[c].request IN
  /\ call[c].step = "claimed" /\ r.op \in ProviderOps
  /\ JobUnlocked(r.target)
  /\ job[r.target].provider = r.agent
  /\ job[r.target].status \in Expected(r.op)
  /\ invocation[r.target].status = job[r.target].status
  /\ call' = [call EXCEPT ![c].step = "locked", ![c].invocation = invocation[r.target]]
  /\ UNCHANGED <<rows, claims, history>>

\* cancelInvocation reads the invocation without a lock...
ReadInvocation(c) ==
  LET r == call[c].request IN
  /\ call[c].step = "claimed" /\ r.op = "cancel"
  /\ invocation[r.target].buyer = r.agent
  /\ invocation[r.target].status \in Expected("cancel")
  /\ call' = [call EXCEPT ![c].step = "read", ![c].invocation = invocation[r.target]]
  /\ UNCHANGED <<rows, claims, history>>

LockJobForCancelUnchecked(c) ==
  /\ call[c].step = "read"
  /\ JobUnlocked(call[c].request.target)
  /\ call' = [call EXCEPT ![c].step = "locked"]
  /\ UNCHANGED <<rows, claims, history>>

\* ...then locks the job, which must not have moved since.
LockJobForCancel(c) ==
  LET r == call[c].request IN
  /\ call[c].step = "read"
  /\ JobUnlocked(r.target)
  /\ job[r.target].status = call[c].invocation.status
  /\ call' = [call EXCEPT ![c].step = "locked"]
  /\ UNCHANGED <<rows, claims, history>>

\* The database's own guards: normic_guard_invocation...
InvocationGuard(from, to) ==
  \/ from = "created" /\ to \in {"accepted", "failed", "cancelled"}
  \/ from = "accepted" /\ to \in {"processing", "failed", "cancelled"}
  \/ from = "processing" /\ to \in {"completed", "failed"}

\* ...and the deferred constraint job_consistency.
JobConsistency == \A j \in Jobs : job'[j].status = invocation'[j].status

\* updateJob and updateInvocation: each writes the status and every date of
\* the copy its caller holds.
Update(c, to, date) ==
  LET j == call[c].request.target IN
  /\ InvocationGuard(invocation[j].status, to)
  /\ job' = [job EXCEPT ![j].status = to, ![j].dates = @ \cup {date}]
  /\ invocation' = [invocation EXCEPT
       ![j].status = to, ![j].dates = call[c].invocation.dates \cup {date}]
  /\ JobConsistency
  /\ CompleteIdempotency(c, InvocationView(j, to))
  /\ UNCHANGED service

Holding(c, op) == call[c].step = "locked" /\ call[c].request.op = op

AcceptJob(c) == Holding(c, "accept") /\ Update(c, "accepted", "accepted") /\ UNCHANGED results
StartJob(c) == Holding(c, "start") /\ Update(c, "processing", "processing") /\ UNCHANGED results
FailJob(c) == Holding(c, "fail") /\ Update(c, "failed", "completed") /\ UNCHANGED results
CancelInvocation(c) ==
  Holding(c, "cancel") /\ Update(c, "cancelled", "completed") /\ UNCHANGED results

\* createResult first; its row is unique per job and immutable.
SubmitResult(c) ==
  /\ Holding(c, "submit")
  /\ call[c].request.target \notin results
  /\ results' = results \cup {call[c].request.target}
  /\ Update(c, "completed", "completed")

------------------------------------------------------------------------------
Next ==
  \E c \in Calls :
    \/ \E r \in Requests : Call(c, r)
    \/ ClaimIdempotency(c)
    \/ Replay(c)
    \/ Refuse(c)
    \/ Rollback(c)
    \/ LockService(c)
    \/ CreateService(c)
    \/ UpdateService(c)
    \/ \E j \in Jobs : RequestService(c, j)
    \/ RequireProviderJob(c)
    \/ ReadInvocation(c)
    \/ LockJobForCancel(c)
    \/ AcceptJob(c)
    \/ StartJob(c)
    \/ SubmitResult(c)
    \/ FailJob(c)
    \/ CancelInvocation(c)

Spec == Init /\ [][Next]_vars

------------------------------------------------------------------------------
(* Properties.                                                             *)

CallRecord == [step: Steps, request: Requests \cup {None}, service: Service,
               invocation: Invocation]

\* Rows and calls have their types, and exactly the open calls have a request.
TypeOK ==
  /\ service \in ServiceRows
  /\ invocation \in InvocationRows
  /\ job \in JobRows
  /\ results \in ResultRows
  /\ claims \in IdempotencyRecords
  /\ call \in [Calls -> CallRecord]
  /\ \A c \in Calls : call[c].step = "idle" <=> call[c].request = None
  /\ audit \in AuditEvents
  /\ answers \in [Requests -> SUBSET View]

\* The two rows of a job always tell the same story: status, dates and
\* provider agree, and a result exists exactly when the job is completed.
\* cancelInvocation writes back an invocation it read before it held the lock.
RowsAgree ==
  \A j \in Jobs :
    /\ job[j].status = invocation[j].status
    /\ job[j].dates = invocation[j].dates
    /\ job[j].provider = invocation[j].provider
    /\ j \in results <=> job[j].status = "completed"

\* However often and however concurrently a request is repeated under its key,
\* it takes effect once, every answer is the first one, and a different request
\* under the same key gets none.
OncePerKey ==
  \A k \in Records :
    LET given == UNION {{<<r, a>> : a \in answers[r]} : r \in {q \in Requests : Record(q) = k}} IN
    /\ audit[k] <= 1
    /\ Cardinality(given) <= 1
    /\ given # {} => audit[k] = 1

\* A request is agreed on the terms that hold when it is created: the service
\* is active and free, its current version is the one recorded, and the buyer
\* is not the provider, although an owner may pause or price it at any time.
AgreementCurrent ==
  [][\A j \in Jobs :
       invocation[j] = NoInvocation /\ invocation'[j] # NoInvocation =>
         LET agreed == invocation'[j] IN
         /\ service[agreed.service].status = "active" /\ ~service[agreed.service].priced
         /\ agreed.version = service[agreed.service].version
         /\ agreed.provider = service[agreed.service].agent /\ agreed.buyer # agreed.provider]_vars
==============================================================================
