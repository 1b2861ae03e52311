-------------------------- MODULE OperationsProofs --------------------------
(***************************************************************************)
(* What holds of payment operations for every number of payments,          *)
(* operations and concurrent executions: an operation reaches the network  *)
(* once at most, under the policy it was prepared under, an action is sent *)
(* again only after the provider reported a failure, and a day's fundings  *)
(* stay within a limit the owner set.                                      *)
(***************************************************************************)
EXTENDS Operations, Server, Sums

\* An execution that committed the marker and has not ended.
PastMark == {"marked", "authorized", "sent", "threw"}

\* A policy that is enabled was written by its owner.
EnabledIsVersioned == policy.enabled => policy.version # 0

\* What an operation's status says of its call and of the provider's answers:
\* nothing was sent for one that is still prepared, one that failed was
\* reported failed, and only a call the provider knows, or knew before an event
\* confirmed the operation, was reported.
StatusMatchesCall ==
  \A o \in OpIds :
    /\ ops[o] = NoOp => call[o] = None /\ o \notin reported
    /\ Prepared(o) /\ ops[o].status = "prepared" =>
         call[o] = None /\ ~ops[o].callId /\ o \notin reported
    /\ Prepared(o) /\ ops[o].status = "failed" => o \in reported
    /\ o \in reported => ops[o].callId \/ ops[o].transaction
    /\ call[o] # "twice"

\* prepare refuses an action that has a live operation.
OneLiveOperation ==
  \A o, p \in OpIds :
    Live(o) /\ Live(p) /\ ops[o].payment = ops[p].payment /\ ops[o].action = ops[p].action => o = p

\* What an open ingest holds: the payment's row is locked, so the operation it
\* read is still the only one of its action that is live or may become so.
IngestMatches(i) ==
  LET found == reading[i].found IN
  /\ found # NoCopy =>
       /\ Prepared(found.id)
       /\ found.op.payment = i /\ found.op.action = reading[i].action
       /\ ops[found.id].payment = i /\ ops[found.id].action = reading[i].action
       /\ ops[found.id].version = found.op.version /\ ops[found.id].day = found.op.day
       /\ found.op.callId => ops[found.id].callId
  /\ \A o \in OpIds :
       Live(o) /\ ops[o].payment = i /\ ops[o].action = reading[i].action => o = found.id
IngestsMatch == \A i \in Payments : reading[i] # NoEvent => IngestMatches(i)

\* The copy an execution writes back is of the operation it names.
CopyOf(e) ==
  LET o == copy[e].id IN
  /\ copy[e] # NoCopy /\ Prepared(o)
  /\ copy[e].op.payment = ops[o].payment /\ copy[e].op.action = ops[o].action
  /\ copy[e].op.version = ops[o].version /\ copy[e].op.day = ops[o].day

\* Before the marker, a copy of a prepared operation is up to date.
ReadCopy(e) == ops[copy[e].id].status = "prepared" => copy[e].op = ops[copy[e].id]

\* After the marker, the copy is the prepared operation, and the committed one
\* is neither prepared nor known to the provider.
MarkedCopy(e) ==
  LET o == copy[e].id IN
  /\ copy[e].op.status = "prepared" /\ ~copy[e].op.callId
  /\ ops[o].status # "prepared" /\ ~ops[o].callId /\ o \notin reported
  /\ step[e] \in {"marked", "authorized"} => call[o] = None

\* The company's lock keeps the authorization as it was checked.
AuthorizedCopy(e) ==
  /\ lock = e
  /\ policy.enabled /\ policy.version = copy[e].op.version
  /\ session.live /\ session.version = policy.version

ExecutionsMatch ==
  \A e \in Executors :
    /\ step[e] # "idle" => CopyOf(e)
    /\ step[e] = "read" => ReadCopy(e)
    /\ step[e] \in PastMark => MarkedCopy(e)
    /\ step[e] \in {"authorized", "sent"} => AuthorizedCopy(e)

\* The marker admits one execution of an operation.
OneExecution ==
  \A e, f \in Executors :
    step[e] \in PastMark /\ step[f] \in PastMark /\ copy[e].id = copy[f].id => e = f

IInv ==
  /\ TypeOK /\ EnabledIsVersioned /\ SessionPinned
  /\ StatusMatchesCall /\ OneLiveOperation /\ IngestsMatch
  /\ ExecutionsMatch /\ OneExecution

------------------------------------------------------------------------------
(* Rows and copies.                                                        *)

Row == Op \cup {NoOp}
Copies == [id: OpIds, op: Op]

LEMMA RowTyped ==
  ASSUME TypeOK, NEW o \in OpIds, Prepared(o)
  PROVE  ops[o] \in Op
BY DEF TypeOK, Prepared

\* An execution under way has a copy, of an operation that exists.
LEMMA CopyTyped ==
  ASSUME IInv, NEW e \in Executors, step[e] # "idle"
  PROVE  /\ copy[e] \in Copies /\ copy[e].id \in OpIds /\ copy[e].op \in Op
         /\ Prepared(copy[e].id) /\ ops[copy[e].id] \in Op
<1>1. copy[e] # NoCopy /\ Prepared(copy[e].id)
  BY DEF IInv, ExecutionsMatch, CopyOf
<1>2. copy[e] \in Copies
  BY <1>1 DEF IInv, TypeOK, Copies
<1> QED BY <1>1, <1>2, RowTyped DEF IInv, Copies

\* What every write of a row keeps: an operation's terms, and that it is past
\* preparation.
Kept(o) ==
  Prepared(o) =>
    /\ ops'[o] # NoOp
    /\ ops'[o].payment = ops[o].payment /\ ops'[o].action = ops[o].action
    /\ ops'[o].version = ops[o].version /\ ops'[o].day = ops[o].day
    /\ ops'[o].status = "prepared" => ops'[o] = ops[o]
RowsKept ==
  /\ ops' \in [OpIds -> Row]
  /\ \A o \in OpIds : Kept(o)

\* What every step but prepare and ingest keeps besides.
NotRevived(o) ==
  /\ ops[o] = NoOp => ops'[o] = NoOp
  /\ Prepared(o) /\ ops[o].status = "failed" => ops'[o].status = "failed"
  /\ Prepared(o) /\ ops[o].callId => ops'[o].callId

\* No operation becomes live again, so one stays alone.
LEMMA KeptLive ==
  ASSUME IInv, RowsKept, \A o \in OpIds : NotRevived(o)
  PROVE  OneLiveOperation' /\ (reading' = reading => IngestsMatch')
<1>1. ASSUME NEW o \in OpIds, Live(o)'
      PROVE  /\ Live(o) /\ ops'[o].payment = ops[o].payment /\ ops'[o].action = ops[o].action
  BY <1>1 DEF Live, Prepared, RowsKept, Kept, NotRevived
<1>2. OneLiveOperation'
  BY <1>1 DEF IInv, OneLiveOperation
<1>3. ASSUME reading' = reading, NEW i \in Payments, reading[i] # NoEvent PROVE IngestMatches(i)'
  <2> DEFINE found == reading[i].found
  <2>1. IngestMatches(i)
    BY <1>3 DEF IInv, IngestsMatch
  <2>2. \A o \in OpIds :
          Live(o)' /\ ops'[o].payment = i /\ ops'[o].action = reading[i].action => o = found.id
    BY <1>1, <2>1 DEF IngestMatches
  <2>3. found # NoCopy => found.id \in OpIds
    BY <1>3 DEF IInv, TypeOK
  <2>4. ASSUME found # NoCopy
        PROVE  /\ ops'[found.id] # NoOp
               /\ ops'[found.id].payment = i /\ ops'[found.id].action = reading[i].action
               /\ ops'[found.id].version = found.op.version /\ ops'[found.id].day = found.op.day
               /\ found.op.callId => ops'[found.id].callId
    <3>1. Prepared(found.id) /\ Kept(found.id) /\ NotRevived(found.id)
      BY <2>1, <2>3, <2>4 DEF IngestMatches, RowsKept
    <3>2. /\ ops'[found.id] # NoOp
          /\ ops'[found.id].payment = ops[found.id].payment
          /\ ops'[found.id].action = ops[found.id].action
          /\ ops'[found.id].version = ops[found.id].version
          /\ ops'[found.id].day = ops[found.id].day
          /\ ops[found.id].callId => ops'[found.id].callId
      BY <3>1 DEF Kept, NotRevived
    <3> QED BY <2>1, <2>4, <3>2 DEF IngestMatches, Prepared
  <2> QED BY <1>3, <2>1, <2>2, <2>4 DEF IngestMatches, Prepared
<1> QED BY <1>2, <1>3 DEF IngestsMatch

\* One row written.
LEMMA RowWritten ==
  ASSUME TypeOK, NEW o \in OpIds, NEW row \in Op, ops' = [ops EXCEPT ![o] = row]
  PROVE  /\ ops' \in [OpIds -> Row] /\ ops'[o] = row
         /\ \A p \in OpIds \ {o} : ops'[p] = ops[p]
BY DEF TypeOK, Row

LEMMA RowIsNotNoOp ==
  ASSUME NEW row \in Op
  PROVE  row # NoOp
BY DEF Op, NoOp, Statuses, None

------------------------------------------------------------------------------
(* The steps.                                                              *)

LEMMA InitIInv == Init => IInv
<1> SUFFICES ASSUME Init PROVE IInv
  OBVIOUS
<1>1. TypeOK
  BY OperationsAssumption
     DEF Init, TypeOK, NoSession, NoOp, NoCopy, NoEvent, None, States
<1>2. EnabledIsVersioned /\ SessionPinned /\ ExecutionsMatch /\ OneExecution
  BY DEF Init, EnabledIsVersioned, SessionPinned, NoSession, ExecutionsMatch, OneExecution, PastMark
<1>3. StatusMatchesCall /\ OneLiveOperation /\ IngestsMatch
  BY DEF Init, StatusMatchesCall, OneLiveOperation, IngestsMatch, Live, Prepared, None
<1> QED BY <1>1, <1>2, <1>3 DEF IInv

\* The owner and the clock: no call to execute moves, and while one holds the
\* lock neither the policy nor the session's version does.
LEMMA AuthoritySteps ==
  ASSUME IInv, UNCHANGED <<ingesting, ops, call, running, reported>>,
         TypeOK', EnabledIsVersioned', SessionPinned',
         \/ lock = None
         \/ policy' = policy /\ session'.live = session.live /\ session'.version = session.version
  PROVE  IInv'
<1>1. UNCHANGED <<ops, call, step, copy, lock, reading, reported>>
  BY DEF running, ingesting
<1>2. StatusMatchesCall' /\ OneLiveOperation' /\ OneExecution' /\ IngestsMatch'
  <2>1. StatusMatchesCall' /\ OneLiveOperation' /\ OneExecution'
    BY <1>1 DEF IInv, StatusMatchesCall, OneLiveOperation, OneExecution, Live, Prepared
  <2>2. ASSUME NEW i \in Payments, reading'[i] # NoEvent PROVE IngestMatches(i)'
    BY <1>1, <2>2 DEF IInv, IngestsMatch, IngestMatches, Live, Prepared
  <2> QED BY <2>1, <2>2 DEF IngestsMatch
<1>3. ASSUME NEW e \in Executors
      PROVE  /\ (step[e] # "idle" => CopyOf(e))'
             /\ (step[e] = "read" => ReadCopy(e))'
             /\ (step[e] \in PastMark => MarkedCopy(e))'
             /\ (step[e] \in {"authorized", "sent"} => AuthorizedCopy(e))'
  <2>1. (step[e] # "idle" => CopyOf(e))' /\ (step[e] = "read" => ReadCopy(e))'
        /\ (step[e] \in PastMark => MarkedCopy(e))'
    BY <1>1 DEF IInv, ExecutionsMatch, CopyOf, ReadCopy, MarkedCopy, Prepared
  <2>2. (step[e] \in {"authorized", "sent"} => AuthorizedCopy(e))'
    BY <1>1, OperationsAssumption DEF IInv, ExecutionsMatch, AuthorizedCopy
  <2> QED BY <2>1, <2>2
<1> QED BY <1>2, <1>3 DEF IInv, ExecutionsMatch

LEMMA OwnerSteps ==
  ASSUME IInv,
         \/ \E enabled \in BOOLEAN, limit \in Limits : UpdatePolicy(enabled, limit)
         \/ PrepareSessionAuthorization \/ RevokeSession \/ SessionExpires \/ NextDay
         \/ \E v \in 1..MaxVersion : RegisterSession(v)
  PROVE  IInv'
<1>1. TypeOK /\ EnabledIsVersioned /\ SessionPinned /\ policy.version \in 0..MaxVersion
  BY DEF IInv, TypeOK
<1>2. ASSUME NEW enabled \in BOOLEAN, NEW limit \in Limits, UpdatePolicy(enabled, limit)
      PROVE  IInv'
  <2>1. policy' \in [enabled: BOOLEAN, version: 0..MaxVersion, maxPerDay: Limits \cup {0}]
        /\ policy'.version # 0
    BY <1>1, <1>2, OperationsAssumption DEF UpdatePolicy
  <2>2. TypeOK' /\ EnabledIsVersioned' /\ SessionPinned'
    BY <1>1, <1>2, <2>1, OperationsAssumption
       DEF UpdatePolicy, TypeOK, EnabledIsVersioned, SessionPinned, NoSession, running, ingesting
  <2> QED BY <1>2, <2>2, AuthoritySteps DEF UpdatePolicy, CompanyUnlocked
<1>3. CASE PrepareSessionAuthorization
  <2>0. policy.version \in 1..MaxVersion
    BY <1>1, <1>3, OperationsAssumption DEF PrepareSessionAuthorization, EnabledIsVersioned
  <2>1. TypeOK' /\ EnabledIsVersioned' /\ SessionPinned'
    BY <1>1, <1>3, <2>0
       DEF PrepareSessionAuthorization, TypeOK, EnabledIsVersioned, SessionPinned, running, ingesting
  <2> QED BY <1>3, <2>1, AuthoritySteps DEF PrepareSessionAuthorization, CompanyUnlocked
<1>4. CASE RevokeSession
  <2>0. policy \in [enabled: BOOLEAN, version: 0..MaxVersion, maxPerDay: Limits \cup {0}]
        /\ policy.version + 1 \in 0..MaxVersion
    BY <1>1, <1>4, OperationsAssumption DEF RevokeSession, TypeOK
  <2>1. policy' \in [enabled: BOOLEAN, version: 0..MaxVersion, maxPerDay: Limits \cup {0}]
        /\ ~policy'.enabled
    BY <1>4, <2>0 DEF RevokeSession
  <2>2. TypeOK' /\ EnabledIsVersioned' /\ SessionPinned'
    BY <1>1, <1>4, <2>1, OperationsAssumption
       DEF RevokeSession, TypeOK, EnabledIsVersioned, SessionPinned, NoSession, running, ingesting
  <2> QED BY <1>4, <2>2, AuthoritySteps DEF RevokeSession, CompanyUnlocked
<1>5. CASE SessionExpires
  <2>1. session' \in [live: BOOLEAN, version: 0..MaxVersion, expired: BOOLEAN]
        /\ session'.live = session.live /\ session'.version = session.version
    BY <1>1, <1>5 DEF SessionExpires, TypeOK
  <2>2. TypeOK' /\ EnabledIsVersioned' /\ SessionPinned'
    BY <1>1, <1>5, <2>1 DEF SessionExpires, TypeOK, EnabledIsVersioned, SessionPinned, running, ingesting
  <2> QED BY <1>5, <2>1, <2>2, AuthoritySteps DEF SessionExpires
<1>6. CASE NextDay
  <2>1. TypeOK' /\ EnabledIsVersioned' /\ SessionPinned'
    BY <1>1, <1>6, OperationsAssumption
       DEF NextDay, TypeOK, EnabledIsVersioned, SessionPinned, running, ingesting, authority
  <2> QED BY <1>6, <2>1, AuthoritySteps DEF NextDay, authority
<1>7. ASSUME NEW v \in 1..MaxVersion, RegisterSession(v) PROVE IInv'
  <2>1. session' \in [live: BOOLEAN, version: 0..MaxVersion, expired: BOOLEAN]
        /\ session'.version = v /\ policy.enabled /\ v = policy.version
    BY <1>1, <1>7, OperationsAssumption DEF RegisterSession, ValidSession
  <2>2. TypeOK' /\ EnabledIsVersioned' /\ SessionPinned'
    BY <1>1, <1>7, <2>1
       DEF RegisterSession, TypeOK, EnabledIsVersioned, SessionPinned, running, ingesting
  <2> QED BY <1>7, <2>2, AuthoritySteps DEF RegisterSession, CompanyUnlocked
<1> QED BY <1>2, <1>3, <1>4, <1>5, <1>6, <1>7

\* What the invariant says of one execution.
Match(e) ==
  /\ step[e] # "idle" => CopyOf(e)
  /\ step[e] = "read" => ReadCopy(e)
  /\ step[e] \in PastMark => MarkedCopy(e)
  /\ step[e] \in {"authorized", "sent"} => AuthorizedCopy(e)

LEMMA MatchOf ==
  ASSUME IInv, NEW e \in Executors
  PROVE  Match(e)
BY DEF IInv, ExecutionsMatch, Match

\* Rows that are kept leave another execution matched, if the operation it has
\* marked stays so.
LEMMA OtherMatch ==
  ASSUME IInv, UNCHANGED authority, RowsKept, NEW f \in Executors,
         step'[f] = step[f], copy'[f] = copy[f], lock = f => lock' = f,
         step[f] \in PastMark =>
           /\ ~ops'[copy[f].id].callId /\ copy[f].id \notin reported'
           /\ step[f] \in {"marked", "authorized"} => call'[copy[f].id] = None
  PROVE  Match(f)'
<1>1. CASE step[f] = "idle"
  BY <1>1 DEF Match, PastMark
<1>2. CASE step[f] # "idle"
  <2>1. Match(f) /\ copy[f].id \in OpIds /\ Prepared(copy[f].id)
    BY <1>2, MatchOf, CopyTyped
  <2>2. Kept(copy[f].id)
    BY <2>1 DEF RowsKept
  <2>3. CopyOf(f)'
    BY <1>2, <2>1, <2>2 DEF Match, CopyOf, Kept, Prepared
  <2>4. step[f] = "read" => ReadCopy(f)'
    BY <2>1, <2>2 DEF Match, ReadCopy, Kept
  <2>5. step[f] \in PastMark => MarkedCopy(f)'
    BY <2>1, <2>2 DEF Match, MarkedCopy, Kept
  <2>6. step[f] \in {"authorized", "sent"} => AuthorizedCopy(f)'
    BY <2>1 DEF Match, AuthorizedCopy, authority
  <2> QED BY <2>3, <2>4, <2>5, <2>6 DEF Match
<1> QED BY <1>1, <1>2

\* A step of one execution, or of none, with the rows kept.
LEMMA ExecutionSteps ==
  ASSUME IInv, UNCHANGED <<day, authority>>, TypeOK', StatusMatchesCall',
         RowsKept, OneLiveOperation', IngestsMatch',
         NEW moved \in SUBSET Executors,
         \A e \in moved :
           /\ Match(e)'
           /\ step'[e] \in PastMark =>
                \A f \in Executors : step'[f] \in PastMark /\ copy'[f].id = copy'[e].id => f = e,
         \A f \in Executors \ moved :
           /\ step'[f] = step[f] /\ copy'[f] = copy[f] /\ (lock = f => lock' = f)
           /\ step[f] \in PastMark =>
                /\ ~ops'[copy[f].id].callId /\ copy[f].id \notin reported'
                /\ step[f] \in {"marked", "authorized"} => call'[copy[f].id] = None
  PROVE  IInv'
<1>1. EnabledIsVersioned' /\ SessionPinned'
  BY DEF IInv, authority, EnabledIsVersioned, SessionPinned
<1>2. ASSUME NEW f \in Executors PROVE Match(f)'
  <2>1. CASE f \in moved
    BY <2>1
  <2>2. CASE f \notin moved
    BY <2>2, OtherMatch
  <2> QED BY <2>1, <2>2
<1>3. ExecutionsMatch'
  BY <1>2 DEF ExecutionsMatch, Match
<1>4. OneExecution'
  BY DEF IInv, OneExecution
<1> QED BY <1>1, <1>3, <1>4 DEF IInv

LEMMA OneMoves ==
  ASSUME IInv, UNCHANGED <<day, authority>>, TypeOK', StatusMatchesCall',
         RowsKept, OneLiveOperation', IngestsMatch',
         NEW e \in Executors, Match(e)',
         step'[e] \in PastMark =>
           \A f \in Executors : step'[f] \in PastMark /\ copy'[f].id = copy'[e].id => f = e,
         \A f \in Executors \ {e} :
           /\ step'[f] = step[f] /\ copy'[f] = copy[f] /\ (lock = f => lock' = f)
           /\ step[f] \in PastMark =>
                /\ ~ops'[copy[f].id].callId /\ copy[f].id \notin reported'
                /\ step[f] \in {"marked", "authorized"} => call'[copy[f].id] = None
  PROVE  IInv'
<1> DEFINE moved == {e}
<1>1. moved \in SUBSET Executors
  OBVIOUS
<1>2. \A x \in moved :
        /\ Match(x)'
        /\ step'[x] \in PastMark =>
             \A f \in Executors : step'[f] \in PastMark /\ copy'[f].id = copy'[x].id => f = x
  OBVIOUS
<1>3. \A f \in Executors \ moved : f # e
  OBVIOUS
<1> HIDE DEF moved
<1> QED BY <1>1, <1>2, <1>3, ExecutionSteps

\* No row is written: every row is kept, every marked copy as it was.
LEMMA RowsUnchanged ==
  ASSUME IInv, ops' = ops, reported' = reported
  PROVE  /\ RowsKept /\ OneLiveOperation' /\ (reading' = reading => IngestsMatch')
         /\ \A f \in Executors : step[f] \in PastMark =>
              /\ ~ops'[copy[f].id].callId /\ copy[f].id \notin reported'
              /\ step[f] \in {"marked", "authorized"} => call[copy[f].id] = None
         /\ call' = call => StatusMatchesCall'
<1>0. RowsKept /\ \A o \in OpIds : NotRevived(o)
  BY DEF IInv, TypeOK, RowsKept, Kept, Row, Prepared, NotRevived
<1>1. RowsKept /\ OneLiveOperation' /\ (reading' = reading => IngestsMatch')
  BY <1>0, KeptLive
<1>2. ASSUME NEW f \in Executors, step[f] \in PastMark
      PROVE  /\ ~ops'[copy[f].id].callId /\ copy[f].id \notin reported'
             /\ step[f] \in {"marked", "authorized"} => call[copy[f].id] = None
  BY <1>2, MatchOf DEF Match, MarkedCopy
<1>3. call' = call => StatusMatchesCall'
  BY DEF IInv, StatusMatchesCall, Prepared
<1> QED BY <1>1, <1>2, <1>3

LEMMA BeginExecuteStep ==
  ASSUME IInv, NEW e \in Executors, NEW o \in OpIds, BeginExecute(e, o)
  PROVE  IInv'
<1>1. ops[o] \in Op /\ Prepared(o) /\ TypeOK
  BY RowTyped DEF BeginExecute, IInv
<1>2. /\ step'[e] = "read" /\ copy'[e] = [id |-> o, op |-> ops[o]]
      /\ \A f \in Executors \ {e} : step'[f] = step[f] /\ copy'[f] = copy[f]
      /\ UNCHANGED <<day, authority, payment, reading, reported, ops, call, lock>>
  BY <1>1 DEF BeginExecute, TypeOK, ingesting
<1>3. TypeOK'
  BY <1>1 DEF BeginExecute, TypeOK, authority, ingesting
<1>4. Match(e)'
  <2>1. copy'[e].id = o /\ copy'[e].op = ops[o] /\ copy'[e] # NoCopy
    BY <1>2 DEF NoCopy
  <2> QED BY <1>1, <1>2, <2>1 DEF Match, CopyOf, ReadCopy, PastMark, Prepared
<1> QED BY <1>2, <1>3, <1>4, RowsUnchanged, OneMoves DEF PastMark

\* Refused before the marker, or dead: nothing but the copy and the lock goes.
LEMMA StoppedSteps ==
  ASSUME IInv, NEW e \in Executors, Refuse(e) \/ Crash(e)
  PROVE  IInv'
<1>0. TypeOK /\ step[e] # "idle"
  BY DEF Refuse, Crash, IInv
<1>1. /\ step' = [step EXCEPT ![e] = "idle"] /\ copy' = [copy EXCEPT ![e] = NoCopy]
      /\ lock' = lock \/ (lock = e /\ lock' = None)
      /\ UNCHANGED <<day, authority, payment, reading, reported, ops, call>>
  BY DEF Refuse, Crash, Finish, ingesting
<1>2. /\ step'[e] = "idle"
      /\ \A f \in Executors \ {e} : step'[f] = step[f] /\ copy'[f] = copy[f]
      /\ \A f \in Executors \ {e} : lock = f => lock' = f
  BY <1>0, <1>1 DEF TypeOK
<1>3. TypeOK'
  BY <1>0, <1>1 DEF TypeOK, authority
<1>4. Match(e)'
  BY <1>2 DEF Match, PastMark
<1> QED BY <1>1, <1>2, <1>3, <1>4, RowsUnchanged, OneMoves DEF PastMark

LEMMA AuthorizeStep ==
  ASSUME IInv, NEW e \in Executors, Authorize(e)
  PROVE  IInv'
<1>1. /\ TypeOK /\ step[e] = "marked" /\ lock = None /\ lock' = e
      /\ step' = [step EXCEPT ![e] = "authorized"]
      /\ UNCHANGED <<day, authority, payment, reading, reported, ops, call, copy>>
      /\ policy.enabled /\ session.live /\ session.version = policy.version
      /\ policy.version = copy[e].op.version
  BY DEF Authorize, IInv, ingesting, CompanyUnlocked, Authorized, ValidSession
<1>2. step'[e] = "authorized" /\ \A f \in Executors \ {e} : step'[f] = step[f] /\ lock # f
  BY <1>1, OperationsAssumption DEF TypeOK
<1>3. TypeOK'
  BY <1>1 DEF TypeOK, authority
<1>4. Match(e)
  BY MatchOf
<1>5. Match(e)'
  <2>1. CopyOf(e)' /\ MarkedCopy(e)'
    BY <1>1, <1>2, <1>4 DEF Match, CopyOf, MarkedCopy, PastMark, Prepared
  <2>2. AuthorizedCopy(e)'
    BY <1>1 DEF AuthorizedCopy, authority
  <2> QED BY <1>2, <2>1, <2>2 DEF Match
<1>6. \A f \in Executors : step'[f] \in PastMark /\ copy'[f].id = copy'[e].id => f = e
  BY <1>1, <1>2 DEF IInv, OneExecution, PastMark
<1> QED BY <1>1, <1>2, <1>3, <1>5, <1>6, RowsUnchanged, OneMoves

\* The execution that broadcasts is the only one of its operation, and nothing
\* was sent for it.
LEMMA BroadcastStep ==
  ASSUME IInv, NEW e \in Executors, Broadcast(e)
  PROVE  IInv'
<1> DEFINE o == copy[e].id
<1>1. /\ TypeOK /\ step[e] = "authorized" /\ step' = [step EXCEPT ![e] = "sent"]
      /\ UNCHANGED <<day, authority, payment, reading, reported, ops, copy, lock>>
  BY DEF Broadcast, IInv, ingesting
<1>2. Match(e) /\ o \in OpIds /\ Prepared(o) /\ call[o] = None /\ ops[o].status # "prepared"
  BY <1>1, MatchOf, CopyTyped DEF Match, MarkedCopy, PastMark
<1>3. call' = [call EXCEPT ![o] = "once"]
  BY <1>2 DEF Broadcast, IInv, StatusMatchesCall, None
<1>4. step'[e] = "sent" /\ \A f \in Executors \ {e} : step'[f] = step[f]
  BY <1>1 DEF TypeOK
<1>5. TypeOK'
  BY <1>1, <1>2, <1>3 DEF TypeOK, authority
<1>6. StatusMatchesCall'
  BY <1>1, <1>2, <1>3 DEF IInv, TypeOK, StatusMatchesCall, Prepared
<1>7. Match(e)'
  BY <1>1, <1>2, <1>4 DEF Match, CopyOf, MarkedCopy, AuthorizedCopy, PastMark, Prepared, authority
<1>8. \A f \in Executors : step[f] \in PastMark /\ copy[f].id = copy[e].id => f = e
  BY <1>1 DEF IInv, OneExecution, PastMark
<1>9. ASSUME NEW f \in Executors \ {e}, step[f] \in PastMark
      PROVE  /\ ~ops'[copy[f].id].callId /\ copy[f].id \notin reported'
             /\ step[f] \in {"marked", "authorized"} => call'[copy[f].id] = None
  <2>1. copy[f].id \in OpIds /\ copy[f].id # o
    BY <1>8, <1>9, CopyTyped DEF PastMark
  <2> QED BY <1>1, <1>3, <1>9, <2>1, RowsUnchanged DEF TypeOK
<1> HIDE DEF o
<1> QED BY <1>1, <1>4, <1>5, <1>6, <1>7, <1>8, <1>9, RowsUnchanged, OneMoves DEF PastMark

LEMMA ThrowStep ==
  ASSUME IInv, NEW e \in Executors, Throw(e)
  PROVE  IInv'
<1>1. /\ TypeOK /\ step[e] \in {"marked", "authorized", "sent"}
      /\ step' = [step EXCEPT ![e] = "threw"]
      /\ lock' = lock \/ (lock = e /\ lock' = None)
      /\ UNCHANGED <<day, authority, payment, reading, reported, ops, call, copy>>
  BY DEF Throw, IInv, ingesting
<1>2. step'[e] = "threw" /\ \A f \in Executors \ {e} : step'[f] = step[f] /\ (lock = f => lock' = f)
  BY <1>1 DEF TypeOK
<1>3. TypeOK'
  BY <1>1 DEF TypeOK, authority
<1>4. Match(e)
  BY MatchOf
<1>5. Match(e)'
  BY <1>1, <1>2, <1>4 DEF Match, CopyOf, MarkedCopy, PastMark, Prepared
<1>6. \A f \in Executors : step'[f] \in PastMark /\ copy'[f].id = copy'[e].id => f = e
  BY <1>1, <1>2 DEF IInv, OneExecution, PastMark
<1> QED BY <1>1, <1>2, <1>3, <1>5, <1>6, RowsUnchanged, OneMoves

\* One row written with its terms kept, and not back to prepared or live.
LEMMA OneRowKept ==
  ASSUME IInv, NEW o \in OpIds, Prepared(o), NEW row \in Op, ops' = [ops EXCEPT ![o] = row],
         row.payment = ops[o].payment, row.action = ops[o].action,
         row.version = ops[o].version, row.day = ops[o].day,
         row.status # "prepared", ops[o].status = "failed" => row.status = "failed",
         ops[o].callId => row.callId, reading' = reading
  PROVE  /\ RowsKept /\ OneLiveOperation' /\ IngestsMatch' /\ ops'[o] = row
         /\ \A p \in OpIds \ {o} : ops'[p] = ops[p]
<1>1. ops' \in [OpIds -> Row] /\ ops'[o] = row /\ \A p \in OpIds \ {o} : ops'[p] = ops[p]
  BY RowWritten DEF IInv
<1>2. row # NoOp
  BY RowIsNotNoOp
<1>3. ASSUME NEW p \in OpIds PROVE Kept(p)
  <2>1. CASE p = o
    BY <1>1, <1>2, <2>1 DEF Kept
  <2>2. CASE p # o
    BY <1>1, <2>2 DEF Kept, Prepared
  <2> QED BY <2>1, <2>2
<1>4. \A p \in OpIds : NotRevived(p)
  BY <1>1 DEF NotRevived, Prepared
<1>5. RowsKept
  BY <1>1, <1>3 DEF RowsKept
<1> QED BY <1>1, <1>4, <1>5, KeptLive

LEMMA MarkStep ==
  ASSUME IInv, NEW e \in Executors, Mark(e)
  PROVE  IInv'
<1> DEFINE o == copy[e].id
           row == [ops[o] EXCEPT !.status = "broadcasting"]
<1>1. /\ TypeOK /\ step[e] = "read" /\ ops[o].status = "prepared"
      /\ step' = [step EXCEPT ![e] = "marked"]
      /\ UNCHANGED <<day, authority, payment, reading, reported, call, copy, lock>>
      /\ ops' = [ops EXCEPT ![o] = row]
  BY DEF Mark, IInv, ingesting
<1>2. Match(e) /\ o \in OpIds /\ Prepared(o) /\ ops[o] \in Op
  BY <1>1, MatchOf, CopyTyped
<1>3. copy[e].op = ops[o] /\ call[o] = None /\ ~ops[o].callId /\ o \notin reported
  BY <1>1, <1>2 DEF Match, ReadCopy, IInv, StatusMatchesCall
<1>4. /\ row \in Op /\ row.status = "broadcasting" /\ row.callId = ops[o].callId
      /\ row.payment = ops[o].payment /\ row.action = ops[o].action
      /\ row.version = ops[o].version /\ row.day = ops[o].day
  BY <1>2 DEF Op, Statuses
<1> HIDE DEF row
<1>5. RowsKept /\ OneLiveOperation' /\ IngestsMatch' /\ ops'[o] = row /\ \A p \in OpIds \ {o} : ops'[p] = ops[p]
  BY <1>1, <1>2, <1>4, OneRowKept
<1>6. step'[e] = "marked" /\ \A f \in Executors \ {e} : step'[f] = step[f]
  BY <1>1 DEF TypeOK
<1>7. TypeOK'
  BY <1>1, <1>5 DEF TypeOK, authority, RowsKept, Row
<1>8. row # NoOp
  BY <1>4, RowIsNotNoOp
<1>9. StatusMatchesCall'
  BY <1>1, <1>2, <1>4, <1>5, <1>8 DEF IInv, StatusMatchesCall, Prepared
<1>10. Match(e)'
  BY <1>1, <1>2, <1>3, <1>4, <1>5, <1>6, <1>8
     DEF Match, CopyOf, MarkedCopy, PastMark, Prepared
<1>11. \A f \in Executors \ {e} : step[f] \in PastMark => copy[f].id # o
  BY <1>1, MatchOf DEF Match, MarkedCopy
<1>12. ASSUME NEW f \in Executors \ {e}, step[f] \in PastMark
       PROVE  /\ ~ops'[copy[f].id].callId /\ copy[f].id \notin reported'
              /\ step[f] \in {"marked", "authorized"} => call'[copy[f].id] = None
  <2>1. Match(f) /\ copy[f].id \in OpIds /\ copy[f].id # o
    BY <1>11, <1>12, MatchOf, CopyTyped DEF PastMark
  <2> QED BY <1>1, <1>5, <1>12, <2>1 DEF Match, MarkedCopy
<1>13. \A f \in Executors : step'[f] \in PastMark /\ copy'[f].id = copy'[e].id => f = e
  BY <1>1, <1>6, <1>11
<1> HIDE DEF o
<1> QED BY <1>1, <1>5, <1>6, <1>7, <1>9, <1>10, <1>12, <1>13, OneMoves

\* An execution ends with its operation's row: submitted, or unknown.
LEMMA SavedSteps ==
  ASSUME IInv, NEW e \in Executors, Record(e) \/ Catch(e)
  PROVE  IInv'
<1> DEFINE o == copy[e].id
<1> DEFINE row == IF Record(e) THEN [copy[e].op EXCEPT !.status = "submitted", !.callId = TRUE]
                  ELSE [copy[e].op EXCEPT !.status = "unknown"]
<1>1. /\ TypeOK /\ step[e] \in PastMark
      /\ step' = [step EXCEPT ![e] = "idle"] /\ copy' = [copy EXCEPT ![e] = NoCopy]
      /\ lock' = lock \/ (lock = e /\ lock' = None)
      /\ UNCHANGED <<day, authority, payment, reading, reported, call>>
      /\ ops' = [ops EXCEPT ![o] = row]
  BY DEF Record, Catch, Finish, IInv, PastMark, ingesting
<1>2. /\ Match(e) /\ o \in OpIds /\ Prepared(o) /\ ops[o] \in Op /\ copy[e].op \in Op
      /\ CopyOf(e) /\ MarkedCopy(e)
  BY <1>1, MatchOf, CopyTyped DEF Match, PastMark
<1>3. /\ row \in Op /\ row.status \in {"submitted", "unknown"}
      /\ row.payment = copy[e].op.payment /\ row.action = copy[e].op.action
      /\ row.version = copy[e].op.version /\ row.day = copy[e].op.day
  BY <1>2 DEF Op, Statuses
<1> HIDE DEF row
<1>4. ops[o].status # "failed" /\ ops[o].status # "prepared" /\ ~ops[o].callId /\ o \notin reported
  BY <1>2 DEF MarkedCopy, IInv, StatusMatchesCall
<1>5. RowsKept /\ OneLiveOperation' /\ IngestsMatch' /\ ops'[o] = row /\ \A p \in OpIds \ {o} : ops'[p] = ops[p]
  BY <1>1, <1>2, <1>3, <1>4, OneRowKept DEF CopyOf
<1>6. step'[e] = "idle" /\ \A f \in Executors \ {e} : step'[f] = step[f] /\ copy'[f] = copy[f]
  BY <1>1 DEF TypeOK
<1>7. TypeOK'
  BY <1>1, <1>5 DEF TypeOK, authority, RowsKept, Row
<1>8. row # NoOp
  BY <1>3, RowIsNotNoOp
<1>9. StatusMatchesCall'
  BY <1>1, <1>2, <1>3, <1>4, <1>5, <1>8 DEF IInv, StatusMatchesCall, Prepared
<1>10. Match(e)'
  BY <1>6 DEF Match, PastMark
<1>11. ASSUME NEW f \in Executors \ {e}, step[f] \in PastMark
       PROVE  /\ ~ops'[copy[f].id].callId /\ copy[f].id \notin reported'
              /\ step[f] \in {"marked", "authorized"} => call'[copy[f].id] = None
  <2>1. Match(f) /\ copy[f].id \in OpIds /\ copy[f].id # o
    BY <1>1, <1>11, MatchOf, CopyTyped DEF PastMark, IInv, OneExecution
  <2> QED BY <1>1, <1>5, <1>11, <2>1 DEF Match, MarkedCopy
<1>12. \A f \in Executors \ {e} : lock = f => lock' = f
  BY <1>1
<1>13. step'[e] \notin PastMark
  BY <1>6 DEF PastMark
<1> HIDE DEF o
<1> QED BY <1>1, <1>5, <1>6, <1>7, <1>9, <1>10, <1>11, <1>12, <1>13, OneMoves

\* The provider reports a call it was given: no execution is past its marker
\* any more.
LEMMA ReportStep ==
  ASSUME IInv, NEW o \in OpIds, ProviderReportsFailed(o)
  PROVE  IInv'
<1>1. /\ TypeOK /\ Prepared(o) /\ ops[o].callId /\ reported' = reported \cup {o}
      /\ UNCHANGED <<day, authority, payment, reading, ops, call, step, copy, lock>>
  BY DEF ProviderReportsFailed, IInv, running, ingesting
<1>2. TypeOK'
  BY <1>1 DEF TypeOK, authority
<1>3. StatusMatchesCall'
  BY <1>1 DEF IInv, StatusMatchesCall, Prepared
<1>4. RowsKept /\ \A p \in OpIds : NotRevived(p)
  BY <1>1 DEF TypeOK, RowsKept, Kept, Row, Prepared, NotRevived
<1>5. OneLiveOperation' /\ IngestsMatch'
  BY <1>1, <1>4, KeptLive
<1>6. ASSUME NEW f \in Executors, step[f] \in PastMark
      PROVE  /\ ~ops'[copy[f].id].callId /\ copy[f].id \notin reported'
             /\ step[f] \in {"marked", "authorized"} => call'[copy[f].id] = None
  <2>1. MarkedCopy(f) /\ copy[f].id \in OpIds
    BY <1>6, MatchOf, CopyTyped DEF PastMark, Match
  <2> QED BY <1>1, <1>6, <2>1 DEF MarkedCopy
<1> DEFINE moved == {}
<1>7. moved \in SUBSET Executors /\ \A e \in moved : FALSE
  OBVIOUS
<1> HIDE DEF moved
<1> QED BY <1>1, <1>2, <1>3, <1>4, <1>5, <1>6, <1>7, ExecutionSteps

\* An operation is given up only when the provider reported it.
LEMMA ReconcileFailedStep ==
  ASSUME IInv, NEW o \in OpIds, ReconcileFailed(o)
  PROVE  IInv'
<1> DEFINE row == [ops[o] EXCEPT !.status = "failed"]
<1>1. /\ TypeOK /\ Prepared(o) /\ ops[o] \in Op /\ ops[o].callId /\ o \in reported
      /\ ops' = [ops EXCEPT ![o] = row]
      /\ UNCHANGED <<day, authority, payment, reading, reported, call, step, copy, lock>>
  <2>1. TypeOK /\ o \in reported /\ ~ops[o].transaction /\ ops[o] # NoOp /\ ops[o].callId
    BY DEF ReconcileFailed, IInv, StatusMatchesCall
  <2> QED BY <2>1, RowTyped DEF ReconcileFailed, running, ingesting, Prepared
<1>2. /\ row \in Op /\ row.status = "failed" /\ row.callId = ops[o].callId
      /\ row.payment = ops[o].payment /\ row.action = ops[o].action
      /\ row.version = ops[o].version /\ row.day = ops[o].day
  BY <1>1 DEF Op, Statuses
<1> HIDE DEF row
<1>3. /\ RowsKept /\ OneLiveOperation' /\ IngestsMatch' /\ ops'[o] = row
      /\ \A p \in OpIds \ {o} : ops'[p] = ops[p]
  BY <1>1, <1>2, OneRowKept
<1>4. TypeOK'
  BY <1>1, <1>3 DEF TypeOK, authority, RowsKept, Row
<1>5. row # NoOp
  BY <1>2, RowIsNotNoOp
<1>6. StatusMatchesCall'
  BY <1>1, <1>2, <1>3, <1>5 DEF IInv, StatusMatchesCall, Prepared
<1>7. ASSUME NEW f \in Executors, step[f] \in PastMark
      PROVE  /\ ~ops'[copy[f].id].callId /\ copy[f].id \notin reported'
             /\ step[f] \in {"marked", "authorized"} => call'[copy[f].id] = None
  <2>1. MarkedCopy(f) /\ copy[f].id \in OpIds
    BY <1>7, MatchOf, CopyTyped DEF PastMark, Match
  <2>2. copy[f].id # o
    BY <1>1, <2>1 DEF MarkedCopy
  <2> QED BY <1>1, <1>3, <1>7, <2>1, <2>2 DEF MarkedCopy
<1> DEFINE moved == {}
<1>8. moved \in SUBSET Executors /\ \A e \in moved : FALSE
  OBVIOUS
<1> HIDE DEF moved
<1> QED BY <1>1, <1>3, <1>4, <1>6, <1>7, <1>8, ExecutionSteps

\* An ingest begins or is rolled back: no row is written.
LEMMA ReadingSteps ==
  ASSUME IInv, NEW i \in Payments,
         (\E action \in Events : ReadEvent(i, action)) \/ RollBack(i)
  PROVE  IInv'
<1> DEFINE Found == [id: OpIds, op: Op] \cup {NoCopy}
<1>1. /\ TypeOK /\ UNCHANGED <<day, authority, payment, ops, call, reported, step, copy, lock>>
      /\ \A j \in Payments \ {i} : reading'[j] = reading[j]
  BY DEF ReadEvent, RollBack, IInv, TypeOK, running
<1>2. /\ reading' \in [Payments -> [action: AllActions, found: Found] \cup {NoEvent}]
      /\ reading'[i] # NoEvent => IngestMatches(i)'
  <2>1. ASSUME NEW action \in Events, ReadEvent(i, action)
        PROVE  /\ reading' \in [Payments -> [action: AllActions, found: Found] \cup {NoEvent}]
               /\ IngestMatches(i)'
    <3>1. PICK found \in IF ActionOperation(i, action) = {} THEN {NoCopy}
                         ELSE {[id |-> o, op |-> ops[o]] : o \in ActionOperation(i, action)} :
            reading' = [reading EXCEPT ![i] = [action |-> action, found |-> found]]
      BY <2>1 DEF ReadEvent
    <3>2. reading'[i].action = action /\ reading'[i].found = found
      BY <1>1, <3>1 DEF TypeOK
    <3>3. CASE ActionOperation(i, action) = {}
      <4>1. found = NoCopy
        BY <3>1, <3>3
      <4>2. \A o \in OpIds : ~(Live(o)' /\ ops'[o].payment = i /\ ops'[o].action = action)
        BY <1>1, <3>3 DEF ActionOperation, Live, Prepared
      <4>3. [action |-> action, found |-> found] \in [action: AllActions, found: Found]
        BY <4>1, OperationsAssumption
      <4> HIDE DEF Found
      <4> QED BY <1>1, <3>1, <3>2, <4>1, <4>2, <4>3 DEF TypeOK, Found, IngestMatches
    <3>4. CASE ActionOperation(i, action) # {}
      <4>1. PICK o \in ActionOperation(i, action) : found = [id |-> o, op |-> ops[o]]
        BY <3>1, <3>4
      <4>2. o \in OpIds /\ Prepared(o) /\ Live(o) /\ ops[o] \in Op
            /\ ops[o].payment = i /\ ops[o].action = action
        BY <1>1, <4>1, RowTyped DEF ActionOperation, Live
      <4>3. found \in Found /\ found # NoCopy /\ found.id = o /\ found.op = ops[o]
        BY <4>1, <4>2, OperationsAssumption DEF NoCopy
      <4>4. [action |-> action, found |-> found] \in [action: AllActions, found: Found]
        BY <4>3, OperationsAssumption
      <4> HIDE DEF Found
      <4>5. reading' \in [Payments -> [action: AllActions, found: Found] \cup {NoEvent}]
        BY <1>1, <3>1, <4>4 DEF TypeOK, Found
      <4>6. \A p \in OpIds : Live(p)' /\ ops'[p].payment = i /\ ops'[p].action = action => p = o
        BY <1>1, <4>2 DEF IInv, OneLiveOperation, Live, Prepared
      <4>7. IngestMatches(i)'
        BY <1>1, <3>2, <4>2, <4>3, <4>6 DEF IngestMatches, Prepared
      <4> QED BY <4>5, <4>7
    <3> QED BY <3>3, <3>4
  <2>2. ASSUME RollBack(i)
        PROVE  /\ reading' \in [Payments -> [action: AllActions, found: Found] \cup {NoEvent}]
               /\ reading'[i] = NoEvent
    <3> HIDE DEF Found
    <3> QED BY <1>1, <2>2 DEF RollBack, TypeOK, Found
  <2> HIDE DEF Found
  <2> QED BY <2>1, <2>2
<1> HIDE DEF Found
<1>3. TypeOK'
  BY <1>1, <1>2 DEF TypeOK, authority, Found
<1>4. ASSUME NEW j \in Payments, reading'[j] # NoEvent PROVE IngestMatches(j)'
  <2>1. CASE j = i
    BY <1>2, <1>4, <2>1
  <2>2. CASE j # i
    BY <1>1, <1>4, <2>2 DEF IInv, IngestsMatch, IngestMatches, Live, Prepared
  <2> QED BY <2>1, <2>2
<1>5. IngestsMatch'
  BY <1>4 DEF IngestsMatch
<1> DEFINE moved == {}
<1>6. moved \in SUBSET Executors /\ \A e \in moved : FALSE
  OBVIOUS
<1> HIDE DEF moved
<1> QED BY <1>1, <1>3, <1>5, <1>6, RowsUnchanged, ExecutionSteps

\* The copy an ingest writes back is of the operation it read; if that was
\* given up meanwhile, it is live again, and still alone.
LEMMA IngestStep ==
  ASSUME IInv, NEW i \in Payments, Ingest(i)
  PROVE  IInv'
<1> DEFINE found == reading[i].found
           o == found.id
           row == [found.op EXCEPT !.status = "confirmed", !.transaction = TRUE]
<1>1. /\ TypeOK /\ UNCHANGED <<day, authority, call, step, copy, lock, reported>>
      /\ reading[i] # NoEvent /\ reading' = [reading EXCEPT ![i] = NoEvent]
      /\ payment' = [payment EXCEPT ![i] = Outcome[reading[i].action]]
      /\ \A p \in OpIds : p # o => ops'[p] = ops[p]
      /\ o \in OpIds => ops'[o] = row
      /\ ops' = [p \in OpIds |-> ops'[p]]
  BY DEF Ingest, IInv, running
<1>2. reading[i].action \in AllActions /\ (found # NoCopy => o \in OpIds /\ found.op \in Op)
  BY <1>1 DEF TypeOK
<1>3. Outcome[reading[i].action] \in States
  BY <1>2 DEF Outcome, States, AllActions
<1>4. IngestMatches(i) /\ (o \in OpIds => found # NoCopy)
  BY <1>1, OperationsAssumption DEF IInv, IngestsMatch, NoCopy
<1>5. ASSUME o \in OpIds
      PROVE  /\ Prepared(o) /\ row \in Op /\ row # NoOp /\ row.status = "confirmed" /\ row.transaction
             /\ row.callId => ops[o].callId
             /\ row.payment = i /\ row.action = reading[i].action
             /\ ops[o].payment = i /\ ops[o].action = reading[i].action
             /\ row.version = ops[o].version /\ row.day = ops[o].day
  <2>1. /\ found.op \in Op /\ Prepared(o) /\ found.op.payment = i
        /\ found.op.action = reading[i].action /\ (found.op.callId => ops[o].callId)
        /\ ops[o].payment = i /\ ops[o].action = reading[i].action
        /\ ops[o].version = found.op.version /\ ops[o].day = found.op.day
    BY <1>2, <1>4, <1>5 DEF IngestMatches
  <2>2. /\ row \in Op /\ row.status = "confirmed" /\ row.transaction
        /\ row.callId = found.op.callId /\ row.payment = found.op.payment
        /\ row.action = found.op.action /\ row.version = found.op.version /\ row.day = found.op.day
    BY <2>1 DEF Op, Statuses
  <2>3. row # NoOp
    BY <2>2, RowIsNotNoOp
  <2> HIDE DEF row, o, found
  <2> QED BY <2>1, <2>2, <2>3
<1>6. \A p \in OpIds :
        Live(p) /\ ops[p].payment = i /\ ops[p].action = reading[i].action => p = o
  BY <1>4 DEF IngestMatches
<1>7. ASSUME NEW j \in Payments, j # i, reading[j] # NoEvent
      PROVE  reading'[j] = reading[j] /\ IngestMatches(j)
  BY <1>1, <1>7 DEF IInv, IngestsMatch, TypeOK
<1>8. reading' \in [Payments -> [action: AllActions, found: [id: OpIds, op: Op] \cup {NoCopy}]
                                \cup {NoEvent}]
      /\ reading'[i] = NoEvent
  BY <1>1 DEF TypeOK
<1> HIDE DEF row, o, found
<1>9. RowsKept
  <2>1. ASSUME NEW p \in OpIds PROVE ops'[p] \in Row /\ Kept(p)
    <3>1. CASE p = o
      BY <1>1, <1>5, <3>1 DEF Kept, Row
    <3>2. CASE p # o
      BY <1>1, <3>2 DEF Kept, Prepared, TypeOK, Row
    <3> QED BY <3>1, <3>2
  <2>2. ops' \in [OpIds -> Row]
    BY <1>1, <2>1
  <2> QED BY <2>1, <2>2 DEF RowsKept
<1>10. OneLiveOperation'
  <2> SUFFICES ASSUME NEW p \in OpIds, NEW q \in OpIds, Live(p)', Live(q)',
                      ops'[p].payment = ops'[q].payment, ops'[p].action = ops'[q].action
               PROVE  p = q
    BY DEF OneLiveOperation
  <2>1. ASSUME NEW x \in OpIds, x # o, Live(x)' PROVE Live(x) /\ ops'[x] = ops[x]
    BY <1>1, <2>1 DEF Live, Prepared
  <2>2. CASE p # o /\ q # o
    BY <2>1, <2>2 DEF IInv, OneLiveOperation
  <2>3. CASE p = o
    BY <1>1, <1>5, <1>6, <2>1, <2>3
  <2>4. CASE q = o
    BY <1>1, <1>5, <1>6, <2>1, <2>4
  <2> QED BY <2>2, <2>3, <2>4
<1>11. IngestsMatch'
  <2> SUFFICES ASSUME NEW j \in Payments, j # i, reading[j] # NoEvent PROVE IngestMatches(j)'
    BY <1>1, <1>8 DEF IngestsMatch, TypeOK
  <2> DEFINE other == reading[j].found
  <2>1. IngestMatches(j) /\ reading'[j] = reading[j] /\ (other # NoCopy => other.id \in OpIds)
    BY <1>1, <1>7 DEF TypeOK
  <2>2. other # NoCopy => other.id # o
    BY <1>5, <2>1 DEF IngestMatches
  <2>3. ASSUME NEW p \in OpIds, Live(p)', ops'[p].payment = j, ops'[p].action = reading[j].action
        PROVE  p = other.id
    <3>1. p # o
      BY <1>1, <1>5, <2>3
    <3> QED BY <1>1, <2>1, <2>3, <3>1 DEF IngestMatches, Live, Prepared
  <2>4. other # NoCopy => ops'[other.id] = ops[other.id]
    BY <1>1, <2>1, <2>2
  <2> QED BY <2>1, <2>3, <2>4 DEF IngestMatches, Prepared
<1>12. TypeOK'
  BY <1>1, <1>3, <1>8, <1>9 DEF TypeOK, authority, RowsKept, Row
<1>13. StatusMatchesCall'
  <2> SUFFICES ASSUME NEW p \in OpIds
               PROVE  /\ ops'[p] = NoOp => call[p] = None /\ p \notin reported
                      /\ ops'[p] # NoOp /\ ops'[p].status = "prepared" =>
                           call[p] = None /\ ~ops'[p].callId /\ p \notin reported
                      /\ ops'[p] # NoOp /\ ops'[p].status = "failed" => p \in reported
                      /\ p \in reported => ops'[p].callId \/ ops'[p].transaction
                      /\ call[p] # "twice"
    BY <1>1 DEF StatusMatchesCall, Prepared
  <2>1. CASE p = o
    BY <1>1, <1>5, <2>1 DEF IInv, StatusMatchesCall
  <2>2. CASE p # o
    BY <1>1, <2>2 DEF IInv, StatusMatchesCall, Prepared
  <2> QED BY <2>1, <2>2
<1>14. ASSUME NEW f \in Executors, step[f] \in PastMark
       PROVE  /\ ~ops'[copy[f].id].callId /\ copy[f].id \notin reported'
              /\ step[f] \in {"marked", "authorized"} => call'[copy[f].id] = None
  <2>1. MarkedCopy(f) /\ copy[f].id \in OpIds
    BY <1>14, MatchOf, CopyTyped DEF PastMark, Match
  <2>2. ops'[copy[f].id].callId => ops[copy[f].id].callId
    BY <1>1, <1>5, <2>1
  <2> QED BY <1>1, <1>14, <2>1, <2>2 DEF MarkedCopy
<1> DEFINE moved == {}
<1>15. moved \in SUBSET Executors /\ \A e \in moved : FALSE
  OBVIOUS
<1> HIDE DEF moved
<1> QED BY <1>1, <1>9, <1>10, <1>11, <1>12, <1>13, <1>14, <1>15, ExecutionSteps

LEMMA PrepareStep ==
  ASSUME IInv, NEW o \in OpIds, NEW i \in Payments, NEW action \in Actions, Prepare(o, i, action)
  PROVE  IInv'
<1> DEFINE row == [payment |-> i, action |-> action, status |-> "prepared", callId |-> FALSE,
                   transaction |-> FALSE, version |-> policy.version, day |-> day]
<1>1. /\ TypeOK /\ ops[o] = NoOp /\ ActionOperation(i, action) = {} /\ policy.enabled
      /\ ops' = [ops EXCEPT ![o] = row]
      /\ reading[i] = NoEvent
      /\ UNCHANGED <<day, authority, payment, reading, reported, call, step, copy, lock>>
  BY DEF Prepare, IInv, Prepared, Authorized, ValidSession, running, ingesting
<1>2. policy.version \in 1..MaxVersion /\ day \in 1..MaxDay
  BY <1>1, OperationsAssumption DEF IInv, EnabledIsVersioned, TypeOK
<1>3. row \in Op /\ row.payment = i /\ row.action = action /\ ~row.callId
  BY <1>2, OperationsAssumption DEF Op, Statuses
<1> HIDE DEF row
<1>4. ops' \in [OpIds -> Row] /\ ops'[o] = row /\ \A p \in OpIds \ {o} : ops'[p] = ops[p]
  BY <1>1, <1>3, RowWritten
<1>5. RowsKept
  BY <1>1, <1>4 DEF RowsKept, Kept, Prepared
<1>6. OneLiveOperation'
  <2> SUFFICES ASSUME NEW p \in OpIds, NEW q \in OpIds, Live(p)', Live(q)',
                      ops'[p].payment = ops'[q].payment, ops'[p].action = ops'[q].action
               PROVE  p = q
    BY DEF OneLiveOperation
  <2>1. ASSUME NEW r \in OpIds \ {o}, Live(r)' PROVE Live(r) /\ ~(ops[r].payment = i /\ ops[r].action = action)
    BY <1>1, <1>4, <2>1 DEF Live, Prepared, ActionOperation
  <2>2. CASE p # o /\ q # o
    BY <1>4, <2>1, <2>2 DEF IInv, OneLiveOperation
  <2>3. CASE p = o \/ q = o
    BY <1>3, <1>4, <2>1, <2>3
  <2> QED BY <2>2, <2>3
<1>6a. IngestsMatch'
  <2> SUFFICES ASSUME NEW j \in Payments, reading[j] # NoEvent PROVE IngestMatches(j)'
    BY <1>1 DEF IngestsMatch
  <2> DEFINE found == reading[j].found
  <2>1. /\ IngestMatches(j) /\ j # i /\ reading'[j] = reading[j]
        /\ found # NoCopy => found.id \in OpIds /\ found.id # o
    BY <1>1 DEF IInv, IngestsMatch, IngestMatches, Prepared, TypeOK
  <2>2. ASSUME NEW p \in OpIds, Live(p)', ops'[p].payment = j, ops'[p].action = reading[j].action
        PROVE  p = found.id
    <3>1. p # o
      BY <1>3, <1>4, <2>1, <2>2
    <3> QED BY <1>4, <2>1, <2>2, <3>1 DEF IngestMatches, Live, Prepared
  <2> QED BY <1>4, <2>1, <2>2 DEF IngestMatches, Prepared
<1>7. TypeOK'
  BY <1>1, <1>4 DEF TypeOK, authority, Row
<1>8. StatusMatchesCall'
  BY <1>1, <1>3, <1>4, RowIsNotNoOp DEF IInv, StatusMatchesCall, Prepared, row
<1>9. ASSUME NEW f \in Executors, step[f] \in PastMark
      PROVE  /\ ~ops'[copy[f].id].callId /\ copy[f].id \notin reported'
             /\ step[f] \in {"marked", "authorized"} => call'[copy[f].id] = None
  <2>1. MarkedCopy(f) /\ copy[f].id \in OpIds /\ Prepared(copy[f].id)
    BY <1>9, MatchOf, CopyTyped DEF PastMark, Match
  <2> QED BY <1>1, <1>4, <1>9, <2>1 DEF MarkedCopy, Prepared
<1> DEFINE moved == {}
<1>10. moved \in SUBSET Executors /\ \A e \in moved : FALSE
  OBVIOUS
<1> HIDE DEF moved
<1> QED BY <1>1, <1>5, <1>6, <1>6a, <1>7, <1>8, <1>9, <1>10, ExecutionSteps

LEMMA NextIInv == IInv /\ [Next]_vars => IInv'
<1> SUFFICES ASSUME IInv, [Next]_vars PROVE IInv'
  OBVIOUS
<1>1. CASE \/ \E enabled \in BOOLEAN, limit \in Limits : UpdatePolicy(enabled, limit)
           \/ PrepareSessionAuthorization \/ RevokeSession \/ SessionExpires \/ NextDay
           \/ \E v \in 1..MaxVersion : RegisterSession(v)
  BY <1>1, OwnerSteps
<1>2. CASE \E o \in OpIds, i \in Payments, action \in Actions : Prepare(o, i, action)
  BY <1>2, PrepareStep
<1>3. ASSUME NEW e \in Executors,
             \/ \E o \in OpIds : BeginExecute(e, o)
             \/ Mark(e) \/ Refuse(e) \/ Authorize(e) \/ Broadcast(e) \/ Record(e)
             \/ Throw(e) \/ Catch(e) \/ Crash(e)
      PROVE  IInv'
  BY <1>3, BeginExecuteStep, MarkStep, StoppedSteps, AuthorizeStep, BroadcastStep, SavedSteps, ThrowStep
<1>4. ASSUME NEW o \in OpIds, ProviderReportsFailed(o) \/ ReconcileFailed(o)
      PROVE  IInv'
  BY <1>4, ReportStep, ReconcileFailedStep
<1>5. ASSUME NEW i \in Payments, \/ \E action \in Events : ReadEvent(i, action)
                                \/ Ingest(i) \/ RollBack(i)
      PROVE  IInv'
  BY <1>5, ReadingSteps, IngestStep
<1>6. CASE UNCHANGED vars
  <2>1. UNCHANGED <<day, policy, session, grants, payment, reading, ops, call, step, copy, lock, reported>>
    BY <1>6 DEF vars, authority, running, ingesting
  <2>2. TypeOK' /\ EnabledIsVersioned' /\ SessionPinned'
    BY <2>1 DEF IInv, TypeOK, EnabledIsVersioned, SessionPinned
  <2> QED BY <2>1, <2>2, AuthoritySteps DEF running, ingesting
<1> QED BY <1>1, <1>2, <1>3, <1>4, <1>5, <1>6 DEF Next

------------------------------------------------------------------------------
(* The theorems.                                                           *)

\* The invariant holds in every behaviour.
THEOREM Invariance == Spec => []IInv
BY InitIInv, NextIInv, PTL DEF Spec

\* Every row, copy and call of execute keeps its type.
THEOREM TypeCorrect == Spec => []TypeOK
<1>1. IInv => TypeOK
  BY DEF IInv
<1> QED BY <1>1, Invariance, PTL

\* However many calls to execute are retried, repeated or interrupted, an
\* operation is broadcast once at most, and of two submissions for one action
\* of a payment the provider reported one failed.
THEOREM AtMostOneBroadcast == Spec => []BroadcastAtMostOnce
<1>1. IInv => BroadcastAtMostOnce
  <2> SUFFICES ASSUME IInv PROVE BroadcastAtMostOnce
    OBVIOUS
  <2>1. ASSUME NEW o \in OpIds, call[o] # None, o \notin reported PROVE Live(o)
    BY <2>1 DEF IInv, StatusMatchesCall, Live, Prepared
  <2> QED BY <2>1 DEF IInv, StatusMatchesCall, OneLiveOperation, BroadcastAtMostOnce
<1> QED BY <1>1, Invariance, PTL

\* An operation handed to the network is never prepared again: the marker
\* execute commits survives every stale copy that is written back.
THEOREM MarkerSurvives == Spec => []SubmittedStaysMarked
<1>1. IInv => SubmittedStaysMarked
  BY DEF IInv, StatusMatchesCall, SubmittedStaysMarked, Prepared
<1> QED BY <1>1, Invariance, PTL

\* A session lives under the policy version it was signed for, and no other.
THEOREM SessionIsPinned == Spec => []SessionPinned
<1>1. IInv => SessionPinned
  BY DEF IInv
<1> QED BY <1>1, Invariance, PTL

\* What is broadcast was prepared under the policy in force, with its live
\* session, although the owner may change both at any time.
THEOREM BroadcastPolicy == Spec => BroadcastUnderOwnPolicy
<1> DEFINE A == \A o \in OpIds : (call[o] = None /\ call'[o] # None) =>
                  /\ policy.enabled /\ policy.version = ops[o].version
                  /\ session.live /\ session.version = ops[o].version
<1>1. IInv /\ [Next]_vars => [A]_vars
  <2> SUFFICES ASSUME IInv, Next, NEW o \in OpIds, call[o] = None, call'[o] # None
               PROVE  /\ policy.enabled /\ policy.version = ops[o].version
                      /\ session.live /\ session.version = ops[o].version
    OBVIOUS
  <2>1. PICK e \in Executors : Broadcast(e)
    BY DEF Next, UpdatePolicy, PrepareSessionAuthorization, RevokeSession, SessionExpires, NextDay,
           RegisterSession, Prepare, BeginExecute, Mark, Refuse, Authorize, Record, Throw, Catch,
           Crash, ProviderReportsFailed, ReconcileFailed, ReadEvent, Ingest, RollBack, IInv, TypeOK, None
  <2>2. Match(e) /\ step[e] = "authorized" /\ copy[e].id = o
    BY <2>1, MatchOf DEF Broadcast, IInv, TypeOK
  <2> QED BY <2>2 DEF Match, AuthorizedCopy, CopyOf
<1> QED BY <1>1, Invariance, PTL DEF BroadcastUnderOwnPolicy, Spec

------------------------------------------------------------------------------
(* What a day reserves.                                                    *)

\* The fundings of a day that the provider has not reported failed, those that
\* prepare counts, and the amount of each.
Fundings(d) == {o \in OpIds : Prepared(o) /\ ops[o].action = "fund" /\ ops[o].day = d
                              /\ o \notin reported}
LiveFundings(d) == {o \in OpIds : Live(o) /\ ops[o].action = "fund" /\ ops[o].day = d}
Units == [o \in OpIds |-> Amount[ops[o].payment]]
Reserved(d) == SumOver(Units, Fundings(d))

PolicyLimits == policy.enabled => policy.maxPerDay \in Limits
DaysBounded ==
  \A d \in 1..MaxDay : Reserved(d) # 0 => \E limit \in Limits : Reserved(d) <= limit
DayInv == IInv /\ PolicyLimits /\ DaysBounded

\* Amounts are natural numbers, of finitely many operations.
LEMMA FundingUnits ==
  ASSUME NEW d
  PROVE  TypeOK =>
           /\ IsFiniteSet(Fundings(d)) /\ \A o \in Fundings(d) : Units[o] \in Nat
           /\ Reserved(d) \in Nat
<1> SUFFICES ASSUME TypeOK
             PROVE  /\ IsFiniteSet(Fundings(d)) /\ \A o \in Fundings(d) : Units[o] \in Nat
                    /\ Reserved(d) \in Nat
  OBVIOUS
<1>1. Fundings(d) \in SUBSET OpIds
  BY DEF Fundings
<1>2. IsFiniteSet(Fundings(d))
  BY <1>1, FS_Subset, OperationsAssumption
<1>3. ASSUME NEW o \in Fundings(d) PROVE Units[o] \in Nat
  <2>1. o \in OpIds /\ Prepared(o)
    BY DEF Fundings
  <2>2. ops[o].payment \in Payments
    BY <2>1, RowTyped DEF Op
  <2> QED BY <2>1, <2>2, OperationsAssumption DEF Units
<1>4. Reserved(d) \in Nat
  BY <1>2, <1>3, SumNatural DEF Reserved
<1> QED BY <1>2, <1>3, <1>4

\* The sum over a set of operations as the module computes it.
LEMMA UnitsSum ==
  ASSUME TypeOK, NEW S \in SUBSET OpIds
  PROVE  MapThenSumSet(LAMBDA o : Amount[ops[o].payment], S) = SumOver(Units, S)
<1> DEFINE g == CHOOSE iter :
                  iter = [s \in SUBSET S |-> IF s = {} THEN 0
                                             ELSE Amount[ops[Pick(s)].payment] + iter[s \ {Pick(s)}]]
<1>1. IsFiniteSet(S) /\ S \subseteq OpIds
  BY FS_Subset, OperationsAssumption
<1>2. MapThenSumSet(LAMBDA o : Amount[ops[o].payment], S) = g[S]
  BY DEF MapThenSumSet, MapThenFoldSet, Pick
<1>3. PICK h : Solves(Units, S, h)
  BY <1>1, Recursion
<1>4. \A s \in SUBSET S : s # {} => Units[Pick(s)] = Amount[ops[Pick(s)].payment]
  BY <1>1, Picked DEF Units
<1>5. h = [s \in SUBSET S |-> IF s = {} THEN 0
                              ELSE Amount[ops[Pick(s)].payment] + h[s \ {Pick(s)}]]
  BY <1>3, <1>4 DEF Solves, Added
<1>6. g = [s \in SUBSET S |-> IF s = {} THEN 0
                              ELSE Amount[ops[Pick(s)].payment] + g[s \ {Pick(s)}]]
  BY <1>5
<1> HIDE DEF g
<1>7. Solves(Units, S, g)
  BY <1>4, <1>6 DEF Solves, Added
<1>8. PICK k : Solves(Units, S, k) /\ SumOver(Units, S) = k[S]
  BY <1>1, Fold
<1>9. g[S] = k[S]
  BY <1>1, <1>7, <1>8, Unique
<1> QED BY <1>2, <1>8, <1>9

\* What prepare compares with the limit covers the day's fundings.
LEMMA ReservedCovers ==
  ASSUME IInv, NEW d
  PROVE  ReservedOn(d) \in Nat /\ Reserved(d) <= ReservedOn(d)
<1>1. Fundings(d) \in SUBSET LiveFundings(d) /\ LiveFundings(d) \in SUBSET OpIds
  BY DEF IInv, StatusMatchesCall, Fundings, LiveFundings, Live
<1>2. TypeOK /\ IsFiniteSet(LiveFundings(d))
  BY <1>1, FS_Subset, OperationsAssumption DEF IInv
<1>3. ASSUME NEW o \in LiveFundings(d) PROVE Units[o] \in Nat
  <2>1. o \in OpIds /\ Prepared(o)
    BY DEF LiveFundings, Live
  <2>2. ops[o].payment \in Payments
    BY <1>2, <2>1, RowTyped DEF Op
  <2> QED BY <2>1, <2>2, OperationsAssumption DEF Units
<1>4. ReservedOn(d) = SumOver(Units, LiveFundings(d))
  BY <1>1, <1>2, UnitsSum DEF ReservedOn, LiveFundings
<1>5. SumOver(Units, LiveFundings(d)) \in Nat /\ Reserved(d) <= SumOver(Units, LiveFundings(d))
  BY <1>1, <1>2, <1>3, SumPart, SumNatural DEF Reserved
<1> QED BY <1>4, <1>5

\* Outside prepare no operation begins, and the others keep their terms.
StaysFunding(o) ==
  Prepared(o)' /\ o \notin reported' =>
    /\ Prepared(o) /\ o \notin reported
    /\ ops'[o].payment = ops[o].payment /\ ops'[o].action = ops[o].action /\ ops'[o].day = ops[o].day

LEMMA WritesKeepTerms ==
  ASSUME IInv, Next, ~\E o \in OpIds, i \in Payments, action \in Actions : Prepare(o, i, action),
         NEW p \in OpIds
  PROVE  StaysFunding(p)
<1>0. TypeOK
  BY DEF IInv
<1>1. CASE ops' = ops /\ reported \subseteq reported'
  BY <1>1 DEF StaysFunding, Prepared
<1>2. ASSUME NEW e \in Executors, Mark(e) PROVE StaysFunding(p)
  <2> DEFINE o == copy[e].id
  <2>1. o \in OpIds /\ Prepared(o) /\ ops[o] \in Op
    BY <1>2, CopyTyped DEF Mark
  <2>2. /\ p # o => ops'[p] = ops[p]
        /\ p = o => ops'[p] = [ops[o] EXCEPT !.status = "broadcasting"]
        /\ reported' = reported
    BY <1>0, <1>2, <2>1 DEF Mark, TypeOK
  <2>3. p = o => /\ ops'[p].payment = ops[o].payment /\ ops'[p].action = ops[o].action
                 /\ ops'[p].day = ops[o].day
    BY <2>1, <2>2 DEF Op
  <2> HIDE DEF o
  <2> QED BY <2>1, <2>2, <2>3 DEF StaysFunding, Prepared
<1>3. ASSUME NEW e \in Executors, Record(e) \/ Catch(e) PROVE StaysFunding(p)
  <2> DEFINE o == copy[e].id
  <2>1. /\ step[e] \in PastMark /\ o \in OpIds /\ Prepared(o) /\ copy[e].op \in Op
        /\ CopyOf(e) /\ MarkedCopy(e)
    BY <1>3, MatchOf, CopyTyped DEF Record, Catch, PastMark, Match
  <2>2. /\ p # o => ops'[p] = ops[p]
        /\ p = o => \/ ops'[p] = [copy[e].op EXCEPT !.status = "submitted", !.callId = TRUE]
                    \/ ops'[p] = [copy[e].op EXCEPT !.status = "unknown"]
        /\ reported' = reported
    BY <1>0, <1>3, <2>1 DEF Record, Catch, TypeOK
  <2>3. p = o => /\ ops'[p].payment = ops[o].payment /\ ops'[p].action = ops[o].action
                 /\ ops'[p].day = ops[o].day
    BY <2>1, <2>2 DEF CopyOf, Op
  <2> HIDE DEF o
  <2> QED BY <2>1, <2>2, <2>3 DEF StaysFunding, Prepared
<1>4. ASSUME NEW o \in OpIds, ReconcileFailed(o) PROVE StaysFunding(p)
  <2>1. /\ p # o => ops'[p] = ops[p]
        /\ p = o => p \in reported'
        /\ reported' = reported
    BY <1>0, <1>4 DEF ReconcileFailed, TypeOK
  <2> QED BY <2>1 DEF StaysFunding, Prepared
<1>5. ASSUME NEW i \in Payments, Ingest(i) PROVE StaysFunding(p)
  <2> DEFINE found == reading[i].found
  <2>1. CASE p = found.id
    <3>1. /\ found # NoCopy /\ found.op \in Op /\ IngestMatches(i)
      BY <1>0, <1>5, <2>1, OperationsAssumption DEF Ingest, TypeOK, IInv, IngestsMatch, NoCopy
    <3>2. ops'[p] = [found.op EXCEPT !.status = "confirmed", !.transaction = TRUE]
      BY <1>5, <2>1 DEF Ingest
    <3>3. ops'[p].payment = found.op.payment /\ ops'[p].action = found.op.action
          /\ ops'[p].day = found.op.day /\ reported' = reported
      BY <1>5, <3>1, <3>2 DEF Op, Ingest
    <3> QED BY <2>1, <3>1, <3>3 DEF StaysFunding, IngestMatches
  <2>2. CASE p # found.id
    BY <1>5, <2>2 DEF Ingest, StaysFunding, Prepared
  <2> QED BY <2>1, <2>2
<1> QED
  BY <1>1, <1>2, <1>3, <1>4, <1>5
     DEF Next, UpdatePolicy, PrepareSessionAuthorization, RevokeSession, SessionExpires, NextDay,
         RegisterSession, BeginExecute, Refuse, Authorize, Broadcast, Throw, Crash,
         ProviderReportsFailed, ReadEvent, RollBack

\* So a day's fundings only shrink.
LEMMA ReservedShrinks ==
  ASSUME TypeOK, TypeOK', \A p \in OpIds : StaysFunding(p), DaysBounded
  PROVE  DaysBounded'
<1> SUFFICES ASSUME NEW d \in 1..MaxDay, Reserved(d)' # 0
             PROVE  \E limit \in Limits : Reserved(d)' <= limit
  BY DEF DaysBounded
<1>1. /\ IsFiniteSet(Fundings(d)) /\ \A o \in Fundings(d) : Units[o] \in Nat
      /\ Reserved(d) \in Nat
  BY FundingUnits
<1>2. Fundings(d)' \in SUBSET Fundings(d) /\ \A o \in Fundings(d)' : Units'[o] = Units[o]
  BY DEF Fundings, StaysFunding, Units
<1>3. IsFiniteSet(Fundings(d)')
  BY <1>1, <1>2, FS_Subset
<1>4. Reserved(d)' = SumOver(Units, Fundings(d)')
  BY <1>2, <1>3, SumAgree DEF Reserved
<1>5. SumOver(Units, Fundings(d)') <= Reserved(d) /\ SumOver(Units, Fundings(d)') \in Nat
  BY <1>1, <1>2, <1>3, SumPart, SumNatural DEF Reserved
<1>6. PICK limit \in Limits : Reserved(d) <= limit
  BY <1>1, <1>4, <1>5 DEF DaysBounded
<1>7. limit \in Nat
  BY OperationsAssumption
<1> QED BY <1>1, <1>4, <1>5, <1>6, <1>7

\* prepare adds one funding to its day, within the limit of the policy.
LEMMA PrepareReserves ==
  ASSUME DayInv, TypeOK', NEW o \in OpIds, NEW i \in Payments, NEW action \in Actions,
         Prepare(o, i, action)
  PROVE  DaysBounded'
<1>1. /\ TypeOK /\ ops[o] = NoOp /\ ops'[o] # NoOp /\ policy.maxPerDay \in Limits
      /\ ops'[o].payment = i /\ ops'[o].action = action /\ ops'[o].day = day
      /\ o \notin reported /\ reported' = reported /\ \A p \in OpIds \ {o} : ops'[p] = ops[p]
  BY RowIsNotNoOp DEF Prepare, DayInv, IInv, StatusMatchesCall, TypeOK, Prepared, PolicyLimits, Authorized, ValidSession, NoOp
<1> SUFFICES ASSUME NEW d \in 1..MaxDay, Reserved(d)' # 0
             PROVE  \E limit \in Limits : Reserved(d)' <= limit
  BY DEF DaysBounded
<1>2. /\ IsFiniteSet(Fundings(d)) /\ \A p \in Fundings(d) : Units[p] \in Nat
      /\ Reserved(d) \in Nat /\ Fundings(d) \subseteq OpIds \ {o}
  BY <1>1, FundingUnits DEF Fundings, Prepared
<1>3. \A p \in Fundings(d) : Units'[p] = Units[p]
  BY <1>1, <1>2 DEF Units
<1>4. SumOver(Units', Fundings(d)) = Reserved(d)
  BY <1>2, <1>3, SumAgree DEF Reserved
<1>5. CASE action = "fund" /\ d = day
  <2>1. Fundings(d)' = Fundings(d) \cup {o} /\ Units'[o] = Amount[i] /\ Amount[i] \in Nat
    BY <1>1, <1>5, OperationsAssumption DEF Fundings, Prepared, Units
  <2>2. Reserved(d)' = Reserved(d) + Amount[i]
    <3>1. \A x \in Fundings(d) \cup {o} : Units'[x] \in Int
      BY <1>2, <1>3, <2>1
    <3>2. SumOver(Units', Fundings(d) \cup {o}) = SumOver(Units', Fundings(d)) + Units'[o]
      BY <1>2, <3>1, SumAdd
    <3> QED BY <1>4, <2>1, <3>2 DEF Reserved
  <2>3. ReservedOn(d) + Amount[i] <= policy.maxPerDay
    BY <1>1, <1>5 DEF Prepare, WithinDailyLimit
  <2>4. ReservedOn(d) \in Nat /\ Reserved(d) <= ReservedOn(d)
    BY ReservedCovers DEF DayInv
  <2>5. policy.maxPerDay \in Nat
    BY <1>1, OperationsAssumption
  <2>6. Reserved(d)' <= policy.maxPerDay
    BY <1>2, <2>1, <2>2, <2>3, <2>4, <2>5
  <2> QED BY <1>1, <2>6
<1>6. CASE ~(action = "fund" /\ d = day)
  <2>1. Fundings(d)' = Fundings(d)
    BY <1>1, <1>6 DEF Fundings, Prepared
  <2>2. Reserved(d)' = Reserved(d)
    BY <1>4, <2>1 DEF Reserved
  <2> QED BY <2>2 DEF DayInv, DaysBounded
<1> QED BY <1>5, <1>6

LEMMA DayStarts == Init => DayInv
<1> SUFFICES ASSUME Init PROVE DayInv
  OBVIOUS
<1>1. \A d \in 1..MaxDay : Fundings(d) = {}
  BY DEF Init, Fundings, Prepared
<1>2. \A d \in 1..MaxDay : Reserved(d) = 0
  BY <1>1, SumEmpty DEF Reserved
<1> QED BY <1>2, InitIInv DEF Init, DayInv, PolicyLimits, DaysBounded

LEMMA DayContinues == DayInv /\ [Next]_vars => DayInv'
<1> SUFFICES ASSUME DayInv, [Next]_vars PROVE DayInv'
  OBVIOUS
<1>1. TypeOK /\ IInv' /\ TypeOK'
  BY NextIInv DEF DayInv, IInv
<1>2. PolicyLimits'
  <2>1. CASE policy' = policy
    BY <2>1 DEF DayInv, PolicyLimits
  <2>2. ASSUME NEW enabled \in BOOLEAN, NEW limit \in Limits, UpdatePolicy(enabled, limit)
        PROVE  PolicyLimits'
    BY <2>2 DEF UpdatePolicy, PolicyLimits
  <2>3. CASE RevokeSession
    BY <1>1, <2>3 DEF RevokeSession, PolicyLimits, TypeOK
  <2> QED
    BY <2>1, <2>2, <2>3
       DEF Next, PrepareSessionAuthorization, SessionExpires, NextDay, RegisterSession, Prepare,
           BeginExecute, Mark, Refuse, Authorize, Broadcast, Record, Throw, Catch, Crash,
           ProviderReportsFailed, ReconcileFailed, ReadEvent, Ingest, RollBack, vars, authority
<1>3. DaysBounded'
  <2>1. CASE UNCHANGED vars
    <3>1. \A p \in OpIds : StaysFunding(p)
      BY <2>1 DEF vars, StaysFunding, Prepared
    <3> QED BY <1>1, <3>1, ReservedShrinks DEF DayInv
  <2>2. CASE \E o \in OpIds, i \in Payments, action \in Actions : Prepare(o, i, action)
    BY <1>1, <2>2, PrepareReserves
  <2>3. CASE Next /\ ~\E o \in OpIds, i \in Payments, action \in Actions : Prepare(o, i, action)
    BY <1>1, <2>3, WritesKeepTerms, ReservedShrinks DEF DayInv
  <2> QED BY <2>1, <2>2, <2>3
<1> QED BY <1>1, <1>2, <1>3 DEF DayInv

\* The fundings prepared on one day, but for those the provider reported
\* failed, stay within a limit the owner set, however executions fail, are
\* retried, given up or confirmed by events.
THEOREM DaysStayWithinLimits == Spec => []DailyFundingBounded
<1>1. DayInv => DailyFundingBounded
  <2> SUFFICES ASSUME DayInv PROVE DailyFundingBounded
    OBVIOUS
  <2>1. ASSUME NEW d \in 1..MaxDay
        PROVE  MapThenSumSet(LAMBDA o : Amount[ops[o].payment], Fundings(d)) = Reserved(d)
    <3>1. Fundings(d) \in SUBSET OpIds
      BY DEF Fundings
    <3> QED BY <3>1, UnitsSum DEF DayInv, IInv, Reserved
  <2> QED BY <2>1 DEF DayInv, DaysBounded, DailyFundingBounded, Fundings
<1> QED BY <1>1, DayStarts, DayContinues, PTL DEF Spec

------------------------------------------------------------------------------
(* Server: the requests that ask for operations, and everything else, are  *)
(* counted before they are run.                                            *)

\* Where a handler may stand.
Places == {"new", "counting", "routing", "owner", "running", "denied", "answered"}

HandlerTyped ==
  /\ now \in Nat /\ now >= 1
  /\ rate \in [Buckets -> [started: Int, count: Nat]]
  /\ DOMAIN request = Calls
  /\ pc \in [Calls -> Places]
  /\ clock \in [Calls -> Nat] /\ counted \in [Calls -> Nat]
  /\ answer \in [Calls -> AnswerStatuses \cup {"none"}]

\* The calls of a bucket that were admitted into the window that began at w.
Admitted(b, w) == {p \in Calls : counted[p] # 0 /\ Bucket(p) = b /\ counted[p] = w}

\* No request is admitted before it is counted, and it is counted at a time it
\* has read.
FlowOf(q) ==
  /\ pc[q] \in {"new", "counting"} => counted[q] = 0
  /\ pc[q] = "counting" => clock[q] >= 1
  /\ pc[q] # "answered" => answer[q] = "none"

\* A window is the bucket's own or ended before that one began.
AdmittedOf(q) ==
  counted[q] # 0 =>
    \/ counted[q] = rate[Bucket(q)].started
    \/ counted[q] <= rate[Bucket(q)].started - Window

\* Windows of a bucket do not overlap.
WindowsApart ==
  \A p, q \in Calls :
    counted[p] # 0 /\ counted[q] # 0 /\ Bucket(p) = Bucket(q) =>
      \/ counted[p] = counted[q]
      \/ counted[p] <= counted[q] - Window
      \/ counted[q] <= counted[p] - Window

\* The bucket's count covers whoever is in its window; before the first request
\* there is nobody.
CountOf(b) ==
  /\ rate[b].started >= 1 \/ rate[b].started = 1 - Window
  /\ Cardinality(Admitted(b, rate[b].started)) <= rate[b].count

ServerIInv ==
  /\ HandlerTyped /\ WindowsApart
  /\ \A q \in Calls : FlowOf(q) /\ AdmittedOf(q)
  /\ \A b \in Buckets : CountOf(b)
  /\ \A b \in Buckets, w \in Nat : Cardinality(Admitted(b, w)) <= Limit

LEMMA ServerConstants ==
  /\ Limit \in Nat /\ Limit >= 1 /\ Window \in Nat /\ Window >= 1 /\ IsFiniteSet(Calls)
BY ServerAssumption

LEMMA BucketTyped == \A q : Bucket(q) \in Buckets
BY DEF Bucket, Buckets

LEMMA AdmittedFinite ==
  \A b, w : IsFiniteSet(Admitted(b, w)) /\ Cardinality(Admitted(b, w)) \in Nat
<1>1. \A b, w : Admitted(b, w) \in SUBSET Calls
  BY DEF Admitted
<1> QED BY <1>1, ServerConstants, FS_Subset, FS_CardinalityType

LEMMA ServerInitIInv == ASSUME ServerInit PROVE ServerIInv
<1>1. HandlerTyped
  BY ServerConstants DEF ServerInit, HandlerTyped, Buckets, Places, AnswerStatuses
<1>2. \A q \in Calls : counted[q] = 0 /\ pc[q] = "new" /\ answer[q] = "none"
  BY DEF ServerInit
<1>3. \A b, w : Admitted(b, w) = {}
  BY <1>2 DEF Admitted
<1>4. \A b, w : Cardinality(Admitted(b, w)) = 0
  BY <1>3, FS_EmptySet
<1>5. \A b \in Buckets : CountOf(b)
  <2>1. \A b \in Buckets : rate[b].started = 1 - Window /\ rate[b].count = 0
    BY DEF ServerInit
  <2> QED BY <1>4, <2>1 DEF CountOf
<1> QED BY <1>1, <1>2, <1>4, <1>5, ServerConstants
        DEF ServerIInv, WindowsApart, FlowOf, AdmittedOf

\* A step that counts nobody: what is said of windows stays.
LEMMA WindowsStay ==
  ASSUME ServerIInv, UNCHANGED <<rate, counted>>,
         \A q \in Calls : counted[q] # 0 => request'[q] = request[q]
  PROVE  /\ WindowsApart'
         /\ \A q \in Calls : AdmittedOf(q)'
         /\ \A b \in Buckets : CountOf(b)'
         /\ \A b \in Buckets, w \in Nat : Cardinality(Admitted(b, w)')  <= Limit
<1>1. \A q \in Calls : counted[q] # 0 => Bucket(q)' = Bucket(q)
  BY DEF Bucket
<1>2. \A b, w : Admitted(b, w)' = Admitted(b, w)
  BY <1>1 DEF Admitted
<1>3. WindowsApart' /\ \A q \in Calls : AdmittedOf(q)'
  BY <1>1 DEF ServerIInv, WindowsApart, AdmittedOf
<1>4. ASSUME NEW b \in Buckets PROVE CountOf(b)'
  <2>1. CountOf(b) /\ Admitted(b, rate[b].started)' = Admitted(b, rate[b].started)
    BY <1>2 DEF ServerIInv, Admitted
  <2> QED BY <2>1 DEF CountOf
<1> QED BY <1>2, <1>3, <1>4 DEF ServerIInv

\* Time passes, processes come and go.
LEMMA Elsewhere ==
  ASSUME ServerIInv, UNCHANGED <<rate, handler, audit>>, now' \in Nat, now' >= 1
  PROVE  ServerIInv'
<1>1. HandlerTyped' /\ \A q \in Calls : FlowOf(q)'
  BY DEF ServerIInv, HandlerTyped, FlowOf, handler
<1>2. /\ WindowsApart'
      /\ \A q \in Calls : AdmittedOf(q)'
      /\ \A b \in Buckets : CountOf(b)'
      /\ \A b \in Buckets, w \in Nat : Cardinality(Admitted(b, w)')  <= Limit
  BY WindowsStay DEF handler
<1> QED BY <1>1, <1>2 DEF ServerIInv

\* A counted request goes on or is answered.
LEMMA GoesOn ==
  ASSUME ServerIInv, NEW q \in Calls, NEW to \in Places \ {"new", "counting"},
         NEW status \in AnswerStatuses,
         pc[q] # "new" /\ pc[q] # "answered" /\ pc' = [pc EXCEPT ![q] = to],
         IF to = "answered" THEN answer' = [answer EXCEPT ![q] = status] ELSE UNCHANGED answer,
         UNCHANGED <<now, rate, request, clock, counted>>
  PROVE  ServerIInv'
<1>1. /\ pc'[q] = to /\ \A p \in Calls : p # q => pc'[p] = pc[p] /\ answer'[p] = answer[p]
      /\ answer'[q] = IF to = "answered" THEN status ELSE answer[q]
  BY DEF ServerIInv, HandlerTyped
<1>2. HandlerTyped'
  <2>1. pc' \in [Calls -> Places] /\ answer' \in [Calls -> AnswerStatuses \cup {"none"}]
    BY DEF ServerIInv, HandlerTyped
  <2> QED BY <2>1 DEF ServerIInv, HandlerTyped
<1>3. \A p \in Calls : FlowOf(p)'
  BY <1>1 DEF ServerIInv, FlowOf
<1>5. /\ WindowsApart'
      /\ \A p \in Calls : AdmittedOf(p)'
      /\ \A b \in Buckets : CountOf(b)'
      /\ \A b \in Buckets, w \in Nat : Cardinality(Admitted(b, w)')  <= Limit
  BY WindowsStay
<1> QED BY <1>2, <1>3, <1>5 DEF ServerIInv

\* A request arrives: nothing has been counted for it.
LEMMA ReceiveStep == ASSUME ServerIInv, NEW q \in Calls, NEW r \in Requests, Receive(q, r) PROVE ServerIInv'
<1>1. PICK to \in {"counting", "answered"}, status \in AnswerStatuses :
        /\ pc[q] = "new" /\ pc' = [pc EXCEPT ![q] = to]
        /\ IF to = "answered" THEN answer' = [answer EXCEPT ![q] = status] ELSE UNCHANGED answer
        /\ request' = [request EXCEPT ![q] = r] /\ clock' = [clock EXCEPT ![q] = now]
        /\ UNCHANGED <<now, rate, counted, audit>>
  <2>1. CASE process[r.side] = "failed"
    BY <2>1 DEF Receive, Reply, AnswerStatuses
  <2>2. CASE Move(q, "counting")
    BY <2>2, "error" \in AnswerStatuses DEF Receive, Move, AnswerStatuses
  <2>3. CASE \E status \in Early(r.side) : Reply(q, status)
    <3>1. PICK status \in Early(r.side) : Reply(q, status)
      BY <2>3
    <3>2. r.side \in {"node", "vercel", "web"}
      BY ServerAssumption DEF RequestType, Sides
    <3> QED BY <3>1, <3>2 DEF Receive, Reply, Early, AnswerStatuses
  <2> QED BY <2>1, <2>2, <2>3 DEF Receive
<1>2. counted[q] = 0 /\ answer[q] = "none"
  BY <1>1 DEF ServerIInv, FlowOf
<1>3. /\ pc'[q] = to /\ clock'[q] = now /\ answer'[q] = IF to = "answered" THEN status ELSE "none"
      /\ \A p \in Calls : p # q => /\ pc'[p] = pc[p] /\ answer'[p] = answer[p] /\ clock'[p] = clock[p]
                                  /\ request'[p] = request[p]
  BY <1>1, <1>2 DEF ServerIInv, HandlerTyped
<1>4. HandlerTyped'
  <2>1. pc' \in [Calls -> Places] /\ answer' \in [Calls -> AnswerStatuses \cup {"none"}]
    BY <1>1 DEF ServerIInv, HandlerTyped, Places
  <2>2. clock' \in [Calls -> Nat] /\ DOMAIN request' = Calls
    BY <1>1 DEF ServerIInv, HandlerTyped
  <2> QED BY <1>1, <2>1, <2>2 DEF ServerIInv, HandlerTyped
<1>5. \A p \in Calls : FlowOf(p)'
  BY <1>1, <1>2, <1>3 DEF ServerIInv, HandlerTyped, FlowOf
<1>7. /\ WindowsApart'
      /\ \A p \in Calls : AdmittedOf(p)'
      /\ \A b \in Buckets : CountOf(b)'
      /\ \A b \in Buckets, w \in Nat : Cardinality(Admitted(b, w)')  <= Limit
  BY <1>1, <1>2, <1>3, WindowsStay
<1> QED BY <1>4, <1>5, <1>7 DEF ServerIInv

\* The upsert: a new window begins a window's length after the last one or
\* later, and has one request; the last one takes one more while the count
\* allows it.
LEMMA CountStep == ASSUME ServerIInv, NEW q \in Calls, ConsumeRateLimit(q) PROVE ServerIInv'
<1>0. PICK b, w : b = Bucket(q) /\ w = CountedIn(q)
  OBVIOUS
<1>1. /\ pc[q] = "counting" /\ b \in Buckets /\ rate' = [rate EXCEPT ![b] = w]
      /\ clock' = [clock EXCEPT ![q] = 0] /\ UNCHANGED <<now, request, audit>>
  BY <1>0, BucketTyped DEF ConsumeRateLimit
<1>2. \/ /\ w.count <= Limit /\ counted' = [counted EXCEPT ![q] = w.started]
         /\ pc' = [pc EXCEPT ![q] = "routing"] /\ UNCHANGED answer
      \/ /\ w.count > Limit /\ UNCHANGED counted
         /\ pc' = [pc EXCEPT ![q] = "answered"] /\ answer' = [answer EXCEPT ![q] = "limited"]
  <2>1. w.count \in Int
    <3>1. rate[b] \in [started: Int, count: Nat]
      BY <1>1 DEF ServerIInv, HandlerTyped
    <3> QED BY <1>0, <3>1 DEF CountedIn
  <2> QED BY <1>0, <2>1, ServerConstants DEF ConsumeRateLimit, Move, Reply
<1>3. /\ counted[q] = 0 /\ clock[q] \in Nat /\ clock[q] >= 1 /\ answer[q] = "none"
      /\ rate[b].started \in Int /\ rate[b].count \in Nat /\ counted \in [Calls -> Nat]
  BY <1>1 DEF ServerIInv, FlowOf, HandlerTyped
<1>4. \/ /\ rate[b].started <= clock[q] - Window /\ w.started = clock[q] /\ w.count = 1
      \/ /\ rate[b].started >= 1 /\ w.started = rate[b].started /\ w.count = rate[b].count + 1
  <2>1. rate[b] \in [started: Int, count: Nat]
    BY <1>1 DEF ServerIInv, HandlerTyped
  <2>2. CASE Expired(q)
    BY <1>0, <2>2 DEF Expired, CountedIn
  <2>3. CASE ~Expired(q)
    <3>1. w.started = rate[b].started /\ w.count = rate[b].count + 1
      BY <1>0, <2>1, <2>3 DEF CountedIn
    <3>2. rate[b].started > clock[q] - Window
      BY <1>0, <1>3, <2>3, ServerConstants DEF Expired
    <3>3. rate[b].started >= 1 \/ rate[b].started = 1 - Window
      BY <1>1 DEF ServerIInv, CountOf
    <3> QED BY <1>3, <3>1, <3>2, <3>3, ServerConstants
  <2> QED BY <2>2, <2>3
<1>5. w \in [started: Int, count: Nat] /\ w.started \in Nat /\ w.started >= 1 /\ w.count \in Nat
  <2>1. rate[b] \in [started: Int, count: Nat]
    BY <1>1 DEF ServerIInv, HandlerTyped
  <2> QED BY <1>0, <1>3, <1>4, <2>1 DEF CountedIn
<1>6. /\ rate'[b] = w /\ \A c \in Buckets : c # b => rate'[c] = rate[c]
      /\ \A p \in Calls : Bucket(p)' = Bucket(p)
  BY <1>1 DEF ServerIInv, HandlerTyped, Bucket
<1>7. HandlerTyped'
  <2>1. rate' \in [Buckets -> [started: Int, count: Nat]]
    BY <1>1, <1>5 DEF ServerIInv, HandlerTyped
  <2>2. counted' \in [Calls -> Nat] /\ clock' \in [Calls -> Nat]
    BY <1>1, <1>2, <1>3, <1>5 DEF ServerIInv, HandlerTyped
  <2>3. pc' \in [Calls -> Places] /\ answer' \in [Calls -> AnswerStatuses \cup {"none"}]
    BY <1>2 DEF ServerIInv, HandlerTyped, Places, AnswerStatuses
  <2> QED BY <1>1, <2>1, <2>2, <2>3 DEF ServerIInv, HandlerTyped
<1>8. /\ pc'[q] \in {"routing", "answered"} /\ (pc'[q] = "routing" => answer'[q] = "none")
      /\ answer'[q] # "forbidden"
      /\ \A p \in Calls : p # q => /\ pc'[p] = pc[p] /\ answer'[p] = answer[p] /\ counted'[p] = counted[p]
                                  /\ clock'[p] = clock[p]
  BY <1>1, <1>2, <1>3 DEF ServerIInv, HandlerTyped
<1>9. \A p \in Calls : FlowOf(p)'
  BY <1>8 DEF ServerIInv, FlowOf
<1>10. \/ counted'[q] = w.started /\ w.count <= Limit
       \/ counted'[q] = 0 /\ w.count > Limit
  BY <1>2, <1>3 DEF ServerIInv, HandlerTyped
\* Whoever was admitted before is in the window of w or a window's length away.
<1>11. ASSUME NEW p \in Calls, p # q, counted[p] # 0, Bucket(p) = b
       PROVE  \/ counted[p] = w.started /\ w.started = rate[b].started
              \/ counted[p] <= w.started - Window
  <2>1. counted[p] = rate[b].started \/ counted[p] <= rate[b].started - Window
    BY <1>11 DEF ServerIInv, AdmittedOf
  <2>2. counted[p] \in Nat
    BY <1>3
  <2> QED BY <1>3, <1>4, <2>1, <2>2, ServerConstants
<1>12. ASSUME NEW p \in Calls PROVE AdmittedOf(p)'
  <2>1. CASE p = q
    BY <1>0, <1>6, <1>10, <2>1 DEF AdmittedOf
  <2>2. CASE p # q /\ Bucket(p) = b
    BY <1>6, <1>8, <1>11, <2>2 DEF AdmittedOf
  <2>3. CASE p # q /\ Bucket(p) # b
    BY <1>6, <1>8, <2>3, BucketTyped DEF ServerIInv, AdmittedOf
  <2> QED BY <2>1, <2>2, <2>3
<1>13. WindowsApart'
  <2>1. ASSUME NEW p \in Calls, NEW r \in Calls, counted'[p] # 0, counted'[r] # 0, Bucket(p) = Bucket(r)
        PROVE  \/ counted'[p] = counted'[r]
               \/ counted'[p] <= counted'[r] - Window
               \/ counted'[r] <= counted'[p] - Window
    <3>1. CASE p = q /\ r = q
      BY <3>1
    <3>2. CASE p = q /\ r # q
      BY <1>0, <1>8, <1>10, <1>11, <2>1, <3>2
    <3>3. CASE p # q /\ r = q
      BY <1>0, <1>8, <1>10, <1>11, <2>1, <3>3
    <3>4. CASE p # q /\ r # q
      BY <1>8, <2>1, <3>4 DEF ServerIInv, WindowsApart
    <3> QED BY <3>1, <3>2, <3>3, <3>4
  <2> QED BY <1>6, <2>1 DEF WindowsApart
<1>14. ASSUME NEW c \in Buckets, NEW t \in Int, c # b \/ t # w.started \/ counted'[q] = 0
       PROVE  Admitted(c, t)' = Admitted(c, t)
  <2>1. \A p \in Calls : counted'[p] # 0 /\ Bucket(p) = c /\ counted'[p] = t <=>
                         counted[p] # 0 /\ Bucket(p) = c /\ counted[p] = t
    BY <1>0, <1>3, <1>8, <1>10, <1>14
  <2> QED BY <1>6, <2>1 DEF Admitted
<1>15. ASSUME counted'[q] # 0
       PROVE  /\ Admitted(b, w.started)' = Admitted(b, w.started) \cup {q}
              /\ Cardinality(Admitted(b, w.started)') = Cardinality(Admitted(b, w.started)) + 1
  <2>1. \A p \in Calls : counted'[p] # 0 /\ Bucket(p) = b /\ counted'[p] = w.started <=>
                         (counted[p] # 0 /\ Bucket(p) = b /\ counted[p] = w.started) \/ p = q
    BY <1>0, <1>5, <1>8, <1>10, <1>15
  <2>2. Admitted(b, w.started)' = Admitted(b, w.started) \cup {q}
    BY <1>6, <2>1 DEF Admitted
  <2>3. q \notin Admitted(b, w.started)
    BY <1>3 DEF Admitted
  <2> QED BY <2>2, <2>3, AdmittedFinite, FS_AddElement
\* Those in the window before the step.
<1>16. Cardinality(Admitted(b, w.started)) + 1 <= w.count
  <2>1. CASE w.started = rate[b].started /\ w.count = rate[b].count + 1
    <3>1. Cardinality(Admitted(b, rate[b].started)) <= rate[b].count
      BY <1>1 DEF ServerIInv, CountOf
    <3> QED BY <1>3, <2>1, <3>1, AdmittedFinite
  <2>2. CASE rate[b].started <= clock[q] - Window /\ w.started = clock[q] /\ w.count = 1
    <3>1. ASSUME NEW p \in Calls, counted[p] # 0, Bucket(p) = b, counted[p] = w.started PROVE FALSE
      <4>1. p # q
        BY <1>3, <3>1
      <4> QED BY <1>3, <1>5, <1>11, <2>2, <3>1, <4>1, ServerConstants
    <3>2. Admitted(b, w.started) = {}
      BY <3>1 DEF Admitted
    <3>3. Cardinality(Admitted(b, w.started)) = 0
      BY <3>2, FS_EmptySet
    <3> QED BY <2>2, <3>3
  <2> QED BY <1>4, <2>1, <2>2
<1>17. ASSUME NEW c \in Buckets PROVE CountOf(c)'
  <2>1. CASE c # b
    <3>1. Admitted(c, rate[c].started)' = Admitted(c, rate[c].started) /\ CountOf(c) /\ rate'[c] = rate[c]
      <4>1. rate[c].started \in Int /\ rate'[c] = rate[c] /\ CountOf(c)
        BY <1>6, <2>1 DEF ServerIInv, HandlerTyped
      <4>2. PICK t : t = rate[c].started
        OBVIOUS
      <4>3. Admitted(c, t)' = Admitted(c, t)
        BY <1>14, <2>1, <4>1, <4>2
      <4> QED BY <4>1, <4>2, <4>3 DEF Admitted
    <3> QED BY <3>1 DEF CountOf
  <2>2. CASE c = b
    <3>1. Cardinality(Admitted(b, w.started)') <= w.count
      <4>1. CASE counted'[q] = 0
        BY <1>5, <1>14, <1>16, <2>2, <4>1, AdmittedFinite
      <4>2. CASE counted'[q] # 0
        BY <1>5, <1>15, <1>16, <4>2, AdmittedFinite
      <4> QED BY <4>1, <4>2
    <3>2. Admitted(b, rate[b].started)' = Admitted(b, w.started)'
      BY <1>6 DEF Admitted
    <3> QED BY <1>5, <1>6, <2>2, <3>1, <3>2 DEF CountOf
  <2> QED BY <2>1, <2>2
<1>18. ASSUME NEW c \in Buckets, NEW t \in Nat PROVE Cardinality(Admitted(c, t)') <= Limit
  <2>1. Cardinality(Admitted(c, t)) <= Limit
    BY DEF ServerIInv
  <2>2. CASE c # b \/ t # w.started \/ counted'[q] = 0
    BY <1>14, <2>1, <2>2
  <2>3. CASE c = b /\ t = w.started /\ counted'[q] # 0
    BY <1>5, <1>10, <1>15, <1>16, <2>3, AdmittedFinite, ServerConstants
  <2> QED BY <2>2, <2>3
<1> QED BY <1>7, <1>9, <1>12, <1>13, <1>17, <1>18 DEF ServerIInv

\* What follows the count: who is asking, the command, the event of a refusal.
LEMMA HandlerSteps ==
  ASSUME ServerIInv, NEW q \in Calls,
         \/ ServePublic(q) \/ AuthenticateAgent(q) \/ AuthenticateOnWeb(q) \/ VerifyOwner(q)
         \/ RunOnboarding(q) \/ RunCommand(q) \/ RunRest(q) \/ RunJobsOnWeb(q) \/ RunTool(q)
         \/ RecordAuthorizationDenied(q) \/ Fail(q)
  PROVE  ServerIInv'
<1>1. \A r : Outcomes(r) \subseteq AnswerStatuses
  BY DEF Outcomes, AnswerStatuses
<1>2. PICK to \in Places \ {"new", "counting"}, status \in AnswerStatuses :
        /\ pc[q] # "new" /\ pc[q] # "answered" /\ pc' = [pc EXCEPT ![q] = to]
        /\ IF to = "answered" THEN answer' = [answer EXCEPT ![q] = status] ELSE UNCHANGED answer
        /\ UNCHANGED <<now, rate, request, clock, counted>>
  <2> USE DEF Move, Reply, Places, AnswerStatuses
  <2>0. "error" \in AnswerStatuses
    OBVIOUS
  <2>1. CASE ServePublic(q)
    BY <2>1 DEF ServePublic
  <2>2. CASE AuthenticateAgent(q)
    BY <2>0, <2>2 DEF AuthenticateAgent, Named, Rejected
  <2>3. CASE AuthenticateOnWeb(q)
    BY <2>0, <2>3 DEF AuthenticateOnWeb, Named, Rejected
  <2>4. CASE VerifyOwner(q)
    BY <2>0, <2>4 DEF VerifyOwner, Rejected, Open
  <2>5. CASE RunOnboarding(q) \/ RunCommand(q)
    BY <1>1, <2>5 DEF RunOnboarding, RunCommand, Ready
  <2>6. CASE RunRest(q) \/ RunJobsOnWeb(q) \/ RunTool(q)
    <3>1. (\E outcome \in Outcomes(request[q]) \ {"forbidden"} : Reply(q, outcome)) \/ Denied(q)
      BY <2>6 DEF RunRest, RunJobsOnWeb, RunTool
    <3>2. pc[q] = "running" /\ UNCHANGED <<now, rate, request, clock, counted, audit>>
      BY <2>6 DEF RunRest, RunJobsOnWeb, RunTool, Ready
    <3>3. CASE \E outcome \in Outcomes(request[q]) \ {"forbidden"} : Reply(q, outcome)
      BY <1>1, <3>2, <3>3
    <3>4. CASE Denied(q)
      BY <2>0, <3>2, <3>4 DEF Denied
    <3> QED BY <3>1, <3>3, <3>4
  <2>7. CASE RecordAuthorizationDenied(q)
    BY <2>7 DEF RecordAuthorizationDenied
  <2>8. CASE Fail(q)
    BY <2>8 DEF Fail
  <2> QED BY <2>1, <2>2, <2>3, <2>4, <2>5, <2>6, <2>7, <2>8
<1> QED BY <1>2, GoesOn

LEMMA ServerNextIInv == ASSUME ServerIInv, [ServerNext]_serverVars PROVE ServerIInv'
<1>0. now \in Nat /\ now >= 1
  BY DEF ServerIInv, HandlerTyped
<1>1. CASE UNCHANGED serverVars
  BY <1>0, <1>1, Elsewhere DEF serverVars
<1>2. CASE Tick
  BY <1>0, <1>2, Elsewhere DEF Tick
<1>3. CASE StartServer \/ (\E s \in Sides : StartOnRequest(s)) \/ CloseDatabase \/ StopListening \/ Exit
  <2>1. UNCHANGED <<now, rate, handler, audit>>
    BY <1>3 DEF StartServer, StartOnRequest, CloseDatabase, StopListening, Exit
  <2> QED BY <1>0, <2>1, Elsewhere
<1>4. ASSUME NEW q \in Calls, Handle(q) PROVE ServerIInv'
  BY <1>4, CountStep, HandlerSteps DEF Handle
<1>5. ASSUME NEW q \in Calls, NEW r \in Requests, Receive(q, r) PROVE ServerIInv'
  BY <1>5, ReceiveStep
<1> QED BY <1>1, <1>2, <1>3, <1>4, <1>5 DEF ServerNext

\* What every call and every bucket of the rate limit may rely on (Server).
THEOREM ServerInvariance == ServerSpec => []ServerIInv
<1>1. ServerInit => ServerIInv
  BY ServerInitIInv
<1>2. ServerIInv /\ [ServerNext]_serverVars => ServerIInv'
  BY ServerNextIInv
<1> QED BY <1>1, <1>2, PTL DEF ServerSpec

\* For any number of requests, any limit and any window: whatever clocks the
\* processes read and however late, a window's length admits no more requests
\* of a bucket than the limit (consumeRateLimit's upsert).
THEOREM LimitAlwaysHolds == ServerSpec => []LimitHolds
<1>1. ASSUME ServerIInv, NEW q \in Calls, counted[q] # 0
      PROVE  Cardinality({p \in Calls :
               /\ counted[p] # 0 /\ Bucket(p) = Bucket(q)
               /\ counted[p] \in (counted[q] - Window + 1)..counted[q]}) <= Limit
  <2>1. ASSUME NEW p \in Calls, counted[p] # 0, Bucket(p) = Bucket(q)
        PROVE  counted[p] \in (counted[q] - Window + 1)..counted[q] <=> counted[p] = counted[q]
    <3>1. counted[p] \in Nat /\ counted[q] \in Nat
      BY <1>1 DEF ServerIInv, HandlerTyped
    <3>2. \/ counted[p] = counted[q]
          \/ counted[p] <= counted[q] - Window
          \/ counted[q] <= counted[p] - Window
      BY <1>1, <2>1 DEF ServerIInv, WindowsApart
    <3> QED BY <3>1, <3>2, ServerConstants
  <2>2. {p \in Calls : /\ counted[p] # 0 /\ Bucket(p) = Bucket(q)
                       /\ counted[p] \in (counted[q] - Window + 1)..counted[q]}
        = Admitted(Bucket(q), counted[q])
    BY <2>1 DEF Admitted
  <2>3. counted[q] \in Nat
    BY <1>1 DEF ServerIInv, HandlerTyped
  <2> QED BY <1>1, <2>2, <2>3, BucketTyped DEF ServerIInv
<1>2. ServerIInv => LimitHolds
  BY <1>1 DEF LimitHolds
<1> QED BY <1>2, ServerInvariance, PTL
==============================================================================
