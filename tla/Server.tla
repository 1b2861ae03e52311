------------------------------- MODULE Server -------------------------------
(***************************************************************************)
(* The HTTP surface: the long-running Node server (REST and MCP), its      *)
(* serverless twin and the web application's own routes, three processes   *)
(* over one database.  A request is turned away, counted against its       *)
(* minute, authenticated, run and answered; the steps of different         *)
(* requests interleave, every call to the database may fail, and the Node  *)
(* server may be told to stop while requests are open.                     *)
(*                                                                         *)
(* What a command does is the other modules' subject; here it has one of   *)
(* the outcomes publicError tells apart.                                   *)
(***************************************************************************)
EXTENDS Integers, FiniteSets

CONSTANTS
  Calls,         \* HTTP requests, each made once
  Requests,      \* what a request may be
  Environments,  \* configurations a deployment may start with
  Limit,         \* NORMIC_RATE_LIMIT_PER_MINUTE
  Window,        \* windowSeconds
  MaxTime        \* bound on the clock

Sides == {"node", "vercel", "web"}
Routes == {"public", "onboarding", "command", "rest", "mcp"}
RequestType ==
  [side: Sides, route: Routes,
   token: {"none", "api", "oauth"},  \* the bearer token, nmc_ or not
   owner: BOOLEAN,                   \* asks to act as the verified owner
   effect: {"read", "change"},       \* a change needs an idempotency key
   keyed: BOOLEAN,                   \* carries a valid one
   gated: BOOLEAN]                   \* the command waits for its capability
EnvironmentType ==
  [production: BOOLEAN, complete: BOOLEAN, devFlag: BOOLEAN,
   oauth: BOOLEAN, ownerAuth: BOOLEAN, ready: BOOLEAN]
AnswerStatuses == {"ok", "invalid", "unauthenticated", "forbidden", "limited",
                   "blocked", "error"}

ASSUME ServerAssumption ==
  /\ Requests \subseteq RequestType
  /\ Environments \subseteq EnvironmentType
  /\ Limit \in Nat \ {0} /\ Window \in Nat \ {0} /\ MaxTime \in Nat
  /\ IsFiniteSet(Calls)

VARIABLES
  now,      \* the clock
  env,      \* process.env, fixed
  process,  \* process[s]
  rate,     \* rate_limit_windows[bucket]
  request,  \* request[q]
  pc,       \* where the handler of q stands
  clock,    \* clock[q]: the time q read for its rate limit statement, 0 after
  counted,  \* counted[q]: start of the window that admitted q, 0 before
  answer,   \* answer[q]
  audit     \* audit events written: <<call, type>>

deployment == <<env, process>>
handler == <<request, pc, clock, counted, answer>>
serverVars == <<now, deployment, rate, handler, audit>>

Buckets == {"api", "web"}
NoRequest == [side |-> "none"]

ServerInit ==
  /\ now = 1
  /\ env \in Environments
  /\ process = [s \in Sides |-> "cold"]
  /\ rate = [b \in Buckets |-> [started |-> 1 - Window, count |-> 0]]
  /\ request = [q \in Calls |-> NoRequest]
  /\ pc = [q \in Calls |-> "new"]
  /\ clock = [q \in Calls |-> 0]
  /\ counted = [q \in Calls |-> 0]
  /\ answer = [q \in Calls |-> "none"]
  /\ audit = {}

Tick == /\ now < MaxTime
        /\ now' = now + 1
        /\ UNCHANGED <<deployment, rate, handler, audit>>

------------------------------------------------------------------------------
(* Starting and stopping.                                                  *)

\* productionConfigurationBlockers: outside production there is none.
Blockers(e) ==
  IF ~e.production THEN {}
  ELSE (IF e.complete THEN {} ELSE {"MISSING_CONFIGURATION"})
       \cup (IF e.oauth /\ e.ownerAuth THEN {} ELSE {"MISSING_CONFIGURATION"})
       \cup (IF e.devFlag THEN {"DEVELOPMENT_AUTH_ENABLED"} ELSE {})

DevelopmentAuth == env.devFlag \/ ~env.production

\* The web application and the serverless twin start with their first request
\* and keep the promise of that start, a rejected one too.
KeepsFirstStart == {"vercel", "web"}

\* A process starts if nothing blocks it and the database, the chain and the
\* key set answer.
Started(s) ==
  /\ process[s] = "cold"
  /\ \/ Blockers(env) = {} /\ process' = [process EXCEPT ![s] = "up"]
     \/ process' = [process EXCEPT ![s] = "failed"]

StartServer ==
  /\ Started("node")
  /\ UNCHANGED <<now, env, rate, handler, audit>>

StartOnRequest(s) ==
  /\ s \in KeepsFirstStart /\ Started(s)
  /\ UNCHANGED <<now, env, rate, handler, audit>>

\* SIGTERM: shutdown closes the MCP handler and the database, and then the
\* listening socket.
CloseDatabase ==
  /\ process["node"] = "up"
  /\ process' = [process EXCEPT !["node"] = "closed"]
  /\ UNCHANGED <<now, env, rate, handler, audit>>

StopListening ==
  /\ process["node"] = "closed"
  /\ process' = [process EXCEPT !["node"] = "draining"]
  /\ UNCHANGED <<now, env, rate, handler, audit>>

\* A call that has arrived and has not been answered.
Open(q) == pc[q] \notin {"new", "answered"}

\* Mutant: the process exits as soon as the database is closed.
ExitAtOnce ==
  /\ process["node"] = "draining"
  /\ process' = [process EXCEPT !["node"] = "exited"]
  /\ UNCHANGED <<now, env, rate, handler, audit>>

\* server.close calls back when the last open request has been answered.
Exit ==
  /\ process["node"] = "draining"
  /\ \A q \in Calls : Open(q) => request[q].side # "node"
  /\ process' = [process EXCEPT !["node"] = "exited"]
  /\ UNCHANGED <<now, env, rate, handler, audit>>

Alive(q) == process[request[q].side] # "exited"
Connected(q) == process[request[q].side] = "up"

------------------------------------------------------------------------------
(* A request arrives and is counted.                                       *)

Move(q, to) == pc' = [pc EXCEPT ![q] = to] /\ UNCHANGED answer
Reply(q, status) == /\ pc' = [pc EXCEPT ![q] = "answered"]
                    /\ answer' = [answer EXCEPT ![q] = status]

Listening(s) == IF s \in KeepsFirstStart THEN process[s] \in {"up", "failed"}
                                         ELSE process[s] \in {"up", "closed"}

\* Host, origin and declared size are looked at first; the serverless twin also
\* answers a preflight there, and the web refuses a foreign origin as nobody.
Early(s) == CASE s = "node" -> {"forbidden", "invalid"}
              [] s = "vercel" -> {"forbidden", "ok"}
              [] s = "web" -> {"unauthenticated"}

\* A process whose start failed answers every request with that failure.
Receive(q, r) ==
  /\ pc[q] = "new" /\ Listening(r.side)
  /\ request' = [request EXCEPT ![q] = r]
  /\ clock' = [clock EXCEPT ![q] = now]
  /\ IF process[r.side] = "failed"
     THEN Reply(q, "error")
     ELSE Move(q, "counting") \/ \E status \in Early(r.side) : Reply(q, status)
  /\ UNCHANGED <<now, deployment, rate, counted, audit>>

Bucket(q) == IF request[q].side = "web" THEN "web" ELSE "api"

\* Mutant: a clock behind the window's opens a new window too.
ExpiredEither(q) == \/ rate[Bucket(q)].started <= clock[q] - Window
                    \/ rate[Bucket(q)].started > clock[q]

Expired(q) == rate[Bucket(q)].started <= clock[q] - Window

\* consumeRateLimit, one upsert: requests are counted in the order their
\* statements run, with the time each read before.
CountedIn(q) == IF Expired(q) THEN [started |-> clock[q], count |-> 1]
                ELSE [rate[Bucket(q)] EXCEPT !.count = @ + 1]

ConsumeRateLimit(q) ==
  LET w == CountedIn(q)
  IN  /\ pc[q] = "counting" /\ Connected(q)
      /\ rate' = [rate EXCEPT ![Bucket(q)] = w]
      /\ IF w.count <= Limit
         THEN Move(q, "routing") /\ counted' = [counted EXCEPT ![q] = w.started]
         ELSE Reply(q, "limited") /\ UNCHANGED counted
      /\ clock' = [clock EXCEPT ![q] = 0]
      /\ UNCHANGED <<now, deployment, request, audit>>

------------------------------------------------------------------------------
(* Who is asking.                                                          *)

\* The routes that need nobody: health, status and the OAuth metadata.
ServePublic(q) ==
  /\ pc[q] = "routing" /\ request[q].route = "public" /\ Alive(q)
  /\ Reply(q, "ok")
  /\ UNCHANGED <<now, deployment, rate, request, clock, counted, audit>>

NeedsAgent(r) == \/ r.route \in {"rest", "mcp"}
                 \/ r.route = "command" /\ ~r.owner
NeedsOwner(r) == \/ r.route = "onboarding"
                 \/ r.route \in {"command", "mcp"} /\ r.owner

\* Whether a token may name an agent at all: an API credential opens the MCP
\* route only in development, an OAuth token needs a configured issuer.
Admissible(r) == \/ r.token = "api" /\ (r.route = "mcp" => DevelopmentAuth)
                 \/ r.token = "oauth" /\ env.oauth

Rejected(q) == /\ Reply(q, "unauthenticated")
               /\ audit' = audit \cup {<<q, "authentication.failed">>}

Named(q) == /\ Connected(q) /\ Admissible(request[q])
            /\ Move(q, IF NeedsOwner(request[q]) THEN "owner" ELSE "running")
            /\ UNCHANGED audit

\* The gate's verifier writes authentication.failed; whatever goes wrong in it,
\* the database included, is an invalid token.
AuthenticateAgent(q) ==
  /\ pc[q] = "routing" /\ request[q].side # "web" /\ NeedsAgent(request[q]) /\ Alive(q)
  /\ \/ Named(q)
     \/ Connected(q) /\ Rejected(q)
     \/ Reply(q, "unauthenticated") /\ UNCHANGED audit
  /\ UNCHANGED <<now, deployment, rate, request, clock, counted>>

\* The web routes have no gate: there a database failure is an error.
AuthenticateOnWeb(q) ==
  /\ pc[q] = "routing" /\ request[q].side = "web" /\ NeedsAgent(request[q])
  /\ \/ Named(q)
     \/ Connected(q) /\ Rejected(q)
     \/ Reply(q, "error") /\ UNCHANGED audit
  /\ UNCHANGED <<now, deployment, rate, request, clock, counted>>

AuditsOwnerFailure(r) == r.route = "onboarding" /\ r.side = "node" /\ env.ownerAuth

\* verifyOwner turns every failure into a refusal.  Only the Node server's
\* onboarding routes audit it, before they answer.  Registration needs no
\* owner where no owner identity provider is configured.
VerifyOwner(q) ==
  LET r == request[q]
  IN  /\ Open(q) /\ NeedsOwner(r) /\ Alive(q)
      /\ pc[q] = IF NeedsAgent(r) THEN "owner" ELSE "routing"
      /\ \/ /\ (env.ownerAuth /\ Connected(q)) \/ (~env.ownerAuth /\ r.route = "onboarding")
            /\ Move(q, "running")
            /\ UNCHANGED audit
         \/ ~AuditsOwnerFailure(r) /\ Reply(q, "unauthenticated") /\ UNCHANGED audit
         \/ AuditsOwnerFailure(r) /\ Connected(q) /\ Rejected(q)
         \/ AuditsOwnerFailure(r) /\ Reply(q, "error") /\ UNCHANGED audit
      /\ UNCHANGED <<now, deployment, rate, request, clock, counted>>

------------------------------------------------------------------------------
(* Running the command.                                                    *)

Unkeyed(r) == r.effect = "change" /\ ~r.keyed
Blocked(r) == r.gated /\ ~env.ready

\* A change without an idempotency key is invalid before anything runs; a
\* command of a capability that is not ready is blocked.
Outcomes(r) == IF Unkeyed(r) THEN {"invalid"}
               ELSE IF Blocked(r) THEN {"blocked"}
               ELSE {"ok", "invalid", "unauthenticated", "forbidden", "error"}

Ready(q) == pc[q] = "running" /\ Connected(q)

\* Registration, connection and the owner's revocation; finance, trading and
\* autonomy commands over REST and on the web: a refusal is only answered.
RunOnboarding(q) ==
  /\ Ready(q) /\ request[q].route = "onboarding"
  /\ \E outcome \in Outcomes(request[q]) : Reply(q, outcome)
  /\ UNCHANGED <<now, deployment, rate, request, clock, counted, audit>>

RunCommand(q) ==
  /\ Ready(q) /\ request[q].route = "command"
  /\ \E outcome \in Outcomes(request[q]) : Reply(q, outcome)
  /\ UNCHANGED <<now, deployment, rate, request, clock, counted, audit>>

\* The agent's REST routes, the web's private jobs and the MCP tools audit a
\* refusal before they answer it.
Denied(q) == "forbidden" \in Outcomes(request[q]) /\ Move(q, "denied")

RunRest(q) ==
  /\ Ready(q) /\ request[q].route = "rest" /\ request[q].side # "web"
  /\ \/ \E outcome \in Outcomes(request[q]) \ {"forbidden"} : Reply(q, outcome)
     \/ Denied(q)
  /\ UNCHANGED <<now, deployment, rate, request, clock, counted, audit>>

RunJobsOnWeb(q) ==
  /\ Ready(q) /\ request[q].route = "rest" /\ request[q].side = "web"
  /\ \/ \E outcome \in Outcomes(request[q]) \ {"forbidden"} : Reply(q, outcome)
     \/ Denied(q)
  /\ UNCHANGED <<now, deployment, rate, request, clock, counted, audit>>

RunTool(q) ==
  /\ Ready(q) /\ request[q].route = "mcp"
  /\ \/ \E outcome \in Outcomes(request[q]) \ {"forbidden"} : Reply(q, outcome)
     \/ Denied(q)
  /\ UNCHANGED <<now, deployment, rate, request, clock, counted, audit>>

\* recordAuthorizationDenied is awaited inside the handler of the refusal: if
\* it fails, the request fails.
RecordAuthorizationDenied(q) ==
  /\ pc[q] = "denied" /\ Alive(q)
  /\ \/ /\ Connected(q)
        /\ Reply(q, "forbidden")
        /\ audit' = audit \cup {<<q, "authorization.denied">>}
     \/ Reply(q, "error") /\ UNCHANGED audit
  /\ UNCHANGED <<now, deployment, rate, request, clock, counted>>

\* A database call that fails anywhere else reaches the outermost catch.
Fail(q) ==
  /\ pc[q] \in {"counting", "running"} /\ Alive(q)
  /\ Reply(q, "error")
  /\ UNCHANGED <<now, deployment, rate, request, clock, counted, audit>>

Handle(q) ==
  \/ ConsumeRateLimit(q) \/ ServePublic(q)
  \/ AuthenticateAgent(q) \/ AuthenticateOnWeb(q) \/ VerifyOwner(q)
  \/ RunOnboarding(q) \/ RunCommand(q) \/ RunRest(q) \/ RunJobsOnWeb(q) \/ RunTool(q)
  \/ RecordAuthorizationDenied(q) \/ Fail(q)

------------------------------------------------------------------------------

ServerNext ==
  \/ Tick
  \/ StartServer \/ \E s \in Sides : StartOnRequest(s)
  \/ CloseDatabase \/ StopListening \/ Exit
  \/ \E q \in Calls : Handle(q) \/ \E r \in Requests : Receive(q, r)

\* An accepted request's handler goes on: its awaits resolve or reject.
ServerSpec == ServerInit /\ [][ServerNext]_serverVars /\ \A q \in Calls : WF_serverVars(Handle(q))

------------------------------------------------------------------------------
(* Properties.                                                              *)

\* The limit holds across processes and late clocks: no more requests than
\* the limit are admitted into windows that began less than a window's length
\* apart (consumeRateLimit's upsert).
LimitHolds ==
  \A q \in Calls :
    counted[q] # 0 =>
      Cardinality({p \in Calls :
        /\ counted[p] # 0 /\ Bucket(p) = Bucket(q)
        /\ counted[p] \in (counted[q] - Window + 1)..counted[q]}) <= Limit

\* docs/phase3-report.md: "Authentication and authorization failures are
\* auditable."  Whoever is refused after being counted has left an audit event:
\* what the document says, and the command routes do not do.
DenialsAreAudited ==
  \A q \in Calls :
    counted[q] # 0 /\ answer[q] = "forbidden" => <<q, "authorization.denied">> \in audit

\* Every accepted request is answered: when the audit event of a refusal or
\* the database fails, and when the server is told to stop while it is open.
EveryRequestAnswered == \A q \in Calls : (pc[q] = "counting") ~> (pc[q] = "answered")
==============================================================================
