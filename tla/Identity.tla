------------------------------ MODULE Identity ------------------------------
(***************************************************************************)
(* EconomyService's identities: a verified owner bootstraps or connects an *)
(* agent, the agent's credentials are issued, rotated and revoked, and an  *)
(* OAuth client acts for the owner through the credential its grant names. *)
(*                                                                         *)
(* A call first authenticates, with an API secret or an OAuth access       *)
(* token, and then runs one READ COMMITTED transaction: it reads in one    *)
(* step and commits in a later one.  Only rotateCredential locks a row,    *)
(* the company's; onboarding calls wait for each other only if they share  *)
(* an idempotency key.  Every other call comes with a key of its own (Jobs *)
(* models repeated keys).                                                  *)
(*                                                                         *)
(* Agents and credentials are known by their place in the order of their   *)
(* creation; an agent and its company are one.                             *)
(***************************************************************************)
EXTENDS Integers, Sequences, SequencesExt

CONSTANTS
  Owners,         \* verified human identities (issuer and subject)
  Emails,
  Email,          \* Email[o]: the address of o
  Handles,        \* handles that registrations may ask for
  Scopes,         \* DEFAULT_SCOPES; "company:write" is needed for credentials
  Keys,           \* idempotency keys of onboarding
  Calls,          \* concurrent calls
  MaxAgents,      \* bound on agents
  MaxCredentials, \* bound on credentials
  None

ASSUME IdentityAssumption ==
  /\ Email \in [Owners -> Emails]
  /\ "company:write" \in Scopes
  /\ Owners \cap Handles = {}
  /\ None \notin Owners \cup Keys \cup Nat
  /\ MaxAgents \in Nat /\ MaxCredentials \in Nat

VARIABLES
  user,         \* user[e]: the identity the address is registered to
  agents,       \* agents and their companies, oldest first
  credentials,  \* api_credentials, oldest first
  grant,        \* grant[o]: the OAuth grant of o under the dynamic-client policy
  tokens,       \* access tokens in circulation
  onboarding,   \* onboarding_idempotency
  call          \* the open calls

tables == <<user, agents, credentials, grant, tokens, onboarding>>
identityVars == <<tables, call>>

Agents == 1..MaxAgents
Credentials == 1..MaxCredentials

\* connectExternalAgent derives the handle from the owner's subject.
Agent == [owner: Owners, handle: Handles \cup Owners]
Credential == [agent: Agents, scopes: SUBSET Scopes, revoked: BOOLEAN, expired: BOOLEAN,
               from: Credentials \cup {None}]
Grant == [agent: Agents, credential: Credentials]
Token == [owner: Owners, credential: Credentials, scopes: SUBSET Scopes]
Onboarding == [op: {"bootstrap", "connect"}, owner: Owners]

\* What the tables may hold.
UserRows == [Emails -> Owners \cup {None}]
AgentRows(stored) == Len(stored) <= MaxAgents /\ \A a \in DOMAIN stored : stored[a] \in Agent
CredentialRows(stored) == Len(stored) <= MaxCredentials /\ \A c \in DOMAIN stored : stored[c] \in Credential
GrantRows == [Owners -> Grant \cup {None}]
OnboardingRows == [Keys -> Onboarding \cup {None}]

\* A call: its step, who makes it, with which credential and scopes, its
\* onboarding key, and what it has read: a user, an agent, a credential.
Steps == {"idle", "token", "authenticated", "bootstrap", "connect", "connecting", "rotate"}
Call == [step: Steps, owner: Owners \cup {None}, by: Credentials \cup {None},
         scopes: SUBSET Scopes, key: Keys \cup {None}, user: Owners \cup {None},
         agent: Agents \cup {None}, credential: Credentials \cup {None}]
Idle == [step |-> "idle", owner |-> None, by |-> None, scopes |-> {}, key |-> None,
         user |-> None, agent |-> None, credential |-> None]

IdentityInit ==
  /\ user = [e \in Emails |-> None]
  /\ agents = <<>>
  /\ credentials = <<>>
  /\ grant = [o \in Owners |-> None]
  /\ tokens = {}
  /\ onboarding = [k \in Keys |-> None]
  /\ call = [x \in Calls |-> Idle]

------------------------------------------------------------------------------
(* Credentials.                                                            *)

Live(c) == ~credentials[c].revoked /\ ~credentials[c].expired
AgentOf(c) == credentials[c].agent
OwnerOf(c) == agents[AgentOf(c)].owner

\* credentialRecord, appended by createCredential.
CredentialRecord(agent, scopes, expired, from) ==
  [agent |-> agent, scopes |-> scopes, revoked |-> FALSE, expired |-> expired, from |-> from]
CanIssue(n) == Len(credentials) + n <= MaxCredentials

\* revoked_at keeps its first value.
Revoked(creds, c) == [creds EXCEPT ![c].revoked = TRUE]

\* assertCredentialScopes
Grants(x, scopes) == scopes \subseteq call[x].scopes

End(x) == call' = [call EXCEPT ![x] = Idle]
Rollback(x) == call[x].step # "idle" /\ End(x) /\ UNCHANGED tables

Expire(c) ==
  /\ c \in DOMAIN credentials /\ ~credentials[c].expired
  /\ credentials' = [credentials EXCEPT ![c].expired = TRUE]
  /\ UNCHANGED <<user, agents, grant, tokens, onboarding, call>>

------------------------------------------------------------------------------
(* Onboarding.                                                             *)

\* listAgents orders by creation.
AgentsOf(o) == {a \in DOMAIN agents : agents[a].owner = o}
FirstAgent(o) == CHOOSE a \in AgentsOf(o) : \A b \in AgentsOf(o) : a <= b
HandleFree(h) == \A a \in DOMAIN agents : agents[a].handle # h

KnownUserAlways(o) == TRUE

\* An address registered to another identity is refused.
KnownUser(o) == user[Email[o]] \in {o, None}

\* claimOnboarding: inserted, or waiting for the call that inserted it; a
\* committed record is replayed to its owner and refused to any other request.
ClaimOnboarding(k) ==
  /\ onboarding[k] = None
  /\ \A x \in Calls : call[x].key # k

CompleteOnboarding(x, op) ==
  /\ onboarding' = [onboarding EXCEPT ![call[x].key] = [op |-> op, owner |-> call[x].owner]]
  /\ End(x)

Onboard(x, step, o, k, found) ==
  /\ call[x].step = "idle"
  /\ ClaimOnboarding(k)
  /\ KnownUser(o)
  /\ call' = [call EXCEPT ![x] = [Idle EXCEPT !.step = step, !.owner = o, !.key = k,
                                  !.user = user[Email[o]], !.agent = found]]
  /\ UNCHANGED tables

BootstrapBegin(x, o, k) == Onboard(x, "bootstrap", o, k, None)

\* The user row is inserted when none was found: its address is unique.
PersistUser(x) ==
  LET e == Email[call[x].owner] IN
  IF call[x].user = None THEN user[e] = None /\ user' = [user EXCEPT ![e] = call[x].owner]
                         ELSE UNCHANGED user

\* persistIdentity: the company's slug and the agent's handle are unique.
PersistIdentity(o, h) ==
  /\ HandleFree(h) /\ Len(agents) < MaxAgents
  /\ agents' = Append(agents, [owner |-> o, handle |-> h])

BootstrapAgent(x, h) ==
  /\ call[x].step = "bootstrap"
  /\ CanIssue(1)
  /\ PersistUser(x)
  /\ PersistIdentity(call[x].owner, h)
  /\ credentials' = Append(credentials, CredentialRecord(Len(agents'), Scopes, FALSE, None))
  /\ CompleteOnboarding(x, "bootstrap")
  /\ UNCHANGED <<grant, tokens>>

ConnectBegin(x, o, k) ==
  Onboard(x, "connect", o, k,
          IF user[Email[o]] # None /\ AgentsOf(user[Email[o]]) # {}
          THEN FirstAgent(user[Email[o]]) ELSE None)

\* The newest usable credential of the agent, if there is one.
Usable(a) == {c \in DOMAIN credentials : AgentOf(c) = a /\ Live(c) /\ credentials[c].scopes # {}}
Newest(S) == CHOOSE c \in S : \A d \in S : d <= c

ConnectChoose(x) ==
  /\ call[x].step = "connect"
  /\ call' = [call EXCEPT ![x].step = "connecting",
       ![x].credential = IF call[x].agent = None \/ Usable(call[x].agent) = {} THEN None
                         ELSE Newest(Usable(call[x].agent))]
  /\ UNCHANGED tables

\* ensureDynamicOAuthGrant, under the policy's lock: the grant of another
\* agent is a conflict, the owner's own is pointed to the credential.
EnsureGrant(o, a, c) ==
  /\ grant[o] # None => grant[o].agent = a
  /\ grant' = [grant EXCEPT ![o] = [agent |-> a, credential |-> c]]

ConnectExternalAgent(x) ==
  LET o == call[x].owner
      new == call[x].agent = None
      a == IF new THEN Len(agents) + 1 ELSE call[x].agent
      issue == call[x].credential = None
      c == IF issue THEN Len(credentials) + 1 ELSE call[x].credential IN
  /\ call[x].step = "connecting"
  /\ IF new THEN PersistUser(x) /\ PersistIdentity(o, o) ELSE UNCHANGED <<user, agents>>
  /\ IF issue
     THEN /\ CanIssue(1)
          /\ credentials' = Append(credentials, CredentialRecord(a, Scopes, FALSE, None))
     ELSE UNCHANGED credentials
  /\ EnsureGrant(o, a, c)
  /\ CompleteOnboarding(x, "connect")
  /\ UNCHANGED tokens

------------------------------------------------------------------------------
(* Authentication.                                                         *)

\* ApiCredentialAuthenticator
Authenticate(x, c) ==
  /\ call[x].step = "idle"
  /\ c \in DOMAIN credentials /\ Live(c)
  /\ call' = [call EXCEPT ![x] = [Idle EXCEPT !.step = "authenticated", !.by = c,
                                  !.scopes = credentials[c].scopes]]
  /\ UNCHANGED tables

\* normic_custom_access_token_hook: what the grant names, if it is live.
MintToken(o) ==
  /\ grant[o] # None
  /\ LET c == grant[o].credential IN
     /\ AgentOf(c) = grant[o].agent /\ Live(c) /\ OwnerOf(c) = o
     /\ credentials[c].scopes # {}
     /\ tokens' = tokens \cup {[owner |-> o, credential |-> c, scopes |-> credentials[c].scopes]}
  /\ tokens' # tokens
  /\ UNCHANGED <<user, agents, credentials, grant, onboarding, call>>

\* OAuthAgentAuthenticator reads the credential and the owner...
AuthenticateToken(x, t) ==
  /\ call[x].step = "idle"
  /\ t \in tokens /\ Live(t.credential) /\ OwnerOf(t.credential) = t.owner
  /\ call' = [call EXCEPT ![x] = [Idle EXCEPT !.step = "token", !.owner = t.owner, !.by = t.credential,
                 !.scopes = credentials[t.credential].scopes \cap t.scopes]]
  /\ UNCHANGED tables

\* ...and then the grant, which must still name that credential.
HasDynamicOAuthGrant(x) ==
  /\ call[x].step = "token"
  /\ grant[call[x].owner] = [agent |-> AgentOf(call[x].by), credential |-> call[x].by]
  /\ call' = [call EXCEPT ![x].step = "authenticated", ![x].owner = None]
  /\ UNCHANGED tables

------------------------------------------------------------------------------
(* The agent's own operations, after authentication.                       *)

\* authorizeMutation: the scope the principal authenticated with.
MayWrite(x) == call[x].step = "authenticated" /\ "company:write" \in call[x].scopes

\* Another agent and company of the same owner.
RegisterAgent(x, h) ==
  /\ MayWrite(x)
  /\ CanIssue(1)
  /\ PersistIdentity(OwnerOf(call[x].by), h)
  /\ credentials' = Append(credentials,
       CredentialRecord(Len(agents'), Scopes \cap call[x].scopes, FALSE, None))
  /\ End(x)
  /\ UNCHANGED <<user, grant, tokens, onboarding>>

CreateCredential(x, scopes) ==
  /\ MayWrite(x)
  /\ Grants(x, scopes)
  /\ CanIssue(1)
  /\ credentials' = Append(credentials, CredentialRecord(AgentOf(call[x].by), scopes, FALSE, None))
  /\ End(x)
  /\ UNCHANGED <<user, agents, grant, tokens, onboarding>>

CompanyUnlockedAlways(a) == TRUE

\* lockCompanyForUpdate waits for the rotation that holds the row.
CompanyUnlocked(a) == \A x \in Calls : call[x].step = "rotate" => AgentOf(call[x].by) # a

RotateBegin(x, c) ==
  /\ MayWrite(x)
  /\ CompanyUnlocked(AgentOf(call[x].by))
  /\ c \in DOMAIN credentials /\ AgentOf(c) = AgentOf(call[x].by)
  /\ Live(c) /\ Grants(x, credentials[c].scopes)
  /\ call' = [call EXCEPT ![x].step = "rotate", ![x].credential = c]
  /\ UNCHANGED tables

RotateCredential(x) ==
  LET old == call[x].credential IN
  /\ call[x].step = "rotate"
  /\ CanIssue(1)
  /\ credentials' = Append(Revoked(credentials, old),
       CredentialRecord(AgentOf(old), credentials[old].scopes, credentials[old].expired, old))
  /\ End(x)
  /\ UNCHANGED <<user, agents, grant, tokens, onboarding>>

RevokeCredential(x, c) ==
  /\ MayWrite(x)
  /\ c \in DOMAIN credentials /\ AgentOf(c) = AgentOf(call[x].by)
  /\ credentials' = Revoked(credentials, c)
  /\ End(x)
  /\ UNCHANGED <<user, agents, grant, tokens, onboarding>>

\* The owner's session, not a credential, authorises this one.
RevokeOwnerCredential(o, c) ==
  /\ c \in DOMAIN credentials /\ OwnerOf(c) = o /\ user[Email[o]] = o
  /\ ~credentials[c].revoked
  /\ credentials' = Revoked(credentials, c)
  /\ UNCHANGED <<user, agents, grant, tokens, onboarding, call>>

------------------------------------------------------------------------------
IdentityNext ==
  \/ \E c \in Credentials : Expire(c)
  \/ \E o \in Owners : MintToken(o)
  \/ \E o \in Owners, c \in Credentials : RevokeOwnerCredential(o, c)
  \/ \E x \in Calls :
       \/ Rollback(x)
       \/ \E o \in Owners, k \in Keys : BootstrapBegin(x, o, k)
       \/ \E h \in Handles : BootstrapAgent(x, h)
       \/ \E o \in Owners, k \in Keys : ConnectBegin(x, o, k)
       \/ ConnectChoose(x)
       \/ ConnectExternalAgent(x)
       \/ \E c \in Credentials : Authenticate(x, c)
       \/ \E t \in tokens : AuthenticateToken(x, t)
       \/ HasDynamicOAuthGrant(x)
       \/ \E h \in Handles : RegisterAgent(x, h)
       \/ \E S \in SUBSET Scopes \ {{}} : CreateCredential(x, S)
       \/ \E c \in Credentials : RotateBegin(x, c)
       \/ RotateCredential(x)
       \/ \E c \in Credentials : RevokeCredential(x, c)

IdentitySpec == IdentityInit /\ [][IdentityNext]_identityVars

------------------------------------------------------------------------------
(* Properties.                                                             *)

\* Types, and a call that has ended holds nothing: no key, no credential.
IdentityTypeOK ==
  /\ user \in UserRows
  /\ AgentRows(agents)
  /\ CredentialRows(credentials)
  /\ grant \in GrantRows
  /\ tokens \subseteq Token
  /\ onboarding \in OnboardingRows
  /\ call \in [Calls -> Call]
  /\ \A x \in Calls : call[x].step = "idle" => call[x] = Idle

\* An owner's OAuth connection leads to the owner's own, oldest agent, the one
\* getOwnerConnection shows, with a credential of that agent, whoever else
\* signs up with the same address at the same time.
ConnectionOfOwner ==
  \A o \in Owners : grant[o] # None =>
    /\ user[Email[o]] = o
    /\ AgentsOf(o) # {} /\ grant[o].agent = FirstAgent(o)
    /\ AgentOf(grant[o].credential) = grant[o].agent

\* Concurrent rotations give a credential one successor.
RotatedOnce ==
  \A c, d \in DOMAIN credentials :
    credentials[c].from = credentials[d].from /\ credentials[c].from # None => c = d

\* economy.ts:1216, "A revoked or expired credential cannot be rotated.": what
\* rotateCredential read must still hold when it issues the successor.
RevokedNeverRotated ==
  [][\A c \in DOMAIN credentials' \ DOMAIN credentials :
       LET old == credentials'[c].from IN old # None => ~credentials[old].revoked]_identityVars
==============================================================================
