---------------------------- MODULE FinancialRoot ----------------------------
(***************************************************************************)
(* FinancialService's roots: a company reserves a financial root, its      *)
(* owner enrols a passkey, a wallet is provisioned for it, and a second    *)
(* passkey is enrolled for recovery with the first one's assertion.  And   *)
(* the sign-in of a human buyer's wallet, whose challenges work alike.     *)
(*                                                                         *)
(* A mutation is one transaction under the company's row lock.  Those that *)
(* verify a passkey or ask the wallet's provider take two steps: under the *)
(* lock they check and read, and they commit.  Between calls of two        *)
(* companies the database's unique indexes decide.  The time a challenge   *)
(* is good for is left open: one that has expired is one that no call uses *)
(* any more.                                                               *)
(*                                                                         *)
(* Every call has an idempotency key of its own (Jobs models repeated      *)
(* keys); a challenge is never shown again under its key.  A passkey       *)
(* stands for its credential id and its public key, and the address of an  *)
(* account, which is derived from that key, for the account.               *)
(***************************************************************************)
EXTENDS Integers, Sequences

CONSTANTS
  Companies,      \* of one owner
  Passkeys,
  SignIns,        \* identifiers of the challenges of human wallets
  Calls,          \* concurrent calls
  MaxChallenges,  \* bound on passkey challenges
  None

ASSUME FinancialRootAssumption ==
  /\ None \notin Companies \cup Passkeys \cup SignIns
  /\ MaxChallenges \in Nat

VARIABLES
  root,         \* financial_root_bindings
  wallet,       \* financial_wallets: the address of the company's account
  credentials,  \* financial_webauthn_credentials, in order
  challenges,   \* financial_webauthn_challenges, in order
  connected,    \* the companies whose agent is connected and whose grant lives
  signIn,       \* wallet_challenges
  sessions,     \* human_wallet_sessions created with each challenge
  call          \* the open calls

vars == <<root, wallet, credentials, challenges, connected, signIn, sessions, call>>

Statuses == {"none", "pending_passkey", "passkey_verified", "provisioned"}
Root == [status: Statuses, identity: Passkeys \cup {None}, address: Passkeys \cup {None}]
NoRoot == [status |-> "none", identity |-> None, address |-> None]

\* `used' is the challenge that a row was created with.
Credential == [company: Companies, passkey: Passkeys, purpose: {"primary", "recovery"},
               used: 1..MaxChallenges]
Challenge == [company: Companies, purpose: {"register_primary", "register_recovery", "root_assertion"},
              consumed: BOOLEAN, used: 0..MaxChallenges]

Challenges == 1..MaxChallenges

\* What the tables may hold.
RootRows == [Companies -> Root]
PasskeyRows(stored) == \A n \in DOMAIN stored : stored[n] \in Credential
ChallengeRows(stored) ==
  Len(stored) <= MaxChallenges /\ \A i \in DOMAIN stored : stored[i] \in Challenge
WalletRows == [Companies -> Passkeys \cup {None}]
WalletChallengeRows == [SignIns -> {"none", "open", "consumed"}]
HumanSessionRows == [SignIns -> Nat]

\* An open call has made its checks: its operation, and the challenge and the
\* passkey of the response it brings.
Ops == {"register_primary", "register_recovery", "authorize", "provision", "authenticate"}
ASSUME NoneIsNoOp == None \notin Ops
Idle == [op |-> None, company |-> None, challenge |-> None, passkey |-> None]
Call == [op: Ops, company: Companies \cup {None},
         challenge: Challenges \cup SignIns \cup {None}, passkey: Passkeys \cup {None}]

Init ==
  /\ root = [c \in Companies |-> NoRoot]
  /\ wallet = [c \in Companies |-> None]
  /\ credentials = <<>>
  /\ challenges = <<>>
  /\ connected = Companies
  /\ signIn = [k \in SignIns |-> "none"]
  /\ sessions = [k \in SignIns |-> 0]
  /\ call = [x \in Calls |-> Idle]

------------------------------------------------------------------------------
(* Calls.                                                                  *)

\* lockCompany waits for the call that holds the company's row.
CompanyUnlocked(c) == \A x \in Calls : call[x].company # c

Checked(x, op, c, i, p) ==
  /\ call[x] = Idle
  /\ call' = [call EXCEPT ![x] = [op |-> op, company |-> c, challenge |-> i, passkey |-> p]]
  /\ UNCHANGED <<root, wallet, credentials, challenges, connected, signIn, sessions>>

End(x) == call' = [call EXCEPT ![x] = Idle]

\* A signature that does not verify, a provider that does not answer, an index
\* that refuses a row, a crash: nothing is written, and the challenge is as it
\* was.
Rollback(x) ==
  /\ call[x] # Idle
  /\ End(x)
  /\ UNCHANGED <<root, wallet, credentials, challenges, connected, signIn, sessions>>

\* The agent's credential expires or is revoked, or the owner connects again.
Connection(c) ==
  /\ connected' = IF c \in connected THEN connected \ {c} ELSE connected \cup {c}
  /\ UNCHANGED <<root, wallet, credentials, challenges, signIn, sessions, call>>

------------------------------------------------------------------------------
(* Challenges.                                                             *)

\* createWebAuthnChallenge: one at a time for a root and a purpose.
Superseded(c, purpose) ==
  [i \in DOMAIN challenges |->
     IF challenges[i].company = c /\ challenges[i].purpose = purpose
     THEN [challenges[i] EXCEPT !.consumed = TRUE] ELSE challenges[i]]

Issued(c, purpose, used) ==
  Append(Superseded(c, purpose),
         [company |-> c, purpose |-> purpose, consumed |-> FALSE, used |-> used])

CanIssue == Len(challenges) < MaxChallenges

\* consumeWebAuthnChallenge, in the checks...
ConsumableAgain(c, purpose, i) ==
  i \in DOMAIN challenges /\ challenges[i].company = c /\ challenges[i].purpose = purpose
Consumable(c, purpose, i) ==
  /\ i \in DOMAIN challenges /\ challenges[i].company = c /\ challenges[i].purpose = purpose
  /\ ~challenges[i].consumed

\* ...and when the transaction commits.
Consumed(i) == [challenges EXCEPT ![i].consumed = TRUE]

------------------------------------------------------------------------------
(* Enrolment of the first passkey.                                         *)

\* A live credential of the company's agent with a live grant of its owner.
RequireWalletAgent(c) == c \in connected
RequireConnectedOwner(c) == c \in connected

\* reserveFinancialRoot, for the agent (prepareWallet) or for the owner
\* (prepareFinancialIdentity).
ReserveFinancialRoot(c) ==
  /\ CompanyUnlocked(c)
  /\ root[c].status = "none"
  /\ root' = [root EXCEPT ![c].status = "pending_passkey"]
  /\ UNCHANGED <<wallet, credentials, challenges, connected, signIn, sessions, call>>

PrepareWallet(c) == RequireWalletAgent(c) /\ wallet[c] = None /\ ReserveFinancialRoot(c)
PrepareFinancialIdentity(c) == RequireConnectedOwner(c) /\ ReserveFinancialRoot(c)

\* beginPasskeyRegistration: the first passkey only; another needs the first
\* one's assertion.
EitherPurpose(c) ==
  IF root[c].status = "pending_passkey" THEN {"register_primary"}
  ELSE IF root[c].status = "provisioned" THEN {"register_recovery"} ELSE {}
RegistrationPurposes(c) == IF root[c].status = "pending_passkey" THEN {"register_primary"} ELSE {}

BeginPasskeyRegistration(c) ==
  /\ CompanyUnlocked(c) /\ RequireConnectedOwner(c)
  /\ CanIssue
  /\ \E purpose \in RegistrationPurposes(c) : challenges' = Issued(c, purpose, 0)
  /\ UNCHANGED <<root, wallet, credentials, connected, signIn, sessions, call>>

\* The two purposes, by the challenge they consume.
PurposeOf(op) == IF op = "register_primary" THEN "primary" ELSE "recovery"
StatusFor(op) == IF op = "register_primary" THEN "pending_passkey" ELSE "provisioned"

\* No row of any root has the passkey.
NewPasskeyHere(c, p) ==
  \A n \in DOMAIN credentials : credentials[n].company = c => credentials[n].passkey # p
NewPasskey(c, p) == \A n \in DOMAIN credentials : credentials[n].passkey # p

\* completePasskeyRegistration: the challenge is consumed and the response
\* verified...
VerifyRegistration(x, c, op, i, p) ==
  /\ CompanyUnlocked(c) /\ RequireConnectedOwner(c)
  /\ root[c].status = StatusFor(op)
  /\ Consumable(c, op, i)
  /\ NewPasskey(c, p)
  /\ Checked(x, op, c, i, p)

\* ...and the passkey saved; the first one becomes the root's identity.
CompletePasskeyRegistration(x) ==
  LET c == call[x].company
      p == call[x].passkey
      op == call[x].op
  IN
  /\ op \in {"register_primary", "register_recovery"}
  /\ NewPasskey(c, p)
  /\ challenges' = Consumed(call[x].challenge)
  /\ credentials' = Append(credentials, [company |-> c, passkey |-> p, purpose |-> PurposeOf(op),
                                         used |-> call[x].challenge])
  /\ root' = IF op = "register_primary"
             THEN [root EXCEPT ![c].status = "passkey_verified", ![c].identity = p] ELSE root
  /\ End(x)
  /\ UNCHANGED <<wallet, connected, signIn, sessions>>

------------------------------------------------------------------------------
(* Provisioning.                                                           *)

Primary(c) == {credentials[n].passkey : n \in
                {m \in DOMAIN credentials : credentials[m].company = c /\ credentials[m].purpose = "primary"}}

\* The provider derives the account of the root's passkey; an existing wallet
\* is returned as it is.
ProvisionWebAuthnAccount(x, c) ==
  /\ CompanyUnlocked(c)
  /\ root[c].status \in {"passkey_verified", "provisioned"}
  /\ wallet[c] = None
  /\ RequireConnectedOwner(c)
  /\ root[c].identity \in Primary(c)
  /\ Checked(x, "provision", c, None, None)

ProvisionFinancialWallet(x) ==
  LET c == call[x].company IN
  /\ call[x].op = "provision"
  /\ root' = [root EXCEPT ![c].status = "provisioned", ![c].address = root[c].identity]
  /\ wallet' = [wallet EXCEPT ![c] = root[c].identity]
  /\ End(x)
  /\ UNCHANGED <<credentials, challenges, connected, signIn, sessions>>

------------------------------------------------------------------------------
(* Recovery.                                                               *)

BeginRecoveryAuthorization(c) ==
  /\ CompanyUnlocked(c)
  /\ root[c].status = "provisioned" /\ Primary(c) # {}
  /\ CanIssue
  /\ challenges' = Issued(c, "root_assertion", 0)
  /\ UNCHANGED <<root, wallet, credentials, connected, signIn, sessions, call>>

\* authorizeRecoveryRegistration: the first passkey's assertion is verified...
VerifyAssertion(x, c, i, p) ==
  /\ CompanyUnlocked(c)
  /\ root[c].status = "provisioned"
  /\ p \in Primary(c)
  /\ Consumable(c, "root_assertion", i)
  /\ Checked(x, "authorize", c, i, p)

\* ...and a challenge for the second one issued.
AuthorizeRecoveryRegistration(x) ==
  LET i == call[x].challenge IN
  /\ call[x].op = "authorize"
  /\ CanIssue
  /\ challenges' = [Issued(call[x].company, "register_recovery", i) EXCEPT ![i].consumed = TRUE]
  /\ End(x)
  /\ UNCHANGED <<root, wallet, credentials, connected, signIn, sessions>>

------------------------------------------------------------------------------
(* Sign-in of a human wallet; there is no company, and no company's lock.  *)

WalletChallenge(k) ==
  /\ signIn[k] = "none"
  /\ signIn' = [signIn EXCEPT ![k] = "open"]
  /\ UNCHANGED <<root, wallet, credentials, challenges, connected, sessions, call>>

\* consumeChallenge updates the row, or waits for the call that has, and then
\* the wallet's signature is checked on the chain...
SignInLocked(k) == \E x \in Calls : call[x].challenge = k

ConsumeChallenge(x, k) ==
  /\ signIn[k] = "open"
  /\ ~SignInLocked(k)
  /\ Checked(x, "authenticate", None, k, None)

\* ...and a session created.
AuthenticateWallet(x) ==
  LET k == call[x].challenge IN
  /\ call[x].op = "authenticate"
  /\ signIn' = [signIn EXCEPT ![k] = "consumed"]
  /\ sessions' = [sessions EXCEPT ![k] = @ + 1]
  /\ End(x)
  /\ UNCHANGED <<root, wallet, credentials, challenges, connected>>

------------------------------------------------------------------------------
\* A client answers a challenge it was shown, with a passkey it has; it may
\* do so again.
Next ==
  \/ \E c \in Companies :
       \/ Connection(c)
       \/ PrepareWallet(c)
       \/ PrepareFinancialIdentity(c)
       \/ BeginPasskeyRegistration(c)
       \/ BeginRecoveryAuthorization(c)
  \/ \E k \in SignIns : WalletChallenge(k)
  \/ \E x \in Calls :
       \/ \E c \in Companies, i \in Challenges, p \in Passkeys :
            \/ \E op \in {"register_primary", "register_recovery"} : VerifyRegistration(x, c, op, i, p)
            \/ VerifyAssertion(x, c, i, p)
       \/ \E c \in Companies : ProvisionWebAuthnAccount(x, c)
       \/ \E k \in SignIns : ConsumeChallenge(x, k)
       \/ Rollback(x)
       \/ CompletePasskeyRegistration(x)
       \/ ProvisionFinancialWallet(x)
       \/ AuthorizeRecoveryRegistration(x)
       \/ AuthenticateWallet(x)

Spec == Init /\ [][Next]_vars

------------------------------------------------------------------------------
(* Properties.                                                             *)

TypeOK ==
  /\ root \in RootRows
  /\ wallet \in WalletRows
  /\ PasskeyRows(credentials)
  /\ ChallengeRows(challenges)
  /\ connected \subseteq Companies
  /\ signIn \in WalletChallengeRows
  /\ sessions \in HumanSessionRows
  /\ call \in [Calls -> Call \cup {Idle}]

\* A company's wallet is the account of its root's one primary passkey, root
\* and wallet appear together although the provider is asked in between, and
\* no two companies share a passkey, an identity or an account.
WalletMatchesRoot ==
  /\ \A c \in Companies :
       /\ wallet[c] # None <=> root[c].status = "provisioned"
       /\ wallet[c] = root[c].address
       /\ wallet[c] # None => wallet[c] = root[c].identity
       /\ root[c].identity # None => Primary(c) = {root[c].identity}
  /\ \A m, n \in DOMAIN credentials : credentials[m].passkey = credentials[n].passkey => m = n

\* A challenge, of a passkey or of a wallet, serves once: it enrols one
\* passkey, authorises one recovery or opens one session, however often its
\* response is sent and whatever other calls are open.
ChallengeUsedOnce ==
  /\ \A m, n \in DOMAIN credentials : credentials[m].used = credentials[n].used => m = n
  /\ \A i, j \in DOMAIN challenges :
       challenges[i].used = challenges[j].used /\ challenges[i].used # 0 => i = j
  /\ \A k \in SignIns : sessions[k] <= 1

\* Behind every recovery passkey there is an assertion of the same company's
\* root, given after the wallet existed, and each is used for one passkey.
RecoveryAuthorised ==
  \A n \in DOMAIN credentials : credentials[n].purpose = "recovery" =>
    LET granted == challenges[credentials[n].used] IN
    /\ granted.purpose = "register_recovery" /\ granted.company = credentials[n].company
    /\ granted.used # 0 /\ challenges[granted.used].purpose = "root_assertion"
    /\ challenges[granted.used].company = credentials[n].company
    /\ challenges[granted.used].consumed
    /\ wallet[credentials[n].company] # None
=============================================================================
