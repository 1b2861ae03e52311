------------------------- MODULE FinancialRootProofs -------------------------
(***************************************************************************)
(* What holds of financial roots for every number of companies, passkeys,  *)
(* challenges and concurrent calls: a wallet is the account of its root's  *)
(* one primary passkey, a challenge serves once, and every recovery        *)
(* passkey was authorised by the first one.                                *)
(***************************************************************************)
EXTENDS FinancialRoot, TLAPS

Sequences ==
  /\ credentials \in Seq(Credential)
  /\ challenges \in Seq(Challenge) /\ Len(challenges) <= MaxChallenges

\* How far a company's enrolment is says which of its rows there are.
RootInv(c) ==
  /\ root[c].status \in {"none", "pending_passkey"} => root[c].identity = None
  /\ root[c].status \in {"passkey_verified", "provisioned"} => root[c].identity \in Passkeys
  /\ Primary(c) = IF root[c].identity = None THEN {} ELSE {root[c].identity}
  /\ wallet[c] = root[c].address
  /\ wallet[c] = IF root[c].status = "provisioned" THEN root[c].identity ELSE None

\* A challenge for a recovery passkey stands on a consumed assertion.
GrantOf(i) ==
  LET row == challenges[i] IN
  /\ row.used # 0 =>
       /\ row.used \in DOMAIN challenges
       /\ challenges[row.used].consumed /\ challenges[row.used].purpose = "root_assertion"
       /\ challenges[row.used].company = row.company
  /\ row.purpose = "register_recovery" => row.used # 0 /\ root[row.company].status = "provisioned"

\* A passkey stands on a consumed challenge of its company and purpose.
EnrolmentOf(n) ==
  LET row == credentials[n] IN
  /\ row.used \in DOMAIN challenges
  /\ challenges[row.used].consumed /\ challenges[row.used].company = row.company
  /\ challenges[row.used].purpose =
       IF row.purpose = "primary" THEN "register_primary" ELSE "register_recovery"

UsedOnce ==
  /\ \A i, j \in DOMAIN challenges :
       challenges[i].used = challenges[j].used /\ challenges[i].used # 0 => i = j
  /\ \A m, n \in DOMAIN credentials :
       credentials[m].used = credentials[n].used \/ credentials[m].passkey = credentials[n].passkey
         => m = n

SignInInv(k) == sessions[k] = IF signIn[k] = "consumed" THEN 1 ELSE 0

\* An open call still finds what it has checked.
ChallengePurpose(op) == IF op = "authorize" THEN "root_assertion" ELSE op

CheckedBy(x) ==
  LET op == call[x].op
      c == call[x].company
      i == call[x].challenge
  IN
  /\ op \in {"register_primary", "register_recovery", "authorize"} =>
       /\ c \in Companies /\ Consumable(c, ChallengePurpose(op), i)
       /\ root[c].status = StatusFor(op)
  /\ op \in {"register_primary", "register_recovery"} => call[x].passkey \in Passkeys
  /\ op = "provision" => c \in Companies /\ root[c].status = "passkey_verified"
  /\ op = "authenticate" => c = None /\ i \in SignIns /\ signIn[i] = "open"

OneHolder ==
  /\ \A x, y \in Calls :
       call[x].company \in Companies /\ call[x].company = call[y].company => x = y
  /\ \A x, y \in Calls :
       call[x].op = "authenticate" /\ call[y].op = "authenticate"
         /\ call[x].challenge = call[y].challenge => x = y

IInv ==
  /\ TypeOK /\ Sequences
  /\ \A c \in Companies : RootInv(c)
  /\ \A i \in DOMAIN challenges : GrantOf(i)
  /\ \A n \in DOMAIN credentials : EnrolmentOf(n)
  /\ UsedOnce
  /\ \A k \in SignIns : SignInInv(k)
  /\ \A x \in Calls : CheckedBy(x)
  /\ OneHolder

------------------------------------------------------------------------------
(* Types and frames.                                                       *)

tables == <<root, wallet, credentials, challenges, connected, signIn, sessions>>

LEMMA IdleTyped ==
  /\ Idle \in Call \cup {Idle} /\ Idle.op = None /\ Idle.company = None
  /\ Idle.challenge = None /\ None \notin Ops
BY NoneIsNoOp DEF Idle

LEMMA CallTyped ==
  ASSUME IInv, NEW x \in Calls
  PROVE  /\ call[x] \in Call \cup {Idle} /\ (call[x].op # None => call[x] \in Call)
         /\ call[x] # Idle => call[x].op \in Ops
BY IdleTyped DEF IInv, TypeOK, Call

\* The rows of challenges that a step keeps: all but whether they are used.
RowKept(i) ==
  /\ i \in DOMAIN challenges'
  /\ challenges'[i].company = challenges[i].company /\ challenges'[i].purpose = challenges[i].purpose
  /\ challenges'[i].used = challenges[i].used
  /\ challenges[i].consumed => challenges'[i].consumed

LEMMA ChallengesKept ==
  ASSUME IInv, \A i \in DOMAIN challenges : RowKept(i),
         \A c \in Companies : root[c].status = "provisioned" => root'[c].status = "provisioned"
  PROVE  /\ \A i \in DOMAIN challenges : GrantOf(i)'
         /\ credentials' = credentials => \A n \in DOMAIN credentials' : EnrolmentOf(n)'
<1>1. \A i \in DOMAIN challenges : challenges[i] \in Challenge
  BY DEF IInv, Sequences
<1>2. ASSUME NEW i \in DOMAIN challenges PROVE GrantOf(i)'
  <2>1. GrantOf(i) /\ RowKept(i) /\ challenges[i].company \in Companies
    BY <1>1 DEF IInv, Challenge
  <2> QED BY <2>1 DEF GrantOf, RowKept
<1>3. ASSUME credentials' = credentials, NEW n \in DOMAIN credentials PROVE EnrolmentOf(n)'
  <2>1. EnrolmentOf(n) /\ credentials[n].used \in DOMAIN challenges
    BY DEF IInv, EnrolmentOf
  <2> QED BY <1>3, <2>1 DEF EnrolmentOf, RowKept
<1> QED BY <1>2, <1>3

LEMMA CallKept ==
  ASSUME IInv, NEW y \in Calls, call'[y] = call[y],
         call[y].company \in Companies =>
           /\ root'[call[y].company] = root[call[y].company]
           /\ \A i \in DOMAIN challenges :
                challenges[i].company = call[y].company =>
                  i \in DOMAIN challenges' /\ challenges'[i] = challenges[i],
         call[y].op = "authenticate" => signIn'[call[y].challenge] = signIn[call[y].challenge]
  PROVE  CheckedBy(y)'
<1>1. CheckedBy(y)
  BY DEF IInv
<1> QED BY <1>1 DEF CheckedBy, Consumable

\* The lock, and the sign-in, of a call that ends are free.
LEMMA CallEnds ==
  ASSUME IInv, NEW x \in Calls, End(x)
  PROVE  /\ call' \in [Calls -> Call \cup {Idle}] /\ OneHolder' /\ CheckedBy(x)'
         /\ \A y \in Calls \ {x} : call'[y] = call[y]
<1>1. call' = [call EXCEPT ![x] = Idle] /\ call \in [Calls -> Call \cup {Idle}]
  BY DEF End, IInv, TypeOK
<1>2. /\ call' \in [Calls -> Call \cup {Idle}] /\ call'[x] = Idle
      /\ \A y \in Calls \ {x} : call'[y] = call[y]
  BY <1>1
<1>3. None \notin Companies /\ None \notin Ops /\ "authenticate" \in Ops
  BY FinancialRootAssumption, NoneIsNoOp DEF Ops
<1>4. OneHolder'
  <2>1. call'[x].company = None /\ call'[x].op = None
    BY <1>2, IdleTyped
  <2> QED BY <1>2, <1>3, <2>1 DEF IInv, OneHolder
<1>5. CheckedBy(x)'
  BY <1>2, <1>3, IdleTyped DEF CheckedBy, Ops
<1> QED BY <1>2, <1>4, <1>5

\* A lock that is taken is another company's.
LEMMA OthersLocks ==
  ASSUME IInv, NEW x \in Calls, call[x].company \in Companies, NEW y \in Calls \ {x}
  PROVE  call[y].company # call[x].company
BY DEF IInv, OneHolder

------------------------------------------------------------------------------
(* The steps.                                                              *)

LEMMA InitIInv == Init => IInv
<1> SUFFICES ASSUME Init PROVE IInv
  OBVIOUS
<1>1. TypeOK /\ Sequences
  BY FinancialRootAssumption
     DEF Init, TypeOK, Sequences, RootRows, Root, NoRoot, Statuses, WalletRows, PasskeyRows, ChallengeRows,
         WalletChallengeRows, HumanSessionRows
<1>2. \A c \in Companies : RootInv(c)
  <2>1. DOMAIN credentials = {}
    BY DEF Init
  <2>2. \A c \in Companies : Primary(c) = {}
    BY <2>1 DEF Primary
  <2> QED BY <2>2, FinancialRootAssumption DEF Init, RootInv, NoRoot
<1>3. DOMAIN challenges = {} /\ DOMAIN credentials = {}
  BY DEF Init
<1>4. UsedOnce
  BY <1>3 DEF UsedOnce
<1>5. \A k \in SignIns : SignInInv(k)
  BY DEF Init, SignInInv
<1>6. (\A x \in Calls : CheckedBy(x)) /\ OneHolder
  BY IdleTyped, FinancialRootAssumption DEF Init, CheckedBy, OneHolder, Ops
<1> QED BY <1>1, <1>2, <1>3, <1>4, <1>5, <1>6 DEF IInv

\* No table is written: what holds of the tables still does.
LEMMA TablesUnchanged ==
  ASSUME IInv, UNCHANGED <<root, wallet, credentials, challenges, signIn, sessions>>
  PROVE  /\ Sequences' /\ UsedOnce'
         /\ \A c \in Companies : RootInv(c)'
         /\ \A i \in DOMAIN challenges' : GrantOf(i)'
         /\ \A n \in DOMAIN credentials' : EnrolmentOf(n)'
         /\ \A k \in SignIns : SignInInv(k)'
         /\ \A y \in Calls : call'[y] = call[y] => CheckedBy(y)'
<1>0. Sequences' /\ UsedOnce'
  BY DEF IInv, Sequences, UsedOnce
<1>1. \A c \in Companies : RootInv(c)'
  <2>1. \A c \in Companies : Primary(c)' = Primary(c)
    BY DEF Primary
  <2> QED BY <2>1 DEF IInv, RootInv
<1>2. /\ \A i \in DOMAIN challenges' : GrantOf(i)'
      /\ \A n \in DOMAIN credentials' : EnrolmentOf(n)'
      /\ \A k \in SignIns : SignInInv(k)'
  BY DEF IInv, GrantOf, EnrolmentOf, SignInInv
<1>3. \A y \in Calls : call'[y] = call[y] => CheckedBy(y)'
  BY CallKept
<1> QED BY <1>0, <1>1, <1>2, <1>3

LEMMA CheckedSteps ==
  ASSUME IInv, NEW x \in Calls, NEW op \in Ops, NEW c \in Companies \cup {None},
         NEW i \in Challenges \cup SignIns \cup {None}, NEW p \in Passkeys \cup {None},
         Checked(x, op, c, i, p), c # None => CompanyUnlocked(c),
         op \in {"register_primary", "register_recovery", "authorize"} =>
           c # None /\ Consumable(c, ChallengePurpose(op), i) /\ root[c].status = StatusFor(op),
         op \in {"register_primary", "register_recovery"} => p \in Passkeys,
         op = "provision" => c # None /\ root[c].status = "passkey_verified",
         op = "authenticate" => c = None /\ i \in SignIns /\ signIn[i] = "open" /\ ~SignInLocked(i)
  PROVE  IInv'
<1> DEFINE row == [op |-> op, company |-> c, challenge |-> i, passkey |-> p]
<1>1. /\ call' = [call EXCEPT ![x] = row] /\ row \in Call /\ call \in [Calls -> Call \cup {Idle}]
      /\ UNCHANGED tables
  BY DEF Checked, Call, tables, IInv, TypeOK
<1>2. row.op = op /\ row.company = c /\ row.challenge = i /\ row.passkey = p
  OBVIOUS
<1> HIDE DEF row
<1>3. /\ call' \in [Calls -> Call \cup {Idle}] /\ call'[x] = row
      /\ \A y \in Calls \ {x} : call'[y] = call[y]
  BY <1>1
<1>4. UNCHANGED <<root, wallet, credentials, challenges, connected, signIn, sessions>>
  BY <1>1 DEF tables
<1>5. TypeOK'
  BY <1>3, <1>4 DEF IInv, TypeOK
<1>6. CheckedBy(x)'
  BY <1>2, <1>3, <1>4 DEF CheckedBy, Consumable
<1>7. OneHolder'
  <2>1. ASSUME NEW y \in Calls \ {x}
        PROVE  /\ call[y].company \in Companies => call[y].company # c
               /\ op = "authenticate" => call[y].challenge # i
    BY <2>1, FinancialRootAssumption DEF CompanyUnlocked, SignInLocked
  <2> QED BY <1>2, <1>3, <2>1 DEF IInv, OneHolder
<1> QED BY <1>3, <1>4, <1>5, <1>6, <1>7, TablesUnchanged DEF IInv

LEMMA CheckingSteps ==
  ASSUME IInv, NEW x \in Calls,
         \/ \E c \in Companies, i \in Challenges, p \in Passkeys :
              \/ \E op \in {"register_primary", "register_recovery"} : VerifyRegistration(x, c, op, i, p)
              \/ VerifyAssertion(x, c, i, p)
         \/ \E c \in Companies : ProvisionWebAuthnAccount(x, c)
         \/ \E k \in SignIns : ConsumeChallenge(x, k)
  PROVE  IInv'
<1> USE FinancialRootAssumption
<1>1. ASSUME NEW c \in Companies, NEW i \in Challenges, NEW p \in Passkeys,
             NEW op \in {"register_primary", "register_recovery"}, VerifyRegistration(x, c, op, i, p)
      PROVE  IInv'
  BY <1>1, CheckedSteps DEF VerifyRegistration, Ops, ChallengePurpose
<1>2. ASSUME NEW c \in Companies, NEW i \in Challenges, NEW p \in Passkeys, VerifyAssertion(x, c, i, p)
      PROVE  IInv'
  BY <1>2, CheckedSteps DEF VerifyAssertion, Ops, ChallengePurpose, StatusFor
<1>3. ASSUME NEW c \in Companies, ProvisionWebAuthnAccount(x, c) PROVE IInv'
  <2>1. /\ Checked(x, "provision", c, None, None) /\ CompanyUnlocked(c) /\ wallet[c] = None
        /\ root[c].status \in {"passkey_verified", "provisioned"}
    BY <1>3 DEF ProvisionWebAuthnAccount
  <2>2. root[c].status = "passkey_verified"
    BY <2>1 DEF IInv, RootInv
  <2> QED BY <2>1, <2>2, CheckedSteps DEF Ops
<1>4. ASSUME NEW k \in SignIns, ConsumeChallenge(x, k) PROVE IInv'
  BY <1>4, CheckedSteps DEF ConsumeChallenge, Ops
<1> QED BY <1>1, <1>2, <1>3, <1>4

LEMMA SmallSteps ==
  ASSUME IInv,
         \/ \E x \in Calls : Rollback(x)
         \/ \E c \in Companies : Connection(c)
         \/ \E k \in SignIns : WalletChallenge(k)
  PROVE  IInv'
<1>1. ASSUME NEW x \in Calls, Rollback(x) PROVE IInv'
  <2>1. UNCHANGED <<root, wallet, credentials, challenges, connected, signIn, sessions>> /\ End(x)
    BY <1>1 DEF Rollback
  <2>2. /\ call' \in [Calls -> Call \cup {Idle}] /\ OneHolder' /\ CheckedBy(x)'
        /\ \A y \in Calls \ {x} : call'[y] = call[y]
    BY <2>1, CallEnds
  <2>3. TypeOK'
    BY <2>1, <2>2 DEF IInv, TypeOK
  <2> QED BY <2>1, <2>2, <2>3, TablesUnchanged DEF IInv
<1>2. ASSUME NEW c \in Companies, Connection(c) PROVE IInv'
  <2>1. UNCHANGED <<root, wallet, credentials, challenges, signIn, sessions, call>>
    BY <1>2 DEF Connection
  <2>2. TypeOK' /\ OneHolder'
    BY <1>2, <2>1 DEF Connection, IInv, TypeOK, OneHolder
  <2> QED BY <2>1, <2>2, TablesUnchanged DEF IInv
<1>3. ASSUME NEW k \in SignIns, WalletChallenge(k) PROVE IInv'
  <2>1. /\ UNCHANGED <<root, wallet, credentials, challenges, connected, sessions, call>>
        /\ signIn[k] = "none" /\ signIn' = [signIn EXCEPT ![k] = "open"]
        /\ signIn \in WalletChallengeRows
    BY <1>3 DEF WalletChallenge, IInv, TypeOK
  <2>2. TypeOK' /\ Sequences' /\ OneHolder' /\ UsedOnce'
    BY <2>1 DEF IInv, TypeOK, Sequences, OneHolder, UsedOnce, WalletChallengeRows
  <2>3. /\ \A c \in Companies : RootInv(c)'
        /\ \A i \in DOMAIN challenges' : GrantOf(i)'
        /\ \A n \in DOMAIN credentials' : EnrolmentOf(n)'
    BY <2>1 DEF IInv, RootInv, Primary, GrantOf, EnrolmentOf
  <2>4. \A j \in SignIns : SignInInv(j)'
    BY <2>1 DEF IInv, SignInInv, WalletChallengeRows
  <2>5. ASSUME NEW y \in Calls PROVE CheckedBy(y)'
    <3>1. call[y].op = "authenticate" => signIn[call[y].challenge] = "open" /\ call[y].challenge \in SignIns
      BY DEF IInv, CheckedBy
    <3> QED BY <2>1, <3>1, CallKept DEF WalletChallengeRows
  <2> QED BY <2>2, <2>3, <2>4, <2>5 DEF IInv
<1> QED BY <1>1, <1>2, <1>3

LEMMA ReserveSteps ==
  ASSUME IInv, NEW c \in Companies, ReserveFinancialRoot(c)
  PROVE  IInv'
<1>1. /\ UNCHANGED <<wallet, credentials, challenges, connected, signIn, sessions, call>>
      /\ CompanyUnlocked(c) /\ root[c].status = "none"
      /\ root' = [root EXCEPT ![c].status = "pending_passkey"] /\ root \in RootRows
  BY DEF ReserveFinancialRoot, IInv, TypeOK
<1>2. /\ root' \in RootRows /\ root'[c] = [root[c] EXCEPT !.status = "pending_passkey"]
      /\ root'[c].status = "pending_passkey" /\ root'[c].identity = root[c].identity
      /\ root'[c].address = root[c].address
      /\ \A d \in Companies \ {c} : root'[d] = root[d]
  BY <1>1 DEF RootRows, Root, Statuses
<1>3. TypeOK' /\ Sequences' /\ UsedOnce' /\ OneHolder' /\ \A k \in SignIns : SignInInv(k)'
  BY <1>1, <1>2 DEF IInv, TypeOK, Sequences, UsedOnce, OneHolder, SignInInv
<1>4. \A d \in Companies : RootInv(d)'
  <2>1. \A d \in Companies : Primary(d)' = Primary(d)
    BY <1>1 DEF Primary
  <2> QED BY <1>1, <1>2, <2>1 DEF IInv, RootInv
<1>5. /\ \A i \in DOMAIN challenges' : GrantOf(i)'
      /\ \A n \in DOMAIN credentials' : EnrolmentOf(n)'
  BY <1>1, <1>2, ChallengesKept DEF RowKept
<1>6. ASSUME NEW y \in Calls PROVE CheckedBy(y)'
  <2>1. call[y].company # c
    BY <1>1 DEF CompanyUnlocked
  <2> QED BY <1>1, <1>2, <2>1, CallKept
<1> QED BY <1>3, <1>4, <1>5, <1>6 DEF IInv

\* What createWebAuthnChallenge leaves of the challenges: the company's open
\* ones for the purpose are consumed, and one is new.
LEMMA IssuedRows ==
  ASSUME Sequences, CanIssue, NEW c \in Companies,
         NEW purpose \in {"register_primary", "register_recovery", "root_assertion"},
         NEW used \in 0..MaxChallenges, NEW s, s = Issued(c, purpose, used)
  PROVE  /\ s \in Seq(Challenge) /\ Len(s) = Len(challenges) + 1 /\ Len(s) <= MaxChallenges
         /\ s[Len(s)] = [company |-> c, purpose |-> purpose, consumed |-> FALSE, used |-> used]
         /\ \A i \in DOMAIN challenges :
              /\ i \in DOMAIN s /\ s[i] \in Challenge
              /\ s[i].company = challenges[i].company /\ s[i].purpose = challenges[i].purpose
              /\ s[i].used = challenges[i].used
              /\ challenges[i].consumed => s[i].consumed
              /\ challenges[i].company # c => s[i] = challenges[i]
<1> DEFINE n == Len(challenges)
           kept == Superseded(c, purpose)
           row == [company |-> c, purpose |-> purpose, consumed |-> FALSE, used |-> used]
<1>1. /\ n \in Nat /\ n + 1 <= MaxChallenges /\ DOMAIN challenges = 1..n
      /\ \A i \in 1..n : challenges[i] \in Challenge
  BY FinancialRootAssumption DEF Sequences, CanIssue
<1>2. ASSUME NEW i \in 1..n
      PROVE  /\ kept[i] \in Challenge
             /\ kept[i].company = challenges[i].company /\ kept[i].purpose = challenges[i].purpose
             /\ kept[i].used = challenges[i].used
             /\ challenges[i].consumed => kept[i].consumed
             /\ challenges[i].company # c => kept[i] = challenges[i]
  <2>1. kept[i] = IF challenges[i].company = c /\ challenges[i].purpose = purpose
                  THEN [challenges[i] EXCEPT !.consumed = TRUE] ELSE challenges[i]
    BY <1>1 DEF Superseded
  <2> HIDE DEF kept, n
  <2> QED BY <1>1, <2>1 DEF Challenge
<1>3. kept \in Seq(Challenge) /\ Len(kept) = n
  <2>1. kept = [i \in 1..n |-> kept[i]]
    BY <1>1 DEF Superseded
  <2> HIDE DEF kept, n
  <2> QED BY <1>1, <1>2, <2>1
<1>4. row \in Challenge
  BY DEF Challenge
<1>5. s = Append(kept, row)
  BY DEF Issued
<1> HIDE DEF kept, row, n
<1>6. /\ s \in Seq(Challenge) /\ Len(s) = n + 1 /\ s[n + 1] = row /\ \A i \in 1..n : s[i] = kept[i]
  BY <1>1, <1>3, <1>4, <1>5
<1> QED BY <1>1, <1>2, <1>6 DEF n, row

\* A challenge is issued under the company's lock, and perhaps one used.
LEMMA ChallengeSteps ==
  ASSUME IInv, UNCHANGED <<root, wallet, credentials, connected, signIn, sessions>>,
         NEW c \in Companies, NEW s \in Seq(Challenge), challenges' = s,
         NEW n \in Nat, n = Len(challenges), Len(s) = n + 1, Len(s) <= MaxChallenges,
         \A i \in DOMAIN challenges : RowKept(i),
         \A i \in DOMAIN challenges : challenges[i].company # c => s[i] = challenges[i],
         GrantOf(n + 1)',
         s[n + 1].used # 0 => \A i \in DOMAIN challenges : challenges[i].used # s[n + 1].used,
         call' \in [Calls -> Call \cup {Idle}], OneHolder',
         \A y \in Calls : CheckedBy(y)' \/ (call'[y] = call[y] /\ call[y].company # c)
  PROVE  IInv'
<1>1. /\ Sequences' /\ DOMAIN challenges = 1..n /\ DOMAIN challenges' = 1..(n + 1)
      /\ DOMAIN challenges' = DOMAIN challenges \cup {n + 1}
  BY DEF IInv, Sequences
<1>2. TypeOK'
  BY <1>1 DEF IInv, TypeOK, Sequences, ChallengeRows
<1>3. \A d \in Companies : RootInv(d)'
  <2>1. \A d \in Companies : Primary(d)' = Primary(d)
    BY DEF Primary
  <2> QED BY <2>1 DEF IInv, RootInv
<1>4. \A i \in DOMAIN challenges' : GrantOf(i)'
  <2>1. \A i \in DOMAIN challenges : GrantOf(i)'
    BY ChallengesKept
  <2> QED BY <1>1, <2>1
<1>5. \A m \in DOMAIN credentials' : EnrolmentOf(m)'
  BY ChallengesKept
<1>6. UsedOnce'
  BY <1>1 DEF IInv, UsedOnce, RowKept
<1>7. \A k \in SignIns : SignInInv(k)'
  BY DEF IInv, SignInInv
<1>8. \A y \in Calls : CheckedBy(y)'
  <2>1. ASSUME NEW y \in Calls, call'[y] = call[y], call[y].company # c PROVE CheckedBy(y)'
    BY <2>1, CallKept DEF RowKept
  <2> QED BY <2>1
<1> QED BY <1>1, <1>2, <1>3, <1>4, <1>5, <1>6, <1>7, <1>8 DEF IInv

LEMMA BeginSteps ==
  ASSUME IInv, NEW c \in Companies, BeginPasskeyRegistration(c) \/ BeginRecoveryAuthorization(c)
  PROVE  IInv'
<1>1. PICK purpose \in {"register_primary", "root_assertion"} :
        /\ challenges' = Issued(c, purpose, 0) /\ CanIssue /\ CompanyUnlocked(c)
        /\ UNCHANGED <<root, wallet, credentials, connected, signIn, sessions, call>>
  BY DEF BeginPasskeyRegistration, BeginRecoveryAuthorization, RegistrationPurposes
<1>2. Sequences /\ 0 \in 0..MaxChallenges /\ Len(challenges) \in Nat
  BY FinancialRootAssumption DEF IInv, Sequences
<1> PICK n \in Nat : n = Len(challenges)
  BY <1>2
<1> PICK s : s = Issued(c, purpose, 0)
  OBVIOUS
<1>3. /\ s \in Seq(Challenge) /\ Len(s) = n + 1 /\ Len(s) <= MaxChallenges
      /\ s[n + 1] = [company |-> c, purpose |-> purpose, consumed |-> FALSE, used |-> 0]
      /\ \A i \in DOMAIN challenges : s[i] \in Challenge
      /\ \A i \in DOMAIN challenges : RowKept(i)
      /\ \A i \in DOMAIN challenges : challenges[i].company # c => s[i] = challenges[i]
  BY <1>1, <1>2, IssuedRows DEF RowKept
<1>4. GrantOf(n + 1)' /\ s[n + 1].used = 0
  BY <1>1, <1>3 DEF GrantOf
<1>5. \A y \in Calls : call'[y] = call[y] /\ call[y].company # c
  BY <1>1 DEF CompanyUnlocked
<1>6. call' \in [Calls -> Call \cup {Idle}] /\ OneHolder'
  BY <1>1 DEF IInv, TypeOK, OneHolder
<1> QED BY <1>1, <1>3, <1>4, <1>5, <1>6, ChallengeSteps

LEMMA ConsumedRow ==
  ASSUME NEW row \in Challenge, NEW after, after = [row EXCEPT !.consumed = TRUE]
  PROVE  /\ after \in Challenge /\ after.consumed
         /\ after.company = row.company /\ after.purpose = row.purpose /\ after.used = row.used
BY DEF Challenge

\* Consuming one challenge leaves the others.
LEMMA ConsumedRows ==
  ASSUME NEW rows \in Seq(Challenge), NEW i \in 1..Len(rows),
         NEW row, row = [rows[i] EXCEPT !.consumed = TRUE], NEW s, s = [rows EXCEPT ![i] = row]
  PROVE  /\ s \in Seq(Challenge) /\ Len(s) = Len(rows) /\ s[i] \in Challenge /\ s[i].consumed
         /\ s[i].company = rows[i].company /\ s[i].purpose = rows[i].purpose /\ s[i].used = rows[i].used
         /\ \A j \in 1..Len(rows) : j # i => s[j] = rows[j]
<1> PICK n \in Nat : n = Len(rows)
  OBVIOUS
<1>1. rows \in [1..n -> Challenge] /\ rows[i] \in Challenge /\ i \in 1..n
  OBVIOUS
<1>2. /\ row \in Challenge /\ row.consumed
      /\ row.company = rows[i].company /\ row.purpose = rows[i].purpose /\ row.used = rows[i].used
  BY <1>1, ConsumedRow
<1>3. s \in [1..n -> Challenge] /\ s[i] = row /\ \A j \in 1..n : j # i => s[j] = rows[j]
  BY <1>1, <1>2
<1>4. s \in Seq(Challenge) /\ Len(s) = n
  BY <1>3
<1> QED BY <1>2, <1>3, <1>4

\* Authorising uses an assertion up and issues the challenge it stands behind.
LEMMA AuthorizedRows ==
  ASSUME Sequences, CanIssue, NEW c \in Companies, NEW i, Consumable(c, "root_assertion", i),
         NEW n \in Nat, n = Len(challenges),
         NEW before, before = Issued(c, "register_recovery", i),
         NEW row, row = [before[i] EXCEPT !.consumed = TRUE], NEW s, s = [before EXCEPT ![i] = row]
  PROVE  /\ s \in Seq(Challenge) /\ Len(s) = n + 1 /\ Len(s) <= MaxChallenges /\ i \in 1..n
         /\ s[n + 1].company = c /\ s[n + 1].purpose = "register_recovery" /\ s[n + 1].used = i
         /\ s[i].company = c /\ s[i].purpose = "root_assertion" /\ s[i].consumed
         /\ \A j \in DOMAIN challenges :
              /\ j \in DOMAIN s
              /\ s[j].company = challenges[j].company /\ s[j].purpose = challenges[j].purpose
              /\ s[j].used = challenges[j].used
              /\ challenges[j].consumed => s[j].consumed
              /\ challenges[j].company # c => s[j] = challenges[j]
<1>1. i \in 1..n /\ i \in 0..MaxChallenges /\ DOMAIN challenges = 1..n
  BY FinancialRootAssumption DEF Consumable, Sequences
<1>2. /\ before \in Seq(Challenge) /\ Len(before) = n + 1 /\ n + 1 <= MaxChallenges
      /\ before[n + 1] = [company |-> c, purpose |-> "register_recovery", consumed |-> FALSE, used |-> i]
      /\ \A j \in 1..n :
           /\ before[j] \in Challenge
           /\ before[j].company = challenges[j].company /\ before[j].purpose = challenges[j].purpose
           /\ before[j].used = challenges[j].used
           /\ challenges[j].consumed => before[j].consumed
           /\ challenges[j].company # c => before[j] = challenges[j]
  BY <1>1, IssuedRows
<1>3. /\ s \in Seq(Challenge) /\ Len(s) = n + 1 /\ s[i] \in Challenge /\ s[i].consumed
      /\ s[i].company = before[i].company /\ s[i].purpose = before[i].purpose /\ s[i].used = before[i].used
      /\ \A j \in 1..(n + 1) : j # i => s[j] = before[j]
  <2>1. before \in Seq(Challenge) /\ i \in 1..Len(before)
    BY <1>1, <1>2
  <2>2. s \in Seq(Challenge)
    BY <2>1, ConsumedRows
  <2>3. Len(s) = Len(before)
    BY <2>1, ConsumedRows
  <2>4. s[i] \in Challenge
    BY <2>1, ConsumedRows
  <2>5. s[i].consumed
    BY <2>1, ConsumedRows
  <2>6. /\ s[i].company = before[i].company /\ s[i].purpose = before[i].purpose
        /\ s[i].used = before[i].used
    BY <2>1, ConsumedRows
  <2>7. \A j \in 1..Len(before) : j # i => s[j] = before[j]
    BY <2>1, ConsumedRows
  <2> QED BY <1>2, <2>2, <2>3, <2>4, <2>5, <2>6, <2>7
<1>4. s[n + 1] = before[n + 1]
  BY <1>1, <1>3
<1>5. challenges[i].company = c /\ challenges[i].purpose = "root_assertion"
  BY DEF Consumable
<1>6. DOMAIN s = 1..(n + 1)
  BY <1>3
<1>7. ASSUME NEW j \in 1..n
      PROVE  /\ j \in DOMAIN s
             /\ s[j].company = challenges[j].company /\ s[j].purpose = challenges[j].purpose
             /\ s[j].used = challenges[j].used
             /\ challenges[j].consumed => s[j].consumed
             /\ challenges[j].company # c => s[j] = challenges[j]
  <2>1. CASE j = i
    BY <1>2, <1>3, <1>5, <1>6, <2>1
  <2>2. CASE j # i
    BY <1>2, <1>3, <1>6, <2>2
  <2> QED BY <2>1, <2>2
<1> QED BY <1>1, <1>2, <1>3, <1>4, <1>5, <1>7

\* The second passkey's challenge, on the assertion it uses up.
LEMMA AuthorizeSteps ==
  ASSUME IInv, NEW x \in Calls, AuthorizeRecoveryRegistration(x)
  PROVE  IInv'
<1>0. challenges' = [Issued(call[x].company, "register_recovery", call[x].challenge)
                       EXCEPT ![call[x].challenge].consumed = TRUE]
  BY DEF AuthorizeRecoveryRegistration
<1>1. /\ call[x].op = "authorize" /\ CanIssue /\ End(x)
      /\ UNCHANGED <<root, wallet, credentials, connected, signIn, sessions>>
  BY DEF AuthorizeRecoveryRegistration
<1>2. PICK c \in Companies, i \in DOMAIN challenges :
        /\ c = call[x].company /\ i = call[x].challenge
        /\ Consumable(c, "root_assertion", i) /\ root[c].status = "provisioned"
  BY <1>1 DEF IInv, CheckedBy, ChallengePurpose, StatusFor, Consumable
<1>3. Sequences /\ Len(challenges) \in Nat
  BY DEF IInv, Sequences
<1>4. PICK n \in Nat : n = Len(challenges)
  BY <1>3
<1>5. PICK s \in Seq(Challenge) :
      /\ challenges' = s /\ Len(s) = n + 1 /\ Len(s) <= MaxChallenges /\ i \in 1..n
      /\ s[n + 1].company = c /\ s[n + 1].purpose = "register_recovery" /\ s[n + 1].used = i
      /\ s[i].company = c /\ s[i].purpose = "root_assertion" /\ s[i].consumed
      /\ \A j \in DOMAIN challenges :
           /\ j \in DOMAIN s
           /\ s[j].company = challenges[j].company /\ s[j].purpose = challenges[j].purpose
           /\ s[j].used = challenges[j].used
           /\ challenges[j].consumed => s[j].consumed
           /\ challenges[j].company # c => s[j] = challenges[j]
  <2> PICK before : before = Issued(c, "register_recovery", i)
    OBVIOUS
  <2> PICK row : row = [before[i] EXCEPT !.consumed = TRUE]
    OBVIOUS
  <2> PICK s : s = [before EXCEPT ![i] = row]
    OBVIOUS
  <2>1. challenges' = s
    BY <1>0, <1>2
  <2> QED BY <1>1, <1>2, <1>3, <1>4, <2>1, AuthorizedRows
<1>6. /\ \A j \in DOMAIN challenges : RowKept(j)
      /\ \A j \in DOMAIN challenges : challenges[j].company # c => s[j] = challenges[j]
  BY <1>5 DEF RowKept
<1>7. GrantOf(n + 1)'
  <2>1. i \in DOMAIN s /\ root'[c].status = "provisioned" /\ challenges' = s
    BY <1>1, <1>2, <1>5
  <2>2. /\ s[n + 1].company = c /\ s[n + 1].purpose = "register_recovery" /\ s[n + 1].used = i /\ i # 0
        /\ s[i].company = c /\ s[i].purpose = "root_assertion" /\ s[i].consumed
    BY <1>5
  <2> QED BY <2>1, <2>2 DEF GrantOf
<1>8. \A j \in DOMAIN challenges : challenges[j].used # s[n + 1].used
  <2>1. ASSUME NEW j \in DOMAIN challenges PROVE challenges[j].used # i
    <3>1. GrantOf(j) /\ i # 0
      BY <1>5 DEF IInv
    <3> QED BY <1>2, <3>1 DEF GrantOf, Consumable
  <2> QED BY <1>5, <2>1
<1>9. /\ call' \in [Calls -> Call \cup {Idle}] /\ OneHolder' /\ CheckedBy(x)'
      /\ \A y \in Calls \ {x} : call'[y] = call[y] /\ call[y].company # c
  BY <1>1, <1>2, CallEnds, OthersLocks
<1>10. \A y \in Calls : CheckedBy(y)' \/ (call'[y] = call[y] /\ call[y].company # c)
  BY <1>9
<1> QED BY <1>1, <1>4, <1>5, <1>6, <1>7, <1>8, <1>9, <1>10, ChallengeSteps

\* A passkey is enrolled under the company's lock.
LEMMA CompleteSteps ==
  ASSUME IInv, NEW x \in Calls, CompletePasskeyRegistration(x)
  PROVE  IInv'
<1>0. challenges' = [challenges EXCEPT ![call[x].challenge].consumed = TRUE]
  BY DEF CompletePasskeyRegistration, Consumed
<1>1. /\ call[x].op \in {"register_primary", "register_recovery"}
      /\ NewPasskey(call[x].company, call[x].passkey) /\ End(x)
      /\ credentials' = Append(credentials,
           [company |-> call[x].company, passkey |-> call[x].passkey,
            purpose |-> PurposeOf(call[x].op), used |-> call[x].challenge])
      /\ root' = IF call[x].op = "register_primary"
                 THEN [root EXCEPT ![call[x].company].status = "passkey_verified",
                                   ![call[x].company].identity = call[x].passkey] ELSE root
      /\ UNCHANGED <<wallet, connected, signIn, sessions>>
  BY DEF CompletePasskeyRegistration
<1>2. PICK c \in Companies, i \in DOMAIN challenges, p \in Passkeys,
           op \in {"register_primary", "register_recovery"} :
        /\ c = call[x].company /\ i = call[x].challenge /\ p = call[x].passkey /\ op = call[x].op
        /\ Consumable(c, op, i) /\ root[c].status = StatusFor(op)
  BY <1>1 DEF IInv, CheckedBy, ChallengePurpose, Consumable
<1>3. PICK n \in Nat : n = Len(challenges) /\ DOMAIN challenges = 1..n /\ n <= MaxChallenges
  BY DEF IInv, Sequences
<1>4. PICK m \in Nat : m = Len(credentials) /\ DOMAIN credentials = 1..m
  BY DEF IInv, Sequences
<1>5. PICK s \in Seq(Challenge) :
        /\ challenges' = s /\ Len(s) = n /\ s[i].consumed
        /\ s[i].company = challenges[i].company /\ s[i].purpose = challenges[i].purpose
        /\ s[i].used = challenges[i].used
        /\ \A j \in 1..n : j # i => s[j] = challenges[j]
  <2>1. challenges \in Seq(Challenge) /\ i \in 1..Len(challenges)
    BY <1>3 DEF IInv, Sequences
  <2> PICK row : row = [challenges[i] EXCEPT !.consumed = TRUE]
    OBVIOUS
  <2> PICK s : s = [challenges EXCEPT ![i] = row]
    OBVIOUS
  <2>2. challenges' = s
    BY <1>0, <1>2
  <2> QED BY <1>3, <2>1, <2>2, ConsumedRows
<1>6. PICK row \in Credential :
        /\ row.company = c /\ row.passkey = p /\ row.purpose = PurposeOf(op) /\ row.used = i
        /\ credentials' = Append(credentials, row)
  <2>1. i \in 1..MaxChallenges
    BY <1>3, FinancialRootAssumption
  <2> QED BY <1>1, <1>2, <2>1 DEF Credential, PurposeOf
<1>7. /\ credentials' \in Seq(Credential) /\ DOMAIN credentials' = 1..(m + 1)
      /\ credentials'[m + 1] = row /\ \A k \in 1..m : credentials'[k] = credentials[k]
  BY <1>4, <1>6 DEF IInv, Sequences
<1>8. Sequences' /\ DOMAIN challenges' = DOMAIN challenges
  BY <1>3, <1>5, <1>7 DEF Sequences
<1>9. /\ call' \in [Calls -> Call \cup {Idle}] /\ OneHolder' /\ CheckedBy(x)'
      /\ \A y \in Calls \ {x} : call'[y] = call[y] /\ call[y].company # c
  BY <1>1, <1>2, CallEnds, OthersLocks
<1>10. /\ root' \in RootRows /\ \A d \in Companies \ {c} : root'[d] = root[d]
       /\ root'[c].address = root[c].address
       /\ op = "register_primary" => root'[c].status = "passkey_verified" /\ root'[c].identity = p
       /\ op = "register_recovery" => root'[c] = root[c]
  BY <1>1, <1>2 DEF IInv, TypeOK, RootRows, Root, Statuses
<1>11. TypeOK'
  BY <1>1, <1>8, <1>9, <1>10 DEF IInv, TypeOK, Sequences, PasskeyRows, ChallengeRows
<1>12. /\ \A d \in Companies \ {c} : Primary(d)' = Primary(d)
       /\ Primary(c)' = IF op = "register_primary" THEN Primary(c) \cup {p} ELSE Primary(c)
  BY <1>4, <1>6, <1>7 DEF Primary, PurposeOf
<1>13. \A d \in Companies : RootInv(d)'
  <2>1. \A d \in Companies : RootInv(d)
    BY DEF IInv
  <2>2. RootInv(c)'
    BY <1>1, <1>2, <1>10, <1>12, <2>1, FinancialRootAssumption DEF RootInv, StatusFor
  <2>3. ASSUME NEW d \in Companies \ {c} PROVE RootInv(d)'
    <3>1. root'[d] = root[d] /\ wallet' = wallet /\ Primary(d)' = Primary(d)
      BY <1>1, <1>10, <1>12
    <3> QED BY <2>1, <3>1 DEF RootInv
  <2> QED BY <2>2, <2>3
<1>14. \A j \in DOMAIN challenges : RowKept(j)
  BY <1>2, <1>3, <1>5, <1>8 DEF RowKept, Consumable
<1>15. \A j \in DOMAIN challenges' : GrantOf(j)'
  <2>1. \A d \in Companies : root[d].status = "provisioned" => root'[d].status = "provisioned"
    BY <1>2, <1>10 DEF StatusFor
  <2> QED BY <1>8, <1>14, <2>1, ChallengesKept
<1>16. \A k \in DOMAIN credentials' : EnrolmentOf(k)'
  <2>1. ASSUME NEW k \in 1..m PROVE EnrolmentOf(k)'
    <3>1. EnrolmentOf(k) /\ credentials'[k] = credentials[k]
      BY <1>4, <1>7 DEF IInv
    <3> QED BY <1>14, <3>1 DEF EnrolmentOf, RowKept
  <2>2. EnrolmentOf(m + 1)'
    <3>1. /\ i \in DOMAIN challenges' /\ challenges'[i].consumed /\ challenges'[i].company = c
          /\ challenges'[i].purpose = op
      BY <1>2, <1>5, <1>8 DEF Consumable
    <3>2. op = IF row.purpose = "primary" THEN "register_primary" ELSE "register_recovery"
      BY <1>6 DEF PurposeOf
    <3> QED BY <1>6, <1>7, <3>1, <3>2 DEF EnrolmentOf
  <2> QED BY <1>7, <2>1, <2>2
<1>17. UsedOnce'
  <2>1. \A j, k \in DOMAIN challenges' :
          challenges'[j].used = challenges'[k].used /\ challenges'[j].used # 0 => j = k
    BY <1>8, <1>14 DEF IInv, UsedOnce, RowKept
  <2>2. \A k \in 1..m : credentials[k].passkey # p /\ credentials[k].used # i
    <3>1. \A k \in 1..m : EnrolmentOf(k)
      BY <1>4 DEF IInv
    <3> QED BY <1>1, <1>2, <1>4, <3>1 DEF EnrolmentOf, NewPasskey, Consumable
  <2>3. \A j, k \in DOMAIN credentials' :
          credentials'[j].used = credentials'[k].used \/ credentials'[j].passkey = credentials'[k].passkey
            => j = k
    <3>1. \A j, k \in 1..m :
            credentials[j].used = credentials[k].used \/ credentials[j].passkey = credentials[k].passkey
              => j = k
      BY <1>4 DEF IInv, UsedOnce
    <3> QED BY <1>6, <1>7, <2>2, <3>1
  <2> QED BY <2>1, <2>3 DEF UsedOnce
<1>18. \A k \in SignIns : SignInInv(k)'
  BY <1>1 DEF IInv, SignInInv
<1>19. ASSUME NEW y \in Calls PROVE CheckedBy(y)'
  <2>1. CASE y = x
    BY <1>9, <2>1
  <2>2. CASE y # x
    <3>1. call'[y] = call[y] /\ call[y].company # c
      BY <1>9, <2>2
    <3>2. \A j \in DOMAIN challenges :
            challenges[j].company # c => j \in DOMAIN challenges' /\ challenges'[j] = challenges[j]
      BY <1>2, <1>3, <1>5, <1>8 DEF Consumable
    <3> QED BY <1>1, <1>10, <3>1, <3>2, CallKept
  <2> QED BY <2>1, <2>2
<1> QED BY <1>8, <1>9, <1>11, <1>13, <1>15, <1>16, <1>17, <1>18, <1>19 DEF IInv

\* The wallet and the root's status are written together.
LEMMA ProvisionSteps ==
  ASSUME IInv, NEW x \in Calls, ProvisionFinancialWallet(x)
  PROVE  IInv'
<1>1. PICK c \in Companies :
        /\ c = call[x].company /\ root[c].status = "passkey_verified"
        /\ root' = [root EXCEPT ![c].status = "provisioned", ![c].address = root[c].identity]
        /\ wallet' = [wallet EXCEPT ![c] = root[c].identity] /\ End(x)
        /\ UNCHANGED <<credentials, challenges, connected, signIn, sessions>>
  BY DEF ProvisionFinancialWallet, IInv, CheckedBy
<1>2. RootInv(c) /\ root \in RootRows /\ wallet \in WalletRows
  BY DEF IInv, TypeOK
<1>3. /\ root' \in RootRows /\ \A d \in Companies \ {c} : root'[d] = root[d]
      /\ root'[c].status = "provisioned" /\ root'[c].identity = root[c].identity
      /\ root'[c].address = root[c].identity
  BY <1>1, <1>2 DEF RootRows, Root, Statuses
<1>4. /\ wallet' \in WalletRows /\ wallet'[c] = root[c].identity
      /\ \A d \in Companies \ {c} : wallet'[d] = wallet[d]
  BY <1>1, <1>2 DEF RootRows, Root, WalletRows
<1>5. /\ call' \in [Calls -> Call \cup {Idle}] /\ OneHolder' /\ CheckedBy(x)'
      /\ \A y \in Calls \ {x} : call'[y] = call[y] /\ call[y].company # c
  BY <1>1, CallEnds, OthersLocks
<1>6. TypeOK' /\ Sequences' /\ UsedOnce' /\ \A k \in SignIns : SignInInv(k)'
  BY <1>1, <1>3, <1>4, <1>5 DEF IInv, TypeOK, Sequences, UsedOnce, SignInInv
<1>7. \A d \in Companies : RootInv(d)'
  <2>1. \A d \in Companies : Primary(d)' = Primary(d)
    BY <1>1 DEF Primary
  <2>2. RootInv(c)'
    BY <1>1, <1>2, <1>3, <1>4, <2>1 DEF RootInv
  <2> QED BY <1>3, <1>4, <2>1, <2>2 DEF IInv, RootInv
<1>8. /\ \A i \in DOMAIN challenges' : GrantOf(i)'
      /\ \A n \in DOMAIN credentials' : EnrolmentOf(n)'
  <2>1. \A i \in DOMAIN challenges : RowKept(i)
    BY <1>1 DEF RowKept
  <2> QED BY <1>1, <1>3, <2>1, ChallengesKept
<1>9. \A y \in Calls : CheckedBy(y)'
  <2>1. ASSUME NEW y \in Calls \ {x} PROVE CheckedBy(y)'
    BY <1>1, <1>3, <1>5, CallKept
  <2> QED BY <1>5, <2>1
<1> QED BY <1>5, <1>6, <1>7, <1>8, <1>9 DEF IInv

\* The challenge's row and the session are written together.
LEMMA SignInSteps ==
  ASSUME IInv, NEW x \in Calls, AuthenticateWallet(x)
  PROVE  IInv'
<1>1. PICK k \in SignIns :
        /\ k = call[x].challenge /\ signIn[k] = "open" /\ call[x].op = "authenticate"
        /\ signIn' = [signIn EXCEPT ![k] = "consumed"]
        /\ sessions' = [sessions EXCEPT ![k] = @ + 1] /\ End(x)
        /\ UNCHANGED <<root, wallet, credentials, challenges, connected>>
  BY DEF AuthenticateWallet, IInv, CheckedBy
<1>2. signIn \in WalletChallengeRows /\ sessions \in HumanSessionRows /\ SignInInv(k)
  BY DEF IInv, TypeOK
<1>3. /\ signIn' \in WalletChallengeRows /\ sessions' \in HumanSessionRows
      /\ signIn'[k] = "consumed" /\ sessions'[k] = 1
      /\ \A j \in SignIns \ {k} : signIn'[j] = signIn[j] /\ sessions'[j] = sessions[j]
  BY <1>1, <1>2 DEF WalletChallengeRows, HumanSessionRows, SignInInv
<1>4. /\ call' \in [Calls -> Call \cup {Idle}] /\ OneHolder' /\ CheckedBy(x)'
      /\ \A y \in Calls \ {x} : call'[y] = call[y]
  BY <1>1, CallEnds
<1>5. TypeOK' /\ Sequences' /\ UsedOnce'
  BY <1>1, <1>3, <1>4 DEF IInv, TypeOK, Sequences, UsedOnce
<1>6. /\ \A c \in Companies : RootInv(c)'
      /\ \A i \in DOMAIN challenges' : GrantOf(i)'
      /\ \A n \in DOMAIN credentials' : EnrolmentOf(n)'
  <2>1. \A c \in Companies : Primary(c)' = Primary(c)
    BY <1>1 DEF Primary
  <2>2. \A c \in Companies : RootInv(c)'
    BY <1>1, <2>1 DEF IInv, RootInv
  <2>3. /\ \A i \in DOMAIN challenges' : GrantOf(i)'
        /\ \A n \in DOMAIN credentials' : EnrolmentOf(n)'
    BY <1>1 DEF IInv, GrantOf, EnrolmentOf
  <2> QED BY <2>2, <2>3
<1>7. \A j \in SignIns : SignInInv(j)'
  BY <1>3 DEF IInv, SignInInv
<1>8. ASSUME NEW y \in Calls \ {x} PROVE CheckedBy(y)'
  <2>1. call[y].op = "authenticate" => call[y].challenge \in SignIns \ {k}
    BY <1>1 DEF IInv, CheckedBy, OneHolder
  <2> QED BY <1>1, <1>3, <1>4, <2>1, CallKept
<1> QED BY <1>4, <1>5, <1>6, <1>7, <1>8 DEF IInv

------------------------------------------------------------------------------
(* The theorems.                                                           *)

LEMMA NextIInv == IInv /\ [Next]_vars => IInv'
<1> SUFFICES ASSUME IInv, [Next]_vars PROVE IInv'
  OBVIOUS
<1>1. ASSUME NEW c \in Companies, Connection(c) PROVE IInv'
  BY <1>1, SmallSteps
<1>2. ASSUME NEW c \in Companies, PrepareWallet(c) \/ PrepareFinancialIdentity(c) PROVE IInv'
  BY <1>2, ReserveSteps DEF PrepareWallet, PrepareFinancialIdentity
<1>3. ASSUME NEW c \in Companies, BeginPasskeyRegistration(c) \/ BeginRecoveryAuthorization(c)
      PROVE  IInv'
  BY <1>3, BeginSteps
<1>4. ASSUME NEW k \in SignIns, WalletChallenge(k) PROVE IInv'
  BY <1>4, SmallSteps
<1>5. ASSUME NEW x \in Calls,
             \/ \E c \in Companies, i \in Challenges, p \in Passkeys :
                  \/ \E op \in {"register_primary", "register_recovery"} : VerifyRegistration(x, c, op, i, p)
                  \/ VerifyAssertion(x, c, i, p)
             \/ \E c \in Companies : ProvisionWebAuthnAccount(x, c)
             \/ \E k \in SignIns : ConsumeChallenge(x, k)
      PROVE  IInv'
  BY <1>5, CheckingSteps
<1>6. ASSUME NEW x \in Calls, Rollback(x) PROVE IInv'
  BY <1>6, SmallSteps
<1>7. ASSUME NEW x \in Calls, CompletePasskeyRegistration(x) PROVE IInv'
  BY <1>7, CompleteSteps
<1>8. ASSUME NEW x \in Calls, ProvisionFinancialWallet(x) PROVE IInv'
  BY <1>8, ProvisionSteps
<1>9. ASSUME NEW x \in Calls, AuthorizeRecoveryRegistration(x) PROVE IInv'
  BY <1>9, AuthorizeSteps
<1>10. ASSUME NEW x \in Calls, AuthenticateWallet(x) PROVE IInv'
  BY <1>10, SignInSteps
<1>11. CASE UNCHANGED vars
  <2>1. /\ UNCHANGED <<root, wallet, credentials, challenges, connected, signIn, sessions, call>>
    BY <1>11 DEF vars
  <2>2. TypeOK' /\ OneHolder'
    BY <2>1 DEF IInv, TypeOK, OneHolder
  <2> QED BY <2>1, <2>2, TablesUnchanged DEF IInv
<1> QED BY <1>1, <1>2, <1>3, <1>4, <1>5, <1>6, <1>7, <1>8, <1>9, <1>10, <1>11 DEF Next

\* The inductive invariant: enrolment, challenges and the open calls fit
\* together at every step.
THEOREM Invariance == Spec => []IInv
BY InitIInv, NextIInv, PTL DEF Spec

\* The tables hold rows of their types.
THEOREM TypeCorrect == Spec => []TypeOK
<1>1. IInv => TypeOK
  BY DEF IInv
<1> QED BY <1>1, Invariance, PTL

\* A wallet is the account of its root's one primary passkey, and no passkey
\* is enrolled twice.
THEOREM WalletIsTheRoots == Spec => []WalletMatchesRoot
<1>1. IInv => WalletMatchesRoot
  <2> SUFFICES ASSUME IInv PROVE WalletMatchesRoot
    OBVIOUS
  <2>1. ASSUME NEW c \in Companies
        PROVE  /\ wallet[c] # None <=> root[c].status = "provisioned"
               /\ wallet[c] = root[c].address
               /\ wallet[c] # None => wallet[c] = root[c].identity
               /\ root[c].identity # None => Primary(c) = {root[c].identity}
    BY FinancialRootAssumption DEF IInv, RootInv
  <2>2. \A m, n \in DOMAIN credentials : credentials[m].passkey = credentials[n].passkey => m = n
    BY DEF IInv, UsedOnce
  <2> QED BY <2>1, <2>2 DEF WalletMatchesRoot
<1> QED BY <1>1, Invariance, PTL

\* A challenge enrols one passkey, authorises one recovery or opens one
\* session.
THEOREM OnceUsed == Spec => []ChallengeUsedOnce
<1>1. IInv => ChallengeUsedOnce
  BY DEF IInv, UsedOnce, SignInInv, ChallengeUsedOnce
<1> QED BY <1>1, Invariance, PTL

\* Behind a recovery passkey stands an assertion of the company's first one.
THEOREM RecoveryIsAuthorised == Spec => []RecoveryAuthorised
<1>1. IInv => RecoveryAuthorised
  <2> SUFFICES ASSUME IInv, NEW n \in DOMAIN credentials, credentials[n].purpose = "recovery",
                      NEW i, i = credentials[n].used
               PROVE  /\ challenges[i].purpose = "register_recovery"
                      /\ challenges[i].company = credentials[n].company
                      /\ challenges[i].used # 0 /\ challenges[challenges[i].used].purpose = "root_assertion"
                      /\ challenges[challenges[i].used].company = credentials[n].company
                      /\ challenges[challenges[i].used].consumed
                      /\ wallet[credentials[n].company] # None
    BY DEF RecoveryAuthorised
  <2>1. EnrolmentOf(n)
    BY DEF IInv
  <2>2. /\ i \in DOMAIN challenges /\ challenges[i].purpose = "register_recovery"
        /\ challenges[i].company = credentials[n].company
    BY <2>1 DEF EnrolmentOf
  <2>3. GrantOf(i) /\ challenges[i] \in Challenge
    BY <2>2 DEF IInv, Sequences
  <2>4. RootInv(challenges[i].company)
    BY <2>3 DEF IInv, Challenge
  <2> QED BY <2>2, <2>3, <2>4, FinancialRootAssumption DEF GrantOf, RootInv
<1> QED BY <1>1, Invariance, PTL
=============================================================================
