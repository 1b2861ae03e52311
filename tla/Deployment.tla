----------------------------- MODULE Deployment -----------------------------
(***************************************************************************)
(* contracts/scripts/deploy.mjs with --broadcast: the escrow contract is   *)
(* deployed by a script that may stop at any point, whose transaction may  *)
(* be delayed or lost after it was signed, and which an operator runs      *)
(* again.  What a run needs of the earlier ones is in the attempt markers  *)
(* it finds in the directory and in the deployer's nonce on the chain.     *)
(*                                                                         *)
(* The deployer's account sends nothing else, the sequencer keeps the      *)
(* first transaction it accepts at a nonce, and an accepted transaction is *)
(* mined sooner or later.  The contract's parameters, which an operator    *)
(* may change between two runs, are the hash of its creation code.         *)
(***************************************************************************)
EXTENDS Integers, FiniteSets

CONSTANTS
  Runs,   \* the script's runs, at once or one after another
  Codes   \* the creation code of a run's contract

ASSUME DeploymentAssumption == IsFiniteSet(Runs)

VARIABLES
  step,    \* where each run is
  nonce,   \* the nonce it read
  code,    \* the code it deploys
  marker,  \* its attempt marker: the file's status
  tx,      \* what became of its transaction
  latest   \* the deployer's nonce on the chain

deploymentVars == <<step, nonce, code, marker, tx, latest>>

\* "none": nothing signed; "wire": sent, and accepted by nobody yet; "pool":
\* accepted; then mined with or without a contract, or never.
TxStatuses == {"none", "wire", "pool", "deployed", "reverted", "dropped"}

\* The creation code of each run, with its checked parameters.
CreationCode == [Runs -> Codes]

DeploymentInit ==
  /\ step = [r \in Runs |-> "idle"]
  /\ nonce = [r \in Runs |-> 0]
  /\ code \in CreationCode
  /\ marker = [r \in Runs |-> "none"]
  /\ tx = [r \in Runs |-> "none"]
  /\ latest = 0

Go(r, s) == step' = [step EXCEPT ![r] = s]
Network == <<tx, latest>>

------------------------------------------------------------------------------
(* The chain.                                                              *)

Mined(r) == tx[r] \in {"deployed", "reverted"}

\* Transaction counts of the blocks, and with those that were accepted.
Pooled == {r \in Runs : tx[r] = "pool"}
PendingNonce ==
  latest + Cardinality({n \in {nonce[r] : r \in Pooled} :
                          \A k \in latest..n : \E s \in Pooled : nonce[s] = k})

\* The code at the address that the deployer's nonce gives the contract.
HasCode(n) == \E r \in Runs : tx[r] = "deployed" /\ nonce[r] = n

Accepts(r) == nonce[r] >= latest /\ \A s \in Pooled : nonce[s] # nonce[r]

\* A delayed transaction arrives.
Arrive(r) ==
  /\ tx[r] = "wire"
  /\ tx' = [tx EXCEPT ![r] = IF Accepts(r) THEN "pool" ELSE "dropped"]
  /\ UNCHANGED <<step, nonce, code, marker, latest>>

Lose(r) ==
  /\ tx[r] = "wire"
  /\ tx' = [tx EXCEPT ![r] = "dropped"]
  /\ UNCHANGED <<step, nonce, code, marker, latest>>

Mine(r) ==
  /\ tx[r] = "pool" /\ nonce[r] = latest
  /\ \E outcome \in {"deployed", "reverted"} : tx' = [tx EXCEPT ![r] = outcome]
  /\ latest' = latest + 1
  /\ UNCHANGED <<step, nonce, code, marker>>

------------------------------------------------------------------------------
(* A run.                                                                  *)

\* After its preflight and simulation, which change nothing.
ReadNonce(r) ==
  /\ step[r] = "idle"
  /\ nonce' = [nonce EXCEPT ![r] = PendingNonce]
  /\ Go(r, "nonce")
  /\ UNCHANGED <<code, marker, Network>>

\* reconcileDeploymentAttempts: the markers whose outcome nobody knows...
Unresolved == {s \in Runs : marker[s] = "BROADCASTING_OR_UNKNOWN"}
MatchesCode(r, s) == code[s] = code[r]
Matches(r, s) == nonce[s] = nonce[r] /\ code[s] = code[r]

Readable == \A s \in Runs : marker[s] # "unreadable"

ReadMarkers(r) ==
  /\ step[r] = "nonce"
  /\ Go(r, IF ~Readable \/ \E s \in Unresolved : ~Matches(r, s) THEN "stopped"
           ELSE IF Unresolved = {} THEN "reconciled" ELSE "unresolved")
  /\ UNCHANGED <<nonce, code, marker, Network>>

\* ...were not accepted if the nonce is unused.
NotAccepted(r) == latest = nonce[r] /\ PendingNonce = nonce[r] /\ ~HasCode(nonce[r])

Reconcile(r) ==
  /\ step[r] = "unresolved"
  /\ Go(r, IF NotAccepted(r) THEN "reconciled" ELSE "stopped")
  /\ UNCHANGED <<nonce, code, marker, Network>>

WriteMarker(r) ==
  /\ step[r] = "reconciled"
  /\ marker' = [marker EXCEPT ![r] = "BROADCASTING_OR_UNKNOWN"]
  /\ Go(r, "marked")
  /\ UNCHANGED <<nonce, code, Network>>

\* sendTransaction: it is accepted and its hash returned...
UnmarkedToo(r) == step[r] \in {"reconciled", "marked"}
ReadyToSend(r) == step[r] = "marked"

Send(r) ==
  /\ ReadyToSend(r) /\ Accepts(r)
  /\ tx' = [tx EXCEPT ![r] = "pool"]
  /\ Go(r, "sent")
  /\ UNCHANGED <<nonce, code, marker, latest>>

\* ...or it is not signed, which the deployer's custodian does after checking
\* the transaction and the wallet once more...
SigningFails(r) ==
  /\ ReadyToSend(r)
  /\ Go(r, "stopped")
  /\ UNCHANGED <<nonce, code, marker, Network>>

\* ...or an error is raised, and it was refused, is on its way, or was accepted
\* and the answer lost.
SendFails(r) ==
  /\ ReadyToSend(r)
  /\ \E t \in {"dropped", "wire"} \cup (IF Accepts(r) THEN {"pool"} ELSE {}) :
       tx' = [tx EXCEPT ![r] = t]
  /\ Go(r, "stopped")
  /\ UNCHANGED <<nonce, code, marker, latest>>

SaveHash(r) ==
  /\ step[r] = "sent"
  /\ marker' = [marker EXCEPT ![r] = "SUBMITTED"]
  /\ Go(r, "submitted")
  /\ UNCHANGED <<nonce, code, Network>>

\* waitForTransactionReceipt, and the contract's parameters read back.
Verify(r) ==
  /\ step[r] = "submitted" /\ tx[r] = "deployed"
  /\ marker' = [marker EXCEPT ![r] = "DEPLOYED"]
  /\ Go(r, "stopped")
  /\ UNCHANGED <<nonce, code, Network>>

\* A crash, an error of the network or a timeout, at any step.
Stop(r) ==
  /\ step[r] \notin {"idle", "stopped"}
  /\ Go(r, "stopped")
  /\ UNCHANGED <<nonce, code, marker, Network>>

\* A crash while the marker is written.
Tear(r) ==
  /\ step[r] \in {"reconciled", "sent"} \/ (step[r] = "submitted" /\ tx[r] = "deployed")
  /\ marker' = [marker EXCEPT ![r] = "unreadable"]
  /\ Go(r, "stopped")
  /\ UNCHANGED <<nonce, code, Network>>

DeploymentNext ==
  \E r \in Runs :
    \/ Arrive(r)
    \/ Lose(r)
    \/ Mine(r)
    \/ ReadNonce(r)
    \/ ReadMarkers(r)
    \/ Reconcile(r)
    \/ WriteMarker(r)
    \/ Send(r)
    \/ SigningFails(r)
    \/ SendFails(r)
    \/ SaveHash(r)
    \/ Verify(r)
    \/ Stop(r)
    \/ Tear(r)

DeploymentSpec == DeploymentInit /\ [][DeploymentNext]_deploymentVars

------------------------------------------------------------------------------
(* Properties.                                                             *)

DeploymentTypeOK ==
  /\ step \in [Runs -> {"idle", "nonce", "unresolved", "reconciled", "marked", "sent",
                        "submitted", "stopped"}]
  /\ nonce \in [Runs -> 0..Cardinality(Runs)]
  /\ code \in CreationCode
  /\ marker \in [Runs -> {"none", "BROADCASTING_OR_UNKNOWN", "SUBMITTED", "DEPLOYED", "unreadable"}]
  /\ tx \in [Runs -> TxStatuses]
  /\ latest \in 0..Cardinality(Runs)

\* Nothing is on its way to the chain, or there, that the directory knows
\* nothing of, wherever the script stopped; and a contract that a marker says
\* is deployed is there.
EveryDeploymentRecorded ==
  \A r \in Runs :
    /\ tx[r] # "none" => marker[r] # "none"
    /\ marker[r] = "DEPLOYED" => tx[r] = "deployed"

\* A transaction whose outcome no marker tells, and which the chain mined all
\* the same, is followed by none at a later nonce: no run deploys a second
\* contract on the assumption that there was none before.
NoBlindRedeployment ==
  \A r, s \in Runs :
    /\ Mined(r) /\ marker[r] = "BROADCASTING_OR_UNKNOWN"
    /\ tx[s] # "none"
    => nonce[s] <= nonce[r]
=============================================================================
