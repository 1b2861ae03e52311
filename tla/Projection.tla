----------------------------- MODULE Projection -----------------------------
(***************************************************************************)
(* FinancialService: how finalized escrow events become database state.    *)
(* The chain grows a log of escrow receipts whose unfinalized end may be   *)
(* reorganised.  Two readers ingest finalized receipts into the payment's  *)
(* row, its set of stored events and its journals: the indexer             *)
(* (reconcile), in batches inside one database transaction behind a        *)
(* checkpoint, and confirm (or reconcileOperation), one receipt at a time, *)
(* in any order, which it fetches first and compares with the finalized    *)
(* chain later.  Providers work on the same rows (startJob,               *)
(* submitResult).  Everything ingest writes for a payment is guarded by    *)
(* the row lock that getInvocationByOnchainId takes.                       *)
(*                                                                         *)
(* A receipt is one event.  DisputeResolved, which ingest stores and       *)
(* audits without touching the row, is left out, and so is the status of   *)
(* payment operations (module Operations).                                 *)
(***************************************************************************)
EXTENDS Integers, Sequences

CONSTANTS
  Payments,       \* ids in the escrow's log
  Known,          \* those with a row in paid_invocations
  HumanBought,    \* known payments without a buyer company
  Amount,         \* Amount[i]: units of known payment i
  Commitments,    \* result hashes a provider commits: "own", "other"
  Confirmers,     \* calls of confirm or reconcileOperation that may be open at once
  BatchSize,      \* receipts per reconcile
  MaxLog          \* bound on the length of the log

ASSUME ProjectionAssumption ==
  /\ Known \subseteq Payments
  /\ HumanBought \subseteq Known
  /\ Amount \in [Known -> Nat \ {0}]
  /\ Commitments \subseteq {"own", "other"}
  /\ BatchSize \in Nat \ {0}
  /\ MaxLog \in Nat

\* The state a receipt's event announces.
EventState == [ InvocationFunded   |-> "FUNDED",
                InvocationAccepted |-> "ACCEPTED",
                ResultSubmitted    |-> "SUBMITTED",
                DisputeOpened      |-> "DISPUTED",
                InvocationReleased |-> "RELEASED",
                InvocationRefunded |-> "REFUNDED" ]
Events == DOMAIN EventState

\* Mutant: the trigger forgets that an unaccepted payment may be refunded.
GuardForgetsRefund(old, new) ==
  \/ old = "UNFUNDED"  /\ new = "FUNDED"
  \/ old = "FUNDED"    /\ new = "ACCEPTED"
  \/ old = "ACCEPTED"  /\ new \in {"SUBMITTED", "REFUNDED"}
  \/ old = "SUBMITTED" /\ new \in {"RELEASED", "DISPUTED"}
  \/ old = "DISPUTED"  /\ new \in {"RELEASED", "REFUNDED"}

\* normic_guard_paid_invocation: the updates the database lets through.
GuardAllows(old, new) ==
  \/ old = "UNFUNDED"  /\ new = "FUNDED"
  \/ old = "FUNDED"    /\ new \in {"ACCEPTED", "REFUNDED"}
  \/ old = "ACCEPTED"  /\ new \in {"SUBMITTED", "REFUNDED"}
  \/ old = "SUBMITTED" /\ new \in {"RELEASED", "DISPUTED"}
  \/ old = "DISPUTED"  /\ new \in {"RELEASED", "REFUNDED"}

States == {"UNFUNDED", "FUNDED", "ACCEPTED", "SUBMITTED", "DISPUTED",
           "RELEASED", "REFUNDED"}
Receipt == [payment: Payments, event: Events, commitment: {"own", "other", "none"}]
\* Net token units posted for a payment, debits less credits.
Books == [restricted: Int, cash: Int, expense: Int, providerCash: Int, revenue: Int]
Row == [state: States, job: {"created", "processing", "completed"}, stored: BOOLEAN,
        seen: SUBSET (Nat \ {0}), books: Books]

VARIABLES
  log,          \* the canonical chain's escrow receipts, oldest first
  finalized,    \* how many of them are finalized
  rows,         \* committed database state of each known payment
  checkpoint,   \* receipts the indexer has committed
  tx,           \* the indexer's open transaction
  fetched       \* the receipt each open confirmation has fetched

chain == <<log, finalized>>
vars == <<chain, rows, checkpoint, tx, fetched>>

NewRow == [state |-> "UNFUNDED", job |-> "created", stored |-> FALSE, seen |-> {},
           books |-> [restricted |-> 0, cash |-> 0, expense |-> 0,
                      providerCash |-> 0, revenue |-> 0]]
NoTx == [open |-> FALSE, cursor |-> 0, through |-> 0,
         locked |-> {}, rows |-> [i \in Known |-> NewRow]]
\* Positions count from one.
NoReceipt == [at |-> 0]

Init ==
  /\ log = <<>> /\ finalized = 0
  /\ rows = [i \in Known |-> NewRow]
  /\ checkpoint = 0
  /\ tx = NoTx
  /\ fetched = [c \in Confirmers |-> NoReceipt]

Lifecycle == INSTANCE EscrowLifecycle
               WITH Ids <- Known, phase <- [i \in Known |-> rows[i].state]

------------------------------------------------------------------------------
(* The chain.                                                              *)

\* Payment i stands in the state after the receipts of the log.
ChainState(i, state) ==
  \/ state = "UNFUNDED" /\ \A p \in 1..Len(log) : log[p].payment # i
  \/ \E p \in 1..Len(log) :
       /\ log[p].payment = i /\ EventState[log[p].event] = state
       /\ \A q \in p+1..Len(log) : log[q].payment # i

\* The contract emits an event its lifecycle allows (Escrow implements it).  The platform's own
\* commitment is salted: nobody can commit it before the result is stored.
Emit(i, event, commitment) ==
  /\ Len(log) < MaxLog
  /\ \E state \in States : ChainState(i, state) /\ EventState[event] \in Lifecycle!Successors[state]
  /\ IF event = "ResultSubmitted"
     THEN commitment \in Commitments /\ (commitment = "own" => i \in Known /\ rows[i].stored)
     ELSE commitment = "none"
  /\ log' = Append(log, [payment |-> i, event |-> event, commitment |-> commitment])
  /\ UNCHANGED <<finalized, rows, checkpoint, tx, fetched>>

Finalize ==
  /\ finalized < Len(log)
  /\ finalized' = finalized + 1
  /\ UNCHANGED <<log, rows, checkpoint, tx, fetched>>

\* A reorganisation drops receipts that are not finalized.
Reorg ==
  /\ \E n \in finalized..(Len(log) - 1) : log' = SubSeq(log, 1, n)
  /\ UNCHANGED <<finalized, rows, checkpoint, tx, fetched>>

------------------------------------------------------------------------------
(* ingest, for one receipt and one row.                                    *)

Add(books, account, units) == [books EXCEPT ![account] = @ + units]

\* The journals of an event: debit and credit the same amount; a human buyer
\* keeps no books.
Post(i, event, books) ==
  LET a == Amount[i]
      buyer(b, debit, credit) ==
        IF i \in HumanBought THEN b ELSE Add(Add(b, debit, a), credit, -a)
  IN  CASE event = "InvocationFunded"   -> buyer(books, "restricted", "cash")
        [] event = "InvocationReleased" ->
             buyer(Add(Add(books, "providerCash", a), "revenue", -a), "expense", "restricted")
        [] event = "InvocationRefunded" -> buyer(books, "cash", "restricted")
        [] OTHER                        -> books

\* Mutant: any commitment is taken for the stored result.
RaisesUnchecked(row, p, receipt) ==
  /\ p \notin row.seen
  /\ EventState[receipt.event] # row.state
  /\ ~GuardAllows(row.state, EventState[receipt.event])

\* Ingesting the receipt at position p into the row throws: the commitment is
\* not the stored result's, or the trigger refuses the update.
Raises(row, p, receipt) ==
  /\ p \notin row.seen
  /\ \/ receipt.event = "ResultSubmitted" /\ (~row.stored \/ receipt.commitment # "own")
     \/ /\ EventState[receipt.event] # row.state
        /\ ~GuardAllows(row.state, EventState[receipt.event])

\* Mutant: events are stored without their identity, so one can be taken twice.
IngestedAgain(row, p, receipt) ==
  [row EXCEPT !.state = EventState[receipt.event],
              !.seen = @ \cup {p},
              !.books = Post(receipt.payment, receipt.event, @)]

\* The row after the receipt at position p: a stored event changes nothing.
Ingested(row, p, receipt) ==
  IF p \in row.seen THEN row
  ELSE [row EXCEPT !.state = EventState[receipt.event],
                   !.seen = @ \cup {p},
                   !.books = Post(receipt.payment, receipt.event, @)]

\* Mutant: the row is read without FOR UPDATE.
UnlockedAlways(i) == TRUE

\* The indexer's transaction does not hold the row.
Unlocked(i) == i \notin tx.locked

------------------------------------------------------------------------------
(* confirm and reconcileOperation.                                         *)

\* verifyReceipt fetches any receipt of the canonical chain as it is now.
FetchReceipt(c, p) ==
  /\ fetched[c] = NoReceipt
  /\ p <= Len(log) /\ log[p].payment \in Known
  /\ fetched' = [fetched EXCEPT ![c] = [at |-> p, receipt |-> log[p]]]
  /\ UNCHANGED <<chain, rows, checkpoint, tx>>

\* The receipt goes into its payment's row.
Ingest(c) ==
  LET p == fetched[c].at
      receipt == fetched[c].receipt
      i == receipt.payment
  IN  /\ Unlocked(i) /\ ~Raises(rows[i], p, receipt)
      /\ rows' = [rows EXCEPT ![i] = Ingested(@, p, receipt)]
      /\ fetched' = [fetched EXCEPT ![c] = NoReceipt]
      /\ UNCHANGED <<chain, checkpoint, tx>>

\* Mutant: the block is not compared with the canonical one.
ConfirmReplaced(c) ==
  /\ fetched[c] # NoReceipt
  /\ fetched[c].at <= finalized
  /\ Ingest(c)

\* The finalized tag and the block's hash are read after the receipt: it must
\* be final, and still the chain's.
Confirm(c) ==
  /\ fetched[c] # NoReceipt
  /\ fetched[c].at <= finalized
  /\ log[fetched[c].at] = fetched[c].receipt
  /\ Ingest(c)

\* Not final, not canonical, refused by ingest, or the call fails.
GiveUp(c) ==
  /\ fetched[c] # NoReceipt
  /\ fetched' = [fetched EXCEPT ![c] = NoReceipt]
  /\ UNCHANGED <<chain, rows, checkpoint, tx>>

------------------------------------------------------------------------------
(* The provider's work.                                                    *)

StartJob(i) ==
  /\ Unlocked(i)
  /\ rows[i].state = "ACCEPTED" /\ rows[i].job = "created"
  /\ rows' = [rows EXCEPT ![i].job = "processing"]
  /\ UNCHANGED <<chain, checkpoint, tx, fetched>>

\* submitResult stores the output and its salted commitment.
SubmitResult(i) ==
  /\ Unlocked(i)
  /\ rows[i].state = "ACCEPTED" /\ rows[i].job = "processing" /\ ~rows[i].stored
  /\ rows' = [rows EXCEPT ![i].stored = TRUE, ![i].job = "completed"]
  /\ UNCHANGED <<chain, checkpoint, tx, fetched>>

------------------------------------------------------------------------------
(* reconcile: the indexer's transaction.                                   *)

\* The singleton lock is taken and the finalized batch fetched.
BeginReconcile ==
  /\ ~tx.open
  /\ \E n \in checkpoint..finalized :
       /\ n <= checkpoint + BatchSize /\ (n = checkpoint + BatchSize \/ n = finalized)
       /\ tx' = [NoTx EXCEPT !.open = TRUE, !.cursor = checkpoint, !.through = n]
  /\ UNCHANGED <<chain, rows, checkpoint, fetched>>

\* The row as the indexer's transaction sees it.
TxRow(i) == IF i \in tx.locked THEN tx.rows[i] ELSE rows[i]

NextReceipt == tx.cursor + 1
Indexing == tx.open /\ tx.cursor < tx.through

\* A receipt of a payment without a row is audited and passed over.
IndexUnattributed ==
  /\ Indexing
  /\ log[NextReceipt].payment \notin Known
  /\ tx' = [tx EXCEPT !.cursor = NextReceipt]
  /\ UNCHANGED <<chain, rows, checkpoint, fetched>>

IndexReceipt ==
  /\ Indexing
  /\ LET i == log[NextReceipt].payment
     IN  /\ i \in Known
         /\ ~Raises(TxRow(i), NextReceipt, log[NextReceipt])
         /\ tx' = [tx EXCEPT !.cursor = NextReceipt,
                             !.locked = @ \cup {i},
                             !.rows[i] = Ingested(TxRow(i), NextReceipt, log[NextReceipt])]
  /\ UNCHANGED <<chain, rows, checkpoint, fetched>>

\* ingest throws, the whole batch is rolled back.
IndexRaises ==
  /\ Indexing
  /\ LET i == log[NextReceipt].payment
     IN  i \in Known /\ Raises(TxRow(i), NextReceipt, log[NextReceipt])
  /\ tx' = NoTx
  /\ UNCHANGED <<chain, rows, checkpoint, fetched>>

\* The worker, the RPC or the database connection fails: rollback.
Crash ==
  /\ tx.open
  /\ tx' = NoTx
  /\ UNCHANGED <<chain, rows, checkpoint, fetched>>

\* Rows and checkpoint become visible together.
Commit ==
  /\ tx.open /\ tx.cursor = tx.through
  /\ rows' = [i \in Known |-> TxRow(i)]
  /\ checkpoint' = tx.through
  /\ tx' = NoTx
  /\ UNCHANGED <<chain, fetched>>

------------------------------------------------------------------------------

Next ==
  \/ \E i \in Payments, event \in Events, commitment \in {"own", "other", "none"} :
       Emit(i, event, commitment)
  \/ Finalize \/ Reorg
  \/ \E c \in Confirmers : (\E p \in 1..MaxLog : FetchReceipt(c, p)) \/ Confirm(c) \/ GiveUp(c)
  \/ \E i \in Known : StartJob(i) \/ SubmitResult(i)
  \/ BeginReconcile \/ IndexUnattributed \/ IndexReceipt \/ IndexRaises \/ Crash \/ Commit

Spec == Init /\ [][Next]_vars

\* The scheduled worker keeps running and finishes what it starts, and blocks
\* become final.
Fairness == /\ WF_vars(Finalize)
            /\ WF_vars(BeginReconcile)
            /\ WF_vars(IndexUnattributed \/ IndexReceipt \/ IndexRaises)
            /\ WF_vars(Commit)

FairSpec == Spec /\ Fairness

------------------------------------------------------------------------------
(* Properties.                                                             *)

TypeOK ==
  /\ log \in Seq(Receipt) /\ Len(log) <= MaxLog
  /\ finalized \in 0..Len(log)
  /\ rows \in [Known -> Row]
  /\ checkpoint \in 0..finalized
  /\ tx \in [open: BOOLEAN, cursor: Nat, through: Nat,
             locked: SUBSET Known, rows: [Known -> Row]]
  /\ fetched \in [Confirmers -> {NoReceipt} \cup
                                [at: 1..MaxLog, receipt: {r \in Receipt : r.payment \in Known}]]

\* Pending events never affect accounting: the database rests on finalized
\* receipts only, and a row's state is that of the latest receipt stored for
\* it, whatever the order in which confirm and the indexer stored them.
RestsOnFinality ==
  \A i \in Known :
    /\ rows[i].seen \subseteq {p \in 1..finalized : log[p].payment = i}
    /\ rows[i].seen = {} => rows[i].state = "UNFUNDED"
    /\ \A p \in rows[i].seen : (\A q \in rows[i].seen : q <= p)
                                  => rows[i].state = EventState[log[p].event]

BooksOf(i, state) ==
  LET a == Amount[i]
      buyer == i \notin HumanBought
      held == IF buyer /\ state \in {"FUNDED", "ACCEPTED", "SUBMITTED", "DISPUTED"} THEN a ELSE 0
      spent == IF buyer /\ state = "RELEASED" THEN a ELSE 0
      earned == IF state = "RELEASED" THEN a ELSE 0
  IN  [restricted |-> held, cash |-> -(held + spent), expense |-> spent,
       providerCash |-> earned, revenue |-> -earned]

\* The journals of a payment add up to what its state says: escrow is
\* restricted while the payment is live, revenue and expense appear with the
\* release and only then, a refund leaves nothing, nothing is posted twice.
BooksMatchState == \A i \in Known : rows[i].books = BooksOf(i, rows[i].state)

\* Nothing behind the checkpoint is missing: a rolled back or replayed batch,
\* or a receipt confirmed earlier, never makes the indexer skip a receipt.
CheckpointCovers ==
  \A p \in 1..checkpoint : log[p].payment \in Known => p \in rows[log[p].payment].seen

\* No row passes ACCEPTED to submission, dispute or release unless the
\* platform holds the very result the provider committed on chain.
SettlementBackedByResult ==
  \A i \in Known : rows[i].state \in {"SUBMITTED", "DISPUTED", "RELEASED"} =>
    /\ rows[i].stored
    /\ \E p \in rows[i].seen : log[p].event = "ResultSubmitted" /\ log[p].commitment = "own"

\* No transaction overwrites another's work: events, results and job progress
\* that were committed are never lost.
Later(job) == CASE job = "created"    -> {"created", "processing"}
                [] job = "processing" -> {"processing", "completed"}
                [] OTHER              -> {"completed"}
NothingLost ==
  [][\A i \in Known : /\ rows[i].seen \subseteq rows'[i].seen
                      /\ rows[i].stored => rows'[i].stored
                      /\ rows'[i].job \in Later(rows[i].job)]_vars

\* A receipt was stored ahead of an earlier one of its payment, which the
\* trigger then refuses for ever; or a result other than the stored one is final.
ConfirmedAhead ==
  \E i \in Known : \E p \in rows[i].seen, q \in 1..finalized :
    q < p /\ log[q].payment = i /\ q \notin rows[i].seen
ForeignResult == \E p \in 1..finalized : log[p].payment \in Known /\ log[p].commitment = "other"

\* While finalized receipts of known payments wait behind the checkpoint, the
\* indexer catches up with them all once the worker stops failing for reasons
\* of its own (IndexRaises leaves the same state as Crash, so it is named): only
\* a receipt confirmed out of order and a foreign result can stop it.  A log is
\* finite here, so this is that every receipt is indexed.
Waiting == \E p \in (checkpoint + 1)..finalized : log[p].payment \in Known
EveryReceiptIndexed ==
  (<>[][Crash => IndexRaises]_vars) =>
    (Waiting ~> (~Waiting \/ ConfirmedAhead \/ ForeignResult))

\* finance.ts: "Events are idempotent. A crash before checkpoint advancement
\* safely replays the batch."  No batch ever throws.
BatchAlwaysReplays == ~ENABLED IndexRaises
==============================================================================
