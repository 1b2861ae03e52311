-------------------------- MODULE ProjectionProofs --------------------------
(***************************************************************************)
(* What holds of the projection for every set of payments, every amount,   *)
(* batch and log: rows rest on finalized receipts, the books say what the  *)
(* state says, settlement needs the stored result, and no transaction      *)
(* loses another's work.                                                   *)
(***************************************************************************)
EXTENDS Projection, Identity, Sums

\* How far a state is along the lifecycle; every arc goes up.
Rank == [state \in States |->
           CASE state = "UNFUNDED"  -> 0
             [] state = "FUNDED"    -> 1
             [] state = "ACCEPTED"  -> 2
             [] state = "SUBMITTED" -> 3
             [] state = "DISPUTED"  -> 4
             [] OTHER               -> 5]

StateAfter(p) == EventState[log[p].event]

\* The receipts of a payment, in the log's order, go up.
LogInv ==
  /\ log \in Seq(Receipt) /\ Len(log) <= MaxLog /\ finalized \in 0..Len(log)
  /\ \A p, q \in 1..Len(log) :
       p < q /\ log[p].payment = log[q].payment => Rank[StateAfter(p)] < Rank[StateAfter(q)]

\* A row, committed or in the indexer's transaction, is what the furthest of
\* its receipts makes it, whatever the order they came in.
RowInv(i, row) ==
  /\ row.seen \subseteq {p \in 1..finalized : log[p].payment = i}
  /\ row.seen = {} => row.state = "UNFUNDED"
  /\ row.seen # {} => \E p \in row.seen : row.state = StateAfter(p)
  /\ \A p \in row.seen : Rank[StateAfter(p)] <= Rank[row.state]
  /\ row.books = BooksOf(i, row.state)
  /\ row.state \in {"SUBMITTED", "DISPUTED", "RELEASED"} =>
       /\ row.stored
       /\ \E p \in row.seen : log[p].event = "ResultSubmitted" /\ log[p].commitment = "own"

Transactions == [open: BOOLEAN, cursor: Nat, through: Nat, locked: SUBSET Known, rows: [Known -> Row]]

\* The transaction's copy of a locked row has all that the committed one has.
CopyInv(i) ==
  /\ RowInv(i, tx.rows[i])
  /\ rows[i].seen \subseteq tx.rows[i].seen
  /\ rows[i].stored = tx.rows[i].stored /\ rows[i].job = tx.rows[i].job

TxInv ==
  /\ tx \in Transactions
  /\ ~tx.open => tx.locked = {}
  /\ tx.open => checkpoint <= tx.cursor /\ tx.cursor <= tx.through /\ tx.through <= finalized
  /\ \A i \in tx.locked : CopyInv(i)
  /\ tx.open => \A i \in Known : \A p \in 1..tx.cursor : log[p].payment = i => p \in TxRow(i).seen

\* What a confirmation has fetched may no longer be in the log: that is all
\* that can be said of it before it is compared.
OfKnown == {r \in Receipt : r.payment \in Known}
FetchedOK == fetched \in [Confirmers -> {NoReceipt} \cup [at: 1..MaxLog, receipt: OfKnown]]

IInv ==
  /\ LogInv
  /\ rows \in [Known -> Row] /\ \A i \in Known : RowInv(i, rows[i])
  /\ checkpoint \in 0..finalized /\ CheckpointCovers
  /\ TxInv

------------------------------------------------------------------------------
(* The lifecycle.                                                          *)

LEMMA EventNames ==
  Events = {"InvocationFunded", "InvocationAccepted", "ResultSubmitted", "DisputeOpened",
            "InvocationReleased", "InvocationRefunded"}
BY DEF Events, EventState

LEMMA EventStates == \A e \in Events : EventState[e] \in States \ {"UNFUNDED"}
BY DEF Events, EventState, States

LEMMA RankTyped == \A s \in States : Rank[s] \in Nat
BY DEF States, Rank

\* What the trigger lets through goes up, and so does what the contract emits.
LEMMA GuardRises == \A s, t \in States : GuardAllows(s, t) => Rank[s] < Rank[t]
BY DEF States, GuardAllows, Rank

LEMMA LifecycleRises ==
  \A s \in States : \A t \in Lifecycle!Successors[s] : t \in States /\ Rank[s] < Rank[t]
BY DEF States, Rank, Lifecycle!Successors

------------------------------------------------------------------------------
(* The books.                                                              *)

Account(r, c, e, p, v) ==
  [restricted |-> r, cash |-> c, expense |-> e, providerCash |-> p, revenue |-> v]

LEMMA BooksByState ==
  ASSUME NEW i \in Known, NEW a \in Int, a = Amount[i]
  PROVE  /\ BooksOf(i, "UNFUNDED") = Account(0, 0, 0, 0, 0)
         /\ BooksOf(i, "REFUNDED") = Account(0, 0, 0, 0, 0)
         /\ \A s \in {"FUNDED", "ACCEPTED", "SUBMITTED", "DISPUTED"} :
              BooksOf(i, s) = IF i \in HumanBought THEN Account(0, 0, 0, 0, 0)
                              ELSE Account(a, -a, 0, 0, 0)
         /\ BooksOf(i, "RELEASED") = IF i \in HumanBought THEN Account(0, 0, 0, a, -a)
                                     ELSE Account(0, -a, a, a, -a)
BY DEF BooksOf, Account

LEMMA AddTo ==
  ASSUME NEW r \in Int, NEW c \in Int, NEW e \in Int, NEW p \in Int, NEW v \in Int, NEW u \in Int
  PROVE  /\ Add(Account(r, c, e, p, v), "restricted", u) = Account(r + u, c, e, p, v)
         /\ Add(Account(r, c, e, p, v), "cash", u) = Account(r, c + u, e, p, v)
         /\ Add(Account(r, c, e, p, v), "expense", u) = Account(r, c, e + u, p, v)
         /\ Add(Account(r, c, e, p, v), "providerCash", u) = Account(r, c, e, p + u, v)
         /\ Add(Account(r, c, e, p, v), "revenue", u) = Account(r, c, e, p, v + u)
<1>1. Add(Account(r, c, e, p, v), "restricted", u) = Account(r + u, c, e, p, v)
  BY DEF Add, Account
<1>2. Add(Account(r, c, e, p, v), "cash", u) = Account(r, c + u, e, p, v)
  BY DEF Add, Account
<1>3. Add(Account(r, c, e, p, v), "expense", u) = Account(r, c, e + u, p, v)
  BY DEF Add, Account
<1>4. Add(Account(r, c, e, p, v), "providerCash", u) = Account(r, c, e, p + u, v)
  BY DEF Add, Account
<1>5. Add(Account(r, c, e, p, v), "revenue", u) = Account(r, c, e, p, v + u)
  BY DEF Add, Account
<1> QED BY <1>1, <1>2, <1>3, <1>4, <1>5

\* An event that the trigger lets through posts exactly the difference between
\* the books of the two states.
LEMMA PostMatches ==
  ASSUME NEW i \in Known, NEW s \in States, NEW e \in Events, GuardAllows(s, EventState[e])
  PROVE  Post(i, e, BooksOf(i, s)) = BooksOf(i, EventState[e])
<1> PICK a \in Int : a = Amount[i]
  BY ProjectionAssumption
<1> PICK minus \in Int : minus = -a
  OBVIOUS
<1>0. a + minus = 0 /\ 0 + a = a /\ 0 + minus = minus /\ minus + a = 0
  <2>1. \A m \in Int : 0 + m = m /\ m + (-m) = 0 /\ (-m) + m = 0
    OBVIOUS
  <2> QED BY <2>1
<1>1. CASE e = "InvocationFunded"
  <2>1. s = "UNFUNDED" /\ EventState[e] = "FUNDED"
    BY <1>1 DEF GuardAllows, EventState
  <2>2. \A b : Post(i, e, b) = IF i \in HumanBought THEN b
                               ELSE Add(Add(b, "restricted", a), "cash", minus)
    BY <1>1 DEF Post
  <2>3. Add(Account(0, 0, 0, 0, 0), "restricted", a) = Account(a, 0, 0, 0, 0)
    BY <1>0, AddTo
  <2>4. Add(Account(a, 0, 0, 0, 0), "cash", minus) = Account(a, minus, 0, 0, 0)
    BY <1>0, AddTo
  <2> QED BY <2>1, <2>2, <2>3, <2>4, BooksByState
<1>2. CASE e = "InvocationReleased"
  <2>1. s \in {"SUBMITTED", "DISPUTED"} /\ EventState[e] = "RELEASED"
    BY <1>2 DEF GuardAllows, EventState
  <2>2. \A b : Post(i, e, b) =
          IF i \in HumanBought THEN Add(Add(b, "providerCash", a), "revenue", minus)
          ELSE Add(Add(Add(Add(b, "providerCash", a), "revenue", minus), "expense", a), "restricted", minus)
    BY <1>2 DEF Post
  <2>3. CASE i \in HumanBought
    <3>1. Add(Account(0, 0, 0, 0, 0), "providerCash", a) = Account(0, 0, 0, a, 0)
      BY <1>0, AddTo
    <3>2. Add(Account(0, 0, 0, a, 0), "revenue", minus) = Account(0, 0, 0, a, minus)
      BY <1>0, AddTo
    <3> QED BY <2>1, <2>2, <2>3, <3>1, <3>2, BooksByState
  <2>4. CASE i \notin HumanBought
    <3>1. Add(Account(a, minus, 0, 0, 0), "providerCash", a) = Account(a, minus, 0, a, 0)
      BY <1>0, AddTo
    <3>2. Add(Account(a, minus, 0, a, 0), "revenue", minus) = Account(a, minus, 0, a, minus)
      BY <1>0, AddTo
    <3>3. Add(Account(a, minus, 0, a, minus), "expense", a) = Account(a, minus, a, a, minus)
      BY <1>0, AddTo
    <3>4. Add(Account(a, minus, a, a, minus), "restricted", minus) = Account(0, minus, a, a, minus)
      BY <1>0, AddTo
    <3> QED BY <2>1, <2>2, <2>4, <3>1, <3>2, <3>3, <3>4, BooksByState
  <2> QED BY <2>3, <2>4
<1>3. CASE e = "InvocationRefunded"
  <2>1. s \in {"FUNDED", "ACCEPTED", "DISPUTED"} /\ EventState[e] = "REFUNDED"
    BY <1>3 DEF GuardAllows, EventState
  <2>2. \A b : Post(i, e, b) = IF i \in HumanBought THEN b
                               ELSE Add(Add(b, "cash", a), "restricted", minus)
    BY <1>3 DEF Post
  <2>3. Add(Account(a, minus, 0, 0, 0), "cash", a) = Account(a, 0, 0, 0, 0)
    BY <1>0, AddTo
  <2>4. Add(Account(a, 0, 0, 0, 0), "restricted", minus) = Account(0, 0, 0, 0, 0)
    BY <1>0, AddTo
  <2> QED BY <2>1, <2>2, <2>3, <2>4, BooksByState
<1>4. CASE e \in {"InvocationAccepted", "ResultSubmitted", "DisputeOpened"}
  <2>1. /\ s \in {"FUNDED", "ACCEPTED", "SUBMITTED", "DISPUTED"}
        /\ EventState[e] \in {"FUNDED", "ACCEPTED", "SUBMITTED", "DISPUTED"}
    BY <1>4 DEF GuardAllows, EventState
  <2>2. Post(i, e, BooksOf(i, s)) = BooksOf(i, s)
    BY <1>4 DEF Post
  <2> QED BY <2>1, <2>2, BooksByState
<1> QED BY <1>1, <1>2, <1>3, <1>4, EventNames

LEMMA BooksTyped == \A i \in Known, s \in States : BooksOf(i, s) \in Books
<1> SUFFICES ASSUME NEW i \in Known, NEW s \in States PROVE BooksOf(i, s) \in Books
  OBVIOUS
<1> PICK a \in Int : a = Amount[i]
  BY ProjectionAssumption
<1> PICK minus \in Int : minus = -a
  OBVIOUS
<1>1. \A r, c, e, p, v \in Int : Account(r, c, e, p, v) \in Books
  BY DEF Account, Books
<1>2. BooksOf(i, s) \in {Account(0, 0, 0, 0, 0), Account(a, minus, 0, 0, 0),
                         Account(0, 0, 0, a, minus), Account(0, minus, a, a, minus)}
  BY BooksByState DEF States
<1>3. 0 \in Int
  OBVIOUS
<1> QED BY <1>1, <1>2, <1>3

------------------------------------------------------------------------------
(* One receipt and one row.                                                *)

LEMMA ReceiptTyped ==
  ASSUME LogInv, NEW p \in 1..Len(log)
  PROVE  /\ log[p] \in Receipt /\ log[p].event \in Events /\ log[p].payment \in Payments
         /\ StateAfter(p) \in States \ {"UNFUNDED"}
<1>1. log[p] \in Receipt
  BY DEF LogInv
<1>2. log[p].event \in Events /\ log[p].payment \in Payments
  BY <1>1 DEF Receipt
<1> QED BY <1>1, <1>2, EventStates DEF StateAfter

\* A receipt that is new to the row and does not raise brings another state.
LEMMA NewState ==
  ASSUME LogInv, NEW i \in Known, NEW p \in 1..finalized, log[p].payment = i,
         NEW row \in Row, RowInv(i, row), p \notin row.seen, ~Raises(row, p, log[p])
  PROVE  GuardAllows(row.state, StateAfter(p)) /\ Rank[row.state] < Rank[StateAfter(p)]
<1>1. p \in 1..Len(log) /\ finalized \in Nat /\ finalized <= Len(log)
  BY DEF LogInv
<1>2. StateAfter(p) \in States \ {"UNFUNDED"} /\ row.state \in States
  BY <1>1, ReceiptTyped DEF Row
<1>3. StateAfter(p) # row.state
  <2> SUFFICES ASSUME StateAfter(p) = row.state PROVE FALSE
    OBVIOUS
  <2>1. PICK q \in row.seen : row.state = StateAfter(q)
    BY <1>2 DEF RowInv
  <2>2. q \in 1..Len(log) /\ log[q].payment = i /\ q # p
    BY <1>1, <2>1 DEF RowInv
  <2>3. q < p \/ p < q
    BY <1>1, <2>2
  <2>4. Rank[StateAfter(q)] < Rank[StateAfter(p)] \/ Rank[StateAfter(p)] < Rank[StateAfter(q)]
    BY <1>1, <2>2, <2>3 DEF LogInv
  <2> QED BY <1>2, <2>1, <2>4, RankTyped
<1>4. GuardAllows(row.state, StateAfter(p))
  BY <1>3 DEF Raises, StateAfter
<1> QED BY <1>2, <1>4, GuardRises

LEMMA IngestRow ==
  ASSUME LogInv, NEW i \in Known, NEW p \in 1..finalized, log[p].payment = i,
         NEW row \in Row, RowInv(i, row), ~Raises(row, p, log[p]), NEW after, after = Ingested(row, p, log[p])
  PROVE  /\ after \in Row /\ RowInv(i, after) /\ p \in after.seen /\ row.seen \subseteq after.seen
         /\ after.stored = row.stored /\ after.job = row.job
<1>1. CASE p \in row.seen
  BY <1>1 DEF Ingested
<1>2. CASE p \notin row.seen
  <2>1. p \in 1..Len(log) /\ p \in Nat \ {0}
    BY DEF LogInv
  <2>2. PICK e \in Events, t \in States \ {"UNFUNDED"} :
          e = log[p].event /\ t = EventState[e] /\ t = StateAfter(p)
    BY <2>1, ReceiptTyped DEF StateAfter
  <2>3. GuardAllows(row.state, t) /\ Rank[row.state] < Rank[t] /\ row.state \in States
    BY <1>2, <2>2, NewState DEF Row
  <2>4. PICK s \in SUBSET (Nat \ {0}) : s = row.seen \cup {p}
    BY <2>1 DEF Row
  <2>5. PICK b \in Books : b = BooksOf(i, t) /\ b = Post(i, e, row.books)
    <3>1. row.books = BooksOf(i, row.state)
      BY DEF RowInv
    <3>2. Post(i, e, BooksOf(i, row.state)) = BooksOf(i, t)
      BY <2>1, <2>2, <2>3, ReceiptTyped, PostMatches
    <3>3. BooksOf(i, t) \in Books
      BY BooksTyped
    <3> QED BY <3>1, <3>2, <3>3
  <2>6. after = [row EXCEPT !.state = t, !.seen = s, !.books = b]
    BY <1>2, <2>2, <2>4, <2>5 DEF Ingested
  <2>7. /\ after \in Row /\ after.state = t /\ after.seen = s /\ after.books = b
        /\ after.stored = row.stored /\ after.job = row.job
    BY <2>6 DEF Row
  <2>8. t \in {"SUBMITTED", "DISPUTED", "RELEASED"} =>
          /\ row.stored
          /\ \E q \in s : log[q].event = "ResultSubmitted" /\ log[q].commitment = "own"
    <3>1. CASE t = "SUBMITTED"
      <4>1. e = "ResultSubmitted"
        BY <2>2, <3>1, EventNames DEF EventState
      <4> QED BY <1>2, <2>2, <2>4, <4>1 DEF Raises
    <3>2. CASE t \in {"DISPUTED", "RELEASED"}
      <4>1. row.state \in {"SUBMITTED", "DISPUTED"}
        BY <2>3, <3>2 DEF GuardAllows
      <4> QED BY <2>4, <4>1 DEF RowInv
    <3> QED BY <3>1, <3>2
  <2>9. \A q \in s : Rank[StateAfter(q)] <= Rank[t]
    <3>1. \A q \in row.seen : Rank[StateAfter(q)] \in Nat /\ Rank[StateAfter(q)] <= Rank[row.state]
      <4>1. \A q \in row.seen : q \in 1..Len(log)
        BY DEF RowInv, LogInv
      <4> QED BY <4>1, ReceiptTyped, RankTyped DEF RowInv
    <3>2. Rank[t] \in Nat /\ Rank[row.state] \in Nat
      BY <2>2, <2>3, RankTyped
    <3> QED BY <2>2, <2>3, <2>4, <3>1, <3>2
  <2>10. s \subseteq {q \in 1..finalized : log[q].payment = i} /\ p \in s
    BY <2>4 DEF RowInv
  <2>11. RowInv(i, after)
    BY <2>2, <2>5, <2>7, <2>8, <2>9, <2>10 DEF RowInv
  <2> QED BY <2>4, <2>7, <2>10, <2>11
<1> QED BY <1>1, <1>2

\* The state of a row is that of the latest receipt it has seen.
LEMMA LatestCounts ==
  ASSUME LogInv, NEW i \in Known, NEW row \in Row, RowInv(i, row), NEW p \in row.seen,
         \A q \in row.seen : q <= p
  PROVE  row.state = StateAfter(p)
<1>1. \A q \in row.seen : q \in 1..Len(log) /\ log[q].payment = i
  BY DEF RowInv, LogInv
<1>2. PICK q \in row.seen : row.state = StateAfter(q)
  BY DEF RowInv
<1>3. CASE q < p
  <2>1. Rank[StateAfter(q)] < Rank[StateAfter(p)] /\ Rank[StateAfter(p)] <= Rank[StateAfter(q)]
    BY <1>1, <1>2, <1>3 DEF LogInv, RowInv
  <2>2. Rank[StateAfter(q)] \in Nat /\ Rank[StateAfter(p)] \in Nat
    BY <1>1, ReceiptTyped, RankTyped
  <2> QED BY <2>1, <2>2
<1> QED BY <1>1, <1>2, <1>3

------------------------------------------------------------------------------
(* The chain's steps.                                                      *)

LEMMA InitIInv == Init => IInv
<1> SUFFICES ASSUME Init PROVE IInv
  OBVIOUS
<1>1. LogInv
  BY ProjectionAssumption DEF Init, LogInv
<1>2. NewRow \in Row
  BY DEF NewRow, Row, Books, States
<1>3. \A i \in Known : RowInv(i, NewRow)
  <2>1. \A i \in Known : NewRow.books = BooksOf(i, "UNFUNDED")
    BY ProjectionAssumption, BooksByState DEF NewRow, Account
  <2> QED BY <2>1 DEF RowInv, NewRow
<1>4. checkpoint = 0 /\ finalized = 0 /\ tx = NoTx /\ rows = [i \in Known |-> NewRow]
  BY DEF Init
<1>5. TxInv
  BY <1>2, <1>4 DEF TxInv, NoTx, Transactions
<1> QED BY <1>1, <1>2, <1>3, <1>4, <1>5 DEF IInv, CheckpointCovers

\* A row does not feel what happens behind the finalized receipts.
LEMMA FinalPrefix ==
  ASSUME LogInv, LogInv', finalized <= finalized', \A p \in 1..finalized : log'[p] = log[p],
         NEW i \in Known, NEW row, RowInv(i, row)
  PROVE  RowInv(i, row)'
<1>1. \A p \in row.seen : p \in 1..finalized /\ log'[p] = log[p] /\ p \in 1..finalized'
  BY DEF LogInv, RowInv
<1> QED BY <1>1 DEF RowInv, StateAfter

LEMMA ChainSteps ==
  ASSUME IInv, LogInv', finalized <= finalized', \A p \in 1..finalized : log'[p] = log[p],
         UNCHANGED <<rows, checkpoint, tx>>
  PROVE  IInv'
<1>1. finalized \in Nat /\ finalized' \in Nat /\ LogInv
  BY DEF IInv, LogInv
<1>2. \A i \in Known : RowInv(i, rows[i])'
  <2>1. ASSUME NEW i \in Known PROVE RowInv(i, rows[i])'
    <3> PICK row : row = rows[i]
      OBVIOUS
    <3>1. RowInv(i, row)'
      BY <1>1, FinalPrefix DEF IInv
    <3> QED BY <3>1
  <2> QED BY <2>1
<1>3. checkpoint' \in 0..finalized' /\ CheckpointCovers'
  BY <1>1 DEF IInv, CheckpointCovers
<1>4. TxInv'
  <2>1. ASSUME NEW i \in tx.locked PROVE CopyInv(i)'
    <3> PICK row : row = tx.rows[i]
      OBVIOUS
    <3>1. i \in Known /\ RowInv(i, row)
      BY DEF IInv, TxInv, CopyInv, Transactions
    <3>2. RowInv(i, row)'
      BY <1>1, <3>1, FinalPrefix
    <3> QED BY <3>2 DEF CopyInv, IInv, TxInv
  <2>2. tx.open => \A p \in 1..tx.cursor : p \in 1..finalized
    BY <1>1 DEF IInv, TxInv, Transactions
  <2>3. ASSUME tx.open, NEW i \in Known, NEW p \in 1..tx.cursor, log'[p].payment = i
        PROVE  p \in TxRow(i)'.seen
    <3>1. p \in TxRow(i).seen /\ TxRow(i)' = TxRow(i)
      BY <2>2, <2>3 DEF IInv, TxInv, TxRow
    <3> QED BY <3>1
  <2>4. tx.open => checkpoint <= tx.cursor /\ tx.cursor <= tx.through /\ tx.through <= finalized'
    BY <1>1 DEF IInv, TxInv, Transactions
  <2> QED BY <2>1, <2>3, <2>4 DEF IInv, TxInv
<1> QED BY <1>2, <1>3, <1>4 DEF IInv

\* The contract's next event is above all earlier ones of its payment.
LEMMA EmitStep ==
  ASSUME IInv, NEW i \in Payments, NEW event \in Events,
         NEW commitment \in {"own", "other", "none"}, Emit(i, event, commitment)
  PROVE  IInv'
<1> PICK n \in Nat : n = Len(log)
  BY DEF IInv, LogInv
<1> PICK receipt : receipt = [payment |-> i, event |-> event, commitment |-> commitment]
  OBVIOUS
<1>1. /\ n < MaxLog /\ log' = Append(log, receipt) /\ UNCHANGED <<finalized, rows, checkpoint, tx>>
      /\ log \in Seq(Receipt) /\ finalized \in 0..n
  BY DEF Emit, IInv, LogInv
<1>2. receipt \in Receipt /\ receipt.payment = i /\ receipt.event = event
  BY DEF Receipt
<1>3. /\ log' \in Seq(Receipt) /\ Len(log') = n + 1 /\ log'[n + 1] = receipt
      /\ \A p \in 1..n : log'[p] = log[p]
  BY <1>1, <1>2
<1>4. ASSUME NEW p \in 1..n, log[p].payment = i PROVE Rank[StateAfter(p)] < Rank[EventState[event]]
  <2>1. PICK state \in States : ChainState(i, state) /\ EventState[event] \in Lifecycle!Successors[state]
    BY DEF Emit
  <2>2. Rank[state] < Rank[EventState[event]]
    BY <2>1, LifecycleRises
  <2>3. PICK q \in 1..n : /\ log[q].payment = i /\ EventState[log[q].event] = state
                          /\ \A m \in q + 1..n : log[m].payment # i
    BY <1>4, <2>1 DEF ChainState
  <2>4. p <= q
    BY <1>4, <2>3
  <2>5. p = q \/ Rank[StateAfter(p)] < Rank[StateAfter(q)]
    BY <1>4, <2>3, <2>4 DEF IInv, LogInv
  <2>6. /\ Rank[StateAfter(p)] \in Nat /\ Rank[state] \in Nat /\ Rank[EventState[event]] \in Nat
        /\ StateAfter(q) = state
    BY <2>1, <2>3, ReceiptTyped, RankTyped, EventStates DEF IInv, StateAfter
  <2> QED BY <2>2, <2>5, <2>6
<1>5. LogInv'
  <2>1. ASSUME NEW p \in 1..(n + 1), NEW q \in 1..(n + 1), p < q, log'[p].payment = log'[q].payment
        PROVE  Rank[StateAfter(p)'] < Rank[StateAfter(q)']
    <3>1. p \in 1..n
      BY <2>1
    <3>2. CASE q = n + 1
      BY <1>2, <1>3, <1>4, <2>1, <3>1, <3>2 DEF StateAfter
    <3>3. CASE q \in 1..n
      BY <1>3, <2>1, <3>1, <3>3 DEF StateAfter, IInv, LogInv
    <3> QED BY <3>2, <3>3
  <2> QED BY <1>1, <1>3, <2>1, ProjectionAssumption DEF LogInv, StateAfter
<1>6. \A p \in 1..finalized : log'[p] = log[p]
  BY <1>1, <1>3
<1> QED BY <1>1, <1>5, <1>6, ChainSteps

LEMMA FinalizeStep == ASSUME IInv, Finalize PROVE IInv'
<1>1. /\ finalized' = finalized + 1 /\ finalized < Len(log) /\ log' = log
      /\ UNCHANGED <<rows, checkpoint, tx>>
  BY DEF Finalize
<1>2. LogInv' /\ finalized <= finalized'
  BY <1>1 DEF IInv, LogInv, StateAfter
<1> QED BY <1>1, <1>2, ChainSteps

LEMMA ReorgStep == ASSUME IInv, Reorg PROVE IInv'
<1>1. PICK n \in finalized..(Len(log) - 1) : log' = SubSeq(log, 1, n)
  BY DEF Reorg
<1>2. finalized' = finalized /\ UNCHANGED <<rows, checkpoint, tx>>
  BY DEF Reorg
<1>3. n \in Nat /\ n <= Len(log) /\ finalized <= n /\ finalized \in Nat /\ log \in Seq(Receipt)
  BY <1>1 DEF IInv, LogInv
<1>4. log' \in Seq(Receipt) /\ Len(log') = n /\ \A p \in 1..n : log'[p] = log[p]
  BY <1>1, <1>3
<1>5. LogInv'
  <2>1. \A p, q \in 1..n :
          p < q /\ log'[p].payment = log'[q].payment => Rank[StateAfter(p)'] < Rank[StateAfter(q)']
    BY <1>3, <1>4 DEF IInv, LogInv, StateAfter
  <2> QED BY <1>2, <1>3, <1>4, <2>1, ProjectionAssumption DEF IInv, LogInv, StateAfter
<1> QED BY <1>2, <1>3, <1>4, <1>5, ChainSteps

------------------------------------------------------------------------------
(* Steps on the committed rows.                                            *)

\* A row the indexer does not hold may move on, if it keeps what it has seen.
LEMMA RowChanges ==
  ASSUME IInv, NEW i \in Known, i \notin tx.locked, NEW after \in Row, RowInv(i, after),
         rows[i].seen \subseteq after.seen, rows' = [rows EXCEPT ![i] = after],
         UNCHANGED <<chain, checkpoint, tx>>
  PROVE  IInv'
<1>1. log' = log /\ finalized' = finalized /\ checkpoint' = checkpoint /\ tx' = tx
  BY DEF chain
<1>2. rows' \in [Known -> Row] /\ rows'[i] = after /\ \A j \in Known \ {i} : rows'[j] = rows[j]
  BY DEF IInv
<1>3. \A j \in Known : RowInv(j, rows[j])'
  <2>1. ASSUME NEW j \in Known PROVE RowInv(j, rows[j])'
    <3> PICK row : row = rows'[j]
      OBVIOUS
    <3>1. RowInv(j, row)
      BY <1>2 DEF IInv
    <3>2. RowInv(j, row)'
      BY <1>1, <3>1 DEF RowInv, StateAfter
    <3> QED BY <3>2
  <2> QED BY <2>1
<1>4. \A j \in Known : rows[j].seen \subseteq rows'[j].seen
  BY <1>2
<1>5. CheckpointCovers'
  BY <1>1, <1>4 DEF IInv, CheckpointCovers
<1>6. LogInv'
  BY <1>1 DEF IInv, LogInv, StateAfter
<1>7. TxInv'
  <2>1. ASSUME NEW j \in tx.locked PROVE CopyInv(j)'
    <3> PICK row : row = tx.rows[j]
      OBVIOUS
    <3>1. j \in Known /\ j # i /\ CopyInv(j)
      BY DEF IInv, TxInv, Transactions
    <3>2. RowInv(j, row)'
      BY <1>1, <3>1 DEF CopyInv, RowInv, StateAfter
    <3> QED BY <1>1, <1>2, <3>1, <3>2 DEF CopyInv
  <2>2. ASSUME tx.open, NEW j \in Known, NEW p \in 1..tx.cursor, log[p].payment = j
        PROVE  p \in TxRow(j)'.seen
    <3>1. p \in TxRow(j).seen
      BY <2>2 DEF IInv, TxInv
    <3> QED BY <1>1, <1>4, <3>1 DEF TxRow
  <2> QED BY <1>1, <2>1, <2>2 DEF IInv, TxInv
<1> QED BY <1>1, <1>2, <1>3, <1>5, <1>6, <1>7 DEF IInv

\* A confirmation ingests the very receipt the finalized log has.
LEMMA Confirmed ==
  ASSUME IInv, FetchedOK, NEW c \in Confirmers, Confirm(c)
  PROVE  \E p \in 1..finalized, i \in Known :
           /\ i = log[p].payment /\ i \notin tx.locked /\ ~Raises(rows[i], p, log[p])
           /\ rows' = [rows EXCEPT ![i] = Ingested(rows[i], p, log[p])]
<1> PICK f : f = fetched[c]
  OBVIOUS
<1>1. f \in [at: 1..MaxLog, receipt: OfKnown] /\ f.at <= finalized /\ log[f.at] = f.receipt
  BY DEF Confirm, FetchedOK
<1> PICK p : p = f.at
  OBVIOUS
<1>2. p \in 1..finalized /\ log[p] = f.receipt
  BY <1>1 DEF IInv, LogInv
<1> PICK i : i = log[p].payment
  OBVIOUS
<1>3. /\ i \notin tx.locked /\ ~Raises(rows[i], p, log[p])
      /\ rows' = [rows EXCEPT ![i] = Ingested(rows[i], p, log[p])]
  BY <1>2 DEF Confirm, Ingest, Unlocked
<1>4. i \in Known
  BY <1>1, <1>2 DEF OfKnown
<1> QED BY <1>2, <1>3, <1>4

LEMMA ConfirmStep == ASSUME IInv, FetchedOK, NEW c \in Confirmers, Confirm(c) PROVE IInv'
<1>0. PICK p \in 1..finalized, i \in Known :
        /\ i = log[p].payment /\ i \notin tx.locked /\ ~Raises(rows[i], p, log[p])
        /\ rows' = [rows EXCEPT ![i] = Ingested(rows[i], p, log[p])]
  BY Confirmed
<1> PICK row \in Row : row = rows[i]
  BY DEF IInv
<1> PICK after : after = Ingested(row, p, log[p])
  OBVIOUS
<1>1. /\ i \notin tx.locked /\ ~Raises(row, p, log[p])
      /\ rows' = [rows EXCEPT ![i] = after] /\ UNCHANGED <<chain, checkpoint, tx>>
  BY <1>0 DEF Confirm, Ingest
<1>2. LogInv /\ RowInv(i, row)
  BY DEF IInv
<1>3. after \in Row /\ RowInv(i, after) /\ row.seen \subseteq after.seen
  BY <1>0, <1>1, <1>2, IngestRow
<1> QED BY <1>1, <1>3, RowChanges

\* The provider's work changes neither the state nor what was seen.
LEMMA ProviderSteps ==
  ASSUME IInv, NEW i \in Known, StartJob(i) \/ SubmitResult(i)
  PROVE  IInv'
<1> PICK row \in Row : row = rows[i]
  BY DEF IInv
<1>1. i \notin tx.locked /\ UNCHANGED <<chain, checkpoint, tx>>
  BY DEF StartJob, SubmitResult, Unlocked
<1>2. PICK after : /\ rows' = [rows EXCEPT ![i] = after]
                   /\ \/ after = [row EXCEPT !.job = "processing"]
                      \/ after = [row EXCEPT !.stored = TRUE, !.job = "completed"]
  BY DEF StartJob, SubmitResult
<1>3. after \in Row
  BY <1>2 DEF Row
<1>4. /\ after.state = row.state /\ after.seen = row.seen /\ after.books = row.books
      /\ row.stored => after.stored
  BY <1>2 DEF Row
<1>5. RowInv(i, after)
  BY <1>4 DEF IInv, RowInv
<1> QED BY <1>1, <1>2, <1>3, <1>4, <1>5, RowChanges

------------------------------------------------------------------------------
(* The indexer's transaction.                                              *)

LEMMA NoTxTyped == NoTx \in Transactions /\ ~NoTx.open /\ NoTx.locked = {}
<1>1. NewRow \in Row
  BY DEF NewRow, Row, Books, States
<1> QED BY <1>1 DEF NoTx, Transactions

\* Only the transaction changes.
LEMMA TxChanges ==
  ASSUME IInv, UNCHANGED <<chain, rows, checkpoint>>, TxInv'
  PROVE  IInv'
<1>1. log' = log /\ finalized' = finalized /\ rows' = rows /\ checkpoint' = checkpoint
  BY DEF chain
<1>2. LogInv' /\ CheckpointCovers'
  BY <1>1 DEF IInv, LogInv, StateAfter, CheckpointCovers
<1>3. \A i \in Known : RowInv(i, rows[i])'
  BY <1>1 DEF IInv, RowInv, StateAfter
<1> QED BY <1>1, <1>2, <1>3 DEF IInv

LEMMA RollbackStep ==
  ASSUME IInv, tx' = NoTx, UNCHANGED <<chain, rows, checkpoint>>
  PROVE  IInv'
<1>1. TxInv'
  BY NoTxTyped DEF TxInv
<1> QED BY <1>1, TxChanges

LEMMA BeginStep == ASSUME IInv, BeginReconcile PROVE IInv'
<1>1. PICK n \in checkpoint..finalized :
        tx' = [NoTx EXCEPT !.open = TRUE, !.cursor = checkpoint, !.through = n]
  BY DEF BeginReconcile
<1>2. /\ log' = log /\ finalized' = finalized /\ rows' = rows /\ checkpoint' = checkpoint
      /\ UNCHANGED <<chain, rows, checkpoint>>
  BY DEF BeginReconcile, chain
<1>3. checkpoint \in Nat /\ n \in Nat /\ checkpoint <= n /\ n <= finalized
  BY DEF IInv, LogInv
<1>4. /\ tx' \in Transactions /\ tx'.open /\ tx'.cursor = checkpoint /\ tx'.through = n
      /\ tx'.locked = {}
  BY <1>1, <1>3, NoTxTyped DEF Transactions
<1>5. ASSUME NEW i \in Known, NEW p \in 1..checkpoint, log[p].payment = i PROVE p \in TxRow(i)'.seen
  <2>1. p \in rows[i].seen
    BY <1>5 DEF IInv, CheckpointCovers
  <2> QED BY <1>2, <1>4, <2>1 DEF TxRow
<1>6. TxInv'
  BY <1>2, <1>3, <1>4, <1>5 DEF TxInv
<1> QED BY <1>2, <1>6, TxChanges

LEMMA PassOverStep == ASSUME IInv, IndexUnattributed PROVE IInv'
<1>1. /\ tx' = [tx EXCEPT !.cursor = NextReceipt] /\ tx.open /\ tx.cursor < tx.through
      /\ log[NextReceipt].payment \notin Known /\ UNCHANGED <<chain, rows, checkpoint>>
      /\ log' = log /\ finalized' = finalized /\ rows' = rows /\ checkpoint' = checkpoint
  BY DEF IndexUnattributed, Indexing, chain
<1>2. PICK c \in Nat : c = tx.cursor /\ NextReceipt = c + 1
  BY DEF IInv, TxInv, Transactions, NextReceipt
<1>3. /\ tx' \in Transactions /\ tx'.open /\ tx'.cursor = c + 1 /\ tx'.through = tx.through
      /\ tx'.locked = tx.locked /\ tx'.rows = tx.rows
  BY <1>1, <1>2 DEF IInv, TxInv, Transactions
<1>4. checkpoint <= c + 1 /\ c + 1 <= tx.through /\ tx.through <= finalized
  BY <1>1, <1>2 DEF IInv, TxInv, Transactions, LogInv
<1>5. ASSUME NEW i \in tx.locked PROVE CopyInv(i)'
  <2> PICK row : row = tx.rows[i]
    OBVIOUS
  <2>1. RowInv(i, row)'
    BY <1>1 DEF IInv, TxInv, CopyInv, RowInv, StateAfter
  <2> QED BY <1>1, <1>3, <2>1 DEF IInv, TxInv, CopyInv
<1>6. ASSUME NEW i \in Known, NEW p \in 1..(c + 1), log[p].payment = i PROVE p \in TxRow(i)'.seen
  <2>1. p \in 1..c
    BY <1>1, <1>2, <1>6
  <2>2. p \in TxRow(i).seen
    BY <1>1, <1>2, <1>6, <2>1 DEF IInv, TxInv
  <2> QED BY <1>1, <1>3, <2>2 DEF TxRow
<1>7. TxInv'
  BY <1>1, <1>3, <1>4, <1>5, <1>6 DEF TxInv
<1> QED BY <1>1, <1>7, TxChanges

\* What the transaction reads of a row obeys the row's invariant.
LEMMA TxRowInv ==
  ASSUME IInv, NEW i \in Known
  PROVE  /\ TxRow(i) \in Row /\ RowInv(i, TxRow(i)) /\ rows[i].seen \subseteq TxRow(i).seen
         /\ TxRow(i).stored = rows[i].stored /\ TxRow(i).job = rows[i].job
BY DEF IInv, TxInv, Transactions, CopyInv, TxRow

LEMMA IndexStep == ASSUME IInv, IndexReceipt PROVE IInv'
<1> PICK c \in Nat : c = tx.cursor /\ NextReceipt = c + 1
  BY DEF IInv, TxInv, Transactions, NextReceipt
<1> PICK i \in Known : i = log[c + 1].payment
  BY DEF IndexReceipt
<1> PICK row \in Row : row = TxRow(i)
  BY TxRowInv
<1> PICK after : after = Ingested(row, c + 1, log[c + 1])
  OBVIOUS
<1>1. /\ tx' = [tx EXCEPT !.cursor = c + 1, !.locked = @ \cup {i}, !.rows[i] = after]
      /\ tx.open /\ tx.cursor < tx.through /\ ~Raises(row, c + 1, log[c + 1])
  BY DEF IndexReceipt, Indexing
<1>2. /\ UNCHANGED <<chain, rows, checkpoint>>
      /\ log' = log /\ finalized' = finalized /\ rows' = rows /\ checkpoint' = checkpoint
  BY DEF IndexReceipt, chain
<1>3. checkpoint <= c + 1 /\ c + 1 <= tx.through /\ tx.through <= finalized /\ c + 1 \in 1..finalized
  BY <1>1 DEF IInv, TxInv, Transactions, LogInv
<1>4. /\ after \in Row /\ RowInv(i, after) /\ c + 1 \in after.seen /\ row.seen \subseteq after.seen
      /\ after.stored = row.stored /\ after.job = row.job
  BY <1>1, <1>3, IngestRow, TxRowInv DEF IInv
<1>5. PICK copies \in [Known -> Row] : copies = [tx.rows EXCEPT ![i] = after]
  BY <1>4 DEF IInv, TxInv, Transactions
<1>6. /\ tx' \in Transactions /\ tx'.open /\ tx'.cursor = c + 1 /\ tx'.through = tx.through
      /\ tx'.locked = tx.locked \cup {i} /\ tx'.rows = copies
  <2>1. tx' = [tx EXCEPT !.cursor = c + 1, !.locked = tx.locked \cup {i}, !.rows = copies]
    BY <1>1, <1>5 DEF IInv, TxInv, Transactions
  <2> PICK t \in Transactions : t = tx
    BY DEF IInv, TxInv
  <2> PICK held \in SUBSET Known : held = t.locked \cup {i}
    BY DEF Transactions
  <2>2. tx' = [t EXCEPT !.cursor = c + 1, !.locked = held, !.rows = copies]
    BY <2>1
  <2>3. tx' \in Transactions
    <3>1. tx' = [open |-> t.open, cursor |-> c + 1, through |-> t.through, locked |-> held,
                 rows |-> copies]
      BY <2>2 DEF Transactions
    <3>2. t.open \in BOOLEAN /\ c + 1 \in Nat /\ t.through \in Nat
      BY DEF Transactions
    <3> QED BY <3>1, <3>2 DEF Transactions
  <2>4. /\ tx'.open = t.open /\ tx'.cursor = c + 1 /\ tx'.through = t.through
        /\ tx'.locked = held /\ tx'.rows = copies
    BY <2>2 DEF Transactions
  <2> QED BY <1>1, <2>3, <2>4
<1>7. copies[i] = after /\ \A j \in Known \ {i} : copies[j] = tx.rows[j]
  BY <1>5 DEF IInv, TxInv, Transactions
<1>8. ASSUME NEW j \in tx.locked \cup {i} PROVE CopyInv(j)'
  <2> PICK copy : copy = copies[j]
    OBVIOUS
  <2>0. j \in Known
    BY DEF IInv, TxInv, Transactions
  <2>1. RowInv(j, copy) /\ rows[j].seen \subseteq copy.seen
        /\ rows[j].stored = copy.stored /\ rows[j].job = copy.job
    <3>1. CASE j = i
      BY <1>4, <1>7, <3>1, TxRowInv
    <3>2. CASE j # i
      BY <1>7, <2>0, <3>2 DEF IInv, TxInv, CopyInv
    <3> QED BY <3>1, <3>2
  <2>2. RowInv(j, copy)'
    BY <1>2, <2>1 DEF RowInv, StateAfter
  <2> QED BY <1>2, <1>6, <2>1, <2>2 DEF CopyInv
<1>9. ASSUME NEW j \in Known, NEW p \in 1..(c + 1), log[p].payment = j PROVE p \in TxRow(j)'.seen
  <2>1. CASE p = c + 1
    BY <1>4, <1>6, <1>7, <1>9, <2>1 DEF TxRow
  <2>2. CASE p \in 1..c
    <3>1. p \in TxRow(j).seen
      BY <1>1, <1>9, <2>2 DEF IInv, TxInv
    <3>2. CASE j = i
      BY <1>4, <1>6, <1>7, <3>1, <3>2 DEF TxRow
    <3>3. CASE j # i
      BY <1>2, <1>6, <1>7, <3>1, <3>3 DEF TxRow
    <3> QED BY <3>2, <3>3
  <2> QED BY <2>1, <2>2
<1>10. TxInv'
  BY <1>2, <1>3, <1>6, <1>8, <1>9 DEF TxInv
<1> QED BY <1>2, <1>10, TxChanges

\* The rows become what the transaction saw, and that covers the batch.
LEMMA CommitStep == ASSUME IInv, Commit PROVE IInv'
<1>1. /\ tx.open /\ tx.cursor = tx.through /\ rows' = [i \in Known |-> TxRow(i)]
      /\ checkpoint' = tx.through /\ tx' = NoTx /\ log' = log /\ finalized' = finalized
  BY DEF Commit, chain
<1>2. rows' \in [Known -> Row] /\ \A i \in Known : rows'[i] = TxRow(i)
  BY <1>1, TxRowInv
<1>3. \A i \in Known : RowInv(i, rows[i])'
  <2>1. ASSUME NEW i \in Known PROVE RowInv(i, rows[i])'
    <3> PICK row : row = rows'[i]
      OBVIOUS
    <3>1. RowInv(i, row)
      BY <1>2, TxRowInv
    <3>2. RowInv(i, row)'
      BY <1>1, <3>1 DEF RowInv, StateAfter
    <3> QED BY <3>2
  <2> QED BY <2>1
<1>4. checkpoint' \in 0..finalized'
  BY <1>1 DEF IInv, TxInv, Transactions, LogInv
<1>5. ASSUME NEW p \in 1..checkpoint', NEW i \in Known, log[p].payment = i PROVE p \in rows'[i].seen
  BY <1>1, <1>2, <1>5 DEF IInv, TxInv
<1>6. CheckpointCovers'
  BY <1>1, <1>5 DEF CheckpointCovers
<1>7. LogInv'
  BY <1>1 DEF IInv, LogInv, StateAfter
<1>8. TxInv'
  BY <1>1, NoTxTyped DEF TxInv
<1> QED BY <1>2, <1>3, <1>4, <1>6, <1>7, <1>8 DEF IInv

------------------------------------------------------------------------------
(* The specification.                                                      *)

LEMMA QuietSteps == ASSUME IInv, UNCHANGED <<chain, rows, checkpoint, tx>> PROVE IInv'
<1>1. /\ UNCHANGED <<chain, rows, checkpoint>> /\ log' = log /\ finalized' = finalized
      /\ rows' = rows /\ checkpoint' = checkpoint /\ tx' = tx
  BY DEF chain
<1>2. \A i \in tx.locked : CopyInv(i)'
  BY <1>1 DEF IInv, TxInv, CopyInv, RowInv, StateAfter
<1>3. TxInv'
  BY <1>1, <1>2 DEF IInv, TxInv, TxRow
<1> QED BY <1>1, <1>3, TxChanges

\* Only a step of the confirmation itself touches what it has fetched.
LEMMA FetchedStep == ASSUME IInv, FetchedOK, [Next]_vars PROVE FetchedOK'
<1>1. ASSUME NEW c \in Confirmers, NEW p \in 1..MaxLog, FetchReceipt(c, p) PROVE FetchedOK'
  <2>1. p \in 1..Len(log) /\ log[p].payment \in Known
    BY <1>1 DEF FetchReceipt, IInv, LogInv
  <2>2. log[p] \in OfKnown
    BY <2>1 DEF IInv, LogInv, OfKnown
  <2>3. [at |-> p, receipt |-> log[p]] \in [at: 1..MaxLog, receipt: OfKnown]
    BY <2>2
  <2> QED BY <1>1, <2>3 DEF FetchReceipt, FetchedOK
<1>2. ASSUME NEW c \in Confirmers, Confirm(c) \/ GiveUp(c) PROVE FetchedOK'
  <2>1. fetched' = [fetched EXCEPT ![c] = NoReceipt]
    BY <1>2 DEF Confirm, Ingest, GiveUp
  <2> QED BY <2>1 DEF FetchedOK
<1>3. CASE fetched' = fetched
  BY <1>3 DEF FetchedOK
<1>4. ASSUME NEW i \in Known, StartJob(i) \/ SubmitResult(i) PROVE fetched' = fetched
  BY <1>4 DEF StartJob, SubmitResult
<1>5. ASSUME NEW i \in Payments, NEW event \in Events, NEW commitment \in {"own", "other", "none"},
             Emit(i, event, commitment)
      PROVE  fetched' = fetched
  BY <1>5 DEF Emit
<1>6. ASSUME \/ Finalize \/ Reorg \/ BeginReconcile \/ IndexUnattributed \/ IndexReceipt
             \/ IndexRaises \/ Crash \/ Commit \/ UNCHANGED vars
      PROVE  fetched' = fetched
  BY <1>6 DEF Finalize, Reorg, BeginReconcile, IndexUnattributed, IndexReceipt, IndexRaises, Crash,
              Commit, vars
<1> QED BY <1>1, <1>2, <1>3, <1>4, <1>5, <1>6 DEF Next

LEMMA NextIInv == ASSUME IInv, FetchedOK, [Next]_vars PROVE IInv'
<1>1. ASSUME NEW i \in Payments, NEW event \in Events, NEW commitment \in {"own", "other", "none"},
             Emit(i, event, commitment)
      PROVE  IInv'
  BY <1>1, EmitStep
<1>2. CASE Finalize
  BY <1>2, FinalizeStep
<1>3. CASE Reorg
  BY <1>3, ReorgStep
<1>4. ASSUME NEW c \in Confirmers, Confirm(c) PROVE IInv'
  BY <1>4, ConfirmStep
<1>12. ASSUME NEW c \in Confirmers, GiveUp(c) \/ \E p \in 1..MaxLog : FetchReceipt(c, p) PROVE IInv'
  BY <1>12, QuietSteps DEF GiveUp, FetchReceipt
<1>5. ASSUME NEW i \in Known, StartJob(i) \/ SubmitResult(i) PROVE IInv'
  BY <1>5, ProviderSteps
<1>6. CASE BeginReconcile
  BY <1>6, BeginStep
<1>7. CASE IndexUnattributed
  BY <1>7, PassOverStep
<1>8. CASE IndexReceipt
  BY <1>8, IndexStep
<1>9. CASE IndexRaises \/ Crash
  BY <1>9, RollbackStep DEF IndexRaises, Crash
<1>10. CASE Commit
  BY <1>10, CommitStep
<1>11. CASE UNCHANGED vars
  BY <1>11, QuietSteps DEF vars
<1> QED BY <1>1, <1>2, <1>3, <1>4, <1>5, <1>6, <1>7, <1>8, <1>9, <1>10, <1>11, <1>12 DEF Next

\* The inductive invariant holds of every reachable state of ingestion.
THEOREM Invariance == Spec => [](IInv /\ FetchedOK)
<1>1. Init => IInv /\ FetchedOK
  BY InitIInv DEF Init, FetchedOK
<1>2. IInv /\ FetchedOK /\ [Next]_vars => IInv' /\ FetchedOK'
  BY NextIInv, FetchedStep
<1> QED BY <1>1, <1>2, PTL DEF Spec

\* Types, and the order checkpoint <= finalized <= length of the log.
THEOREM TypeCorrect == Spec => []TypeOK
<1>1. IInv /\ FetchedOK => TypeOK
  BY DEF IInv, LogInv, TxInv, Transactions, FetchedOK, OfKnown, TypeOK
<1> QED BY <1>1, Invariance, PTL

\* Rows rest on finalized receipts of their payment, and a row's state is that
\* of the latest receipt stored for it, in whatever order ingest stored them.
THEOREM RestsOnlyOnFinality == Spec => []RestsOnFinality
<1>1. ASSUME IInv PROVE RestsOnFinality
  <2>1. ASSUME NEW i \in Known PROVE
          /\ rows[i].seen \subseteq {p \in 1..finalized : log[p].payment = i}
          /\ rows[i].seen = {} => rows[i].state = "UNFUNDED"
    BY <1>1 DEF IInv, RowInv
  <2>2. ASSUME NEW i \in Known, NEW p \in rows[i].seen, \A q \in rows[i].seen : q <= p
        PROVE  rows[i].state = EventState[log[p].event]
    <3>1. rows[i] \in Row /\ RowInv(i, rows[i]) /\ LogInv
      BY <1>1 DEF IInv
    <3> QED BY <2>2, <3>1, LatestCounts DEF StateAfter
  <2> QED BY <2>1, <2>2 DEF RestsOnFinality
<1> QED BY <1>1, Invariance, PTL

\* The journals of every payment add up to what its state says.
THEOREM BooksAlwaysMatch == Spec => []BooksMatchState
<1>1. IInv => BooksMatchState
  BY DEF IInv, RowInv, BooksMatchState
<1> QED BY <1>1, Invariance, PTL

\* No row passes ACCEPTED to submission, dispute or release without the stored
\* result whose commitment is on chain.
THEOREM SettlementIsBacked == Spec => []SettlementBackedByResult
<1>1. IInv => SettlementBackedByResult
  BY DEF IInv, RowInv, SettlementBackedByResult
<1> QED BY <1>1, Invariance, PTL

\* Every receipt of a known payment behind the checkpoint is in its row: no
\* rollback, replay or confirmation makes the indexer skip one.
THEOREM NothingSkipped == Spec => []CheckpointCovers
<1>1. IInv => CheckpointCovers
  BY DEF IInv
<1> QED BY <1>1, Invariance, PTL

\* Events, results and job progress that were committed are never lost, by the
\* indexer's commit least of all, which writes rows it read steps before.
THEOREM NothingIsLost == Spec => NothingLost
<1> DEFINE Kept(i) == /\ rows[i].seen \subseteq rows'[i].seen
                      /\ rows[i].stored => rows'[i].stored
                      /\ rows'[i].job \in Later(rows[i].job)
<1>1. ASSUME IInv, FetchedOK, [Next]_vars, NEW i \in Known PROVE Kept(i)
  <2> PICK row \in Row : row = rows[i]
    BY <1>1 DEF IInv
  <2>0. row.job \in Later(row.job)
    BY DEF Row, Later
  <2>1. CASE rows' = rows
    BY <2>0, <2>1
  <2>2. ASSUME NEW c \in Confirmers, Confirm(c) PROVE Kept(i)
    <3>1. PICK p \in 1..finalized, j \in Known :
            /\ j = log[p].payment /\ ~Raises(rows[j], p, log[p])
            /\ rows' = [rows EXCEPT ![j] = Ingested(rows[j], p, log[p])]
      BY <1>1, <2>2, Confirmed
    <3>2. CASE i = j
      <4>1. PICK after : after = Ingested(row, p, log[p]) /\ rows'[i] = after
        BY <1>1, <3>1, <3>2 DEF IInv
      <4>2. /\ LogInv /\ RowInv(i, row) /\ p \in 1..finalized /\ log[p].payment = i
            /\ ~Raises(row, p, log[p])
        BY <1>1, <3>1, <3>2 DEF IInv
      <4>3. row.seen \subseteq after.seen /\ after.stored = row.stored /\ after.job = row.job
        BY <4>1, <4>2, IngestRow
      <4> QED BY <2>0, <4>1, <4>3
    <3>3. CASE i # j
      <4>1. rows'[i] = rows[i]
        BY <1>1, <3>1, <3>3 DEF IInv
      <4> QED BY <2>0, <4>1
    <3> QED BY <3>2, <3>3
  <2>3. ASSUME NEW j \in Known, StartJob(j) PROVE Kept(i)
    <3>1. CASE i = j
      <4>1. rows'[i] = [row EXCEPT !.job = "processing"] /\ row.job = "created"
        BY <1>1, <2>3, <3>1 DEF StartJob, IInv
      <4> QED BY <4>1 DEF Row, Later
    <3>2. CASE i # j
      <4>1. rows'[i] = rows[i]
        BY <1>1, <2>3, <3>2 DEF StartJob, IInv
      <4> QED BY <2>0, <4>1
    <3> QED BY <3>1, <3>2
  <2>4. ASSUME NEW j \in Known, SubmitResult(j) PROVE Kept(i)
    <3>1. CASE i = j
      <4>1. rows'[i] = [row EXCEPT !.stored = TRUE, !.job = "completed"] /\ row.job = "processing"
        BY <1>1, <2>4, <3>1 DEF SubmitResult, IInv
      <4> QED BY <4>1 DEF Row, Later
    <3>2. CASE i # j
      <4>1. rows'[i] = rows[i]
        BY <1>1, <2>4, <3>2 DEF SubmitResult, IInv
      <4> QED BY <2>0, <4>1
    <3> QED BY <3>1, <3>2
  <2>5. CASE Commit
    <3>1. rows'[i] = TxRow(i)
      BY <2>5 DEF Commit
    <3> QED BY <1>1, <2>0, <3>1, TxRowInv
  <2>6. CASE \/ Finalize \/ Reorg \/ BeginReconcile \/ IndexUnattributed \/ IndexReceipt
             \/ IndexRaises \/ Crash \/ UNCHANGED vars
             \/ \E k \in Payments, event \in Events, commitment \in {"own", "other", "none"} :
                  Emit(k, event, commitment)
             \/ \E c \in Confirmers : GiveUp(c) \/ \E p \in 1..MaxLog : FetchReceipt(c, p)
    <3>1. rows' = rows
      BY <2>6 DEF Finalize, Reorg, BeginReconcile, IndexUnattributed, IndexReceipt, IndexRaises,
                  Crash, vars, Emit, GiveUp, FetchReceipt
    <3> QED BY <2>1, <3>1
  <2> QED BY <1>1, <2>2, <2>3, <2>4, <2>5, <2>6 DEF Next
<1>2. IInv /\ FetchedOK /\ [Next]_vars => [\A i \in Known : Kept(i)]_vars
  BY <1>1
<1> QED BY <1>2, Invariance, PTL DEF Spec, NothingLost

------------------------------------------------------------------------------
(* Identity: the rows of owners, agents, credentials and grants, and what  *)
(* the calls that read them in one step and write them in another may rely *)
(* on.                                                                     *)

\* The owner's oldest agent.
IsFirst(o, a) == a \in AgentsOf(o) /\ \A b \in AgentsOf(o) : a <= b

Stored ==
  /\ IdentityTypeOK
  /\ agents \in Seq(Agent) /\ credentials \in Seq(Credential)

\* Who has an agent has registered the address, and nobody else has.
OwnersInv == \A o \in Owners : user[Email[o]] = o <=> AgentsOf(o) # {}

CredentialInv(c) ==
  /\ AgentOf(c) \in DOMAIN agents
  /\ credentials[c].from # None =>
       credentials[c].from \in DOMAIN credentials /\ credentials[credentials[c].from].revoked

GrantInv(o) ==
  grant[o] # None =>
    /\ user[Email[o]] = o
    /\ IsFirst(o, grant[o].agent)
    /\ grant[o].credential \in DOMAIN credentials
    /\ AgentOf(grant[o].credential) = grant[o].agent

\* What an open call has read and may rely on: the credential it acts with, a
\* credential without a successor, the owner's account, the oldest agent and a
\* credential of that agent.
ActsWith(x) ==
  call[x].step \in {"token", "authenticated", "rotate"} => call[x].by \in DOMAIN credentials

Rotates(x) ==
  call[x].step = "rotate" =>
    /\ call[x].credential \in DOMAIN credentials
    /\ AgentOf(call[x].credential) = AgentOf(call[x].by)
    /\ \A d \in DOMAIN credentials : credentials[d].from # call[x].credential

Onboards(x) ==
  call[x].step \in {"bootstrap", "connect", "connecting"} =>
    /\ call[x].owner \in Owners /\ call[x].key \in Keys
    /\ call[x].user # None => call[x].user = call[x].owner /\ user[Email[call[x].owner]] = call[x].owner

Connects(x) ==
  call[x].step \in {"connect", "connecting"} =>
    IF call[x].agent = None THEN call[x].user = None ELSE IsFirst(call[x].owner, call[x].agent)

Chooses(x) ==
  call[x].step = "connecting" /\ call[x].credential # None =>
    /\ call[x].agent # None
    /\ call[x].credential \in DOMAIN credentials
    /\ AgentOf(call[x].credential) = call[x].agent

CallInv(x) == ActsWith(x) /\ Rotates(x) /\ Onboards(x) /\ Connects(x) /\ Chooses(x)

\* One rotation of an agent's credentials at a time.
OneRotation ==
  \A x, y \in Calls :
    call[x].step = "rotate" /\ call[y].step = "rotate" /\ AgentOf(call[x].by) = AgentOf(call[y].by) => x = y

IdentityIInv ==
  /\ Stored /\ OwnersInv /\ OneRotation /\ RotatedOnce
  /\ \A c \in DOMAIN credentials : CredentialInv(c)
  /\ \A o \in Owners : GrantInv(o)
  /\ \A t \in tokens : t.credential \in DOMAIN credentials
  /\ \A x \in Calls : CallInv(x)

------------------------------------------------------------------------------
(* Agents and credentials in the order of their creation.                  *)

LEMMA IdentityConstants ==
  /\ \A o \in Owners : o # None /\ Email[o] \in Emails
  /\ \A k \in Keys : k # None
  /\ \A n \in Nat : n # None
  /\ Agents \subseteq Nat /\ Credentials \subseteq Nat
  /\ MaxAgents \in Nat /\ MaxCredentials \in Nat
BY IdentityAssumption DEF Agents, Credentials

LEMMA Appended ==
  ASSUME NEW S, NEW s \in Seq(S), NEW e \in S
  PROVE  /\ Append(s, e) \in Seq(S) /\ Len(Append(s, e)) = Len(s) + 1 /\ Len(s) \in Nat
         /\ DOMAIN s = 1..Len(s) /\ DOMAIN Append(s, e) = 1..(Len(s) + 1)
         /\ \A n \in DOMAIN s : Append(s, e)[n] = s[n] /\ n \in Nat /\ n <= Len(s)
         /\ Append(s, e)[Len(s) + 1] = e
         /\ Len(s) + 1 \notin DOMAIN s
OBVIOUS

\* Places in an order: some of them have a first and a last.
LEMMA FirstAndLast ==
  ASSUME NEW n \in Nat, NEW S \in SUBSET (1..n), S # {}
  PROVE  /\ \E a \in S : \A b \in S : a <= b
         /\ \E a \in S : \A b \in S : b <= a
<1>1. IsFiniteSet(S)
  <2>1. IsFiniteSet(1..n)
    BY FS_Interval
  <2> QED BY <2>1, FS_Subset
<1>2. PICK a \in S : \A b \in S : [x \in S |-> -x][b] <= [x \in S |-> -x][a]
  <2>1. \A x \in S : [y \in S |-> -y][x] \in Int
    OBVIOUS
  <2> QED BY <1>1, <2>1, Largest
<1>3. PICK z \in S : \A b \in S : [x \in S |-> x][b] <= [x \in S |-> x][z]
  <2>1. \A x \in S : [y \in S |-> y][x] \in Int
    OBVIOUS
  <2> QED BY <1>1, <2>1, Largest
<1>4. \A b \in S : a <= b
  BY <1>2
<1>5. \A b \in S : b <= z
  BY <1>3
<1> QED BY <1>4, <1>5

\* The oldest agent is the first that listAgents returns.
LEMMA FirstIsFirst ==
  ASSUME Stored, NEW o
  PROVE  /\ AgentsOf(o) # {} => IsFirst(o, FirstAgent(o))
         /\ \A a : IsFirst(o, a) => AgentsOf(o) # {} /\ a = FirstAgent(o)
<1>1. AgentsOf(o) \in SUBSET (1..Len(agents)) /\ Len(agents) \in Nat
  BY DEF Stored, AgentsOf
<1>2. AgentsOf(o) # {} => \E a \in AgentsOf(o) : \A b \in AgentsOf(o) : a <= b
  BY <1>1, FirstAndLast
<1>3. AgentsOf(o) # {} => IsFirst(o, FirstAgent(o))
  BY <1>2 DEF FirstAgent, IsFirst
<1>4. ASSUME NEW a, IsFirst(o, a) PROVE AgentsOf(o) # {} /\ a = FirstAgent(o)
  <2>1. a \in AgentsOf(o) /\ IsFirst(o, FirstAgent(o))
    BY <1>3, <1>4 DEF IsFirst
  <2>2. a <= FirstAgent(o) /\ FirstAgent(o) <= a
    BY <1>4, <2>1 DEF IsFirst
  <2>3. a \in Int /\ FirstAgent(o) \in Int
    BY <1>1, <2>1 DEF IsFirst
  <2> QED BY <2>1, <2>2, <2>3
<1> QED BY <1>3, <1>4

LEMMA NewestIsUsable ==
  ASSUME Stored, NEW a, Usable(a) # {}
  PROVE  Newest(Usable(a)) \in Usable(a)
<1>1. Usable(a) \in SUBSET (1..Len(credentials)) /\ Len(credentials) \in Nat
  BY DEF Stored, Usable
<1>2. \E c \in Usable(a) : \A d \in Usable(a) : d <= c
  BY <1>1, FirstAndLast
<1> QED BY <1>2 DEF Newest

------------------------------------------------------------------------------
(* What no step takes away.                                                *)

AccountsStay == \A e \in Emails : user[e] # None => user'[e] = user[e]

AgentsStay ==
  /\ DOMAIN agents \subseteq DOMAIN agents'
  /\ \A a \in DOMAIN agents : agents'[a] = agents[a]
  /\ \A o \in Owners, a \in DOMAIN agents : IsFirst(o, a) => IsFirst(o, a)'

CredentialsStay ==
  /\ DOMAIN credentials \subseteq DOMAIN credentials'
  /\ \A c \in DOMAIN credentials :
       /\ credentials'[c].agent = credentials[c].agent
       /\ credentials'[c].from = credentials[c].from
       /\ credentials[c].revoked => credentials'[c].revoked

Onward == AccountsStay /\ AgentsStay /\ CredentialsStay

LEMMA AgentsSame == ASSUME UNCHANGED agents PROVE AgentsStay /\ \A o : AgentsOf(o)' = AgentsOf(o)
BY DEF AgentsStay, IsFirst, AgentsOf

LEMMA CredentialsSame == ASSUME UNCHANGED credentials PROVE CredentialsStay
BY DEF CredentialsStay

\* Persisting an identity whose owner has the account, or gets it.
LEMMA IdentityPersisted ==
  ASSUME IdentityIInv, NEW o \in Owners, NEW h \in Handles \cup Owners, PersistIdentity(o, h),
         \/ UNCHANGED user /\ user[Email[o]] = o
         \/ user[Email[o]] = None /\ user' = [user EXCEPT ![Email[o]] = o]
  PROVE  /\ AccountsStay /\ AgentsStay /\ OwnersInv'
         /\ user' \in UserRows /\ AgentRows(agents)' /\ agents' \in Seq(Agent)
         /\ Len(agents') = Len(agents) + 1 /\ Len(agents') \in DOMAIN agents' /\ Len(agents') \in Agents
         /\ agents'[Len(agents')].owner = o
         /\ user'[Email[o]] = o
         /\ AgentsOf(o) = {} => IsFirst(o, Len(agents))'
<1> DEFINE e == [owner |-> o, handle |-> h]
<1>1. agents \in Seq(Agent) /\ e \in Agent /\ agents' = Append(agents, e) /\ Len(agents) < MaxAgents
  BY DEF IdentityIInv, Stored, Agent, PersistIdentity
<1>2. /\ agents' \in Seq(Agent) /\ Len(agents') = Len(agents) + 1 /\ Len(agents) \in Nat
      /\ DOMAIN agents = 1..Len(agents) /\ DOMAIN agents' = 1..(Len(agents) + 1)
      /\ \A a \in DOMAIN agents : agents'[a] = agents[a] /\ a \in Nat /\ a <= Len(agents)
      /\ agents'[Len(agents) + 1] = e /\ Len(agents) + 1 \notin DOMAIN agents
  <2> HIDE DEF e
  <2> QED BY <1>1, Appended
<1>3. /\ AgentsOf(o)' = AgentsOf(o) \cup {Len(agents) + 1}
      /\ \A p \in Owners \ {o} : AgentsOf(p)' = AgentsOf(p)
      /\ \A p : AgentsOf(p) \subseteq DOMAIN agents
  <2>1. e.owner = o
    OBVIOUS
  <2>2. DOMAIN agents' = DOMAIN agents \cup {Len(agents) + 1}
    BY <1>2
  <2> HIDE DEF e
  <2> QED BY <1>2, <2>1, <2>2 DEF AgentsOf
<1>4. AgentsStay
  <2>1. ASSUME NEW p \in Owners, NEW a \in DOMAIN agents, IsFirst(p, a) PROVE IsFirst(p, a)'
    <3>1. CASE p = o
      BY <1>2, <1>3, <2>1, <3>1 DEF IsFirst
    <3>2. CASE p # o
      BY <1>3, <2>1, <3>2 DEF IsFirst
    <3> QED BY <3>1, <3>2
  <2> QED BY <1>2, <2>1 DEF AgentsStay
<1>5. user \in [Emails -> Owners \cup {None}] /\ Email[o] \in Emails /\ o # None
  BY IdentityConstants DEF IdentityIInv, Stored, IdentityTypeOK, UserRows
<1>6. AccountsStay /\ user' \in UserRows /\ user'[Email[o]] = o
  BY <1>5 DEF AccountsStay, UserRows
<1>7. OwnersInv'
  <2>1. ASSUME NEW p \in Owners PROVE (user'[Email[p]] = p <=> AgentsOf(p)' # {})
    <3>1. user[Email[p]] = p <=> AgentsOf(p) # {}
      BY DEF IdentityIInv, OwnersInv
    <3>2. CASE p = o
      BY <1>3, <1>6, <3>2
    <3>3. CASE p # o
      <4>1. user'[Email[p]] = p <=> user[Email[p]] = p
        BY <1>5, <3>3, IdentityConstants
      <4> QED BY <1>3, <3>1, <3>3, <4>1
    <3> QED BY <3>2, <3>3
  <2> QED BY <2>1 DEF OwnersInv
<1>8. AgentRows(agents)'
  <2>1. \A a \in DOMAIN agents' : agents'[a] \in Agent
    BY <1>2
  <2> QED BY <1>1, <1>2, <2>1, IdentityConstants DEF AgentRows
<1>9. AgentsOf(o) = {} => IsFirst(o, Len(agents))'
  <2>1. ASSUME AgentsOf(o) = {} PROVE AgentsOf(o)' = {Len(agents')} /\ Len(agents') \in Nat
    BY <1>2, <1>3, <2>1
  <2> QED BY <2>1 DEF IsFirst
<1>10. Len(agents') \in Agents
  BY <1>1, <1>2, IdentityConstants DEF Agents
<1>11. agents'[Len(agents')].owner = o
  BY <1>2
<1> QED BY <1>2, <1>4, <1>6, <1>7, <1>8, <1>9, <1>10, <1>11

LEMMA CredentialAdded ==
  ASSUME IdentityIInv, NEW r \in Credential, CanIssue(1), credentials' = Append(credentials, r)
  PROVE  /\ CredentialsStay /\ credentials' \in Seq(Credential) /\ CredentialRows(credentials)'
         /\ Len(credentials) + 1 = Len(credentials') /\ Len(credentials') \in Credentials
         /\ DOMAIN credentials' = DOMAIN credentials \cup {Len(credentials')}
         /\ Len(credentials') \notin DOMAIN credentials
         /\ credentials'[Len(credentials')] = r
<1>1. credentials \in Seq(Credential) /\ Len(credentials) + 1 <= MaxCredentials
  BY DEF IdentityIInv, Stored, CanIssue
<1>2. /\ credentials' \in Seq(Credential) /\ Len(credentials') = Len(credentials) + 1
      /\ Len(credentials) \in Nat
      /\ DOMAIN credentials = 1..Len(credentials) /\ DOMAIN credentials' = 1..(Len(credentials) + 1)
      /\ \A c \in DOMAIN credentials : credentials'[c] = credentials[c]
      /\ credentials'[Len(credentials) + 1] = r
      /\ Len(credentials) + 1 \notin DOMAIN credentials
  BY <1>1, Appended
<1>3. \A c \in DOMAIN credentials' : credentials'[c] \in Credential
  BY <1>2
<1>4. CredentialRows(credentials)'
  BY <1>1, <1>2, <1>3 DEF CredentialRows
<1>5. Len(credentials') \in Credentials
  BY <1>1, <1>2, IdentityConstants DEF Credentials
<1>6. CredentialsStay
  BY <1>2 DEF CredentialsStay
<1> QED BY <1>2, <1>4, <1>5, <1>6

\* A credential revoked, or expired.
LEMMA CredentialMarked ==
  ASSUME IdentityIInv, NEW c \in DOMAIN credentials,
         \/ credentials' = [credentials EXCEPT ![c].revoked = TRUE]
         \/ credentials' = [credentials EXCEPT ![c].expired = TRUE]
  PROVE  /\ CredentialsStay /\ credentials' \in Seq(Credential) /\ CredentialRows(credentials)'
         /\ DOMAIN credentials' = DOMAIN credentials /\ Len(credentials') = Len(credentials)
<1>1. /\ credentials \in Seq(Credential) /\ Len(credentials) \in Nat /\ DOMAIN credentials = 1..Len(credentials)
      /\ Len(credentials) <= MaxCredentials
  BY DEF IdentityIInv, Stored, IdentityTypeOK, CredentialRows
<1>2. DOMAIN credentials' = DOMAIN credentials
  OBVIOUS
<1>3. \A d \in DOMAIN credentials :
        /\ credentials'[d] \in Credential
        /\ credentials'[d].agent = credentials[d].agent
        /\ credentials'[d].from = credentials[d].from
        /\ credentials[d].revoked => credentials'[d].revoked
  <2>1. ASSUME NEW d \in DOMAIN credentials
        PROVE  /\ credentials'[d] \in Credential
               /\ credentials'[d].agent = credentials[d].agent
               /\ credentials'[d].from = credentials[d].from
               /\ credentials[d].revoked => credentials'[d].revoked
    <3>1. credentials[d] \in Credential
      BY <1>1
    <3>2. \/ credentials'[d] = credentials[d]
          \/ credentials'[d] = [credentials[d] EXCEPT !.revoked = TRUE]
          \/ credentials'[d] = [credentials[d] EXCEPT !.expired = TRUE]
      OBVIOUS
    <3> QED BY <3>1, <3>2 DEF Credential
  <2> QED BY <2>1
<1>4. credentials' \in Seq(Credential) /\ Len(credentials') = Len(credentials)
  <2>1. credentials' = [d \in 1..Len(credentials) |-> credentials'[d]]
    BY <1>1
  <2>2. \A d \in 1..Len(credentials) : credentials'[d] \in Credential
    BY <1>1, <1>3
  <2> QED BY <1>1, <2>1, <2>2
<1> QED BY <1>1, <1>2, <1>3, <1>4 DEF CredentialsStay, CredentialRows

------------------------------------------------------------------------------
(* A step that leaves a row or a call alone leaves what is said of it.     *)

LEMMA CredentialInvStays ==
  ASSUME IdentityIInv, Onward, NEW c \in DOMAIN credentials
  PROVE  CredentialInv(c)'
<1>1. CredentialInv(c)
  BY DEF IdentityIInv
<1> QED BY <1>1 DEF CredentialInv, AgentOf, Onward, CredentialsStay, AgentsStay

LEMMA GrantInvStays ==
  ASSUME IdentityIInv, Onward, NEW o \in Owners, grant'[o] = grant[o]
  PROVE  GrantInv(o)'
<1>1. GrantInv(o) /\ Email[o] \in Emails /\ o # None
  BY IdentityConstants DEF IdentityIInv
<1>2. IsFirst(o, grant[o].agent) => grant[o].agent \in DOMAIN agents
  BY DEF IsFirst, AgentsOf
<1>3. CASE grant[o] = None
  BY <1>3 DEF GrantInv
<1>4. CASE grant[o] # None
  <2>1. user'[Email[o]] = o
    BY <1>1, <1>4 DEF GrantInv, Onward, AccountsStay
  <2>2. IsFirst(o, grant[o].agent)'
    <3>1. IsFirst(o, grant[o].agent) /\ grant[o].agent \in DOMAIN agents
      BY <1>1, <1>2, <1>4 DEF GrantInv
    <3> DEFINE a == grant[o].agent
    <3>2. \A b \in DOMAIN agents : IsFirst(o, b) => IsFirst(o, b)'
      BY DEF Onward, AgentsStay
    <3>3. a \in AgentsOf(o)' /\ \A b \in AgentsOf(o)' : a <= b
      BY <3>1, <3>2 DEF IsFirst
    <3> QED BY <3>3 DEF IsFirst
  <2>3. grant[o].credential \in DOMAIN credentials' /\ AgentOf(grant[o].credential)' = grant[o].agent
    BY <1>1, <1>4 DEF GrantInv, Onward, CredentialsStay, AgentOf
  <2> QED BY <2>1, <2>2, <2>3 DEF GrantInv
<1> QED BY <1>3, <1>4

LEMMA CallInvStays ==
  ASSUME IdentityIInv, Onward, NEW x \in Calls, call'[x] = call[x],
         call[x].step = "rotate" =>
           \A d \in DOMAIN credentials' \ DOMAIN credentials : credentials'[d].from # call[x].credential
  PROVE  CallInv(x)'
<1>1. CallInv(x)
  BY DEF IdentityIInv
<1>2. ActsWith(x)'
  BY <1>1 DEF CallInv, ActsWith, Onward, CredentialsStay
<1>3. Rotates(x)'
  BY <1>1, <1>2 DEF CallInv, ActsWith, Rotates, AgentOf, Onward, CredentialsStay
<1>4. Onboards(x)'
  BY <1>1, IdentityConstants DEF CallInv, Onboards, Onward, AccountsStay
<1>5. Connects(x)'
  <2>1. CASE call[x].step \in {"connect", "connecting"} /\ call[x].agent # None
    <3>1. call[x].owner \in Owners /\ IsFirst(call[x].owner, call[x].agent)
      BY <1>1, <2>1 DEF CallInv, Onboards, Connects
    <3>2. call[x].agent \in DOMAIN agents
      BY <3>1 DEF IsFirst, AgentsOf
    <3> DEFINE o == call[x].owner
               a == call[x].agent
    <3>3. \A p \in Owners, b \in DOMAIN agents : IsFirst(p, b) => IsFirst(p, b)'
      BY DEF Onward, AgentsStay
    <3>4. a \in AgentsOf(o)' /\ \A b \in AgentsOf(o)' : a <= b
      BY <3>1, <3>2, <3>3 DEF IsFirst
    <3> QED BY <2>1, <3>4 DEF Connects, IsFirst, AgentsOf
  <2>2. CASE ~(call[x].step \in {"connect", "connecting"} /\ call[x].agent # None)
    BY <1>1, <2>2 DEF CallInv, Connects
  <2> QED BY <2>1, <2>2
<1>6. Chooses(x)'
  BY <1>1 DEF CallInv, Chooses, AgentOf, Onward, CredentialsStay
<1> QED BY <1>2, <1>3, <1>4, <1>5, <1>6 DEF CallInv

LEMMA CallEnded == ASSUME NEW x \in Calls, call'[x].step = "idle" PROVE CallInv(x)'
BY DEF CallInv, ActsWith, Rotates, Onboards, Connects, Chooses

\* Every step but the two of a rotation.
LEMMA OtherSteps ==
  ASSUME IdentityIInv, Stored', OwnersInv', Onward,
         \A d \in DOMAIN credentials' \ DOMAIN credentials :
           credentials'[d].from = None /\ credentials'[d].agent \in DOMAIN agents',
         \A o \in Owners : grant'[o] = grant[o] \/ GrantInv(o)',
         \A t \in tokens' : t \in tokens \/ t.credential \in DOMAIN credentials',
         \A x \in Calls : call'[x] = call[x] \/ (call'[x].step # "rotate" /\ CallInv(x)')
  PROVE  IdentityIInv'
<1>1. ASSUME NEW c \in DOMAIN credentials' PROVE CredentialInv(c)'
  <2>1. CASE c \in DOMAIN credentials
    BY <2>1, CredentialInvStays
  <2>2. CASE c \notin DOMAIN credentials
    BY <1>1, <2>2 DEF CredentialInv, AgentOf
  <2> QED BY <2>1, <2>2
<1>2. \A o \in Owners : GrantInv(o)'
  BY GrantInvStays
<1>3. \A t \in tokens' : t.credential \in DOMAIN credentials'
  BY DEF IdentityIInv, Onward, CredentialsStay
<1>4. ASSUME NEW x \in Calls PROVE CallInv(x)'
  <2>1. CASE call'[x] = call[x]
    <3>1. ASSUME call[x].step = "rotate" PROVE call[x].credential # None
      <4>1. call[x].credential \in DOMAIN credentials /\ DOMAIN credentials \subseteq Nat
        BY <3>1 DEF IdentityIInv, CallInv, Rotates, Stored
      <4> QED BY <4>1, IdentityConstants
    <3> QED BY <2>1, <3>1, CallInvStays
  <2>2. CASE call'[x] # call[x]
    BY <2>2
  <2> QED BY <2>1, <2>2
<1>5. OneRotation'
  <2>1. ASSUME NEW x \in Calls, NEW y \in Calls, call'[x].step = "rotate", call'[y].step = "rotate",
               credentials'[call'[x].by].agent = credentials'[call'[y].by].agent
        PROVE  x = y
    <3>1. call'[x] = call[x] /\ call'[y] = call[y]
      BY <2>1
    <3>2. call[x].by \in DOMAIN credentials /\ call[y].by \in DOMAIN credentials
      BY <2>1, <3>1 DEF IdentityIInv, CallInv, ActsWith
    <3>3. credentials[call[x].by].agent = credentials[call[y].by].agent
      BY <2>1, <3>1, <3>2 DEF Onward, CredentialsStay
    <3> QED BY <2>1, <3>1, <3>3 DEF IdentityIInv, OneRotation, AgentOf
  <2> QED BY <2>1 DEF OneRotation, AgentOf
<1>6. RotatedOnce'
  <2>1. ASSUME NEW c \in DOMAIN credentials', NEW d \in DOMAIN credentials',
               credentials'[c].from = credentials'[d].from, credentials'[c].from # None
        PROVE  c = d
    <3>1. c \in DOMAIN credentials /\ d \in DOMAIN credentials
      BY <2>1
    <3> QED BY <2>1, <3>1 DEF IdentityIInv, RotatedOnce, Onward, CredentialsStay
  <2> QED BY <2>1 DEF RotatedOnce
<1> QED BY <1>1, <1>2, <1>3, <1>4, <1>5, <1>6 DEF IdentityIInv

------------------------------------------------------------------------------
(* Steps.                                                                  *)

LEMMA IdentityInitIInv == ASSUME IdentityInit PROVE IdentityIInv
<1>1. agents \in Seq(Agent) /\ credentials \in Seq(Credential) /\ DOMAIN agents = {} /\ DOMAIN credentials = {}
      /\ Len(agents) = 0 /\ Len(credentials) = 0
  BY DEF IdentityInit
<1>2. Idle \in Call /\ Idle.step = "idle"
  BY DEF Idle, Call, Steps
<1>3. IdentityTypeOK
  BY <1>1, <1>2, IdentityConstants
  DEF IdentityInit, IdentityTypeOK, UserRows, AgentRows, CredentialRows, GrantRows, OnboardingRows
<1>4. \A o \in Owners : AgentsOf(o) = {} /\ user[Email[o]] = None /\ o # None /\ grant[o] = None
  BY <1>1, IdentityConstants DEF AgentsOf, IdentityInit
<1>5. \A x \in Calls : call[x].step = "idle"
  BY <1>2 DEF IdentityInit
<1>6. \A x \in Calls : CallInv(x)
  BY <1>5 DEF CallInv, ActsWith, Rotates, Onboards, Connects, Chooses
<1>7. tokens = {}
  BY DEF IdentityInit
<1> QED BY <1>1, <1>3, <1>4, <1>5, <1>6, <1>7
        DEF IdentityIInv, Stored, OwnersInv, OneRotation, RotatedOnce, GrantInv

LEMMA IdentityStutter == ASSUME IdentityIInv, UNCHANGED identityVars PROVE IdentityIInv'
<1>1. Stored'
  BY DEF IdentityIInv, Stored, IdentityTypeOK, identityVars, tables, UserRows, AgentRows, CredentialRows,
         GrantRows, OnboardingRows
<1>2. Onward /\ OwnersInv'
  BY AgentsSame, CredentialsSame
  DEF IdentityIInv, OwnersInv, Onward, AccountsStay, identityVars, tables
<1> QED BY <1>1, <1>2, OtherSteps DEF identityVars, tables

LEMMA CallTyped ==
  ASSUME IdentityIInv, NEW x \in Calls
  PROVE  /\ call[x] \in Call /\ call \in [Calls -> Call]
         /\ \A y \in Calls : call[y].step = "idle" => call[y] = Idle
         /\ Idle \in Call /\ Idle.step = "idle"
BY DEF IdentityIInv, Stored, IdentityTypeOK, Idle, Call, Steps

\* A call moves on or ends and the tables stay.
LEMMA CallMoves ==
  ASSUME IdentityIInv, NEW x \in Calls, NEW c \in Call, call' = [call EXCEPT ![x] = c], UNCHANGED tables,
         c.step = "idle" => c = Idle,
         c.step # "rotate", CallInv(x)'
  PROVE  IdentityIInv'
<1>1. call' \in [Calls -> Call] /\ \A y \in Calls : call'[y].step = "idle" => call'[y] = Idle
  BY CallTyped
<1>2. Stored'
  BY <1>1 DEF IdentityIInv, Stored, IdentityTypeOK, tables, UserRows, AgentRows, CredentialRows,
         GrantRows, OnboardingRows
<1>3. Onward /\ OwnersInv'
  BY AgentsSame, CredentialsSame DEF IdentityIInv, OwnersInv, Onward, AccountsStay, tables
<1>4. \A y \in Calls : call'[y] = call[y] \/ (call'[y].step # "rotate" /\ CallInv(y)')
  <2>1. call'[x] = c /\ \A y \in Calls \ {x} : call'[y] = call[y]
    BY CallTyped
  <2> QED BY <2>1
<1> QED BY <1>2, <1>3, <1>4, OtherSteps DEF tables

LEMMA CallRollback == ASSUME IdentityIInv, NEW x \in Calls, Rollback(x) PROVE IdentityIInv'
<1>1. call' = [call EXCEPT ![x] = Idle] /\ UNCHANGED tables
  BY DEF Rollback, End
<1>2. CallInv(x)'
  BY <1>1, CallTyped, CallEnded
<1> QED BY <1>1, <1>2, CallTyped, CallMoves

LEMMA BeginSteps ==
  ASSUME IdentityIInv, NEW x \in Calls, NEW o \in Owners, NEW k \in Keys,
         BootstrapBegin(x, o, k) \/ ConnectBegin(x, o, k)
  PROVE  IdentityIInv'
<1> DEFINE found == IF user[Email[o]] # None /\ AgentsOf(user[Email[o]]) # {}
                    THEN FirstAgent(user[Email[o]]) ELSE None
<1>1. PICK step \in {"bootstrap", "connect"}, a \in {None, found} :
        Onboard(x, step, o, k, a) /\ (step = "connect" => a = found)
  BY DEF BootstrapBegin, ConnectBegin
<1>2. user[Email[o]] \in {o, None} /\ o # None
  BY <1>1, IdentityConstants DEF Onboard, KnownUser
<1>3. IF user[Email[o]] = None THEN found = None ELSE found # None /\ IsFirst(o, found) /\ found \in Agents
  <2>1. CASE user[Email[o]] = o
    <3>1. AgentsOf(o) # {}
      BY <2>1 DEF IdentityIInv, OwnersInv
    <3>2. IsFirst(o, FirstAgent(o))
      BY <3>1, FirstIsFirst DEF IdentityIInv
    <3>3. FirstAgent(o) \in 1..Len(agents) /\ Len(agents) <= MaxAgents /\ Len(agents) \in Nat
      BY <3>2 DEF IsFirst, AgentsOf, IdentityIInv, Stored, IdentityTypeOK, AgentRows
    <3>4. FirstAgent(o) \in Agents /\ FirstAgent(o) # None
      BY <3>3, IdentityConstants DEF Agents
    <3> QED BY <1>2, <2>1, <3>1, <3>2, <3>4
  <2>2. CASE user[Email[o]] = None
    BY <2>2
  <2> QED BY <1>2, <2>1, <2>2
<1> DEFINE c == [Idle EXCEPT !.step = step, !.owner = o, !.key = k, !.user = user[Email[o]], !.agent = a]
<1>4. c \in Call /\ c.step = step /\ c.owner = o /\ c.key = k /\ c.user = user[Email[o]] /\ c.agent = a
  <2>1. a \in Agents \cup {None} /\ step \in Steps /\ user[Email[o]] \in Owners \cup {None}
    BY <1>1, <1>2, <1>3 DEF Steps
  <2> HIDE DEF found
  <2> QED BY <2>1 DEF Idle, Call
<1>5. call' = [call EXCEPT ![x] = c] /\ UNCHANGED tables
  BY <1>1 DEF Onboard
<1>6. call'[x] = c
  BY <1>5, CallTyped
<1>7. CallInv(x)'
  <2>1. ActsWith(x)' /\ Rotates(x)' /\ Chooses(x)'
    BY <1>4, <1>6 DEF ActsWith, Rotates, Chooses
  <2>2. Onboards(x)'
    BY <1>2, <1>4, <1>5, <1>6 DEF Onboards, tables
  <2>3. Connects(x)'
    <3>1. step = "connect" => IF a = None THEN user[Email[o]] = None ELSE IsFirst(o, a)
      BY <1>1, <1>3
    <3>2. IsFirst(o, a) => IsFirst(o, a)'
      BY <1>5 DEF IsFirst, AgentsOf, tables
    <3> HIDE DEF found, c
    <3>3. call'[x].step = step /\ call'[x].owner = o /\ call'[x].agent = a /\ call'[x].user = user[Email[o]]
      BY <1>4, <1>6
    <3>4. IsFirst(call[x].owner, call[x].agent)' <=> IsFirst(o, a)'
      BY <3>3 DEF IsFirst, AgentsOf
    <3> QED BY <1>1, <3>1, <3>2, <3>3, <3>4 DEF Connects
  <2> QED BY <2>1, <2>2, <2>3 DEF CallInv
<1> HIDE DEF c, found
<1> QED BY <1>1, <1>4, <1>5, <1>7, CallMoves

LEMMA ChooseStep == ASSUME IdentityIInv, NEW x \in Calls, ConnectChoose(x) PROVE IdentityIInv'
<1> DEFINE a == call[x].agent
           d == IF a = None \/ Usable(a) = {} THEN None ELSE Newest(Usable(a))
           c == [call[x] EXCEPT !.step = "connecting", !.credential = d]
<1>1. call[x] \in Call /\ call[x].step = "connect" /\ CallInv(x)
  BY CallTyped DEF ConnectChoose, IdentityIInv
<1>2. d # None => a # None /\ d \in DOMAIN credentials /\ AgentOf(d) = a /\ d \in Credentials
  <2>1. CASE a = None \/ Usable(a) = {}
    BY <2>1
  <2>2. CASE ~(a = None \/ Usable(a) = {})
    <3>1. d \in Usable(a)
      BY <2>2, NewestIsUsable DEF IdentityIInv
    <3> HIDE DEF d, a
    <3>2. d \in DOMAIN credentials /\ AgentOf(d) = a
      BY <3>1 DEF Usable
    <3>3. DOMAIN credentials = 1..Len(credentials) /\ Len(credentials) <= MaxCredentials /\ Len(credentials) \in Nat
      BY DEF IdentityIInv, Stored, IdentityTypeOK, CredentialRows
    <3>4. d \in Credentials
      BY <3>2, <3>3, IdentityConstants DEF Credentials
    <3> QED BY <2>2, <3>2, <3>4
  <2> QED BY <2>1, <2>2
<1>3. call' = [call EXCEPT ![x] = c] /\ UNCHANGED tables
  <2> HIDE DEF d
  <2>1. call' = [call EXCEPT ![x].step = "connecting", ![x].credential = d] /\ UNCHANGED tables
    BY DEF ConnectChoose, d
  <2> QED BY <2>1, CallTyped
<1> HIDE DEF d
<1>4. /\ c \in Call /\ c.step = "connecting" /\ c.credential = d
      /\ c.agent = a /\ c.owner = call[x].owner /\ c.user = call[x].user /\ c.key = call[x].key
  <2>1. d \in Credentials \cup {None}
    BY <1>2
  <2> QED BY <1>1, <2>1 DEF Call, Steps
<1>5. call'[x] = c
  BY <1>3, CallTyped
<1> HIDE DEF c
<1>6. CallInv(x)'
  <2>1. ActsWith(x)' /\ Rotates(x)'
    BY <1>4, <1>5 DEF ActsWith, Rotates
  <2>2. Onboards(x)'
    BY <1>1, <1>3, <1>4, <1>5 DEF CallInv, Onboards, tables
  <2>3. Chooses(x)'
    BY <1>2, <1>3, <1>4, <1>5 DEF Chooses, AgentOf, tables
  <2>4. Connects(x)'
    BY <1>1, <1>3, <1>4, <1>5 DEF CallInv, Connects, IsFirst, AgentsOf, tables
  <2> QED BY <2>1, <2>2, <2>3, <2>4 DEF CallInv
<1> QED BY <1>3, <1>4, <1>6, CallMoves

\* Authentication only reads.
LEMMA AuthenticateSteps ==
  ASSUME IdentityIInv, NEW x \in Calls,
         \/ \E c \in Credentials : Authenticate(x, c)
         \/ \E t \in tokens : AuthenticateToken(x, t)
         \/ HasDynamicOAuthGrant(x)
  PROVE  IdentityIInv'
<1>1. \A c \in DOMAIN credentials : credentials[c] \in Credential /\ c \in Credentials
  <2>1. DOMAIN credentials = 1..Len(credentials) /\ Len(credentials) \in Nat /\ Len(credentials) <= MaxCredentials
    BY DEF IdentityIInv, Stored, IdentityTypeOK, CredentialRows
  <2> QED BY <2>1, IdentityConstants DEF IdentityIInv, Stored, Credentials
<1>2. PICK c \in Call :
        /\ call' = [call EXCEPT ![x] = c] /\ UNCHANGED tables
        /\ c.step \in {"token", "authenticated"} /\ c.by \in DOMAIN credentials
  <2>1. CASE \E c \in Credentials : Authenticate(x, c)
    <3>1. PICK c \in Credentials : Authenticate(x, c)
      BY <2>1
    <3> DEFINE n == [Idle EXCEPT !.step = "authenticated", !.by = c, !.scopes = credentials[c].scopes]
    <3>2. n \in Call /\ n.step = "authenticated" /\ n.by = c
      <4>1. credentials[c].scopes \in SUBSET Scopes
        BY <1>1, <3>1 DEF Authenticate, Credential
      <4> QED BY <4>1 DEF Idle, Call, Steps
    <3> QED BY <3>1, <3>2 DEF Authenticate
  <2>2. CASE \E t \in tokens : AuthenticateToken(x, t)
    <3>1. PICK t \in tokens : AuthenticateToken(x, t)
      BY <2>2
    <3>2. t \in Token /\ t.credential \in DOMAIN credentials
      BY DEF IdentityIInv, Stored, IdentityTypeOK
    <3> DEFINE n == [Idle EXCEPT !.step = "token", !.owner = t.owner, !.by = t.credential,
                       !.scopes = credentials[t.credential].scopes \cap t.scopes]
    <3>3. n \in Call /\ n.step = "token" /\ n.by = t.credential
      <4>1. credentials[t.credential].scopes \cap t.scopes \in SUBSET Scopes
        BY <1>1, <3>2 DEF Token, Credential
      <4> QED BY <3>2, <4>1 DEF Idle, Call, Steps, Token
    <3> QED BY <3>1, <3>2, <3>3 DEF AuthenticateToken
  <2>3. CASE HasDynamicOAuthGrant(x)
    <3> DEFINE n == [call[x] EXCEPT !.step = "authenticated", !.owner = None]
    <3>1. call[x] \in Call /\ call[x].step = "token" /\ call[x].by \in DOMAIN credentials
      BY <2>3, CallTyped DEF HasDynamicOAuthGrant, IdentityIInv, CallInv, ActsWith
    <3>2. n \in Call /\ n.step = "authenticated" /\ n.by = call[x].by
      BY <3>1 DEF Call, Steps
    <3>3. call' = [call EXCEPT ![x] = n] /\ UNCHANGED tables
      BY <2>3, CallTyped DEF HasDynamicOAuthGrant
    <3> QED BY <3>1, <3>2, <3>3
  <2> QED BY <2>1, <2>2, <2>3
<1>3. CallInv(x)'
  BY <1>2, CallTyped DEF CallInv, ActsWith, Rotates, Onboards, Connects, Chooses, tables
<1> QED BY <1>2, <1>3, CallMoves

\* A call ends: nothing is said of it any more.
LEMMA Ended ==
  ASSUME IdentityIInv, NEW x \in Calls, End(x)
  PROVE  /\ call' \in [Calls -> Call] /\ \A y \in Calls : call'[y].step = "idle" => call'[y] = Idle
         /\ \A y \in Calls : call'[y] = call[y] \/ (call'[y].step # "rotate" /\ CallInv(y)')
         /\ \A y \in Calls : y # x => call'[y] = call[y]
         /\ call'[x].step = "idle"
<1>1. call'[x] = Idle /\ call' \in [Calls -> Call] /\ \A y \in Calls : y # x => call'[y] = call[y]
  BY CallTyped DEF End
<1>2. CallInv(x)'
  BY <1>1, CallTyped, CallEnded
<1> QED BY <1>1, <1>2, CallTyped

\* The tables a credential's issue, mark or minting leaves alone.
LEMMA MarkSteps ==
  ASSUME IdentityIInv,
         \/ \E c \in Credentials : Expire(c)
         \/ \E o \in Owners, c \in Credentials : RevokeOwnerCredential(o, c)
         \/ \E x \in Calls, c \in Credentials : RevokeCredential(x, c)
  PROVE  IdentityIInv'
<1>1. PICK c \in DOMAIN credentials :
        /\ \/ credentials' = [credentials EXCEPT ![c].revoked = TRUE]
           \/ credentials' = [credentials EXCEPT ![c].expired = TRUE]
        /\ UNCHANGED <<user, agents, grant, tokens, onboarding>>
  BY DEF Expire, RevokeOwnerCredential, RevokeCredential, Revoked
<1>2. \/ UNCHANGED call
      \/ \E x \in Calls : End(x)
  BY DEF Expire, RevokeOwnerCredential, RevokeCredential
<1>3. /\ CredentialsStay /\ credentials' \in Seq(Credential) /\ CredentialRows(credentials)'
      /\ DOMAIN credentials' = DOMAIN credentials
  BY <1>1, CredentialMarked
<1>4. /\ call' \in [Calls -> Call] /\ \A y \in Calls : call'[y].step = "idle" => call'[y] = Idle
      /\ \A y \in Calls : call'[y] = call[y] \/ (call'[y].step # "rotate" /\ CallInv(y)')
  BY <1>2, Ended DEF IdentityIInv, Stored, IdentityTypeOK
<1>5. Stored'
  BY <1>1, <1>3, <1>4 DEF IdentityIInv, Stored, IdentityTypeOK, UserRows, AgentRows, GrantRows, OnboardingRows
<1>6. Onward /\ OwnersInv'
  BY <1>1, <1>3, AgentsSame DEF IdentityIInv, OwnersInv, Onward, AccountsStay
<1> QED BY <1>1, <1>3, <1>4, <1>5, <1>6, OtherSteps

LEMMA MintStep == ASSUME IdentityIInv, NEW o \in Owners, MintToken(o) PROVE IdentityIInv'
<1> DEFINE t == [owner |-> o, credential |-> grant[o].credential, scopes |-> credentials[grant[o].credential].scopes]
<1>1. grant[o] # None /\ tokens' = tokens \cup {t}
      /\ UNCHANGED <<user, agents, credentials, grant, onboarding, call>>
  BY DEF MintToken
<1>2. t.credential \in DOMAIN credentials
  BY <1>1 DEF IdentityIInv, GrantInv
<1>3. t \in Token
  <2>1. grant[o].credential \in Credentials
    BY <1>1 DEF IdentityIInv, Stored, IdentityTypeOK, GrantRows, Grant
  <2>2. credentials[t.credential] \in Credential
    BY <1>2 DEF IdentityIInv, Stored
  <2> QED BY <2>1, <2>2 DEF Token, Credential
<1>4. Stored'
  BY <1>1, <1>3 DEF IdentityIInv, Stored, IdentityTypeOK, UserRows, AgentRows, CredentialRows,
                    GrantRows, OnboardingRows
<1>5. Onward /\ OwnersInv'
  BY <1>1, AgentsSame, CredentialsSame DEF IdentityIInv, OwnersInv, Onward, AccountsStay
<1> QED BY <1>1, <1>2, <1>4, <1>5, OtherSteps

------------------------------------------------------------------------------
(* Steps that add rows.                                                    *)

LEMMA RecordTyped ==
  ASSUME NEW a \in Agents, NEW scopes \in SUBSET Scopes, NEW expired \in BOOLEAN,
         NEW from \in Credentials \cup {None}
  PROVE  /\ CredentialRecord(a, scopes, expired, from) \in Credential
         /\ CredentialRecord(a, scopes, expired, from).agent = a
         /\ CredentialRecord(a, scopes, expired, from).from = from
BY DEF CredentialRecord, Credential

\* A key is completed with its call.
LEMMA Completed ==
  ASSUME IdentityIInv, NEW x \in Calls, NEW op \in {"bootstrap", "connect"}, CompleteOnboarding(x, op),
         call[x].owner \in Owners, call[x].key \in Keys
  PROVE  End(x) /\ onboarding' \in OnboardingRows
<1>1. onboarding \in [Keys -> Onboarding \cup {None}]
  BY DEF IdentityIInv, Stored, IdentityTypeOK, OnboardingRows
<1>2. [op |-> op, owner |-> call[x].owner] \in Onboarding
  BY DEF Onboarding
<1> QED BY <1>1, <1>2 DEF CompleteOnboarding, OnboardingRows

\* The account: inserted, or found by the call and then there.
LEMMA AccountPersisted ==
  ASSUME IdentityIInv, NEW x \in Calls, PersistUser(x), Onboards(x),
         call[x].step \in {"bootstrap", "connect", "connecting"}
  PROVE  LET o == call[x].owner IN
         \/ UNCHANGED user /\ user[Email[o]] = o
         \/ user[Email[o]] = None /\ user' = [user EXCEPT ![Email[o]] = o]
BY DEF PersistUser, Onboards

LEMMA BootstrapStep ==
  ASSUME IdentityIInv, NEW x \in Calls, NEW h \in Handles, BootstrapAgent(x, h)
  PROVE  IdentityIInv'
<1> DEFINE o == call[x].owner
           r == CredentialRecord(Len(agents'), Scopes, FALSE, None)
<1>1. o \in Owners /\ call[x].key \in Keys /\ Onboards(x)
  BY DEF IdentityIInv, CallInv, Onboards, BootstrapAgent
<1>2. /\ AccountsStay /\ AgentsStay /\ OwnersInv'
      /\ user' \in UserRows /\ AgentRows(agents)' /\ agents' \in Seq(Agent)
      /\ Len(agents') \in DOMAIN agents' /\ Len(agents') \in Agents
  BY <1>1, AccountPersisted, IdentityPersisted DEF BootstrapAgent
<1>3. r \in Credential /\ r.agent = Len(agents') /\ r.from = None
  BY <1>2 DEF CredentialRecord, Credential
<1>4. credentials' = Append(credentials, r) /\ CanIssue(1) /\ UNCHANGED <<grant, tokens>>
  BY DEF BootstrapAgent
<1> HIDE DEF r
<1>5. /\ CredentialsStay /\ credentials' \in Seq(Credential) /\ CredentialRows(credentials)'
      /\ DOMAIN credentials' = DOMAIN credentials \cup {Len(credentials')}
      /\ credentials'[Len(credentials')] = r
  BY <1>3, <1>4, CredentialAdded
<1>6. End(x) /\ onboarding' \in OnboardingRows
  BY <1>1, Completed DEF BootstrapAgent
<1>7. Stored'
  BY <1>2, <1>4, <1>5, <1>6, Ended DEF IdentityIInv, Stored, IdentityTypeOK, GrantRows
<1> QED BY <1>2, <1>3, <1>4, <1>5, <1>6, <1>7, Ended, OtherSteps DEF Onward

LEMMA ConnectStep ==
  ASSUME IdentityIInv, NEW x \in Calls, ConnectExternalAgent(x)
  PROVE  IdentityIInv'
<1> DEFINE new == call[x].agent = None
           issue == call[x].credential = None
<1>0. PICK o, a, c, r :
        /\ o = call[x].owner
        /\ a = IF new THEN Len(agents) + 1 ELSE call[x].agent
        /\ c = IF issue THEN Len(credentials) + 1 ELSE call[x].credential
        /\ r = CredentialRecord(a, Scopes, FALSE, None)
  OBVIOUS
<1>1. /\ o \in Owners /\ call[x].key \in Keys /\ Onboards(x) /\ Connects(x) /\ Chooses(x)
      /\ call[x].step = "connecting" /\ call[x] \in Call
  BY <1>0, CallTyped DEF IdentityIInv, CallInv, Onboards, ConnectExternalAgent
<1>2. /\ IF new THEN PersistUser(x) /\ PersistIdentity(o, o) ELSE UNCHANGED <<user, agents>>
      /\ IF issue THEN CanIssue(1) /\ credentials' = Append(credentials, r) ELSE UNCHANGED credentials
      /\ EnsureGrant(o, a, c) /\ CompleteOnboarding(x, "connect") /\ UNCHANGED tokens
  BY <1>0 DEF ConnectExternalAgent
<1>3. /\ AccountsStay /\ AgentsStay /\ OwnersInv'
      /\ user' \in UserRows /\ AgentRows(agents)' /\ agents' \in Seq(Agent)
      /\ a \in DOMAIN agents' /\ a \in Agents /\ IsFirst(o, a)' /\ user'[Email[o]] = o
  <2>1. CASE new
    <3>1. call[x].user = None /\ user[Email[o]] = None /\ user' = [user EXCEPT ![Email[o]] = o]
      BY <1>0, <1>1, <1>2, <2>1 DEF Connects, PersistUser
    <3>2. AgentsOf(o) = {}
      BY <1>1, <3>1, IdentityConstants DEF IdentityIInv, OwnersInv
    <3>3. /\ AccountsStay /\ AgentsStay /\ OwnersInv'
          /\ user' \in UserRows /\ AgentRows(agents)' /\ agents' \in Seq(Agent)
          /\ Len(agents') = Len(agents) + 1 /\ Len(agents') \in DOMAIN agents' /\ Len(agents') \in Agents
          /\ user'[Email[o]] = o /\ IsFirst(o, Len(agents))'
      BY <1>1, <1>2, <2>1, <3>1, <3>2, IdentityPersisted
    <3>4. a = Len(agents')
      BY <1>0, <2>1, <3>3
    <3>5. IsFirst(o, a)'
      BY <3>3, <3>4 DEF IsFirst, AgentsOf
    <3> QED BY <3>3, <3>4, <3>5
  <2>2. CASE ~new
    <3>1. a = call[x].agent /\ IsFirst(o, a) /\ a \in Agents /\ UNCHANGED <<user, agents>>
      BY <1>0, <1>1, <1>2, <2>2 DEF Connects, Call
    <3>2. a \in AgentsOf(o) /\ a \in DOMAIN agents
      BY <3>1 DEF IsFirst, AgentsOf
    <3>3. user[Email[o]] = o
      BY <1>1, <3>2 DEF IdentityIInv, OwnersInv
    <3>4. IsFirst(o, a)'
      BY <3>1 DEF IsFirst, AgentsOf
    <3> QED BY <3>1, <3>2, <3>3, <3>4, AgentsSame
            DEF AccountsStay, IdentityIInv, Stored, IdentityTypeOK, OwnersInv, UserRows, AgentRows
  <2> QED BY <2>1, <2>2
<1>4. r \in Credential /\ r.agent = a /\ r.from = None
  BY <1>0, <1>3 DEF CredentialRecord, Credential
<1>5. /\ CredentialsStay /\ credentials' \in Seq(Credential) /\ CredentialRows(credentials)'
      /\ \A d \in DOMAIN credentials' \ DOMAIN credentials : credentials'[d] = r
      /\ c \in DOMAIN credentials' /\ c \in Credentials /\ credentials'[c].agent = a
  <2>1. CASE issue
    <3>1. /\ CredentialsStay /\ credentials' \in Seq(Credential) /\ CredentialRows(credentials)'
          /\ Len(credentials) + 1 = Len(credentials') /\ Len(credentials') \in Credentials
          /\ DOMAIN credentials' = DOMAIN credentials \cup {Len(credentials')}
          /\ credentials'[Len(credentials')] = r
      BY <1>2, <1>4, <2>1, CredentialAdded
    <3> QED BY <1>0, <1>4, <2>1, <3>1
  <2>2. CASE ~issue
    <3>1. /\ c = call[x].credential /\ c \in Credentials /\ ~new /\ c \in DOMAIN credentials /\ AgentOf(c) = a
          /\ UNCHANGED credentials
      BY <1>0, <1>1, <1>2, <2>2 DEF Chooses, Call
    <3> QED BY <3>1, CredentialsSame DEF AgentOf, IdentityIInv, Stored, IdentityTypeOK, CredentialRows
  <2> QED BY <2>1, <2>2
<1> HIDE DEF new, issue
<1>6. End(x) /\ onboarding' \in OnboardingRows
  BY <1>0, <1>1, <1>2, Completed
<1>7. grant' = [grant EXCEPT ![o] = [agent |-> a, credential |-> c]] /\ grant \in [Owners -> Grant \cup {None}]
  BY <1>2 DEF EnsureGrant, IdentityIInv, Stored, IdentityTypeOK, GrantRows
<1>8. [agent |-> a, credential |-> c] \in Grant
  BY <1>3, <1>5 DEF Grant
<1>9. \A p \in Owners : grant'[p] = grant[p] \/ GrantInv(p)'
  <2>1. grant'[o] = [agent |-> a, credential |-> c] /\ \A p \in Owners \ {o} : grant'[p] = grant[p]
    BY <1>1, <1>7
  <2>2. GrantInv(o)'
    <3>1. grant'[o].agent = a /\ grant'[o].credential = c
      BY <2>1
    <3>2. IsFirst(o, grant[o].agent)'
      BY <1>3, <3>1 DEF IsFirst, AgentsOf
    <3> QED BY <1>3, <1>5, <3>1, <3>2 DEF GrantInv, AgentOf
  <2> QED BY <2>1, <2>2
<1>10. Stored'
  <2>1. grant' \in GrantRows
    BY <1>7, <1>8 DEF GrantRows
  <2> QED BY <1>2, <1>3, <1>5, <1>6, <2>1, Ended DEF IdentityIInv, Stored, IdentityTypeOK
<1> QED BY <1>2, <1>3, <1>4, <1>5, <1>6, <1>9, <1>10, Ended, OtherSteps DEF Onward

LEMMA RegisterStep ==
  ASSUME IdentityIInv, NEW x \in Calls, NEW h \in Handles, RegisterAgent(x, h)
  PROVE  IdentityIInv'
<1>0. PICK o, r :
        o = OwnerOf(call[x].by) /\ r = CredentialRecord(Len(agents'), Scopes \cap call[x].scopes, FALSE, None)
  OBVIOUS
<1>1. /\ PersistIdentity(o, h) /\ CanIssue(1) /\ credentials' = Append(credentials, r) /\ End(x)
      /\ UNCHANGED <<user, grant, tokens, onboarding>>
      /\ call[x].by \in DOMAIN credentials
  BY <1>0 DEF RegisterAgent, MayWrite, IdentityIInv, CallInv, ActsWith
<1>2. o \in Owners /\ user[Email[o]] = o
  <2>1. AgentOf(call[x].by) \in DOMAIN agents
    BY <1>1 DEF IdentityIInv, CredentialInv
  <2>2. agents[AgentOf(call[x].by)] \in Agent
    BY <2>1 DEF IdentityIInv, Stored
  <2>3. o \in Owners /\ AgentOf(call[x].by) \in AgentsOf(o)
    BY <1>0, <2>1, <2>2 DEF OwnerOf, AgentsOf, Agent
  <2> QED BY <2>3 DEF IdentityIInv, OwnersInv
<1>3. /\ AccountsStay /\ AgentsStay /\ OwnersInv'
      /\ user' \in UserRows /\ AgentRows(agents)' /\ agents' \in Seq(Agent)
      /\ Len(agents') \in DOMAIN agents' /\ Len(agents') \in Agents
  BY <1>1, <1>2, IdentityPersisted
<1>4. r \in Credential /\ r.agent = Len(agents') /\ r.from = None
  BY <1>0, <1>3 DEF CredentialRecord, Credential
<1>5. /\ CredentialsStay /\ credentials' \in Seq(Credential) /\ CredentialRows(credentials)'
      /\ DOMAIN credentials' = DOMAIN credentials \cup {Len(credentials')}
      /\ credentials'[Len(credentials')] = r
  BY <1>1, <1>4, CredentialAdded
<1>6. Stored'
  BY <1>1, <1>3, <1>5, Ended DEF IdentityIInv, Stored, IdentityTypeOK, GrantRows, OnboardingRows
<1> QED BY <1>1, <1>3, <1>4, <1>5, <1>6, Ended, OtherSteps DEF Onward

LEMMA CreateStep ==
  ASSUME IdentityIInv, NEW x \in Calls, NEW scopes \in SUBSET Scopes, CreateCredential(x, scopes)
  PROVE  IdentityIInv'
<1>0. PICK r : r = CredentialRecord(AgentOf(call[x].by), scopes, FALSE, None)
  OBVIOUS
<1>1. /\ CanIssue(1) /\ credentials' = Append(credentials, r) /\ End(x)
      /\ UNCHANGED <<user, agents, grant, tokens, onboarding>>
      /\ call[x].by \in DOMAIN credentials
  BY <1>0 DEF CreateCredential, MayWrite, IdentityIInv, CallInv, ActsWith
<1>2. AgentOf(call[x].by) \in DOMAIN agents /\ AgentOf(call[x].by) \in Agents
  <2>1. AgentOf(call[x].by) \in DOMAIN agents
    BY <1>1 DEF IdentityIInv, CredentialInv
  <2>2. DOMAIN agents = 1..Len(agents) /\ Len(agents) \in Nat /\ Len(agents) <= MaxAgents
    BY DEF IdentityIInv, Stored, IdentityTypeOK, AgentRows
  <2> QED BY <2>1, <2>2, IdentityConstants DEF Agents
<1>3. r \in Credential /\ r.agent \in DOMAIN agents /\ r.from = None
  BY <1>0, <1>2 DEF CredentialRecord, Credential
<1>4. /\ CredentialsStay /\ credentials' \in Seq(Credential) /\ CredentialRows(credentials)'
      /\ DOMAIN credentials' = DOMAIN credentials \cup {Len(credentials')}
      /\ credentials'[Len(credentials')] = r
  BY <1>1, <1>3, CredentialAdded
<1>5. Stored'
  BY <1>1, <1>4, Ended DEF IdentityIInv, Stored, IdentityTypeOK, UserRows, AgentRows, GrantRows, OnboardingRows
<1>6. Onward /\ OwnersInv'
  BY <1>1, <1>4, AgentsSame DEF IdentityIInv, OwnersInv, Onward, AccountsStay
<1> QED BY <1>1, <1>3, <1>4, <1>5, <1>6, Ended, OtherSteps

\* The company's lock, and a credential that is live: it has no successor.
LEMMA RotateBeginStep ==
  ASSUME IdentityIInv, NEW x \in Calls, NEW c \in Credentials, RotateBegin(x, c)
  PROVE  IdentityIInv'
<1> DEFINE n == [call[x] EXCEPT !.step = "rotate", !.credential = c]
<1>1. /\ call[x] \in Call /\ call[x].step = "authenticated" /\ call[x].by \in DOMAIN credentials
      /\ CompanyUnlocked(AgentOf(call[x].by))
      /\ c \in DOMAIN credentials /\ AgentOf(c) = AgentOf(call[x].by) /\ ~credentials[c].revoked
      /\ UNCHANGED tables
  BY CallTyped DEF RotateBegin, MayWrite, Live, IdentityIInv, CallInv, ActsWith
<1>2. n \in Call /\ n.step = "rotate" /\ n.by = call[x].by /\ n.credential = c
  BY <1>1 DEF Call, Steps
<1>3. /\ call' = [call EXCEPT ![x] = n] /\ call'[x] = n
      /\ \A y \in Calls : y # x => call'[y] = call[y]
  BY <1>1, CallTyped DEF RotateBegin
<1> HIDE DEF n
<1>4. \A d \in DOMAIN credentials : credentials[d].from # c
  <2>1. ASSUME NEW d \in DOMAIN credentials, credentials[d].from = c PROVE FALSE
    <3>1. c # None
      BY IdentityConstants
    <3> QED BY <1>1, <2>1, <3>1 DEF IdentityIInv, CredentialInv
  <2> QED BY <2>1
<1>5. Onward
  BY <1>1, AgentsSame, CredentialsSame DEF Onward, AccountsStay, tables
<1>6. ASSUME NEW y \in Calls PROVE CallInv(y)'
  <2>1. CASE y = x
    <3>1. call'[y].step = "rotate" /\ call'[y].by = call[x].by /\ call'[y].credential = c
      BY <1>2, <1>3, <2>1
    <3>2. Rotates(y)'
      BY <1>1, <1>4, <3>1 DEF Rotates, AgentOf, tables
    <3> QED BY <1>1, <3>1, <3>2 DEF CallInv, ActsWith, Onboards, Connects, Chooses, tables
  <2>2. CASE y # x
    <3>1. credentials' = credentials /\ call'[y] = call[y]
      BY <1>1, <1>3, <2>2 DEF tables
    <3> QED BY <1>5, <3>1, CallInvStays
  <2> QED BY <2>1, <2>2
<1>7. OneRotation'
  <2>1. ASSUME NEW y \in Calls, NEW z \in Calls, call'[y].step = "rotate", call'[z].step = "rotate",
               credentials[call'[y].by].agent = credentials[call'[z].by].agent
        PROVE  y = z
    <3>1. ASSUME NEW w \in Calls, w # x, call'[w].step = "rotate"
          PROVE  credentials[call'[w].by].agent # credentials[call'[x].by].agent
      <4>1. call'[w] = call[w] /\ call'[x].by = call[x].by
        BY <1>2, <1>3, <3>1
      <4> QED BY <1>1, <3>1, <4>1 DEF CompanyUnlocked, AgentOf
    <3>2. CASE y = x \/ z = x
      BY <2>1, <3>1, <3>2
    <3>3. CASE y # x /\ z # x
      <4>1. call'[y] = call[y] /\ call'[z] = call[z]
        BY <1>3, <3>3
      <4> QED BY <2>1, <4>1 DEF IdentityIInv, OneRotation, AgentOf
    <3> QED BY <3>2, <3>3
  <2>2. credentials' = credentials
    BY <1>1 DEF tables
  <2> QED BY <2>1, <2>2 DEF OneRotation, AgentOf
<1>8. call' \in [Calls -> Call] /\ \A y \in Calls : call'[y].step = "idle" => call'[y] = Idle
  BY <1>2, <1>3, CallTyped
<1>9. Stored'
  BY <1>1, <1>8 DEF IdentityIInv, Stored, IdentityTypeOK, tables, UserRows, AgentRows, CredentialRows,
                    GrantRows, OnboardingRows
<1>10. /\ OwnersInv' /\ RotatedOnce'
       /\ \A d \in DOMAIN credentials' : CredentialInv(d)'
       /\ \A o \in Owners : GrantInv(o)'
       /\ \A t \in tokens' : t.credential \in DOMAIN credentials'
  <2>1. UNCHANGED <<user, agents, credentials, grant, tokens>>
    BY <1>1 DEF tables
  <2> QED BY <1>5, <2>1, AgentsSame, GrantInvStays, CredentialInvStays DEF IdentityIInv, OwnersInv, RotatedOnce
<1> QED BY <1>6, <1>7, <1>9, <1>10 DEF IdentityIInv

\* The successor is the first, and no other rotation has read the same credential.
LEMMA RotateStep ==
  ASSUME IdentityIInv, NEW x \in Calls, RotateCredential(x)
  PROVE  IdentityIInv'
<1>0. PICK old, marked, r :
        /\ old = call[x].credential /\ marked = Revoked(credentials, old)
        /\ r = CredentialRecord(AgentOf(old), credentials[old].scopes, credentials[old].expired, old)
  OBVIOUS
<1>1. /\ call[x].step = "rotate" /\ CanIssue(1) /\ credentials' = Append(marked, r) /\ End(x)
      /\ UNCHANGED <<user, agents, grant, tokens, onboarding>>
  BY <1>0 DEF RotateCredential
<1>2. /\ old \in DOMAIN credentials /\ AgentOf(old) = AgentOf(call[x].by)
      /\ \A d \in DOMAIN credentials : credentials[d].from # old
      /\ AgentOf(old) \in DOMAIN agents
  BY <1>0, <1>1 DEF IdentityIInv, CallInv, Rotates, CredentialInv
<1>3. /\ credentials \in Seq(Credential) /\ Len(credentials) \in Nat
      /\ DOMAIN credentials = 1..Len(credentials) /\ Len(credentials) + 1 <= MaxCredentials
      /\ old \in Credentials
  <2>1. credentials \in Seq(Credential) /\ Len(credentials) + 1 <= MaxCredentials
    BY <1>1 DEF IdentityIInv, Stored, CanIssue
  <2> QED BY <1>2, <2>1, IdentityConstants DEF Credentials
<1>4. /\ marked \in Seq(Credential) /\ Len(marked) = Len(credentials) /\ DOMAIN marked = DOMAIN credentials
      /\ marked[old].revoked
      /\ \A d \in DOMAIN credentials :
           /\ marked[d].agent = credentials[d].agent /\ marked[d].from = credentials[d].from
           /\ credentials[d].revoked => marked[d].revoked
  <2>1. marked = [credentials EXCEPT ![old].revoked = TRUE]
    BY <1>0 DEF Revoked
  <2>2. ASSUME NEW d \in DOMAIN credentials
        PROVE  /\ marked[d] \in Credential /\ marked[d].agent = credentials[d].agent
               /\ marked[d].from = credentials[d].from /\ (credentials[d].revoked => marked[d].revoked)
               /\ d = old => marked[d].revoked
    <3>1. credentials[d] \in Credential
      BY <1>3
    <3>2. marked[d] = IF d = old THEN [credentials[d] EXCEPT !.revoked = TRUE] ELSE credentials[d]
      BY <1>2, <2>1
    <3> QED BY <3>1, <3>2 DEF Credential
  <2>3. marked = [d \in 1..Len(credentials) |-> marked[d]]
    BY <1>3, <2>1
  <2>4. marked \in Seq(Credential) /\ Len(marked) = Len(credentials)
    BY <1>3, <2>2, <2>3
  <2> QED BY <1>2, <1>3, <2>1, <2>2, <2>4
<1>5. r \in Credential /\ r.agent = AgentOf(old) /\ r.from = old
  <2>1. credentials[old] \in Credential
    BY <1>2, <1>3
  <2> QED BY <1>0, <1>3, <2>1 DEF CredentialRecord, Credential, AgentOf
<1>6. PICK new : new = Len(credentials) + 1
  OBVIOUS
<1>7. /\ credentials' \in Seq(Credential) /\ Len(credentials') = new
      /\ DOMAIN credentials' = DOMAIN credentials \cup {new} /\ new \notin DOMAIN credentials
      /\ credentials'[new] = r /\ \A d \in DOMAIN credentials : credentials'[d] = marked[d]
  <2>1. /\ Append(marked, r) \in Seq(Credential) /\ Len(Append(marked, r)) = Len(marked) + 1
        /\ DOMAIN marked = 1..Len(marked) /\ DOMAIN Append(marked, r) = 1..(Len(marked) + 1)
        /\ \A d \in DOMAIN marked : Append(marked, r)[d] = marked[d]
        /\ Append(marked, r)[Len(marked) + 1] = r
        /\ Len(marked) + 1 \notin DOMAIN marked
    BY <1>4, <1>5, Appended
  <2> QED BY <1>1, <1>3, <1>4, <1>6, <2>1
<1>8. CredentialsStay /\ Onward /\ OwnersInv'
  <2>1. CredentialsStay
    BY <1>4, <1>7 DEF CredentialsStay
  <2> QED BY <1>1, <2>1, AgentsSame DEF IdentityIInv, OwnersInv, Onward, AccountsStay
<1>9. Stored'
  <2>1. \A d \in DOMAIN credentials' : credentials'[d] \in Credential
    BY <1>7
  <2>2. CredentialRows(credentials)'
    BY <1>3, <1>6, <1>7, <2>1 DEF CredentialRows
  <2> QED BY <1>1, <1>7, <2>2, Ended DEF IdentityIInv, Stored, IdentityTypeOK, UserRows, AgentRows, GrantRows, OnboardingRows
<1>10. ASSUME NEW d \in DOMAIN credentials' PROVE CredentialInv(d)'
  <2>1. CASE d \in DOMAIN credentials
    BY <1>8, <2>1, CredentialInvStays
  <2>2. CASE d = new
    BY <1>1, <1>2, <1>4, <1>5, <1>7, <2>2 DEF CredentialInv, AgentOf
  <2> QED BY <1>7, <2>1, <2>2
<1>11. ASSUME NEW y \in Calls PROVE CallInv(y)'
  <2>1. CASE y = x
    BY <1>1, <2>1, CallEnded, Ended
  <2>2. CASE y # x
    <3>1. call'[y] = call[y]
      BY <1>1, <2>2, Ended
    <3>2. ASSUME call[y].step = "rotate" PROVE call[y].credential # old
      <4>1. AgentOf(call[y].credential) = AgentOf(call[y].by) /\ AgentOf(call[y].by) # AgentOf(call[x].by)
        BY <1>1, <2>2, <3>2 DEF IdentityIInv, CallInv, Rotates, OneRotation
      <4> QED BY <1>2, <4>1
    <3> QED BY <1>5, <1>7, <1>8, <3>1, <3>2, CallInvStays
  <2> QED BY <2>1, <2>2
<1>12. OneRotation'
  <2>1. ASSUME NEW y \in Calls, NEW z \in Calls, call'[y].step = "rotate", call'[z].step = "rotate",
               credentials'[call'[y].by].agent = credentials'[call'[z].by].agent
        PROVE  y = z
    <3>1. call'[y] = call[y] /\ call'[z] = call[z]
      BY <1>1, <2>1, Ended
    <3>2. call[y].by \in DOMAIN credentials /\ call[z].by \in DOMAIN credentials
      BY <2>1, <3>1 DEF IdentityIInv, CallInv, ActsWith
    <3>3. credentials[call[y].by].agent = credentials[call[z].by].agent
      BY <1>8, <2>1, <3>1, <3>2 DEF CredentialsStay
    <3> QED BY <2>1, <3>1, <3>3 DEF IdentityIInv, OneRotation, AgentOf
  <2> QED BY <2>1 DEF OneRotation, AgentOf
<1>13. RotatedOnce'
  <2>1. ASSUME NEW c \in DOMAIN credentials', NEW d \in DOMAIN credentials',
               credentials'[c].from = credentials'[d].from, credentials'[c].from # None
        PROVE  c = d
    <3>1. \A e \in DOMAIN credentials : credentials'[e].from = credentials[e].from /\ credentials'[e].from # old
      BY <1>2, <1>4, <1>7
    <3>2. credentials'[new].from = old
      BY <1>5, <1>7
    <3>3. CASE c = new \/ d = new
      BY <1>7, <2>1, <3>1, <3>2, <3>3
    <3>4. CASE c \in DOMAIN credentials /\ d \in DOMAIN credentials
      BY <2>1, <3>1, <3>4 DEF IdentityIInv, RotatedOnce
    <3> QED BY <1>7, <3>3, <3>4
  <2> QED BY <2>1 DEF RotatedOnce
<1>14. /\ \A o \in Owners : GrantInv(o)'
       /\ \A t \in tokens' : t.credential \in DOMAIN credentials'
  BY <1>1, <1>7, <1>8, GrantInvStays DEF IdentityIInv
<1> QED BY <1>8, <1>9, <1>10, <1>11, <1>12, <1>13, <1>14 DEF IdentityIInv

LEMMA IdentityNextIInv == ASSUME IdentityIInv, [IdentityNext]_identityVars PROVE IdentityIInv'
<1>1. CASE UNCHANGED identityVars
  BY <1>1, IdentityStutter
<1>2. ASSUME NEW o \in Owners, MintToken(o) PROVE IdentityIInv'
  BY <1>2, MintStep
<1>3. ASSUME NEW x \in Calls, NEW o \in Owners, NEW k \in Keys, BootstrapBegin(x, o, k) \/ ConnectBegin(x, o, k)
      PROVE  IdentityIInv'
  BY <1>3, BeginSteps
<1>4. ASSUME NEW x \in Calls, NEW h \in Handles, BootstrapAgent(x, h) \/ RegisterAgent(x, h)
      PROVE  IdentityIInv'
  BY <1>4, BootstrapStep, RegisterStep
<1>5. ASSUME NEW x \in Calls, Rollback(x) \/ ConnectChoose(x) \/ ConnectExternalAgent(x) \/ RotateCredential(x)
      PROVE  IdentityIInv'
  BY <1>5, CallRollback, ChooseStep, ConnectStep, RotateStep
<1>6. ASSUME NEW x \in Calls, NEW c \in Credentials, RotateBegin(x, c) PROVE IdentityIInv'
  BY <1>6, RotateBeginStep
<1>7. ASSUME NEW x \in Calls, NEW S \in SUBSET Scopes \ {{}}, CreateCredential(x, S) PROVE IdentityIInv'
  BY <1>7, CreateStep
<1>8. ASSUME NEW x \in Calls,
             \/ \E c \in Credentials : Authenticate(x, c)
             \/ \E t \in tokens : AuthenticateToken(x, t)
             \/ HasDynamicOAuthGrant(x)
      PROVE  IdentityIInv'
  BY <1>8, AuthenticateSteps
<1>9. CASE \/ \E c \in Credentials : Expire(c)
           \/ \E o \in Owners, c \in Credentials : RevokeOwnerCredential(o, c)
           \/ \E x \in Calls, c \in Credentials : RevokeCredential(x, c)
  BY <1>9, MarkSteps
<1> QED BY <1>1, <1>2, <1>3, <1>4, <1>5, <1>6, <1>7, <1>8, <1>9 DEF IdentityNext

\* What each row and each open call may rely on (Identity).
THEOREM IdentityInvariance == IdentitySpec => []IdentityIInv
<1>1. IdentityInit => IdentityIInv
  BY IdentityInitIInv
<1>2. IdentityIInv /\ [IdentityNext]_identityVars => IdentityIInv'
  BY IdentityNextIInv
<1> QED BY <1>1, <1>2, PTL DEF IdentitySpec

\* Every row of the identity tables, every token and every open call has its
\* type, and a call that has ended holds nothing (Identity).
THEOREM IdentityTypeCorrect == IdentitySpec => []IdentityTypeOK
<1>1. IdentityIInv => IdentityTypeOK
  BY DEF IdentityIInv, Stored
<1> QED BY <1>1, IdentityInvariance, PTL

\* For any number of owners, addresses and concurrent calls: an OAuth
\* connection leads to its owner's own, oldest agent with a credential of that
\* agent (connectExternalAgent, ensureDynamicOAuthGrant).
THEOREM ConnectionIsTheOwners == IdentitySpec => []ConnectionOfOwner
<1>1. IdentityIInv => ConnectionOfOwner
  BY FirstIsFirst DEF IdentityIInv, GrantInv, ConnectionOfOwner
<1> QED BY <1>1, IdentityInvariance, PTL

\* Any number of concurrent rotations gives a credential one successor at most
\* (rotateCredential and its company lock).
THEOREM RotatedAtMostOnce == IdentitySpec => []RotatedOnce
<1>1. IdentityIInv => RotatedOnce
  BY DEF IdentityIInv
<1> QED BY <1>1, IdentityInvariance, PTL
==============================================================================
