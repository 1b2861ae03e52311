----------------------------- MODULE MarketData -----------------------------
(***************************************************************************)
(* RobinhoodMarketDataProvider: the answers of an upstream API, cached in  *)
(* one process.  Readers that ask for the same thing share one request;    *)
(* requests start some time apart; a failure puts off the next one; and    *)
(* when a request fails, the last answer serves for a while, marked stale. *)
(* A price needs two answers, the quote and the asset's multiplier.        *)
(*                                                                         *)
(* Time is discrete: where the code keeps the time of something, the model *)
(* keeps its age, or how far off it is.  Timers are taken to fire in the   *)
(* tick they are due, and the code between two awaits takes none.  The     *)
(* provider is enabled, and retryAt never has the 512 keys at which it     *)
(* forgets one.                                                            *)
(***************************************************************************)
EXTENDS Integers, Sequences, FiniteSets, SequencesExt

CONSTANTS
  Readers,
  Symbols,    \* each has a quote
  CacheSize,  \* 256 in the code
  Fresh,      \* freshTtlMs
  Stale,      \* staleTtlMs
  Pace,       \* between the starts of two requests
  Timeout,    \* of a request
  Backoffs,   \* after an answer 429, from the retry-after header or the default
  Retry,      \* after another failure
  MaxAge      \* bound: what is older is as old as this

Assets == "assets"

ASSUME MarketDataAssumption ==
  /\ {CacheSize, Fresh, Stale, Pace, Timeout, Retry, MaxAge} \cup Backoffs \subseteq Nat
  /\ CacheSize > 0 /\ Fresh <= Stale /\ Fresh <= MaxAge
  /\ Assets \notin Symbols /\ IsFiniteSet(Symbols)

CacheKeys == Symbols \cup {Assets}

\* The longest that a request takes, with the wait for the others' starts.
Wait == Pace * Cardinality(CacheKeys) + Timeout

VARIABLES
  cache,      \* in the order in which the keys came
  fetch,      \* inFlight: the request for each key
  retry,      \* retryAt: how far off it is
  turn,       \* nextUpstreamRequestAt: how far off it is
  idle,       \* how long ago the last request started
  reader

marketDataVars == <<cache, fetch, retry, turn, idle, reader>>

\* What a reader is told: the answer's state, and the age of the answer and of
\* the quote in it.
Ages == 0..MaxAge
Answer == [state: {"none", "live", "cached", "stale", "unavailable"}, age: Ages, quoteAge: Ages]
CacheEntry == [key: CacheKeys, age: Ages, quoteAge: Ages]
NoAnswer == [state |-> "none", age |-> 0, quoteAge |-> 0]
Unavailable == [NoAnswer EXCEPT !.state = "unavailable"]

\* A request: how long ago it was made, when it starts, or times out, and the
\* answer that was in the cache when it was made.
NoFetch == [step |-> "none", age |-> 0, due |-> 0, kept |-> NoAnswer]

MarketDataInit ==
  /\ cache = <<>>
  /\ fetch = [k \in CacheKeys |-> NoFetch]
  /\ retry = [k \in CacheKeys |-> 0]
  /\ turn = 0
  /\ idle = Pace
  /\ reader = [q \in Readers |-> [k \in {} |-> NoAnswer]]

------------------------------------------------------------------------------
(* The cache.                                                              *)

Entries == {cache[n].key : n \in DOMAIN cache}
Cached(k) == IF k \in Entries
             THEN LET e == CHOOSE e \in ToSet(cache) : e.key = k
                  IN [state |-> "cached", age |-> e.age, quoteAge |-> e.quoteAge]
             ELSE NoAnswer

IsFresh(k) == k \in Entries /\ Cached(k).age <= Fresh

\* A new key takes the place of the one that came first.
Stored(k, age, quoteAge) ==
  LET e == [key |-> k, age |-> age, quoteAge |-> quoteAge] IN
  IF k \in Entries THEN [n \in DOMAIN cache |-> IF cache[n].key = k THEN e ELSE cache[n]]
  ELSE Append(IF Len(cache) >= CacheSize THEN Tail(cache) ELSE cache, e)

Sum(a, b) == IF a + b > MaxAge THEN MaxAge ELSE a + b
Aged(a, t) == [a EXCEPT !.age = Sum(@, t), !.quoteAge = Sum(@, t)]

\* After a failure: the answer that was in the cache when the request was made,
\* t ago, if it was not too old then.
LastAnswer(kept, t) ==
  IF kept = NoAnswer THEN Unavailable ELSE [Aged(kept, t) EXCEPT !.state = "stale"]
Fallback(kept, t) ==
  IF kept # NoAnswer /\ kept.age <= Stale THEN [Aged(kept, t) EXCEPT !.state = "stale"]
  ELSE Unavailable

------------------------------------------------------------------------------
(* Readers.                                                                *)

Reading(q) == \E k \in DOMAIN reader[q] : reader[q][k].state = "none"
Done(q) == DOMAIN reader[q] # {} /\ ~Reading(q)

\* cached: the request that is in flight, or the answer there is, or a new
\* request that waits for its turn.
Needs(k) == fetch[k] = NoFetch /\ ~IsFresh(k) /\ retry[k] = 0

AtOnce(k) ==
  IF fetch[k] # NoFetch \/ Needs(k) THEN NoAnswer
  ELSE IF IsFresh(k) THEN Cached(k) ELSE Fallback(Cached(k), 0)

\* The n-th of the requests that are made now starts in...
Unpaced(n) == (n - 1) * Pace
Turn(n) == turn + (n - 1) * Pace

\* getStockPrice (the quote, then the assets), listStockTokens, getStockToken.
Read(q, keys) ==
  LET new == {k \in keys : Needs(k)}
      Place(k) == IF k = Assets THEN Cardinality(new) ELSE 1 IN
  /\ ~Reading(q)
  /\ fetch' = [k \in CacheKeys |->
       IF k \in new THEN [step |-> "waiting", age |-> 0, due |-> Turn(Place(k)), kept |-> Cached(k)]
                    ELSE fetch[k]]
  /\ turn' = IF new = {} THEN turn ELSE Turn(Cardinality(new)) + Pace
  /\ reader' = [reader EXCEPT ![q] = [k \in keys |-> AtOnce(k)]]
  /\ UNCHANGED <<cache, retry, idle>>

\* Whoever waits for the request hears its result.
Waiting(k) == {q \in Readers : k \in DOMAIN reader[q] /\ reader[q][k].state = "none"}
TellThese(W, k, answer) ==
  reader' = [q \in Readers |-> IF q \in W THEN [reader[q] EXCEPT ![k] = answer] ELSE reader[q]]

TellOne(k, answer) == TellThese({q \in Waiting(k) : q = CHOOSE w \in Waiting(k) : TRUE}, k, answer)
Tell(k, answer) == TellThese(Waiting(k), k, answer)

\* getStockPrice: the quote and the multiplier together.
PriceState(q, s) ==
  LET quote == reader[q][s]
      asset == reader[q][Assets]
  IN IF "unavailable" \in {quote.state, asset.state} THEN "unavailable"
     ELSE IF "stale" \in {quote.state, asset.state} \/ quote.quoteAge > Fresh THEN "stale"
     ELSE IF "cached" \in {quote.state, asset.state} THEN "cached"
     ELSE "live"

------------------------------------------------------------------------------
(* Requests.                                                               *)

Start(k) ==
  /\ fetch[k].step = "waiting" /\ fetch[k].due = 0
  /\ fetch' = [fetch EXCEPT ![k].step = "upstream", ![k].due = Timeout]
  /\ idle' = 0
  /\ UNCHANGED <<cache, retry, turn, reader>>

EndFetch(k) == fetch' = [fetch EXCEPT ![k] = NoFetch]

\* An answer that parses; the quote in it may be some time old.
Respond(k) ==
  LET t == fetch[k].age IN
  /\ fetch[k].step = "upstream"
  /\ \E quoteAge \in IF k = Assets THEN {t} ELSE {0, Fresh} :
       /\ cache' = Stored(k, t, quoteAge)
       /\ Tell(k, [state |-> "live", age |-> t, quoteAge |-> quoteAge])
  /\ EndFetch(k)
  /\ UNCHANGED <<retry, turn, idle>>

\* The next request for the key is put off: from the time this one was made.
Fails(k, off) ==
  /\ fetch[k].step = "upstream"
  /\ retry' = [retry EXCEPT ![k] = IF off > fetch[k].age THEN off - fetch[k].age ELSE 0]
  /\ Tell(k, Fallback(fetch[k].kept, fetch[k].age))
  /\ EndFetch(k)
  /\ UNCHANGED <<cache, turn, idle>>

\* Too many requests, or another failure, the timeout included.
RateLimited(k) == \E b \in Backoffs : Fails(k, b)
Fail(k) == Fails(k, Retry)

\* Unless a timer is due, time passes; who has been answered is gone by then.
Less(n) == IF n = 0 THEN 0 ELSE n - 1

Tick ==
  /\ \A k \in CacheKeys : fetch[k] # NoFetch => fetch[k].due > 0
  /\ cache' = [n \in DOMAIN cache |-> Aged(cache[n], 1)]
  /\ fetch' = [k \in CacheKeys |-> IF fetch[k] = NoFetch THEN NoFetch
                              ELSE [fetch[k] EXCEPT !.age = Sum(@, 1), !.due = @ - 1]]
  /\ retry' = [k \in CacheKeys |-> Less(retry[k])]
  /\ turn' = Less(turn)
  /\ idle' = IF idle < Pace THEN idle + 1 ELSE idle
  /\ reader' = [q \in Readers |->
       IF Done(q) THEN [k \in {} |-> NoAnswer]
       ELSE [k \in DOMAIN reader[q] |-> IF reader[q][k].state \in {"none", "unavailable"} THEN reader[q][k]
                                        ELSE Aged(reader[q][k], 1)]]

MarketDataNext ==
  \/ Tick
  \/ \E q \in Readers :
       \/ Read(q, {Assets})
       \/ \E s \in Symbols : Read(q, {s, Assets})
  \/ \E k \in CacheKeys :
       \/ Start(k)
       \/ Respond(k)
       \/ RateLimited(k)
       \/ Fail(k)

\* Timers fire, and a request is answered, refused or times out.
Fairness ==
  /\ WF_marketDataVars(Tick)
  /\ \A k \in CacheKeys : WF_marketDataVars(Start(k)) /\ WF_marketDataVars(Respond(k) \/ RateLimited(k) \/ Fail(k))

MarketDataSpec == MarketDataInit /\ [][MarketDataNext]_marketDataVars /\ Fairness

------------------------------------------------------------------------------
(* Properties.                                                             *)

MarketDataTypeOK ==
  /\ Len(cache) <= CacheSize
  /\ \A n \in DOMAIN cache : cache[n] \in CacheEntry
  /\ fetch \in [CacheKeys -> [step: {"none", "waiting", "upstream"}, age: Ages, due: Nat, kept: Answer]]
  /\ retry \in [CacheKeys -> Nat]
  /\ turn \in Nat /\ idle \in 0..Pace
  /\ \A q \in Readers : DOMAIN reader[q] \subseteq CacheKeys /\ \A k \in DOMAIN reader[q] : reader[q][k] \in Answer

\* However readers share requests and whatever fails, an answer is as old as
\* its mark allows when the reader has it, or older by what the request takes
\* that it waits for; for a price by what two take, one that it joins and one
\* of its own.  The mark of a price covers both of its answers, although they
\* come from different requests.
OldAnswersAreMarked ==
  \A q \in Readers : Done(q) =>
    LET wait == Cardinality(DOMAIN reader[q]) * Wait IN
    /\ \A k \in DOMAIN reader[q] :
         LET a == reader[q][k]
         IN /\ a.state = "live" => a.age <= wait
            /\ a.state = "cached" => a.age <= Fresh + wait
            /\ a.state = "stale" => a.age <= Stale + wait
    /\ \A s \in DOMAIN reader[q] \cap Symbols : \A k \in DOMAIN reader[q] \cap {s, Assets} :
         /\ PriceState(q, s) = "live" => reader[q][k].age <= wait
         /\ PriceState(q, s) = "cached" => reader[q][k].age <= Fresh + wait

\* Whoever asks, and for whatever, upstream requests start Pace apart (if no
\* timer is late), and none while its key is backing off.
PoliteUpstream ==
  [][\A k \in CacheKeys : Start(k) => idle >= Pace /\ retry[k] = 0]_marketDataVars

\* A reader that waits is answered, with data or without.
EveryReaderAnswered == \A q \in Readers : Reading(q) ~> Done(q)
=============================================================================
