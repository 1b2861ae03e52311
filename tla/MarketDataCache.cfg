SPECIFICATION MarketDataSpec
CONSTANTS
  Readers = {q1, q2}
  Symbols = {"s1"}
  CacheSize = 1
  Fresh = 1
  Stale = 2
  Pace = 1
  Timeout = 1
  Backoffs = {1, 3}
  Retry = 2
  MaxAge = 9
INVARIANTS OldAnswersAreMarked
PROPERTIES PoliteUpstream EveryReaderAnswered
