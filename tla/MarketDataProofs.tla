-------------------------- MODULE MarketDataProofs --------------------------
(***************************************************************************)
(* Theorems about MarketData, for any number of rounds, feeds, quotes and  *)
(* faults: the cache is of one market and moves forward in time.           *)
(***************************************************************************)
EXTENDS MarketData, MarketWatchProofs, FiniteSetTheorems

-----------------------------------------------------------------------------
(* Queues. *)

\* What is left of a queue, and its oldest element.
LEMMA TailLemma ==
  ASSUME NEW S, NEW s \in Seq(S), s # <<>>
  PROVE  /\ Head(s) \in S /\ Head(s) = s[1] /\ 1 \in 1..Len(s)
         /\ Tail(s) \in Seq(S) /\ Len(Tail(s)) = Len(s) - 1 /\ Len(s) \in Nat
         /\ \A i \in 1..Len(Tail(s)) : Tail(s)[i] = s[i + 1] /\ i + 1 \in 1..Len(s)
OBVIOUS

\* A queue with one element more.
LEMMA AppendLemma ==
  ASSUME NEW S, NEW s \in Seq(S), NEW e \in S
  PROVE  /\ Append(s, e) \in Seq(S) /\ Len(Append(s, e)) = Len(s) + 1 /\ Len(s) \in Nat
         /\ \A i \in 1..Len(Append(s, e)) : \/ i \in 1..Len(s) /\ Append(s, e)[i] = s[i]
                                            \/ i = Len(s) + 1 /\ Append(s, e)[i] = e
OBVIOUS

-----------------------------------------------------------------------------
(* Types. *)

LEMMA Constants ==
  /\ MaxRounds \in Nat \ {0} /\ MaxFeeds \in Nat /\ MaxQuotes \in Nat /\ MaxFaults \in Nat
  /\ RxCap \in Nat \ {0} /\ WireCap \in Nat \ {0} /\ NoPrice \notin Nat
  /\ Rounds \subseteq 1..MaxRounds /\ Rounds \subseteq 0..MaxRounds /\ 0 \notin Rounds
  /\ Feeds \subseteq 0..MaxFeeds /\ 0 \notin Feeds
BY MarketDataAssumption, MaxRoundsAssumption DEF Rounds, Feeds

\* The best price of a side is one of its prices, or None.
LEMMA BestPrices ==
  ASSUME NEW q \in Quotes
  PROVE  BestAsk(q.asks) \in Prices /\ BestBid(q.bids) \in Prices
<1>1. q.asks \subseteq Prices /\ q.bids \subseteq Prices /\ NoPrice \in Prices
  <2>1. q.bids \cup q.asks \in {p.bids \cup p.asks : p \in Quotes}
    OBVIOUS
  <2>2. q.bids \cup q.asks \subseteq Prices
    BY <2>1 DEF Prices
  <2>3. NoPrice \in Prices
    BY DEF Prices
  <2>4. QED BY <2>2, <2>3
<1>2. BestAsk(q.asks) \in Prices
  <2>1. CASE q.asks = {} BY <1>1, <2>1 DEF BestAsk
  <2>2. CASE q.asks # {}
    <3>1. \E p \in q.asks : \A o \in q.asks : p <= o
      BY <2>2, MarketDataAssumption
    <3>2. QED BY <1>1, <2>2, <3>1 DEF BestAsk
  <2>3. QED BY <2>1, <2>2
<1>3. BestBid(q.bids) \in Prices
  <2>1. CASE q.bids = {} BY <1>1, <2>1 DEF BestBid
  <2>2. CASE q.bids # {}
    <3>1. \E p \in q.bids : \A o \in q.bids : p >= o
      BY <2>2, MarketDataAssumption
    <3>2. QED BY <1>1, <2>2, <3>1 DEF BestBid
  <2>3. QED BY <2>1, <2>2
<1>4. QED BY <1>2, <1>3

\* A frame's books: one a level, of the level's token and the frame's time.
LEMMA BooksOfFrame ==
  ASSUME NEW frame \in Frames
  PROVE  LET books == ToOutcomeBooks(frame)
         IN /\ books \in Seq(Books) /\ Len(books) = Len(frame.levels) /\ Len(books) \in Nat
            /\ \A i \in 1..Len(books) : books[i].token = frame.levels[i].token /\ books[i].at = frame.at
<1> DEFINE books == ToOutcomeBooks(frame)
<1>1. frame.levels \in Seq({Level(t, q) : t \in Tokens, q \in Quotes}) /\ frame.at \in 0..MaxQuotes
  BY DEF Frames
<1>2. Len(frame.levels) \in Nat
  BY <1>1
<1>3. ASSUME NEW i \in 1..Len(frame.levels)
      PROVE  [token |-> frame.levels[i].token, buy |-> BestAsk(frame.levels[i].asks),
              sell |-> BestBid(frame.levels[i].bids), at |-> frame.at] \in Books
  <2>1. frame.levels[i] \in {Level(t, q) : t \in Tokens, q \in Quotes}
    BY <1>1, <1>3
  <2>2. PICK t \in Tokens, q \in Quotes : frame.levels[i] = Level(t, q)
    BY <2>1
  <2>3. /\ frame.levels[i].token = t /\ frame.levels[i].asks = q.asks /\ frame.levels[i].bids = q.bids
    BY <2>2 DEF Level
  <2>4. BestAsk(q.asks) \in Prices /\ BestBid(q.bids) \in Prices
    BY BestPrices
  <2>5. QED BY <1>1, <2>3, <2>4 DEF Books
<1>4. books \in [1..Len(frame.levels) -> Books]
  BY <1>3 DEF ToOutcomeBooks
<1>5. books \in Seq(Books) /\ Len(books) = Len(frame.levels)
  <2> HIDE DEF books
  <2> QED BY <1>2, <1>4
<1>6. \A i \in 1..Len(frame.levels) : books[i].token = frame.levels[i].token /\ books[i].at = frame.at
  BY DEF ToOutcomeBooks
<1>7. QED BY <1>2, <1>5, <1>6

\* A snapshot is a frame of the time it is sent at, of one market's tokens.
LEMMA SnapshotIsFrame ==
  ASSUME TypeOK, NEW r \in Rounds, NEW s \in Snapshots(r)
  PROVE  /\ s \in Frames /\ s.at = clock
         /\ \A j \in 1..Len(s.levels) : s.levels[j].token[1] = r
<1> DEFINE n == Cardinality(Outcomes)
<1> DEFINE L == {Level(<<r, o>>, quote[<<r, o>>]) : o \in Outcomes}
<1>1. n \in Nat
  BY MarketDataAssumption, FS_CardinalityType
<1>2. PICK v \in [1..n -> L] : s = [levels |-> v, at |-> clock]
  BY DEF Snapshots
<1>3. ASSUME NEW l \in L
      PROVE  l \in {Level(t, q) : t \in Tokens, q \in Quotes} /\ l.token[1] = r
  <2>1. PICK o \in Outcomes : l = Level(<<r, o>>, quote[<<r, o>>])
    OBVIOUS
  <2>2. <<r, o>> \in Tokens
    BY DEF Tokens
  <2>3. quote[<<r, o>>] \in Quotes
    BY <2>2 DEF TypeOK
  <2>4. l.token = <<r, o>>
    BY <2>1 DEF Level
  <2>5. QED BY <2>1, <2>2, <2>3, <2>4
<1>4. v \in Seq({Level(t, q) : t \in Tokens, q \in Quotes}) /\ Len(v) = n
  <2>1. v \in [1..n -> {Level(t, q) : t \in Tokens, q \in Quotes}]
    <3> HIDE DEF n, L
    <3> QED BY <1>2, <1>3
  <2> HIDE DEF n, L
  <2> QED BY <1>1, <2>1
<1>5. s \in Frames
  BY <1>2, <1>4 DEF Frames, TypeOK
<1>6. \A j \in 1..n : v[j] \in L
  BY <1>2
<1>7. QED BY <1>2, <1>3, <1>4, <1>5, <1>6

-----------------------------------------------------------------------------
(* The inductive invariant. *)

\* How the task's subscription, its feed and the watch hang together.
LinkInv ==
  /\ feed = 0 <=> currentIds = 0
  /\ feed # 0 => ids[feed] = currentIds /\ at[feed] # "unborn"
  /\ ~started => feed = 0 /\ cache = Empty
  /\ unread => market.slug # 0
  /\ ~unread /\ feed # 0 => market.slug = currentIds

\* What a feed has under way is of its subscription.
OwnBooks(f) ==
  /\ at[f] = "unborn" => wire[f] = <<>> /\ out[f] = <<>> /\ rx[f] = <<>>
  /\ at[f] # "unborn" => ids[f] # 0
  /\ \A i \in 1..Len(wire[f]) :
       \A j \in 1..Len(wire[f][i].levels) : wire[f][i].levels[j].token[1] = ids[f]
  /\ \A i \in 1..Len(out[f]) : out[f][i].token[1] = ids[f]
  /\ \A i \in 1..Len(rx[f]) : rx[f][i].token[1] = ids[f]

Sorted(s) == \A i, j \in 1..Len(s) : i <= j => s[i].at <= s[j].at
NotAfter(s, u) == \A i \in 1..Len(s), j \in 1..Len(u) : s[i].at <= u[j].at
UpTo(s, time) == \A i \in 1..Len(s) : s[i].at <= time
From(time, s) == \A i \in 1..Len(s) : time <= s[i].at

\* And it is in the order of the exchange's clock.
InOrder(f) ==
  /\ Sorted(rx[f]) /\ Sorted(out[f]) /\ Sorted(wire[f])
  /\ NotAfter(rx[f], out[f]) /\ NotAfter(rx[f], wire[f]) /\ NotAfter(out[f], wire[f])
  /\ UpTo(rx[f], clock) /\ UpTo(out[f], clock) /\ UpTo(wire[f], clock)

\* Nothing cached is newer than what the task's feed still has under way.
CacheInOrder ==
  feed # 0 => \A t \in Tokens : cache[t] # NoBook =>
    /\ cache[t].at <= clock
    /\ From(cache[t].at, rx[feed]) /\ From(cache[t].at, out[feed]) /\ From(cache[t].at, wire[feed])

DataInv ==
  /\ TypeOK /\ LinkInv /\ CacheIsOfOneMarket /\ CacheInOrder
  /\ \A f \in Feeds : OwnBooks(f) /\ InOrder(f)

-----------------------------------------------------------------------------
(* The rotation publishes. *)

\* A feed that is left alone keeps its part of the invariant.
LEMMA FeedKeeps ==
  ASSUME NEW f \in Feeds, OwnBooks(f) /\ InOrder(f),
         ids'[f] = ids[f] /\ at'[f] = at[f] /\ wire'[f] = wire[f] /\ out'[f] = out[f] /\ rx'[f] = rx[f],
         clock' = clock
  PROVE  OwnBooks(f)' /\ InOrder(f)'
<1>1. OwnBooks(f)'
  BY DEF OwnBooks
<1>2. InOrder(f)'
  BY DEF InOrder, Sorted, NotAfter, UpTo
<1>3. QED BY <1>1, <1>2

\* Times are numbers.
LEMMA TimesAreNat ==
  ASSUME TypeOK, NEW f \in Feeds
  PROVE  /\ \A i \in 1..Len(rx[f]) : rx[f][i].at \in Nat
         /\ \A i \in 1..Len(out[f]) : out[f][i].at \in Nat
         /\ \A i \in 1..Len(wire[f]) : wire[f][i].at \in Nat
<1>1. rx[f] \in Seq(Books) /\ out[f] \in Seq(Books) /\ wire[f] \in Seq(Frames)
  BY DEF TypeOK
<1>2. /\ \A i \in 1..Len(rx[f]) : rx[f][i] \in Books
      /\ \A i \in 1..Len(out[f]) : out[f][i] \in Books
      /\ \A i \in 1..Len(wire[f]) : wire[f][i] \in Frames
  BY <1>1
<1>3. \A b \in Books : b.at \in Nat
  BY DEF Books
<1>4. \A w \in Frames : w.at \in Nat
  BY DEF Frames
<1>5. QED BY <1>2, <1>3, <1>4

LEMMA PublishStep == DataInv /\ PublishMarket => DataInv'
<1> SUFFICES ASSUME DataInv, PublishMarket PROVE DataInv'
  OBVIOUS
<1>1. /\ unread' = TRUE /\ Publish
      /\ UNCHANGED <<started, currentIds, feed, cache, misfiled, ids, at, wire, out, rx, quote, clock, faults>>
  BY DEF PublishMarket, feedVars, exchangeVars
<1>2. MarketTypeOK' /\ market'.slug # 0
  BY <1>1, PublishTypes DEF DataInv, TypeOK
<1>3. TypeOK'
  BY <1>1, <1>2 DEF DataInv, TypeOK
<1>4. LinkInv'
  BY <1>1, <1>2 DEF DataInv, LinkInv, Empty
<1>5. CacheIsOfOneMarket' /\ CacheInOrder'
  BY <1>1 DEF DataInv, CacheIsOfOneMarket, CacheInOrder, From
<1>6. \A f \in Feeds : OwnBooks(f)' /\ InOrder(f)'
  BY <1>1, FeedKeeps DEF DataInv
<1>7. QED BY <1>3, <1>4, <1>5, <1>6 DEF DataInv

\* A step that leaves the task and the feeds alone.
LEMMA SkipStep ==
  ASSUME DataInv, (SkipPrefetched /\ UNCHANGED <<taskVars, feedVars, exchangeVars, faults>>) \/ UNCHANGED vars
  PROVE  DataInv'
<1>1. UNCHANGED <<unread, started, currentIds, feed, cache, misfiled, ids, at, wire, out, rx, quote, clock,
                  faults, market>>
  BY DEF SkipPrefetched, vars, rotationVars, taskVars, feedVars, exchangeVars
<1>2. MarketTypeOK'
  <2>1. CASE SkipPrefetched
    BY <2>1, SkipTypes DEF DataInv, TypeOK
  <2>2. CASE UNCHANGED vars
    BY <2>2 DEF vars, rotationVars, DataInv, TypeOK, MarketTypeOK
  <2>3. QED BY <2>1, <2>2
<1>3. TypeOK'
  BY <1>1, <1>2 DEF DataInv, TypeOK
<1>4. LinkInv'
  BY <1>1 DEF DataInv, LinkInv, Empty
<1>5. CacheIsOfOneMarket' /\ CacheInOrder'
  BY <1>1 DEF DataInv, CacheIsOfOneMarket, CacheInOrder, From
<1>6. \A f \in Feeds : OwnBooks(f)' /\ InOrder(f)'
  BY <1>1, FeedKeeps DEF DataInv
<1>7. QED BY <1>3, <1>4, <1>5, <1>6 DEF DataInv

LEMMA InitInv == Init => DataInv
<1> SUFFICES ASSUME Init PROVE DataInv
  OBVIOUS
<1>1. TypeOK
  <2>1. MarketTypeOK
    BY InitTypes DEF Init
  <2>2. quote \in [Tokens -> Quotes]
    BY MarketDataAssumption DEF Init
  <2>3. 0 \in 0..MaxRounds /\ 0 \in 0..MaxFeeds /\ 0 \in 0..MaxQuotes /\ 0 \in 0..MaxFaults
    BY Constants
  <2>4. cache \in [Tokens -> Books \cup {NoBook}]
    BY DEF Init, Empty
  <2>5. /\ ids \in [Feeds -> 0..MaxRounds] /\ at \in [Feeds -> Stages]
        /\ wire \in [Feeds -> Seq(Frames)] /\ out \in [Feeds -> Seq(Books)] /\ rx \in [Feeds -> Seq(Books)]
    BY <2>3 DEF Init, Stages
  <2>6. \A f \in Feeds : Len(rx[f]) <= RxCap
    BY Constants DEF Init
  <2>7. QED BY <2>1, <2>2, <2>3, <2>4, <2>5, <2>6 DEF Init, TypeOK
<1>2. LinkInv
  BY DEF Init, LinkInv
<1>3. \A t \in Tokens : cache[t] = NoBook
  BY DEF Init, Empty
<1>4. CacheIsOfOneMarket /\ CacheInOrder
  BY <1>3 DEF CacheIsOfOneMarket, CacheInOrder
<1>5. ASSUME NEW f \in Feeds
      PROVE  OwnBooks(f) /\ InOrder(f)
  <2>1. wire[f] = <<>> /\ out[f] = <<>> /\ rx[f] = <<>> /\ at[f] = "unborn"
    BY <1>5 DEF Init
  <2>2. QED BY <2>1 DEF OwnBooks, InOrder, Sorted, NotAfter, UpTo
<1>6. QED BY <1>1, <1>2, <1>4, <1>5 DEF DataInv

-----------------------------------------------------------------------------
(* The exchange's books change. *)

LEMMA ChangeQuoteStep == DataInv /\ ChangeQuote => DataInv'
<1> SUFFICES ASSUME DataInv, ChangeQuote PROVE DataInv'
  OBVIOUS
<1>1. PICK t \in Tokens, q \in Quotes :
        /\ quote' = [quote EXCEPT ![t] = q]
        /\ wire' = [f \in Feeds |-> IF at[f] = "reading" /\ ids[f] = t[1]
                      THEN Append(wire[f], [levels |-> <<Level(t, q)>>, at |-> clock + 1])
                      ELSE wire[f]]
  BY DEF ChangeQuote
<1>2. /\ clock < MaxQuotes /\ clock' = clock + 1
      /\ UNCHANGED <<market, round, phase, unread, started, currentIds, feed, cache, misfiled, ids, at, out, rx, faults>>
  BY DEF ChangeQuote, rotationVars, taskVars
<1>3. clock \in Nat /\ clock' \in 0..MaxQuotes /\ clock <= clock'
  BY <1>2, Constants DEF DataInv, TypeOK
<1> DEFINE new == [levels |-> <<Level(t, q)>>, at |-> clock + 1]
<1>4. /\ new \in Frames /\ new.at = clock' /\ Len(new.levels) = 1 /\ new.levels[1].token = t
  BY <1>2, <1>3 DEF Frames, Level
<1> HIDE DEF new
<1>5. ASSUME NEW f \in Feeds
      PROVE  /\ wire'[f] \in Seq(Frames) /\ wire[f] \in Seq(Frames)
             /\ \/ wire'[f] = wire[f]
                \/ wire'[f] = Append(wire[f], new) /\ t[1] = ids[f] /\ at[f] # "unborn"
  <2>1. wire[f] \in Seq(Frames)
    BY DEF DataInv, TypeOK
  <2>2. CASE at[f] = "reading" /\ ids[f] = t[1]
    <3>1. wire'[f] = Append(wire[f], new)
      BY <1>1, <2>2 DEF new
    <3>2. QED BY <1>4, <2>1, <2>2, <3>1, AppendLemma
  <2>3. CASE ~(at[f] = "reading" /\ ids[f] = t[1])
    BY <1>1, <2>1, <2>3
  <2>4. QED BY <2>2, <2>3
<1>6. TypeOK'
  <2>1. quote' \in [Tokens -> Quotes]
    BY <1>1 DEF DataInv, TypeOK
  <2>2. wire' \in [Feeds -> Seq(Frames)]
    BY <1>1, <1>5
  <2>3. MarketTypeOK'
    BY <1>2 DEF DataInv, TypeOK, MarketTypeOK
  <2>4. QED BY <1>2, <1>3, <2>1, <2>2, <2>3 DEF DataInv, TypeOK
<1>7. LinkInv' /\ CacheIsOfOneMarket'
  BY <1>2 DEF DataInv, LinkInv, CacheIsOfOneMarket, Empty
<1>8. ASSUME NEW f \in Feeds
      PROVE  /\ OwnBooks(f)' /\ InOrder(f)'
             /\ \A time \in Nat : time <= clock /\ From(time, wire[f]) => From(time, wire'[f])
  <2>0. OwnBooks(f) /\ InOrder(f)
    BY DEF DataInv
  <2>1. /\ \A i \in 1..Len(rx[f]) : rx[f][i].at \in Nat
        /\ \A i \in 1..Len(out[f]) : out[f][i].at \in Nat
        /\ \A i \in 1..Len(wire[f]) : wire[f][i].at \in Nat
    BY TimesAreNat DEF DataInv
  <2>2. CASE wire'[f] = wire[f]
    <3>1. OwnBooks(f)'
      BY <1>2, <2>0, <2>2 DEF OwnBooks
    <3>2. UpTo(rx[f], clock') /\ UpTo(out[f], clock') /\ UpTo(wire[f], clock')
      BY <1>3, <2>0, <2>1 DEF InOrder, UpTo
    <3>3. InOrder(f)'
      BY <1>2, <2>0, <2>2, <3>2 DEF InOrder, UpTo, Sorted, NotAfter
    <3>4. QED BY <2>2, <3>1, <3>3
  <2>3. CASE wire'[f] = Append(wire[f], new) /\ t[1] = ids[f] /\ at[f] # "unborn"
    <3>1. \A i \in 1..Len(wire'[f]) : \/ i \in 1..Len(wire[f]) /\ wire'[f][i] = wire[f][i]
                                      \/ i = Len(wire[f]) + 1 /\ wire'[f][i] = new
      BY <1>4, <1>5, <2>3, AppendLemma
    <3>2. Len(wire[f]) \in Nat
      BY <1>5
    <3>3. OwnBooks(f)'
      <4>1. \A i \in 1..Len(wire'[f]) :
              \A j \in 1..Len(wire'[f][i].levels) : wire'[f][i].levels[j].token[1] = ids[f]
        <5> TAKE i \in 1..Len(wire'[f])
        <5>1. CASE i \in 1..Len(wire[f]) /\ wire'[f][i] = wire[f][i]
          BY <2>0, <5>1 DEF OwnBooks
        <5>2. CASE wire'[f][i] = new
          <6>1. \A j \in 1..Len(new.levels) : new.levels[j].token[1] = ids[f]
            BY <1>4, <2>3
          <6>2. QED BY <5>2, <6>1
        <5>3. QED BY <3>1, <5>1, <5>2
      <4>2. QED BY <1>2, <2>0, <2>3, <4>1 DEF OwnBooks
    <3>4. UpTo(rx[f], clock') /\ UpTo(out[f], clock') /\ UpTo(wire[f], clock')
      BY <1>3, <2>0, <2>1 DEF InOrder, UpTo
    <3>5. UpTo(wire'[f], clock')
      BY <1>3, <1>4, <3>1, <3>4 DEF UpTo
    <3>6. Sorted(wire'[f])
      <4> SUFFICES ASSUME NEW i \in 1..Len(wire'[f]), NEW j \in 1..Len(wire'[f]), i <= j
                   PROVE  wire'[f][i].at <= wire'[f][j].at
        BY DEF Sorted
      <4>1. CASE j \in 1..Len(wire[f]) /\ wire'[f][j] = wire[f][j]
        <5>1. i \in 1..Len(wire[f]) /\ wire'[f][i] = wire[f][i]
          BY <3>1, <3>2, <4>1
        <5>2. QED BY <2>0, <4>1, <5>1 DEF InOrder, Sorted
      <4>2. CASE wire'[f][j] = new
        BY <1>4, <3>5, <4>2 DEF UpTo
      <4>3. QED BY <3>1, <4>1, <4>2
    <3>7. NotAfter(rx[f], wire'[f]) /\ NotAfter(out[f], wire'[f])
      BY <1>4, <2>0, <3>1, <3>4 DEF InOrder, NotAfter, UpTo
    <3>10. InOrder(f)'
      BY <1>2, <2>0, <3>4, <3>5, <3>6, <3>7 DEF InOrder, Sorted, NotAfter, UpTo
    <3>8. \A time \in Nat : time <= clock /\ From(time, wire[f]) => From(time, wire'[f])
      BY <1>2, <1>3, <1>4, <3>1 DEF From
    <3>9. QED BY <3>3, <3>8, <3>10
  <2>4. QED BY <1>5, <2>2, <2>3
<1>9. CacheInOrder'
  <2> SUFFICES ASSUME feed # 0, NEW t1 \in Tokens, cache[t1] # NoBook
               PROVE  /\ cache[t1].at <= clock'
                      /\ From(cache[t1].at, rx[feed]) /\ From(cache[t1].at, out[feed])
                      /\ From(cache[t1].at, wire'[feed])
    BY <1>2 DEF CacheInOrder, From
  <2>1. /\ cache[t1].at <= clock
        /\ From(cache[t1].at, rx[feed]) /\ From(cache[t1].at, out[feed]) /\ From(cache[t1].at, wire[feed])
    BY DEF DataInv, CacheInOrder
  <2>2. cache[t1].at \in Nat /\ feed \in Feeds
    BY Constants DEF DataInv, TypeOK, Books, Feeds
  <2>3. QED BY <1>3, <1>8, <2>1, <2>2
<1>10. QED BY <1>6, <1>7, <1>8, <1>9 DEF DataInv

-----------------------------------------------------------------------------
(* Steps of a feed's task. *)

\* A feed's step needs to be looked at in that feed's queues only.
LEMMA FeedTaskKeeps ==
  ASSUME DataInv, NEW f \in Feeds, NEW a \in Stages \ {"unborn"}, NEW b \in Stages \ {"unborn"},
         GoesTo(f, a, b), faults' \in 0..MaxFaults,
         wire' \in [Feeds -> Seq(Frames)], out' \in [Feeds -> Seq(Books)], rx' \in [Feeds -> Seq(Books)],
         Len(rx'[f]) <= RxCap,
         \A g \in Feeds \ {f} : wire'[g] = wire[g] /\ out'[g] = out[g] /\ rx'[g] = rx[g],
         OwnBooks(f)' /\ InOrder(f)',
         \A time \in Nat : /\ time <= clock
                           /\ From(time, rx[f]) /\ From(time, out[f]) /\ From(time, wire[f])
                           => From(time, rx'[f]) /\ From(time, out'[f]) /\ From(time, wire'[f])
  PROVE  DataInv'
<1>1. /\ at[f] = a /\ at' = [at EXCEPT ![f] = b]
      /\ UNCHANGED <<market, round, phase, unread, started, currentIds, feed, cache, misfiled, ids, quote, clock>>
  BY DEF GoesTo, rotationVars, taskVars, exchangeVars
<1>2. TypeOK'
  <2>1. at' \in [Feeds -> Stages]
    BY <1>1 DEF DataInv, TypeOK
  <2>2. MarketTypeOK'
    BY <1>1 DEF DataInv, TypeOK, MarketTypeOK
  <2>3. \A g \in Feeds : Len(rx'[g]) <= RxCap
    BY DEF DataInv, TypeOK
  <2>4. QED BY <1>1, <2>1, <2>2, <2>3 DEF DataInv, TypeOK
<1>3. LinkInv' /\ CacheIsOfOneMarket'
  BY <1>1 DEF DataInv, TypeOK, LinkInv, CacheIsOfOneMarket, Empty
<1>4. \A g \in Feeds : OwnBooks(g)' /\ InOrder(g)'
  <2>1. ASSUME NEW g \in Feeds \ {f} PROVE OwnBooks(g)' /\ InOrder(g)'
    BY <1>1, <2>1, FeedKeeps DEF DataInv, TypeOK
  <2>2. QED BY <2>1
<1>5. CacheInOrder'
  <2> SUFFICES ASSUME feed # 0, NEW t \in Tokens, cache[t] # NoBook
               PROVE  /\ cache[t].at <= clock
                      /\ From(cache[t].at, rx'[feed]) /\ From(cache[t].at, out'[feed])
                      /\ From(cache[t].at, wire'[feed])
    BY <1>1 DEF CacheInOrder, From
  <2>1. /\ cache[t].at <= clock
        /\ From(cache[t].at, rx[feed]) /\ From(cache[t].at, out[feed]) /\ From(cache[t].at, wire[feed])
    BY DEF DataInv, CacheInOrder
  <2>2. cache[t].at \in Nat /\ feed \in Feeds
    BY Constants DEF DataInv, TypeOK, Books, Feeds
  <2>3. CASE feed = f BY <2>1, <2>2, <2>3
  <2>4. CASE feed # f BY <2>1, <2>2, <2>4
  <2>5. QED BY <2>3, <2>4
<1>6. QED BY <1>2, <1>3, <1>4, <1>5 DEF DataInv

\* Queues that were emptied are in order.
LEMMA EmptyInOrder ==
  ASSUME NEW s, s = <<>>
  PROVE  /\ Sorted(s) /\ \A time : UpTo(s, time) /\ From(time, s)
         /\ \A u : NotAfter(s, u) /\ NotAfter(u, s)
BY DEF Sorted, UpTo, From, NotAfter

\* The rest of a queue says of times what the queue did.
LEMMA TailInOrder ==
  ASSUME NEW S, NEW s \in Seq(S), s # <<>>
  PROVE  /\ \A i \in 1..Len(Tail(s)) : \E k \in 1..Len(s) : Tail(s)[i] = s[k]
         /\ Sorted(s) => Sorted(Tail(s)) /\ From(s[1].at, Tail(s))
         /\ \A time : UpTo(s, time) => UpTo(Tail(s), time)
         /\ \A time : From(time, s) => From(time, Tail(s)) /\ time <= s[1].at
         /\ \A u : NotAfter(s, u) => NotAfter(Tail(s), u) /\ From(s[1].at, u)
         /\ \A u : NotAfter(u, s) => NotAfter(u, Tail(s)) /\ UpTo(u, s[1].at)
<1>1. /\ 1 \in 1..Len(s) /\ Len(s) \in Nat
      /\ \A i \in 1..Len(Tail(s)) : Tail(s)[i] = s[i + 1] /\ i + 1 \in 1..Len(s) /\ 1 <= i + 1
  BY TailLemma
<1>2. ASSUME Sorted(s) PROVE Sorted(Tail(s)) /\ From(s[1].at, Tail(s))
  <2>1. ASSUME NEW i \in 1..Len(Tail(s)), NEW j \in 1..Len(Tail(s)), i <= j
        PROVE  Tail(s)[i].at <= Tail(s)[j].at
    <3>1. i + 1 <= j + 1
      BY <2>1
    <3>2. QED BY <1>1, <1>2, <3>1 DEF Sorted
  <2>2. From(s[1].at, Tail(s))
    BY <1>1, <1>2 DEF Sorted, From
  <2>3. QED BY <2>1, <2>2 DEF Sorted
<1>3. /\ \A time : UpTo(s, time) => UpTo(Tail(s), time)
      /\ \A time : From(time, s) => From(time, Tail(s)) /\ time <= s[1].at
  BY <1>1 DEF UpTo, From
<1>4. /\ \A u : NotAfter(s, u) => NotAfter(Tail(s), u) /\ From(s[1].at, u)
      /\ \A u : NotAfter(u, s) => NotAfter(u, Tail(s)) /\ UpTo(u, s[1].at)
  BY <1>1 DEF NotAfter, From, UpTo
<1>5. QED BY <1>1, <1>2, <1>3, <1>4

\* So does a queue that an element is added to, when the element comes last.
LEMMA AppendInOrder ==
  ASSUME NEW S, NEW s \in Seq(S), NEW e \in S, e.at \in Nat
  PROVE  /\ \A i \in 1..Len(Append(s, e)) : Append(s, e)[i] = e \/ (\E k \in 1..Len(s) : Append(s, e)[i] = s[k])
         /\ Sorted(s) /\ UpTo(s, e.at) => Sorted(Append(s, e))
         /\ \A time : UpTo(s, time) /\ e.at <= time => UpTo(Append(s, e), time)
         /\ \A time : From(time, s) /\ time <= e.at => From(time, Append(s, e))
         /\ \A u : NotAfter(s, u) /\ From(e.at, u) => NotAfter(Append(s, e), u)
         /\ \A u : NotAfter(u, s) /\ UpTo(u, e.at) => NotAfter(u, Append(s, e))
<1> DEFINE t == Append(s, e)
<1>1. \A i \in 1..Len(t) : \/ i \in 1..Len(s) /\ t[i] = s[i]
                           \/ i = Len(s) + 1 /\ t[i] = e
  BY AppendLemma
<1>2. Len(s) \in Nat /\ Len(t) = Len(s) + 1
  BY AppendLemma
<1> HIDE DEF t
<1>3. ASSUME Sorted(s), UpTo(s, e.at), NEW i \in 1..Len(t), NEW j \in 1..Len(t), i <= j
      PROVE  t[i].at <= t[j].at
  <2>1. CASE j \in 1..Len(s) /\ t[j] = s[j]
    <3>1. i \in 1..Len(s) /\ t[i] = s[i]
      BY <1>1, <1>2, <1>3, <2>1
    <3>2. QED BY <1>3, <2>1, <3>1 DEF Sorted
  <2>2. CASE t[j] = e
    BY <1>1, <1>3, <2>2 DEF UpTo
  <2>3. QED BY <1>1, <2>1, <2>2
<1>4. /\ \A time : UpTo(s, time) /\ e.at <= time => UpTo(t, time)
      /\ \A time : From(time, s) /\ time <= e.at => From(time, t)
  BY <1>1 DEF UpTo, From
<1>5. /\ \A u : NotAfter(s, u) /\ From(e.at, u) => NotAfter(t, u)
      /\ \A u : NotAfter(u, s) /\ UpTo(u, e.at) => NotAfter(u, t)
  BY <1>1 DEF NotAfter, UpTo, From
<1>6. \A i \in 1..Len(t) : t[i] = e \/ (\E k \in 1..Len(s) : t[i] = s[k])
  BY <1>1
<1>7. Sorted(s) /\ UpTo(s, e.at) => Sorted(t)
  BY <1>3 DEF Sorted
<1>8. QED BY <1>4, <1>5, <1>6, <1>7 DEF t

LEMMA FeedStepKeeps ==
  ASSUME DataInv, NEW f \in Feeds, FeedStep(f) \/ Disconnect(f) \/ Die(f)
  PROVE  DataInv'
<1>1. /\ wire \in [Feeds -> Seq(Frames)] /\ out \in [Feeds -> Seq(Books)] /\ rx \in [Feeds -> Seq(Books)]
      /\ wire[f] \in Seq(Frames) /\ out[f] \in Seq(Books) /\ rx[f] \in Seq(Books)
      /\ Len(rx[f]) <= RxCap /\ faults \in 0..MaxFaults /\ clock \in Nat
      /\ OwnBooks(f) /\ InOrder(f)
  BY Constants DEF DataInv, TypeOK
<1>2. /\ \A i \in 1..Len(rx[f]) : rx[f][i].at \in Nat
      /\ \A i \in 1..Len(out[f]) : out[f][i].at \in Nat
      /\ \A i \in 1..Len(wire[f]) : wire[f][i].at \in Nat
  BY TimesAreNat DEF DataInv
<1> DEFINE IsStage(b) == b \in Stages \ {"unborn"}
<1>3. /\ IsStage("connecting") /\ IsStage("subscribing") /\ IsStage("reading")
      /\ IsStage("backoff") /\ IsStage("ended")
  BY DEF Stages
\* What every step leaves alone.
<1>4. ASSUME NEW a, NEW b, IsStage(b), GoesTo(f, a, b)
      PROVE  clock' = clock /\ ids'[f] = ids[f] /\ at'[f] # "unborn"
  BY <1>4 DEF GoesTo, exchangeVars, DataInv, TypeOK
\* Steps that at most empty queues.
<1>5. ASSUME NEW a, NEW b, IsStage(a), IsStage(b), GoesTo(f, a, b), faults' \in 0..MaxFaults, rx' = rx,
             wire' = wire \/ wire' = [wire EXCEPT ![f] = <<>>],
             out' = out \/ out' = [out EXCEPT ![f] = <<>>]
      PROVE  DataInv'
  <2>1. /\ wire' \in [Feeds -> Seq(Frames)] /\ out' \in [Feeds -> Seq(Books)]
        /\ wire'[f] = wire[f] \/ wire'[f] = <<>>
        /\ out'[f] = out[f] \/ out'[f] = <<>>
        /\ \A g \in Feeds \ {f} : wire'[g] = wire[g] /\ out'[g] = out[g]
    <3>1. /\ wire' \in [Feeds -> Seq(Frames)]
          /\ wire'[f] = wire[f] \/ wire'[f] = <<>>
          /\ \A g \in Feeds \ {f} : wire'[g] = wire[g]
      <4>1. <<>> \in Seq(Frames) OBVIOUS
      <4>2. CASE wire' = wire BY <1>1, <4>2
      <4>3. CASE wire' = [wire EXCEPT ![f] = <<>>] BY <1>1, <4>1, <4>3
      <4>4. QED BY <1>5, <4>2, <4>3
    <3>2. /\ out' \in [Feeds -> Seq(Books)]
          /\ out'[f] = out[f] \/ out'[f] = <<>>
          /\ \A g \in Feeds \ {f} : out'[g] = out[g]
      <4>1. <<>> \in Seq(Books) OBVIOUS
      <4>2. CASE out' = out BY <1>1, <4>2
      <4>3. CASE out' = [out EXCEPT ![f] = <<>>] BY <1>1, <4>1, <4>3
      <4>4. QED BY <1>5, <4>2, <4>3
    <3>3. QED BY <3>1, <3>2
  <2>2. clock' = clock /\ ids'[f] = ids[f] /\ at'[f] # "unborn" /\ at[f] # "unborn"
    BY <1>4, <1>5 DEF GoesTo
  <2>3. OwnBooks(f)'
    <3>1. \A i \in 1..Len(wire'[f]) :
            \A j \in 1..Len(wire'[f][i].levels) : wire'[f][i].levels[j].token[1] = ids[f]
      <4>1. CASE wire'[f] = wire[f] BY <1>1, <4>1 DEF OwnBooks
      <4>2. CASE wire'[f] = <<>> BY <4>2
      <4>3. QED BY <2>1, <4>1, <4>2
    <3>2. \A i \in 1..Len(out'[f]) : out'[f][i].token[1] = ids[f]
      <4>1. CASE out'[f] = out[f] BY <1>1, <4>1 DEF OwnBooks
      <4>2. CASE out'[f] = <<>> BY <4>2
      <4>3. QED BY <2>1, <4>1, <4>2
    <3>3. ids[f] # 0 /\ \A i \in 1..Len(rx[f]) : rx[f][i].token[1] = ids[f]
      BY <1>1, <2>2 DEF OwnBooks
    <3>4. rx'[f] = rx[f]
      BY <1>5
    <3>5. QED BY <2>2, <3>1, <3>2, <3>3, <3>4 DEF OwnBooks
  <2>4. InOrder(f)'
    <3>1. Sorted(wire'[f]) /\ UpTo(wire'[f], clock) /\ NotAfter(rx[f], wire'[f]) /\ NotAfter(out[f], wire'[f])
      BY <1>1, <2>1, EmptyInOrder DEF InOrder
    <3>2. Sorted(out'[f]) /\ UpTo(out'[f], clock) /\ NotAfter(rx[f], out'[f]) /\ NotAfter(out'[f], wire'[f])
      BY <1>1, <2>1, <3>1, EmptyInOrder DEF InOrder
    <3>3. QED BY <1>1, <1>5, <2>2, <3>1, <3>2 DEF InOrder, Sorted, UpTo, NotAfter
  <2>5. \A time \in Nat : From(time, out[f]) /\ From(time, wire[f]) => From(time, out'[f]) /\ From(time, wire'[f])
    BY <2>1, EmptyInOrder
  <2>6. QED BY <1>1, <1>5, <2>1, <2>3, <2>4, <2>5, FeedTaskKeeps
<1>6. CASE Connected(f) \/ Retry(f)
  BY <1>1, <1>3, <1>5, <1>6 DEF Connected, Retry
<1>7. CASE ReceiverDropped(f)
  BY <1>1, <1>3, <1>5, <1>7 DEF ReceiverDropped
<1>8. CASE Disconnect(f) \/ Die(f)
  <2>1. faults' \in 0..MaxFaults
    BY <1>1, <1>8, Constants DEF Disconnect, Die
  <2>2. QED BY <1>3, <1>5, <1>8, <2>1 DEF Disconnect, Die
<1>9. CASE Subscribed(f)
  <2>1. PICK s \in Snapshots(ids[f]) : wire' = [wire EXCEPT ![f] = <<s>>]
    BY <1>9 DEF Subscribed
  <2>2. /\ GoesTo(f, "subscribing", "reading") /\ out' = out /\ rx' = rx /\ faults' = faults
        /\ at[f] = "subscribing"
    BY <1>9 DEF Subscribed, GoesTo
  <2>3. ids[f] \in Rounds
    <3>1. ids[f] \in 0..MaxRounds /\ ids[f] # 0
      BY <1>1, <2>2 DEF OwnBooks, DataInv, TypeOK
    <3>2. QED BY <3>1, Constants DEF Rounds
  <2>4. /\ s \in Frames /\ s.at = clock
        /\ \A j \in 1..Len(s.levels) : s.levels[j].token[1] = ids[f]
    BY <2>3, SnapshotIsFrame DEF DataInv
  <2>5. /\ wire' \in [Feeds -> Seq(Frames)] /\ wire'[f] = <<s>>
        /\ \A g \in Feeds \ {f} : wire'[g] = wire[g]
    BY <1>1, <2>1, <2>4
  <2>6. clock' = clock /\ ids'[f] = ids[f] /\ at'[f] # "unborn"
    BY <1>3, <1>4, <2>2
  <2>7. \A i \in 1..Len(wire'[f]) : wire'[f][i] = s
    BY <2>5
  <2>8. OwnBooks(f)'
    BY <1>1, <2>2, <2>4, <2>6, <2>7 DEF OwnBooks
  <2>9. InOrder(f)'
    <3>0. clock <= clock BY <1>1
    <3>1. Sorted(wire'[f]) /\ UpTo(wire'[f], clock) /\ NotAfter(rx[f], wire'[f]) /\ NotAfter(out[f], wire'[f])
      <4>1. Sorted(wire'[f]) /\ UpTo(wire'[f], clock)
        BY <2>4, <2>7, <3>0 DEF Sorted, UpTo
      <4>2. UpTo(rx[f], clock) /\ UpTo(out[f], clock)
        BY <1>1 DEF InOrder
      <4>3. NotAfter(rx[f], wire'[f]) /\ NotAfter(out[f], wire'[f])
        BY <2>4, <2>7, <4>2 DEF UpTo, NotAfter
      <4>4. QED BY <4>1, <4>3
    <3>2. QED BY <1>1, <2>2, <2>6, <3>1 DEF InOrder, Sorted, UpTo, NotAfter
  <2>10. \A time \in Nat : time <= clock => From(time, wire'[f])
    BY <2>4, <2>7 DEF From
  <2>11. QED BY <1>1, <1>3, <2>2, <2>5, <2>8, <2>9, <2>10, FeedTaskKeeps
<1>10. CASE ReadFrame(f)
  <2> DEFINE frame == Head(wire[f])
  <2> DEFINE books == ToOutcomeBooks(frame)
  <2>1. /\ out[f] = <<>> /\ wire[f] # <<>> /\ GoesTo(f, "reading", "reading")
        /\ wire' = [wire EXCEPT ![f] = Tail(wire[f])]
        /\ out' = [out EXCEPT ![f] = books]
        /\ rx' = rx /\ faults' = faults
    BY <1>10 DEF ReadFrame
  <2>2. /\ frame \in Frames /\ frame = wire[f][1] /\ 1 \in 1..Len(wire[f])
        /\ Tail(wire[f]) \in Seq(Frames) /\ Len(wire[f]) \in Nat
        /\ \A i \in 1..Len(Tail(wire[f])) : Tail(wire[f])[i] = wire[f][i + 1] /\ i + 1 \in 1..Len(wire[f])
    BY <1>1, <2>1, TailLemma
  <2>3. /\ books \in Seq(Books) /\ Len(books) = Len(frame.levels)
        /\ \A i \in 1..Len(books) : books[i].token = frame.levels[i].token /\ books[i].at = frame.at
    BY <2>2, BooksOfFrame
  <2> HIDE DEF books, frame
  <2>4. /\ wire' \in [Feeds -> Seq(Frames)] /\ out' \in [Feeds -> Seq(Books)]
        /\ wire'[f] = Tail(wire[f]) /\ out'[f] = books
        /\ \A g \in Feeds \ {f} : wire'[g] = wire[g] /\ out'[g] = out[g]
    BY <1>1, <2>1, <2>2, <2>3
  <2>5. clock' = clock /\ ids'[f] = ids[f] /\ at'[f] # "unborn"
    BY <1>3, <1>4, <2>1
  <2>6. frame.at \in Nat
    BY <1>2, <2>2
  <2>7. OwnBooks(f)'
    <3>1. \A i \in 1..Len(books) : books[i].token[1] = ids[f]
      BY <1>1, <2>2, <2>3 DEF OwnBooks
    <3>2. \A i \in 1..Len(Tail(wire[f])) : \E k \in 1..Len(wire[f]) : Tail(wire[f])[i] = wire[f][k]
      BY <1>1, <2>1, TailInOrder
    <3>3. \A i \in 1..Len(wire'[f]) :
            \A j \in 1..Len(wire'[f][i].levels) : wire'[f][i].levels[j].token[1] = ids[f]
      <4> DEFINE Own(w) == \A j \in 1..Len(w.levels) : w.levels[j].token[1] = ids[f]
      <4>1. \A k \in 1..Len(wire[f]) : Own(wire[f][k])
        BY <1>1 DEF OwnBooks
      <4> HIDE DEF Own
      <4>2. \A i \in 1..Len(wire'[f]) : Own(wire'[f][i])
        BY <2>4, <3>2, <4>1
      <4>3. QED BY <4>2 DEF Own
    <3>4. \A i \in 1..Len(out'[f]) : out'[f][i].token[1] = ids[f]
      BY <2>4, <3>1
    <3>5. ids[f] # 0 /\ \A i \in 1..Len(rx[f]) : rx[f][i].token[1] = ids[f]
      BY <1>1, <2>1 DEF OwnBooks, GoesTo
    <3>6. rx'[f] = rx[f]
      BY <2>1
    <3>7. QED BY <2>5, <3>3, <3>4, <3>5, <3>6 DEF OwnBooks
  <2>8. /\ From(frame.at, wire'[f]) /\ UpTo(rx[f], frame.at) /\ frame.at <= clock
        /\ Sorted(wire'[f]) /\ UpTo(wire'[f], clock) /\ NotAfter(rx[f], wire'[f])
    BY <1>1, <2>1, <2>2, <2>4, TailInOrder DEF InOrder, UpTo
  <2>9. InOrder(f)'
    <3>1. Sorted(books) /\ UpTo(books, clock) /\ NotAfter(rx[f], books) /\ NotAfter(books, wire'[f])
      BY <2>3, <2>6, <2>8 DEF UpTo, From, NotAfter, Sorted
    <3>2. Sorted(rx[f]) /\ UpTo(rx[f], clock)
      BY <1>1 DEF InOrder
    <3>3. /\ Sorted(rx'[f]) /\ Sorted(out'[f]) /\ Sorted(wire'[f])
          /\ NotAfter(rx'[f], out'[f]) /\ NotAfter(rx'[f], wire'[f]) /\ NotAfter(out'[f], wire'[f])
          /\ UpTo(rx'[f], clock') /\ UpTo(out'[f], clock') /\ UpTo(wire'[f], clock')
      BY <2>1, <2>4, <2>5, <2>8, <3>1, <3>2
    <3>4. QED BY <3>3 DEF InOrder, Sorted, UpTo, NotAfter
  <2>10. ASSUME NEW time \in Nat, From(time, wire[f])
         PROVE  From(time, wire'[f]) /\ From(time, out'[f])
    <3>1. From(time, wire'[f]) /\ time <= frame.at
      BY <1>1, <2>1, <2>2, <2>4, <2>10, TailInOrder
    <3>2. QED BY <2>3, <2>4, <3>1 DEF From
  <2>11. QED BY <1>1, <1>3, <2>1, <2>4, <2>7, <2>9, <2>10, FeedTaskKeeps
<1>11. CASE SendBook(f)
  <2> DEFINE book == Head(out[f])
  <2>1. /\ out[f] # <<>> /\ Len(rx[f]) < RxCap /\ GoesTo(f, "reading", "reading")
        /\ rx' = [rx EXCEPT ![f] = Append(rx[f], book)]
        /\ out' = [out EXCEPT ![f] = Tail(out[f])]
        /\ wire' = wire /\ faults' = faults
    BY <1>11 DEF SendBook
  <2>2. /\ book \in Books /\ book = out[f][1] /\ 1 \in 1..Len(out[f])
        /\ Tail(out[f]) \in Seq(Books) /\ Len(out[f]) \in Nat
        /\ \A i \in 1..Len(Tail(out[f])) : Tail(out[f])[i] = out[f][i + 1] /\ i + 1 \in 1..Len(out[f])
    BY <1>1, <2>1, TailLemma
  <2> HIDE DEF book
  <2>3. /\ Append(rx[f], book) \in Seq(Books) /\ Len(Append(rx[f], book)) = Len(rx[f]) + 1 /\ Len(rx[f]) \in Nat
        /\ \A i \in 1..Len(Append(rx[f], book)) : \/ i \in 1..Len(rx[f]) /\ Append(rx[f], book)[i] = rx[f][i]
                                                  \/ i = Len(rx[f]) + 1 /\ Append(rx[f], book)[i] = book
    BY <1>1, <2>2, AppendLemma
  <2>4. /\ rx' \in [Feeds -> Seq(Books)] /\ out' \in [Feeds -> Seq(Books)]
        /\ rx'[f] = Append(rx[f], book) /\ out'[f] = Tail(out[f]) /\ Len(rx'[f]) <= RxCap
        /\ \A g \in Feeds \ {f} : rx'[g] = rx[g] /\ out'[g] = out[g]
    BY <1>1, <2>1, <2>2, <2>3, Constants
  <2>5. clock' = clock /\ ids'[f] = ids[f] /\ at'[f] # "unborn"
    BY <1>3, <1>4, <2>1
  <2>6. book.at \in Nat
    BY <1>2, <2>2
  <2>7. OwnBooks(f)'
    <3>1. \A i \in 1..Len(rx'[f]) : rx'[f][i] = book \/ (\E k \in 1..Len(rx[f]) : rx'[f][i] = rx[f][k])
      BY <1>1, <2>2, <2>4, <2>6, AppendInOrder
    <3>2. \A i \in 1..Len(out'[f]) : \E k \in 1..Len(out[f]) : out'[f][i] = out[f][k]
      <4>1. \A i \in 1..Len(Tail(out[f])) : \E k \in 1..Len(out[f]) : Tail(out[f])[i] = out[f][k]
        BY <1>1, <2>1, TailInOrder
      <4>2. QED BY <2>4, <4>1
    <3>3. /\ \A i \in 1..Len(rx'[f]) : rx'[f][i].token[1] = ids[f]
          /\ \A i \in 1..Len(out'[f]) : out'[f][i].token[1] = ids[f]
      <4>1. /\ \A k \in 1..Len(rx[f]) : rx[f][k].token[1] = ids[f]
            /\ \A k \in 1..Len(out[f]) : out[f][k].token[1] = ids[f]
            /\ book.token[1] = ids[f]
        BY <1>1, <2>2 DEF OwnBooks
      <4>2. \A i \in 1..Len(rx'[f]) : rx'[f][i].token[1] = ids[f]
        BY <3>1, <4>1
      <4>3. \A i \in 1..Len(out'[f]) : out'[f][i].token[1] = ids[f]
        BY <3>2, <4>1
      <4>4. QED BY <4>2, <4>3
    <3>4. /\ ids[f] # 0
          /\ \A i \in 1..Len(wire[f]) :
               \A j \in 1..Len(wire[f][i].levels) : wire[f][i].levels[j].token[1] = ids[f]
      BY <1>1, <2>1 DEF OwnBooks, GoesTo
    <3>5. wire'[f] = wire[f]
      BY <2>1
    <3>6. QED BY <2>5, <3>3, <3>4, <3>5 DEF OwnBooks
  <2>8. /\ Sorted(out'[f]) /\ UpTo(out'[f], clock) /\ NotAfter(out'[f], wire[f]) /\ NotAfter(rx[f], out'[f])
        /\ From(book.at, out'[f]) /\ From(book.at, wire[f]) /\ UpTo(rx[f], book.at) /\ book.at <= clock
    BY <1>1, <2>1, <2>2, <2>4, TailInOrder DEF InOrder, UpTo
  <2>9. InOrder(f)'
    <3>1. /\ Sorted(rx[f]) /\ UpTo(rx[f], clock) /\ NotAfter(rx[f], wire[f])
          /\ Sorted(wire[f]) /\ UpTo(wire[f], clock)
      BY <1>1 DEF InOrder
    <3>2. /\ Sorted(rx'[f]) /\ UpTo(rx'[f], clock) /\ NotAfter(rx'[f], wire[f]) /\ NotAfter(rx'[f], out'[f])
      BY <1>1, <2>2, <2>4, <2>6, <2>8, <3>1, AppendInOrder
    <3>3. /\ Sorted(rx'[f]) /\ Sorted(out'[f]) /\ Sorted(wire'[f])
          /\ NotAfter(rx'[f], out'[f]) /\ NotAfter(rx'[f], wire'[f]) /\ NotAfter(out'[f], wire'[f])
          /\ UpTo(rx'[f], clock') /\ UpTo(out'[f], clock') /\ UpTo(wire'[f], clock')
      BY <2>1, <2>5, <2>8, <3>1, <3>2
    <3>4. QED BY <3>3 DEF InOrder, Sorted, UpTo, NotAfter
  <2>10. ASSUME NEW time \in Nat, From(time, rx[f]), From(time, out[f])
         PROVE  From(time, rx'[f]) /\ From(time, out'[f])
    <3>1. From(time, out'[f]) /\ time <= book.at
      BY <1>1, <2>1, <2>2, <2>4, <2>10, TailInOrder
    <3>2. From(time, rx'[f])
      BY <1>1, <2>2, <2>4, <2>6, <2>10, <3>1, AppendInOrder
    <3>3. QED BY <3>1, <3>2
  <2>11. QED BY <1>1, <1>3, <2>1, <2>4, <2>7, <2>9, <2>10, FeedTaskKeeps
<1>12. QED BY <1>6, <1>7, <1>8, <1>9, <1>10, <1>11 DEF FeedStep

-----------------------------------------------------------------------------
(* market_data_task. *)

\* A new feed starts with empty queues, and the old one's channel is emptied.
LEMMA ConnectFeedKeeps ==
  ASSUME DataInv, market.slug # 0, ConnectFeed(market.slug), cache' = Empty, started' = TRUE, unread' \in BOOLEAN,
         UNCHANGED <<rotationVars, misfiled, wire, out, exchangeVars, faults>>
  PROVE  DataInv'
<1> DEFINE r == market.slug
<1>1. PICK f \in Feeds :
        /\ at[f] = "unborn" /\ ids' = [ids EXCEPT ![f] = r] /\ at' = [at EXCEPT ![f] = "connecting"]
        /\ feed' = f /\ currentIds' = r
        /\ rx' = IF feed = 0 THEN rx ELSE [rx EXCEPT ![feed] = <<>>]
  BY DEF ConnectFeed
<1>2. UNCHANGED <<market, round, phase, misfiled, wire, out, quote, clock, faults>>
  BY DEF rotationVars, exchangeVars
<1>3. r \in 0..MaxRounds /\ r # 0 /\ f # 0 /\ f \in 0..MaxFeeds
  BY Constants DEF DataInv, TypeOK, MarketTypeOK, Markets
<1>4. /\ rx' \in [Feeds -> Seq(Books)]
      /\ \A g \in Feeds : rx'[g] = rx[g] \/ rx'[g] = <<>>
      /\ \A g \in Feeds : Len(rx'[g]) <= RxCap
  <2>1. rx \in [Feeds -> Seq(Books)] /\ \A g \in Feeds : Len(rx[g]) <= RxCap
    BY DEF DataInv, TypeOK
  <2>2. <<>> \in Seq(Books) /\ Len(<<>>) <= RxCap
    BY Constants
  <2>3. CASE feed = 0
    BY <1>1, <2>1, <2>3
  <2>4. CASE feed # 0
    <3>1. rx' = [rx EXCEPT ![feed] = <<>>]
      BY <1>1, <2>4
    <3>2. QED BY <2>1, <2>2, <3>1
  <2>5. QED BY <2>3, <2>4
<1>5. TypeOK'
  <2>1. /\ ids' \in [Feeds -> 0..MaxRounds] /\ at' \in [Feeds -> Stages]
        /\ cache' \in [Tokens -> Books \cup {NoBook}]
    BY <1>1, <1>3 DEF DataInv, TypeOK, Stages, Empty
  <2>2. MarketTypeOK'
    BY <1>2 DEF DataInv, TypeOK, MarketTypeOK
  <2>3. QED BY <1>1, <1>2, <1>3, <1>4, <2>1, <2>2 DEF DataInv, TypeOK
<1>6. LinkInv'
  <2>1. ids'[f] = r /\ at'[f] = "connecting"
    BY <1>1 DEF DataInv, TypeOK
  <2>2. QED BY <1>1, <1>2, <1>3, <2>1 DEF LinkInv
<1>7. \A t \in Tokens : cache'[t] = NoBook
  BY DEF Empty
<1>8. CacheIsOfOneMarket' /\ CacheInOrder'
  <2>1. CacheIsOfOneMarket'
    BY <1>7 DEF CacheIsOfOneMarket
  <2>2. CacheInOrder'
    BY <1>7 DEF CacheInOrder
  <2>3. QED BY <2>1, <2>2
<1>9. ASSUME NEW g \in Feeds
      PROVE  OwnBooks(g)' /\ InOrder(g)'
  <2>1. OwnBooks(g) /\ InOrder(g)
    BY DEF DataInv
  <2>2. CASE g = f
    <3>1. wire[g] = <<>> /\ out[g] = <<>> /\ rx[g] = <<>>
      BY <1>1, <2>1, <2>2 DEF OwnBooks
    <3>2. wire'[g] = <<>> /\ out'[g] = <<>> /\ rx'[g] = <<>>
      BY <1>2, <1>4, <3>1
    <3>3. ids'[g] = r /\ at'[g] = "connecting"
      BY <1>1, <2>2 DEF DataInv, TypeOK
    <3>4. OwnBooks(g)'
      BY <1>3, <3>2, <3>3 DEF OwnBooks
    <3>5. InOrder(g)'
      BY <3>2 DEF InOrder, Sorted, NotAfter, UpTo
    <3>6. QED BY <3>4, <3>5
  <2>3. CASE g # f
    <3>1. ids'[g] = ids[g] /\ at'[g] = at[g] /\ wire'[g] = wire[g] /\ out'[g] = out[g]
      BY <1>1, <1>2, <2>3 DEF DataInv, TypeOK
    <3>2. OwnBooks(g)'
      <4>1. CASE rx'[g] = rx[g]
        BY <2>1, <3>1, <4>1 DEF OwnBooks
      <4>2. CASE rx'[g] = <<>>
        BY <2>1, <3>1, <4>2 DEF OwnBooks
      <4>3. QED BY <1>4, <4>1, <4>2
    <3>3. InOrder(g)'
      <4>1. CASE rx'[g] = rx[g]
        BY <1>2, <2>1, <3>1, <4>1 DEF InOrder, Sorted, NotAfter, UpTo
      <4>2. CASE rx'[g] = <<>>
        <5>1. /\ Sorted(rx'[g]) /\ Sorted(out[g]) /\ Sorted(wire[g])
              /\ NotAfter(rx'[g], out[g]) /\ NotAfter(rx'[g], wire[g]) /\ NotAfter(out[g], wire[g])
              /\ UpTo(rx'[g], clock) /\ UpTo(out[g], clock) /\ UpTo(wire[g], clock)
          BY <2>1, <4>2, EmptyInOrder DEF InOrder
        <5>2. QED BY <1>2, <3>1, <5>1 DEF InOrder, Sorted, NotAfter, UpTo
      <4>3. QED BY <1>4, <4>1, <4>2
    <3>4. QED BY <3>2, <3>3
  <2>4. QED BY <2>2, <2>3
<1>10. QED BY <1>5, <1>6, <1>8, <1>9 DEF DataInv

\* Only the task's own variables change, and a subscription only ends.
LEMMA TaskKeeps ==
  ASSUME DataInv, LinkInv', started' \in BOOLEAN, unread' \in BOOLEAN, cache' = cache,
         UNCHANGED <<feed, currentIds>> \/ (feed' = 0 /\ currentIds' = 0),
         UNCHANGED <<rotationVars, misfiled, feedVars, exchangeVars, faults>>
  PROVE  DataInv'
<1>1. UNCHANGED <<market, round, phase, misfiled, ids, at, wire, out, rx, quote, clock, faults>>
  BY DEF rotationVars, feedVars, exchangeVars
<1>2. feed' \in 0..MaxFeeds /\ currentIds' \in 0..MaxRounds
  BY Constants DEF DataInv, TypeOK
<1>3. TypeOK'
  <2>1. MarketTypeOK'
    BY <1>1 DEF DataInv, TypeOK, MarketTypeOK
  <2>2. QED BY <1>1, <1>2, <2>1 DEF DataInv, TypeOK
<1>4. CacheIsOfOneMarket'
  BY DEF DataInv, CacheIsOfOneMarket
<1>5. CacheInOrder'
  BY <1>1 DEF DataInv, CacheInOrder, From
<1>6. \A f \in Feeds : OwnBooks(f)' /\ InOrder(f)'
  BY <1>1, FeedKeeps DEF DataInv
<1>7. QED BY <1>3, <1>4, <1>5, <1>6 DEF DataInv

LEMMA StartUpStep == DataInv /\ StartUp => DataInv'
<1> SUFFICES ASSUME DataInv, StartUp PROVE DataInv'
  OBVIOUS
<1>1. ~started /\ started' = TRUE /\ feed = 0 /\ cache = Empty /\ cache' = cache /\ unread' = unread
      /\ UNCHANGED <<rotationVars, misfiled, wire, out, exchangeVars, faults>>
  BY DEF StartUp, DataInv, LinkInv
<1>2. CASE market.slug = 0
  <2>1. UNCHANGED <<ids, at, rx, feed, currentIds>>
    BY <1>2 DEF StartUp
  <2>2. LinkInv'
    BY <1>1, <2>1 DEF DataInv, LinkInv, rotationVars
  <2>3. QED BY <1>1, <2>1, <2>2, TaskKeeps DEF DataInv, TypeOK, feedVars
<1>3. CASE market.slug # 0
  <2>1. ConnectFeed(market.slug)
    BY <1>3 DEF StartUp
  <2>2. QED BY <1>1, <1>3, <2>1, ConnectFeedKeeps DEF DataInv, TypeOK
<1>4. QED BY <1>2, <1>3

LEMMA OnMarketChangedStep == DataInv /\ OnMarketChanged => DataInv'
<1> SUFFICES ASSUME DataInv, OnMarketChanged PROVE DataInv'
  OBVIOUS
<1>1. started /\ started' = started /\ unread /\ unread' = FALSE /\ market.slug # 0
      /\ UNCHANGED <<rotationVars, misfiled, wire, out, exchangeVars, faults>>
  BY DEF OnMarketChanged, DataInv, LinkInv
<1>2. CASE market.slug = currentIds
  <2>1. UNCHANGED <<ids, at, rx, feed, currentIds, cache>>
    BY <1>2 DEF OnMarketChanged
  <2>2. LinkInv'
    BY <1>1, <1>2, <2>1 DEF DataInv, LinkInv, rotationVars
  <2>3. QED BY <1>1, <2>1, <2>2, TaskKeeps DEF DataInv, TypeOK, feedVars
<1>3. CASE market.slug # currentIds
  <2>1. ConnectFeed(market.slug) /\ cache' = Empty
    BY <1>3 DEF OnMarketChanged
  <2>2. started' = TRUE
    BY <1>1 DEF DataInv, TypeOK
  <2>3. QED BY <1>1, <2>1, <2>2, ConnectFeedKeeps
<1>4. QED BY <1>2, <1>3

LEMMA FeedErrorStep == DataInv /\ FeedError => DataInv'
<1> SUFFICES ASSUME DataInv, FeedError PROVE DataInv'
  OBVIOUS
<1>1. /\ feed # 0 /\ feed' = 0 /\ currentIds' = 0
      /\ UNCHANGED <<rotationVars, unread, started, cache, misfiled, feedVars, exchangeVars, faults>>
  BY DEF FeedError
<1>2. LinkInv'
  BY <1>1 DEF DataInv, LinkInv, rotationVars
<1>3. QED BY <1>1, <1>2, TaskKeeps DEF DataInv, TypeOK

\* The book taken is of the task's market and no older than what is cached, and the
\* recorder files it under another slug only if a publish is unread.
LEMMA TakenBook ==
  ASSUME DataInv, TakeUpdate
  PROVE  LET book == Head(rx[feed]) IN
           /\ feed \in Feeds /\ rx[feed] \in Seq(Books) /\ rx[feed] # <<>>
           /\ book \in Books /\ book = rx[feed][1] /\ book.token \in Tokens /\ book.at \in Nat
           /\ currentIds # 0 /\ book.token[1] = currentIds
           /\ cache' = [cache EXCEPT ![book.token] = book] /\ Record(book.token)
           /\ rx' = [rx EXCEPT ![feed] = Tail(rx[feed])]
           /\ \A t \in Tokens : cache[t] # NoBook => cache[t].at <= book.at
<1>1. feed # 0 /\ rx[feed] # <<>> /\ feed \in Feeds /\ ids[feed] = currentIds /\ currentIds # 0
  BY Constants DEF TakeUpdate, DataInv, TypeOK, LinkInv, Feeds
<1>2. rx[feed] \in Seq(Books)
  BY <1>1 DEF DataInv, TypeOK
<1> DEFINE book == Head(rx[feed])
<1>3. book \in Books /\ book = rx[feed][1] /\ 1 \in 1..Len(rx[feed])
  BY <1>1, <1>2, TailLemma
<1>4. book.token[1] = currentIds
  BY <1>1, <1>3 DEF DataInv, OwnBooks
<1>5. book.token \in Tokens /\ book.at \in Nat
  BY <1>3 DEF Books
<1>6. \A t \in Tokens : cache[t] # NoBook => cache[t].at <= book.at
  BY <1>1, <1>3 DEF DataInv, CacheInOrder, From
<1>7. /\ cache' = [cache EXCEPT ![book.token] = book] /\ Record(book.token)
      /\ rx' = [rx EXCEPT ![feed] = Tail(rx[feed])]
  BY DEF TakeUpdate
<1>8. QED BY <1>1, <1>2, <1>3, <1>4, <1>5, <1>6, <1>7

LEMMA TakeUpdateStep == DataInv /\ TakeUpdate => DataInv'
<1> SUFFICES ASSUME DataInv, TakeUpdate PROVE DataInv'
  OBVIOUS
<1> DEFINE book == Head(rx[feed])
<1>1. /\ feed \in Feeds /\ rx[feed] \in Seq(Books) /\ rx[feed] # <<>>
      /\ book \in Books /\ book = rx[feed][1] /\ book.token \in Tokens /\ book.at \in Nat
      /\ currentIds # 0 /\ book.token[1] = currentIds
      /\ cache' = [cache EXCEPT ![book.token] = book] /\ Record(book.token)
      /\ rx' = [rx EXCEPT ![feed] = Tail(rx[feed])]
      /\ \A t \in Tokens : cache[t] # NoBook => cache[t].at <= book.at
  BY TakenBook
<1> HIDE DEF book
<1>2. UNCHANGED <<market, round, phase, unread, started, currentIds, feed, ids, at, wire, out, quote, clock, faults>>
  BY DEF TakeUpdate, rotationVars, exchangeVars
<1>3. /\ Tail(rx[feed]) \in Seq(Books) /\ Len(Tail(rx[feed])) = Len(rx[feed]) - 1 /\ Len(rx[feed]) \in Nat
      /\ Len(rx[feed]) <= RxCap
  BY <1>1, TailLemma DEF DataInv, TypeOK
<1>4. /\ rx' \in [Feeds -> Seq(Books)] /\ rx'[feed] = Tail(rx[feed])
      /\ \A g \in Feeds \ {feed} : rx'[g] = rx[g]
  BY <1>1, <1>3 DEF DataInv, TypeOK
<1>5. \A t \in Tokens : cache'[t] = IF t = book.token THEN book ELSE cache[t]
  BY <1>1 DEF DataInv, TypeOK
<1>6. TypeOK'
  <2>1. cache' \in [Tokens -> Books \cup {NoBook}]
    BY <1>1 DEF DataInv, TypeOK
  <2>2. misfiled' \subseteq Rounds \X Rounds
    <3>1. market.slug \in 0..MaxRounds /\ book.token[1] \in Rounds
      BY <1>1 DEF DataInv, TypeOK, MarketTypeOK, Markets, Tokens
    <3>2. CASE UNCHANGED misfiled
      BY <3>2 DEF DataInv, TypeOK
    <3>3. CASE market.slug # 0 /\ misfiled' = misfiled \cup {<<market.slug, book.token[1]>>}
      <4>1. market.slug \in Rounds
        BY <3>1, <3>3, Constants DEF Rounds
      <4>2. QED BY <3>1, <3>3, <4>1 DEF DataInv, TypeOK
    <3>4. QED BY <1>1, <3>2, <3>3 DEF Record
  <2>3. \A g \in Feeds : Len(rx'[g]) <= RxCap
    <3>1. Len(rx'[feed]) <= RxCap
      BY <1>3, <1>4, Constants
    <3>2. QED BY <1>4, <3>1 DEF DataInv, TypeOK
  <2>4. MarketTypeOK'
    BY <1>2 DEF DataInv, TypeOK, MarketTypeOK
  <2>5. QED BY <1>2, <1>4, <2>1, <2>2, <2>3, <2>4 DEF DataInv, TypeOK
<1>7. LinkInv'
  BY <1>1, <1>2, Constants DEF DataInv, LinkInv
<1>8. CacheIsOfOneMarket'
  <2>1. \A t \in Tokens : cache'[t] # NoBook => t[1] = currentIds
    <3>1. \A t \in Tokens : cache[t] # NoBook => t[1] = currentIds
      BY <1>1 DEF DataInv, CacheIsOfOneMarket
    <3>2. QED BY <1>1, <1>5, <3>1
  <2>2. QED BY <1>2, <2>1 DEF CacheIsOfOneMarket
<1>9. /\ OwnBooks(feed) /\ InOrder(feed)
      /\ \A i \in 1..Len(Tail(rx[feed])) : \E k \in 1..Len(rx[feed]) : Tail(rx[feed])[i] = rx[feed][k]
      /\ Sorted(Tail(rx[feed])) /\ From(book.at, Tail(rx[feed])) /\ book.at <= clock
      /\ UpTo(Tail(rx[feed]), clock)
      /\ NotAfter(Tail(rx[feed]), out[feed]) /\ From(book.at, out[feed])
      /\ NotAfter(Tail(rx[feed]), wire[feed]) /\ From(book.at, wire[feed])
  <2>1. OwnBooks(feed) /\ InOrder(feed)
    BY <1>1 DEF DataInv
  <2>2. 1 \in 1..Len(rx[feed])
    BY <1>1, TailLemma
  <2>3. book.at <= clock
    BY <1>1, <2>1, <2>2 DEF InOrder, UpTo
  <2>4. QED BY <1>1, <2>1, <2>3, TailInOrder DEF InOrder
<1>10. ASSUME NEW g \in Feeds
       PROVE  OwnBooks(g)' /\ InOrder(g)'
  <2>1. CASE g # feed
    BY <1>2, <1>4, <2>1, FeedKeeps DEF DataInv
  <2>2. CASE g = feed
    <3>1. \A i \in 1..Len(Tail(rx[feed])) : Tail(rx[feed])[i].token[1] = ids[feed]
      <4>1. \A k \in 1..Len(rx[feed]) : rx[feed][k].token[1] = ids[feed]
        BY <1>9 DEF OwnBooks
      <4>2. QED BY <1>9, <4>1
    <3>2. at[feed] # "unborn"
      BY <1>1, Constants DEF DataInv, LinkInv
    <3>3. OwnBooks(g)'
      BY <1>2, <1>4, <1>9, <2>2, <3>1, <3>2 DEF OwnBooks
    <3>4. InOrder(g)'
      <4>1. /\ Sorted(rx'[g]) /\ Sorted(out[g]) /\ Sorted(wire[g])
            /\ NotAfter(rx'[g], out[g]) /\ NotAfter(rx'[g], wire[g]) /\ NotAfter(out[g], wire[g])
            /\ UpTo(rx'[g], clock) /\ UpTo(out[g], clock) /\ UpTo(wire[g], clock)
        BY <1>4, <1>9, <2>2 DEF InOrder
      <4>2. QED BY <1>2, <4>1 DEF InOrder, Sorted, NotAfter, UpTo
    <3>5. QED BY <3>3, <3>4
  <2>3. QED BY <2>1, <2>2
<1>11. CacheInOrder'
  <2> SUFFICES ASSUME NEW t \in Tokens, cache'[t] # NoBook
               PROVE  /\ cache'[t].at <= clock
                      /\ From(cache'[t].at, rx'[feed]) /\ From(cache'[t].at, out[feed])
                      /\ From(cache'[t].at, wire[feed])
    BY <1>2 DEF CacheInOrder, From
  <2>1. CASE t = book.token
    BY <1>4, <1>5, <1>9, <2>1
  <2>2. CASE t # book.token
    <3>1. cache'[t] = cache[t] /\ cache[t] # NoBook
      BY <1>5, <2>2
    <3>2. /\ cache[t].at <= clock
          /\ From(cache[t].at, rx[feed]) /\ From(cache[t].at, out[feed]) /\ From(cache[t].at, wire[feed])
      BY <1>1, <3>1, Constants DEF DataInv, CacheInOrder
    <3>3. From(cache[t].at, Tail(rx[feed]))
      BY <1>1, <3>2, TailInOrder
    <3>4. QED BY <1>4, <3>1, <3>2, <3>3
  <2>3. QED BY <2>1, <2>2
<1>12. QED BY <1>6, <1>7, <1>8, <1>10, <1>11 DEF DataInv

LEMMA NextInv == DataInv /\ [Next]_vars => DataInv'
BY PublishStep, SkipStep, ChangeQuoteStep, FeedStepKeeps, StartUpStep, OnMarketChangedStep, TakeUpdateStep,
   FeedErrorStep
DEF Next, PrefetchFails

\* The inductive invariant of the feeds, the task and the cache.
THEOREM Invariance == Spec => []DataInv
BY InitInv, NextInv, PTL DEF Spec

-----------------------------------------------------------------------------
(* What follows. *)

\* Types, and no feed's channel holds more than its capacity
\* (polymarket_market_feed.rs 60-79; market_data.rs 28-60).
THEOREM TypeCorrect == Spec => []TypeOK
BY Invariance, PTL DEF DataInv

\* Feeds that were let go of, reconnections and errors of the feed notwithstanding, the
\* cache never mixes two markets (market_data.rs 84-105).
THEOREM CacheOfOneMarket == Spec => []CacheIsOfOneMarket
BY Invariance, PTL DEF DataInv

\* However frames, books and messages queue up, and whatever is lost on the way, a cached
\* book is never replaced by an older one (market_data.rs 98-105;
\* polymarket_market_feed.rs 206-280).
THEOREM CacheForward == Spec => CacheMovesForward
<1>1. DataInv /\ [Next]_vars
        => [\A t \in Tokens : cache[t] # NoBook /\ cache'[t] # NoBook => cache'[t].at >= cache[t].at]_vars
  <2> SUFFICES ASSUME DataInv, [Next]_vars, NEW t \in Tokens, cache[t] # NoBook, cache'[t] # NoBook
               PROVE  cache'[t].at >= cache[t].at
    OBVIOUS
  <2>1. cache[t].at \in Nat
    BY DEF DataInv, TypeOK, Books
  <2>2. CASE cache' = cache
    BY <2>1, <2>2
  <2>3. CASE cache' = Empty
    BY <2>3 DEF Empty
  <2>4. CASE TakeUpdate
    <3> DEFINE book == Head(rx[feed])
    <3>1. /\ cache' = [cache EXCEPT ![book.token] = book] /\ book.at \in Nat
          /\ cache[t].at <= book.at
      BY <2>4, TakenBook
    <3> HIDE DEF book
    <3>2. cache'[t] = IF t = book.token THEN book ELSE cache[t]
      BY <3>1 DEF DataInv, TypeOK
    <3>3. QED BY <2>1, <3>1, <3>2
  <2>5. cache' = cache \/ cache' = Empty \/ TakeUpdate
    BY DEF Next, vars, taskVars, PublishMarket, PrefetchFails, ChangeQuote, FeedStep, Connected, Subscribed,
           ReadFrame, SendBook, ReceiverDropped, Retry, Disconnect, Die, GoesTo, StartUp, OnMarketChanged,
           FeedError
  <2>6. QED BY <2>2, <2>3, <2>4, <2>5
<1>2. QED BY <1>1, Invariance, PTL DEF Spec, CacheMovesForward

\* The recorder misfiles a row only in the gap between a publish and the task's seeing it
\* (recording_feeds.rs 136-138, 167-175).
THEOREM MisfiledInTheGap == Spec => MisfiledOnlyWhileUnread
<1>1. DataInv /\ [Next]_vars => [misfiled' # misfiled => unread]_vars
  <2> SUFFICES ASSUME DataInv, [Next]_vars, misfiled' # misfiled
               PROVE  unread
    OBVIOUS
  <2>1. TakeUpdate
    BY DEF Next, vars, taskVars, PublishMarket, PrefetchFails, ChangeQuote, FeedStep, Connected, Subscribed,
           ReadFrame, SendBook, ReceiverDropped, Retry, Disconnect, Die, GoesTo, StartUp, OnMarketChanged,
           FeedError
  <2>2. feed \in Feeds /\ Head(rx[feed]).token[1] = currentIds /\ market.slug # Head(rx[feed]).token[1]
    BY <2>1, TakenBook DEF Record
  <2>3. QED BY <2>2, Constants DEF DataInv, TypeOK, LinkInv
<1>2. QED BY <1>1, Invariance, PTL DEF Spec, MisfiledOnlyWhileUnread
=============================================================================
