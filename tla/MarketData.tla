----------------------------- MODULE MarketData -----------------------------
(***************************************************************************)
(* Outcome prices on their way to the decision center: the exchange's      *)
(* market channel, one PolymarketMarketFeed task per subscription, the     *)
(* recording decorator, and market_data_task, which follows MarketWatch's  *)
(* watch and keeps OutcomeBookCache.  Round r's market has the tokens      *)
(* <<r, o>>; its asset ids are named by r, and 0 stands for no ids.        *)
(* Reconnect delays are left out: a back-off may end at any moment.        *)
(***************************************************************************)
EXTENDS MarketWatch, Sequences, FiniteSets

CONSTANTS Outcomes,   \* outcomes of a market
          Quotes,     \* what a token's order book may hold: [bids, asks], sets of prices
          NoPrice,    \* None for a side of a book nobody quotes
          RxCap,      \* capacity of a feed's channel (256)
          WireCap,    \* bound: frames on their way from the exchange
          MaxFeeds,   \* bound: feeds connected
          MaxQuotes,  \* bound: changes of the exchange's books
          MaxFaults   \* bound: failures of a connection, and deaths of a feed's task

\* A side that is quoted has a best price.
ASSUME MarketDataAssumption ==
  /\ IsFiniteSet(Outcomes) /\ Quotes # {}
  /\ \A q \in Quotes : /\ q.bids \subseteq Nat /\ q.asks \subseteq Nat
                       /\ q.bids # {} => \E p \in q.bids : \A o \in q.bids : p >= o
                       /\ q.asks # {} => \E p \in q.asks : \A o \in q.asks : p <= o
  /\ NoPrice \notin Nat
  /\ RxCap \in Nat \ {0} /\ WireCap \in Nat \ {0}
  /\ MaxFeeds \in Nat /\ MaxQuotes \in Nat /\ MaxFaults \in Nat

VARIABLES unread,     \* market_data_task: market_rx has a version it has not seen
          started,    \* market_data_task: past its look at the market on startup
          currentIds, \* market_data_task: ids it is subscribed to
          feed,       \* market_data_task: the feed it reads, 0 for None
          cache,      \* OutcomeBookCache: latest book of each token
          ids,        \* feed task: its subscription; 0 before connect
          at,         \* feed task: where it stands
          wire,       \* feed task: frames of its connection not yet read
          out,        \* feed task: books of the frame it has read, still to send
          rx,         \* feed task: its channel to market_data_task
          quote,      \* exchange: the book of each token
          clock,      \* exchange: timestamp of the last change
          misfiled,   \* recorder: of the rows under another slug than their token's, slug and token's
          faults      \* history: failures so far

taskVars == <<unread, started, currentIds, feed, cache, misfiled>>
feedVars == <<ids, at, wire, out, rx>>
exchangeVars == <<quote, clock>>
vars == <<rotationVars, taskVars, feedVars, exchangeVars, faults>>

Tokens == Rounds \X Outcomes
Feeds == 1..MaxFeeds
Prices == {NoPrice} \cup UNION {q.bids \cup q.asks : q \in Quotes}
Books == [token : Tokens, buy : Prices, sell : Prices, at : 0..MaxQuotes]
NoBook == [buy |-> NoPrice, sell |-> NoPrice, at |-> MaxQuotes + 1]
Level(t, q) == [token |-> t, bids |-> q.bids, asks |-> q.asks]
Frames == [levels : Seq({Level(t, q) : t \in Tokens, q \in Quotes}), at : 0..MaxQuotes]
Stages == {"unborn", "connecting", "subscribing", "reading", "backoff", "ended"}

TypeOK ==
  /\ MarketTypeOK
  /\ unread \in BOOLEAN /\ started \in BOOLEAN
  /\ currentIds \in 0..MaxRounds /\ feed \in 0..MaxFeeds
  /\ cache \in [Tokens -> Books \cup {NoBook}]
  /\ ids \in [Feeds -> 0..MaxRounds] /\ at \in [Feeds -> Stages]
  /\ wire \in [Feeds -> Seq(Frames)] /\ out \in [Feeds -> Seq(Books)] /\ rx \in [Feeds -> Seq(Books)]
  /\ \A f \in Feeds : Len(rx[f]) <= RxCap
  /\ quote \in [Tokens -> Quotes] /\ clock \in 0..MaxQuotes
  /\ misfiled \subseteq Rounds \X Rounds /\ faults \in 0..MaxFaults

Empty == [t \in Tokens |-> NoBook]

Init ==
  /\ MarketInit
  /\ unread = FALSE /\ started = FALSE /\ currentIds = 0 /\ feed = 0 /\ cache = Empty
  /\ ids = [f \in Feeds |-> 0] /\ at = [f \in Feeds |-> "unborn"]
  /\ wire = [f \in Feeds |-> <<>>] /\ out = [f \in Feeds |-> <<>>] /\ rx = [f \in Feeds |-> <<>>]
  /\ quote = [t \in Tokens |-> CHOOSE q \in Quotes : TRUE] /\ clock = 0
  /\ misfiled = {} /\ faults = 0

-----------------------------------------------------------------------------
(* market_rotation_task and the exchange *)

PublishMarket ==
  /\ Publish
  /\ unread' = TRUE
  /\ UNCHANGED <<started, currentIds, feed, cache, misfiled, feedVars, exchangeVars, faults>>

PrefetchFails ==
  /\ SkipPrefetched
  /\ UNCHANGED <<taskVars, feedVars, exchangeVars, faults>>

\* A price_change or best_bid_ask goes to everyone subscribed to the token.
ChangeQuote ==
  /\ clock < MaxQuotes
  /\ \E t \in Tokens, q \in Quotes :
       LET told == {f \in Feeds : at[f] = "reading" /\ ids[f] = t[1]} IN
         /\ \A f \in told : Len(wire[f]) < WireCap
         /\ quote' = [quote EXCEPT ![t] = q]
         /\ wire' = [f \in Feeds |-> IF f \in told
                       THEN Append(wire[f], [levels |-> <<Level(t, q)>>, at |-> clock + 1])
                       ELSE wire[f]]
  /\ clock' = clock + 1
  /\ UNCHANGED <<rotationVars, taskVars, ids, at, out, rx, faults>>

-----------------------------------------------------------------------------
(* PolymarketMarketFeed: the task behind connect *)

\* What the exchange sends a new subscriber: a book per token, in one frame.
Snapshots(r) ==
  {[levels |-> s, at |-> clock] :
     s \in {s \in [1..Cardinality(Outcomes) -> {Level(<<r, o>>, quote[<<r, o>>]) : o \in Outcomes}] :
              \A o \in Outcomes : \E i \in DOMAIN s : s[i].token = <<r, o>>}}

BestAsk(prices) ==
  IF prices = {} THEN NoPrice ELSE CHOOSE p \in prices : \A q \in prices : p <= q

BestBid(prices) ==
  IF prices = {} THEN NoPrice ELSE CHOOSE p \in prices : \A q \in prices : p >= q

ToOutcomeBooks(frame) ==
  [i \in 1..Len(frame.levels) |->
     [token |-> frame.levels[i].token, buy |-> BestAsk(frame.levels[i].asks),
      sell |-> BestBid(frame.levels[i].bids), at |-> frame.at]]

\* A step of feed f from stage a to stage b.
GoesTo(f, a, b) ==
  /\ at[f] = a
  /\ at' = [at EXCEPT ![f] = b]
  /\ UNCHANGED <<rotationVars, taskVars, exchangeVars, ids>>

Connected(f) == GoesTo(f, "connecting", "subscribing") /\ UNCHANGED <<wire, out, rx, faults>>

\* MUTANT of Subscribed: an old subscription is taken to be still in force.
SubscribedSilently(f) ==
  /\ GoesTo(f, "subscribing", "reading")
  /\ \E s \in Snapshots(ids[f]) : wire' = [wire EXCEPT ![f] = IF faults = 0 THEN <<s>> ELSE <<>>]
  /\ UNCHANGED <<out, rx, faults>>

Subscribed(f) ==
  /\ GoesTo(f, "subscribing", "reading")
  /\ \E s \in Snapshots(ids[f]) : wire' = [wire EXCEPT ![f] = <<s>>]
  /\ UNCHANGED <<out, rx, faults>>

\* MUTANT of ReadFrame: the newest frame first.
ReadFrameNewest(f) ==
  /\ out[f] = <<>> /\ wire[f] # <<>>
  /\ GoesTo(f, "reading", "reading")
  /\ wire' = [wire EXCEPT ![f] = SubSeq(@, 1, Len(@) - 1)]
  /\ out' = [out EXCEPT ![f] = ToOutcomeBooks(wire[f][Len(wire[f])])]
  /\ UNCHANGED <<rx, faults>>

ReadFrame(f) ==
  /\ out[f] = <<>> /\ wire[f] # <<>>
  /\ GoesTo(f, "reading", "reading")
  /\ wire' = [wire EXCEPT ![f] = Tail(@)]
  /\ out' = [out EXCEPT ![f] = ToOutcomeBooks(Head(wire[f]))]
  /\ UNCHANGED <<rx, faults>>

\* MUTANT of SendBook: try_send's error is ignored.
SendBookAnyway(f) ==
  /\ out[f] # <<>> /\ feed = f
  /\ GoesTo(f, "reading", "reading")
  /\ rx' = [rx EXCEPT ![f] = Append(@, Head(out[f]))]
  /\ out' = [out EXCEPT ![f] = Tail(@)]
  /\ UNCHANGED <<wire, faults>>

SendBook(f) ==
  /\ out[f] # <<>> /\ feed = f /\ Len(rx[f]) < RxCap
  /\ GoesTo(f, "reading", "reading")
  /\ rx' = [rx EXCEPT ![f] = Append(@, Head(out[f]))]
  /\ out' = [out EXCEPT ![f] = Tail(@)]
  /\ UNCHANGED <<wire, faults>>

\* The receiver is gone: only a book that cannot be sent ends the task.
ReceiverDropped(f) ==
  /\ out[f] # <<>> /\ feed # f
  /\ GoesTo(f, "reading", "ended")
  /\ wire' = [wire EXCEPT ![f] = <<>>] /\ out' = [out EXCEPT ![f] = <<>>]
  /\ UNCHANGED <<rx, faults>>

Retry(f) == GoesTo(f, "backoff", "connecting") /\ UNCHANGED <<wire, out, rx, faults>>

\* connect_async or the subscribe frame fails, or the connection ends between two
\* frames: what was still on the wire is lost.
Disconnect(f) ==
  /\ faults < MaxFaults /\ out[f] = <<>>
  /\ \E a \in {"connecting", "subscribing", "reading"} : GoesTo(f, a, "backoff")
  /\ wire' = [wire EXCEPT ![f] = <<>>]
  /\ faults' = faults + 1
  /\ UNCHANGED <<out, rx>>

\* The task panics: its channel is closed, with the books it holds.
Die(f) ==
  /\ faults < MaxFaults
  /\ \E a \in {"connecting", "subscribing", "reading", "backoff"} : GoesTo(f, a, "ended")
  /\ wire' = [wire EXCEPT ![f] = <<>>] /\ out' = [out EXCEPT ![f] = <<>>]
  /\ faults' = faults + 1
  /\ UNCHANGED rx

-----------------------------------------------------------------------------
(* market_data_task *)

\* connect(r): a feed task of its own; the receiver of the old one is dropped.
ConnectFeed(r) ==
  \E f \in Feeds :
    /\ at[f] = "unborn" /\ \A g \in Feeds : g < f => at[g] # "unborn"
    /\ ids' = [ids EXCEPT ![f] = r]
    /\ at' = [at EXCEPT ![f] = "connecting"]
    /\ feed' = f
    /\ rx' = IF feed = 0 THEN rx ELSE [rx EXCEPT ![feed] = <<>>]
    /\ currentIds' = r

\* The look at the watch does not mark its value as seen.
StartUp ==
  /\ ~started /\ started' = TRUE
  /\ IF market.slug = 0 THEN UNCHANGED <<ids, at, rx, feed, currentIds>>
                        ELSE ConnectFeed(market.slug)
  /\ UNCHANGED <<rotationVars, unread, cache, misfiled, wire, out, exchangeVars, faults>>

\* MUTANT of OnMarketChanged: the cache is left to the new market's books.
OnMarketChangedKeepsCache ==
  /\ started /\ unread /\ unread' = FALSE
  /\ IF market.slug = currentIds
     THEN UNCHANGED <<ids, at, rx, feed, currentIds>>
     ELSE ConnectFeed(market.slug)
  /\ UNCHANGED <<rotationVars, started, cache, misfiled, wire, out, exchangeVars, faults>>

\* MUTANT of OnMarketChanged: the feed is rebuilt on the next change only.
OnMarketChangedKeepsFeed ==
  /\ started /\ unread /\ unread' = FALSE
  /\ IF feed # 0
     THEN UNCHANGED <<ids, at, rx, feed, currentIds, cache>>
     ELSE ConnectFeed(market.slug) /\ cache' = Empty
  /\ UNCHANGED <<rotationVars, started, misfiled, wire, out, exchangeVars, faults>>

\* A status change of the same market keeps feed and cache.
OnMarketChanged ==
  /\ started /\ unread /\ unread' = FALSE
  /\ IF market.slug = currentIds
     THEN UNCHANGED <<ids, at, rx, feed, currentIds, cache>>
     ELSE ConnectFeed(market.slug) /\ cache' = Empty
  /\ UNCHANGED <<rotationVars, started, misfiled, wire, out, exchangeVars, faults>>

\* RecordingMarketDataFeed files a row under the slug the watch holds now, if there is
\* one; a failed insert is only logged.
Record(t) == \/ market.slug \notin {0, t[1]} /\ misfiled' = misfiled \cup {<<market.slug, t[1]>>}
             \/ UNCHANGED misfiled

TakeUpdate ==
  /\ feed # 0 /\ rx[feed] # <<>>
  /\ LET book == Head(rx[feed]) IN
       cache' = [cache EXCEPT ![book.token] = book] /\ Record(book.token)
  /\ rx' = [rx EXCEPT ![feed] = Tail(@)]
  /\ UNCHANGED <<rotationVars, unread, started, currentIds, feed, ids, at, wire, out, exchangeVars, faults>>

\* MUTANT of FeedError: the ids are kept, so the same market is never rebuilt.
FeedErrorKeepsIds ==
  /\ feed # 0 /\ at[feed] = "ended" /\ rx[feed] = <<>>
  /\ feed' = 0
  /\ UNCHANGED <<rotationVars, unread, started, currentIds, cache, misfiled, feedVars, exchangeVars, faults>>

\* The channel is closed and drained; the cache keeps what it holds.
FeedError ==
  /\ feed # 0 /\ at[feed] = "ended" /\ rx[feed] = <<>>
  /\ feed' = 0 /\ currentIds' = 0
  /\ UNCHANGED <<rotationVars, unread, started, cache, misfiled, feedVars, exchangeVars, faults>>

-----------------------------------------------------------------------------

FeedStep(f) == Connected(f) \/ Subscribed(f) \/ ReadFrame(f) \/ SendBook(f) \/ ReceiverDropped(f) \/ Retry(f)

Next ==
  \/ PublishMarket \/ PrefetchFails \/ ChangeQuote
  \/ \E f \in Feeds : FeedStep(f) \/ Disconnect(f) \/ Die(f)
  \/ StartUp \/ OnMarketChanged \/ TakeUpdate \/ FeedError

Spec == Init /\ [][Next]_vars

\* Tasks are scheduled and the network carries on what it does not fail; nobody owes the
\* bot a publish or a change of price.
FairSpec == /\ Spec
            /\ \A f \in Feeds : WF_vars(FeedStep(f))
            /\ WF_vars(StartUp) /\ WF_vars(OnMarketChanged) /\ WF_vars(TakeUpdate) /\ WF_vars(FeedError)

-----------------------------------------------------------------------------
(* Properties *)

\* The cache never mixes the books of two markets, and while the task is subscribed it
\* holds the subscribed market's only, a feed task the task let go of included
\* (market_data.rs 84-96).
CacheIsOfOneMarket ==
  /\ \A t \in Tokens : cache[t] # NoBook => currentIds \in {0, t[1]}
  /\ \A t, u \in Tokens : cache[t] # NoBook /\ cache[u] # NoBook => t[1] = u[1]

\* A token's cached book is never replaced by an older one, reconnections included
\* (market_data.rs 98-105; polymarket_market_feed.rs 206-280).
CacheMovesForward ==
  [][\A t \in Tokens : cache[t] # NoBook /\ cache'[t] # NoBook => cache'[t].at >= cache[t].at]_vars

\* The lowest ask and the highest bid of q, None for a side nobody quotes.
ShowsTop(book, q) ==
  /\ IF q.asks = {} THEN book.buy = NoPrice ELSE book.buy \in q.asks /\ \A p \in q.asks : book.buy <= p
  /\ IF q.bids = {} THEN book.sell = NoPrice ELSE book.sell \in q.bids /\ \A p \in q.bids : p <= book.sell

\* Once the exchange is quiet and connections hold, the cache ends up with the exchange's
\* best prices of the market it is subscribed to, whatever was lost on the way
\* (polymarket_market_feed.rs 206-280; market_data.rs 98-105).
CacheCatchesUp ==
  <>[](feed # 0 => \/ at[feed] = "ended"
                   \/ \A o \in Outcomes : ShowsTop(cache[<<currentIds, o>>], quote[<<currentIds, o>>]))

\* Every publish leads to a feed of the market then in the watch, an error of the feed
\* before it or a status change only notwithstanding (market_data.rs 68-111).
PublishRebuilds ==
  unread ~> \/ feed # 0 /\ ids[feed] = market.slug
            \/ \A f \in Feeds : at[f] # "unborn"

\* A row is filed under another market's slug only while a publish waits for the task to
\* see it (recording_feeds.rs 136-138, 167-175).
MisfiledOnlyWhileUnread ==
  [][misfiled' # misfiled => unread]_vars
=============================================================================
