----------------------------- MODULE PriceTicks -----------------------------
(***************************************************************************)
(* The price a market is judged by when the catalog names no winner: ticks *)
(* go from a price source through the feed's forwarder, price_feed_task    *)
(* and a broadcast channel into settlement_task's cache, while             *)
(* MarketRotation tells settlement of cutoffs and resolutions over another *)
(* channel.  Nothing orders the two.  A tick is the second it is of; which *)
(* side of the strike its price is on is left out.  What the feed stamps   *)
(* it with is a number, which settlement compares with a market's close in *)
(* milliseconds: Binance's feed stamps in milliseconds, and the wired one, *)
(* Chainlink's, passes on what the test beside it calls Unix seconds.      *)
(* Either may be, so both are modelled.                                    *)
(***************************************************************************)
EXTENDS MarketRotation, FiniteSets

CONSTANTS FeedCap,   \* capacity of the forwarder's channel (64)
          TickCap,   \* ticks the broadcast channel keeps for a receiver (256)
          TickCache, \* ticks settlement keeps (50)
          Epoch,     \* seconds from 1970 to the start of the clock
          MaxTicks,  \* bound: ticks
          MaxErrors  \* bound: errors the source reports

ASSUME TicksAssumption ==
  /\ {FeedCap, TickCap, TickCache} \subseteq Nat \ {0} /\ {MaxTicks, MaxErrors} \subseteq Nat
  /\ Epoch \in Nat /\ MaxTime <= Epoch

VARIABLES perSecond, \* what the source's stamps grow by in a second, once and for all
          stream,  \* the forwarder runs, or has returned
          feed,    \* its channel to price_feed_task
          asleep,  \* price_feed_task sleeps after an error
          ticks,   \* tick channel, as settlement's receiver has it
          cache,   \* settlement's ticks
          captured,\* cutoff_price: a tick, or 0
          judged,  \* history: what settlement's last step took a market's winner from
          sent,    \* history: the ticks the source gave
          lost     \* history: those settlement's receiver lagged past

feedVars == <<perSecond, stream, feed>>
taskVars == <<cache, captured, judged>>
tickVars == <<feedVars, asleep, ticks, taskVars, sent, lost>>
allVars == <<vars, tickVars>>

Times == 0..MaxTime
FeedError == MaxTime + 1     \* an Err among the ticks of the forwarder's channel
NoTick == 0
Millis == 1000
Units == {1, Millis}         \* Unix seconds, or milliseconds
Grounds == {"none", "catalog", "price"}
Unjudged == [by |-> "none", tick |-> NoTick]

TicksTypeOK ==
  /\ TypeOK
  /\ perSecond \in Units
  /\ stream \in {"up", "ended"} /\ asleep \in BOOLEAN
  /\ feed \in Seq(Times \cup {FeedError}) /\ Len(feed) <= FeedCap
  /\ ticks \in Seq(Times) /\ Len(ticks) <= TickCap
  /\ cache \in Seq(Times) /\ Len(cache) <= TickCache
  /\ captured \in Times
  /\ judged \in [by : Grounds, tick : Times]
  /\ sent \subseteq Times /\ lost \subseteq sent

TicksInit ==
  /\ Init
  /\ perSecond \in Units /\ stream = "up" /\ feed = <<>>
  /\ asleep = FALSE /\ ticks = <<>>
  /\ cache = <<>> /\ captured = NoTick
  /\ judged = Unjudged
  /\ sent = {} /\ lost = {}

Elements(s) == {s[i] : i \in DOMAIN s}
Newest(ts) == IF ts = {} THEN NoTick ELSE CHOOSE t \in ts : \A u \in ts : u <= t
\* s with x at its end, and without its head if that is more than n.
Pushed(s, x, n) == IF Len(s) = n THEN Append(Tail(s), x) ELSE Append(s, x)

-----------------------------------------------------------------------------
(* The source and the forwarder its feed spawns *)

Forward(x) == stream = "up" /\ Len(feed) < FeedCap /\ feed' = Append(feed, x)

\* The source gives a tick newer than the last, maybe some time after the second it is of.
SourceTicks ==
  /\ Cardinality(sent) < MaxTicks
  /\ \E t \in (Newest(sent) + 1)..now : Forward(t) /\ sent' = sent \cup {t}
  /\ UNCHANGED <<vars, perSecond, stream, asleep, ticks, taskVars, lost>>

\* Chainlink's forwarder hands an error of its stream on and reads on; Binance's returns,
\* which is one of the ends below.
SourceErrs ==
  /\ Len(SelectSeq(feed, LAMBDA x : x = FeedError)) < MaxErrors
  /\ Forward(FeedError)
  /\ UNCHANGED <<vars, perSecond, stream, asleep, ticks, taskVars, sent, lost>>

\* The stream is closed, ends, or fails in a way the forwarder returns on.  Nothing starts
\* it again.
StreamEnds ==
  /\ stream = "up" /\ stream' = "ended"
  /\ UNCHANGED <<vars, perSecond, feed, asleep, ticks, taskVars, sent, lost>>

-----------------------------------------------------------------------------
(* price_feed_task *)

Broadcast(t) ==
  /\ ticks' = Pushed(ticks, t, TickCap)
  /\ lost' = IF Len(ticks) = TickCap THEN lost \cup {Head(ticks)} ELSE lost

NextTick ==
  /\ ~asleep /\ feed # <<>> /\ Head(feed) # FeedError
  /\ feed' = Tail(feed)
  /\ Broadcast(Head(feed))
  /\ UNCHANGED <<vars, perSecond, stream, asleep, taskVars, sent>>

\* An Err, or the forwarder has gone: sleep for a second and try again.
FeedFails ==
  /\ ~asleep
  /\ \/ feed # <<>> /\ Head(feed) = FeedError /\ feed' = Tail(feed)
     \/ feed = <<>> /\ stream = "ended" /\ UNCHANGED feed
  /\ asleep' = TRUE
  /\ UNCHANGED <<vars, perSecond, stream, ticks, taskVars, sent, lost>>

\* MUTANT of WakeUp: the task ends once its forwarder has, whatever the channel still has.
WakeUpWhileStreamUp ==
  /\ asleep /\ stream = "up" /\ asleep' = FALSE
  /\ UNCHANGED <<vars, feedVars, ticks, taskVars, sent, lost>>

WakeUp ==
  /\ asleep /\ asleep' = FALSE
  /\ UNCHANGED <<vars, feedVars, ticks, taskVars, sent, lost>>

-----------------------------------------------------------------------------
(* settlement_task *)

CacheTick ==
  /\ ticks # <<>>
  /\ ticks' = Tail(ticks)
  /\ cache' = Pushed(cache, Head(ticks), TickCache)
  /\ judged' = Unjudged
  /\ UNCHANGED <<vars, feedVars, asleep, captured, sent, lost>>

\* t.at.0 <= closes_at.0: the feed's stamp against a Timestamp, whatever the units.
Due(t, slugged) == perSecond * (Epoch + t) <= Millis * (Epoch + ClosesAt(slugged))

\* MUTANT of ResolutionPrice: the oldest tick that will do.
ResolutionPriceOldest(slugged) ==
  LET due == {t \in Elements(cache) : Due(t, slugged)}
  IN IF due = {} THEN NoTick ELSE CHOOSE t \in due : \A u \in due : t <= u

\* resolution_price: the last tick of the cache that is stamped no later than the close.
ResolutionPrice(slugged) ==
  LET due == {i \in DOMAIN cache : Due(cache[i], slugged)}
  IN IF due = {} THEN NoTick ELSE cache[Newest(due)]

TakeCutoff ==
  /\ SettlementTakes /\ Head(lifecycle).kind = "cutoff"
  /\ captured' = ResolutionPrice(Head(lifecycle).slug)
  /\ judged' = Unjudged
  /\ UNCHANGED <<feedVars, asleep, ticks, cache, sent, lost>>

\* winning_outcome_name: the catalog's winner, else a price against the strike.
WinnerBy(mkt, price) ==
  CASE mkt.winner # Catalog!None -> "catalog"
    [] mkt.winner = Catalog!None /\ mkt.strike # Catalog!None /\ price # NoTick -> "price"
    [] OTHER -> "none"

TakeResolved ==
  LET r == Head(lifecycle).slug
      price == IF captured # NoTick THEN captured ELSE ResolutionPrice(r)
  IN /\ SettlementTakes /\ Head(lifecycle).kind = "resolved"
     /\ \E mkt \in Catalog!Markets[TRUE] :
          judged' = [by |-> WinnerBy(mkt, price),
                     tick |-> IF WinnerBy(mkt, price) = "price" THEN price ELSE NoTick]
     /\ captured' = NoTick
     /\ UNCHANGED <<feedVars, asleep, ticks, cache, sent, lost>>

-----------------------------------------------------------------------------

Rotation == Round \/ PrefetchEnds \/ Emitted \/ Tick \/ OutOfTime

TicksNext ==
  \/ Rotation /\ UNCHANGED tickVars
  \/ SourceTicks \/ SourceErrs \/ StreamEnds
  \/ NextTick \/ FeedFails \/ WakeUp
  \/ CacheTick \/ TakeCutoff \/ TakeResolved

\* price_feed_task, which is at one of its three steps at a time, and settlement_task's
\* receiver are run when they can; a sleep ends.  Nothing is assumed of the source, nor of
\* which branch settlement takes first.
TicksSpec ==
  /\ TicksInit /\ [][TicksNext]_allVars
  /\ WF_allVars(NextTick \/ FeedFails \/ WakeUp) /\ WF_allVars(CacheTick)

-----------------------------------------------------------------------------
(* Properties *)

UnderWay == (Elements(feed) \ {FeedError}) \cup Elements(ticks)

\* Of a market settlement is told about, the price it takes is of the newest tick the
\* source gave up to the close, those apart that are still under way or were lost; it
\* takes none only if there is none, or newer ticks have pushed it out of the cache.  This
\* is so if the feed stamps in milliseconds.  If it stamps in seconds, no tick is ever too
\* late: the price is of the newest tick given, from after the close as well as from before
\* (settlement.rs 16-22, 217-247; price_feed.rs 20-31; chainlink_price_feed.rs 37-40, 83).
PriceIsLast ==
  [][\A r \in Windows :
       LET given == sent \ (UnderWay \cup lost)
           late == {t \in given : t > ClosesAt(r)}
           lastBefore(t) == \/ t = Newest(given \ late)
                            \/ t = NoTick /\ Cardinality(late) >= TickCache
           right(t) == IF perSecond = Millis THEN lastBefore(t) ELSE t = Newest(given)
           takes(kind) == /\ lifecycle # <<>> /\ lifecycle' = Tail(lifecycle)
                          /\ Head(lifecycle) = [kind |-> kind, slug |-> r]
       IN /\ takes("cutoff") => right(captured')
          /\ takes("resolved") /\ captured = NoTick /\ judged'.by = "price"
               => right(judged'.tick)]_allVars

\* No tick stays under way for ever: whatever the source gave gets to settlement's cache, or
\* is lost to lag; an error of the feed delays the ticks behind it and drops none
\* (price_feed.rs 27-30).
TicksArrive == \A t \in Times \ {NoTick} : []<>(t \notin UnderWay)
=============================================================================
