--------------------------- MODULE MarketRotation ---------------------------
(***************************************************************************)
(* market_rotation_task in time: run_round derives the window's slug from  *)
(* the clock (MarketClock), sleeps until the market opens and closes,      *)
(* polls the catalog until it is resolved, prefetches a later market       *)
(* meanwhile, and tells settlement over the lifecycle channel.  Windows    *)
(* are numbered from 1; window r spans [(r-1)*Interval, r*Interval).       *)
(***************************************************************************)
EXTENDS Naturals, Sequences

CONSTANTS Interval,     \* length of a window (300 s)
          PollDelay,    \* between two polls of a market being resolved (10 s)
          Early,        \* how long before its window's end the catalog closes a market
          LifecycleCap, \* capacity of the lifecycle channel (16)
          MaxTime       \* bound: the clock

ASSUME RotationAssumption ==
  /\ Interval \in Nat \ {0} /\ Early \in 0..(Interval - 1)
  /\ PollDelay \in Nat /\ LifecycleCap \in Nat \ {0} /\ MaxTime \in Nat

VARIABLES now,        \* the wall clock, in seconds
          market,     \* market watch: slug 0 stands for None
          phase,      \* where run_round stands
          slug,       \* window run_round is about
          wake,       \* time the current sleep ends at
          prefetch,   \* background task: the slug it resolves and what has come of it
          emitting,   \* event that waits for room in the lifecycle channel
          lifecycle,  \* lifecycle channel, to settlement_task
          done        \* history: the last window a round has ended for

vars == <<now, market, phase, slug, wake, prefetch, emitting, lifecycle, done>>

MaxRounds == MaxTime \div Interval + 2
Windows == 1..MaxRounds
Statuses == {"Open", "TradingCutoff", "Resolving", "Resolved"}
Phases == {"start", "resolve", "published", "open", "cutoff", "resolving", "prefetch"}
NoEvent == [kind |-> "none", slug |-> 0]
Events == [kind : {"cutoff", "resolved"}, slug : Windows]
NoPrefetch == [slug |-> 0, status |-> "none"]

TypeOK ==
  /\ now \in 0..MaxTime
  /\ market \in [slug : 0..MaxRounds, status : Statuses]
  /\ phase \in Phases
  /\ slug \in 0..MaxRounds /\ (phase # "start" => slug \in Windows)
  /\ wake \in 0..(MaxTime + Interval + PollDelay)
  /\ prefetch \in {NoPrefetch} \cup [slug : Windows, status : Statuses \cup {"running", "failed"}]
  /\ emitting \in Events \cup {NoEvent}
  /\ lifecycle \in Seq(Events) /\ Len(lifecycle) <= LifecycleCap
  /\ done \in 0..MaxRounds

\* main waits for the start of a window.
Init ==
  /\ now = 0
  /\ market = [slug |-> 0, status |-> "Resolved"]
  /\ phase = "start" /\ slug = 0 /\ wake = 0
  /\ prefetch = NoPrefetch
  /\ emitting = NoEvent /\ lifecycle = <<>>
  /\ done = 0

-----------------------------------------------------------------------------
(* MarketClock *)

Window(t) == t \div Interval + 1
NextWindow(t) == Window(t) + 1
OpensAt(r) == (r - 1) * Interval
ClosesAt(r) == r * Interval - Early

-----------------------------------------------------------------------------
(* The catalog: a market is resolved once it has closed, whoever has won. *)

Catalog == INSTANCE Catalog

CatalogStatus(r) == Catalog!Statuses[now >= ClosesAt(r)]

-----------------------------------------------------------------------------
(* run_round *)

PublishAs(r, s) == market' = [slug |-> r, status |-> s]

\* The slug is read off the clock once; the catalog is asked until it answers.
StartRound ==
  /\ phase = "start" /\ emitting = NoEvent
  /\ slug' = Window(now)
  /\ phase' = "resolve"
  /\ UNCHANGED <<now, market, wake, prefetch, emitting, lifecycle, done>>

\* MUTANT of AlreadyResolved: an event is sent for what the last round has settled too.
AlreadyResolvedTwice ==
  /\ phase = "resolve"
  /\ "Resolved" \in CatalogStatus(slug)
  /\ PublishAs(slug, "Resolved")
  /\ emitting' = [kind |-> "resolved", slug |-> IF done > 0 THEN done ELSE slug]
  /\ phase' = "start" /\ done' = slug
  /\ UNCHANGED <<now, slug, wake, prefetch, lifecycle>>

\* The answer came when the market was already resolved: the round is over.
AlreadyResolved ==
  /\ phase = "resolve"
  /\ "Resolved" \in CatalogStatus(slug)
  /\ PublishAs(slug, "Resolved")
  /\ emitting' = [kind |-> "resolved", slug |-> slug]
  /\ phase' = "start" /\ done' = slug
  /\ UNCHANGED <<now, slug, wake, prefetch, lifecycle>>

PublishCurrent ==
  /\ phase = "resolve"
  /\ \E s \in CatalogStatus(slug) \ {"Resolved"} : PublishAs(slug, s)
  /\ phase' = "published" /\ wake' = OpensAt(slug)
  /\ UNCHANGED <<now, slug, prefetch, emitting, lifecycle, done>>

Open ==
  /\ phase = "published" /\ now >= wake
  /\ PublishAs(slug, "Open")
  /\ phase' = "open" /\ wake' = ClosesAt(slug)
  /\ UNCHANGED <<now, slug, prefetch, emitting, lifecycle, done>>

Cutoff ==
  /\ phase = "open" /\ now >= wake
  /\ PublishAs(slug, "TradingCutoff")
  /\ emitting' = [kind |-> "cutoff", slug |-> slug]
  /\ phase' = "cutoff"
  /\ UNCHANGED <<now, slug, wake, prefetch, lifecycle, done>>

\* MUTANT of Resolving: the watch is left at TradingCutoff.
ResolvingUnpublished ==
  /\ phase = "cutoff" /\ emitting = NoEvent
  /\ prefetch' = [slug |-> NextWindow(now), status |-> "running"]
  /\ phase' = "resolving" /\ wake' = now + PollDelay
  /\ UNCHANGED <<now, market, slug, emitting, lifecycle, done>>

\* The prefetch is spawned for the window after the one the clock is in now.
Resolving ==
  /\ phase = "cutoff" /\ emitting = NoEvent
  /\ prefetch' = [slug |-> NextWindow(now), status |-> "running"]
  /\ PublishAs(slug, "Resolving")
  /\ phase' = "resolving" /\ wake' = now + PollDelay
  /\ UNCHANGED <<now, slug, emitting, lifecycle, done>>

\* The prefetch task ends.
PrefetchEnds ==
  /\ prefetch.status = "running"
  /\ \E s \in CatalogStatus(prefetch.slug) \cup {"failed"} :
       prefetch' = [prefetch EXCEPT !.status = s]
  /\ UNCHANGED <<now, market, phase, slug, wake, emitting, lifecycle, done>>

\* A poll that errs, or that does not find the market resolved.
PollAgain ==
  /\ phase = "resolving" /\ now >= wake
  /\ wake' = now + PollDelay
  /\ UNCHANGED <<now, market, phase, slug, prefetch, emitting, lifecycle, done>>

\* MUTANT of Resolved: settlement is not told.
ResolvedUntold ==
  /\ phase = "resolving" /\ now >= wake
  /\ "Resolved" \in CatalogStatus(slug)
  /\ PublishAs(slug, "Resolved")
  /\ phase' = "prefetch"
  /\ UNCHANGED <<now, slug, wake, prefetch, emitting, lifecycle, done>>

Resolved ==
  /\ phase = "resolving" /\ now >= wake
  /\ "Resolved" \in CatalogStatus(slug)
  /\ PublishAs(slug, "Resolved")
  /\ emitting' = [kind |-> "resolved", slug |-> slug]
  /\ phase' = "prefetch"
  /\ UNCHANGED <<now, slug, wake, prefetch, lifecycle, done>>

EndRound == phase' = "start" /\ done' = slug /\ prefetch' = NoPrefetch

PublishPrefetched ==
  /\ phase = "prefetch" /\ emitting = NoEvent
  /\ prefetch.status \in Statuses
  /\ PublishAs(prefetch.slug, prefetch.status)
  /\ EndRound
  /\ UNCHANGED <<now, slug, wake, emitting, lifecycle>>

SkipPrefetched ==
  /\ phase = "prefetch" /\ emitting = NoEvent
  /\ prefetch.status = "failed"
  /\ EndRound
  /\ UNCHANGED <<now, market, slug, wake, emitting, lifecycle>>

\* MUTANT of Emitted: the event goes in whatever room there is.
EmittedAnyway ==
  /\ emitting # NoEvent
  /\ lifecycle' = Append(lifecycle, emitting)
  /\ emitting' = NoEvent
  /\ UNCHANGED <<now, market, phase, slug, wake, prefetch, done>>

\* emit_lifecycle: the event is in the channel once there is room.
Emitted ==
  /\ emitting # NoEvent
  /\ Len(lifecycle) < LifecycleCap
  /\ lifecycle' = Append(lifecycle, emitting)
  /\ emitting' = NoEvent
  /\ UNCHANGED <<now, market, phase, slug, wake, prefetch, done>>

-----------------------------------------------------------------------------

\* settlement_task takes the next event.
SettlementTakes ==
  /\ lifecycle # <<>>
  /\ lifecycle' = Tail(lifecycle)
  /\ UNCHANGED <<now, market, phase, slug, wake, prefetch, emitting, done>>

\* A second passes; tasks may be slow, so nothing keeps it from passing.
Tick ==
  /\ now < MaxTime
  /\ now' = now + 1
  /\ UNCHANGED <<market, phase, slug, wake, prefetch, emitting, lifecycle, done>>

\* The model's clock has run out while a sleep still lasts.
OutOfTime == now = MaxTime /\ UNCHANGED vars

Round == \/ StartRound \/ AlreadyResolved \/ PublishCurrent \/ Open \/ Cutoff
         \/ Resolving \/ PollAgain \/ Resolved \/ PublishPrefetched \/ SkipPrefetched

Next == Round \/ PrefetchEnds \/ Emitted \/ SettlementTakes \/ Tick \/ OutOfTime

Spec == Init /\ [][Next]_vars

-----------------------------------------------------------------------------
(* Properties *)

\* The published snapshots are those MarketWatch allows, whatever the clock does
\* between two steps (market_rotation.rs 45-163).
Watch == INSTANCE MarketWatch WITH
           phase <- IF phase = "start" THEN "resolve" ELSE phase,
           round <- IF phase \in {"start", "resolve"} THEN done + 1 ELSE slug
RotationIsMarketWatch == Watch!WatchSpec

\* Settlement is told of the markets' resolutions in the order of their windows, and of
\* one market again only when its window is run again, which takes a catalog that closed
\* it early (market_rotation.rs 66-72, 136-150).
ResolvedInOrder ==
  [][emitting = NoEvent /\ emitting'.kind = "resolved" =>
       \/ emitting'.slug > done
       \/ emitting'.slug = done /\ slug = done /\ Early > 0]_vars

\* After a market's cutoff the next event is the resolution of the same market, in the
\* channel or about to enter it (market_rotation.rs 112, 143; settlement.rs 231-247).
CutoffIsResolvedNext ==
  LET told == IF emitting = NoEvent THEN lifecycle ELSE Append(lifecycle, emitting) IN
    \A i \in 1..Len(told) : told[i].kind = "cutoff" =>
      IF i < Len(told) THEN told[i + 1] = [kind |-> "resolved", slug |-> told[i].slug]
                       ELSE phase \in {"cutoff", "resolving"} /\ slug = told[i].slug

-----------------------------------------------------------------------------
(* What comments of the code say, and the code does not do. *)

\* What is prefetched while a market is resolved is the next round
\* (market_rotation.rs 115).
PrefetchIsNextRound == prefetch # NoPrefetch => prefetch.slug = slug + 1
=============================================================================
