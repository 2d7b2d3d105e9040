------------------------ MODULE MarketRotationProofs ------------------------
(***************************************************************************)
(* What holds of MarketRotation for every length of a window, of a poll    *)
(* and of the channel, and however early the catalog closes a market: its  *)
(* types, the order in which settlement is told of the markets, and that   *)
(* the watch is driven as MarketWatch says.                                *)
(***************************************************************************)
EXTENDS MarketRotation, TLAPS

-----------------------------------------------------------------------------
(* The clock and its windows *)

LEMMA Division ==
  ASSUME NEW x \in Nat, NEW y \in Nat \ {0}
  PROVE  x \div y \in Nat /\ x % y \in 0..(y - 1) /\ x = y * (x \div y) + (x % y)
OBVIOUS

LEMMA TimesGrows ==
  ASSUME NEW a \in Nat, NEW b \in Nat, NEW n \in Nat, a <= b
  PROVE  a * n \in Nat /\ a * n <= b * n
<1>1. PICK d \in Nat : b = a + d
  <2>1. b - a \in Nat /\ b = a + (b - a)
    OBVIOUS
  <2>2. QED BY <2>1
<1>2. b * n = a * n + d * n /\ a * n \in Nat /\ d * n \in Nat
  BY <1>1
<1>3. QED BY <1>2

\* The window of a time is the last one that has opened by then.
LEMMA WindowOf ==
  ASSUME NEW t \in Nat
  PROVE  /\ Window(t) \in Nat \ {0}
         /\ OpensAt(Window(t)) <= t
         /\ t < Window(t) * Interval
         /\ \A r \in Nat \ {0} : OpensAt(r) <= t => r <= Window(t)
<1> DEFINE q == t \div Interval
<1>1. Interval \in Nat \ {0}
  BY RotationAssumption
<1>2. q \in Nat /\ t % Interval \in 0..(Interval - 1) /\ t = Interval * q + (t % Interval)
  BY <1>1, Division
<1>3. Window(t) = q + 1
  BY DEF Window
<1> HIDE DEF q
<1>4. (q + 1) * Interval = Interval * q + Interval /\ (q + 1 - 1) * Interval = Interval * q
      /\ Interval * q \in Nat
  BY <1>1, <1>2
<1>5. OpensAt(Window(t)) <= t /\ t < Window(t) * Interval
  BY <1>1, <1>2, <1>3, <1>4 DEF OpensAt
<1>6. ASSUME NEW r \in Nat \ {0}, OpensAt(r) <= t
      PROVE  r <= q + 1
  <2>1. SUFFICES ASSUME q + 1 <= r - 1 PROVE FALSE
    BY <1>2
  <2>2. (q + 1) * Interval <= (r - 1) * Interval
    BY <2>1, <1>1, <1>2, TimesGrows
  <2>3. t < (r - 1) * Interval
    BY <2>2, <1>1, <1>2, <1>3, <1>5
  <2>4. QED BY <2>3, <1>6, <1>1 DEF OpensAt
<1>7. QED BY <1>2, <1>3, <1>5, <1>6

\* The windows the clock runs through are among those the model counts.
LEMMA WindowBounded ==
  ASSUME NEW t \in 0..MaxTime
  PROVE  MaxRounds \in Nat \ {0} /\ Window(t) \in Windows /\ NextWindow(t) \in Windows
<1>1. Interval \in Nat \ {0} /\ MaxTime \in Nat /\ t \in Nat /\ t <= MaxTime
  BY RotationAssumption
<1>2. MaxTime \div Interval \in Nat
  BY <1>1, Division
<1>3. Window(MaxTime) = MaxRounds - 1 /\ MaxRounds \in Nat \ {0}
  BY <1>2 DEF Window, MaxRounds
<1>4. Window(t) \in Nat \ {0} /\ OpensAt(Window(t)) <= t
  BY <1>1, WindowOf
<1>5. OpensAt(Window(t)) \in Nat
  BY <1>1, <1>4, TimesGrows DEF OpensAt
<1>6. OpensAt(Window(t)) <= MaxTime
  BY <1>1, <1>4, <1>5
<1>7. Window(t) <= Window(MaxTime)
  BY <1>1, <1>4, <1>6, WindowOf
<1>8. QED BY <1>3, <1>4, <1>7 DEF NextWindow, Windows

\* A window that has opened is over at most an interval later.
LEMMA OpenedTimes ==
  ASSUME NEW r \in Nat \ {0}, NEW t \in Nat, OpensAt(r) <= t
  PROVE  /\ OpensAt(r) \in Nat /\ ClosesAt(r) \in Nat
         /\ ClosesAt(r) <= t + Interval
         /\ r < Window(t) \/ (r = Window(t) /\ (ClosesAt(r) <= t => Early > 0))
<1>1. Interval \in Nat \ {0} /\ Early \in Nat /\ Early < Interval
  BY RotationAssumption
<1>2. r * Interval = (r - 1) * Interval + Interval /\ (r - 1) * Interval \in Nat
  BY <1>1, TimesGrows
<1>3. OpensAt(r) \in Nat /\ ClosesAt(r) \in Nat /\ ClosesAt(r) <= t + Interval
  BY <1>1, <1>2 DEF OpensAt, ClosesAt
<1>4. r <= Window(t) /\ Window(t) \in Nat /\ t < Window(t) * Interval
  BY WindowOf
<1>5. CASE r = Window(t)
  <2>1. ClosesAt(r) <= t => Early > 0
    BY <1>5, <1>4, <1>1, <1>2 DEF ClosesAt
  <2>2. QED BY <1>3, <1>5, <2>1
<1>6. QED BY <1>3, <1>4, <1>5

-----------------------------------------------------------------------------
(* The catalog *)

\* A market is resolved when, and only when, the catalog closes it; it never says
\* TradingCutoff.
LEMMA CatalogSays ==
  /\ Catalog!Statuses[TRUE] \subseteq {"Resolved"}
  /\ Catalog!Statuses[FALSE] \subseteq {"Open", "Resolving"}
<1>1. ASSUME NEW closed \in BOOLEAN, NEW s \in Catalog!Statuses[closed]
      PROVE  IF closed THEN s = "Resolved" ELSE s \in {"Open", "Resolving"}
  <2>1. PICK g \in Catalog!GammaAnswers,
             c \in {Catalog!NoAnswer} \cup {p \in Catalog!CryptoPrices : p.completed => closed} :
               /\ Catalog!Resolve(g, c, closed) # Catalog!Error
               /\ s = Catalog!Resolve(g, c, closed).status
    BY <1>1 DEF Catalog!Statuses, Catalog!Markets
  <2>2. c.completed => closed
    BY <2>1 DEF Catalog!NoAnswer
  <2>3. s = Catalog!Status(g, c, closed)
    BY <2>1 DEF Catalog!Resolve
  <2>4. QED BY <2>2, <2>3, <1>1 DEF Catalog!Status
<1>2. QED BY <1>1

LEMMA CatalogStatusIs ==
  ASSUME NEW r \in Nat, now \in Nat, NEW s \in CatalogStatus(r)
  PROVE  /\ s \in {"Open", "Resolving", "Resolved"}
         /\ s = "Resolved" <=> now >= ClosesAt(r)
<1>1. CASE now >= ClosesAt(r)
  <2>1. (now >= ClosesAt(r)) = TRUE
    BY <1>1
  <2>2. s \in Catalog!Statuses[TRUE]
    BY <2>1 DEF CatalogStatus
  <2>3. QED BY <2>2, <1>1, CatalogSays
<1>2. CASE ~(now >= ClosesAt(r))
  <2>1. (now >= ClosesAt(r)) = FALSE
    BY <1>2
  <2>2. s \in Catalog!Statuses[FALSE]
    BY <2>1 DEF CatalogStatus
  <2>3. QED BY <2>2, <1>2, CatalogSays
<1>3. QED BY <1>1, <1>2

-----------------------------------------------------------------------------
(* Which rounds are run, and when *)

\* A round is of a window that has opened, and ends for one that has closed.
Reached == slug # 0 => OpensAt(slug) <= now

Closed == /\ done # 0 => now >= ClosesAt(done)
          /\ phase = "prefetch" => now >= ClosesAt(slug)

\* A round that finds its market resolved may be of the same window as the last one; one
\* that waits for its market is of a later one.
SlugOrder ==
  /\ phase = "start" => slug = done
  /\ phase = "resolve" => slug > done \/ (slug = done /\ Early > 0)
  /\ phase \notin {"start", "resolve"} => slug > done

PrefetchAhead ==
  prefetch # NoPrefetch =>
    /\ phase \in {"resolving", "prefetch"}
    /\ prefetch.slug > slug
    /\ prefetch.status # "TradingCutoff"

\* An event that waits for room keeps run_round from the next step that sends one.
Blocked == emitting # NoEvent => phase \in {"start", "cutoff", "prefetch"}

RotationInv == TypeOK /\ Reached /\ Closed /\ SlugOrder /\ PrefetchAhead /\ Blocked

LEMMA RotationStarts == Init => RotationInv
<1> SUFFICES ASSUME Init PROVE RotationInv
  OBVIOUS
<1>1. MaxRounds \in Nat \ {0} /\ MaxTime \in Nat /\ Interval \in Nat /\ PollDelay \in Nat
  BY RotationAssumption, WindowBounded
<1>2. TypeOK
  <2>1. market \in [slug : 0..MaxRounds, status : Statuses] /\ wake \in 0..(MaxTime + Interval + PollDelay)
    BY <1>1 DEF Init, Statuses
  <2>2. lifecycle \in Seq(Events) /\ Len(lifecycle) <= LifecycleCap
    BY RotationAssumption DEF Init
  <2>3. QED BY <1>1, <2>1, <2>2 DEF Init, TypeOK, Phases
<1>3. QED BY <1>2 DEF Init, RotationInv, Reached, Closed, SlugOrder, PrefetchAhead, Blocked

\* The slug is read off the clock; the same window comes again only if it was closed early.
LEMMA StartRoundKeeps ==
  ASSUME RotationInv, StartRound
  PROVE  RotationInv'
<1>1. now \in 0..MaxTime /\ now \in Nat /\ slug \in 0..MaxRounds /\ done = slug
  BY RotationAssumption DEF RotationInv, TypeOK, StartRound, SlugOrder
<1>2. Window(now) \in Windows /\ OpensAt(Window(now)) <= now /\ MaxRounds \in Nat
  BY <1>1, WindowOf, WindowBounded
<1>3. TypeOK'
  BY <1>2 DEF RotationInv, TypeOK, StartRound, Phases, Windows
<1>4. slug' > done \/ (slug' = done /\ Early > 0)
  <2>1. CASE done = 0
    BY <2>1, <1>2 DEF StartRound, Windows
  <2>2. CASE done # 0
    <3>1. done \in Nat \ {0} /\ OpensAt(done) <= now /\ ClosesAt(done) <= now
      BY <2>2, <1>1, <1>2, OpenedTimes DEF RotationInv, Reached, Closed
    <3>2. done < Window(now) \/ (done = Window(now) /\ Early > 0)
      BY <3>1, <1>1, OpenedTimes
    <3>3. QED BY <3>2, <1>1, <1>2 DEF StartRound, Windows
  <2>3. QED BY <2>1, <2>2
<1>5. SlugOrder'
  BY <1>4 DEF StartRound, SlugOrder
<1>6. Reached' /\ Closed' /\ PrefetchAhead' /\ Blocked'
  BY <1>2 DEF RotationInv, StartRound, Reached, Closed, PrefetchAhead, Blocked, OpensAt, ClosesAt
<1>7. QED BY <1>3, <1>5, <1>6 DEF RotationInv

LEMMA PublishedTypes ==
  ASSUME NEW r \in Windows, NEW s \in Statuses
  PROVE  [slug |-> r, status |-> s] \in [slug : 0..MaxRounds, status : Statuses]
BY DEF Windows

LEMMA StatusesOfCatalog == {"Open", "Resolving", "Resolved"} \subseteq Statuses
BY DEF Statuses

LEMMA InRound ==
  ASSUME RotationInv, phase # "start"
  PROVE  /\ slug \in Windows /\ slug \in Nat \ {0}
         /\ now \in 0..MaxTime /\ now \in Nat /\ OpensAt(slug) <= now
         /\ OpensAt(slug) \in Nat /\ ClosesAt(slug) \in Nat
         /\ ClosesAt(slug) <= now + Interval
<1>1. slug \in Windows /\ now \in 0..MaxTime /\ MaxTime \in Nat
  BY RotationAssumption DEF RotationInv, TypeOK
<1>2. slug \in Nat \ {0} /\ now \in Nat
  BY <1>1 DEF Windows
<1>3. OpensAt(slug) <= now
  BY <1>2 DEF RotationInv, Reached
<1>4. QED BY <1>1, <1>2, <1>3, OpenedTimes

LEMMA AlreadyResolvedKeeps ==
  ASSUME RotationInv, AlreadyResolved
  PROVE  RotationInv'
<1>1. slug \in Windows /\ now \in Nat /\ slug \in Nat
  BY InRound DEF AlreadyResolved
<1>2. now >= ClosesAt(slug)
  BY <1>1, CatalogStatusIs DEF AlreadyResolved
<1>3. market' \in [slug : 0..MaxRounds, status : Statuses]
  BY <1>1, PublishedTypes, StatusesOfCatalog DEF AlreadyResolved, PublishAs
<1>4. emitting' \in Events
  BY <1>1 DEF AlreadyResolved, Events
<1>5. TypeOK'
  BY <1>1, <1>3, <1>4 DEF RotationInv, TypeOK, AlreadyResolved, Phases, Windows
<1>6. Reached' /\ Closed' /\ SlugOrder' /\ Blocked'
  BY <1>2 DEF RotationInv, AlreadyResolved, Reached, Closed, SlugOrder, Blocked, OpensAt,
              ClosesAt
<1>7. PrefetchAhead'
  BY DEF RotationInv, AlreadyResolved, PrefetchAhead
<1>8. QED BY <1>5, <1>6, <1>7 DEF RotationInv

\* A market not resolved yet is of a window that has not closed, hence of a later one
\* than the last whose round has ended.
LEMMA PublishCurrentIsLater ==
  ASSUME RotationInv, PublishCurrent
  PROVE  slug > done /\ \E s \in {"Open", "Resolving"} : PublishAs(slug, s)
<1>1. slug \in Nat /\ now \in Nat
  BY InRound DEF PublishCurrent
<1>2. PICK s \in CatalogStatus(slug) \ {"Resolved"} : PublishAs(slug, s)
  BY DEF PublishCurrent
<1>3. ~(now >= ClosesAt(slug)) /\ s \in {"Open", "Resolving"}
  BY <1>1, <1>2, CatalogStatusIs
<1>4. slug > done
  <2>1. SUFFICES ASSUME slug = done PROVE FALSE
    BY DEF RotationInv, SlugOrder, PublishCurrent
  <2>2. slug # 0
    BY InRound DEF PublishCurrent
  <2>3. QED BY <1>3, <2>1, <2>2 DEF RotationInv, Closed
<1>5. QED BY <1>2, <1>3, <1>4

LEMMA PublishCurrentKeeps ==
  ASSUME RotationInv, PublishCurrent
  PROVE  RotationInv'
<1>1. slug \in Windows /\ now \in 0..MaxTime /\ OpensAt(slug) \in Nat /\ OpensAt(slug) <= now
  BY InRound DEF PublishCurrent
<1>2. slug > done /\ \E s \in {"Open", "Resolving"} : PublishAs(slug, s)
  BY PublishCurrentIsLater
<1>3. market' \in [slug : 0..MaxRounds, status : Statuses]
  BY <1>1, <1>2, PublishedTypes, StatusesOfCatalog DEF PublishAs
<1>4. wake' \in 0..(MaxTime + Interval + PollDelay)
  BY <1>1, RotationAssumption DEF PublishCurrent
<1>5. TypeOK'
  BY <1>1, <1>3, <1>4 DEF RotationInv, TypeOK, PublishCurrent, Phases, Windows
<1>6. Reached' /\ Closed' /\ SlugOrder'
  BY <1>2 DEF RotationInv, PublishCurrent, Reached, Closed, SlugOrder, OpensAt, ClosesAt
<1>7. PrefetchAhead' /\ Blocked'
  BY DEF RotationInv, PublishCurrent, PrefetchAhead, Blocked
<1>8. QED BY <1>5, <1>6, <1>7 DEF RotationInv

LEMMA OpenKeeps ==
  ASSUME RotationInv, Open
  PROVE  RotationInv'
<1>1. /\ slug \in Windows /\ now \in 0..MaxTime
      /\ ClosesAt(slug) \in Nat /\ ClosesAt(slug) <= now + Interval
  BY InRound DEF Open
<1>2. market' \in [slug : 0..MaxRounds, status : Statuses]
  BY <1>1, PublishedTypes, StatusesOfCatalog DEF Open, PublishAs
<1>3. wake' \in 0..(MaxTime + Interval + PollDelay)
  BY <1>1, RotationAssumption DEF Open
<1>4. TypeOK'
  BY <1>1, <1>2, <1>3 DEF RotationInv, TypeOK, Open, Phases, Windows
<1>5. Reached' /\ Closed' /\ SlugOrder'
  BY DEF RotationInv, Open, Reached, Closed, SlugOrder, OpensAt, ClosesAt
<1>6. PrefetchAhead' /\ Blocked'
  BY DEF RotationInv, Open, PrefetchAhead, Blocked
<1>7. QED BY <1>4, <1>5, <1>6 DEF RotationInv

LEMMA CutoffKeeps ==
  ASSUME RotationInv, Cutoff
  PROVE  RotationInv'
<1>1. slug \in Windows
  BY InRound DEF Cutoff
<1>2. market' \in [slug : 0..MaxRounds, status : Statuses]
  BY <1>1, PublishedTypes DEF Cutoff, PublishAs, Statuses
<1>3. emitting' \in Events
  BY <1>1 DEF Cutoff, Events
<1>4. TypeOK'
  BY <1>1, <1>2, <1>3 DEF RotationInv, TypeOK, Cutoff, Phases, Windows
<1>5. Reached' /\ Closed' /\ SlugOrder'
  BY DEF RotationInv, Cutoff, Reached, Closed, SlugOrder, OpensAt, ClosesAt
<1>6. PrefetchAhead' /\ Blocked'
  BY DEF RotationInv, Cutoff, PrefetchAhead, Blocked
<1>7. QED BY <1>4, <1>5, <1>6 DEF RotationInv

\* The window after the one the clock is in is later than the round's.
LEMMA ResolvingKeeps ==
  ASSUME RotationInv, Resolving
  PROVE  RotationInv'
<1>1. slug \in Windows /\ slug \in Nat \ {0} /\ now \in 0..MaxTime /\ now \in Nat
      /\ OpensAt(slug) <= now
  BY InRound DEF Resolving
<1>2. /\ NextWindow(now) \in Windows /\ Window(now) \in Nat
      /\ slug <= Window(now)
  BY <1>1, WindowBounded, WindowOf
<1>3. NextWindow(now) > slug
  BY <1>1, <1>2 DEF NextWindow
<1>4. market' \in [slug : 0..MaxRounds, status : Statuses]
  BY <1>1, PublishedTypes, StatusesOfCatalog DEF Resolving, PublishAs
<1>5. wake' \in 0..(MaxTime + Interval + PollDelay)
  BY <1>1, RotationAssumption DEF Resolving
<1>6. prefetch' \in [slug : Windows, status : Statuses \cup {"running", "failed"}]
  BY <1>2 DEF Resolving
<1>7. TypeOK'
  BY <1>1, <1>4, <1>5, <1>6 DEF RotationInv, TypeOK, Resolving, Phases, Windows
<1>8. Reached' /\ Closed' /\ SlugOrder'
  BY DEF RotationInv, Resolving, Reached, Closed, SlugOrder, OpensAt, ClosesAt
<1>9. PrefetchAhead' /\ Blocked'
  BY <1>3 DEF RotationInv, Resolving, PrefetchAhead, Blocked
<1>10. QED BY <1>7, <1>8, <1>9 DEF RotationInv

LEMMA PrefetchEndsKeeps ==
  ASSUME RotationInv, PrefetchEnds
  PROVE  RotationInv'
<1>1. prefetch # NoPrefetch /\ now \in Nat
      /\ prefetch \in [slug : Windows, status : Statuses \cup {"running", "failed"}]
  BY RotationAssumption DEF RotationInv, TypeOK, PrefetchEnds, NoPrefetch
<1>2. PICK s \in CatalogStatus(prefetch.slug) \cup {"failed"} :
        prefetch' = [prefetch EXCEPT !.status = s]
  BY DEF PrefetchEnds
<1>3. s \in {"Open", "Resolving", "Resolved", "failed"}
  BY <1>1, <1>2, CatalogStatusIs DEF Windows
<1>4. /\ prefetch' \in [slug : Windows, status : Statuses \cup {"running", "failed"}]
      /\ prefetch'.slug = prefetch.slug /\ prefetch'.status # "TradingCutoff"
  BY <1>1, <1>2, <1>3, StatusesOfCatalog
<1>5. TypeOK'
  BY <1>4 DEF RotationInv, TypeOK, PrefetchEnds
<1>6. PrefetchAhead'
  BY <1>1, <1>4 DEF RotationInv, PrefetchEnds, PrefetchAhead
<1>7. Reached' /\ Closed' /\ SlugOrder' /\ Blocked'
  BY DEF RotationInv, PrefetchEnds, Reached, Closed, SlugOrder, Blocked, OpensAt, ClosesAt
<1>8. QED BY <1>5, <1>6, <1>7 DEF RotationInv

LEMMA PollAgainKeeps ==
  ASSUME RotationInv, PollAgain
  PROVE  RotationInv'
<1>1. wake' \in 0..(MaxTime + Interval + PollDelay)
  BY InRound, RotationAssumption DEF PollAgain
<1>2. TypeOK'
  BY <1>1 DEF RotationInv, TypeOK, PollAgain
<1>3. Reached' /\ Closed' /\ SlugOrder' /\ PrefetchAhead' /\ Blocked'
  BY DEF RotationInv, PollAgain, Reached, Closed, SlugOrder, PrefetchAhead, Blocked, OpensAt,
         ClosesAt
<1>4. QED BY <1>2, <1>3 DEF RotationInv

LEMMA ResolvedKeeps ==
  ASSUME RotationInv, Resolved
  PROVE  RotationInv'
<1>1. slug \in Windows /\ slug \in Nat \ {0} /\ now \in Nat
  BY InRound DEF Resolved
<1>2. now >= ClosesAt(slug)
  BY <1>1, CatalogStatusIs DEF Resolved
<1>3. market' \in [slug : 0..MaxRounds, status : Statuses]
  BY <1>1, PublishedTypes, StatusesOfCatalog DEF Resolved, PublishAs
<1>4. emitting' \in Events
  BY <1>1 DEF Resolved, Events
<1>5. TypeOK'
  BY <1>1, <1>3, <1>4 DEF RotationInv, TypeOK, Resolved, Phases, Windows
<1>6. Reached' /\ Closed' /\ SlugOrder'
  BY <1>2 DEF RotationInv, Resolved, Reached, Closed, SlugOrder, OpensAt, ClosesAt
<1>7. PrefetchAhead' /\ Blocked'
  BY DEF RotationInv, Resolved, PrefetchAhead, Blocked
<1>8. QED BY <1>5, <1>6, <1>7 DEF RotationInv

LEMMA EndRoundKeeps ==
  ASSUME RotationInv, PublishPrefetched \/ SkipPrefetched
  PROVE  RotationInv'
<1>1. phase = "prefetch" /\ emitting = NoEvent /\ EndRound
      /\ UNCHANGED <<now, slug, wake, emitting, lifecycle>>
  BY DEF PublishPrefetched, SkipPrefetched
<1>2. slug \in Windows
  BY <1>1, InRound
<1>3. market' \in [slug : 0..MaxRounds, status : Statuses]
  <2>1. CASE PublishPrefetched
    <3>1. prefetch.slug \in Windows /\ prefetch.status \in Statuses
      BY <2>1 DEF RotationInv, TypeOK, PublishPrefetched, NoPrefetch, Statuses
    <3>2. QED BY <2>1, <3>1, PublishedTypes DEF PublishPrefetched, PublishAs
  <2>2. CASE SkipPrefetched
    BY <2>2 DEF RotationInv, TypeOK, SkipPrefetched
  <2>3. QED BY <2>1, <2>2
<1>4. TypeOK'
  BY <1>1, <1>2, <1>3 DEF RotationInv, TypeOK, EndRound, Phases, Windows
<1>5. Reached' /\ Closed' /\ SlugOrder'
  BY <1>1 DEF RotationInv, EndRound, Reached, Closed, SlugOrder, OpensAt, ClosesAt
<1>6. PrefetchAhead' /\ Blocked'
  BY <1>1 DEF RotationInv, EndRound, PrefetchAhead, Blocked
<1>7. QED BY <1>4, <1>5, <1>6 DEF RotationInv

\* Neither the channel nor the clock has a say in which round is run.
LEMMA ChannelKeeps ==
  ASSUME RotationInv, Emitted \/ SettlementTakes
  PROVE  RotationInv'
<1>1. /\ lifecycle' \in Seq(Events) /\ Len(lifecycle') <= LifecycleCap
      /\ emitting' \in Events \cup {NoEvent} /\ (emitting' = emitting \/ emitting' = NoEvent)
  <2>1. lifecycle \in Seq(Events) /\ Len(lifecycle) <= LifecycleCap
        /\ emitting \in Events \cup {NoEvent} /\ LifecycleCap \in Nat
    BY RotationAssumption DEF RotationInv, TypeOK
  <2>2. CASE Emitted
    <3>1. emitting \in Events
      BY <2>1, <2>2 DEF Emitted
    <3>2. lifecycle' \in Seq(Events) /\ Len(lifecycle') = Len(lifecycle) + 1
      BY <2>1, <2>2, <3>1 DEF Emitted
    <3>3. QED BY <2>1, <2>2, <3>2 DEF Emitted
  <2>3. CASE SettlementTakes
    <3>1. lifecycle' \in Seq(Events) /\ Len(lifecycle') = Len(lifecycle) - 1
      BY <2>1, <2>3 DEF SettlementTakes
    <3>2. QED BY <2>1, <2>3, <3>1 DEF SettlementTakes
  <2>4. QED BY <2>2, <2>3
<1>2. UNCHANGED <<now, market, phase, slug, wake, prefetch, done>>
  BY DEF Emitted, SettlementTakes
<1>3. TypeOK'
  BY <1>1, <1>2 DEF RotationInv, TypeOK
<1>4. Reached' /\ Closed' /\ SlugOrder' /\ PrefetchAhead' /\ Blocked'
  BY <1>1, <1>2 DEF RotationInv, Reached, Closed, SlugOrder, PrefetchAhead, Blocked, OpensAt,
                    ClosesAt
<1>5. QED BY <1>3, <1>4 DEF RotationInv

LEMMA TickKeeps ==
  ASSUME RotationInv, Tick
  PROVE  RotationInv'
<1>1. TypeOK'
  BY RotationAssumption DEF RotationInv, TypeOK, Tick
<1>2. now \in Nat /\ now' = now + 1 /\ MaxRounds \in Nat /\ slug \in Nat /\ done \in Nat
      /\ (phase # "start" => slug # 0)
  BY RotationAssumption, WindowBounded DEF RotationInv, TypeOK, Tick, Windows
<1>3. Reached'
  <2>1. slug # 0 => OpensAt(slug) \in Nat /\ OpensAt(slug) <= now
    BY <1>2, OpenedTimes DEF RotationInv, Reached
  <2>2. OpensAt(slug)' = OpensAt(slug)
    BY DEF Tick, OpensAt
  <2>3. QED BY <1>2, <2>1, <2>2 DEF Tick, Reached
<1>4. Closed'
  <2>1. \A r \in Nat \ {0} : ClosesAt(r) <= now => ClosesAt(r) <= now + 1
    <3>1. SUFFICES ASSUME NEW r \in Nat \ {0}, ClosesAt(r) <= now PROVE ClosesAt(r) <= now + 1
      OBVIOUS
    <3>2. r * Interval \in Nat /\ r * Interval >= Interval /\ Early \in Nat /\ Early < Interval
          /\ Interval \in Nat
      <4>1. 1 * Interval <= r * Interval /\ 1 * Interval = Interval
        BY RotationAssumption, TimesGrows
      <4>2. r * Interval \in Nat
        BY RotationAssumption, TimesGrows
      <4>3. QED BY <4>1, <4>2, RotationAssumption
    <3>3. QED BY <1>2, <3>1, <3>2 DEF ClosesAt
  <2>2. done' = done /\ slug' = slug /\ phase' = phase
    BY DEF Tick
  <2>3. ClosesAt(done)' = ClosesAt(done) /\ ClosesAt(slug)' = ClosesAt(slug)
    BY <2>2 DEF ClosesAt
  <2>4. QED BY <1>2, <2>1, <2>2, <2>3 DEF RotationInv, Closed
<1>5. SlugOrder' /\ PrefetchAhead' /\ Blocked'
  BY DEF RotationInv, Tick, SlugOrder, PrefetchAhead, Blocked
<1>6. QED BY <1>1, <1>3, <1>4, <1>5 DEF RotationInv

LEMMA StillKeeps ==
  ASSUME RotationInv, UNCHANGED vars
  PROVE  RotationInv'
BY DEF vars, RotationInv, TypeOK, Reached, Closed, SlugOrder, PrefetchAhead, Blocked, OpensAt,
       ClosesAt

LEMMA RotationStep == RotationInv /\ [Next]_vars => RotationInv'
<1> SUFFICES ASSUME RotationInv, [Next]_vars PROVE RotationInv'
  OBVIOUS
<1>1. CASE Round
  BY <1>1, StartRoundKeeps, AlreadyResolvedKeeps, PublishCurrentKeeps, OpenKeeps, CutoffKeeps,
     ResolvingKeeps, PollAgainKeeps, ResolvedKeeps, EndRoundKeeps DEF Round
<1>2. CASE PrefetchEnds
  BY <1>2, PrefetchEndsKeeps
<1>3. CASE Emitted \/ SettlementTakes
  BY <1>3, ChannelKeeps
<1>4. CASE Tick
  BY <1>4, TickKeeps
<1>5. CASE OutOfTime \/ UNCHANGED vars
  BY <1>5, StillKeeps DEF OutOfTime
<1>6. QED BY <1>1, <1>2, <1>3, <1>4, <1>5 DEF Next

\* Every round is of a window that has opened and every round that has ended is of one the
\* catalog has closed; the window a round waits in is later than every one before, and
\* what is prefetched is later still (market_rotation.rs 45-163, market_clock.rs).
THEOREM RotationInvariance == Spec => []RotationInv
<1>1. Init => RotationInv
  BY RotationStarts
<1>2. RotationInv /\ [Next]_vars => RotationInv'
  BY RotationStep
<1>3. QED BY <1>1, <1>2, PTL DEF Spec

-----------------------------------------------------------------------------
(* The order settlement is told in *)

\* Of a market settlement is told again only when its window is run again
\* (market_rotation.rs 66-72, 136-150).
THEOREM ToldInOrder == Spec => ResolvedInOrder
<1> DEFINE Order == emitting = NoEvent /\ emitting'.kind = "resolved" =>
                      \/ emitting'.slug > done
                      \/ emitting'.slug = done /\ slug = done /\ Early > 0
<1>1. RotationInv /\ [Next]_vars => [Order]_vars
  <2> SUFFICES ASSUME RotationInv, Next, emitting = NoEvent, emitting'.kind = "resolved"
               PROVE  \/ emitting'.slug > done
                      \/ emitting'.slug = done /\ slug = done /\ Early > 0
    OBVIOUS
  <2>1. CASE AlreadyResolved
    BY <2>1 DEF AlreadyResolved, RotationInv, SlugOrder
  <2>2. CASE Resolved
    BY <2>2 DEF Resolved, RotationInv, SlugOrder
  <2>3. CASE Cutoff
    BY <2>3 DEF Cutoff
  <2>4. emitting' = NoEvent \/ AlreadyResolved \/ Resolved \/ Cutoff
    BY DEF Next, Round, StartRound, PublishCurrent, Open, Resolving, PollAgain,
           PublishPrefetched, SkipPrefetched, PrefetchEnds, Emitted, SettlementTakes, Tick,
           OutOfTime, vars
  <2>5. QED BY <2>1, <2>2, <2>3, <2>4 DEF NoEvent
<1>2. QED BY <1>1, RotationInvariance, PTL DEF Spec, ResolvedInOrder

\* What settlement has been told of and not taken, the event that waits for room included.
Told == IF emitting = NoEvent THEN lifecycle ELSE Append(lifecycle, emitting)

\* The market whose resolution run_round is to tell of, as it has told of its cutoff.
Owed == IF phase \in {"cutoff", "resolving"} THEN slug ELSE 0

\* Every cutoff of q is followed by the same market's resolution, but one of market s at
\* its end.
Followed(q, s) ==
  \A i \in 1..Len(q) : q[i].kind = "cutoff" =>
    IF i < Len(q) THEN q[i + 1] = [kind |-> "resolved", slug |-> q[i].slug]
                  ELSE q[i].slug = s

LEMMA EventTypes == \A e \in Events : e.slug # 0 /\ e.kind \in {"cutoff", "resolved"}
<1>1. 0 \in 0..MaxTime
  BY RotationAssumption
<1>2. MaxRounds \in Nat
  BY <1>1, WindowBounded
<1>3. QED BY <1>2 DEF Events, Windows

LEMMA ToldTypes ==
  ASSUME RotationInv
  PROVE  Told \in Seq(Events)
<1>1. lifecycle \in Seq(Events) /\ emitting \in Events \cup {NoEvent}
  BY DEF RotationInv, TypeOK
<1>2. QED BY <1>1 DEF Told

LEMMA FollowedIsCutoffIsResolvedNext ==
  ASSUME RotationInv
  PROVE  CutoffIsResolvedNext <=> Followed(Told, Owed)
<1>1. Told \in Seq(Events)
  BY ToldTypes
<1>2. \A i \in 1..Len(Told) :
        Told[i].slug = Owed <=> phase \in {"cutoff", "resolving"} /\ slug = Told[i].slug
  <2>1. \A i \in 1..Len(Told) : Told[i].slug # 0
    BY <1>1, EventTypes
  <2>2. QED BY <2>1 DEF Owed
<1>3. CutoffIsResolvedNext <=>
        \A i \in 1..Len(Told) : Told[i].kind = "cutoff" =>
          IF i < Len(Told) THEN Told[i + 1] = [kind |-> "resolved", slug |-> Told[i].slug]
                           ELSE phase \in {"cutoff", "resolving"} /\ slug = Told[i].slug
  BY DEF CutoffIsResolvedNext, Told
<1>4. QED BY <1>2, <1>3 DEF Followed

LEMMA FollowedTail ==
  ASSUME NEW q \in Seq(Events), NEW s, q # <<>>, Followed(q, s)
  PROVE  Followed(Tail(q), s)
<1>1. Len(Tail(q)) = Len(q) - 1 /\ Len(q) \in Nat
  OBVIOUS
<1>2. \A i \in 1..Len(Tail(q)) : Tail(q)[i] = q[i + 1] /\ i + 1 \in 1..Len(q)
  BY <1>1
<1>3. SUFFICES ASSUME NEW i \in 1..Len(Tail(q)), Tail(q)[i].kind = "cutoff"
               PROVE  IF i < Len(Tail(q))
                        THEN Tail(q)[i + 1] = [kind |-> "resolved", slug |-> Tail(q)[i].slug]
                        ELSE Tail(q)[i].slug = s
  BY DEF Followed
<1>4. Tail(q)[i] = q[i + 1] /\ i + 1 \in 1..Len(q)
  BY <1>2
<1>5. IF i + 1 < Len(q) THEN q[i + 1 + 1] = [kind |-> "resolved", slug |-> q[i + 1].slug]
                        ELSE q[i + 1].slug = s
  BY <1>3, <1>4 DEF Followed
<1>6. CASE i < Len(Tail(q))
  <2>1. i + 1 \in 1..Len(Tail(q)) /\ i + 1 < Len(q)
    BY <1>1, <1>6
  <2>2. Tail(q)[i + 1] = q[i + 1 + 1]
    BY <1>2, <2>1
  <2>3. QED BY <1>4, <1>5, <1>6, <2>1, <2>2
<1>7. CASE ~(i < Len(Tail(q)))
  <2>1. ~(i + 1 < Len(q))
    BY <1>1, <1>7
  <2>2. QED BY <1>4, <1>5, <1>7, <2>1
<1>8. QED BY <1>6, <1>7

\* A cutoff may be told of when nothing is owed, and a resolution when it is what is owed,
\* or nothing is.
LEMMA FollowedAppend ==
  ASSUME NEW q \in Seq(Events), NEW e \in Events, NEW s, Followed(q, s),
         \/ s = 0 /\ e.kind = "cutoff"
         \/ s = 0 /\ e.kind = "resolved"
         \/ e = [kind |-> "resolved", slug |-> s]
  PROVE  Followed(Append(q, e), IF e.kind = "cutoff" THEN e.slug ELSE 0)
<1> DEFINE qq == Append(q, e)
<1> DEFINE ss == IF e.kind = "cutoff" THEN e.slug ELSE 0
<1>1. Len(qq) = Len(q) + 1 /\ Len(q) \in Nat /\ qq[Len(q) + 1] = e
      /\ \A i \in 1..Len(q) : qq[i] = q[i] /\ q[i].slug # 0
  <2>1. \A i \in 1..Len(q) : q[i] \in Events
    OBVIOUS
  <2>2. QED BY <2>1, EventTypes
<1> HIDE DEF qq
<1>2. SUFFICES ASSUME NEW i \in 1..Len(qq), qq[i].kind = "cutoff"
               PROVE  IF i < Len(qq)
                        THEN qq[i + 1] = [kind |-> "resolved", slug |-> qq[i].slug]
                        ELSE qq[i].slug = ss
  BY DEF Followed, qq
<1>3. CASE i = Len(q) + 1
  BY <1>1, <1>2, <1>3
<1>4. CASE i = Len(q)
  <2>0. i \in 1..Len(q) /\ ~(i < Len(q))
    BY <1>1, <1>2, <1>4
  <2>1. q[i].slug = s /\ s # 0 /\ qq[i] = q[i] /\ qq[i + 1] = e
    BY <1>1, <1>2, <1>4, <2>0 DEF Followed
  <2>2. e = [kind |-> "resolved", slug |-> s]
    BY <2>1
  <2>3. QED BY <2>1, <2>2, <1>1, <1>4
<1>5. CASE i < Len(q)
  <2>1. i \in 1..Len(q) /\ i + 1 \in 1..Len(q)
    BY <1>1, <1>5
  <2>2. qq[i] = q[i] /\ qq[i + 1] = q[i + 1]
    BY <1>1, <2>1
  <2>3. q[i + 1] = [kind |-> "resolved", slug |-> q[i].slug]
    BY <1>2, <1>5, <2>1, <2>2 DEF Followed
  <2>4. QED BY <1>1, <1>5, <2>2, <2>3
<1>6. QED BY <1>1, <1>3, <1>4, <1>5

LEMMA ToldStarts == Init => Followed(Told, Owed)
BY DEF Init, Told, Owed, Followed

\* The steps that tell settlement something do so when nothing waits for room.
LEMMA ToldMore ==
  ASSUME RotationInv, Followed(Told, Owed), AlreadyResolved \/ Cutoff \/ Resolved
  PROVE  Followed(Told, Owed)'
<1>1. emitting = NoEvent
  BY DEF RotationInv, Blocked, AlreadyResolved, Cutoff, Resolved
<1>2. slug \in Windows /\ lifecycle \in Seq(Events)
  BY InRound DEF AlreadyResolved, Cutoff, Resolved, RotationInv, TypeOK
<1>3. emitting' \in Events /\ emitting' # NoEvent /\ lifecycle' = lifecycle /\ slug' = slug
  BY <1>2 DEF AlreadyResolved, Cutoff, Resolved, Events, NoEvent
<1>4. Told = lifecycle /\ Told' = Append(lifecycle, emitting')
  BY <1>1, <1>3 DEF Told
<1>5. Owed' = IF emitting'.kind = "cutoff" THEN emitting'.slug ELSE 0
  BY DEF Owed, AlreadyResolved, Cutoff, Resolved
<1>6. \/ Owed = 0 /\ emitting'.kind \in {"cutoff", "resolved"}
      \/ emitting' = [kind |-> "resolved", slug |-> Owed]
  BY DEF Owed, AlreadyResolved, Cutoff, Resolved
<1>7. Followed(lifecycle, Owed)
  BY <1>4
<1>8. Followed(Append(lifecycle, emitting'), Owed')
  BY <1>2, <1>3, <1>5, <1>6, <1>7, FollowedAppend
<1>9. QED BY <1>4, <1>8 DEF Followed

LEMMA ToldLess ==
  ASSUME RotationInv, Followed(Told, Owed), SettlementTakes
  PROVE  Followed(Told, Owed)'
<1>1. lifecycle \in Seq(Events) /\ emitting \in Events \cup {NoEvent} /\ lifecycle # <<>>
  BY DEF RotationInv, TypeOK, SettlementTakes
<1>2. Append(Tail(lifecycle), emitting) = Tail(Append(lifecycle, emitting))
      /\ Append(lifecycle, emitting) # <<>>
  BY <1>1
<1>3. Told \in Seq(Events) /\ Told # <<>> /\ Told' = Tail(Told) /\ Owed' = Owed
  BY <1>1, <1>2, ToldTypes DEF Told, Owed, SettlementTakes
<1>4. Followed(Tail(Told), Owed)
  BY <1>3, FollowedTail
<1>5. QED BY <1>3, <1>4 DEF Followed

LEMMA ToldAlike ==
  ASSUME RotationInv, Followed(Told, Owed), Next \/ UNCHANGED vars,
         ~AlreadyResolved, ~Cutoff, ~Resolved, ~SettlementTakes
  PROVE  Followed(Told, Owed)'
<1>1. Told' = Told
  <2>1. UNCHANGED <<emitting, lifecycle>> => Told' = Told
    BY DEF Told
  <2>2. Emitted => Told' = Told
    BY DEF Emitted, Told
  <2>3. Emitted \/ UNCHANGED <<emitting, lifecycle>>
    BY DEF Next, Round, StartRound, PublishCurrent, Open, Resolving, PollAgain,
           PublishPrefetched, SkipPrefetched, PrefetchEnds, Tick, OutOfTime, vars
  <2>4. QED BY <2>1, <2>2, <2>3
<1>2. Owed' = Owed
  BY DEF Owed, Next, Round, StartRound, PublishCurrent, Open, Resolving, PollAgain,
         PublishPrefetched, SkipPrefetched, EndRound, PrefetchEnds, Emitted, Tick, OutOfTime,
         vars
<1>3. QED BY <1>1, <1>2 DEF Followed

\* After a market's cutoff the next event is the resolution of the same market
\* (market_rotation.rs 112, 143; settlement.rs 231-247).
THEOREM CutoffThenResolved == Spec => []CutoffIsResolvedNext
<1>1. Init => Followed(Told, Owed)
  BY ToldStarts
<1>2. RotationInv /\ Followed(Told, Owed) /\ [Next]_vars => Followed(Told, Owed)'
  BY ToldMore, ToldLess, ToldAlike
<1>3. RotationInv /\ Followed(Told, Owed) => CutoffIsResolvedNext
  BY FollowedIsCutoffIsResolvedNext
<1>4. QED BY <1>1, <1>2, <1>3, RotationInvariance, PTL DEF Spec

-----------------------------------------------------------------------------
(* MarketRotation implements MarketWatch *)

LEMMA WatchStarts == Init => Watch!MarketInit
BY DEF Init, Watch!MarketInit, Watch!NoMarket

\* A round begins: with the market already resolved, or with one to wait for.
LEMMA BeginsRound ==
  ASSUME RotationInv, AlreadyResolved \/ PublishCurrent
  PROVE  Watch!BeginRound
<1>1. slug \in Windows /\ slug \in Nat /\ done \in Nat /\ phase = "resolve"
      /\ (slug > done \/ slug = done) /\ slug' = slug
  BY InRound DEF RotationInv, TypeOK, SlugOrder, AlreadyResolved, PublishCurrent
<1>2. slug \in Watch!Rounds /\ {"Open", "Resolving", "Resolved"} = Watch!CatalogStatuses
  BY <1>1 DEF Windows, Watch!Rounds, Watch!CatalogStatuses
<1>3. CASE AlreadyResolved
  <2>1. market' = Watch!Snapshot(slug, "Resolved") /\ phase' = "start" /\ done' = slug
    BY <1>3 DEF AlreadyResolved, PublishAs, Watch!Snapshot
  <2>2. slug >= done + 1 \/ slug = done + 1 - 1
    BY <1>1
  <2>3. QED BY <1>1, <1>2, <2>1, <2>2 DEF Watch!BeginRound
<1>4. CASE PublishCurrent
  <2>1. PICK s \in {"Open", "Resolving"} : PublishAs(slug, s)
    BY <1>4, PublishCurrentIsLater
  <2>2. slug >= done + 1
    BY <1>1, <1>4, PublishCurrentIsLater
  <2>3. market' = Watch!Snapshot(slug, s) /\ phase' = "published" /\ s \in Watch!CatalogStatuses
    BY <1>2, <1>4, <2>1 DEF PublishCurrent, PublishAs, Watch!Snapshot
  <2>4. QED BY <1>1, <1>2, <2>1, <2>2, <2>3 DEF Watch!BeginRound
<1>5. QED BY <1>3, <1>4

LEMMA Advances ==
  /\ Open => Watch!OpenTrading
  /\ Cutoff => Watch!CutoffTrading
  /\ Resolving => Watch!StartResolving
  /\ Resolved => Watch!ConfirmResolved
BY DEF Open, Cutoff, Resolving, Resolved, PublishAs, Watch!OpenTrading, Watch!CutoffTrading,
       Watch!StartResolving, Watch!ConfirmResolved, Watch!Advance, Watch!Snapshot

\* A round ends: what was fetched meanwhile is a market of a later round.
LEMMA EndsRound ==
  ASSUME RotationInv
  PROVE  /\ PublishPrefetched => Watch!PublishPrefetched
         /\ SkipPrefetched => Watch!SkipPrefetched
<1>1. SkipPrefetched => Watch!SkipPrefetched
  BY DEF SkipPrefetched, EndRound, Watch!SkipPrefetched
<1>2. ASSUME PublishPrefetched PROVE Watch!PublishPrefetched
  <2>1. prefetch # NoPrefetch
    BY <1>2 DEF PublishPrefetched, NoPrefetch, Statuses
  <2>2. /\ prefetch.slug \in Windows /\ prefetch.slug > slug
        /\ prefetch.status \in Watch!CatalogStatuses
    BY <1>2, <2>1 DEF RotationInv, TypeOK, PrefetchAhead, PublishPrefetched, Statuses,
                      Watch!CatalogStatuses
  <2>3. prefetch.slug \in Watch!Rounds
    BY <2>2 DEF Windows, Watch!Rounds
  <2>4. market' = Watch!Snapshot(prefetch.slug, prefetch.status)
    BY <1>2 DEF PublishPrefetched, PublishAs, Watch!Snapshot
  <2>5. phase = "prefetch" /\ phase' = "start" /\ done' = slug
    BY <1>2 DEF PublishPrefetched, EndRound
  <2>6. QED BY <2>2, <2>3, <2>4, <2>5 DEF Watch!PublishPrefetched
<1>3. QED BY <1>1, <1>2

\* Every other step leaves the watch, and which round is run, alone.
LEMMA WatchStutters ==
  ASSUME RotationInv,
         StartRound \/ PollAgain \/ PrefetchEnds \/ Emitted \/ SettlementTakes \/ Tick
           \/ OutOfTime \/ UNCHANGED vars
  PROVE  UNCHANGED Watch!rotationVars
BY DEF StartRound, PollAgain, PrefetchEnds, Emitted, SettlementTakes, Tick, OutOfTime, vars,
       Watch!rotationVars

LEMMA WatchSteps ==
  RotationInv /\ [Next]_vars => [Watch!Publish \/ Watch!SkipPrefetched]_(Watch!rotationVars)
BY BeginsRound, Advances, EndsRound, WatchStutters DEF Next, Round, Watch!Publish

\* Whatever the clock does between two steps, run_round drives the watch as MarketWatch
\* says, which is what the other components' models are built on
\* (market_rotation.rs 45-163).
THEOREM ImplementsMarketWatch == Spec => RotationIsMarketWatch
BY WatchStarts, WatchSteps, RotationInvariance, PTL
   DEF Spec, RotationIsMarketWatch, Watch!WatchSpec
=============================================================================
