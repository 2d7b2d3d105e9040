-------------------------- MODULE PriceTicksProofs --------------------------
(***************************************************************************)
(* What holds of PriceTicks for every capacity of the channels and of      *)
(* settlement's cache, and any number of ticks and errors: its types, that *)
(* beside the ticks the rotation is MarketRotation's, and that settlement  *)
(* judges a market by the newest tick it was given up to the close if the  *)
(* feed stamps in milliseconds, and by the newest one of all if in seconds.*)
(***************************************************************************)
EXTENDS PriceTicks, MarketRotationProofs, FiniteSetTheorems, WellFoundedInduction

-----------------------------------------------------------------------------
(* The rotation beside the ticks *)

LEMMA RotationMoves == [TicksNext]_allVars => [Next]_vars
BY DEF TicksNext, Rotation, SourceTicks, SourceErrs, StreamEnds, NextTick, FeedFails, WakeUp,
       CacheTick, TakeCutoff, TakeResolved, Next, allVars

\* Nothing the ticks do keeps the rotation from anything, or makes it do anything: what is
\* proved of MarketRotation holds beside the feeds and settlement.
THEOREM TicksRunRotation == TicksSpec => Spec
BY RotationMoves, PTL DEF TicksSpec, TicksInit, Spec

\* So settlement is told of the markets in the order of their windows, of each one's
\* resolution right after its cutoff, and the watch is driven as MarketWatch says.
COROLLARY RotationBesideTicks ==
  TicksSpec => ResolvedInOrder /\ []CutoffIsResolvedNext /\ RotationIsMarketWatch
BY TicksRunRotation, ToldInOrder, CutoffThenResolved, ImplementsMarketWatch, PTL

-----------------------------------------------------------------------------
(* Newest, and sequences of ticks *)

\* A non-empty set of naturals has a least element.
LEMMA LeastNatural ==
  ASSUME NEW S, S \subseteq Nat, S # {}
  PROVE  \E x \in S : \A y \in S : x <= y
<1> DEFINE Below == {ss \in Nat \X Nat : ss[1] < ss[2]}
<1>1. IsWellFoundedOn(Below, Nat)
  BY NatLessThanWellFounded DEF OpToRel
<1>2. PICK x \in S : \A y \in S : ~ (<<y, x>> \in Below)
  <2> HIDE DEF Below
  <2>1. QED BY <1>1, WFMin
<1>3. ASSUME NEW y \in S PROVE x <= y
  <2>1. x \in Nat /\ y \in Nat OBVIOUS
  <2>2. <<y, x>> \in Nat \X Nat BY <2>1
  <2>3. ~ (y < x) BY <1>2, <2>2
  <2>4. QED BY <2>1, <2>3
<1>4. QED BY <1>3

LEMMA NewestIs ==
  ASSUME NEW n \in Nat, NEW ts \in SUBSET (0..n)
  PROVE  /\ Newest(ts) \in 0..n
         /\ ts # {} => Newest(ts) \in ts
         /\ \A u \in ts : u <= Newest(ts)
<1>1. CASE ts = {}
  BY <1>1 DEF Newest, NoTick
<1>2. CASE ts # {}
  <2> DEFINE bounds == {b \in Nat : \A u \in ts : u <= b}
  <2>1. n \in bounds
    OBVIOUS
  <2>2. PICK b \in bounds : \A c \in bounds : b <= c
    <3> HIDE DEF bounds
    <3>1. bounds \subseteq Nat
      BY DEF bounds
    <3>2. QED BY <2>1, <3>1, LeastNatural
  <2>3. b \in ts
    <3>1. SUFFICES ASSUME b \notin ts PROVE FALSE
      OBVIOUS
    <3>2. \A u \in ts : u < b /\ u \in Nat
      BY <2>2, <3>1
    <3>3. b # 0
      <4>1. PICK u \in ts : u < b /\ u \in Nat
        BY <1>2, <3>2
      <4>2. QED BY <4>1
    <3>4. b - 1 \in bounds
      BY <2>2, <3>2, <3>3
    <3>5. QED BY <2>2, <3>4
  <2>4. \A u \in ts : u <= b
    BY <2>2
  <2> HIDE DEF bounds
  <2>5. Newest(ts) \in ts /\ \A u \in ts : u <= Newest(ts)
    BY <1>2, <2>3, <2>4 DEF Newest
  <2>6. QED BY <1>2, <2>5
<1>3. QED BY <1>1, <1>2

\* The greatest element of a set is what Newest returns.
LEMMA NewestIsGreatest ==
  ASSUME NEW n \in Nat, NEW ts \in SUBSET (0..n), NEW g \in ts, \A u \in ts : u <= g
  PROVE  Newest(ts) = g
<1>1. Newest(ts) \in ts /\ g <= Newest(ts)
  BY NewestIs
<1>2. \A u \in ts : u \in Nat /\ u <= g
  OBVIOUS
<1>3. g \in Nat /\ Newest(ts) \in Nat /\ Newest(ts) <= g
  BY <1>1, <1>2
<1>4. QED BY <1>1, <1>3

Stamps == Times \cup {FeedError}
Real(s) == Elements(s) \ {FeedError}

\* The ticks of s are in the order of their times; errors may be among them.
Ordered(s) ==
  \A i, j \in 1..Len(s) : i < j /\ s[i] # FeedError /\ s[j] # FeedError => s[i] < s[j]

LEMMA TimesAreNat ==
  /\ MaxTime \in Nat /\ FeedError \in Nat /\ FeedError \notin Times
  /\ Times \subseteq Nat /\ Stamps \subseteq Nat
BY RotationAssumption DEF Times, FeedError, Stamps

LEMMA ElementsOfTimes ==
  ASSUME NEW s \in Seq(Times)
  PROVE  s \in Seq(Stamps) /\ Real(s) = Elements(s) /\ Elements(s) \subseteq Times
BY TimesAreNat DEF Stamps, Real, Elements

LEMMA TailOrdered ==
  ASSUME NEW s \in Seq(Stamps), s # <<>>, Ordered(s)
  PROVE  /\ Ordered(Tail(s))
         /\ Head(s) \in Stamps /\ Head(s) \in Elements(s)
         /\ Real(Tail(s)) = Real(s) \ {Head(s)}
         /\ Head(s) # FeedError => \A u \in Real(Tail(s)) : Head(s) < u
<1> DEFINE t == Tail(s)
<1>1. /\ Len(t) \in Nat /\ Len(s) = Len(t) + 1 /\ t \in Seq(Stamps)
      /\ \A i \in 1..Len(t) : t[i] = s[i + 1] /\ i + 1 \in 2..Len(s)
      /\ Head(s) = s[1] /\ 1 \in 1..Len(s) /\ DOMAIN s = 1..Len(s) /\ DOMAIN t = 1..Len(t)
      /\ \A i \in 1..Len(s) : s[i] \in Stamps
  OBVIOUS
<1> HIDE DEF t
<1>2. Ordered(t)
  BY <1>1 DEF Ordered
<1>3. \A i \in 1..Len(s) : i = 1 \/ (i - 1 \in 1..Len(t) /\ s[i] = t[i - 1])
  BY <1>1
<1>4. Elements(s) = Elements(t) \cup {Head(s)}
  <2>1. ASSUME NEW u \in Elements(s) PROVE u \in Elements(t) \cup {Head(s)}
    <3>1. PICK i \in 1..Len(s) : u = s[i]
      BY <1>1, <2>1 DEF Elements
    <3>2. CASE i = 1
      BY <1>1, <3>1, <3>2
    <3>3. CASE i # 1
      <4>1. i - 1 \in 1..Len(t) /\ u = t[i - 1]
        BY <1>3, <3>1, <3>3
      <4>2. QED BY <1>1, <4>1 DEF Elements
    <3>4. QED BY <3>2, <3>3
  <2>2. ASSUME NEW u \in Elements(t) PROVE u \in Elements(s)
    <3>1. PICK i \in 1..Len(t) : u = t[i]
      BY <1>1, <2>2 DEF Elements
    <3>2. u = s[i + 1] /\ i + 1 \in 1..Len(s)
      BY <1>1, <3>1
    <3>3. QED BY <1>1, <3>2 DEF Elements
  <2>3. Head(s) \in Elements(s)
    BY <1>1 DEF Elements
  <2>4. QED BY <2>1, <2>2, <2>3
<1>5. Head(s) # FeedError => \A u \in Real(t) : Head(s) < u
  <2>1. SUFFICES ASSUME Head(s) # FeedError, NEW i \in 1..Len(t), t[i] # FeedError
                 PROVE  Head(s) < t[i]
    BY <1>1 DEF Real, Elements
  <2>2. QED BY <1>1, <2>1 DEF Ordered
<1>6. Head(s) \notin Real(t)
  <2>1. Head(s) \in Nat
    BY <1>1, TimesAreNat
  <2>2. SUFFICES ASSUME Head(s) \in Real(t), Head(s) # FeedError PROVE FALSE
    BY DEF Real
  <2>3. Head(s) < Head(s)
    BY <1>5, <2>2
  <2>4. QED BY <2>1, <2>3
<1>7. Real(t) = Real(s) \ {Head(s)}
  BY <1>4, <1>6 DEF Real
<1>8. QED BY <1>1, <1>2, <1>4, <1>5, <1>7 DEF t

LEMMA AppendOrdered ==
  ASSUME NEW s \in Seq(Stamps), NEW x \in Stamps, Ordered(s),
         x = FeedError \/ \A u \in Real(s) : u < x
  PROVE  /\ Ordered(Append(s, x))
         /\ Elements(Append(s, x)) = Elements(s) \cup {x}
<1> DEFINE t == Append(s, x)
<1>1. /\ Len(s) \in Nat /\ Len(t) = Len(s) + 1 /\ t[Len(s) + 1] = x
      /\ \A i \in 1..Len(s) : t[i] = s[i]
      /\ DOMAIN s = 1..Len(s) /\ DOMAIN t = 1..(Len(s) + 1)
  OBVIOUS
<1> HIDE DEF t
<1>2. \A i \in 1..(Len(s) + 1) : i \in 1..Len(s) \/ i = Len(s) + 1
  BY <1>1
<1>3. Elements(t) = Elements(s) \cup {x}
  BY <1>1, <1>2 DEF Elements
<1>4. Ordered(t)
  <2>1. SUFFICES ASSUME NEW i \in 1..(Len(s) + 1), NEW j \in 1..(Len(s) + 1), i < j,
                        t[i] # FeedError, t[j] # FeedError
                 PROVE  t[i] < t[j]
    BY <1>1 DEF Ordered
  <2>2. i \in 1..Len(s) /\ t[i] = s[i]
    BY <1>1, <2>1
  <2>3. CASE j = Len(s) + 1
    <3>1. s[i] \in Real(s)
      BY <1>1, <2>1, <2>2 DEF Real, Elements
    <3>2. QED BY <1>1, <2>1, <2>2, <2>3, <3>1
  <2>4. CASE j \in 1..Len(s)
    BY <1>1, <2>1, <2>2, <2>4 DEF Ordered
  <2>5. QED BY <1>2, <2>3, <2>4
<1>5. QED BY <1>3, <1>4 DEF t

\* A tick newer than all of s goes in at its end, and the oldest out if s is full.
LEMMA PushedOrdered ==
  ASSUME NEW n \in Nat \ {0}, NEW s \in Seq(Times), Len(s) <= n, Ordered(s), NEW x \in Times,
         \A u \in Elements(s) : u < x
  PROVE  /\ Pushed(s, x, n) \in Seq(Times) /\ Len(Pushed(s, x, n)) <= n
         /\ Ordered(Pushed(s, x, n))
         /\ Len(s) # n => Elements(Pushed(s, x, n)) = Elements(s) \cup {x}
         /\ Len(s) = n => /\ s # <<>> /\ Len(Pushed(s, x, n)) = n
                          /\ Elements(Pushed(s, x, n)) = (Elements(s) \ {Head(s)}) \cup {x}
                          /\ Head(s) \in Elements(s)
                          /\ \A u \in Elements(Pushed(s, x, n)) : Head(s) < u
<1>1. Len(s) \in Nat /\ x \in Stamps /\ x # FeedError /\ s \in Seq(Stamps)
      /\ Real(s) = Elements(s)
  BY TimesAreNat, ElementsOfTimes DEF Stamps
<1>2. CASE Len(s) # n
  <2>1. Pushed(s, x, n) = Append(s, x)
    BY <1>2 DEF Pushed
  <2>2. Append(s, x) \in Seq(Times) /\ Len(Append(s, x)) = Len(s) + 1
    OBVIOUS
  <2>3. QED BY <1>1, <1>2, <2>1, <2>2, AppendOrdered
<1>3. CASE Len(s) = n
  <2>1. s # <<>> /\ Tail(s) \in Seq(Times) /\ Len(Tail(s)) = n - 1 /\ Head(s) \in Times
    BY <1>3
  <2>2. Pushed(s, x, n) = Append(Tail(s), x)
    BY <1>3 DEF Pushed
  <2>3. /\ Ordered(Tail(s)) /\ Head(s) \in Elements(s) /\ Head(s) # FeedError
        /\ Elements(Tail(s)) = Elements(s) \ {Head(s)} /\ Real(Tail(s)) = Elements(Tail(s))
        /\ \A u \in Elements(Tail(s)) : Head(s) < u
    <3>1. /\ Ordered(Tail(s)) /\ Head(s) \in Elements(s)
          /\ Real(Tail(s)) = Real(s) \ {Head(s)}
          /\ Head(s) # FeedError => \A u \in Real(Tail(s)) : Head(s) < u
      BY <1>1, <2>1, TailOrdered
    <3>2. Head(s) # FeedError /\ Real(Tail(s)) = Elements(Tail(s))
      BY <2>1, TimesAreNat, ElementsOfTimes
    <3>3. QED BY <1>1, <3>1, <3>2
  <2>4. /\ Ordered(Append(Tail(s), x))
        /\ Elements(Append(Tail(s), x)) = Elements(Tail(s)) \cup {x}
    BY <1>1, <2>1, <2>3, AppendOrdered, ElementsOfTimes
  <2>5. Append(Tail(s), x) \in Seq(Times) /\ Len(Append(Tail(s), x)) = n
    BY <2>1
  <2>6. \A u \in Elements(Pushed(s, x, n)) : Head(s) < u
    BY <2>2, <2>3, <2>4
  <2>7. QED BY <1>3, <2>1, <2>2, <2>3, <2>4, <2>5, <2>6
<1>4. QED BY <1>2, <1>3

-----------------------------------------------------------------------------
(* What has become of the ticks the source gave *)

\* Those that have got to settlement's cache, the ones pushed out of it included.
Given == sent \ (UnderWay \cup lost)

\* Newer ticks are further back: in the forwarder's channel, behind those of the broadcast
\* channel, behind those in the cache and those lost.
TicksInOrder ==
  /\ Ordered(feed) /\ Ordered(ticks) /\ Ordered(cache)
  /\ \A u \in Elements(ticks), v \in Real(feed) : u < v
  /\ \A c \in Elements(cache) \cup lost, u \in UnderWay : c < u

Accounted ==
  /\ UnderWay \cup Elements(cache) \cup lost \subseteq sent
  /\ NoTick \notin sent
  /\ Elements(cache) \cap lost = {}

\* The cache has the newest of the ticks settlement was given.
Kept ==
  \A g \in Given \ Elements(cache) :
    Len(cache) = TickCache /\ \A c \in Elements(cache) : g < c

TicksInv == TicksTypeOK /\ TicksInOrder /\ Accounted /\ Kept

\* What the other conjuncts of TicksTypeOK say once the rotation is left out.
TickTypes ==
  /\ perSecond \in Units
  /\ stream \in {"up", "ended"} /\ asleep \in BOOLEAN
  /\ feed \in Seq(Stamps) /\ Len(feed) <= FeedCap
  /\ ticks \in Seq(Times) /\ Len(ticks) <= TickCap
  /\ cache \in Seq(Times) /\ Len(cache) <= TickCache
  /\ captured \in Times
  /\ judged \in [by : Grounds, tick : Times]
  /\ sent \subseteq Times /\ lost \subseteq sent

LEMMA TypesAreBoth == TicksTypeOK <=> TypeOK /\ TickTypes
BY DEF TicksTypeOK, TickTypes, Stamps

LEMMA TicksStart == TicksInit => TicksInv
<1> SUFFICES ASSUME TicksInit PROVE TicksInv
  OBVIOUS
<1>1. TypeOK
  BY RotationStarts DEF TicksInit, RotationInv
<1>2. /\ <<>> \in Seq(Stamps) /\ <<>> \in Seq(Times) /\ Len(<<>>) = 0
      /\ Elements(<<>>) = {} /\ Real(<<>>) = {} /\ Ordered(<<>>)
  BY DEF Elements, Real, Ordered
<1>3. NoTick \in Times /\ Unjudged \in [by : Grounds, tick : Times]
  BY RotationAssumption DEF NoTick, Times, Unjudged, Grounds
<1>4. TickTypes
  <2>1. FeedCap \in Nat /\ TickCap \in Nat /\ TickCache \in Nat
    BY TicksAssumption
  <2>2. feed \in Seq(Stamps) /\ Len(feed) <= FeedCap
    BY <1>2, <2>1 DEF TicksInit
  <2>3. ticks \in Seq(Times) /\ Len(ticks) <= TickCap
    BY <1>2, <2>1 DEF TicksInit
  <2>4. cache \in Seq(Times) /\ Len(cache) <= TickCache
    BY <1>2, <2>1 DEF TicksInit
  <2>5. QED BY <1>3, <2>2, <2>3, <2>4 DEF TicksInit, TickTypes
<1>5. TicksInOrder /\ Accounted /\ Kept
  BY <1>2 DEF TicksInit, TicksInOrder, Accounted, Kept, UnderWay, Given, Real
<1>6. QED BY <1>1, <1>4, <1>5, TypesAreBoth DEF TicksInv

\* A step that moves no tick.
LEMMA TicksStay ==
  ASSUME TicksInv, RotationInv', TickTypes', Ordered(feed'), Real(feed') = Real(feed),
         UNCHANGED <<ticks, cache, sent, lost>>
  PROVE  TicksInv'
<1>1. TicksTypeOK'
  BY DEF RotationInv, TicksTypeOK, TickTypes, Stamps
<1>2. Elements(ticks)' = Elements(ticks) /\ Elements(cache)' = Elements(cache)
      /\ Real(feed)' = Real(feed) /\ UnderWay' = UnderWay
  BY DEF Elements, Real, UnderWay
<1>3. Given' = Given
  BY <1>2 DEF Given
<1>4. Ordered(feed)' /\ Ordered(ticks)' /\ Ordered(cache)'
  BY DEF TicksInv, TicksInOrder, Ordered
<1>5. TicksInOrder'
  BY <1>2, <1>4 DEF TicksInv, TicksInOrder
<1>6. Accounted' /\ Kept'
  BY <1>2, <1>3 DEF TicksInv, Accounted, Kept
<1>7. QED BY <1>1, <1>5, <1>6 DEF TicksInv

\* The rotation leaves the ticks alone.
LEMMA RotationKeepsTicks ==
  ASSUME TicksInv, RotationInv', UNCHANGED tickVars
  PROVE  TicksInv'
<1>1. TickTypes'
  BY TypesAreBoth DEF TicksInv, TickTypes, tickVars, feedVars, taskVars
<1>2. Ordered(feed') /\ Real(feed') = Real(feed) /\ UNCHANGED <<ticks, cache, sent, lost>>
  BY DEF TicksInv, TicksInOrder, tickVars, feedVars, taskVars
<1>3. QED BY <1>1, <1>2, TicksStay

\* Errors, the end of the stream and the pauses after an error move no tick.
LEMMA FeedTroubleKeeps ==
  ASSUME TicksInv, RotationInv', SourceErrs \/ StreamEnds \/ FeedFails \/ WakeUp
  PROVE  TicksInv'
<1>1. TickTypes /\ TicksInOrder
  BY TypesAreBoth DEF TicksInv
<1>2. UNCHANGED <<ticks, cache, captured, judged, sent, lost>>
  BY DEF SourceErrs, StreamEnds, FeedFails, WakeUp, taskVars
<1>3. perSecond' = perSecond /\ stream' \in {"up", "ended"} /\ asleep' \in BOOLEAN
  BY <1>1 DEF TickTypes, SourceErrs, Forward, StreamEnds, FeedFails, WakeUp, feedVars
<1>4. feed \in Seq(Stamps) /\ Ordered(feed) /\ Len(feed) <= FeedCap /\ FeedCap \in Nat
  BY <1>1, TicksAssumption DEF TickTypes, TicksInOrder
<1>5. feed' \in Seq(Stamps) /\ Len(feed') <= FeedCap /\ Ordered(feed') /\ Real(feed') = Real(feed)
  <2>1. CASE SourceErrs
    <3>1. feed' = Append(feed, FeedError) /\ Len(feed) < FeedCap /\ FeedError \in Stamps
      BY <2>1 DEF SourceErrs, Forward, Stamps
    <3>2. Ordered(feed') /\ Elements(feed') = Elements(feed) \cup {FeedError}
      BY <1>4, <3>1, AppendOrdered
    <3>3. Real(feed') = Real(feed)
      BY <3>2 DEF Real
    <3>4. feed' \in Seq(Stamps) /\ Len(feed') = Len(feed) + 1
      BY <1>4, <3>1
    <3>5. QED BY <1>4, <3>1, <3>2, <3>3, <3>4
  <2>2. CASE feed # <<>> /\ Head(feed) = FeedError /\ feed' = Tail(feed)
    <3>1. Ordered(feed') /\ Real(feed') = Real(feed) \ {FeedError}
      BY <1>4, <2>2, TailOrdered
    <3>2. Real(feed') = Real(feed)
      BY <3>1 DEF Real
    <3>3. feed' \in Seq(Stamps) /\ Len(feed') = Len(feed) - 1
      BY <1>4, <2>2
    <3>4. QED BY <1>4, <3>1, <3>2, <3>3
  <2>3. CASE feed' = feed
    BY <1>4, <2>3
  <2>4. QED BY <2>1, <2>2, <2>3 DEF StreamEnds, FeedFails, WakeUp, feedVars
<1>6. TickTypes'
  BY <1>1, <1>2, <1>3, <1>5 DEF TickTypes
<1>7. QED BY <1>2, <1>5, <1>6, TicksStay

LEMMA SourceTicksKeeps ==
  ASSUME TicksInv, RotationInv', SourceTicks
  PROVE  TicksInv'
<1>1. TypeOK' /\ TypeOK /\ TickTypes /\ TicksInOrder /\ Accounted /\ Kept
  BY TypesAreBoth DEF RotationInv, TicksInv
<1>2. PICK t \in (Newest(sent) + 1)..now : Forward(t) /\ sent' = sent \cup {t}
  BY DEF SourceTicks
<1>3. Newest(sent) \in Nat /\ \A u \in sent : u <= Newest(sent)
  BY <1>1, NewestIs, TimesAreNat DEF TickTypes, Times
<1>4. t \in Times /\ t \in Stamps /\ t # NoTick /\ t # FeedError /\ t \notin sent
      /\ \A u \in sent : u < t
  <2>1. now \in 0..MaxTime
    BY <1>1 DEF TypeOK
  <2>2. t \in Nat /\ t # 0 /\ t <= MaxTime /\ \A u \in sent : u \in Nat /\ u < t
    BY <2>1, <1>1, <1>2, <1>3, TimesAreNat DEF TickTypes
  <2>3. t \in Times
    BY <2>2 DEF Times
  <2>4. QED BY <2>2, <2>3, TimesAreNat DEF Stamps, NoTick
<1>5. UNCHANGED <<perSecond, stream, asleep, ticks, cache, captured, judged, lost>>
  BY DEF SourceTicks, taskVars
<1>6. feed' = Append(feed, t) /\ Len(feed) < FeedCap /\ feed \in Seq(Stamps)
  BY <1>1, <1>2 DEF Forward, TickTypes
<1>7. /\ Ordered(feed') /\ Elements(feed') = Elements(feed) \cup {t}
      /\ Real(feed') = Real(feed) \cup {t}
  <2>1. \A u \in Real(feed) : u < t
    BY <1>1, <1>4 DEF Accounted, UnderWay, Real
  <2>2. Ordered(feed') /\ Elements(feed') = Elements(feed) \cup {t}
    BY <1>1, <1>4, <1>6, <2>1, AppendOrdered DEF TicksInOrder
  <2>3. QED BY <1>4, <2>2 DEF Real
<1>8. UnderWay' = UnderWay \cup {t}
  BY <1>4, <1>5, <1>7 DEF UnderWay
<1>9. TickTypes'
  <2>1. feed' \in Seq(Stamps) /\ Len(feed') <= FeedCap
    BY <1>4, <1>6, TicksAssumption
  <2>2. QED BY <1>1, <1>2, <1>4, <1>5, <2>1 DEF TickTypes
<1>10. TicksInOrder'
  <2>1. Ordered(feed)' /\ Ordered(ticks)' /\ Ordered(cache)'
    BY <1>1, <1>5, <1>7 DEF TicksInOrder, Ordered
  <2>2. Elements(ticks)' = Elements(ticks) /\ Elements(cache)' = Elements(cache)
        /\ Real(feed)' = Real(feed) \cup {t}
    BY <1>5, <1>7 DEF Elements, Real
  <2>3. Elements(ticks) \subseteq sent /\ Elements(cache) \cup lost \subseteq sent
    BY <1>1 DEF Accounted, UnderWay
  <2>4. QED BY <1>1, <1>4, <1>5, <1>8, <2>1, <2>2, <2>3 DEF TicksInOrder
<1>11. Elements(cache)' = Elements(cache)
  BY <1>5 DEF Elements
<1>12. Accounted'
  BY <1>1, <1>2, <1>4, <1>5, <1>8, <1>11 DEF Accounted
<1>13. Given' = Given
  <2>1. t \notin sent /\ t \notin Given
    BY <1>4 DEF Given
  <2>2. QED BY <1>2, <1>5, <1>8, <2>1 DEF Given
<1>14. Kept'
  BY <1>1, <1>5, <1>11, <1>13 DEF Kept
<1>15. TicksTypeOK'
  BY <1>1, <1>9 DEF TicksTypeOK, TickTypes, Stamps
<1>16. QED BY <1>10, <1>12, <1>14, <1>15 DEF TicksInv

\* A tick goes from the forwarder's channel to the broadcast channel; the one it pushes
\* out of it is lost.
LEMMA NextTickKeeps ==
  ASSUME TicksInv, RotationInv', NextTick
  PROVE  TicksInv'
<1> DEFINE x == Head(feed)
<1> DEFINE full == Len(ticks) = TickCap
<1>1. TickTypes /\ TicksInOrder /\ Accounted /\ Kept
  BY TypesAreBoth DEF TicksInv
<1>2. /\ feed \in Seq(Stamps) /\ feed # <<>> /\ Ordered(feed) /\ feed' = Tail(feed)
      /\ x # FeedError
  BY <1>1 DEF TickTypes, TicksInOrder, NextTick
<1>3. /\ Ordered(feed') /\ x \in Times /\ x \in Real(feed) /\ Real(feed') = Real(feed) \ {x}
      /\ \A u \in Real(feed') : x < u
  <2>1. /\ Ordered(Tail(feed)) /\ x \in Stamps /\ x \in Elements(feed)
        /\ Real(Tail(feed)) = Real(feed) \ {x}
        /\ x # FeedError => \A u \in Real(Tail(feed)) : x < u
    BY <1>2, TailOrdered
  <2>2. QED BY <1>2, <2>1 DEF Stamps, Real
<1>4. feed' \in Seq(Stamps) /\ Len(feed') <= FeedCap
  <2>1. Len(Tail(feed)) = Len(feed) - 1 /\ Tail(feed) \in Seq(Stamps) /\ Len(feed) \in Nat
    BY <1>2
  <2>2. QED BY <1>1, <1>2, <2>1, TicksAssumption DEF TickTypes
<1>5. /\ ticks \in Seq(Times) /\ Len(ticks) <= TickCap /\ Ordered(ticks)
      /\ \A u \in Elements(ticks) : u < x
      /\ TickCap \in Nat \ {0}
  BY <1>1, <1>3, TicksAssumption DEF TickTypes, TicksInOrder
<1>6. /\ ticks' = Pushed(ticks, x, TickCap)
      /\ lost' = IF full THEN lost \cup {Head(ticks)} ELSE lost
      /\ UNCHANGED <<perSecond, stream, asleep, cache, captured, judged, sent>>
  BY DEF NextTick, Broadcast, taskVars
<1> HIDE DEF x
<1>7. /\ ticks' \in Seq(Times) /\ Len(ticks') <= TickCap /\ Ordered(ticks')
      /\ ~full => Elements(ticks') = Elements(ticks) \cup {x}
      /\ full => /\ Elements(ticks') = (Elements(ticks) \ {Head(ticks)}) \cup {x}
                 /\ Head(ticks) \in Elements(ticks)
                 /\ \A u \in Elements(ticks') : Head(ticks) < u
  BY <1>3, <1>5, <1>6, PushedOrdered
<1> HIDE DEF full
<1>8. UnderWay \in SUBSET Nat /\ UnderWay = Real(feed) \cup Elements(ticks)
      /\ UnderWay' = Real(feed') \cup Elements(ticks')
      /\ Elements(cache)' = Elements(cache)
  <2>1. UnderWay = Real(feed) \cup Elements(ticks) /\ UnderWay' = Real(feed') \cup Elements(ticks')
        /\ Elements(cache)' = Elements(cache)
    BY <1>6 DEF UnderWay, Real, Elements
  <2>2. UnderWay \subseteq Times
    BY <1>1 DEF Accounted, TickTypes
  <2>3. QED BY <2>1, <2>2, TimesAreNat
<1>9. IF full THEN UnderWay' = UnderWay \ {Head(ticks)} /\ Head(ticks) \in UnderWay
                   /\ lost' = lost \cup {Head(ticks)}
                   /\ \A u \in UnderWay' : Head(ticks) < u
              ELSE UnderWay' = UnderWay /\ lost' = lost
  <2>1. CASE full
    <3>1. \A v \in Real(feed) : Head(ticks) < v
      BY <1>1, <1>7, <2>1 DEF TicksInOrder
    <3>2. Head(ticks) \notin Real(feed)
      <4>1. Head(ticks) \in Nat
        BY <1>7, <1>8, <2>1
      <4>2. QED BY <3>1, <4>1
    <3>3. UnderWay' = UnderWay \ {Head(ticks)}
      <4>1. x # Head(ticks)
        BY <1>3, <3>2
      <4>2. QED BY <1>3, <1>7, <1>8, <2>1, <3>2, <4>1
    <3>4. QED BY <1>3, <1>6, <1>7, <1>8, <2>1, <3>1, <3>3
  <2>2. CASE ~full
    BY <1>3, <1>6, <1>7, <1>8, <2>2
  <2>3. QED BY <2>1, <2>2
<1>10. TickTypes'
  <2>1. lost' \subseteq sent
    BY <1>1, <1>9 DEF TickTypes, Accounted
  <2>2. QED BY <1>1, <1>4, <1>6, <1>7, <2>1 DEF TickTypes
<1>11. TicksInOrder'
  <2>1. Ordered(feed)' /\ Ordered(ticks)' /\ Ordered(cache)'
    BY <1>1, <1>3, <1>6, <1>7 DEF TicksInOrder, Ordered
  <2>2. \A u \in Elements(ticks'), v \in Real(feed') : u < v
    <3>1. \A u \in Elements(ticks') : u \in Elements(ticks) \/ u = x
      BY <1>7
    <3>2. QED BY <1>1, <1>3, <3>1 DEF TicksInOrder
  <2>3. \A c \in Elements(cache) \cup lost', u \in UnderWay' : c < u
    <3>1. \A c \in Elements(cache) \cup lost, u \in UnderWay' : c < u
      BY <1>1, <1>9 DEF TicksInOrder
    <3>2. QED BY <1>9, <3>1
  <2>4. Elements(ticks)' = Elements(ticks') /\ Real(feed)' = Real(feed')
    BY DEF Elements, Real
  <2>5. QED BY <1>8, <2>1, <2>2, <2>3, <2>4 DEF TicksInOrder
<1>12. Accounted'
  <2>1. UnderWay' \subseteq UnderWay /\ lost' \subseteq lost \cup UnderWay
    BY <1>9
  <2>2. Elements(cache) \cap lost' = {}
    <3>1. CASE full
      <4>1. Head(ticks) \notin Elements(cache)
        <5>1. Head(ticks) \in UnderWay /\ Head(ticks) \in Nat
          BY <1>8, <1>9, <3>1
        <5>2. QED BY <1>1, <5>1 DEF TicksInOrder
      <4>2. QED BY <1>1, <1>9, <3>1, <4>1 DEF Accounted
    <3>2. CASE ~full
      BY <1>1, <1>9, <3>2 DEF Accounted
    <3>3. QED BY <3>1, <3>2
  <2>3. QED BY <1>1, <1>6, <1>8, <2>1, <2>2 DEF Accounted
<1>13. Given' = Given
  <2>1. UnderWay' \cup lost' = UnderWay \cup lost
    BY <1>9
  <2>2. QED BY <1>6, <2>1 DEF Given
<1>14. Kept'
  BY <1>1, <1>6, <1>8, <1>13 DEF Kept
<1>15. TicksTypeOK'
  BY <1>10 DEF RotationInv, TicksTypeOK, TickTypes, Stamps
<1>16. QED BY <1>11, <1>12, <1>14, <1>15 DEF TicksInv

\* Settlement takes the oldest tick of the broadcast channel; the one it pushes out of the
\* cache is older than all the cache has.
LEMMA CacheTickKeeps ==
  ASSUME TicksInv, RotationInv', CacheTick
  PROVE  TicksInv'
<1> DEFINE x == Head(ticks)
<1> DEFINE full == Len(cache) = TickCache
<1>1. TickTypes /\ TicksInOrder /\ Accounted /\ Kept
  BY TypesAreBoth DEF TicksInv
<1>2. /\ ticks \in Seq(Times) /\ ticks # <<>> /\ Ordered(ticks) /\ ticks' = Tail(ticks)
      /\ ticks \in Seq(Stamps) /\ Real(ticks) = Elements(ticks)
  BY <1>1, ElementsOfTimes DEF TickTypes, TicksInOrder, CacheTick
<1>3. /\ ticks' \in Seq(Times) /\ Len(ticks') <= TickCap
      /\ Real(ticks') = Elements(ticks')
  <2>1. Len(Tail(ticks)) = Len(ticks) - 1 /\ Tail(ticks) \in Seq(Times) /\ Len(ticks) \in Nat
    BY <1>2
  <2>2. Real(ticks') = Elements(ticks')
    BY <1>2, <2>1, ElementsOfTimes
  <2>3. QED BY <1>1, <1>2, <2>1, <2>2, TicksAssumption DEF TickTypes
<1>4. /\ Ordered(ticks') /\ x \in Times /\ x \in Elements(ticks)
      /\ Elements(ticks') = Elements(ticks) \ {x}
      /\ \A u \in Elements(ticks') : x < u
  <2>1. /\ Ordered(Tail(ticks)) /\ x \in Elements(ticks)
        /\ Real(Tail(ticks)) = Real(ticks) \ {x}
        /\ x # FeedError => \A u \in Real(Tail(ticks)) : x < u
    BY <1>2, TailOrdered
  <2>2. x \in Times /\ x # FeedError
    BY <1>2, TimesAreNat
  <2>3. QED BY <1>2, <1>3, <2>1, <2>2
<1>5. /\ cache \in Seq(Times) /\ Len(cache) <= TickCache /\ Ordered(cache)
      /\ x \in UnderWay /\ \A u \in Elements(cache) \cup lost : u < x
      /\ TickCache \in Nat \ {0}
  BY <1>1, <1>4, TicksAssumption DEF TickTypes, TicksInOrder, UnderWay
<1>6. /\ cache' = Pushed(cache, x, TickCache)
      /\ judged' = Unjudged
      /\ UNCHANGED <<perSecond, stream, feed, asleep, captured, sent, lost>>
  BY DEF CacheTick, feedVars
<1> HIDE DEF x
<1>7. /\ cache' \in Seq(Times) /\ Len(cache') <= TickCache /\ Ordered(cache')
      /\ ~full => Elements(cache') = Elements(cache) \cup {x}
      /\ full => /\ Len(cache') = TickCache
                 /\ Elements(cache') = (Elements(cache) \ {Head(cache)}) \cup {x}
                 /\ Head(cache) \in Elements(cache)
                 /\ \A u \in Elements(cache') : Head(cache) < u
  BY <1>4, <1>5, <1>6, PushedOrdered
<1>8. x \in sent /\ x \notin lost /\ x \notin Elements(cache) /\ sent \subseteq Nat
      /\ UnderWay \subseteq sent
  <2>1. sent \subseteq Nat
    BY <1>1, TimesAreNat DEF TickTypes
  <2>2. x \in sent /\ UnderWay \subseteq sent
    BY <1>1, <1>5 DEF Accounted
  <2>3. QED BY <1>5, <2>1, <2>2
<1>9. UnderWay' = UnderWay \ {x} /\ \A u \in UnderWay' : x < u
  <2>1. UnderWay = Real(feed) \cup Elements(ticks) /\ UnderWay' = Real(feed) \cup Elements(ticks')
    BY <1>6 DEF UnderWay, Real, Elements
  <2>2. \A u \in Real(feed) : x < u
    BY <1>1, <1>4 DEF TicksInOrder
  <2>3. x \notin Real(feed)
    BY <1>8, <2>2
  <2>4. QED BY <1>4, <2>1, <2>2, <2>3
<1>10. TickTypes'
  <2>1. judged' \in [by : Grounds, tick : Times]
    BY <1>6, TimesAreNat, RotationAssumption DEF Unjudged, Grounds, NoTick, Times
  <2>2. QED BY <1>1, <1>3, <1>6, <1>7, <2>1 DEF TickTypes
<1>11. TicksInOrder'
  <2>1. Ordered(feed)' /\ Ordered(ticks)' /\ Ordered(cache)'
    BY <1>1, <1>4, <1>6, <1>7 DEF TicksInOrder, Ordered
  <2>2. \A u \in Elements(ticks'), v \in Real(feed) : u < v
    BY <1>1, <1>4 DEF TicksInOrder
  <2>3. \A c \in Elements(cache') \cup lost, u \in UnderWay' : c < u
    <3>1. \A c \in Elements(cache') : c \in Elements(cache) \/ c = x
      BY <1>7
    <3>2. QED BY <1>1, <1>9, <3>1 DEF TicksInOrder
  <2>4. /\ Elements(ticks)' = Elements(ticks') /\ Real(feed)' = Real(feed)
        /\ Elements(cache)' = Elements(cache')
    BY <1>6 DEF Elements, Real
  <2>5. QED BY <1>6, <2>1, <2>2, <2>3, <2>4 DEF TicksInOrder
<1>12. Accounted'
  <2>1. Elements(cache') \subseteq Elements(cache) \cup {x} /\ Elements(cache)' = Elements(cache')
    BY <1>7 DEF Elements
  <2>2. QED BY <1>1, <1>6, <1>8, <1>9, <2>1 DEF Accounted
<1>13. Given' = Given \cup {x}
  BY <1>5, <1>6, <1>8, <1>9 DEF Given
<1>14. Kept'
  <2>1. SUFFICES ASSUME NEW g \in Given', g \notin Elements(cache')
                 PROVE  Len(cache') = TickCache /\ \A c \in Elements(cache') : g < c
    BY DEF Kept, Elements
  <2>2. g \in Given /\ g # x
    BY <1>7, <1>13, <2>1
  <2>3. CASE g \in Elements(cache)
    <3>1. full /\ g = Head(cache)
      BY <1>7, <2>1, <2>3
    <3>2. QED BY <1>7, <3>1
  <2>4. CASE g \notin Elements(cache)
    <3>1. full /\ \A c \in Elements(cache) : g < c
      BY <1>1, <2>2, <2>4 DEF Kept
    <3>2. Head(cache) \in Nat /\ Head(cache) \in Elements(cache) /\ g \in Nat
          /\ Elements(cache') \subseteq Nat
      <4>1. Elements(cache') \subseteq Times
        BY <1>7, ElementsOfTimes
      <4>2. Head(cache) \in sent
        BY <1>1, <1>7, <3>1 DEF Accounted
      <4>3. QED BY <1>7, <1>8, <2>2, <3>1, <4>1, <4>2, TimesAreNat DEF Given
    <3>3. g < Head(cache) /\ \A c \in Elements(cache') : Head(cache) < c
      BY <1>7, <3>1, <3>2
    <3>4. \A c \in Elements(cache') : g < c
      BY <3>2, <3>3
    <3>5. QED BY <1>7, <3>1, <3>4
  <2>5. QED BY <2>3, <2>4
<1>15. TicksTypeOK'
  BY <1>10 DEF RotationInv, TicksTypeOK, TickTypes, Stamps
<1>16. QED BY <1>11, <1>12, <1>14, <1>15 DEF TicksInv

-----------------------------------------------------------------------------
(* The price a market is judged by *)

LEMMA ClosesAtNat ==
  ASSUME NEW r \in Windows
  PROVE  ClosesAt(r) \in Nat
<1>1. 0 \in 0..MaxTime
  BY RotationAssumption
<1>2. r \in Nat \ {0}
  BY <1>1, WindowBounded DEF Windows
<1>3. 1 * Interval <= r * Interval /\ 1 * Interval = Interval /\ r * Interval \in Nat
  BY <1>2, RotationAssumption, TimesGrows
<1>4. QED BY <1>3, RotationAssumption DEF ClosesAt

\* A stamp in milliseconds is compared with the close as it should be; one in seconds is
\* always the smaller one.
LEMMA DueIs ==
  ASSUME NEW t \in Times, NEW r \in Windows
  PROVE  /\ perSecond = Millis => (Due(t, r) <=> t <= ClosesAt(r))
         /\ perSecond = 1 => Due(t, r)
<1>1. t \in Nat /\ t <= MaxTime /\ ClosesAt(r) \in Nat
  BY ClosesAtNat, TimesAreNat DEF Times
<1>2. Epoch \in Nat /\ MaxTime \in Nat /\ MaxTime <= Epoch
  BY TicksAssumption, TimesAreNat
<1> DEFINE c == ClosesAt(r)
<1>3. c \in Nat
  BY <1>1
<1>4. Due(t, r) <=> perSecond * (Epoch + t) <= 1000 * (Epoch + c)
  BY DEF Due, Millis
<1> HIDE DEF c
<1>5. 1000 * (Epoch + t) <= 1000 * (Epoch + c) <=> t <= c
  BY <1>1, <1>2, <1>3
<1>6. 1 * (Epoch + t) <= 1000 * (Epoch + c)
  BY <1>1, <1>2, <1>3
<1>7. QED BY <1>4, <1>5, <1>6 DEF Millis, c

\* resolution_price is the newest tick of the cache that is stamped no later than the close.
LEMMA ResolutionPriceIs ==
  ASSUME TickTypes, Ordered(cache), NEW r \in Windows
  PROVE  /\ ResolutionPrice(r) \in Times
         /\ \/ /\ \A c \in Elements(cache) : ~Due(c, r)
               /\ ResolutionPrice(r) = NoTick
            \/ /\ ResolutionPrice(r) \in Elements(cache)
               /\ Due(ResolutionPrice(r), r)
               /\ \A c \in Elements(cache) : Due(c, r) => c <= ResolutionPrice(r)
<1> DEFINE due == {i \in 1..Len(cache) : Due(cache[i], r)}
<1>1. /\ cache \in Seq(Times) /\ DOMAIN cache = 1..Len(cache) /\ Len(cache) \in Nat
      /\ \A i \in 1..Len(cache) : cache[i] \in Times
      /\ ClosesAt(r) \in Nat
  BY ClosesAtNat DEF TickTypes
<1>2. due \in SUBSET (0..Len(cache))
  BY <1>1
<1>3. ResolutionPrice(r) = IF due = {} THEN NoTick ELSE cache[Newest(due)]
  BY <1>1 DEF ResolutionPrice
<1>4. CASE due = {}
  <2>1. \A c \in Elements(cache) : ~Due(c, r)
    BY <1>1, <1>4 DEF Elements
  <2>2. QED BY <1>3, <1>4, <2>1, RotationAssumption DEF NoTick, Times
<1>5. CASE due # {}
  <2> DEFINE n == Newest(due)
  <2>1. n \in due /\ \A i \in due : i <= n
    BY <1>1, <1>2, <1>5, NewestIs
  <2>2. ResolutionPrice(r) = cache[n]
    BY <1>3, <1>5
  <2> HIDE DEF n
  <2>3. n \in 1..Len(cache) /\ Due(cache[n], r) /\ cache[n] \in Times
    BY <1>1, <2>1
  <2>4. ASSUME NEW i \in 1..Len(cache), Due(cache[i], r)
        PROVE  cache[i] <= cache[n]
    <3>1. i \in due /\ i <= n
      BY <2>1, <2>4
    <3>2. cache[i] \in Nat /\ cache[n] \in Nat /\ cache[i] # FeedError /\ cache[n] # FeedError
      BY <1>1, <2>3, TimesAreNat
    <3>3. i < n => cache[i] < cache[n]
      BY <2>3, <3>2 DEF Ordered
    <3>4. i \in Nat /\ n \in Nat
      BY <1>1, <2>3
    <3>5. CASE i = n
      BY <3>2, <3>5
    <3>6. CASE i < n
      BY <3>2, <3>3, <3>6
    <3>7. QED BY <3>1, <3>4, <3>5, <3>6
  <2>5. \A c \in Elements(cache) : Due(c, r) => c <= cache[n]
    BY <1>1, <2>4 DEF Elements
  <2>6. cache[n] \in Elements(cache)
    BY <1>1, <2>3 DEF Elements
  <2>7. QED BY <2>2, <2>3, <2>5, <2>6
<1>6. QED BY <1>4, <1>5

LEMMA WinnerGrounds ==
  ASSUME NEW mkt, NEW price
  PROVE  /\ WinnerBy(mkt, price) \in Grounds
         /\ WinnerBy(mkt, price) = "price" => price # NoTick
BY DEF WinnerBy, Grounds

LEMMA HeadIsOfWindow ==
  ASSUME TypeOK, lifecycle # <<>>
  PROVE  Head(lifecycle).slug \in Windows
<1>1. Head(lifecycle) \in Events
  BY DEF TypeOK
<1>2. QED BY <1>1 DEF Events

\* Settlement's answer to an event moves no tick.
LEMMA TakeKeeps ==
  ASSUME TicksInv, RotationInv', TakeCutoff \/ TakeResolved
  PROVE  TicksInv'
<1> DEFINE r == Head(lifecycle).slug
<1>1. TickTypes /\ TypeOK /\ Ordered(cache) /\ Ordered(feed)
  BY TypesAreBoth DEF TicksInv, TicksInOrder
<1>2. r \in Windows
  BY <1>1, HeadIsOfWindow DEF TakeCutoff, TakeResolved, SettlementTakes
<1>3. ResolutionPrice(r) \in Times /\ NoTick \in Times
  BY <1>1, <1>2, ResolutionPriceIs, RotationAssumption DEF NoTick, Times
<1>4. UNCHANGED <<perSecond, stream, feed, asleep, ticks, cache, sent, lost>>
  BY DEF TakeCutoff, TakeResolved, feedVars
<1>5. captured' \in Times
  BY <1>3 DEF TakeCutoff, TakeResolved
<1>6. judged' \in [by : Grounds, tick : Times]
  <2>1. CASE TakeCutoff
    BY <1>3, <2>1 DEF TakeCutoff, Unjudged, Grounds
  <2>2. CASE TakeResolved
    <3> DEFINE price == IF captured # NoTick THEN captured ELSE ResolutionPrice(r)
    <3>1. PICK mkt \in Catalog!Markets[TRUE] :
            judged' = [by |-> WinnerBy(mkt, price),
                       tick |-> IF WinnerBy(mkt, price) = "price" THEN price ELSE NoTick]
      BY <2>2 DEF TakeResolved
    <3>2. price \in Times
      BY <1>1, <1>3 DEF TickTypes
    <3> HIDE DEF price
    <3>3. QED BY <1>3, <3>1, <3>2, WinnerGrounds
  <2>3. QED BY <2>1, <2>2
<1>7. TickTypes'
  BY <1>1, <1>4, <1>5, <1>6 DEF TickTypes
<1>8. Ordered(feed') /\ Real(feed') = Real(feed)
  BY <1>1, <1>4
<1>9. QED BY <1>4, <1>7, <1>8, TicksStay

LEMMA TicksStep == TicksInv /\ RotationInv' /\ [TicksNext]_allVars => TicksInv'
<1> SUFFICES ASSUME TicksInv, RotationInv', [TicksNext]_allVars PROVE TicksInv'
  OBVIOUS
<1>1. CASE UNCHANGED tickVars
  BY <1>1, RotationKeepsTicks
<1>2. CASE SourceTicks
  BY <1>2, SourceTicksKeeps
<1>3. CASE SourceErrs \/ StreamEnds \/ FeedFails \/ WakeUp
  BY <1>3, FeedTroubleKeeps
<1>4. CASE NextTick
  BY <1>4, NextTickKeeps
<1>5. CASE CacheTick
  BY <1>5, CacheTickKeeps
<1>6. CASE TakeCutoff \/ TakeResolved
  BY <1>6, TakeKeeps
<1>7. QED BY <1>1, <1>2, <1>3, <1>4, <1>5, <1>6 DEF TicksNext, allVars

\* Ticks stay in the order the source gave them on their way to settlement, none that is
\* not lost to lag is dropped, and the cache has the newest of those that have arrived
\* (price_feed.rs 20-31; settlement.rs 17-22, 210-216).
THEOREM TicksInvariance == TicksSpec => []TicksInv
<1>1. TicksInit => TicksInv
  BY TicksStart
<1>2. TicksInv /\ RotationInv' /\ [TicksNext]_allVars => TicksInv'
  BY TicksStep
<1>3. TicksSpec => []RotationInv
  BY TicksRunRotation, RotationInvariance, PTL
<1>4. QED BY <1>1, <1>2, <1>3, PTL DEF TicksSpec

\* Every variable of the rotation, the feeds and settlement's cache stays in its type, and
\* every channel and the cache within its capacity.
THEOREM TicksTypeCorrect == TicksSpec => []TicksTypeOK
<1>1. TicksInv => TicksTypeOK
  BY DEF TicksInv
<1>2. QED BY <1>1, TicksInvariance, PTL

\* What settlement takes a market's price from, whenever it does.
LEMMA RightPrice ==
  ASSUME TicksInv, NEW r \in Windows
  PROVE  LET late == {t \in Given : ~Due(t, r)}
         IN \/ ResolutionPrice(r) = Newest(Given \ late)
            \/ ResolutionPrice(r) = NoTick /\ Cardinality(late) >= TickCache
<1> DEFINE late == {t \in Given : ~Due(t, r)}
<1> DEFINE p == ResolutionPrice(r)
<1>1. TickTypes /\ TicksInOrder /\ Accounted /\ Kept
  BY TypesAreBoth DEF TicksInv
<1>2. \/ (\A c \in Elements(cache) : ~Due(c, r)) /\ p = NoTick
      \/ /\ p \in Elements(cache) /\ Due(p, r)
         /\ \A c \in Elements(cache) : Due(c, r) => c <= p
  BY <1>1, ResolutionPriceIs DEF TicksInOrder
<1> HIDE DEF p
<1>3. Given \subseteq Times /\ Given \subseteq Nat
  BY <1>1, TimesAreNat DEF TickTypes, Given
<1>4. Elements(cache) \subseteq Given
  <2>1. SUFFICES ASSUME NEW c \in Elements(cache), c \notin Given PROVE FALSE
    OBVIOUS
  <2>2. c \in sent /\ c \notin lost
    BY <1>1, <2>1 DEF Accounted
  <2>3. c \in UnderWay /\ c \in Nat
    BY <1>1, <2>1, <2>2, TimesAreNat DEF Given, TickTypes
  <2>4. c < c
    BY <1>1, <2>1, <2>3 DEF TicksInOrder
  <2>5. QED BY <2>3, <2>4
<1>5. CASE p \in Elements(cache) /\ Due(p, r)
           /\ \A c \in Elements(cache) : Due(c, r) => c <= p
  <2>0. p \in Given /\ p \in Nat
    BY <1>3, <1>4, <1>5
  <2>1. p \in Given \ late /\ p \in Nat
    BY <1>5, <2>0
  <2>2. ASSUME NEW g \in Given \ late PROVE g <= p
    <3>1. g \in Nat /\ Due(g, r)
      BY <1>3, <2>2
    <3>2. CASE g \in Elements(cache)
      BY <1>5, <3>1, <3>2
    <3>3. CASE g \notin Elements(cache)
      <4>1. g < p
        BY <1>1, <1>5, <2>2, <3>3 DEF Kept
      <4>2. QED BY <2>1, <3>1, <4>1
    <3>4. QED BY <3>2, <3>3
  <2>3. Given \ late \in SUBSET (0..MaxTime) /\ MaxTime \in Nat
    BY <1>3, TimesAreNat DEF Times
  <2> HIDE DEF late
  <2>4. Newest(Given \ late) = p
    BY <2>1, <2>2, <2>3, NewestIsGreatest
  <2>5. QED BY <2>4 DEF late, p
<1>6. CASE (\A c \in Elements(cache) : ~Due(c, r)) /\ p = NoTick
  <2>1. CASE Given \ late = {}
    <3>1. Newest(Given \ late) = NoTick
      BY <2>1 DEF Newest
    <3>2. QED BY <1>6, <3>1 DEF p
  <2>2. CASE Given \ late # {}
    <3>1. PICK g \in Given : g \notin late
      BY <2>2
    <3>2. g \notin Elements(cache)
      BY <1>1, <1>3, <1>6, <3>1
    <3>3. Len(cache) = TickCache
      BY <1>1, <3>1, <3>2 DEF Kept
    <3>4. Elements(cache) \subseteq late
      BY <1>1, <1>3, <1>4, <1>6
    <3>5. late \subseteq 0..MaxTime
      BY <1>3 DEF Times
    <3> HIDE DEF late
    <3>6. IsFiniteSet(late)
      <4>1. IsFiniteSet(0..MaxTime)
        BY TimesAreNat, FS_Interval
      <4>2. QED BY <3>5, <4>1, FS_Subset
    <3>7. cache \in Injection(1..Len(cache), late)
      <4>1. /\ cache \in Seq(Times) /\ DOMAIN cache = 1..Len(cache) /\ Len(cache) \in Nat
            /\ \A i \in 1..Len(cache) : cache[i] \in Times
        BY <1>1 DEF TickTypes
      <4>2. \A i \in 1..Len(cache) : cache[i] \in late
        BY <3>4, <4>1 DEF Elements
      <4>3. cache \in [1..Len(cache) -> late]
        BY <4>1, <4>2
      <4>4. ASSUME NEW i \in 1..Len(cache), NEW j \in 1..Len(cache), cache[i] = cache[j]
            PROVE  i = j
        <5>1. cache[i] \in Times /\ cache[j] \in Times
          BY <4>1
        <5>2. cache[i] \in Nat /\ cache[i] # FeedError /\ cache[j] # FeedError
          <6>1. \A t \in Times : t \in Nat /\ t # FeedError
            BY TimesAreNat
          <6>2. QED BY <5>1, <6>1
        <5>3. i \in Nat /\ j \in Nat
          <6>1. Len(cache) \in Nat
            BY <4>1
          <6>2. QED BY <6>1
        <5>4. (i < j => cache[i] < cache[j]) /\ (j < i => cache[j] < cache[i])
          BY <1>1, <5>2 DEF TicksInOrder, Ordered
        <5>5. QED BY <4>4, <5>2, <5>3, <5>4
      <4>5. QED BY <4>3, <4>4 DEF Injection, IsInjective
    <3>8. Cardinality(1..Len(cache)) <= Cardinality(late)
      BY <3>6, <3>7, FS_Injection
    <3>9. Cardinality(1..Len(cache)) = TickCache
      <4>1. TickCache \in Nat \ {0}
        BY TicksAssumption
      <4>2. Cardinality(1..TickCache) = TickCache
        BY <4>1, FS_Interval
      <4>3. QED BY <3>3, <4>2
    <3>10. Cardinality(late) \in Nat /\ TickCache \in Nat
      BY <3>6, FS_CardinalityType, TicksAssumption
    <3>11. QED BY <1>6, <3>8, <3>9, <3>10 DEF late, p
  <2>3. QED BY <2>1, <2>2
<1>7. QED BY <1>2, <1>5, <1>6

LEMMA TakenByTake ==
  ASSUME TypeOK, lifecycle # <<>>, lifecycle' = Tail(lifecycle), [TicksNext]_allVars
  PROVE  TakeCutoff \/ TakeResolved
<1>1. lifecycle \in Seq(Events) /\ emitting \in Events \cup {NoEvent}
  BY DEF TypeOK
<1>2. Len(Tail(lifecycle)) = Len(lifecycle) - 1 /\ Len(lifecycle) \in Nat
  BY <1>1
<1>3. lifecycle' # lifecycle
  <2>1. SUFFICES ASSUME lifecycle' = lifecycle PROVE FALSE
    OBVIOUS
  <2>2. Len(lifecycle) = Len(lifecycle) - 1
    BY <1>2, <2>1
  <2>3. QED BY <1>2, <2>2
<1>4. ASSUME Emitted PROVE FALSE
  <2>1. lifecycle' = Append(lifecycle, emitting) /\ emitting \in Events
    BY <1>1, <1>4 DEF Emitted
  <2>2. Len(lifecycle') = Len(lifecycle) + 1
    BY <1>1, <2>1
  <2>3. QED BY <1>2, <2>2
<1>5. Rotation => lifecycle' = lifecycle
  BY <1>4 DEF Rotation, Round, StartRound, AlreadyResolved, PublishCurrent, Open, Cutoff,
              Resolving, PollAgain, Resolved, PublishPrefetched, SkipPrefetched,
              PrefetchEnds, Tick, OutOfTime, vars
<1>6. QED BY <1>3, <1>5 DEF TicksNext, SourceTicks, SourceErrs, StreamEnds, NextTick,
                            FeedFails, WakeUp, CacheTick, vars, allVars

\* By the unit of the feed's stamps: what is too late is what is from after the close, or
\* nothing.
LEMMA PriceByUnit ==
  ASSUME TicksInv, NEW r \in Windows
  PROVE  LET late == {t \in Given : t > ClosesAt(r)}
         IN IF perSecond = Millis
            THEN \/ ResolutionPrice(r) = Newest(Given \ late)
                 \/ ResolutionPrice(r) = NoTick /\ Cardinality(late) >= TickCache
            ELSE ResolutionPrice(r) = Newest(Given)
<1> DEFINE late == {t \in Given : t > ClosesAt(r)}
<1> DEFINE overdue == {t \in Given : ~Due(t, r)}
<1>1. /\ Given \subseteq Times /\ ClosesAt(r) \in Nat /\ perSecond \in {1, Millis}
      /\ TickCache \in Nat \ {0}
  BY TypesAreBoth, ClosesAtNat, TicksAssumption DEF TicksInv, TickTypes, Given, Units
<1>2. \/ ResolutionPrice(r) = Newest(Given \ overdue)
      \/ ResolutionPrice(r) = NoTick /\ Cardinality(overdue) >= TickCache
  BY RightPrice
<1>3. CASE perSecond = Millis
  <2>1. \A t \in Given : ~Due(t, r) <=> t > ClosesAt(r)
    <3>1. SUFFICES ASSUME NEW t \in Given PROVE ~Due(t, r) <=> t > ClosesAt(r)
      OBVIOUS
    <3>2. t \in Nat /\ (Due(t, r) <=> t <= ClosesAt(r))
      BY <1>1, <1>3, DueIs, TimesAreNat
    <3>3. QED BY <1>1, <3>2
  <2>2. overdue = late
    BY <2>1
  <2> HIDE DEF overdue, late
  <2>3. QED BY <1>2, <1>3, <2>2 DEF late
<1>4. CASE perSecond # Millis
  <2>1. overdue = {}
    BY <1>1, <1>4, DueIs
  <2> HIDE DEF overdue
  <2>2. ~(Cardinality(overdue) >= TickCache)
    BY <1>1, <2>1, FS_EmptySet
  <2>3. QED BY <1>2, <1>4, <2>1, <2>2
<1>5. QED BY <1>3, <1>4

\* Of a market settlement is told about, the price it takes is of the newest tick the
\* source gave up to the close, those apart that are still under way or were lost; it
\* takes none only if there is none, or newer ticks have pushed it out of the cache.  This
\* is so if the feed stamps in milliseconds.  If it stamps in seconds, the price is of the
\* newest tick given, from before the close or after it
\* (settlement.rs 16-22, 217-247; price_feed.rs 20-31; chainlink_price_feed.rs 37-40, 83).
THEOREM JudgedByLastPrice == TicksSpec => PriceIsLast
<1> DEFINE Judged ==
      \A r \in Windows :
        LET given == sent \ (UnderWay \cup lost)
            late == {t \in given : t > ClosesAt(r)}
            lastBefore(t) == \/ t = Newest(given \ late)
                             \/ t = NoTick /\ Cardinality(late) >= TickCache
            right(t) == IF perSecond = Millis THEN lastBefore(t) ELSE t = Newest(given)
            takes(kind) == /\ lifecycle # <<>> /\ lifecycle' = Tail(lifecycle)
                           /\ Head(lifecycle) = [kind |-> kind, slug |-> r]
        IN /\ takes("cutoff") => right(captured')
           /\ takes("resolved") /\ captured = NoTick /\ judged'.by = "price"
                => right(judged'.tick)
<1>1. ASSUME TicksInv, [TicksNext]_allVars
      PROVE  Judged
  <2>1. ASSUME NEW r \in Windows, NEW kind \in {"cutoff", "resolved"},
               lifecycle # <<>>, lifecycle' = Tail(lifecycle),
               Head(lifecycle) = [kind |-> kind, slug |-> r]
        PROVE  /\ kind = "cutoff" => captured' = ResolutionPrice(r)
               /\ kind = "resolved" /\ captured = NoTick /\ judged'.by = "price"
                    => judged'.tick = ResolutionPrice(r)
    <3>1. TakeCutoff \/ TakeResolved
      BY <1>1, <2>1, TakenByTake DEF TicksInv, TicksTypeOK
    <3>2. Head(lifecycle).kind = kind /\ Head(lifecycle).slug = r
      BY <2>1
    <3>3. CASE TakeCutoff
      BY <3>2, <3>3 DEF TakeCutoff
    <3>4. CASE TakeResolved
      <4>1. kind = "resolved"
        BY <3>2, <3>4 DEF TakeResolved
      <4>2. captured = NoTick /\ judged'.by = "price" => judged'.tick = ResolutionPrice(r)
        BY <3>2, <3>4 DEF TakeResolved
      <4>3. QED BY <4>1, <4>2
    <3>5. QED BY <3>1, <3>3, <3>4
  <2>2. \A r \in Windows :
          LET late == {t \in Given : t > ClosesAt(r)}
          IN IF perSecond = Millis
             THEN \/ ResolutionPrice(r) = Newest(Given \ late)
                  \/ ResolutionPrice(r) = NoTick /\ Cardinality(late) >= TickCache
             ELSE ResolutionPrice(r) = Newest(Given)
    BY <1>1, PriceByUnit
  <2>3. QED BY <2>1, <2>2 DEF Given
<1>2. TicksInv /\ [TicksNext]_allVars => [Judged]_allVars
  BY <1>1
<1>3. QED BY <1>2, TicksInvariance, PTL DEF TicksSpec, PriceIsLast
=============================================================================
