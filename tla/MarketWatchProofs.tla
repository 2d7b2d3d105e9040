-------------------------- MODULE MarketWatchProofs --------------------------
(***************************************************************************)
(* What MarketWatch's steps keep, for the modules built on it.             *)
(***************************************************************************)
EXTENDS MarketWatch, TLAPS

\* A publish shows a market, never None again.
LEMMA PublishTypes ==
  ASSUME MarketTypeOK, Publish
  PROVE  MarketTypeOK' /\ market'.slug # 0
<1>1. Rounds \subseteq 1..MaxRounds /\ MaxRounds \in Nat \ {0}
  BY MaxRoundsAssumption DEF Rounds
<1>2. \A r \in Rounds : /\ r + 1 \in 1..(MaxRounds + 1) /\ r \in 1..(MaxRounds + 1) /\ r # 0
                        /\ r \in 0..MaxRounds
  BY <1>1
<1>3. \A r \in Rounds, s \in MarketStatuses : Snapshot(r, s) \in Markets /\ Snapshot(r, s).slug # 0
  BY <1>2 DEF Snapshot, Markets
<1>4. CASE BeginRound
  <2>1. PICK r \in Rounds, s \in CatalogStatuses :
          /\ market' = Snapshot(r, s)
          /\ IF s = "Resolved" THEN round' = r + 1 /\ UNCHANGED phase
                               ELSE round' = r /\ phase' = "published"
    BY <1>4 DEF BeginRound
  <2>2. market' \in Markets /\ market'.slug # 0
    BY <1>3, <2>1 DEF CatalogStatuses, MarketStatuses
  <2>3. round' \in 1..(MaxRounds + 1)
    BY <1>2, <2>1
  <2>4. phase' \in Phases /\ (phase' # "resolve" => round' \in Rounds)
    BY <1>4, <2>1 DEF BeginRound, Phases
  <2>5. QED BY <2>2, <2>3, <2>4 DEF MarketTypeOK
<1>5. ASSUME NEW f \in Phases \ {"resolve"}, NEW t \in Phases, NEW s \in MarketStatuses, Advance(f, t, s)
      PROVE  MarketTypeOK' /\ market'.slug # 0
  BY <1>3, <1>5 DEF Advance, MarketTypeOK
<1>6. CASE OpenTrading \/ CutoffTrading \/ StartResolving \/ ConfirmResolved
  BY <1>5, <1>6 DEF OpenTrading, CutoffTrading, StartResolving, ConfirmResolved, Phases, MarketStatuses
<1>7. CASE PublishPrefetched
  <2>1. PICK r \in Rounds, s \in CatalogStatuses : market' = Snapshot(r, s)
    BY <1>7 DEF PublishPrefetched
  <2>2. market' \in Markets /\ market'.slug # 0
    BY <1>3, <2>1 DEF CatalogStatuses, MarketStatuses
  <2>3. round \in Rounds /\ round' = round + 1 /\ phase' = "resolve"
    BY <1>7 DEF PublishPrefetched, MarketTypeOK
  <2>4. QED BY <1>2, <2>2, <2>3 DEF MarketTypeOK, Phases
<1>8. QED BY <1>4, <1>6, <1>7 DEF Publish

\* A round whose prefetch failed leaves the watch as it is.
LEMMA SkipTypes ==
  ASSUME MarketTypeOK, SkipPrefetched
  PROVE  MarketTypeOK' /\ market' = market
<1>1. round \in 1..MaxRounds /\ round' = round + 1 /\ phase' = "resolve" /\ market' = market
  BY DEF SkipPrefetched, MarketTypeOK, Rounds
<1>2. round' \in 1..(MaxRounds + 1)
  BY <1>1, MaxRoundsAssumption
<1>3. QED BY <1>1, <1>2 DEF MarketTypeOK, Phases

\* Initially the watch holds None.
LEMMA InitTypes == MarketInit => MarketTypeOK
<1>1. 0 \in 0..MaxRounds /\ 1 \in 1..(MaxRounds + 1)
  BY MaxRoundsAssumption
<1>2. QED BY <1>1 DEF MarketInit, MarketTypeOK, NoMarket, Markets, Phases, MarketStatuses

\* The watch is type-correct, and a round is under way in every phase but the first
\* (market_rotation.rs 44-171).
THEOREM WatchTypeCorrect == WatchSpec => []MarketTypeOK
<1>1. MarketInit => MarketTypeOK
  BY InitTypes
<1>2. MarketTypeOK /\ [Publish \/ SkipPrefetched]_rotationVars => MarketTypeOK'
  BY PublishTypes, SkipTypes DEF rotationVars, MarketTypeOK
<1>3. QED BY <1>1, <1>2, PTL DEF WatchSpec
=============================================================================
