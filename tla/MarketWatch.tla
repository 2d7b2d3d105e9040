---------------------------- MODULE MarketWatch ----------------------------
(***************************************************************************)
(* The market watch channel as market_rotation_task drives it: run_round   *)
(* publishes one snapshot after another, each one replacing the last.      *)
(* Rounds (slugs) are numbered by their window.  Time is left out: a sleep *)
(* or a poll of the catalog may end at any moment.                         *)
(***************************************************************************)
EXTENDS Naturals

CONSTANT MaxRounds      \* bound: the windows the model runs through

ASSUME MaxRoundsAssumption == MaxRounds \in Nat \ {0}

VARIABLES market,       \* value of the watch: slug 0 stands for None
          round,        \* the round being run; between rounds, the least one still to run
          phase         \* where run_round stands

rotationVars == <<market, round, phase>>

Rounds == 1..MaxRounds
MarketStatuses == {"Open", "TradingCutoff", "Resolving", "Resolved"}
Phases == {"resolve", "published", "open", "cutoff", "resolving", "prefetch"}

NoMarket == [slug |-> 0, status |-> "Resolved"]
Markets == [slug : 0..MaxRounds, status : MarketStatuses]

\* What the catalog's resolve can say of a market.  It never says Pending.
CatalogStatuses == {"Open", "Resolving", "Resolved"}

Snapshot(r, s) == [slug |-> r, status |-> s]

MarketTypeOK == /\ market \in Markets
                /\ round \in 1..(MaxRounds + 1)
                /\ phase \in Phases
                /\ phase # "resolve" => round \in Rounds

MarketInit == market = NoMarket /\ round = 1 /\ phase = "resolve"

\* The current window's market is resolved and published as the catalog
\* reports it; one that is already Resolved ends the round at once, and is
\* published again for as long as the clock stays in its window.
BeginRound ==
  /\ phase = "resolve"
  /\ \E r \in Rounds, s \in CatalogStatuses :
       /\ r >= round \/ (r = round - 1 /\ s = "Resolved")
       /\ market' = Snapshot(r, s)
       /\ IF s = "Resolved"
          THEN round' = r + 1 /\ UNCHANGED phase
          ELSE round' = r /\ phase' = "published"

\* The status changes of steps 2 to 5: from phase f to phase t, publishing s.
Advance(f, t, s) ==
  /\ phase = f
  /\ phase' = t
  /\ market' = Snapshot(round, s)
  /\ UNCHANGED round

OpenTrading == Advance("published", "open", "Open")
CutoffTrading == Advance("open", "cutoff", "TradingCutoff")
StartResolving == Advance("cutoff", "resolving", "Resolving")
ConfirmResolved == Advance("resolving", "prefetch", "Resolved")

\* Step 6: a later market fetched in the background is published as it came.
PublishPrefetched ==
  /\ phase = "prefetch"
  /\ \E r \in Rounds, s \in CatalogStatuses :
       r > round /\ market' = Snapshot(r, s)
  /\ phase' = "resolve"
  /\ round' = round + 1

\* The prefetch failed: nothing is published.
SkipPrefetched ==
  /\ phase = "prefetch"
  /\ phase' = "resolve"
  /\ round' = round + 1
  /\ UNCHANGED market

\* Every step that sends on the watch channel.
Publish == \/ BeginRound \/ OpenTrading \/ CutoffTrading \/ StartResolving
           \/ ConfirmResolved \/ PublishPrefetched

\* All the rotation may do to the watch.
WatchSpec == MarketInit /\ [][Publish \/ SkipPrefetched]_rotationVars
=============================================================================
