-------------------------- MODULE SettlementProofs --------------------------
(***************************************************************************)
(* Theorems about Settlement, for any number of rounds and positions and   *)
(* any capacities.  Types and the price a market is judged by survive      *)
(* every set of faults, restarts and the tool; redemptions are submitted   *)
(* once and the store matches the chain without the tool; the books match  *)
(* the table in a bot that runs on, whose writes and replies arrive.       *)
(***************************************************************************)
EXTENDS Settlement, MarketWatchProofs, FiniteSetTheorems, WellFoundedInduction

-----------------------------------------------------------------------------
(* The row a run of settle_market_positions is at. *)

\* A non-empty set of naturals has a least element.
LEMMA LeastNatural ==
  ASSUME NEW S, S \subseteq Nat, S # {}
  PROVE  \E x \in S : \A y \in S : x <= y
<1> DEFINE Below == {ss \in Nat \X Nat : ss[1] < ss[2]}
<1>1. IsWellFoundedOn(Below, Nat)
  BY NatLessThanWellFounded DEF OpToRel
<1>2. PICK x \in S : \A y \in S : ~ (<<y, x>> \in Below)
  <2> HIDE DEF Below
  <2>1. QED BY <1>1, WFMin
<1>3. ASSUME NEW y \in S PROVE x <= y
  <2>1. x \in Nat /\ y \in Nat OBVIOUS
  <2>2. <<y, x>> \in Nat \X Nat BY <2>1
  <2>3. ~ (y < x) BY <1>2, <2>2
  <2>4. QED BY <2>1, <2>3
<1>4. QED BY <1>3

LEMMA CurrentInBatch ==
  ASSUME TypeOK, NEW w \in Workers, batch[w] # {}
  PROVE  Current(w) \in batch[w] /\ Current(w) \in Positions
<1>1. batch[w] \subseteq Positions /\ batch[w] \subseteq Nat
  BY DEF TypeOK, Positions
<1>2. \E p \in batch[w] : \A q \in batch[w] : p <= q
  BY <1>1, LeastNatural
<1>3. QED BY <1>1, <1>2 DEF Current

-----------------------------------------------------------------------------
(* Types *)

\* With what the types of a step need: a run that is not idle has rows to go, and the
\* redeem poller confirms one position at a time, in a tick, out of those it tracks.
WorkInv ==
  /\ \A w \in Workers : at[w] # "idle" => batch[w] # {}
  /\ confirming \notin todo
  /\ ~polling => confirming = 0

\* What the rotation does to the watch and the lifecycle channel.
LEMMA RotateTypes ==
  ASSUME TypeOK, RotateMarket
  PROVE  /\ MarketTypeOK'
         /\ lifecycle' \in Seq(Events) /\ Len(lifecycle') <= LifecycleCap
<1>1. Publish \/ SkipPrefetched
  BY DEF RotateMarket, RoundBegins, RoundAdvances, Publish
<1>2. MarketTypeOK'
  BY <1>1, PublishTypes, SkipTypes DEF TypeOK
<1> SUFFICES lifecycle' \in Seq(Events) /\ Len(lifecycle') <= LifecycleCap
  BY <1>2
<1>3. ASSUME NEW k \in {"cutoff", "resolved"}, NEW s \in Rounds, NEW b \in BOOLEAN, Emit(k, s, b)
      PROVE  lifecycle' \in Seq(Events) /\ Len(lifecycle') <= LifecycleCap
  <2>1. [kind |-> k, slug |-> s, known |-> b] \in Events
    BY DEF Events
  <2>2. LifecycleCap \in Nat
    BY SettlementAssumption
  <2>3. QED BY <1>3, <2>1, <2>2 DEF Emit, TypeOK
<1>4. CASE UNCHANGED lifecycle
  BY <1>4 DEF TypeOK
<1>5. CASE RoundBegins
  <2>1. market'.slug \in Rounds
    BY <1>5 DEF RoundBegins, BeginRound, Snapshot
  <2>2. QED BY <1>3, <1>4, <1>5, <2>1 DEF RoundBegins
<1>6. CASE RoundAdvances
  <2>1. CASE CutoffTrading /\ Emit("cutoff", round, FALSE)
    <3>1. round \in Rounds
      BY <2>1 DEF CutoffTrading, Advance, TypeOK, MarketTypeOK
    <3>2. QED BY <1>3, <2>1, <3>1
  <2>2. ASSUME NEW b \in BOOLEAN, ConfirmResolved, Emit("resolved", round, b)
        PROVE  lifecycle' \in Seq(Events) /\ Len(lifecycle') <= LifecycleCap
    <3>1. round \in Rounds
      BY <2>2 DEF ConfirmResolved, Advance, TypeOK, MarketTypeOK
    <3>2. QED BY <1>3, <2>2, <3>1
  <2>3. QED BY <1>4, <1>6, <2>1, <2>2 DEF RoundAdvances
<1>7. QED BY <1>5, <1>6 DEF RotateMarket

\* Going on to the next row.
LEMMA GoOnTypes ==
  ASSUME TypeOK, WorkInv, NEW w \in Workers, GoOn(w)
  PROVE  /\ at' \in [Workers -> Steps] /\ verdict' \in [Workers -> BOOLEAN]
         /\ batch' \in [Workers -> SUBSET Positions]
         /\ \A v \in Workers : at'[v] # "idle" => batch'[v] # {}
  BY DEF GoOn, TypeOK, WorkInv, Steps

\* Moving on to the next step on the same row.
LEMMA StepToTypes ==
  ASSUME TypeOK, WorkInv, NEW w \in Workers, NEW s \in Steps, StepTo(w, s), batch[w] # {}
  PROVE  /\ at' \in [Workers -> Steps] /\ verdict' \in [Workers -> BOOLEAN]
         /\ batch' \in [Workers -> SUBSET Positions]
         /\ \A v \in Workers : at'[v] # "idle" => batch'[v] # {}
  BY DEF StepTo, TypeOK, WorkInv, Steps

\* Taking up a market.
LEMMA SettleTypes ==
  ASSUME TypeOK, WorkInv, NEW w \in Workers, NEW r, NEW v \in BOOLEAN, Settle(w, r, v)
  PROVE  /\ at' \in [Workers -> Steps] /\ verdict' \in [Workers -> BOOLEAN]
         /\ batch' \in [Workers -> SUBSET Positions]
         /\ \A x \in Workers : at'[x] # "idle" => batch'[x] # {}
<1>1. PICK rows \in SUBSET Positions :
        /\ batch' = [batch EXCEPT ![w] = rows]
        /\ verdict' = [verdict EXCEPT ![w] = v]
        /\ at' = [at EXCEPT ![w] = IF rows = {} THEN "idle" ELSE "marking"]
  BY DEF Settle, SettleRows
<1>2. QED BY <1>1 DEF TypeOK, WorkInv, Steps

\* Telling of a judgement.
LEMMA TellTypes ==
  ASSUME TypeOK, NEW w, NEW p \in Positions, NEW b \in BOOLEAN, Tell(w, p, b)
  PROVE  settledNews' \in [Receivers -> Seq(Settleds)]
<1>1. [pos |-> p, won |-> b] \in Settleds
  BY DEF Settleds
<1>2. \A r \in Receivers : Append(settledNews[r], [pos |-> p, won |-> b]) \in Seq(Settleds)
  BY <1>1 DEF TypeOK
<1>3. QED BY <1>2 DEF Tell, TypeOK

\* Types are right initially.
LEMMA InitTypeInv == Init => TypeOK /\ WorkInv
<1> SUFFICES ASSUME Init PROVE TypeOK /\ WorkInv
  OBVIOUS
<1>1. /\ MarketTypeOK
      /\ 0 \in 0..MaxRounds /\ 0 \in 0..MaxToolRuns /\ 0 \in 0..MaxCrashes
      /\ LifecycleCap \in Nat /\ PendingCap \in Nat /\ RedeemedCap \in Nat
  BY InitTypes, SettlementAssumption, MaxRoundsAssumption DEF Init
<1>2. /\ at \in [Workers -> Steps] /\ verdict \in [Workers -> BOOLEAN]
      /\ batch \in [Workers -> SUBSET Positions]
      /\ status \in [Positions -> RowStatuses] /\ slugOf \in [Positions -> 0..MaxRounds]
      /\ pays \in [Positions -> BOOLEAN]
      /\ tx \in [Positions -> TxStates] /\ redeems \in [Positions -> Nat]
      /\ books \in [bankroll : Int, inPlay : Int, toRedeem : Int]
  BY <1>1 DEF Init, Steps, RowStatuses, TxStates, NoBooks
<1>3. /\ fillNews \in [Receivers -> SUBSET Positions]
      /\ settledNews \in [Receivers -> Seq(Settleds)]
      /\ lifecycle \in Seq(Events) /\ Len(lifecycle) <= LifecycleCap
      /\ pendingQ \in Seq(Positions) /\ Len(pendingQ) <= PendingCap
      /\ redeemedQ \in Seq(Positions) /\ Len(redeemedQ) <= RedeemedCap
      /\ cutoffPrice \in 0..MaxRounds
      /\ toolRuns \in 0..MaxToolRuns /\ crashes \in 0..MaxCrashes
      /\ watched \subseteq Positions
  BY <1>1 DEF Init
<1>4. /\ tracked \subseteq Positions /\ polling \in BOOLEAN
      /\ todo \subseteq tracked /\ confirming \in {0} \cup tracked
      /\ WorkInv
  BY DEF Init, WorkInv
<1>5. QED BY <1>1, <1>2, <1>3, <1>4 DEF TypeOK

\* The steps of the rotation and the order path.
LEMMA MarketSteps ==
  ASSUME TypeOK, WorkInv,
         RotateMarket \/ PositionOpens \/ \E p \in Positions : PositionFills(p)
  PROVE  TypeOK' /\ WorkInv'
<1>1. CASE RotateMarket
  BY <1>1, RotateTypes DEF RotateMarket, TypeOK, WorkInv, workVars, storeVars, newsVars,
     relayerVars, pollerVars, histVars
<1>2. CASE PositionOpens
  <2>1. market.slug \in 0..MaxRounds
    BY DEF TypeOK, MarketTypeOK, Markets
  <2>2. /\ status' \in [Positions -> RowStatuses] /\ slugOf' \in [Positions -> 0..MaxRounds]
        /\ pays' \in [Positions -> BOOLEAN] /\ watched' \subseteq Positions
    BY <1>2, <2>1 DEF PositionOpens, TypeOK, RowStatuses
  <2>3. QED
    BY <1>2, <2>2 DEF PositionOpens, TypeOK, WorkInv, rotationVars, MarketTypeOK, workVars,
       relayerVars, pollerVars, histVars
<1>3. ASSUME NEW p \in Positions, PositionFills(p) PROVE TypeOK' /\ WorkInv'
  BY <1>3 DEF PositionFills, TypeOK, WorkInv, rotationVars, MarketTypeOK, workVars, storeVars,
     relayerVars, pollerVars, histVars
<1>4. QED BY <1>1, <1>2, <1>3

\* The steps that take up a market.
LEMMA TakeSteps ==
  ASSUME TypeOK, WorkInv, TakeCutoff \/ TakeResolved \/ StartTool
  PROVE  TypeOK' /\ WorkInv'
<1>1. ASSUME NEW e \in Events, Take(e)
      PROVE  /\ lifecycle' \in Seq(Events) /\ Len(lifecycle') <= LifecycleCap
             /\ e.slug \in 0..MaxRounds
  <2>1. lifecycle \in Seq(Events) /\ lifecycle # <<>> /\ LifecycleCap \in Nat
    BY <1>1, SettlementAssumption DEF Take, TypeOK
  <2>2. lifecycle' \in Seq(Events) /\ Len(lifecycle') <= Len(lifecycle)
    BY <1>1, <2>1 DEF Take
  <2>3. QED BY <2>1, <2>2 DEF TypeOK, Events, Rounds
<1>2. CASE TakeCutoff
  <2>1. PICK e \in Events : Take(e) /\ cutoffPrice' \in {0, e.slug}
    BY <1>2 DEF TakeCutoff
  <2>2. cutoffPrice' \in 0..MaxRounds
    BY <1>1, <2>1, MaxRoundsAssumption
  <2>3. QED
    BY <1>1, <1>2, <2>1, <2>2 DEF TakeCutoff, TypeOK, WorkInv, rotationVars, MarketTypeOK,
       workVars, storeVars, newsVars, relayerVars, pollerVars, histVars
<1>3. CASE TakeResolved
  <2>1. PICK e \in Events :
          /\ Take(e)
          /\ \/ e.known /\ Settle("task", e.slug, TRUE)
             \/ ~e.known /\ \E v \in BOOLEAN : Settle("task", e.slug, v)
             \/ ~e.known /\ UNCHANGED workVars
    BY <1>3 DEF TakeResolved
  <2>2. /\ at' \in [Workers -> Steps] /\ verdict' \in [Workers -> BOOLEAN]
        /\ batch' \in [Workers -> SUBSET Positions]
        /\ \A x \in Workers : at'[x] # "idle" => batch'[x] # {}
    <3>1. CASE UNCHANGED workVars
      BY <3>1 DEF workVars, TypeOK, WorkInv
    <3>2. ASSUME NEW v \in BOOLEAN, Settle("task", e.slug, v)
          PROVE  /\ at' \in [Workers -> Steps] /\ verdict' \in [Workers -> BOOLEAN]
                 /\ batch' \in [Workers -> SUBSET Positions]
                 /\ \A x \in Workers : at'[x] # "idle" => batch'[x] # {}
      BY <3>2, SettleTypes DEF Workers
    <3>3. QED BY <2>1, <3>1, <3>2
  <2>3. cutoffPrice' \in 0..MaxRounds
    BY <1>3, MaxRoundsAssumption DEF TakeResolved
  <2>4. QED
    BY <1>1, <1>3, <2>1, <2>2, <2>3 DEF TakeResolved, TypeOK, WorkInv, rotationVars,
       MarketTypeOK, storeVars, newsVars, relayerVars, pollerVars, histVars
<1>4. CASE StartTool
  <2>1. /\ at' \in [Workers -> Steps] /\ verdict' \in [Workers -> BOOLEAN]
        /\ batch' \in [Workers -> SUBSET Positions]
        /\ \A x \in Workers : at'[x] # "idle" => batch'[x] # {}
    BY <1>4, SettleTypes DEF StartTool, Workers
  <2>2. toolRuns' \in 0..MaxToolRuns
    BY <1>4, SettlementAssumption DEF StartTool, TypeOK
  <2>3. QED
    BY <1>4, <2>1, <2>2 DEF StartTool, TypeOK, WorkInv, rotationVars, MarketTypeOK, storeVars,
       newsVars, relayerVars, pollerVars
<1>5. QED BY <1>2, <1>3, <1>4

\* The steps on a row.
LEMMA SettleStepTypes ==
  ASSUME TypeOK, WorkInv, NEW w \in Workers, SettleStep(w)
  PROVE  TypeOK' /\ WorkInv'
<1>1. batch[w] # {} /\ Current(w) \in Positions
  <2>1. at[w] # "idle"
    BY DEF SettleStep, MarkSettling, JudgeLost, Redeem, TellWon, HandOver
  <2>2. batch[w] # {}
    BY <2>1 DEF WorkInv
  <2>3. QED BY <2>2, CurrentInBatch
<1> DEFINE WorkTypes == /\ at' \in [Workers -> Steps] /\ verdict' \in [Workers -> BOOLEAN]
                        /\ batch' \in [Workers -> SUBSET Positions]
                        /\ \A x \in Workers : at'[x] # "idle" => batch'[x] # {}
<1>2. GoOn(w) => WorkTypes
  BY GoOnTypes
<1>3. \A s \in Steps : StepTo(w, s) => WorkTypes
  BY <1>1, StepToTypes
<1>4. CASE MarkSettling(w)
  <2>1. WorkTypes
    BY <1>2, <1>3, <1>4 DEF MarkSettling, Steps
  <2>2. status' \in [Positions -> RowStatuses]
    BY <1>4 DEF MarkSettling, TypeOK, RowStatuses
  <2>3. QED
    BY <1>4, <2>1, <2>2 DEF MarkSettling, TypeOK, WorkInv, rotationVars, MarketTypeOK, newsVars,
       relayerVars, pollerVars, histVars
<1>5. CASE JudgeLost(w)
  <2>1. WorkTypes
    BY <1>2, <1>5 DEF JudgeLost
  <2>2. settledNews' \in [Receivers -> Seq(Settleds)]
    BY <1>1, <1>5, TellTypes DEF JudgeLost
  <2>3. QED
    BY <1>5, <2>1, <2>2 DEF JudgeLost, TypeOK, WorkInv, rotationVars, MarketTypeOK, storeVars,
       relayerVars, pollerVars, histVars
<1>6. CASE Redeem(w)
  <2>1. PICK r \in Redemptions :
          /\ IF r.taken THEN /\ tx' = [tx EXCEPT ![Current(w)] = "pending"]
                             /\ redeems' = [redeems EXCEPT ![Current(w)] = @ + 1]
                        ELSE UNCHANGED relayerVars
          /\ IF r.told THEN StepTo(w, "telling") ELSE GoOn(w)
    BY <1>6 DEF Redeem
  <2>2. WorkTypes
    BY <1>2, <1>3, <2>1 DEF Steps
  <2>3. tx' \in [Positions -> TxStates] /\ redeems' \in [Positions -> Nat]
    <3>1. tx \in [Positions -> TxStates] /\ redeems \in [Positions -> Nat]
      BY DEF TypeOK
    <3>2. CASE UNCHANGED relayerVars
      BY <3>1, <3>2 DEF relayerVars
    <3>3. CASE /\ tx' = [tx EXCEPT ![Current(w)] = "pending"]
               /\ redeems' = [redeems EXCEPT ![Current(w)] = @ + 1]
      <4>1. redeems[Current(w)] + 1 \in Nat
        BY <1>1, <3>1
      <4>2. QED BY <3>1, <3>3, <4>1 DEF TxStates
    <3>4. QED BY <2>1, <3>2, <3>3
  <2>4. QED
    BY <1>6, <2>2, <2>3 DEF Redeem, TypeOK, WorkInv, rotationVars, MarketTypeOK, storeVars,
       newsVars, pollerVars, histVars
<1>7. CASE TellWon(w)
  <2>1. WorkTypes
    BY <1>3, <1>7 DEF TellWon, Steps
  <2>2. settledNews' \in [Receivers -> Seq(Settleds)]
    BY <1>1, <1>7, TellTypes DEF TellWon
  <2>3. QED
    BY <1>7, <2>1, <2>2 DEF TellWon, TypeOK, WorkInv, rotationVars, MarketTypeOK, storeVars,
       relayerVars, pollerVars, histVars
<1>8. CASE HandOver(w)
  <2>1. WorkTypes
    BY <1>2, <1>8 DEF HandOver
  <2>2. pendingQ' \in Seq(Positions) /\ Len(pendingQ') <= PendingCap
    <3>1. /\ pendingQ \in Seq(Positions) /\ Len(pendingQ) <= PendingCap
          /\ PendingCap \in Nat
      BY SettlementAssumption DEF TypeOK
    <3>2. CASE UNCHANGED pendingQ
      BY <3>1, <3>2
    <3>3. CASE Len(pendingQ) < PendingCap /\ pendingQ' = Append(pendingQ, Current(w))
      BY <1>1, <3>1, <3>3
    <3>4. QED BY <1>8, <3>2, <3>3 DEF HandOver
  <2>3. QED
    BY <1>8, <2>1, <2>2 DEF HandOver, TypeOK, WorkInv, rotationVars, MarketTypeOK, storeVars,
       newsVars, relayerVars, pollerVars, histVars
<1>9. QED BY <1>4, <1>5, <1>6, <1>7, <1>8 DEF SettleStep

\* The steps of the relayer and of the task that polls it.
LEMMA RelayerSteps ==
  ASSUME TypeOK, WorkInv, RedeemPoller \/ \E p \in Positions : TxEnds(p)
  PROVE  TypeOK' /\ WorkInv'
<1>1. ASSUME NEW p \in Positions, TxEnds(p) PROVE TypeOK' /\ WorkInv'
  <2>1. tx' \in [Positions -> TxStates]
    BY <1>1 DEF TxEnds, TypeOK, TxStates
  <2>2. QED
    BY <1>1, <2>1 DEF TxEnds, TypeOK, WorkInv, rotationVars, MarketTypeOK, workVars, storeVars,
       newsVars, pollerVars, histVars
<1>2. CASE TrackPending
  <2>1. /\ Head(pendingQ) \in Positions /\ pendingQ' \in Seq(Positions)
        /\ Len(pendingQ') <= PendingCap
    <3>1. pendingQ \in Seq(Positions) /\ pendingQ # <<>> /\ PendingCap \in Nat
      BY <1>2, SettlementAssumption DEF TrackPending, TypeOK
    <3>2. Head(pendingQ) \in Positions /\ pendingQ' \in Seq(Positions) /\ Len(pendingQ') <= Len(pendingQ)
      BY <1>2, <3>1 DEF TrackPending
    <3>3. QED BY <3>1, <3>2 DEF TypeOK
  <2>2. QED
    BY <1>2, <2>1 DEF TrackPending, TypeOK, WorkInv, rotationVars, MarketTypeOK, workVars,
       storeVars, newsVars, relayerVars, histVars
<1>3. CASE StartRedeemTick
  <2>1. 0 \notin tracked
    BY DEF TypeOK, Positions
  <2>2. confirming = 0 /\ confirming' = 0 /\ todo' = tracked /\ tracked' = tracked /\ polling'
    BY <1>3 DEF StartRedeemTick, WorkInv
  <2>3. WorkInv'
    BY <1>3, <2>1, <2>2 DEF StartRedeemTick, WorkInv, workVars
  <2>4. QED
    BY <1>3, <2>2, <2>3 DEF StartRedeemTick, TypeOK, rotationVars, MarketTypeOK, workVars,
       storeVars, newsVars, relayerVars, histVars
<1>4. CASE SendRedeemed
  <2>1. redeemedQ' \in Seq(Positions) /\ Len(redeemedQ') <= RedeemedCap
    <3>1. confirming \in Positions
      BY <1>4 DEF SendRedeemed, TypeOK
    <3>2. QED BY <1>4, <3>1, SettlementAssumption DEF SendRedeemed, TypeOK
  <2>2. /\ 0 \notin todo /\ confirming \notin todo /\ todo \subseteq tracked
        /\ confirming' = 0 /\ tracked' = tracked \ {confirming}
        /\ UNCHANGED <<todo, polling, at, batch>>
    BY <1>4 DEF SendRedeemed, TypeOK, WorkInv, Positions, workVars
  <2>3. tracked' \subseteq Positions /\ todo' \subseteq tracked' /\ confirming' \in {0} \cup tracked'
    BY <2>2 DEF TypeOK
  <2>4. WorkInv'
    BY <2>2 DEF WorkInv
  <2>5. TypeOK'
    BY <1>4, <2>1, <2>3 DEF SendRedeemed, TypeOK, rotationVars, MarketTypeOK, workVars,
       storeVars, newsVars, relayerVars, histVars
  <2>6. QED BY <2>4, <2>5
<1>5. CASE EndRedeemTick
  BY <1>5 DEF EndRedeemTick, TypeOK, WorkInv, rotationVars, MarketTypeOK, workVars, storeVars,
     newsVars, relayerVars, histVars
<1>6. ASSUME NEW p \in Positions, PollConfirmed(p) PROVE TypeOK' /\ WorkInv'
  <2>1. status' \in [Positions -> RowStatuses]
    BY <1>6 DEF PollConfirmed, TypeOK, RowStatuses
  <2>2. QED
    BY <1>6, <2>1 DEF PollConfirmed, TypeOK, WorkInv, rotationVars, MarketTypeOK, workVars,
       newsVars, relayerVars, histVars
<1>7. ASSUME NEW p \in Positions, PollOther(p) PROVE TypeOK' /\ WorkInv'
  BY <1>7 DEF PollOther, TypeOK, WorkInv, rotationVars, MarketTypeOK, workVars, storeVars,
     newsVars, relayerVars, histVars
<1>8. QED BY <1>1, <1>2, <1>3, <1>4, <1>5, <1>6, <1>7 DEF RedeemPoller

\* The steps of persistence_task and bankroll_task.
LEMMA BookingSteps ==
  ASSUME TypeOK, WorkInv,
         \/ \E p \in Positions : PersistFill(p) \/ BookFill(p)
         \/ PersistSettled \/ BookSettled \/ BookRedeemed
  PROVE  TypeOK' /\ WorkInv'
<1>1. \A x \in Int : x + Cost \in Int /\ x - Cost \in Int /\ x + Payout \in Int
                     /\ x - Payout \in Int /\ x + 0 \in Int
  BY SettlementAssumption
<1>2. ASSUME NEW r \in Receivers, NEW p, GetFill(r, p)
      PROVE  fillNews' \in [Receivers -> SUBSET Positions]
  BY <1>2 DEF GetFill, TypeOK
<1>3. ASSUME NEW r \in Receivers, NEW x, GetSettled(r, x)
      PROVE  settledNews' \in [Receivers -> Seq(Settleds)]
  <2>1. settledNews[r] \in Seq(Settleds) /\ settledNews[r] # <<>>
    BY <1>3 DEF GetSettled, TypeOK
  <2>2. Tail(settledNews[r]) \in Seq(Settleds)
    BY <2>1
  <2>3. QED BY <1>3, <2>2 DEF GetSettled, TypeOK
<1>4. ASSUME NEW p \in Positions, PersistFill(p) PROVE TypeOK' /\ WorkInv'
  <2>1. status' \in [Positions -> RowStatuses] /\ fillNews' \in [Receivers -> SUBSET Positions]
    BY <1>2, <1>4 DEF PersistFill, TypeOK, RowStatuses, Receivers
  <2>2. QED
    BY <1>4, <2>1 DEF PersistFill, TypeOK, WorkInv, rotationVars, MarketTypeOK, workVars,
       relayerVars, pollerVars, histVars
<1>5. ASSUME NEW p \in Positions, BookFill(p) PROVE TypeOK' /\ WorkInv'
  <2>1. fillNews' \in [Receivers -> SUBSET Positions]
    BY <1>2, <1>5 DEF BookFill, Receivers
  <2>2. books' \in [bankroll : Int, inPlay : Int, toRedeem : Int]
    BY <1>1, <1>5 DEF BookFill, TypeOK
  <2>3. QED
    BY <1>5, <2>1, <2>2 DEF BookFill, TypeOK, WorkInv, rotationVars, MarketTypeOK, workVars,
       storeVars, relayerVars, pollerVars, histVars
<1>6. CASE PersistSettled
  <2>1. PICK x \in Settleds :
          /\ GetSettled("persistence", x)
          /\ \/ status' = [status EXCEPT ![x.pos] = IF x.won THEN "won" ELSE "lost"]
             \/ "update" \in Faults /\ UNCHANGED status
    BY <1>6 DEF PersistSettled
  <2>2. status' \in [Positions -> RowStatuses] /\ settledNews' \in [Receivers -> Seq(Settleds)]
    BY <1>3, <2>1 DEF TypeOK, RowStatuses, Receivers
  <2>3. QED
    BY <1>6, <2>2 DEF PersistSettled, TypeOK, WorkInv, rotationVars, MarketTypeOK, workVars,
       relayerVars, pollerVars, histVars
<1>7. CASE BookSettled
  <2>1. PICK x \in Settleds :
          /\ GetSettled("bankroll", x)
          /\ books' = [books EXCEPT !.inPlay = @ - Cost, !.toRedeem = @ + Proceeds(x.won)]
    BY <1>7 DEF BookSettled
  <2>2. settledNews' \in [Receivers -> Seq(Settleds)]
    BY <1>3, <2>1 DEF Receivers
  <2>3. books' \in [bankroll : Int, inPlay : Int, toRedeem : Int]
    BY <1>1, <2>1 DEF Proceeds, TypeOK
  <2>4. QED
    BY <1>7, <2>2, <2>3 DEF BookSettled, TypeOK, WorkInv, rotationVars, MarketTypeOK, workVars,
       storeVars, relayerVars, pollerVars, histVars
<1>8. CASE BookRedeemed
  <2>1. redeemedQ' \in Seq(Positions) /\ Len(redeemedQ') <= RedeemedCap
    <3>1. redeemedQ \in Seq(Positions) /\ redeemedQ # <<>> /\ RedeemedCap \in Nat
      BY <1>8, SettlementAssumption DEF BookRedeemed, TypeOK
    <3>2. redeemedQ' \in Seq(Positions) /\ Len(redeemedQ') <= Len(redeemedQ)
      BY <1>8, <3>1 DEF BookRedeemed
    <3>3. QED BY <3>1, <3>2 DEF TypeOK
  <2>2. books' \in [bankroll : Int, inPlay : Int, toRedeem : Int]
    BY <1>1, <1>8 DEF BookRedeemed, TypeOK
  <2>3. QED
    BY <1>8, <2>1, <2>2 DEF BookRedeemed, TypeOK, WorkInv, rotationVars, MarketTypeOK, workVars,
       storeVars, newsVars, relayerVars, pollerVars, histVars
<1>9. QED BY <1>4, <1>5, <1>6, <1>7, <1>8

\* A restart.
LEMMA CrashTypes ==
  ASSUME TypeOK, WorkInv, Crash
  PROVE  TypeOK' /\ WorkInv'
<1>1. MarketTypeOK'
  <2>1. round' \in 1..(MaxRounds + 1)
    BY MaxRoundsAssumption DEF Crash, TypeOK, MarketTypeOK, Rounds
  <2>2. NoMarket \in Markets
    BY MaxRoundsAssumption DEF NoMarket, Markets, MarketStatuses
  <2>3. QED BY <2>1, <2>2 DEF Crash, MarketTypeOK, Phases
<1>2. /\ at' \in [Workers -> Steps] /\ verdict' \in [Workers -> BOOLEAN]
      /\ batch' \in [Workers -> SUBSET Positions]
      /\ \A x \in Workers : at'[x] # "idle" => batch'[x] # {}
  BY DEF Crash, TypeOK, WorkInv, Steps
<1>3. /\ lifecycle' \in Seq(Events) /\ Len(lifecycle') <= LifecycleCap
      /\ pendingQ' \in Seq(Positions) /\ Len(pendingQ') <= PendingCap
      /\ redeemedQ' \in Seq(Positions) /\ Len(redeemedQ') <= RedeemedCap
      /\ fillNews' \in [Receivers -> SUBSET Positions]
      /\ settledNews' \in [Receivers -> Seq(Settleds)]
  BY SettlementAssumption DEF Crash
<1>4. /\ cutoffPrice' \in 0..MaxRounds /\ crashes' \in 0..MaxCrashes
      /\ books' \in [bankroll : Int, inPlay : Int, toRedeem : Int]
  BY SettlementAssumption, MaxRoundsAssumption DEF Crash, TypeOK, NoBooks
<1>5. QED
  BY <1>1, <1>2, <1>3, <1>4 DEF Crash, TypeOK, WorkInv, storeVars, relayerVars

\* Every step keeps the types.
LEMMA TypeStep == TypeOK /\ WorkInv /\ [Next]_vars => TypeOK' /\ WorkInv'
<1> SUFFICES ASSUME TypeOK, WorkInv, [Next]_vars PROVE TypeOK' /\ WorkInv'
  OBVIOUS
<1>1. CASE UNCHANGED vars
  BY <1>1 DEF vars, rotationVars, workVars, storeVars, newsVars, relayerVars, pollerVars,
     histVars, TypeOK, WorkInv, MarketTypeOK
<1>2. CASE Finished
  BY <1>1, <1>2 DEF Finished
<1>3. CASE Next /\ ~Finished
  BY <1>3, MarketSteps, TakeSteps, SettleStepTypes, RelayerSteps, BookingSteps, CrashTypes DEF Next
<1>4. QED BY <1>1, <1>2, <1>3

\* Settlement is type-correct: every queue keeps to its capacity, and a run of
\* settle_market_positions that is under way has a row it is at (settlement.rs 83-193,
\* redeem_status_poller.rs 28-95).
THEOREM TypeCorrect == Spec => [](TypeOK /\ WorkInv)
<1>1. Init => TypeOK /\ WorkInv
  BY InitTypeInv
<1>2. TypeOK /\ WorkInv /\ [Next]_vars => TypeOK' /\ WorkInv'
  BY TypeStep
<1>3. QED BY <1>1, <1>2, PTL DEF Spec

-----------------------------------------------------------------------------
(* The lifecycle channel *)

\* Queue q has a resolution of market s under way.
Resolves(q, s) == \E i \in 1..Len(q) : q[i].kind = "resolved" /\ q[i].slug = s

\* The resolutions in q are of one market after the other, none later than n.
InOrder(q) ==
  \A i, j \in 1..Len(q) :
    q[i].kind = "resolved" /\ q[j].kind = "resolved" /\ i < j => q[i].slug < q[j].slug
UpTo(q, n) == \A i \in 1..Len(q) : q[i].kind = "resolved" => q[i].slug <= n

\* A cutoff in q is followed by the resolution of its market.
Paired(q) ==
  \A i \in 1..Len(q) :
    q[i].kind = "cutoff" /\ i < Len(q) => q[i + 1].kind = "resolved" /\ q[i + 1].slug = q[i].slug

LEMMA EventTypes ==
  ASSUME NEW e \in Events
  PROVE  e.slug \in Nat \ {0} /\ e.kind \in {"cutoff", "resolved"}
<1>1. e.slug \in 1..MaxRounds /\ e.kind \in {"cutoff", "resolved"} /\ MaxRounds \in Nat
  BY MaxRoundsAssumption DEF Events, Rounds
<1>2. QED BY <1>1

\* Taking the first event off keeps what is said of the rest, and leaves no resolution of
\* the market it resolved.
LEMMA TailEvents ==
  ASSUME NEW q \in Seq(Events), q # <<>>
  PROVE  /\ Tail(q) \in Seq(Events) /\ Head(q) \in Events /\ Head(q) = q[1]
         /\ \A s : Resolves(Tail(q), s) => Resolves(q, s)
         /\ Head(q).kind = "resolved" => Resolves(q, Head(q).slug)
         /\ InOrder(q) => InOrder(Tail(q))
         /\ InOrder(q) /\ Head(q).kind = "resolved" => ~Resolves(Tail(q), Head(q).slug)
         /\ \A n : UpTo(q, n) => UpTo(Tail(q), n)
         /\ Paired(q) => Paired(Tail(q))
         /\ Paired(q) /\ Head(q).kind = "cutoff" /\ Tail(q) # <<>>
              => Head(Tail(q)).kind = "resolved" /\ Head(Tail(q)).slug = Head(q).slug
         /\ Tail(q) # <<>> => Tail(q)[Len(Tail(q))] = q[Len(q)]
         /\ Tail(q) = <<>> => q[Len(q)] = Head(q)
<1>1. /\ Tail(q) \in Seq(Events) /\ Head(q) \in Events /\ Head(q) = q[1]
      /\ Len(q) \in Nat \ {0} /\ Len(Tail(q)) = Len(q) - 1
      /\ \A i \in 1..Len(Tail(q)) : Tail(q)[i] = q[i + 1] /\ i + 1 \in 1..Len(q)
      /\ 1 \in 1..Len(q)
      /\ Tail(q) # <<>> => 1 \in 1..Len(Tail(q)) /\ Head(Tail(q)) = Tail(q)[1]
      /\ Tail(q) = <<>> => Len(q) = 1
  <2>1. /\ Tail(q) \in Seq(Events) /\ Head(q) \in Events /\ Head(q) = q[1]
        /\ Len(q) \in Nat \ {0} /\ Len(Tail(q)) = Len(q) - 1
        /\ \A i \in 1..Len(Tail(q)) : Tail(q)[i] = q[i + 1]
    OBVIOUS
  <2> DEFINE t == Tail(q)
  <2>2. t \in Seq(Events) BY <2>1
  <2>3. /\ t # <<>> => 1 \in 1..Len(t) /\ Head(t) = t[1]
        /\ t = <<>> => Len(t) = 0
    <3> HIDE DEF t
    <3>1. QED BY <2>2
  <2>4. QED BY <2>1, <2>3
<1>2. \A i \in 1..Len(q) : q[i] \in Events /\ q[i].slug \in Nat
  BY <1>1, EventTypes
<1>3. /\ \A s : Resolves(Tail(q), s) => Resolves(q, s)
      /\ Head(q).kind = "resolved" => Resolves(q, Head(q).slug)
  BY <1>1 DEF Resolves
<1>4. InOrder(q) => InOrder(Tail(q))
  BY <1>1 DEF InOrder
<1>5. InOrder(q) /\ Head(q).kind = "resolved" => ~Resolves(Tail(q), Head(q).slug)
  <2>1. SUFFICES ASSUME InOrder(q), q[1].kind = "resolved",
                        NEW i \in 1..Len(Tail(q)), Tail(q)[i].kind = "resolved",
                        Tail(q)[i].slug = q[1].slug
                 PROVE  FALSE
    BY <1>1 DEF Resolves
  <2>2. q[i + 1].kind = "resolved" /\ q[i + 1].slug = q[1].slug /\ 1 < i + 1
    BY <1>1, <2>1
  <2>3. q[1].slug < q[i + 1].slug
    BY <1>1, <2>1, <2>2 DEF InOrder
  <2>4. QED BY <1>1, <1>2, <2>2, <2>3
<1>6. \A n : UpTo(q, n) => UpTo(Tail(q), n)
  BY <1>1 DEF UpTo
<1>7. Paired(q) => Paired(Tail(q))
  <2>1. SUFFICES ASSUME Paired(q), NEW i \in 1..Len(Tail(q)),
                        Tail(q)[i].kind = "cutoff", i < Len(Tail(q))
                 PROVE  Tail(q)[i + 1].kind = "resolved" /\ Tail(q)[i + 1].slug = Tail(q)[i].slug
    BY DEF Paired
  <2>2. i + 1 \in 1..Len(q) /\ i + 1 < Len(q) /\ i + 1 \in 1..Len(Tail(q))
    BY <1>1, <2>1
  <2>3. Tail(q)[i] = q[i + 1] /\ Tail(q)[i + 1] = q[(i + 1) + 1]
    BY <1>1, <2>2
  <2>4. QED BY <2>1, <2>2, <2>3 DEF Paired
<1>8. Paired(q) /\ Head(q).kind = "cutoff" /\ Tail(q) # <<>>
        => Head(Tail(q)).kind = "resolved" /\ Head(Tail(q)).slug = Head(q).slug
  <2>1. SUFFICES ASSUME Paired(q), q[1].kind = "cutoff", Tail(q) # <<>>
                 PROVE  Tail(q)[1].kind = "resolved" /\ Tail(q)[1].slug = q[1].slug
    BY <1>1
  <2>2. 1 < Len(q) /\ Tail(q)[1] = q[1 + 1]
    BY <1>1, <2>1
  <2>3. QED BY <1>1, <2>1, <2>2 DEF Paired
<1>9. /\ Tail(q) # <<>> => Tail(q)[Len(Tail(q))] = q[Len(q)]
      /\ Tail(q) = <<>> => q[Len(q)] = Head(q)
  BY <1>1
<1>10. QED BY <1>1, <1>3, <1>4, <1>5, <1>6, <1>7, <1>8, <1>9

\* Appending an event adds what it says, if it comes after what is there.
LEMMA AppendEvents ==
  ASSUME NEW q \in Seq(Events), NEW e \in Events
  PROVE  /\ \A s : Resolves(Append(q, e), s)
                     => Resolves(q, s) \/ (e.kind = "resolved" /\ e.slug = s)
         /\ \A n \in Nat : InOrder(q) /\ UpTo(q, n) /\ (e.kind = "resolved" => n < e.slug)
                             => InOrder(Append(q, e))
         /\ \A n \in Nat, m \in Nat :
              UpTo(q, n) /\ n <= m /\ (e.kind = "resolved" => e.slug <= m)
                => UpTo(Append(q, e), m)
         /\ Paired(q) /\ (q # <<>> /\ q[Len(q)].kind = "cutoff"
                            => e.kind = "resolved" /\ e.slug = q[Len(q)].slug)
              => Paired(Append(q, e))
         /\ Append(q, e) # <<>> /\ Append(q, e)[Len(Append(q, e))] = e
         /\ Head(Append(q, e)) = IF q = <<>> THEN e ELSE Head(q)
<1>1. /\ Append(q, e) \in Seq(Events) /\ Append(q, e) # <<>>
      /\ Len(q) \in Nat /\ Len(Append(q, e)) = Len(q) + 1
      /\ Append(q, e)[Len(q) + 1] = e
      /\ \A i \in 1..Len(q) : Append(q, e)[i] = q[i]
      /\ \A i \in 1..(Len(q) + 1) : i \in 1..Len(q) \/ i = Len(q) + 1
      /\ q # <<>> => Len(q) \in 1..Len(q)
      /\ Len(q) \in 1..Len(q) => q # <<>>
  OBVIOUS
<1>2. /\ \A i \in 1..Len(q) : q[i] \in Events /\ q[i].slug \in Nat
      /\ e.slug \in Nat
  BY <1>1, EventTypes
<1> DEFINE a == Append(q, e)
<1> HIDE DEF a
<1>3. \A s : Resolves(a, s) => Resolves(q, s) \/ (e.kind = "resolved" /\ e.slug = s)
  BY <1>1 DEF Resolves, a
<1>4. ASSUME NEW n \in Nat, InOrder(q), UpTo(q, n), e.kind = "resolved" => n < e.slug
      PROVE  InOrder(a)
  <2>1. SUFFICES ASSUME NEW i \in 1..(Len(q) + 1), NEW j \in 1..(Len(q) + 1),
                        a[i].kind = "resolved", a[j].kind = "resolved", i < j
                 PROVE  a[i].slug < a[j].slug
    BY <1>1 DEF InOrder, a
  <2>2. i \in 1..Len(q) /\ a[i] = q[i]
    BY <1>1, <2>1 DEF a
  <2>3. CASE j \in 1..Len(q)
    BY <1>1, <1>4, <2>1, <2>2, <2>3 DEF InOrder, a
  <2>4. CASE j = Len(q) + 1
    <3>1. a[j] = e /\ n < e.slug
      BY <1>1, <1>4, <2>1, <2>4 DEF a
    <3>2. q[i].slug <= n
      BY <1>4, <2>1, <2>2 DEF UpTo
    <3>3. QED BY <1>2, <2>2, <3>1, <3>2
  <2>5. QED BY <1>1, <2>3, <2>4
<1>5. ASSUME NEW n \in Nat, NEW m \in Nat, UpTo(q, n), n <= m,
             e.kind = "resolved" => e.slug <= m
      PROVE  UpTo(a, m)
  <2>1. SUFFICES ASSUME NEW i \in 1..(Len(q) + 1), a[i].kind = "resolved"
                 PROVE  a[i].slug <= m
    BY <1>1 DEF UpTo, a
  <2>2. CASE i \in 1..Len(q)
    <3>1. q[i].slug <= n /\ a[i] = q[i]
      BY <1>1, <1>5, <2>1, <2>2 DEF UpTo, a
    <3>2. QED BY <1>2, <1>5, <2>2, <3>1
  <2>3. CASE i = Len(q) + 1
    BY <1>1, <1>5, <2>1, <2>3 DEF a
  <2>4. QED BY <1>1, <2>2, <2>3
<1>6. ASSUME Paired(q),
             q # <<>> /\ q[Len(q)].kind = "cutoff" => e.kind = "resolved" /\ e.slug = q[Len(q)].slug
      PROVE  Paired(a)
  <2>1. SUFFICES ASSUME NEW i \in 1..(Len(q) + 1), a[i].kind = "cutoff", i < Len(q) + 1
                 PROVE  a[i + 1].kind = "resolved" /\ a[i + 1].slug = a[i].slug
    BY <1>1 DEF Paired, a
  <2>2. i \in 1..Len(q) /\ a[i] = q[i]
    BY <1>1, <2>1 DEF a
  <2>3. CASE i < Len(q)
    <3>1. i + 1 \in 1..Len(q) /\ a[i + 1] = q[i + 1]
      BY <1>1, <2>2, <2>3 DEF a
    <3>2. QED BY <1>6, <2>1, <2>2, <2>3, <3>1 DEF Paired
  <2>4. CASE i = Len(q)
    <3>1. a[i + 1] = e
      BY <1>1, <2>4 DEF a
    <3>2. QED BY <1>1, <1>6, <2>1, <2>2, <2>4, <3>1
  <2>5. QED BY <1>1, <2>2, <2>3, <2>4
<1>7. a # <<>> /\ a[Len(a)] = e /\ Head(a) = IF q = <<>> THEN e ELSE Head(q)
  BY <1>1 DEF a
<1>8. QED BY <1>3, <1>4, <1>5, <1>6, <1>7 DEF a

-----------------------------------------------------------------------------
(* What the channel and the captured price may hold *)

\* The last market whose resolution may have been sent.
Emitted == IF phase = "prefetch" THEN round ELSE round - 1

\* The rotation has closed market s and has not found it resolved yet.
Awaits(s) == phase \in {"cutoff", "resolving"} /\ round = s

\* A cutoff is followed by the resolution of its market, in the channel or in what the
\* rotation has yet to send, and so is the price captured at it.
LastIsAwaited ==
  lifecycle # <<>> /\ lifecycle[Len(lifecycle)].kind = "cutoff"
    => Awaits(lifecycle[Len(lifecycle)].slug)
PriceIsAwaited ==
  cutoffPrice # 0 =>
    IF lifecycle = <<>> THEN Awaits(cutoffPrice)
    ELSE Head(lifecycle).kind = "resolved" /\ Head(lifecycle).slug = cutoffPrice
LifecycleInv ==
  /\ InOrder(lifecycle) /\ UpTo(lifecycle, Emitted) /\ Paired(lifecycle)
  /\ LastIsAwaited /\ PriceIsAwaited

LEMMA EmittedType ==
  ASSUME MarketTypeOK
  PROVE  Emitted \in Nat /\ round \in Nat
<1>1. round \in 1..(MaxRounds + 1) /\ MaxRounds \in Nat
  BY MaxRoundsAssumption DEF MarketTypeOK
<1>2. QED BY <1>1 DEF Emitted

\* A step of the rotation sends nothing, or the cutoff of the market it is closing, or a
\* resolution later than all before it.
LEMMA RotateEvents ==
  ASSUME TypeOK, RotateMarket
  PROVE  /\ Emitted <= Emitted'
         /\ \/ UNCHANGED lifecycle /\ \A s : Awaits(s) => Awaits(s)'
            \/ \E e \in Events :
                 /\ lifecycle' = Append(lifecycle, e)
                 /\ \/ e.kind = "cutoff" /\ Awaits(e.slug)' /\ \A s : ~Awaits(s)
                    \/ /\ e.kind = "resolved" /\ Emitted < e.slug /\ e.slug <= Emitted'
                       /\ \A s : Awaits(s) => s = e.slug
<1>0. MarketTypeOK /\ round \in Nat /\ Emitted \in Nat
  BY EmittedType DEF TypeOK
<1>1. ASSUME NEW k \in {"cutoff", "resolved"}, NEW s \in Rounds, NEW b \in BOOLEAN, Emit(k, s, b)
      PROVE  \E e \in Events : lifecycle' = Append(lifecycle, e) /\ e.kind = k /\ e.slug = s
  <2>1. [kind |-> k, slug |-> s, known |-> b] \in Events
    BY DEF Events
  <2>2. QED BY <1>1, <2>1 DEF Emit
<1>2. CASE RoundBegins
  <2>1. PICK r \in Rounds, s \in CatalogStatuses :
          /\ market' = Snapshot(r, s)
          /\ IF s = "Resolved" THEN round' = r + 1 /\ UNCHANGED phase
                               ELSE round' = r /\ phase' = "published"
    BY <1>2 DEF RoundBegins, BeginRound
  <2>2. market'.slug = r /\ market'.status = s /\ r >= round /\ r \in Nat
    BY <1>2, <2>1 DEF RoundBegins, Snapshot, Rounds
  <2>3. phase = "resolve" /\ Emitted = round - 1 /\ \A x : ~Awaits(x)
    BY <1>2 DEF RoundBegins, BeginRound, Emitted, Awaits
  <2>4. CASE s = "Resolved"
    <3>1. Emitted' = r
      BY <2>1, <2>2, <2>3, <2>4 DEF Emitted
    <3>2. \E e \in Events : lifecycle' = Append(lifecycle, e) /\ e.kind = "resolved" /\ e.slug = r
      BY <1>1, <1>2, <2>2, <2>4 DEF RoundBegins
    <3>3. Emitted < r /\ Emitted <= Emitted' /\ r <= Emitted'
      BY <1>0, <2>2, <2>3, <3>1
    <3>4. QED BY <2>3, <3>2, <3>3
  <2>5. CASE s # "Resolved"
    <3>1. Emitted' = r - 1
      BY <2>1, <2>5 DEF Emitted
    <3>2. Emitted <= Emitted'
      BY <1>0, <2>2, <2>3, <3>1
    <3>3. UNCHANGED lifecycle
      BY <1>2, <2>2, <2>5 DEF RoundBegins
    <3>4. QED BY <2>3, <3>2, <3>3
  <2>6. QED BY <2>4, <2>5
<1>3. CASE CutoffTrading /\ Emit("cutoff", round, FALSE)
  <2>1. /\ phase = "open" /\ phase' = "cutoff" /\ round' = round /\ round \in Rounds
    BY <1>0, <1>3 DEF CutoffTrading, Advance, MarketTypeOK
  <2>2. \E e \in Events : lifecycle' = Append(lifecycle, e) /\ e.kind = "cutoff" /\ e.slug = round
    BY <1>1, <1>3, <2>1
  <2>3. Emitted' = Emitted /\ Awaits(round)' /\ \A s : ~Awaits(s)
    BY <2>1 DEF Emitted, Awaits
  <2>4. QED BY <1>0, <2>1, <2>2, <2>3 DEF Awaits
<1>4. CASE ConfirmResolved /\ \E known \in BOOLEAN : Emit("resolved", round, known)
  <2>1. /\ phase = "resolving" /\ phase' = "prefetch" /\ round' = round /\ round \in Rounds
    BY <1>0, <1>4 DEF ConfirmResolved, Advance, MarketTypeOK
  <2>2. \E e \in Events : lifecycle' = Append(lifecycle, e) /\ e.kind = "resolved" /\ e.slug = round
    BY <1>1, <1>4, <2>1
  <2>3. Emitted = round - 1 /\ Emitted' = round /\ \A s : Awaits(s) => s = round
    BY <2>1 DEF Emitted, Awaits
  <2>4. QED BY <1>0, <2>2, <2>3
<1>5. CASE (OpenTrading \/ StartResolving) /\ UNCHANGED lifecycle
  BY <1>0, <1>5 DEF OpenTrading, StartResolving, Advance, Emitted, Awaits
<1>6. CASE (PublishPrefetched \/ SkipPrefetched) /\ UNCHANGED lifecycle
  BY <1>0, <1>6 DEF PublishPrefetched, SkipPrefetched, Emitted, Awaits
<1>7. QED BY <1>2, <1>3, <1>4, <1>5, <1>6 DEF RotateMarket, RoundAdvances

\* The other steps leave the channel, the price and the rotation alone.
LEMMA LifecycleFrame ==
  ASSUME TypeOK, [Next]_vars,
         ~RotateMarket, ~TakeCutoff, ~TakeResolved, ~Crash
  PROVE  UNCHANGED <<lifecycle, cutoffPrice, rotationVars>>
<1>1. CASE UNCHANGED vars \/ Finished
  BY <1>1 DEF vars, Finished
<1>2. CASE PositionOpens \/ (\E p \in Positions : PositionFills(p)) \/ StartTool
  BY <1>2 DEF PositionOpens, PositionFills, StartTool
<1>3. ASSUME NEW w \in Workers, SettleStep(w)
      PROVE  UNCHANGED <<lifecycle, cutoffPrice, rotationVars>>
  BY <1>3 DEF SettleStep, MarkSettling, JudgeLost, Redeem, TellWon, HandOver
<1>4. CASE RedeemPoller \/ \E p \in Positions : TxEnds(p)
  BY <1>4 DEF RedeemPoller, TxEnds, TrackPending, StartRedeemTick, SendRedeemed, EndRedeemTick,
     PollConfirmed, PollOther
<1>5. CASE \/ \E p \in Positions : PersistFill(p) \/ BookFill(p)
           \/ PersistSettled \/ BookSettled \/ BookRedeemed
  BY <1>5 DEF PersistFill, BookFill, PersistSettled, BookSettled, BookRedeemed
<1>6. QED BY <1>1, <1>2, <1>3, <1>4, <1>5 DEF Next

LEMMA LifecycleStep == TypeOK /\ LifecycleInv /\ [Next]_vars => LifecycleInv'
<1> SUFFICES ASSUME TypeOK, LifecycleInv, [Next]_vars PROVE LifecycleInv'
  OBVIOUS
<1>0. /\ lifecycle \in Seq(Events) /\ Emitted \in Nat
      /\ cutoffPrice \in Nat
  BY EmittedType, MaxRoundsAssumption DEF TypeOK
<1>1. CASE RotateMarket
  <2>1. Emitted' \in Nat /\ Emitted <= Emitted'
    <3>1. round' \in 1..(MaxRounds + 1) /\ MaxRounds \in Nat
      BY <1>1, RotateTypes, MaxRoundsAssumption DEF MarketTypeOK
    <3>2. round' \in Nat /\ round' - 1 \in Nat
      <4>1. \A r \in 1..(MaxRounds + 1) : r \in Nat /\ r - 1 \in Nat
        BY <3>1
      <4>2. QED BY <3>1, <4>1
    <3>3. Emitted' \in Nat
      BY <3>2 DEF Emitted
    <3>4. QED BY <1>1, <3>3, RotateEvents
  <2>2. cutoffPrice' = cutoffPrice
    BY <1>1 DEF RotateMarket
  <2>3. CASE UNCHANGED lifecycle /\ \A s : Awaits(s) => Awaits(s)'
    <3>1. UpTo(lifecycle, Emitted')
      <4>1. \A i \in 1..Len(lifecycle) : lifecycle[i].slug \in Nat
        BY <1>0, EventTypes
      <4>2. QED BY <1>0, <2>1, <4>1 DEF LifecycleInv, UpTo
    <3>2. InOrder(lifecycle)' /\ UpTo(lifecycle, Emitted)' /\ Paired(lifecycle)'
      BY <2>3, <3>1 DEF LifecycleInv, InOrder, UpTo, Paired
    <3>3. LastIsAwaited' /\ PriceIsAwaited'
      BY <2>2, <2>3 DEF LifecycleInv, LastIsAwaited, PriceIsAwaited, Awaits
    <3>4. QED BY <3>2, <3>3 DEF LifecycleInv
  <2>4. ASSUME NEW e \in Events, lifecycle' = Append(lifecycle, e),
               e.kind = "cutoff", Awaits(e.slug)', \A s : ~Awaits(s)
        PROVE  LifecycleInv'
    <3>1. lifecycle # <<>> => lifecycle[Len(lifecycle)].kind # "cutoff"
      BY <2>4 DEF LifecycleInv, LastIsAwaited, PriceIsAwaited
    <3>2. InOrder(lifecycle') /\ UpTo(lifecycle', Emitted') /\ Paired(lifecycle')
      BY <1>0, <2>1, <2>4, <3>1, AppendEvents DEF LifecycleInv
    <3>3. lifecycle' # <<>> /\ lifecycle'[Len(lifecycle')] = e
      BY <1>0, <2>4, AppendEvents
    <3>4. cutoffPrice # 0 => lifecycle # <<>> /\ Head(lifecycle') = Head(lifecycle)
      BY <1>0, <2>4, AppendEvents DEF LifecycleInv, LastIsAwaited, PriceIsAwaited
    <3>5. cutoffPrice' # 0 => /\ lifecycle' # <<>> /\ Head(lifecycle').kind = "resolved"
                              /\ Head(lifecycle').slug = cutoffPrice'
      BY <2>2, <3>3, <3>4 DEF LifecycleInv, LastIsAwaited, PriceIsAwaited
    <3>6. QED BY <2>4, <3>2, <3>3, <3>5 DEF LifecycleInv, LastIsAwaited, PriceIsAwaited
  <2>5. ASSUME NEW e \in Events, lifecycle' = Append(lifecycle, e),
               e.kind = "resolved", Emitted < e.slug, e.slug <= Emitted',
               \A s : Awaits(s) => s = e.slug
        PROVE  LifecycleInv'
    <3>1. lifecycle # <<>> /\ lifecycle[Len(lifecycle)].kind = "cutoff"
            => e.slug = lifecycle[Len(lifecycle)].slug
      BY <2>5 DEF LifecycleInv, LastIsAwaited, PriceIsAwaited
    <3>2. InOrder(lifecycle') /\ UpTo(lifecycle', Emitted') /\ Paired(lifecycle')
      BY <1>0, <2>1, <2>5, <3>1, AppendEvents DEF LifecycleInv
    <3>3. /\ lifecycle' # <<>> /\ lifecycle'[Len(lifecycle')] = e
          /\ Head(lifecycle') = IF lifecycle = <<>> THEN e ELSE Head(lifecycle)
      BY <1>0, <2>5, AppendEvents
    <3>4. cutoffPrice' # 0 => Head(lifecycle').kind = "resolved" /\ Head(lifecycle').slug = cutoffPrice'
      BY <2>2, <2>5, <3>3 DEF LifecycleInv, LastIsAwaited, PriceIsAwaited
    <3>5. QED BY <2>5, <3>2, <3>3, <3>4 DEF LifecycleInv, LastIsAwaited, PriceIsAwaited
  <2>6. QED BY <1>1, <2>3, <2>4, <2>5, RotateEvents
<1>2. ASSUME NEW e \in Events, Take(e), UNCHANGED rotationVars,
             \/ e.kind = "cutoff" /\ cutoffPrice' \in {0, e.slug}
             \/ cutoffPrice' = 0
      PROVE  LifecycleInv'
  <2>1. lifecycle # <<>> /\ e = Head(lifecycle) /\ lifecycle' = Tail(lifecycle)
    BY <1>2 DEF Take
  <2>2. Emitted' = Emitted /\ \A s : Awaits(s) <=> Awaits(s)'
    BY <1>2 DEF Emitted, Awaits, rotationVars
  <2>3. InOrder(lifecycle') /\ UpTo(lifecycle', Emitted') /\ Paired(lifecycle')
    BY <1>0, <2>1, <2>2, TailEvents DEF LifecycleInv
  <2>4. lifecycle' # <<>> => lifecycle'[Len(lifecycle')] = lifecycle[Len(lifecycle)]
    BY <1>0, <2>1, TailEvents
  <2>5. LastIsAwaited'
    <3>1. SUFFICES ASSUME lifecycle' # <<>>, lifecycle'[Len(lifecycle')].kind = "cutoff"
                   PROVE  Awaits(lifecycle[Len(lifecycle)].slug)'
      BY DEF LastIsAwaited
    <3>2. Awaits(lifecycle[Len(lifecycle)].slug)
      BY <2>1, <2>4, <3>1 DEF LifecycleInv, LastIsAwaited
    <3>3. QED BY <2>2, <2>4, <3>1, <3>2 DEF Awaits
  <2>6. PriceIsAwaited'
    <3>1. SUFFICES ASSUME cutoffPrice' # 0
                   PROVE  IF lifecycle' = <<>> THEN Awaits(cutoffPrice)'
                          ELSE Head(lifecycle').kind = "resolved" /\ Head(lifecycle').slug = cutoffPrice'
      BY DEF PriceIsAwaited
    <3>2. e.kind = "cutoff" /\ cutoffPrice' = e.slug
      BY <1>2, <3>1
    <3>3. CASE lifecycle' = <<>>
      <4>1. lifecycle[Len(lifecycle)] = e
        BY <1>0, <2>1, <3>3, TailEvents
      <4>2. Awaits(e.slug)
        BY <2>1, <3>2, <4>1 DEF LifecycleInv, LastIsAwaited
      <4>3. QED BY <2>2, <3>2, <3>3, <4>2 DEF Awaits
    <3>4. CASE lifecycle' # <<>>
      BY <1>0, <2>1, <3>2, <3>4, TailEvents DEF LifecycleInv, LastIsAwaited, PriceIsAwaited
    <3>5. QED BY <3>3, <3>4
  <2>7. QED BY <2>3, <2>5, <2>6 DEF LifecycleInv
<1>3. CASE TakeCutoff
  <2>1. PICK e \in Events : Take(e) /\ e.kind = "cutoff" /\ cutoffPrice' \in {0, e.slug}
    BY <1>3 DEF TakeCutoff
  <2>2. UNCHANGED rotationVars
    BY <1>3 DEF TakeCutoff
  <2>3. QED BY <1>2, <2>1, <2>2
<1>4. CASE TakeResolved
  <2>1. PICK e \in Events : Take(e)
    BY <1>4 DEF TakeResolved
  <2>2. cutoffPrice' = 0 /\ UNCHANGED rotationVars
    BY <1>4 DEF TakeResolved
  <2>3. QED BY <1>2, <2>1, <2>2
<1>5. CASE Crash
  BY <1>5 DEF Crash, LifecycleInv, LastIsAwaited, PriceIsAwaited, InOrder, UpTo, Paired
<1>6. CASE ~RotateMarket /\ ~TakeCutoff /\ ~TakeResolved /\ ~Crash
  <2>1. UNCHANGED <<lifecycle, cutoffPrice, rotationVars>>
    BY <1>6, LifecycleFrame
  <2>2. QED BY <2>1
            DEF LifecycleInv, LastIsAwaited, PriceIsAwaited, InOrder, UpTo, Paired, Emitted,
                Awaits, rotationVars
<1>7. QED BY <1>1, <1>3, <1>4, <1>5, <1>6

\* Initially the channel is empty and no price is captured.
LEMMA InitLifecycle == Init => LifecycleInv
  BY DEF Init, LifecycleInv, LastIsAwaited, PriceIsAwaited, InOrder, UpTo, Paired

\* The lifecycle channel tells of one market after the other, and a cutoff or the price
\* captured at it is only ever followed by the resolution of the same market
\* (market_rotation.rs 66-72, 112-150; settlement.rs 207, 231-247).
THEOREM LifecycleInvariance == Spec => []LifecycleInv
<1>1. TypeOK /\ WorkInv /\ LifecycleInv /\ [Next]_vars => LifecycleInv'
  BY LifecycleStep
<1>2. QED BY <1>1, InitLifecycle, TypeCorrect, PTL DEF Spec

\* A market is never resolved on the price captured at another market's cutoff, whatever
\* is lost and whenever the bot is restarted (settlement.rs 207, 236-247).
THEOREM PriceOfItsMarket == Spec => []PriceIsOfMarket
<1>1. LifecycleInv => PriceIsOfMarket
  BY DEF LifecycleInv, PriceIsAwaited, PriceIsOfMarket
<1>2. QED BY <1>1, LifecycleInvariance, PTL

-----------------------------------------------------------------------------
(* What the store, the relayer and the news under way say of a position *)

\* Market s is still to be resolved: settlement has not taken its resolution.
Upcoming(s) == s > Emitted \/ Resolves(lifecycle, s)

\* What persistence_task has yet to hear.
News == settledNews["persistence"]
Told(q, p, won) == \E i \in 1..Len(q) : q[i].pos = p /\ q[i].won = won
ToldWon(p) == Told(News, p, TRUE)
ToldLost(p) == Told(News, p, FALSE)

\* Nothing has been done about p, or its redemption has been submitted and no more; and
\* nobody holds it for lost.
NotLost(p) == ~ToldLost(p) /\ status[p] # "lost"
Untouched(p) == redeems[p] = 0 /\ NotLost(p)
Once(p) == redeems[p] = 1 /\ NotLost(p)

\* The redemption of the row the bot is at has been submitted.
Submitted(p) == at["task"] \in {"telling", "handing"} /\ p = Current("task")

\* A position whose market is still to be resolved is untouched, and so is one the bot has
\* taken up, until its redemption is submitted; it is taken up after its market's
\* resolution, which comes once.
Unsettled(p) == status[p] = "none" \/ Upcoming(slugOf[p]) => Untouched(p)
TakenUp(p) ==
  p \in batch["task"] =>
    /\ status[p] # "none" /\ ~Upcoming(slugOf[p])
    /\ IF Submitted(p) THEN Once(p) ELSE Untouched(p)
ChainAgrees(p) ==
  /\ redeems[p] <= 1
  /\ tx[p] = "none" <=> redeems[p] = 0
  /\ ToldWon(p) => redeems[p] = 1
  /\ ToldLost(p) => redeems[p] = 0
  /\ status[p] = "redeemed" => tx[p] = "confirmed"
  /\ status[p] = "won" => redeems[p] = 1
  /\ status[p] = "lost" => redeems[p] = 0
RedeemInv ==
  /\ at["tool"] = "idle"
  /\ \A p \in Positions : Unsettled(p) /\ TakenUp(p) /\ ChainAgrees(p)

\* Taking a message off the news adds nothing to it; sending one adds what it says.
LEMMA TailNews ==
  ASSUME NEW q \in Seq(Settleds), q # <<>>
  PROVE  /\ \A p, b : Told(Tail(q), p, b) => Told(q, p, b)
         /\ Told(q, Head(q).pos, Head(q).won)
         /\ Head(q) \in Settleds
<1>1. /\ Head(q) = q[1] /\ Head(q) \in Settleds /\ 1 \in 1..Len(q)
      /\ Len(q) \in Nat \ {0} /\ Len(Tail(q)) = Len(q) - 1
      /\ \A i \in 1..Len(Tail(q)) : Tail(q)[i] = q[i + 1] /\ i + 1 \in 1..Len(q)
  OBVIOUS
<1>2. QED BY <1>1 DEF Told

LEMMA AppendNews ==
  ASSUME NEW q \in Seq(Settleds), NEW x \in Settleds, NEW p, NEW b,
         Told(Append(q, x), p, b)
  PROVE  Told(q, p, b) \/ (x.pos = p /\ x.won = b)
<1>1. /\ Len(Append(q, x)) = Len(q) + 1 /\ Len(q) \in Nat
      /\ Append(q, x)[Len(q) + 1] = x
      /\ \A i \in 1..Len(q) : Append(q, x)[i] = q[i]
      /\ \A i \in 1..(Len(q) + 1) : i \in 1..Len(q) \/ i = Len(q) + 1
  OBVIOUS
<1>2. QED BY <1>1 DEF Told

\* No step makes a market one that is still to be resolved.
LEMMA UpcomingShrinks ==
  ASSUME TypeOK, LifecycleInv, [Next]_vars, NEW s \in Nat, Upcoming(s)'
  PROVE  Upcoming(s)
<1>0. lifecycle \in Seq(Events) /\ Emitted \in Nat /\ MarketTypeOK /\ round \in Nat
  BY EmittedType DEF TypeOK
<1>1. CASE RotateMarket
  <2>1. Emitted <= Emitted' /\ Emitted' \in Int
    <3>1. round' \in 1..(MaxRounds + 1) /\ MaxRounds \in Nat
      BY <1>1, RotateTypes, MaxRoundsAssumption DEF MarketTypeOK
    <3>2. \A r \in 1..(MaxRounds + 1) : r \in Int /\ r - 1 \in Int
      BY <3>1
    <3>3. QED BY <1>1, <3>1, <3>2, RotateEvents DEF Emitted
  <2>2. CASE UNCHANGED lifecycle
    BY <1>0, <2>1, <2>2 DEF Upcoming
  <2>3. ASSUME NEW e \in Events, lifecycle' = Append(lifecycle, e),
               e.kind = "resolved" => Emitted < e.slug
        PROVE  Upcoming(s)
    <3>1. Resolves(lifecycle', s) => Resolves(lifecycle, s) \/ Emitted < s
      BY <1>0, <2>3, AppendEvents
    <3>2. QED BY <1>0, <2>1, <3>1 DEF Upcoming
  <2>4. CASE ~UNCHANGED lifecycle
    <3>1. PICK e \in Events : /\ lifecycle' = Append(lifecycle, e)
                              /\ e.kind = "resolved" => Emitted < e.slug
      BY <1>1, <2>4, RotateEvents
    <3>2. QED BY <2>3, <3>1
  <2>5. QED BY <2>2, <2>4
<1>2. CASE TakeCutoff \/ TakeResolved
  <2>1. /\ lifecycle # <<>> /\ lifecycle' = Tail(lifecycle) /\ UNCHANGED rotationVars
    BY <1>2 DEF TakeCutoff, TakeResolved, Take
  <2>2. Resolves(lifecycle', s) => Resolves(lifecycle, s)
    BY <1>0, <2>1, TailEvents
  <2>3. QED BY <2>1, <2>2 DEF Upcoming, Emitted, rotationVars
<1>3. CASE Crash
  <2>1. ~Resolves(lifecycle', s)
    BY <1>3 DEF Crash, Resolves
  <2>2. Emitted' >= Emitted /\ Emitted' \in Int
    BY <1>0, <1>3 DEF Crash, Emitted
  <2>3. QED BY <1>0, <2>1, <2>2 DEF Upcoming
<1>4. CASE ~RotateMarket /\ ~TakeCutoff /\ ~TakeResolved /\ ~Crash
  <2>1. UNCHANGED <<lifecycle, cutoffPrice, rotationVars>>
    BY <1>4, LifecycleFrame
  <2>2. QED BY <2>1 DEF Upcoming, Resolves, Emitted, rotationVars
<1>5. QED BY <1>1, <1>2, <1>3, <1>4

\* A step that leaves the store, the relayer, the news and the bot's rows alone keeps the
\* invariant.
LEMMA RedeemFrame ==
  ASSUME TypeOK, LifecycleInv, RedeemInv, [Next]_vars,
         UNCHANGED <<status, slugOf, redeems, tx, settledNews, at, batch>>
  PROVE  RedeemInv'
<1>1. \A p \in Positions : slugOf[p] \in Nat
  BY MaxRoundsAssumption DEF TypeOK
<1>2. \A p \in Positions : Upcoming(slugOf[p])' => Upcoming(slugOf[p])
  <2>1. ASSUME NEW p \in Positions, Upcoming(slugOf[p])' PROVE Upcoming(slugOf[p])
    <3> DEFINE s == slugOf[p]
    <3>1. s \in Nat /\ s' = s
      BY <1>1
    <3>2. QED BY <1>1, <2>1, <3>1, UpcomingShrinks
  <2>2. QED BY <2>1
<1>3. \A p : Submitted(p)' <=> Submitted(p)
  BY DEF Submitted, Current
<1>4. QED
  BY <1>2, <1>3
  DEF RedeemInv, Unsettled, TakenUp, ChainAgrees, ToldWon, ToldLost, Untouched, Once, NotLost,
      News

\* The steps that change nothing the invariant is about, or only the rotation's part.
LEMMA RedeemQuietSteps ==
  ASSUME TypeOK, WorkInv, LifecycleInv, RedeemInv,
         \/ RotateMarket \/ TakeCutoff
         \/ \E p \in Positions : PositionFills(p) \/ BookFill(p) \/ PollOther(p)
         \/ TrackPending \/ StartRedeemTick \/ SendRedeemed \/ EndRedeemTick
         \/ BookRedeemed \/ Finished \/ UNCHANGED vars
  PROVE  RedeemInv'
<1>1. [Next]_vars
  BY DEF Next, RedeemPoller
<1>2. UNCHANGED <<status, slugOf, redeems, tx, settledNews, at, batch>>
  BY DEF RotateMarket, TakeCutoff, PositionFills, BookFill, PollOther, TrackPending,
     StartRedeemTick, SendRedeemed, EndRedeemTick, BookRedeemed, Finished, vars, workVars,
     storeVars, newsVars, relayerVars
<1>3. QED BY <1>1, <1>2, RedeemFrame

\* What the other steps need: what is upcoming after them was so before.
LEMMA SlugUpcoming ==
  ASSUME TypeOK, LifecycleInv, [Next]_vars, NEW p \in Positions, slugOf'[p] = slugOf[p],
         Upcoming(slugOf[p])'
  PROVE  Upcoming(slugOf[p])
<1>1. slugOf[p] \in Nat
  BY MaxRoundsAssumption DEF TypeOK
<1> DEFINE s == slugOf[p]
<1>2. s \in Nat /\ s' = s
  BY <1>1
<1>3. QED BY <1>1, <1>2, UpcomingShrinks

\* The bankroll's news of a settled position are not persistence's.
LEMMA RedeemBookSettled ==
  ASSUME TypeOK, LifecycleInv, RedeemInv, BookSettled
  PROVE  RedeemInv'
<1>1. [Next]_vars
  BY DEF Next
<1>2. /\ UNCHANGED <<status, slugOf, redeems, tx, at, batch>>
      /\ News' = News
  BY DEF BookSettled, GetSettled, TypeOK, News, Receivers, workVars, storeVars, relayerVars
<1>3. \A p : Submitted(p)' <=> Submitted(p)
  BY <1>2 DEF Submitted, Current
<1>4. QED
  BY <1>1, <1>2, <1>3, SlugUpcoming
  DEF RedeemInv, Unsettled, TakenUp, ChainAgrees, ToldWon, ToldLost, Untouched, Once, NotLost

\* A new row: nothing had been done about its position.
LEMMA RedeemOpens ==
  ASSUME TypeOK, LifecycleInv, RedeemInv, PositionOpens
  PROVE  RedeemInv'
<1>1. [Next]_vars
  BY DEF Next
<1>2. PICK p \in Positions :
        /\ status[p] = "none"
        /\ status' = [status EXCEPT ![p] = "submitted"]
        /\ slugOf' = [slugOf EXCEPT ![p] = market.slug]
  BY DEF PositionOpens
<1>3. UNCHANGED <<redeems, tx, settledNews, at, batch>>
  BY DEF PositionOpens, workVars, relayerVars
<1>4. \A q : Submitted(q)' <=> Submitted(q)
  BY <1>3 DEF Submitted, Current
<1>5. News' = News /\ at'["tool"] = "idle"
  BY <1>3 DEF News, RedeemInv
<1>6. ASSUME NEW q \in Positions PROVE Unsettled(q)' /\ TakenUp(q)' /\ ChainAgrees(q)'
  <2>1. Unsettled(q) /\ TakenUp(q) /\ ChainAgrees(q)
    BY DEF RedeemInv
  <2>2. CASE q = p
    <3>1. status'[q] = "submitted" /\ Untouched(q) /\ q \notin batch["task"]
      BY <1>2, <2>1, <2>2 DEF Unsettled, TakenUp, TypeOK
    <3>2. QED BY <1>3, <1>5, <2>1, <3>1
              DEF Unsettled, TakenUp, ChainAgrees, ToldWon, ToldLost, Untouched, NotLost
  <2>3. CASE q # p
    <3>1. status'[q] = status[q] /\ slugOf'[q] = slugOf[q]
      BY <1>2, <2>3 DEF TypeOK
    <3>2. Upcoming(slugOf[q])' => Upcoming(slugOf[q])
      BY <1>1, <3>1, SlugUpcoming
    <3>3. QED BY <1>3, <1>4, <1>5, <2>1, <3>1, <3>2
              DEF Unsettled, TakenUp, ChainAgrees, ToldWon, ToldLost, Untouched, Once, NotLost
  <2>4. QED BY <2>2, <2>3
<1>7. QED BY <1>5, <1>6 DEF RedeemInv

\* Taking a resolution: the rows it takes up were untouched, and its market is upcoming no
\* more.
LEMMA RedeemTakes ==
  ASSUME TypeOK, LifecycleInv, RedeemInv, TakeResolved
  PROVE  RedeemInv'
<1>1. [Next]_vars
  BY DEF Next
<1>2. PICK e \in Events :
        /\ Take(e) /\ e.kind = "resolved"
        /\ \/ e.known /\ Settle("task", e.slug, TRUE)
           \/ ~e.known /\ \E v \in BOOLEAN : Settle("task", e.slug, v)
           \/ ~e.known /\ UNCHANGED workVars
  BY DEF TakeResolved
<1>3. /\ UNCHANGED <<status, slugOf, redeems, tx, settledNews, rotationVars>>
      /\ at["task"] = "idle" /\ at'["tool"] = "idle" /\ News' = News
  <2>1. UNCHANGED <<status, slugOf, redeems, tx, settledNews, rotationVars>>
    BY DEF TakeResolved, storeVars, newsVars, relayerVars
  <2>2. at'["tool"] = at["tool"]
    BY <1>2 DEF Settle, TypeOK, workVars, Workers
  <2>3. QED BY <2>1, <2>2 DEF TakeResolved, RedeemInv, News
<1>4. e.slug \in Nat /\ ~Upcoming(e.slug)' /\ Upcoming(e.slug)
  <2>1. lifecycle \in Seq(Events) /\ lifecycle # <<>> /\ lifecycle' = Tail(lifecycle)
        /\ e = Head(lifecycle) /\ Emitted \in Nat /\ Emitted' = Emitted
    BY <1>2, <1>3, EmittedType DEF Take, TypeOK, Emitted, rotationVars
  <2>2. Resolves(lifecycle, e.slug) /\ ~Resolves(lifecycle', e.slug)
    BY <1>2, <2>1, TailEvents DEF LifecycleInv
  <2>3. e.slug <= Emitted
    BY <2>2 DEF LifecycleInv, UpTo, Resolves
  <2>4. e.slug \in Nat
    BY EventTypes
  <2>5. QED BY <2>1, <2>2, <2>3, <2>4 DEF Upcoming
<1>5. \A q \in Positions :
        q \in batch'["task"] => \/ q \in batch["task"]
                                \/ status[q] \in {"filled", "settling"} /\ slugOf[q] = e.slug
  <2>1. CASE UNCHANGED workVars
    BY <2>1 DEF workVars
  <2>2. ASSUME NEW v \in BOOLEAN, Settle("task", e.slug, v)
        PROVE  \A q \in batch'["task"] : status[q] \in {"filled", "settling"} /\ slugOf[q] = e.slug
    BY <2>2 DEF Settle, SettleRows, TypeOK, Workers
  <2>3. QED BY <1>2, <2>1, <2>2
<1>6. \A q : ~Submitted(q)'
  <2>1. at'["task"] \in {"idle", "marking"}
    BY <1>2, <1>3 DEF Settle, TypeOK, workVars, Workers
  <2>2. QED BY <2>1 DEF Submitted
<1>7. ASSUME NEW q \in Positions PROVE Unsettled(q)' /\ TakenUp(q)' /\ ChainAgrees(q)'
  <2>1. Unsettled(q) /\ TakenUp(q) /\ ChainAgrees(q) /\ ~Submitted(q)
    BY <1>3 DEF RedeemInv, Submitted
  <2>2. Upcoming(slugOf[q])' => Upcoming(slugOf[q])
    BY <1>1, <1>3, SlugUpcoming
  <2>3. Unsettled(q)' /\ ChainAgrees(q)'
    BY <1>3, <2>1, <2>2 DEF Unsettled, ChainAgrees, ToldWon, ToldLost, Untouched, NotLost
  <2>4. CASE q \in batch["task"]
    BY <1>3, <1>6, <2>1, <2>2, <2>3, <2>4 DEF TakenUp, Untouched, NotLost, ToldLost
  <2>5. CASE status[q] \in {"filled", "settling"} /\ slugOf[q] = e.slug
    <3>1. Untouched(q) /\ status[q] # "none"
      BY <1>4, <2>1, <2>5 DEF Unsettled
    <3>2. ~Upcoming(slugOf[q])'
      BY <1>3, <1>4, <2>5
    <3>3. QED BY <1>3, <1>6, <2>3, <3>1, <3>2 DEF TakenUp, Untouched, NotLost, ToldLost
  <2>6. QED BY <1>5, <2>3, <2>4, <2>5 DEF TakenUp
<1>8. QED BY <1>3, <1>7 DEF RedeemInv

\* A step on the row the bot is at keeps the invariant for every other position, when it
\* leaves their rows, transactions and news alone and goes on, or stays at its row.
LEMMA OtherRows ==
  ASSUME TypeOK, LifecycleInv, RedeemInv, [Next]_vars,
         NEW c, NEW q \in Positions, q # c, c = Current("task"),
         status'[q] = status[q], slugOf' = slugOf, redeems'[q] = redeems[q], tx'[q] = tx[q],
         \A b : Told(News, q, b)' => Told(News, q, b),
         batch'["task"] \subseteq batch["task"],
         \/ at'["task"] \in {"idle", "marking", "judging"}
         \/ batch'["task"] = batch["task"]
  PROVE  Unsettled(q)' /\ TakenUp(q)' /\ ChainAgrees(q)'
<1>1. Unsettled(q) /\ TakenUp(q) /\ ChainAgrees(q) /\ ~Submitted(q)
  BY DEF RedeemInv, Submitted
<1>2. ~Submitted(q)'
  BY DEF Submitted, Current
<1>3. Upcoming(slugOf[q])' => Upcoming(slugOf[q])
  BY SlugUpcoming
<1>4. QED
  BY <1>1, <1>2, <1>3 DEF Unsettled, TakenUp, ChainAgrees, ToldWon, ToldLost, Untouched, NotLost

\* A step on the row the bot is at.
LEMMA RedeemTaskSteps ==
  ASSUME TypeOK, WorkInv, LifecycleInv, RedeemInv, SettleStep("task")
  PROVE  RedeemInv'
<1>0. [Next]_vars
  BY DEF Next, Workers
<1>1. at["task"] # "idle"
  BY DEF SettleStep, MarkSettling, JudgeLost, Redeem, TellWon, HandOver
<1>2. PICK c \in Positions : c = Current("task") /\ c \in batch["task"]
  BY <1>1, CurrentInBatch DEF WorkInv, Workers
<1>3. /\ status[c] # "none" /\ ~Upcoming(slugOf[c]) /\ ChainAgrees(c)
      /\ at["task"] \in {"telling", "handing"} => Once(c)
      /\ at["task"] \in {"marking", "judging"} => Untouched(c)
      /\ at["tool"] = "idle"
  BY <1>2 DEF RedeemInv, TakenUp, Submitted
<1>4. ASSUME GoOn("task")
      PROVE  /\ batch'["task"] = batch["task"] \ {c} /\ at'["tool"] = "idle"
             /\ at'["task"] \in {"idle", "marking"}
  BY <1>2, <1>3, <1>4 DEF GoOn, TypeOK, Workers
<1>5. ASSUME NEW x, StepTo("task", x)
      PROVE  batch' = batch /\ at'["tool"] = "idle" /\ at'["task"] = x /\ Current("task")' = c
  BY <1>2, <1>3, <1>5 DEF StepTo, TypeOK, Workers, Current
<1>6. slugOf' = slugOf
  BY DEF SettleStep, MarkSettling, JudgeLost, Redeem, TellWon, HandOver, storeVars
<1>7. ~Upcoming(slugOf[c])'
  BY <1>0, <1>2, <1>3, <1>6, SlugUpcoming
<1>8. CASE MarkSettling("task")
  <2>1. /\ UNCHANGED <<redeems, tx>> /\ News' = News
        /\ \A q \in Positions : q # c => status'[q] = status[q]
        /\ status'[c] \in {status[c], "settling"}
    BY <1>2, <1>8 DEF MarkSettling, relayerVars, newsVars, News, TypeOK
  <2>2. /\ batch'["task"] \subseteq batch["task"] /\ at'["tool"] = "idle"
        /\ at'["task"] \in {"idle", "marking", "judging"}
    BY <1>4, <1>5, <1>8 DEF MarkSettling
  <2>3. Untouched(c)'
    BY <1>3, <1>8, <2>1 DEF MarkSettling, Untouched, NotLost, ToldLost
  <2>4. Unsettled(c)' /\ TakenUp(c)' /\ ChainAgrees(c)'
    BY <1>3, <1>7, <2>1, <2>2, <2>3
    DEF Unsettled, TakenUp, ChainAgrees, ToldWon, ToldLost, Submitted
  <2>5. ASSUME NEW q \in Positions, q # c
        PROVE  Unsettled(q)' /\ TakenUp(q)' /\ ChainAgrees(q)'
    BY <1>0, <1>2, <1>6, <2>1, <2>2, <2>5, OtherRows
  <2>6. QED BY <2>2, <2>4, <2>5 DEF RedeemInv
<1>9. CASE JudgeLost("task")
  <2>1. /\ UNCHANGED <<redeems, tx, status>> /\ GoOn("task")
        /\ News' = Append(News, [pos |-> c, won |-> FALSE])
    BY <1>2, <1>9 DEF JudgeLost, Tell, relayerVars, storeVars, News, TypeOK, Receivers
  <2>2. News \in Seq(Settleds) /\ [pos |-> c, won |-> FALSE] \in Settleds
    BY <1>2 DEF News, TypeOK, Receivers, Settleds
  <2>3. \A q, b : Told(News, q, b)' => Told(News, q, b) \/ (q = c /\ b = FALSE)
    BY <2>1, <2>2, AppendNews
  <2>4. redeems[c] = 0 /\ Unsettled(c)' /\ TakenUp(c)' /\ ChainAgrees(c)'
    BY <1>3, <1>4, <1>7, <1>9, <2>1, <2>3
    DEF JudgeLost, Unsettled, TakenUp, ChainAgrees, ToldWon, ToldLost, Untouched
  <2>5. ASSUME NEW q \in Positions, q # c
        PROVE  Unsettled(q)' /\ TakenUp(q)' /\ ChainAgrees(q)'
    BY <1>0, <1>2, <1>4, <1>6, <2>1, <2>3, <2>5, OtherRows
  <2>6. QED BY <1>4, <2>1, <2>4, <2>5 DEF RedeemInv
<1>10. CASE Redeem("task")
  <2>1. PICK r \in Redemptions :
          /\ IF r.taken THEN /\ tx' = [tx EXCEPT ![c] = "pending"]
                             /\ redeems' = [redeems EXCEPT ![c] = @ + 1]
                        ELSE UNCHANGED relayerVars
          /\ IF r.told THEN StepTo("task", "telling") ELSE GoOn("task")
    BY <1>2, <1>10 DEF Redeem
  <2>2. status' = status /\ News' = News /\ (r.told => r.taken) /\ Untouched(c)
    BY <1>3, <1>10 DEF Redeem, Redemptions, storeVars, newsVars, News
  <2>3. IF r.taken THEN tx'[c] = "pending" /\ redeems'[c] = 1
                   ELSE tx'[c] = tx[c] /\ redeems'[c] = redeems[c]
    BY <1>2, <2>1, <2>2 DEF TypeOK, relayerVars, Untouched
  <2>4. \A q \in Positions : q # c => tx'[q] = tx[q] /\ redeems'[q] = redeems[q]
    BY <2>1 DEF TypeOK, relayerVars
  <2>5. /\ at'["tool"] = "idle"
        /\ IF r.told THEN batch' = batch /\ at'["task"] = "telling" /\ Current("task")' = c
           ELSE batch'["task"] = batch["task"] \ {c} /\ at'["task"] \in {"idle", "marking"}
    BY <1>4, <1>5, <2>1
  <2>6. Unsettled(c)' /\ ChainAgrees(c)'
    <3>1. Unsettled(c)'
      BY <1>3, <1>7, <2>2 DEF Unsettled
    <3>2. /\ tx[c] = "none" /\ redeems[c] = 0 /\ status'[c] # "redeemed" /\ status'[c] # "won"
          /\ status'[c] # "lost" /\ ~ToldWon(c)' /\ ~ToldLost(c)'
      <4>1. /\ tx[c] = "none" /\ redeems[c] = 0 /\ status[c] # "redeemed" /\ status[c] # "won"
            /\ ~ToldWon(c)
        BY <1>3, <2>2 DEF ChainAgrees, Untouched
      <4>2. status[c] # "lost" /\ ~ToldLost(c)
        BY <2>2 DEF Untouched, NotLost
      <4>3. QED BY <2>2, <4>1, <4>2 DEF ToldWon, ToldLost
    <3>3. redeems'[c] <= 1 /\ (tx'[c] = "none" <=> redeems'[c] = 0)
      BY <2>3, <3>2
    <3>4. QED BY <3>1, <3>2, <3>3 DEF ChainAgrees
  <2>7. TakenUp(c)'
    <3>1. CASE r.told
      <4>1. Once(c)' /\ Submitted(c)'
        BY <2>2, <2>3, <2>5, <3>1 DEF Once, Untouched, NotLost, ToldLost, Submitted
      <4>2. QED BY <1>3, <1>7, <2>2, <4>1 DEF TakenUp
    <3>2. CASE ~r.told
      BY <2>5, <3>2 DEF TakenUp
    <3>3. QED BY <3>1, <3>2
  <2>8. ASSUME NEW q \in Positions, q # c
        PROVE  Unsettled(q)' /\ TakenUp(q)' /\ ChainAgrees(q)'
    BY <1>0, <1>2, <1>6, <2>2, <2>4, <2>5, <2>8, OtherRows
  <2>9. QED BY <2>5, <2>6, <2>7, <2>8 DEF RedeemInv
<1>11. CASE TellWon("task")
  <2>1. /\ UNCHANGED <<redeems, tx, status>> /\ StepTo("task", "handing") /\ Once(c)
        /\ News' = Append(News, [pos |-> c, won |-> TRUE])
    BY <1>2, <1>3, <1>11 DEF TellWon, Tell, relayerVars, storeVars, News, TypeOK, Receivers
  <2>2. News \in Seq(Settleds) /\ [pos |-> c, won |-> TRUE] \in Settleds
    BY <1>2 DEF News, TypeOK, Receivers, Settleds
  <2>3. \A q, b : Told(News, q, b)' => Told(News, q, b) \/ (q = c /\ b = TRUE)
    BY <2>1, <2>2, AppendNews
  <2>4. batch' = batch /\ at'["tool"] = "idle" /\ Once(c)' /\ Submitted(c)'
    BY <1>5, <2>1, <2>3 DEF Once, NotLost, ToldLost, Submitted
  <2>5. Unsettled(c)' /\ TakenUp(c)' /\ ChainAgrees(c)'
    BY <1>3, <1>7, <2>1, <2>3, <2>4 DEF Unsettled, TakenUp, ChainAgrees, ToldWon, ToldLost, Once
  <2>6. ASSUME NEW q \in Positions, q # c
        PROVE  Unsettled(q)' /\ TakenUp(q)' /\ ChainAgrees(q)'
    BY <1>0, <1>2, <1>6, <2>1, <2>3, <2>4, <2>6, OtherRows
  <2>7. QED BY <2>4, <2>5, <2>6 DEF RedeemInv
<1>12. CASE HandOver("task")
  <2>1. UNCHANGED <<redeems, tx, status>> /\ GoOn("task") /\ News' = News
    BY <1>12 DEF HandOver, relayerVars, storeVars, newsVars, News
  <2>2. Unsettled(c)' /\ TakenUp(c)' /\ ChainAgrees(c)'
    BY <1>3, <1>4, <1>7, <2>1 DEF Unsettled, TakenUp, ChainAgrees, ToldWon, ToldLost
  <2>3. ASSUME NEW q \in Positions, q # c
        PROVE  Unsettled(q)' /\ TakenUp(q)' /\ ChainAgrees(q)'
    BY <1>0, <1>2, <1>4, <1>6, <2>1, <2>3, OtherRows
  <2>4. QED BY <1>4, <2>1, <2>2, <2>3 DEF RedeemInv
<1>13. QED BY <1>8, <1>9, <1>10, <1>11, <1>12 DEF SettleStep

\* A step that leaves the bot's rows and the rotation alone.
LEMMA RedeemWrites ==
  ASSUME TypeOK, LifecycleInv, RedeemInv, [Next]_vars,
         UNCHANGED <<slugOf, redeems, at, batch>>,
         \A q \in Positions, b \in BOOLEAN : Told(News, q, b)' => Told(News, q, b),
         \A q \in Positions :
           /\ tx'[q] = "none" <=> redeems[q] = 0
           /\ tx[q] = "confirmed" => tx'[q] = "confirmed"
           /\ \/ status'[q] = status[q]
              \/ status'[q] = "filled"
              \/ status'[q] = "redeemed" /\ tx'[q] = "confirmed"
              \/ status'[q] = "won" /\ redeems[q] = 1
              \/ status'[q] = "lost" /\ redeems[q] = 0 /\ Told(News, q, FALSE)
  PROVE  RedeemInv'
<1>1. \A q : Submitted(q)' <=> Submitted(q)
  BY DEF Submitted, Current
<1>2. ASSUME NEW q \in Positions PROVE Unsettled(q)' /\ TakenUp(q)' /\ ChainAgrees(q)'
  <2>1. Unsettled(q) /\ TakenUp(q) /\ ChainAgrees(q)
    BY DEF RedeemInv
  <2>2. Upcoming(slugOf[q])' => Upcoming(slugOf[q])
    BY SlugUpcoming
  <2>3. ChainAgrees(q)'
    BY <2>1 DEF ChainAgrees, ToldWon, ToldLost
  <2>4. Untouched(q) => Untouched(q)'
    BY DEF Untouched, NotLost, ToldLost
  <2>5. Once(q) => Once(q)'
    BY DEF Once, NotLost, ToldLost
  <2>6. status'[q] # "none" \/ status'[q] = status[q]
    OBVIOUS
  <2>7. QED BY <1>1, <2>1, <2>2, <2>3, <2>4, <2>5, <2>6 DEF Unsettled, TakenUp
<1>3. QED BY <1>2 DEF RedeemInv

\* The relayer's answers, the redeem poller's writes and those of persistence_task.
LEMMA RedeemWriteSteps ==
  ASSUME TypeOK, LifecycleInv, RedeemInv,
         \/ \E p \in Positions : TxEnds(p) \/ PollConfirmed(p) \/ PersistFill(p)
         \/ PersistSettled
  PROVE  RedeemInv'
<1>0. [Next]_vars
  BY DEF Next, RedeemPoller
<1>1. \A q \in Positions : tx[q] = "none" <=> redeems[q] = 0
  BY DEF RedeemInv, ChainAgrees, ToldWon, ToldLost
<1>2. ASSUME NEW p \in Positions, TxEnds(p) PROVE RedeemInv'
  <2>1. /\ UNCHANGED <<slugOf, redeems, at, batch, status>> /\ News' = News
    BY <1>2 DEF TxEnds, workVars, storeVars, newsVars, News
  <2>2. \A q \in Positions : tx'[q] = tx[q] \/ (tx[q] = "pending" /\ tx'[q] \in {"confirmed", "failed"})
    BY <1>2 DEF TxEnds, TypeOK
  <2>3. QED BY <1>0, <1>1, <2>1, <2>2, RedeemWrites
<1>3. ASSUME NEW p \in Positions, PollConfirmed(p) PROVE RedeemInv'
  <2>1. /\ UNCHANGED <<slugOf, redeems, at, batch, tx>> /\ News' = News
    BY <1>3 DEF PollConfirmed, workVars, relayerVars, newsVars, News
  <2>2. \A q \in Positions : status'[q] = status[q] \/ (status'[q] = "redeemed" /\ tx[q] = "confirmed")
    BY <1>3 DEF PollConfirmed, TypeOK
  <2>3. QED BY <1>0, <1>1, <2>1, <2>2, RedeemWrites
<1>4. ASSUME NEW p \in Positions, PersistFill(p) PROVE RedeemInv'
  <2>1. /\ UNCHANGED <<slugOf, redeems, at, batch, tx>> /\ News' = News
    BY <1>4 DEF PersistFill, workVars, relayerVars, News
  <2>2. \A q \in Positions : status'[q] = status[q] \/ status'[q] = "filled"
    BY <1>4 DEF PersistFill, TypeOK
  <2>3. QED BY <1>0, <1>1, <2>1, <2>2, RedeemWrites
<1>5. CASE PersistSettled
  <2>1. PICK x \in Settleds :
          /\ GetSettled("persistence", x)
          /\ \/ status' = [status EXCEPT ![x.pos] = IF x.won THEN "won" ELSE "lost"]
             \/ "update" \in Faults /\ UNCHANGED status
    BY <1>5 DEF PersistSettled
  <2>2. /\ UNCHANGED <<slugOf, redeems, at, batch, tx>>
    BY <1>5 DEF PersistSettled, workVars, relayerVars
  <2>3. /\ News \in Seq(Settleds) /\ News # <<>> /\ x = Head(News) /\ News' = Tail(News)
    BY <2>1 DEF GetSettled, News, TypeOK, Receivers
  <2>4. /\ \A q, b : Told(News, q, b)' => Told(News, q, b)
        /\ Told(News, x.pos, x.won)
    BY <2>3, TailNews
  <2>5. x.pos \in Positions /\ x.won \in BOOLEAN
    BY DEF Settleds
  <2>6. IF x.won THEN redeems[x.pos] = 1 ELSE redeems[x.pos] = 0
    BY <2>4, <2>5 DEF RedeemInv, ChainAgrees, ToldWon, ToldLost
  <2>7. \A q \in Positions : \/ status'[q] = status[q]
                             \/ status'[q] = "won" /\ redeems[q] = 1
                             \/ status'[q] = "lost" /\ redeems[q] = 0 /\ Told(News, q, FALSE)
    BY <2>1, <2>4, <2>5, <2>6 DEF TypeOK
  <2>8. QED BY <1>0, <1>1, <2>2, <2>4, <2>7, RedeemWrites
<1>6. QED BY <1>2, <1>3, <1>4, <1>5

\* A restart: what the bot was at is forgotten, and no market comes back.
LEMMA RedeemCrash ==
  ASSUME TypeOK, LifecycleInv, RedeemInv, Crash
  PROVE  RedeemInv'
<1>0. [Next]_vars
  BY DEF Next
<1>1. /\ UNCHANGED <<status, slugOf, redeems, tx>>
      /\ batch'["task"] = {} /\ at'["tool"] = "idle" /\ News' = <<>>
  BY DEF Crash, storeVars, relayerVars, News, Receivers, TypeOK, RedeemInv, Workers
<1>2. \A p, b : ~Told(News, p, b)'
  BY <1>1 DEF Told
<1>3. ASSUME NEW q \in Positions PROVE Unsettled(q)' /\ TakenUp(q)' /\ ChainAgrees(q)'
  <2>1. Unsettled(q) /\ ChainAgrees(q)
    BY DEF RedeemInv
  <2>2. Upcoming(slugOf[q])' => Upcoming(slugOf[q])
    BY <1>0, <1>1, SlugUpcoming
  <2>3. Unsettled(q)'
    BY <1>1, <1>2, <2>1, <2>2 DEF Unsettled, Untouched, NotLost, ToldLost
  <2>4. TakenUp(q)'
    BY <1>1 DEF TakenUp
  <2>5. ChainAgrees(q)'
    BY <1>1, <1>2, <2>1 DEF ChainAgrees, ToldWon, ToldLost
  <2>6. QED BY <2>3, <2>4, <2>5
<1>4. QED BY <1>1, <1>3 DEF RedeemInv

LEMMA InitRedeem == Init => RedeemInv
<1> SUFFICES ASSUME Init PROVE RedeemInv
  OBVIOUS
<1>1. \A p : ~ToldWon(p) /\ ~ToldLost(p)
  BY DEF Init, News, Told, ToldWon, ToldLost, Receivers
<1>2. at["tool"] = "idle" /\ batch["task"] = {}
  BY DEF Init, Workers
<1>3. \A p \in Positions : status[p] = "none" /\ redeems[p] = 0 /\ tx[p] = "none"
  BY DEF Init
<1>4. QED BY <1>1, <1>2, <1>3 DEF RedeemInv, Unsettled, TakenUp, ChainAgrees, Untouched, NotLost

\* Every step of the bot keeps the invariant; the recovery tool's are out, MaxToolRuns = 0.
LEMMA RedeemStep ==
  ASSUME MaxToolRuns = 0
  PROVE  TypeOK /\ WorkInv /\ LifecycleInv /\ RedeemInv /\ [Next]_vars => RedeemInv'
<1> SUFFICES ASSUME TypeOK, WorkInv, LifecycleInv, RedeemInv, [Next]_vars PROVE RedeemInv'
  OBVIOUS
<1>1. ~StartTool
  <2>1. toolRuns = 0
    BY DEF TypeOK
  <2>2. QED BY <2>1 DEF StartTool
<1>2. ~SettleStep("tool")
  BY DEF RedeemInv, SettleStep, MarkSettling, JudgeLost, Redeem, TellWon, HandOver
<1>3. CASE \E p \in Positions : TxEnds(p) \/ PollConfirmed(p) \/ PersistFill(p)
  BY <1>3, RedeemWriteSteps
<1>4. CASE \E p \in Positions : PositionFills(p) \/ BookFill(p) \/ PollOther(p)
  BY <1>4, RedeemQuietSteps
<1>5. CASE RotateMarket \/ TakeCutoff \/ TrackPending \/ StartRedeemTick \/ SendRedeemed
           \/ EndRedeemTick \/ BookRedeemed \/ Finished \/ UNCHANGED vars
  BY <1>5, RedeemQuietSteps
<1>6. CASE \E w \in Workers : SettleStep(w)
  BY <1>2, <1>6, RedeemTaskSteps DEF Workers
<1>7. CASE PositionOpens \/ TakeResolved \/ PersistSettled \/ BookSettled \/ Crash
  BY <1>7, RedeemOpens, RedeemTakes, RedeemWriteSteps, RedeemBookSettled, RedeemCrash
<1>8. QED BY <1>1, <1>3, <1>4, <1>5, <1>6, <1>7 DEF Next, RedeemPoller

\* The bot alone: a position is untouched as long as its market is to be resolved, and its
\* market's resolution is taken once (settlement.rs 83-193).
THEOREM RedeemInvariance ==
  ASSUME MaxToolRuns = 0
  PROVE  Spec => []RedeemInv
<1>1. TypeOK /\ WorkInv /\ LifecycleInv /\ RedeemInv /\ [Next]_vars => RedeemInv'
  BY RedeemStep
<1>2. QED BY <1>1, InitRedeem, TypeCorrect, LifecycleInvariance, PTL DEF Spec

\* However rounds, restarts and failures fall, the bot submits a position's redemption at
\* most once (settlement.rs 83-192).
THEOREM RedeemedOnce ==
  ASSUME MaxToolRuns = 0
  PROVE  Spec => []RedeemOnce
<1>1. RedeemInv => RedeemOnce
  BY DEF RedeemInv, ChainAgrees, RedeemOnce
<1>2. QED BY <1>1, RedeemInvariance, PTL

\* With the bot alone, what the store says of a position is what happened on chain
\* (settlement.rs 120-191, redeem_status_poller.rs 51-77, persistence.rs 53-91).
THEOREM StoreAgreesWithChain ==
  ASSUME MaxToolRuns = 0
  PROVE  Spec => []StoreMatchesChain
<1>1. RedeemInv => StoreMatchesChain
  <2>1. SUFFICES ASSUME RedeemInv, NEW p \in Positions
                 PROVE  /\ status[p] = "redeemed" => tx[p] = "confirmed"
                        /\ status[p] = "won" => redeems[p] > 0
                        /\ status[p] = "lost" => redeems[p] = 0
    BY DEF StoreMatchesChain
  <2>2. QED BY <2>1 DEF RedeemInv, ChainAgrees
<1>2. QED BY <1>1, RedeemInvariance, PTL

-----------------------------------------------------------------------------
(* The books and what they are of *)

\* What bankroll_task has yet to hear.
Booking == settledNews["bankroll"]

InNews(q, p) == \E i \in 1..Len(q) : q[i].pos = p
NewsOnce(q) == \A i \in 1..Len(q), j \in 1..Len(q) : q[i].pos = q[j].pos => i = j
InQueue(q, p) == \E i \in 1..Len(q) : q[i] = p
NoTwice(q) == \A i \in 1..Len(q), j \in 1..Len(q) : q[i] = q[j] => i = j

\* Settlement has told of p; its redemption is on the way to the bankroll.
Judged(p) == status[p] \in {"won", "lost", "redeemed"} \/ InNews(News, p)
OnWay(p) == Submitted(p) \/ InQueue(pendingQ, p) \/ p \in tracked \/ InQueue(redeemedQ, p)

\* A position's order is watched, then its fill is under way, then the row is filled.
FillInv(p) ==
  /\ status[p] = "submitted" <=> p \in watched \/ p \in fillNews["persistence"]
  /\ p \in watched => p \notin fillNews["persistence"] /\ p \notin fillNews["bankroll"]
  /\ p \in fillNews["bankroll"] => status[p] # "none"
  /\ p \in batch["task"] \/ InNews(News, p) => status[p] \notin {"none", "submitted"}

\* Settlement tells of a position once, after its redemption; what bankroll_task hears is
\* what the relayer has.
AtTelling(p) == at["task"] = "telling" /\ p = Current("task")
TellInv(p) ==
  /\ InNews(Booking, p) => Judged(p)
  /\ Told(Booking, p, TRUE) => redeems[p] = 1
  /\ Told(Booking, p, FALSE) => redeems[p] = 0
  /\ IF AtTelling(p) THEN ~Judged(p) ELSE tx[p] # "none" => Judged(p)

\* A transaction is in one place at a time until its payout is booked.
WayInv(p) ==
  /\ Submitted(p) => ~InQueue(pendingQ, p) /\ p \notin tracked /\ ~InQueue(redeemedQ, p)
  /\ InQueue(pendingQ, p) => p \notin tracked /\ ~InQueue(redeemedQ, p)
  /\ p \in tracked => ~InQueue(redeemedQ, p)
  /\ OnWay(p) => tx[p] # "none"
  /\ InQueue(redeemedQ, p) \/ confirming = p => tx[p] = "confirmed"
  /\ tx[p] = "pending" => OnWay(p)

FactsInv(p) == FillInv(p) /\ TellInv(p) /\ WayInv(p)
QueuesInv == NewsOnce(News) /\ NewsOnce(Booking) /\ NoTwice(pendingQ) /\ NoTwice(redeemedQ)

\* What bankroll_task has booked so far.
FillBooked(p) == status[p] # "none" /\ p \notin watched /\ p \notin fillNews["bankroll"]
SettledBooked(p) == Judged(p) /\ ~InNews(Booking, p)
WinBooked(p) == SettledBooked(p) /\ redeems[p] = 1
PayoutBooked(p) == tx[p] = "confirmed" /\ ~OnWay(p)

Fills == {p \in Positions : FillBooked(p)}
Settlements == {p \in Positions : SettledBooked(p)}
Wins == {p \in Positions : WinBooked(p)}
Payouts == {p \in Positions : PayoutBooked(p)}
MoneyInv ==
  /\ books.inPlay = Cost * (Cardinality(Fills) - Cardinality(Settlements))
  /\ books.toRedeem = Payout * (Cardinality(Wins) - Cardinality(Payouts))
  /\ books.bankroll = Payout * Cardinality(Payouts) - Cost * Cardinality(Fills)

BooksInv == QueuesInv /\ (\A p \in Positions : FactsInv(p)) /\ MoneyInv

\* The failures the books survive.
Survivable == Faults \cap {"update", "lostReceipt", "noTxId"} = {}

LEMMA TailOnce ==
  ASSUME NEW q \in Seq(Settleds), q # <<>>
  PROVE  /\ \A p : InNews(q, p) <=> p = Head(q).pos \/ InNews(Tail(q), p)
         /\ NewsOnce(q) => NewsOnce(Tail(q)) /\ ~InNews(Tail(q), Head(q).pos)
<1>1. /\ Head(q) = q[1] /\ 1 \in 1..Len(q)
      /\ Len(q) \in Nat \ {0} /\ Len(Tail(q)) = Len(q) - 1
      /\ \A i \in 1..Len(Tail(q)) : /\ Tail(q)[i] = q[i + 1] /\ i + 1 \in 1..Len(q)
                                    /\ i + 1 # 1 /\ i \in Int
      /\ \A i \in 1..Len(q) : i = 1 \/ (i - 1 \in 1..Len(Tail(q)) /\ (i - 1) + 1 = i)
  OBVIOUS
<1>2. ASSUME NEW p PROVE InNews(q, p) <=> p = Head(q).pos \/ InNews(Tail(q), p)
  BY <1>1 DEF InNews
<1>3. ASSUME NewsOnce(q) PROVE NewsOnce(Tail(q)) /\ ~InNews(Tail(q), Head(q).pos)
  <2>1. \A i \in 1..Len(Tail(q)), j \in 1..Len(Tail(q)) : i + 1 = j + 1 => i = j
    BY <1>1
  <2>2. QED BY <1>1, <1>3, <2>1 DEF NewsOnce, InNews
<1>4. QED BY <1>2, <1>3

LEMMA AppendOnce ==
  ASSUME NEW q \in Seq(Settleds), NEW x \in Settleds
  PROVE  /\ \A p : InNews(Append(q, x), p) <=> InNews(q, p) \/ p = x.pos
         /\ NewsOnce(q) /\ ~InNews(q, x.pos) => NewsOnce(Append(q, x))
<1>1. /\ Len(Append(q, x)) = Len(q) + 1 /\ Len(q) \in Nat
      /\ Append(q, x)[Len(q) + 1] = x /\ Len(q) + 1 \in 1..(Len(q) + 1)
      /\ \A i \in 1..Len(q) : Append(q, x)[i] = q[i] /\ i \in 1..(Len(q) + 1)
      /\ \A i \in 1..(Len(q) + 1) : i \in 1..Len(q) \/ i = Len(q) + 1
  OBVIOUS
<1> DEFINE a == Append(q, x)
<1> HIDE DEF a
<1>2. ASSUME NEW p PROVE InNews(a, p) <=> InNews(q, p) \/ p = x.pos
  BY <1>1 DEF InNews, a
<1>3. ASSUME NewsOnce(q), ~InNews(q, x.pos) PROVE NewsOnce(a)
  BY <1>1, <1>3 DEF NewsOnce, InNews, a
<1>4. QED BY <1>2, <1>3 DEF a

LEMMA TailQueue ==
  ASSUME NEW q \in Seq(Positions), q # <<>>
  PROVE  /\ \A p : InQueue(q, p) <=> p = Head(q) \/ InQueue(Tail(q), p)
         /\ NoTwice(q) => NoTwice(Tail(q)) /\ ~InQueue(Tail(q), Head(q))
         /\ Head(q) \in Positions
<1>1. /\ Head(q) = q[1] /\ 1 \in 1..Len(q) /\ q[1] \in Positions
      /\ Len(q) \in Nat \ {0} /\ Len(Tail(q)) = Len(q) - 1
      /\ \A i \in 1..Len(Tail(q)) : /\ Tail(q)[i] = q[i + 1] /\ i + 1 \in 1..Len(q)
                                    /\ i + 1 # 1 /\ i \in Int
      /\ \A i \in 1..Len(q) : i = 1 \/ (i - 1 \in 1..Len(Tail(q)) /\ (i - 1) + 1 = i)
  OBVIOUS
<1>2. ASSUME NEW p PROVE InQueue(q, p) <=> p = Head(q) \/ InQueue(Tail(q), p)
  <2>1. ASSUME NEW i \in 1..Len(q), q[i] = p PROVE p = Head(q) \/ InQueue(Tail(q), p)
    <3>1. CASE i = 1
      BY <1>1, <2>1, <3>1
    <3>2. CASE i # 1
      <4>1. i - 1 \in 1..Len(Tail(q)) /\ Tail(q)[i - 1] = p
        BY <1>1, <2>1, <3>2
      <4>2. QED BY <4>1 DEF InQueue
    <3>3. QED BY <3>1, <3>2
  <2>2. ASSUME NEW i \in 1..Len(Tail(q)), Tail(q)[i] = p PROVE InQueue(q, p)
    BY <1>1, <2>2 DEF InQueue
  <2>3. QED BY <1>1, <2>1, <2>2 DEF InQueue
<1>3. ASSUME NoTwice(q) PROVE NoTwice(Tail(q)) /\ ~InQueue(Tail(q), Head(q))
  <2>1. \A i \in 1..Len(Tail(q)), j \in 1..Len(Tail(q)) : i + 1 = j + 1 => i = j
    BY <1>1
  <2>2. QED BY <1>1, <1>3, <2>1 DEF NoTwice, InQueue
<1>4. QED BY <1>1, <1>2, <1>3

LEMMA AppendQueue ==
  ASSUME NEW q \in Seq(Positions), NEW x \in Positions
  PROVE  /\ \A p : InQueue(Append(q, x), p) <=> InQueue(q, p) \/ p = x
         /\ NoTwice(q) /\ ~InQueue(q, x) => NoTwice(Append(q, x))
<1>1. /\ Len(Append(q, x)) = Len(q) + 1 /\ Len(q) \in Nat
      /\ Append(q, x)[Len(q) + 1] = x /\ Len(q) + 1 \in 1..(Len(q) + 1)
      /\ \A i \in 1..Len(q) : Append(q, x)[i] = q[i] /\ i \in 1..(Len(q) + 1)
      /\ \A i \in 1..(Len(q) + 1) : i \in 1..Len(q) \/ i = Len(q) + 1
  OBVIOUS
<1> DEFINE a == Append(q, x)
<1> HIDE DEF a
<1>2. ASSUME NEW p PROVE InQueue(a, p) <=> InQueue(q, p) \/ p = x
  BY <1>1 DEF InQueue, a
<1>3. ASSUME NoTwice(q), ~InQueue(q, x) PROVE NoTwice(a)
  BY <1>1, <1>3 DEF NoTwice, InQueue, a
<1>4. QED BY <1>2, <1>3 DEF a

\* A step that leaves what is known of p as it was.
SameWay(p) ==
  /\ Submitted(p)' <=> Submitted(p)
  /\ InQueue(pendingQ, p)' <=> InQueue(pendingQ, p)
  /\ p \in tracked' <=> p \in tracked
  /\ InQueue(redeemedQ, p)' <=> InQueue(redeemedQ, p)
  /\ confirming' = p => confirming = p
  /\ tx'[p] = tx[p]
SameNews(p) ==
  /\ InNews(News, p)' <=> InNews(News, p)
  /\ InNews(Booking, p)' <=> InNews(Booking, p)
  /\ \A b \in BOOLEAN : Told(Booking, p, b)' => Told(Booking, p, b)
  /\ AtTelling(p)' <=> AtTelling(p)
  /\ tx'[p] = tx[p] /\ redeems'[p] = redeems[p]
SameFill(p) ==
  /\ p \in watched' <=> p \in watched
  /\ \A r \in Receivers : p \in fillNews'[r] <=> p \in fillNews[r]
Same(p) ==
  /\ status'[p] = status[p]
  /\ p \in batch'["task"] => p \in batch["task"]
  /\ SameWay(p) /\ SameNews(p) /\ SameFill(p)

\* It books nothing.
SameBooked(p) ==
  /\ FillBooked(p)' <=> FillBooked(p)
  /\ SettledBooked(p)' <=> SettledBooked(p)
  /\ WinBooked(p)' <=> WinBooked(p)
  /\ PayoutBooked(p)' <=> PayoutBooked(p)

LEMMA KeepWay ==
  ASSUME NEW p, WayInv(p), SameWay(p)
  PROVE  WayInv(p)' /\ (PayoutBooked(p)' <=> PayoutBooked(p))
<1>1. OnWay(p)' <=> OnWay(p)
  BY DEF SameWay, OnWay
<1>2. QED BY <1>1 DEF SameWay, WayInv, PayoutBooked

LEMMA KeepNews ==
  ASSUME NEW p, TellInv(p), SameNews(p), Judged(p)' <=> Judged(p)
  PROVE  /\ TellInv(p)' /\ (SettledBooked(p)' <=> SettledBooked(p))
         /\ WinBooked(p)' <=> WinBooked(p)
<1>1. TellInv(p)'
  BY DEF SameNews, TellInv
<1>2. SettledBooked(p)' <=> SettledBooked(p)
  BY DEF SameNews, SettledBooked
<1>3. QED BY <1>1, <1>2 DEF SameNews, WinBooked

LEMMA KeepAll ==
  ASSUME NEW p, FactsInv(p), Same(p)
  PROVE  FactsInv(p)' /\ SameBooked(p)
<1>1. Judged(p)' <=> Judged(p)
  BY DEF Same, SameNews, Judged
<1>2. FillInv(p)' /\ (FillBooked(p)' <=> FillBooked(p))
  BY DEF FactsInv, FillInv, FillBooked, Same, SameFill, SameNews, Receivers
<1>3. QED BY <1>1, <1>2, KeepWay, KeepNews DEF FactsInv, Same, SameBooked

\* The steps of the rotation, and those that only start or end a tick of the redeem poller.
LEMMA BooksQuiet ==
  ASSUME \A p \in Positions : FactsInv(p), QueuesInv,
         UNCHANGED <<status, watched, fillNews, settledNews, tx, redeems, at, batch, pendingQ,
                     tracked, redeemedQ, confirming>>
  PROVE  QueuesInv' /\ \A p \in Positions : FactsInv(p)' /\ SameBooked(p)
<1>1. ASSUME NEW p \in Positions PROVE Same(p)
  BY DEF Same, SameWay, SameNews, SameFill, Submitted, AtTelling, Current, InQueue, InNews, Told,
     News, Booking
<1>2. QueuesInv'
  BY DEF QueuesInv, News, Booking, NewsOnce, NoTwice
<1>3. QED BY <1>1, <1>2, KeepAll

\* The order path: a row comes, its order is matched, the store and the bankroll hear of it.
LEMMA BooksOrderSteps ==
  ASSUME TypeOK, RedeemInv, Survivable, QueuesInv, \A p \in Positions : FactsInv(p),
         PositionOpens \/ \E p \in Positions : PositionFills(p) \/ PersistFill(p)
  PROVE  QueuesInv' /\ \A p \in Positions : FactsInv(p)' /\ SameBooked(p)
<1>0. /\ UNCHANGED <<settledNews, tx, redeems, at, batch, pendingQ, tracked, redeemedQ, confirming>>
  BY DEF PositionOpens, PositionFills, PersistFill, newsVars, workVars, relayerVars, pollerVars
<1>1. QueuesInv'
  BY <1>0 DEF QueuesInv, News, Booking, NewsOnce, NoTwice
<1>2. ASSUME NEW q \in Positions PROVE SameWay(q) /\ SameNews(q)
  BY <1>0 DEF SameWay, SameNews, Submitted, AtTelling, Current, InQueue, InNews, Told, News, Booking
<1>3. ASSUME NEW q \in Positions, Judged(q)' <=> Judged(q), FillInv(q)',
             FillBooked(q)' <=> FillBooked(q)
      PROVE  FactsInv(q)' /\ SameBooked(q)
  BY <1>2, <1>3, KeepWay, KeepNews DEF FactsInv, SameBooked
<1>4. ASSUME NEW p \in Positions,
             \/ /\ status[p] = "none" /\ status'[p] = "submitted"
                /\ p \in watched' /\ fillNews' = fillNews
             \/ /\ p \in watched /\ status'[p] = status[p]
                /\ p \notin watched' /\ \A r \in Receivers : p \in fillNews'[r]
             \/ /\ p \in fillNews["persistence"] /\ status'[p] = "filled" /\ watched' = watched
                /\ p \notin fillNews'["persistence"] /\ fillNews'["bankroll"] = fillNews["bankroll"],
             \A q \in Positions : q # p => status'[q] = status[q] /\ SameFill(q)
      PROVE  \A q \in Positions : FactsInv(q)' /\ SameBooked(q)
  <2>1. ASSUME NEW q \in Positions, q # p PROVE FactsInv(q)' /\ SameBooked(q)
    BY <1>0, <1>2, <1>4, <2>1, KeepAll DEF Same
  <2>2. FillInv(p) /\ (status[p] = "none" => Untouched(p)) /\ ChainAgrees(p)
    BY DEF FactsInv, RedeemInv, Unsettled
  <2>3. Judged(p)' <=> Judged(p)
    BY <1>2, <1>4, <2>2 DEF Judged, FillInv, SameNews
  <2>4. FillInv(p)' /\ (FillBooked(p)' <=> FillBooked(p))
    BY <1>0, <1>2, <1>4, <2>2 DEF FillInv, FillBooked, SameNews, Receivers
  <2>5. QED BY <1>3, <2>1, <2>3, <2>4
<1>5. CASE PositionOpens
  <2>1. PICK p \in Positions :
          /\ status[p] = "none"
          /\ status' = [status EXCEPT ![p] = "submitted"]
          /\ watched' = watched \cup {p}
    BY <1>5 DEF PositionOpens
  <2>2. fillNews' = fillNews /\ status'[p] = "submitted"
    BY <1>5, <2>1 DEF PositionOpens, TypeOK
  <2>3. \A q \in Positions : q # p => status'[q] = status[q] /\ SameFill(q)
    BY <2>1, <2>2 DEF TypeOK, SameFill
  <2>4. QED BY <1>1, <1>4, <2>1, <2>2, <2>3
<1>6. ASSUME NEW p \in Positions, PositionFills(p)
      PROVE  \A q \in Positions : FactsInv(q)' /\ SameBooked(q)
  <2>1. /\ status' = status /\ p \in watched /\ watched' = watched \ {p}
        /\ \A r \in Receivers : fillNews'[r] = fillNews[r] \cup {p}
    BY <1>6 DEF PositionFills, storeVars
  <2>2. \A q \in Positions : q # p => status'[q] = status[q] /\ SameFill(q)
    BY <2>1 DEF SameFill
  <2>3. QED BY <1>4, <2>1, <2>2
<1>7. ASSUME NEW p \in Positions, PersistFill(p)
      PROVE  \A q \in Positions : FactsInv(q)' /\ SameBooked(q)
  <2>1. /\ status' = [status EXCEPT ![p] = "filled"] /\ watched' = watched
        /\ p \in fillNews["persistence"]
        /\ fillNews' = [fillNews EXCEPT !["persistence"] = @ \ {p}]
    BY <1>7 DEF PersistFill, GetFill, Survivable
  <2>2. /\ status'[p] = "filled" /\ p \notin fillNews'["persistence"]
        /\ fillNews'["bankroll"] = fillNews["bankroll"]
        /\ \A q \in Positions :
             q # p => /\ status'[q] = status[q]
                      /\ q \in fillNews'["persistence"] <=> q \in fillNews["persistence"]
    BY <2>1 DEF TypeOK, Receivers
  <2>3. \A q \in Positions : q # p => status'[q] = status[q] /\ SameFill(q)
    BY <2>1, <2>2 DEF SameFill, Receivers
  <2>4. QED BY <1>4, <2>1, <2>2, <2>3
<1>8. QED BY <1>1, <1>5, <1>6, <1>7

\* Who has heard of a position has been told that it won or that it lost.
LEMMA NewsTold ==
  ASSUME NEW q \in Seq(Settleds), NEW p
  PROVE  /\ InNews(q, p) => Told(q, p, TRUE) \/ Told(q, p, FALSE)
         /\ \A b : Told(q, p, b) => InNews(q, p)
<1>1. \A i \in 1..Len(q) : q[i] \in Settleds
  OBVIOUS
<1>2. QED BY <1>1 DEF InNews, Told, Settleds

\* Nothing is known of an untouched position anywhere.
LEMMA UntouchedUnjudged ==
  ASSUME TypeOK, NEW p \in Positions, ChainAgrees(p), FactsInv(p), Untouched(p)
  PROVE  ~Judged(p) /\ ~InNews(Booking, p) /\ tx[p] = "none" /\ ~OnWay(p)
<1>1. News \in Seq(Settleds)
  BY DEF TypeOK, News, Receivers
<1>2. tx[p] = "none" /\ ~InNews(News, p)
  <2>1. tx[p] = "none" /\ ~ToldWon(p) /\ ~ToldLost(p)
    BY DEF ChainAgrees, Untouched, NotLost
  <2>2. QED BY <1>1, <2>1, NewsTold DEF ToldWon, ToldLost
<1>3. ~Judged(p)
  BY <1>2 DEF Judged, ChainAgrees, Untouched, NotLost
<1>4. QED BY <1>2, <1>3 DEF FactsInv, TellInv, WayInv

\* A resolution taken: the rows taken up have been filled.
LEMMA BooksTakes ==
  ASSUME TypeOK, QueuesInv, \A p \in Positions : FactsInv(p), TakeResolved
  PROVE  QueuesInv' /\ \A p \in Positions : FactsInv(p)' /\ SameBooked(p)
<1>1. /\ UNCHANGED <<status, watched, fillNews, settledNews, tx, redeems, pendingQ, tracked,
                     redeemedQ, confirming>>
  BY DEF TakeResolved, storeVars, newsVars, relayerVars, pollerVars
<1>2. PICK e \in Events :
        \/ \E v \in BOOLEAN : Settle("task", e.slug, v)
        \/ UNCHANGED workVars
  BY DEF TakeResolved
<1>3. /\ at["task"] = "idle" /\ at'["task"] \in {"idle", "marking"}
      /\ \A q \in Positions :
           q \in batch'["task"] => q \in batch["task"] \/ status[q] \in {"filled", "settling"}
  <2>1. CASE UNCHANGED workVars
    BY <2>1 DEF workVars, TakeResolved
  <2>2. ASSUME NEW v \in BOOLEAN, Settle("task", e.slug, v)
        PROVE  /\ at'["task"] \in {"idle", "marking"}
               /\ \A q \in batch'["task"] : status[q] \in {"filled", "settling"}
    BY <2>2 DEF Settle, SettleRows, TypeOK, Workers
  <2>3. QED BY <1>2, <2>1, <2>2 DEF TakeResolved
<1>4. ASSUME NEW q \in Positions PROVE FactsInv(q)' /\ SameBooked(q)
  <2>1. SameWay(q) /\ SameNews(q)
    BY <1>1, <1>3 DEF SameWay, SameNews, Submitted, AtTelling, InQueue, InNews, Told, News, Booking
  <2>2. Judged(q)' <=> Judged(q)
    BY <1>1 DEF Judged, InNews, News
  <2>3. FillInv(q)' /\ (FillBooked(q)' <=> FillBooked(q))
    BY <1>1, <1>3 DEF FactsInv, FillInv, FillBooked, InNews, News
  <2>4. QED BY <2>1, <2>2, <2>3, KeepWay, KeepNews DEF FactsInv, SameBooked
<1>5. QueuesInv'
  BY <1>1 DEF QueuesInv, News, Booking, NewsOnce, NoTwice
<1>6. QED BY <1>4, <1>5

\* A step on the row the bot is at leaves what is known of the others.
LEMMA SameOthers ==
  ASSUME NEW c, NEW q \in Positions, q # c, c = Current("task"),
         status'[q] = status[q], redeems'[q] = redeems[q], tx'[q] = tx[q],
         UNCHANGED <<watched, fillNews, tracked, redeemedQ, confirming>>,
         InNews(News, q)' <=> InNews(News, q), InNews(Booking, q)' <=> InNews(Booking, q),
         \A b \in BOOLEAN : Told(Booking, q, b)' => Told(Booking, q, b),
         InQueue(pendingQ, q)' <=> InQueue(pendingQ, q),
         batch'["task"] \subseteq batch["task"],
         \/ at'["task"] \in {"idle", "marking", "judging"}
         \/ batch'["task"] = batch["task"]
  PROVE  Same(q)
<1>1. ~Submitted(q) /\ ~Submitted(q)' /\ ~AtTelling(q) /\ ~AtTelling(q)'
  BY DEF Submitted, AtTelling, Current
<1>2. InQueue(redeemedQ, q)' <=> InQueue(redeemedQ, q)
  BY DEF InQueue
<1>3. SameWay(q) /\ SameNews(q) /\ SameFill(q)
  BY <1>1, <1>2 DEF SameWay, SameNews, SameFill
<1>4. QED BY <1>3 DEF Same

LEMMA BooksTaskSteps ==
  ASSUME TypeOK, WorkInv, RedeemInv, Survivable, QueuesInv, \A p \in Positions : FactsInv(p),
         SettleStep("task")
  PROVE  QueuesInv' /\ \A p \in Positions : FactsInv(p)' /\ SameBooked(p)
<1>1. at["task"] # "idle"
  BY DEF SettleStep, MarkSettling, JudgeLost, Redeem, TellWon, HandOver
<1>2. PICK c \in Positions : c = Current("task") /\ c \in batch["task"]
  BY <1>1, CurrentInBatch DEF WorkInv, Workers
<1>3. /\ at["task"] \in {"marking", "judging"}
           => ~Judged(c) /\ ~InNews(Booking, c) /\ tx[c] = "none" /\ redeems[c] = 0 /\ ~OnWay(c)
                /\ ~Submitted(c)
      /\ status[c] \notin {"none", "submitted"}
      /\ FactsInv(c) /\ News \in Seq(Settleds) /\ Booking \in Seq(Settleds)
      /\ pendingQ \in Seq(Positions)
  <2>1. at["task"] \in {"marking", "judging"} => Untouched(c) /\ ~Submitted(c)
    BY <1>2 DEF RedeemInv, TakenUp, Submitted
  <2>2. ChainAgrees(c) /\ FactsInv(c)
    BY DEF RedeemInv
  <2>3. status[c] \notin {"none", "submitted"}
    BY <1>2, <2>2 DEF FactsInv, FillInv
  <2>4. News \in Seq(Settleds) /\ Booking \in Seq(Settleds) /\ pendingQ \in Seq(Positions)
    BY DEF TypeOK, News, Booking, Receivers
  <2>5. at["task"] \in {"marking", "judging"}
          => ~Judged(c) /\ ~InNews(Booking, c) /\ tx[c] = "none" /\ ~OnWay(c) /\ redeems[c] = 0
    BY <2>1, <2>2, UntouchedUnjudged DEF Untouched
  <2>6. QED BY <2>1, <2>2, <2>3, <2>4, <2>5
<1>4. ASSUME GoOn("task")
      PROVE  /\ batch'["task"] \subseteq batch["task"]
             /\ at'["task"] \in {"idle", "marking"} /\ ~Submitted(c)' /\ ~AtTelling(c)'
  <2>1. batch'["task"] \subseteq batch["task"] /\ at'["task"] \in {"idle", "marking"}
    BY <1>2, <1>4 DEF GoOn, TypeOK, Workers
  <2>2. QED BY <2>1 DEF Submitted, AtTelling
<1>5. ASSUME NEW x, StepTo("task", x)
      PROVE  batch' = batch /\ at'["task"] = x /\ Current("task")' = c
  BY <1>2, <1>5 DEF StepTo, TypeOK, Workers, Current
<1>6. UNCHANGED <<watched, fillNews, tracked, redeemedQ, confirming>>
  BY DEF SettleStep, MarkSettling, JudgeLost, Redeem, TellWon, HandOver, newsVars, pollerVars
<1>7. ASSUME FillInv(c)', TellInv(c)', WayInv(c)', status'[c] # "none",
             SettledBooked(c)' <=> SettledBooked(c), WinBooked(c)' <=> WinBooked(c),
             PayoutBooked(c)' <=> PayoutBooked(c)
      PROVE  FactsInv(c)' /\ SameBooked(c)
  <2>1. FillBooked(c)' <=> FillBooked(c)
    BY <1>3, <1>6, <1>7 DEF FillBooked
  <2>2. QED BY <1>7, <2>1 DEF FactsInv, SameBooked
<1>8. CASE MarkSettling("task")
  <2>1. /\ UNCHANGED <<redeems, tx, settledNews, pendingQ>> /\ StepTo("task", "judging")
        /\ \A q \in Positions : q # c => status'[q] = status[q]
        /\ status'[c] = "settling" /\ at["task"] = "marking"
    BY <1>2, <1>8 DEF MarkSettling, relayerVars, newsVars, TypeOK, Survivable
  <2>2. batch' = batch /\ at'["task"] = "judging" /\ ~Submitted(c)' /\ ~AtTelling(c)' /\ ~AtTelling(c)
    BY <1>5, <2>1 DEF Submitted, AtTelling
  <2>3. \A q \in Positions : /\ InNews(News, q)' <=> InNews(News, q)
                             /\ InNews(Booking, q)' <=> InNews(Booking, q)
                             /\ \A b \in BOOLEAN : Told(Booking, q, b)' <=> Told(Booking, q, b)
                             /\ InQueue(pendingQ, q)' <=> InQueue(pendingQ, q)
                             /\ InQueue(redeemedQ, q)' <=> InQueue(redeemedQ, q)
    BY <1>6, <2>1 DEF InNews, Told, News, Booking, InQueue
  <2>4. SameWay(c) /\ SameNews(c)
    BY <1>3, <1>6, <2>1, <2>2, <2>3 DEF SameWay, SameNews
  <2>5. Judged(c)' <=> Judged(c)
    BY <1>3, <2>1, <2>3 DEF Judged
  <2>6. FillInv(c)'
    BY <1>3, <1>6, <2>1, <2>3 DEF FactsInv, FillInv
  <2>7. FactsInv(c)' /\ SameBooked(c)
    BY <1>3, <1>7, <2>1, <2>4, <2>5, <2>6, KeepWay, KeepNews DEF FactsInv
  <2>8. ASSUME NEW q \in Positions, q # c PROVE FactsInv(q)' /\ SameBooked(q)
    <3>1. Same(q)
      BY <1>2, <1>6, <2>1, <2>2, <2>3, <2>8, SameOthers
    <3>2. QED BY <3>1, KeepAll
  <2>9. QueuesInv'
    BY <1>6, <2>1 DEF QueuesInv, News, Booking, NewsOnce, NoTwice
  <2>10. QED BY <2>7, <2>8, <2>9
<1>9. ASSUME NEW won \in BOOLEAN, Tell("task", c, won), UNCHANGED <<status, redeems, tx, pendingQ>>,
             ~Judged(c), ~InNews(Booking, c), redeems[c] = IF won THEN 1 ELSE 0,
             ~AtTelling(c)', Submitted(c)' <=> Submitted(c), batch'["task"] \subseteq batch["task"],
             \/ at'["task"] \in {"idle", "marking", "judging"}
             \/ batch'["task"] = batch["task"]
      PROVE  QueuesInv' /\ \A p \in Positions : FactsInv(p)' /\ SameBooked(p)
  <2> DEFINE x == [pos |-> c, won |-> won]
  <2>1. x \in Settleds /\ x.pos = c /\ x.won = won
    BY <1>2 DEF Settleds
  <2>2. News' = Append(News, x) /\ Booking' = Append(Booking, x)
    BY <1>9 DEF Tell, News, Booking, TypeOK, Receivers
  <2> HIDE DEF x
  <2>3. /\ \A q : InNews(News, q)' <=> InNews(News, q) \/ q = c
        /\ \A q : InNews(Booking, q)' <=> InNews(Booking, q) \/ q = c
        /\ NewsOnce(News)' /\ NewsOnce(Booking)'
    BY <1>3, <1>9, <2>1, <2>2, AppendOnce DEF QueuesInv, Judged
  <2>4. \A q, b : Told(Booking, q, b)' => Told(Booking, q, b) \/ (q = c /\ b = won)
    BY <1>3, <2>1, <2>2, AppendNews
  <2>5. \A q \in Positions : /\ InQueue(pendingQ, q)' <=> InQueue(pendingQ, q)
                             /\ InQueue(redeemedQ, q)' <=> InQueue(redeemedQ, q)
    BY <1>6, <1>9 DEF InQueue
  <2>6. SameWay(c)
    BY <1>6, <1>9, <2>5 DEF SameWay
  <2>7. Judged(c)' /\ InNews(Booking, c)'
    BY <2>3 DEF Judged
  <2>8. \A b : ~Told(Booking, c, b)
    BY <1>3, <1>9, NewsTold
  <2>9. TellInv(c)'
    <3>1. Told(Booking, c, TRUE)' => won = TRUE
      BY <2>4, <2>8
    <3>2. Told(Booking, c, FALSE)' => won = FALSE
      BY <2>4, <2>8
    <3>3. QED BY <1>9, <2>7, <3>1, <3>2 DEF TellInv
  <2>10. FillInv(c)'
    BY <1>3, <1>6, <1>9 DEF FactsInv, FillInv
  <2>11. /\ ~SettledBooked(c) /\ ~SettledBooked(c)' /\ ~WinBooked(c) /\ ~WinBooked(c)'
    BY <1>9, <2>7 DEF SettledBooked, WinBooked
  <2>12. FactsInv(c)' /\ SameBooked(c)
    BY <1>3, <1>7, <1>9, <2>6, <2>9, <2>10, <2>11, KeepWay DEF FactsInv
  <2>13. ASSUME NEW q \in Positions, q # c PROVE FactsInv(q)' /\ SameBooked(q)
    <3>1. Same(q)
      BY <1>2, <1>6, <1>9, <2>3, <2>4, <2>5, <2>13, SameOthers
    <3>2. QED BY <3>1, KeepAll
  <2>14. QueuesInv'
    BY <1>6, <1>9, <2>3 DEF QueuesInv, NoTwice
  <2>15. QED BY <2>12, <2>13, <2>14
<1>10. CASE JudgeLost("task")
  <2>1. /\ UNCHANGED <<redeems, tx, status, pendingQ>> /\ GoOn("task")
        /\ Tell("task", c, FALSE) /\ at["task"] = "judging"
    BY <1>2, <1>10 DEF JudgeLost, relayerVars, storeVars
  <2>2. QED BY <1>3, <1>4, <1>9, <2>1
<1>11. CASE TellWon("task")
  <2>1. /\ UNCHANGED <<redeems, tx, status, pendingQ>> /\ StepTo("task", "handing")
        /\ Tell("task", c, TRUE) /\ at["task"] = "telling"
    BY <1>2, <1>11 DEF TellWon, relayerVars, storeVars
  <2>2. Submitted(c) /\ Submitted(c)' /\ AtTelling(c) /\ ~AtTelling(c)'
    BY <1>2, <1>5, <2>1 DEF Submitted, AtTelling
  <2>3. redeems[c] = 1
    BY <1>2, <2>2 DEF RedeemInv, TakenUp, Once
  <2>4. ~Judged(c) /\ ~InNews(Booking, c)
    BY <1>3, <2>2 DEF FactsInv, TellInv
  <2>5. QED BY <1>5, <1>9, <2>1, <2>2, <2>3, <2>4
<1>12. CASE Redeem("task")
  <2>1. PICK r \in Redemptions :
          /\ IF r.taken THEN /\ tx' = [tx EXCEPT ![c] = "pending"]
                             /\ redeems' = [redeems EXCEPT ![c] = @ + 1]
                        ELSE UNCHANGED relayerVars
          /\ IF r.told THEN StepTo("task", "telling") ELSE GoOn("task")
    BY <1>2, <1>12 DEF Redeem
  <2>2. /\ UNCHANGED <<status, settledNews, pendingQ>> /\ r.told = r.taken /\ r.told \in BOOLEAN
        /\ at["task"] = "judging"
    <3>1. UNCHANGED <<status, settledNews, pendingQ>> /\ at["task"] = "judging"
      BY <1>12 DEF Redeem, storeVars, newsVars
    <3>2. r = [taken |-> TRUE, told |-> TRUE] \/ r = [taken |-> FALSE, told |-> FALSE]
      BY DEF Redemptions, Survivable
    <3>3. r.told = r.taken /\ r.told \in BOOLEAN
      <4>1. CASE r = [taken |-> TRUE, told |-> TRUE]
        BY <4>1
      <4>2. CASE r = [taken |-> FALSE, told |-> FALSE]
        BY <4>2
      <4>3. QED BY <3>2, <4>1, <4>2
    <3>4. QED BY <3>1, <3>3
  <2>3. \A q \in Positions : /\ InNews(News, q)' <=> InNews(News, q)
                             /\ InNews(Booking, q)' <=> InNews(Booking, q)
                             /\ \A b \in BOOLEAN : Told(Booking, q, b)' <=> Told(Booking, q, b)
                             /\ InQueue(pendingQ, q)' <=> InQueue(pendingQ, q)
                             /\ InQueue(redeemedQ, q)' <=> InQueue(redeemedQ, q)
    BY <1>6, <2>2 DEF InNews, Told, News, Booking, InQueue
  <2>4. /\ batch'["task"] \subseteq batch["task"]
        /\ at'["task"] \in {"idle", "marking", "judging"} \/ batch'["task"] = batch["task"]
    BY <1>4, <1>5, <2>1, <2>2
  <2>5. \A q \in Positions : q # c => tx'[q] = tx[q] /\ redeems'[q] = redeems[q]
    BY <2>1 DEF TypeOK, relayerVars
  <2>6. ASSUME NEW q \in Positions, q # c PROVE FactsInv(q)' /\ SameBooked(q)
    <3>1. Same(q)
      BY <1>2, <1>6, <2>2, <2>3, <2>4, <2>5, <2>6, SameOthers
    <3>2. QED BY <3>1, KeepAll
  <2>7. QueuesInv'
    BY <1>6, <2>2 DEF QueuesInv, News, Booking, NewsOnce, NoTwice
  <2>8. CASE r.taken
    <3>1. /\ tx'[c] = "pending" /\ Submitted(c)' /\ AtTelling(c)' /\ redeems'[c] = 1
      BY <1>2, <1>3, <1>5, <2>1, <2>2, <2>8 DEF TypeOK, Submitted, AtTelling
    <3>2. ~Judged(c)' /\ ~InNews(Booking, c)'
      BY <1>3, <2>2, <2>3 DEF Judged
    <3>3. \A b \in BOOLEAN : ~Told(Booking, c, b)'
      BY <1>3, <2>2, <2>3, NewsTold
    <3>4. TellInv(c)'
      BY <3>1, <3>2, <3>3 DEF TellInv
    <3>5. WayInv(c)'
      <4>1. OnWay(c)' /\ ~InQueue(pendingQ, c)' /\ c \notin tracked' /\ ~InQueue(redeemedQ, c)'
        BY <1>3, <1>6, <2>2, <2>3, <3>1 DEF OnWay
      <4>2. confirming' # c
        BY <1>3, <1>6, <2>2 DEF FactsInv, WayInv
      <4>3. QED BY <3>1, <4>1, <4>2 DEF WayInv
    <3>6. FillInv(c)'
      BY <1>3, <1>6, <2>2, <2>3 DEF FactsInv, FillInv
    <3>7. /\ ~SettledBooked(c) /\ ~SettledBooked(c)' /\ ~WinBooked(c) /\ ~WinBooked(c)'
          /\ ~PayoutBooked(c) /\ ~PayoutBooked(c)' /\ status'[c] # "none"
      BY <1>3, <2>2, <3>1, <3>2 DEF SettledBooked, WinBooked, PayoutBooked
    <3>8. QED BY <1>7, <2>6, <2>7, <3>4, <3>5, <3>6, <3>7
  <2>9. CASE ~r.taken
    <3>1. /\ tx' = tx /\ redeems' = redeems /\ ~Submitted(c)' /\ ~AtTelling(c)'
          /\ batch'["task"] \subseteq batch["task"]
      BY <1>4, <2>1, <2>2, <2>9 DEF relayerVars
    <3>2. ~AtTelling(c) /\ ~Submitted(c)
      BY <1>3, <2>2 DEF AtTelling
    <3>3. Same(c)
      BY <1>6, <2>2, <2>3, <3>1, <3>2 DEF Same, SameWay, SameNews, SameFill
    <3>4. QED BY <1>3, <2>6, <2>7, <3>3, KeepAll
  <2>10. QED BY <2>8, <2>9, <2>2
<1>13. CASE HandOver("task")
  <2>1. /\ UNCHANGED <<redeems, tx, status, settledNews>> /\ GoOn("task")
        /\ pendingQ' = Append(pendingQ, c) /\ at["task"] = "handing"
    BY <1>2, <1>13 DEF HandOver, relayerVars, storeVars, newsVars, Survivable
  <2>2. \A q \in Positions : /\ InNews(News, q)' <=> InNews(News, q)
                             /\ InNews(Booking, q)' <=> InNews(Booking, q)
                             /\ \A b \in BOOLEAN : Told(Booking, q, b)' <=> Told(Booking, q, b)
                             /\ InQueue(redeemedQ, q)' <=> InQueue(redeemedQ, q)
    BY <1>6, <2>1 DEF InNews, Told, News, Booking, InQueue
  <2>3. Submitted(c) /\ ~Submitted(c)' /\ ~AtTelling(c) /\ ~AtTelling(c)'
    BY <1>2, <1>4, <2>1 DEF Submitted, AtTelling
  <2>4. /\ ~InQueue(pendingQ, c) /\ c \notin tracked /\ ~InQueue(redeemedQ, c)
        /\ tx[c] # "none" /\ OnWay(c)
    BY <1>3, <2>3 DEF FactsInv, WayInv, OnWay
  <2>5. /\ \A q : InQueue(pendingQ, q)' <=> InQueue(pendingQ, q) \/ q = c
        /\ NoTwice(pendingQ)'
    BY <1>3, <2>1, <2>4, AppendQueue DEF QueuesInv
  <2>6. WayInv(c)' /\ OnWay(c)'
    BY <1>3, <1>6, <2>1, <2>2, <2>3, <2>4, <2>5 DEF FactsInv, WayInv, OnWay
  <2>7. /\ SameNews(c) /\ (Judged(c)' <=> Judged(c)) /\ FillInv(c)'
        /\ PayoutBooked(c)' <=> PayoutBooked(c)
    BY <1>3, <1>4, <1>6, <2>1, <2>2, <2>3, <2>4, <2>6
    DEF SameNews, Judged, FactsInv, FillInv, PayoutBooked
  <2>8. FactsInv(c)' /\ SameBooked(c)
    BY <1>3, <1>7, <2>1, <2>6, <2>7, KeepNews DEF FactsInv
  <2>9. ASSUME NEW q \in Positions, q # c PROVE FactsInv(q)' /\ SameBooked(q)
    <3>1. Same(q)
      BY <1>2, <1>4, <1>6, <2>1, <2>2, <2>5, <2>9, SameOthers
    <3>2. QED BY <3>1, KeepAll
  <2>10. QueuesInv'
    BY <1>6, <2>1, <2>5 DEF QueuesInv, News, Booking, NewsOnce, NoTwice
  <2>11. QED BY <2>8, <2>9, <2>10
<1>14. QED BY <1>8, <1>10, <1>11, <1>12, <1>13 DEF SettleStep

\* The relayer ends a transaction, and the redeem poller follows it.
LEMMA BooksPollSteps ==
  ASSUME TypeOK, Survivable, QueuesInv, \A p \in Positions : FactsInv(p),
         \/ TrackPending \/ SendRedeemed
         \/ \E p \in Positions : TxEnds(p) \/ PollConfirmed(p) \/ PollOther(p)
  PROVE  QueuesInv' /\ \A p \in Positions : FactsInv(p)' /\ SameBooked(p)
<1>1. /\ UNCHANGED <<watched, fillNews, settledNews, redeems, at, batch>>
      /\ pendingQ \in Seq(Positions) /\ redeemedQ \in Seq(Positions)
  BY DEF TrackPending, SendRedeemed, TxEnds, PollConfirmed, PollOther, workVars, newsVars,
     relayerVars, TypeOK
<1>2. /\ NewsOnce(News)' /\ NewsOnce(Booking)'
      /\ \A q : /\ InNews(News, q)' <=> InNews(News, q)
                /\ InNews(Booking, q)' <=> InNews(Booking, q)
                /\ \A b : Told(Booking, q, b)' <=> Told(Booking, q, b)
                /\ Submitted(q)' <=> Submitted(q)
                /\ AtTelling(q)' <=> AtTelling(q)
  BY <1>1 DEF QueuesInv, NewsOnce, InNews, Told, News, Booking, Submitted, AtTelling, Current
<1>3. ASSUME NEW q \in Positions,
             \/ status'[q] = status[q]
             \/ status'[q] = "redeemed" /\ Judged(q) /\ status[q] \notin {"none", "submitted"},
             \/ tx'[q] = tx[q]
             \/ tx[q] = "pending" /\ tx'[q] # "none",
             OnWay(q)' => OnWay(q), WayInv(q)', PayoutBooked(q)' <=> PayoutBooked(q)
      PROVE  FactsInv(q)' /\ SameBooked(q)
  <2>1. FactsInv(q)
    OBVIOUS
  <2>2. Judged(q)' <=> Judged(q)
    BY <1>2, <1>3 DEF Judged
  <2>3. FillInv(q)' /\ (FillBooked(q)' <=> FillBooked(q))
    BY <1>1, <1>2, <1>3, <2>1 DEF FactsInv, FillInv, FillBooked
  <2>4. TellInv(q)'
    BY <1>1, <1>2, <1>3, <2>1, <2>2 DEF FactsInv, TellInv
  <2>5. /\ SettledBooked(q)' <=> SettledBooked(q)
        /\ WinBooked(q)' <=> WinBooked(q)
    BY <1>1, <1>2, <2>2 DEF SettledBooked, WinBooked
  <2>6. QED BY <1>3, <2>3, <2>4, <2>5 DEF FactsInv, SameBooked
<1>4. ASSUME NEW q \in Positions,
             \/ status'[q] = status[q]
             \/ status'[q] = "redeemed" /\ Judged(q) /\ status[q] \notin {"none", "submitted"},
             SameWay(q)
      PROVE  FactsInv(q)' /\ SameBooked(q)
  BY <1>3, <1>4, KeepWay DEF FactsInv, SameWay, OnWay
<1>5. CASE TrackPending
  <2>1. /\ pendingQ # <<>> /\ tracked' = tracked \cup {Head(pendingQ)} /\ pendingQ' = Tail(pendingQ)
        /\ UNCHANGED <<status, tx, redeemedQ, confirming>>
    BY <1>5 DEF TrackPending, storeVars, relayerVars
  <2>0. PICK p \in Positions : p = Head(pendingQ)
    BY <1>1, <2>1
  <2>2. /\ \A q : InQueue(pendingQ, q) <=> q = p \/ InQueue(pendingQ, q)'
        /\ NoTwice(pendingQ)' /\ ~InQueue(pendingQ, p)'
    BY <1>1, <2>0, <2>1, TailQueue DEF QueuesInv
  <2>3. \A q : q \in tracked' <=> q \in tracked \/ q = p
    BY <2>0, <2>1
  <2>4. NoTwice(redeemedQ)' /\ \A q : InQueue(redeemedQ, q)' <=> InQueue(redeemedQ, q)
    BY <2>1 DEF QueuesInv, NoTwice, InQueue
  <2>5. ASSUME NEW q \in Positions PROVE FactsInv(q)' /\ SameBooked(q)
    <3>1. FactsInv(q) /\ tx'[q] = tx[q] /\ status'[q] = status[q]
      BY <2>1
    <3>2. OnWay(q)' <=> OnWay(q)
      BY <1>2, <2>2, <2>3, <2>4 DEF OnWay
    <3>3. WayInv(q)'
      BY <1>2, <2>1, <2>2, <2>3, <2>4, <3>1, <3>2 DEF FactsInv, WayInv
    <3>4. PayoutBooked(q)' <=> PayoutBooked(q)
      BY <3>1, <3>2 DEF PayoutBooked
    <3>5. QED BY <1>3, <3>1, <3>2, <3>3, <3>4
  <2>6. QED BY <1>2, <2>2, <2>4, <2>5 DEF QueuesInv
<1>6. CASE SendRedeemed
  <2>1. /\ confirming # 0 /\ redeemedQ' = Append(redeemedQ, confirming)
        /\ tracked' = tracked \ {confirming} /\ confirming' = 0
        /\ UNCHANGED <<status, tx, pendingQ>>
    BY <1>6 DEF SendRedeemed, storeVars, relayerVars
  <2>0. PICK p \in Positions : p = confirming /\ p \in tracked
    BY <2>1 DEF TypeOK
  <2>2. p \in tracked /\ 0 \notin Positions
    BY <2>0 DEF Positions
  <2>3. /\ tx[p] = "confirmed" /\ ~InQueue(redeemedQ, p) /\ ~InQueue(pendingQ, p) /\ ~Submitted(p)
    BY <2>0 DEF FactsInv, WayInv
  <2>4. /\ NoTwice(redeemedQ)' /\ \A q : InQueue(redeemedQ, q)' <=> InQueue(redeemedQ, q) \/ q = p
    BY <1>1, <2>0, <2>1, <2>3, AppendQueue DEF QueuesInv
  <2>5. NoTwice(pendingQ)' /\ \A q : InQueue(pendingQ, q)' <=> InQueue(pendingQ, q)
    BY <2>1 DEF QueuesInv, NoTwice, InQueue
  <2>6. \A q : q \in tracked' <=> q \in tracked /\ q # p
    BY <2>0, <2>1
  <2>7. ASSUME NEW q \in Positions PROVE FactsInv(q)' /\ SameBooked(q)
    <3>1. FactsInv(q) /\ tx'[q] = tx[q] /\ status'[q] = status[q] /\ confirming' # q
      BY <2>1, <2>2
    <3>2. OnWay(q)' <=> OnWay(q)
      BY <1>2, <2>2, <2>4, <2>5, <2>6 DEF OnWay
    <3>3. WayInv(q)'
      BY <1>2, <2>3, <2>4, <2>5, <2>6, <3>1, <3>2 DEF FactsInv, WayInv
    <3>4. PayoutBooked(q)' <=> PayoutBooked(q)
      BY <3>1, <3>2 DEF PayoutBooked
    <3>5. QED BY <1>3, <3>1, <3>2, <3>3, <3>4
  <2>8. QED BY <1>2, <2>4, <2>5, <2>7 DEF QueuesInv
<1>7. ASSUME UNCHANGED <<pendingQ, redeemedQ>>
      PROVE  /\ NoTwice(redeemedQ)' /\ NoTwice(pendingQ)'
             /\ \A q : /\ InQueue(pendingQ, q)' <=> InQueue(pendingQ, q)
                       /\ InQueue(redeemedQ, q)' <=> InQueue(redeemedQ, q)
  BY <1>7 DEF QueuesInv, NoTwice, InQueue
<1>8. ASSUME NEW p \in Positions, TxEnds(p)
      PROVE  QueuesInv' /\ \A q \in Positions : FactsInv(q)' /\ SameBooked(q)
  <2>1. /\ tx[p] = "pending" /\ tx'[p] \in {"confirmed", "failed"}
        /\ \A q \in Positions : q # p => tx'[q] = tx[q]
        /\ UNCHANGED <<status, tracked, confirming, pendingQ, redeemedQ>>
    BY <1>8 DEF TxEnds, TypeOK, storeVars, pollerVars
  <2>2. ASSUME NEW q \in Positions PROVE FactsInv(q)' /\ SameBooked(q)
    <3>1. FactsInv(q) /\ status'[q] = status[q]
      BY <2>1
    <3>2. OnWay(q)' <=> OnWay(q)
      BY <1>2, <1>7, <2>1 DEF OnWay
    <3>3. tx'[q] = tx[q] \/ (tx[q] = "pending" /\ tx'[q] \in {"confirmed", "failed"})
      BY <2>1
    <3>4. WayInv(q)'
      BY <1>2, <1>7, <2>1, <3>1, <3>2, <3>3 DEF FactsInv, WayInv
    <3>5. PayoutBooked(q)' <=> PayoutBooked(q)
      BY <3>1, <3>2, <3>3 DEF PayoutBooked, FactsInv, WayInv
    <3>6. QED BY <1>3, <3>1, <3>2, <3>3, <3>4, <3>5
  <2>3. QED BY <1>2, <1>7, <2>1, <2>2 DEF QueuesInv
<1>9. ASSUME NEW p \in Positions, PollConfirmed(p)
      PROVE  QueuesInv' /\ \A q \in Positions : FactsInv(q)' /\ SameBooked(q)
  <2>1. /\ confirming = 0 /\ p \in todo /\ tx[p] = "confirmed" /\ confirming' = p
        /\ status' = [status EXCEPT ![p] = "redeemed"]
        /\ UNCHANGED <<tx, tracked, pendingQ, redeemedQ>>
    BY <1>9 DEF PollConfirmed, relayerVars, Survivable
  <2>2. /\ p \in tracked /\ status'[p] = "redeemed"
        /\ \A q \in Positions : q # p => status'[q] = status[q]
    BY <2>1 DEF TypeOK
  <2>3. Judged(p) /\ status[p] \notin {"none", "submitted"}
    <3>1. FactsInv(p) /\ ~AtTelling(p)
      BY <2>2 DEF FactsInv, WayInv, AtTelling, Submitted
    <3>2. Judged(p)
      BY <2>1, <3>1 DEF FactsInv, TellInv
    <3>3. QED BY <3>1, <3>2 DEF FactsInv, FillInv, Judged
  <2>4. ASSUME NEW q \in Positions PROVE FactsInv(q)' /\ SameBooked(q)
    <3>1. FactsInv(q) /\ tx'[q] = tx[q]
      BY <2>1
    <3>2. OnWay(q)' <=> OnWay(q)
      BY <1>2, <1>7, <2>1 DEF OnWay
    <3>3. WayInv(q)'
      BY <1>2, <1>7, <2>1, <3>1, <3>2 DEF FactsInv, WayInv
    <3>4. PayoutBooked(q)' <=> PayoutBooked(q)
      BY <3>1, <3>2 DEF PayoutBooked
    <3>5. QED BY <1>3, <2>2, <2>3, <3>1, <3>2, <3>3, <3>4
  <2>5. QED BY <1>2, <1>7, <2>1, <2>4 DEF QueuesInv
<1>10. ASSUME NEW p \in Positions, PollOther(p)
       PROVE  QueuesInv' /\ \A q \in Positions : FactsInv(q)' /\ SameBooked(q)
  <2>1. /\ confirming = 0 /\ p \in todo
        /\ \/ tx[p] = "failed" /\ tracked' = tracked \ {p}
           \/ UNCHANGED tracked
        /\ UNCHANGED <<tx, status, confirming, pendingQ, redeemedQ>>
    BY <1>10 DEF PollOther, relayerVars, storeVars
  <2>2. ASSUME NEW q \in Positions PROVE FactsInv(q)' /\ SameBooked(q)
    <3>1. FactsInv(q) /\ tx'[q] = tx[q] /\ status'[q] = status[q]
      BY <2>1
    <3>2. \/ OnWay(q)' <=> OnWay(q)
          \/ tx[q] = "failed" /\ (OnWay(q)' => OnWay(q))
      BY <1>2, <1>7, <2>1 DEF OnWay
    <3>3. q \in tracked' => q \in tracked
      BY <2>1
    <3>4. WayInv(q)'
      BY <1>2, <1>7, <2>1, <3>1, <3>2, <3>3 DEF FactsInv, WayInv
    <3>5. PayoutBooked(q)' <=> PayoutBooked(q)
      BY <3>1, <3>2 DEF PayoutBooked
    <3>6. QED BY <1>3, <3>1, <3>2, <3>4, <3>5
  <2>3. QED BY <1>2, <1>7, <2>1, <2>2 DEF QueuesInv
<1>11. QED BY <1>5, <1>6, <1>8, <1>9, <1>10

\* The store hears of a settlement.
LEMMA BooksPersistSettled ==
  ASSUME TypeOK, Survivable, QueuesInv, \A p \in Positions : FactsInv(p), PersistSettled
  PROVE  QueuesInv' /\ \A p \in Positions : FactsInv(p)' /\ SameBooked(p)
<1>1. PICK x \in Settleds :
        /\ GetSettled("persistence", x)
        /\ status' = [status EXCEPT ![x.pos] = IF x.won THEN "won" ELSE "lost"]
  BY DEF PersistSettled, Survivable
<1>2. UNCHANGED <<watched, fillNews, redeems, tx, at, batch, pendingQ, tracked, redeemedQ, confirming>>
  BY DEF PersistSettled, workVars, relayerVars, pollerVars
<1>3. PICK p \in Positions : p = x.pos
  BY DEF Settleds
<1>4. /\ News \in Seq(Settleds) /\ News # <<>> /\ x = Head(News) /\ News' = Tail(News)
      /\ Booking' = Booking
  BY <1>1 DEF GetSettled, News, Booking, TypeOK, Receivers
<1>5. /\ \A q : InNews(News, q) <=> q = p \/ InNews(News, q)'
      /\ NewsOnce(News)'
  BY <1>3, <1>4, TailOnce DEF QueuesInv
<1>6. /\ NewsOnce(Booking)' /\ NoTwice(pendingQ)' /\ NoTwice(redeemedQ)'
      /\ \A q : /\ InNews(Booking, q)' <=> InNews(Booking, q)
                /\ \A b : Told(Booking, q, b)' <=> Told(Booking, q, b)
                /\ InQueue(pendingQ, q)' <=> InQueue(pendingQ, q)
                /\ InQueue(redeemedQ, q)' <=> InQueue(redeemedQ, q)
                /\ Submitted(q)' <=> Submitted(q)
                /\ AtTelling(q)' <=> AtTelling(q)
  BY <1>2, <1>4
  DEF QueuesInv, NewsOnce, NoTwice, InNews, Told, InQueue, Submitted, AtTelling, Current
<1>7. /\ status'[p] \in {"won", "lost"}
      /\ \A q \in Positions : q # p => status'[q] = status[q]
  BY <1>1, <1>3 DEF TypeOK
<1>8. ASSUME NEW q \in Positions PROVE FactsInv(q)' /\ SameBooked(q)
  <2>1. FactsInv(q) /\ SameWay(q)
    BY <1>2, <1>6 DEF SameWay
  <2>2. Judged(q)' <=> Judged(q)
    BY <1>5, <1>7 DEF Judged
  <2>3. FillInv(q)' /\ (FillBooked(q)' <=> FillBooked(q))
    BY <1>2, <1>5, <1>7, <2>1 DEF FactsInv, FillInv, FillBooked
  <2>4. TellInv(q)' /\ (SettledBooked(q)' <=> SettledBooked(q)) /\ (WinBooked(q)' <=> WinBooked(q))
    BY <1>2, <1>6, <2>1, <2>2 DEF FactsInv, TellInv, SettledBooked, WinBooked
  <2>5. QED BY <2>1, <2>3, <2>4, KeepWay DEF FactsInv, SameBooked
<1>9. QED BY <1>5, <1>6, <1>8 DEF QueuesInv

\* What is booked as before adds up as before.
LEMMA SameMoney ==
  ASSUME MoneyInv, books' = books, \A p \in Positions : SameBooked(p)
  PROVE  MoneyInv'
<1>1. Fills' = Fills /\ Settlements' = Settlements /\ Wins' = Wins /\ Payouts' = Payouts
  BY DEF SameBooked, Fills, Settlements, Wins, Payouts
<1>2. QED BY <1>1 DEF MoneyInv

LEMMA BookedFinite ==
  ASSUME NEW S \in SUBSET Positions
  PROVE  IsFiniteSet(S)
<1>1. MaxPositions \in Int /\ 1 \in Int
  BY SettlementAssumption
<1>2. IsFiniteSet(Positions)
  BY <1>1, FS_Interval DEF Positions
<1>3. QED BY <1>2, FS_Subset

LEMMA BookedSets ==
  ASSUME NEW S \in SUBSET Positions
  PROVE  /\ Cardinality(S) \in Int
         /\ \A p \in Positions : p \notin S => Cardinality(S \cup {p}) = Cardinality(S) + 1
<1>1. IsFiniteSet(S)
  BY BookedFinite
<1>2. Cardinality(S) \in Nat
  BY <1>1, FS_CardinalityType
<1>3. \A p : p \notin S => Cardinality(S \cup {p}) = Cardinality(S) + 1
  BY <1>1, FS_AddElement
<1>4. QED BY <1>2, <1>3

LEMMA OneMore ==
  ASSUME NEW c \in Int, NEW a \in Int, NEW b \in Int
  PROVE  /\ c * a \in Int /\ c * (a + 1) = c * a + c
         /\ c * (a - b) \in Int
         /\ c * ((a + 1) - b) = c * (a - b) + c
         /\ c * (a - (b + 1)) = c * (a - b) - c
<1>1. c * (a + 1) = c * a + c
  OBVIOUS
<1>2. c * ((a - b) + 1) = c * (a - b) + c /\ (a + 1) - b = (a - b) + 1
  OBVIOUS
<1>3. c * ((a - b) - 1) = c * (a - b) - c /\ a - (b + 1) = (a - b) - 1
  OBVIOUS
<1>4. c * a \in Int /\ c * (a - b) \in Int
  OBVIOUS
<1>5. QED BY <1>1, <1>2, <1>3, <1>4

\* Two sets of positions without a common one.
LEMMA Together ==
  ASSUME NEW S \in SUBSET Positions, NEW T \in SUBSET Positions, S \cap T = {}
  PROVE  Cardinality(S \cup T) = Cardinality(S) + Cardinality(T)
<1>1. IsFiniteSet(S) /\ IsFiniteSet(T)
  BY BookedFinite
<1>2. /\ Cardinality(S \cup T) = Cardinality(S) + Cardinality(T) - Cardinality(S \cap T)
      /\ Cardinality(S) \in Nat /\ Cardinality(T) \in Nat
  BY <1>1, FS_Union, FS_CardinalityType
<1>3. Cardinality(S \cap T) = 0
  BY FS_EmptySet
<1>4. QED BY <1>2, <1>3

\* A fill booked moves its cost from the bankroll into play.
LEMMA BooksFill ==
  ASSUME TypeOK, BooksInv, NEW p \in Positions, BookFill(p)
  PROVE  BooksInv'
<1>1. /\ UNCHANGED <<status, watched, settledNews, tx, redeems, at, batch, pendingQ, tracked,
                     redeemedQ, confirming>>
      /\ p \in fillNews["bankroll"]
      /\ fillNews'["persistence"] = fillNews["persistence"]
      /\ fillNews'["bankroll"] = fillNews["bankroll"] \ {p}
      /\ books'.inPlay = books.inPlay + Cost
      /\ books'.bankroll = books.bankroll - Cost
      /\ books'.toRedeem = books.toRedeem
  BY DEF BookFill, GetFill, TypeOK, Receivers, storeVars, workVars, relayerVars, pollerVars
<1>2. QueuesInv'
  BY <1>1 DEF BooksInv, QueuesInv, News, Booking, NewsOnce, NoTwice
<1>3. ASSUME NEW q \in Positions
      PROVE  /\ FactsInv(q)' /\ (SettledBooked(q)' <=> SettledBooked(q))
             /\ WinBooked(q)' <=> WinBooked(q)
             /\ PayoutBooked(q)' <=> PayoutBooked(q)
             /\ FillBooked(q)' <=> FillBooked(q) \/ q = p
  <2>1. FactsInv(q)
    BY DEF BooksInv
  <2>2. SameWay(q) /\ SameNews(q) /\ (Judged(q)' <=> Judged(q))
    BY <1>1
    DEF SameWay, SameNews, Judged, Submitted, AtTelling, Current, InQueue, InNews, Told, News,
       Booking
  <2>3. FillInv(q)' /\ (FillBooked(q)' <=> FillBooked(q) \/ q = p)
    BY <1>1, <2>1, <2>2 DEF FactsInv, FillInv, FillBooked, SameNews
  <2>4. QED BY <2>1, <2>2, <2>3, KeepWay, KeepNews DEF FactsInv
<1>4. Settlements' = Settlements /\ Wins' = Wins /\ Payouts' = Payouts
  BY <1>3 DEF Settlements, Wins, Payouts
<1>5. Fills' = Fills \cup {p} /\ p \notin Fills
  BY <1>1, <1>3 DEF Fills, FillBooked
<1>6. PICK f \in Int, s \in Int, y \in Int :
        /\ f = Cardinality(Fills) /\ s = Cardinality(Settlements) /\ y = Cardinality(Payouts)
  BY BookedSets DEF Fills, Settlements, Payouts
<1>7. Cardinality(Fills') = f + 1 /\ Cardinality(Settlements') = s /\ Cardinality(Payouts') = y
  BY <1>4, <1>5, <1>6, BookedSets DEF Fills
<1>8. /\ Cost * ((f + 1) - s) = Cost * (f - s) + Cost
      /\ Cost * (f + 1) = Cost * f + Cost
      /\ Cost \in Int /\ Payout \in Int /\ Payout * y \in Int /\ Cost * f \in Int
      /\ books.inPlay \in Int /\ books.bankroll \in Int
  <2>1. Cost \in Int /\ Payout \in Int
    BY SettlementAssumption
  <2>2. books.inPlay \in Int /\ books.bankroll \in Int
    BY DEF TypeOK
  <2>3. /\ Cost * ((f + 1) - s) = Cost * (f - s) + Cost
        /\ Cost * (f + 1) = Cost * f + Cost /\ Cost * f \in Int
    BY <2>1, OneMore
  <2>4. Payout * y \in Int
    BY <2>1, OneMore
  <2>5. QED BY <2>1, <2>2, <2>3, <2>4
<1>9. MoneyInv'
  <2>1. books'.inPlay = Cost * (Cardinality(Fills') - Cardinality(Settlements'))
    BY <1>1, <1>6, <1>7, <1>8 DEF BooksInv, MoneyInv
  <2>2. books'.toRedeem = Payout * (Cardinality(Wins') - Cardinality(Payouts'))
    BY <1>1, <1>4 DEF BooksInv, MoneyInv
  <2>3. books'.bankroll = Payout * Cardinality(Payouts') - Cost * Cardinality(Fills')
    BY <1>1, <1>6, <1>7, <1>8 DEF BooksInv, MoneyInv
  <2>4. QED BY <2>1, <2>2, <2>3 DEF MoneyInv
<1>10. QED BY <1>2, <1>3, <1>9 DEF BooksInv

\* A settlement booked: the stake leaves play, a winner's payout is awaited.
LEMMA BooksSettlement ==
  ASSUME TypeOK, BooksInv, BookSettled
  PROVE  BooksInv'
<1>1. PICK x \in Settleds :
        /\ GetSettled("bankroll", x)
        /\ books' = [books EXCEPT !.inPlay = @ - Cost, !.toRedeem = @ + Proceeds(x.won)]
  BY DEF BookSettled
<1>2. PICK p \in Positions, won \in BOOLEAN : p = x.pos /\ won = x.won
  BY DEF Settleds
<1>3. /\ UNCHANGED <<status, watched, fillNews, tx, redeems, at, batch, pendingQ, tracked,
                     redeemedQ, confirming>>
      /\ Booking \in Seq(Settleds) /\ Booking # <<>> /\ x = Head(Booking) /\ Booking' = Tail(Booking)
      /\ News' = News
  BY <1>1 DEF BookSettled, GetSettled, News, Booking, TypeOK, Receivers, storeVars, workVars,
     relayerVars, pollerVars
<1>4. /\ \A q : InNews(Booking, q) <=> q = p \/ InNews(Booking, q)'
      /\ NewsOnce(Booking)' /\ ~InNews(Booking, p)'
  <2>1. NewsOnce(Booking)
    BY DEF BooksInv, QueuesInv
  <2>2. /\ \A q : InNews(Booking, q) <=> q = p \/ InNews(Tail(Booking), q)
        /\ NewsOnce(Tail(Booking)) /\ ~InNews(Tail(Booking), p)
    BY <1>2, <1>3, <2>1, TailOnce
  <2>3. QED BY <1>3, <2>2 DEF InNews, NewsOnce
<1>5. \A q, b : Told(Booking, q, b)' => Told(Booking, q, b)
  BY <1>3, TailNews
<1>6. Told(Booking, p, won)
  BY <1>2, <1>3, TailNews
<1>7. QueuesInv'
  BY <1>3, <1>4 DEF BooksInv, QueuesInv, NewsOnce, NoTwice
<1>8. /\ Judged(p) /\ InNews(Booking, p) /\ (redeems[p] = 1 <=> won)
  <2>1. TellInv(p) /\ InNews(Booking, p)
    BY <1>4 DEF BooksInv, FactsInv
  <2>2. CASE won = TRUE
    BY <1>6, <2>1, <2>2 DEF TellInv
  <2>3. CASE won = FALSE
    <3>1. Told(Booking, p, FALSE)
      BY <1>6, <2>3
    <3>2. redeems[p] = 0
      BY <2>1, <3>1 DEF TellInv
    <3>3. Judged(p)
      BY <2>1 DEF TellInv
    <3>4. QED BY <2>1, <2>3, <3>2, <3>3
  <2>4. QED BY <2>2, <2>3
<1>9. ASSUME NEW q \in Positions
      PROVE  /\ FactsInv(q)' /\ (FillBooked(q)' <=> FillBooked(q))
             /\ PayoutBooked(q)' <=> PayoutBooked(q)
             /\ SettledBooked(q)' <=> SettledBooked(q) \/ q = p
             /\ WinBooked(q)' <=> WinBooked(q) \/ (q = p /\ won)
  <2>1. FactsInv(q)
    BY DEF BooksInv
  <2>2. SameWay(q) /\ (Judged(q)' <=> Judged(q)) /\ (AtTelling(q)' <=> AtTelling(q))
    BY <1>3 DEF SameWay, Judged, Submitted, AtTelling, Current, InQueue, InNews
  <2>3. FillInv(q)' /\ (FillBooked(q)' <=> FillBooked(q))
    BY <1>3, <2>1 DEF FactsInv, FillInv, FillBooked, InNews
  <2>4. SettledBooked(q)' <=> SettledBooked(q) \/ q = p
    BY <1>4, <1>8, <2>2 DEF SettledBooked
  <2>5. WinBooked(q)' <=> WinBooked(q) \/ (q = p /\ won)
    BY <1>3, <1>8, <2>4 DEF WinBooked
  <2>6. TellInv(q)'
    BY <1>3, <1>4, <1>5, <2>1, <2>2 DEF FactsInv, TellInv
  <2>7. QED BY <2>1, <2>2, <2>3, <2>4, <2>5, <2>6, KeepWay DEF FactsInv
<1>10. /\ Fills' = Fills /\ Payouts' = Payouts
       /\ Settlements' = Settlements \cup {p} /\ p \notin Settlements /\ p \notin Wins
       /\ Wins' = IF won THEN Wins \cup {p} ELSE Wins
  BY <1>8, <1>9 DEF Fills, Payouts, Settlements, Wins, SettledBooked, WinBooked
<1>11. PICK f \in Int, s \in Int, w \in Int, y \in Int :
         /\ f = Cardinality(Fills) /\ s = Cardinality(Settlements)
         /\ w = Cardinality(Wins) /\ y = Cardinality(Payouts)
  BY BookedSets DEF Fills, Settlements, Wins, Payouts
<1>12. /\ Cardinality(Fills') = f /\ Cardinality(Settlements') = s + 1
       /\ Cardinality(Payouts') = y
       /\ Cardinality(Wins') = IF won THEN w + 1 ELSE w
  BY <1>10, <1>11, BookedSets DEF Settlements, Wins
<1>13. /\ Cost \in Int /\ Payout \in Int /\ books.inPlay \in Int /\ books.toRedeem \in Int
       /\ books'.inPlay = books.inPlay - Cost
       /\ books'.toRedeem = books.toRedeem + (IF won THEN Payout ELSE 0)
       /\ books'.bankroll = books.bankroll
  BY <1>1, <1>2, SettlementAssumption DEF TypeOK, Proceeds
<1>14. /\ Cost * (f - (s + 1)) = Cost * (f - s) - Cost
       /\ Payout * ((w + 1) - y) = Payout * (w - y) + Payout
       /\ Payout * (w - y) \in Int
  BY <1>13, OneMore
<1>15. MoneyInv'
  <2>1. books'.inPlay = Cost * (Cardinality(Fills') - Cardinality(Settlements'))
    BY <1>11, <1>12, <1>13, <1>14 DEF BooksInv, MoneyInv
  <2>2. books'.toRedeem = Payout * (Cardinality(Wins') - Cardinality(Payouts'))
    <3>1. books.toRedeem = Payout * (w - y)
      BY <1>11 DEF BooksInv, MoneyInv
    <3>2. CASE won
      BY <1>12, <1>13, <1>14, <3>1, <3>2
    <3>3. CASE ~won
      BY <1>12, <1>13, <1>14, <3>1, <3>3
    <3>4. QED BY <3>2, <3>3
  <2>3. books'.bankroll = Payout * Cardinality(Payouts') - Cost * Cardinality(Fills')
    BY <1>10, <1>13 DEF BooksInv, MoneyInv
  <2>4. QED BY <2>1, <2>2, <2>3 DEF MoneyInv
<1>16. QED BY <1>7, <1>9, <1>15 DEF BooksInv

\* A redemption booked: the payout comes into the bankroll.
LEMMA BooksRedemption ==
  ASSUME TypeOK, BooksInv, BookRedeemed
  PROVE  BooksInv'
<1>1. /\ UNCHANGED <<status, watched, fillNews, settledNews, tx, redeems, at, batch, pendingQ,
                     tracked, confirming>>
      /\ redeemedQ \in Seq(Positions) /\ redeemedQ # <<>> /\ redeemedQ' = Tail(redeemedQ)
      /\ Cost \in Int /\ Payout \in Int /\ books.bankroll \in Int /\ books.toRedeem \in Int
      /\ books'.inPlay = books.inPlay
      /\ books'.toRedeem = books.toRedeem - Payout
      /\ books'.bankroll = books.bankroll + Payout
  BY SettlementAssumption
  DEF BookRedeemed, TypeOK, storeVars, newsVars, workVars, relayerVars, pollerVars
<1>2. PICK p \in Positions : p = Head(redeemedQ)
  BY <1>1
<1>3. /\ \A q : InQueue(redeemedQ, q) <=> q = p \/ InQueue(redeemedQ, q)'
      /\ NoTwice(redeemedQ)' /\ ~InQueue(redeemedQ, p)'
  <2>1. NoTwice(redeemedQ)
    BY DEF BooksInv, QueuesInv
  <2>2. /\ \A q : InQueue(redeemedQ, q) <=> q = p \/ InQueue(Tail(redeemedQ), q)
        /\ NoTwice(Tail(redeemedQ)) /\ ~InQueue(Tail(redeemedQ), p)
    BY <1>1, <1>2, <2>1, TailQueue
  <2>3. QED BY <1>1, <2>2 DEF InQueue, NoTwice
<1>4. QueuesInv'
  BY <1>1, <1>3 DEF BooksInv, QueuesInv, News, Booking, NewsOnce, NoTwice
<1>5. FactsInv(p) /\ InQueue(redeemedQ, p)
  BY <1>3 DEF BooksInv
<1>6. ASSUME NEW q \in Positions
      PROVE  /\ FactsInv(q)' /\ (FillBooked(q)' <=> FillBooked(q))
             /\ SettledBooked(q)' <=> SettledBooked(q)
             /\ WinBooked(q)' <=> WinBooked(q)
             /\ PayoutBooked(q)' <=> PayoutBooked(q) \/ q = p
  <2>1. FactsInv(q)
    BY DEF BooksInv
  <2>2. SameNews(q) /\ (Judged(q)' <=> Judged(q)) /\ (Submitted(q)' <=> Submitted(q))
    BY <1>1 DEF SameNews, Judged, Submitted, AtTelling, Current, InNews, Told, News, Booking
  <2>3. FillInv(q)' /\ (FillBooked(q)' <=> FillBooked(q))
    BY <1>1, <2>1, <2>2 DEF FactsInv, FillInv, FillBooked, SameNews
  <2>4. InQueue(pendingQ, q)' <=> InQueue(pendingQ, q)
    BY <1>1 DEF InQueue
  <2>5. OnWay(q)' <=> OnWay(q) /\ q # p
    BY <1>1, <1>3, <1>5, <2>2, <2>4 DEF OnWay, FactsInv, WayInv
  <2>6. WayInv(q)' /\ (PayoutBooked(q)' <=> PayoutBooked(q) \/ q = p)
    BY <1>1, <1>3, <1>5, <2>1, <2>2, <2>4, <2>5 DEF FactsInv, WayInv, PayoutBooked
  <2>7. QED BY <2>1, <2>2, <2>3, <2>6, KeepNews DEF FactsInv
<1>7. /\ Fills' = Fills /\ Settlements' = Settlements /\ Wins' = Wins
      /\ Payouts' = Payouts \cup {p} /\ p \notin Payouts
  BY <1>5, <1>6 DEF Fills, Payouts, Settlements, Wins, PayoutBooked, OnWay
<1>8. PICK f \in Int, w \in Int, y \in Int :
        f = Cardinality(Fills) /\ w = Cardinality(Wins) /\ y = Cardinality(Payouts)
  BY BookedSets DEF Fills, Wins, Payouts
<1>9. Cardinality(Fills') = f /\ Cardinality(Wins') = w /\ Cardinality(Payouts') = y + 1
  BY <1>7, <1>8, BookedSets DEF Payouts
<1>10. /\ Payout * (w - (y + 1)) = Payout * (w - y) - Payout
       /\ Payout * (y + 1) = Payout * y + Payout
       /\ Payout * y \in Int /\ Cost * f \in Int
  BY <1>1, OneMore
<1>11. MoneyInv'
  <2>1. books'.inPlay = Cost * (Cardinality(Fills') - Cardinality(Settlements'))
    BY <1>1, <1>7 DEF BooksInv, MoneyInv
  <2>2. books'.toRedeem = Payout * (Cardinality(Wins') - Cardinality(Payouts'))
    BY <1>1, <1>8, <1>9, <1>10 DEF BooksInv, MoneyInv
  <2>3. books'.bankroll = Payout * Cardinality(Payouts') - Cost * Cardinality(Fills')
    <3>1. books.bankroll = Payout * y - Cost * f
      BY <1>8 DEF BooksInv, MoneyInv
    <3>2. PICK m \in Int, n \in Int, k \in Int : m = Payout * y /\ n = Cost * f /\ k = Payout * (y + 1)
      BY <1>10, <1>1
    <3>3. books'.bankroll = k - n
      BY <1>1, <1>10, <3>1, <3>2
    <3>4. QED BY <1>9, <3>2, <3>3
  <2>4. QED BY <2>1, <2>2, <2>3 DEF MoneyInv
<1>12. QED BY <1>4, <1>6, <1>11 DEF BooksInv

LEMMA InitBooks == Init => BooksInv
<1> SUFFICES ASSUME Init PROVE BooksInv
  OBVIOUS
<1>1. /\ News = <<>> /\ Booking = <<>> /\ pendingQ = <<>> /\ redeemedQ = <<>>
      /\ at["task"] = "idle" /\ tracked = {} /\ confirming = 0
      /\ watched = {} /\ fillNews["persistence"] = {} /\ fillNews["bankroll"] = {}
      /\ batch["task"] = {}
      /\ \A p \in Positions : status[p] = "none" /\ redeems[p] = 0 /\ tx[p] = "none" /\ p # 0
  BY DEF Init, News, Booking, Receivers, Workers, Positions
<1>2. /\ QueuesInv
      /\ \A p : /\ ~InNews(News, p) /\ ~InNews(Booking, p) /\ ~InQueue(pendingQ, p)
                /\ ~InQueue(redeemedQ, p) /\ ~Submitted(p) /\ ~AtTelling(p)
                /\ \A b : ~Told(Booking, p, b)
  BY <1>1 DEF QueuesInv, NewsOnce, NoTwice, InNews, InQueue, Told, Submitted, AtTelling
<1>3. ASSUME NEW p \in Positions
      PROVE  /\ FactsInv(p) /\ ~FillBooked(p) /\ ~SettledBooked(p) /\ ~WinBooked(p) /\ ~PayoutBooked(p)
  <2>1. ~Judged(p) /\ ~OnWay(p)
    BY <1>1, <1>2 DEF Judged, OnWay
  <2>2. QED BY <1>1, <1>2, <2>1 DEF FactsInv, FillInv, TellInv, WayInv, FillBooked, SettledBooked,
            WinBooked, PayoutBooked
<1>4. Fills = {} /\ Settlements = {} /\ Wins = {} /\ Payouts = {}
  BY <1>3 DEF Fills, Settlements, Wins, Payouts
<1>5. Cardinality({}) = 0
  BY FS_EmptySet
<1>6. /\ books.bankroll = 0 /\ books.inPlay = 0 /\ books.toRedeem = 0
      /\ Cost * (0 - 0) = 0 /\ Payout * (0 - 0) = 0 /\ Payout * 0 - Cost * 0 = 0
  BY SettlementAssumption DEF Init, NoBooks
<1>7. MoneyInv
  BY <1>4, <1>5, <1>6 DEF MoneyInv
<1>8. QED BY <1>2, <1>3, <1>7 DEF BooksInv

\* Every step of the bot keeps the books: with none of its restarts, the recovery tool's
\* markets or the failures they do not survive.
LEMMA BooksStep ==
  ASSUME MaxToolRuns = 0, MaxCrashes = 0, Survivable
  PROVE  TypeOK /\ WorkInv /\ RedeemInv /\ BooksInv /\ [Next]_vars => BooksInv'
<1> SUFFICES ASSUME TypeOK, WorkInv, RedeemInv, BooksInv, [Next]_vars PROVE BooksInv'
  OBVIOUS
<1>0. QueuesInv /\ MoneyInv /\ \A p \in Positions : FactsInv(p)
  BY DEF BooksInv
<1>1. ~StartTool /\ ~Crash
  <2>1. toolRuns = 0 /\ crashes = 0
    BY DEF TypeOK
  <2>2. QED BY <2>1 DEF StartTool, Crash
<1>2. ~SettleStep("tool")
  BY DEF RedeemInv, SettleStep, MarkSettling, JudgeLost, Redeem, TellWon, HandOver
<1>3. ASSUME QueuesInv' /\ \A p \in Positions : FactsInv(p)' /\ SameBooked(p), books' = books
      PROVE  BooksInv'
  BY <1>0, <1>3, SameMoney DEF BooksInv
<1>4. CASE RotateMarket \/ TakeCutoff \/ StartRedeemTick \/ EndRedeemTick \/ Finished \/ UNCHANGED vars
  <2>1. UNCHANGED <<status, watched, fillNews, settledNews, tx, redeems, at, batch, pendingQ,
                    tracked, redeemedQ, confirming, books>>
    BY <1>4 DEF RotateMarket, TakeCutoff, StartRedeemTick, EndRedeemTick, Finished, vars, workVars,
       storeVars, newsVars, relayerVars, pollerVars
  <2>2. QED BY <1>0, <1>3, <2>1, BooksQuiet
<1>5. CASE PositionOpens \/ \E p \in Positions : PositionFills(p) \/ PersistFill(p)
  <2>1. books' = books
    BY <1>5 DEF PositionOpens, PositionFills, PersistFill
  <2>2. QED BY <1>0, <1>3, <1>5, <2>1, BooksOrderSteps
<1>6. CASE TakeResolved
  <2>1. books' = books
    BY <1>6 DEF TakeResolved
  <2>2. QED BY <1>0, <1>3, <1>6, <2>1, BooksTakes
<1>7. CASE SettleStep("task")
  <2>1. books' = books
    BY <1>7 DEF SettleStep, MarkSettling, JudgeLost, Redeem, TellWon, HandOver
  <2>2. QED BY <1>0, <1>3, <1>7, <2>1, BooksTaskSteps
<1>8. CASE \/ TrackPending \/ SendRedeemed
           \/ \E p \in Positions : TxEnds(p) \/ PollConfirmed(p) \/ PollOther(p)
  <2>1. books' = books
    BY <1>8 DEF TrackPending, SendRedeemed, TxEnds, PollConfirmed, PollOther
  <2>2. QED BY <1>0, <1>3, <1>8, <2>1, BooksPollSteps
<1>9. CASE PersistSettled
  <2>1. books' = books
    BY <1>9 DEF PersistSettled
  <2>2. QED BY <1>0, <1>3, <1>9, <2>1, BooksPersistSettled
<1>10. CASE BookSettled \/ BookRedeemed \/ \E p \in Positions : BookFill(p)
  BY <1>10, BooksFill, BooksSettlement, BooksRedemption
<1>11. QED BY <1>1, <1>2, <1>4, <1>5, <1>6, <1>7, <1>8, <1>9, <1>10 DEF Next, RedeemPoller, Workers

\* The bot alone, not restarted: what the bankroll has booked is what the rows, the
\* transactions and the messages under way say it has heard of (bankroll.rs 36-71).
THEOREM BooksInvariance ==
  ASSUME MaxToolRuns = 0, MaxCrashes = 0, Survivable
  PROVE  Spec => []BooksInv
<1>1. TypeOK /\ WorkInv /\ RedeemInv /\ BooksInv /\ [Next]_vars => BooksInv'
  BY BooksStep
<1>2. Spec => []RedeemInv
  BY RedeemInvariance
<1>3. QED BY <1>1, <1>2, InitBooks, TypeCorrect, PTL DEF Spec

\* Once every task has caught up, the three amounts of the bankroll are those the rows of
\* the store and the transactions on chain add up to (bankroll.rs 36-71, state.rs 168-181).
THEOREM BooksMatch ==
  ASSUME MaxToolRuns = 0, MaxCrashes = 0, Survivable
  PROVE  Spec => []BooksMatchChain
<1>1. TypeOK /\ RedeemInv /\ BooksInv => BooksMatchChain
  <2> DEFINE Rows(S) == {p \in Positions : status[p] \in S}
             Txs(S) == {p \in Positions : tx[p] \in S}
             Unredeemed == {p \in Positions : status[p] \in {"filled", "settling"} /\ tx[p] = "none"}
             Entered == Rows(RowStatuses \ {"none", "submitted"})
  <2>1. SUFFICES ASSUME TypeOK, RedeemInv, BooksInv, CaughtUp
                 PROVE  /\ books.inPlay = Cost * Cardinality(Unredeemed)
                        /\ books.toRedeem = Payout * Cardinality(Txs({"pending", "failed"}))
                        /\ books.bankroll = Payout * Cardinality(Txs({"confirmed"}))
                                              - Cost * Cardinality(Entered)
    BY DEF BooksMatchChain
  <2>2. /\ News = <<>> /\ Booking = <<>> /\ pendingQ = <<>> /\ redeemedQ = <<>>
        /\ fillNews["persistence"] = {} /\ fillNews["bankroll"] = {}
        /\ at["task"] \in {"idle", "marking"} /\ \A p \in tracked : tx[p] # "confirmed"
    BY <2>1 DEF CaughtUp, Receivers, News, Booking
  <2>3. \A p : /\ ~InNews(News, p) /\ ~InNews(Booking, p) /\ ~Submitted(p) /\ ~AtTelling(p)
               /\ OnWay(p) <=> p \in tracked
    BY <2>2 DEF InNews, Submitted, AtTelling, OnWay, InQueue
  <2>4. ASSUME NEW p \in Positions
        PROVE  /\ status[p] \in RowStatuses /\ tx[p] \in TxStates
               /\ FillBooked(p) <=> status[p] \notin {"none", "submitted"}
               /\ SettledBooked(p) <=> status[p] \in {"won", "lost", "redeemed"}
               /\ WinBooked(p) <=> tx[p] # "none"
               /\ PayoutBooked(p) <=> tx[p] = "confirmed"
    <3>1. FactsInv(p) /\ ChainAgrees(p) /\ status[p] \in RowStatuses /\ tx[p] \in TxStates
          /\ redeems[p] \in Nat
      BY <2>1 DEF BooksInv, RedeemInv, TypeOK
    <3>2. FillBooked(p) <=> status[p] \notin {"none", "submitted"}
      BY <2>2, <3>1 DEF FactsInv, FillInv, FillBooked
    <3>3. Judged(p) <=> status[p] \in {"won", "lost", "redeemed"}
      BY <2>3 DEF Judged
    <3>4. SettledBooked(p) <=> Judged(p)
      BY <2>3 DEF SettledBooked
    <3>5. WinBooked(p) <=> tx[p] # "none"
      <4>1. redeems[p] = 1 <=> tx[p] # "none"
        BY <3>1 DEF ChainAgrees
      <4>2. tx[p] # "none" => Judged(p)
        BY <2>3, <3>1 DEF FactsInv, TellInv
      <4>3. QED BY <3>4, <4>1, <4>2 DEF WinBooked
    <3>6. PayoutBooked(p) <=> tx[p] = "confirmed"
      BY <2>2, <2>3 DEF PayoutBooked
    <3>7. QED BY <3>1, <3>2, <3>3, <3>4, <3>5, <3>6
  <2>5. Fills = Entered /\ Payouts = Txs({"confirmed"})
    BY <2>4 DEF Fills, Payouts
  <2>6. /\ Fills = Settlements \cup Unredeemed /\ Settlements \cap Unredeemed = {}
    <3>1. ASSUME NEW p \in Positions
          PROVE  /\ FillBooked(p) <=> SettledBooked(p) \/ p \in Unredeemed
                 /\ ~(SettledBooked(p) /\ p \in Unredeemed)
      <4>1. tx[p] # "none" => SettledBooked(p)
        BY <2>4 DEF WinBooked
      <4>2. QED BY <2>4, <4>1 DEF RowStatuses
    <3>2. QED BY <3>1 DEF Fills, Settlements
  <2>7. /\ Wins = Payouts \cup Txs({"pending", "failed"}) /\ Payouts \cap Txs({"pending", "failed"}) = {}
    BY <2>4 DEF Wins, Payouts, TxStates
  <2>8. /\ Cardinality(Fills) = Cardinality(Settlements) + Cardinality(Unredeemed)
        /\ Cardinality(Wins) = Cardinality(Payouts) + Cardinality(Txs({"pending", "failed"}))
    <3>1. /\ Settlements \in SUBSET Positions /\ Unredeemed \in SUBSET Positions
          /\ Payouts \in SUBSET Positions /\ Txs({"pending", "failed"}) \in SUBSET Positions
      BY DEF Settlements, Payouts
    <3>2. QED BY <2>6, <2>7, <3>1, Together
  <2>9. /\ Cardinality(Settlements) \in Int /\ Cardinality(Unredeemed) \in Int
        /\ Cardinality(Payouts) \in Int /\ Cardinality(Txs({"pending", "failed"})) \in Int
    BY BookedSets DEF Settlements, Payouts
  <2> HIDE DEF Unredeemed, Txs, Entered
  <2>10. /\ Cardinality(Fills) - Cardinality(Settlements) = Cardinality(Unredeemed)
         /\ Cardinality(Wins) - Cardinality(Payouts) = Cardinality(Txs({"pending", "failed"}))
    BY <2>8, <2>9
  <2>11. QED BY <2>1, <2>5, <2>10 DEF BooksInv, MoneyInv
<1>2. Spec => []RedeemInv
  BY RedeemInvariance
<1>3. Spec => []BooksInv
  BY BooksInvariance
<1>4. QED BY <1>1, <1>2, <1>3, TypeCorrect, PTL
=============================================================================
