----------------------------- MODULE Settlement -----------------------------
(***************************************************************************)
(* What becomes of a filled position: market_rotation_task tells           *)
(* settlement_task of every cutoff and resolution over a lossless channel, *)
(* settle_market_positions judges the positions and redeems the winners,   *)
(* redeem_status_poller_task waits for the relayer, and persistence_task   *)
(* and bankroll_task book the outcome.  pm-recover-settlements runs the    *)
(* same settle_market_positions in a process of its own, without channels. *)
(*                                                                         *)
(* Money is counted in one position's stake: a fill costs Cost, a winner   *)
(* pays Payout.  A winner's name is left out: pays[p] says whether the     *)
(* outcome p bought is the one the market pays for.                        *)
(***************************************************************************)
EXTENDS MarketWatch, Integers, Sequences, FiniteSets

CONSTANTS MaxPositions, \* bound: rows of the store, ids 1..MaxPositions
          LifecycleCap, \* capacity of the lifecycle channel (16)
          PendingCap,   \* capacity of the channel of submitted redemptions (16)
          RedeemedCap,  \* capacity of the channel of confirmed redemptions (16)
          Cost, Payout, \* of one position
          MaxToolRuns,  \* bound: markets the recovery tool settles
          MaxCrashes,   \* bound: restarts of the bot
          Faults        \* the failures that may happen, out of FaultKinds

\* query: store.open_positions fails.  update: store.update_position fails.
\* redeem: client.redeem fails.  lostReceipt: it fails although the relayer took
\* the transaction.  noTxId: the relayer's answer names no transaction.
\* poll: client.redemption_status fails.  txFails: the transaction fails on chain.
FaultKinds == {"query", "update", "redeem", "lostReceipt", "noTxId", "poll", "txFails"}

ASSUME SettlementAssumption ==
  /\ MaxPositions \in Nat
  /\ LifecycleCap \in Nat \ {0} /\ PendingCap \in Nat \ {0} /\ RedeemedCap \in Nat \ {0}
  /\ Cost \in Nat /\ Payout \in Nat
  /\ MaxToolRuns \in Nat /\ MaxCrashes \in Nat
  /\ Faults \subseteq FaultKinds

VARIABLES
  lifecycle,   \* lifecycle channel, rotation to settlement
  cutoffPrice, \* settlement_task: slug whose price was captured at its cutoff, 0 for None
  at,          \* where each run of settle_market_positions stands
  verdict,     \* its winner: TRUE when it is the outcome the market pays for
  batch,       \* its rows still to be settled
  status,      \* store: status column
  slugOf,      \* store: market_slug column, 0 while there is no row
  pays,        \* store: whether the row's outcome is the one that pays
  watched,     \* order path: positions whose order is still watched
  fillNews,    \* Filled messages under way to each receiver
  settledNews, \* settled broadcast, as each receiver still sees it
  tx,          \* relayer: latest redemption transaction of each position
  redeems,     \* relayer: redemptions submitted for each position
  pendingQ,    \* channel of submitted redemptions, settlement to the poller
  tracked,     \* redeem poller: positions whose transaction it polls
  polling,     \* redeem poller: inside a tick
  todo,        \* redeem poller: tracked positions this tick has yet to poll
  confirming,  \* redeem poller: position whose Redeemed it is sending, 0 for none
  redeemedQ,   \* channel of confirmed redemptions, poller to bankroll
  books,       \* bankroll: change since the start, in play, about to be redeemed
  toolRuns,    \* history: markets the recovery tool took up so far
  crashes      \* history: restarts so far

workVars == <<at, verdict, batch>>
storeVars == <<status, slugOf, pays>>
newsVars == <<watched, fillNews, settledNews>>
relayerVars == <<tx, redeems>>
pollerVars == <<tracked, polling, todo, confirming>>
histVars == <<toolRuns, crashes>>
vars == <<rotationVars, lifecycle, cutoffPrice, workVars, storeVars, newsVars,
          relayerVars, pendingQ, pollerVars, redeemedQ, books, histVars>>

Positions == 1..MaxPositions
\* The two runs of settle_market_positions: the bot's task and the offline tool.
Workers == {"task", "tool"}
Steps == {"idle", "marking", "judging", "telling", "handing"}
Receivers == {"persistence", "bankroll"}
RowStatuses == {"none", "submitted", "filled", "settling", "won", "lost", "redeemed"}
TxStates == {"none", "pending", "confirmed", "failed"}
Events == [kind : {"cutoff", "resolved"}, slug : Rounds, known : BOOLEAN]
Settleds == [pos : Positions, won : BOOLEAN]

TypeOK ==
  /\ MarketTypeOK
  /\ lifecycle \in Seq(Events) /\ Len(lifecycle) <= LifecycleCap
  /\ cutoffPrice \in 0..MaxRounds
  /\ at \in [Workers -> Steps]
  /\ verdict \in [Workers -> BOOLEAN]
  /\ batch \in [Workers -> SUBSET Positions]
  /\ status \in [Positions -> RowStatuses]
  /\ slugOf \in [Positions -> 0..MaxRounds]
  /\ pays \in [Positions -> BOOLEAN]
  /\ watched \subseteq Positions
  /\ fillNews \in [Receivers -> SUBSET Positions]
  /\ settledNews \in [Receivers -> Seq(Settleds)]
  /\ tx \in [Positions -> TxStates]
  /\ redeems \in [Positions -> Nat]
  /\ pendingQ \in Seq(Positions) /\ Len(pendingQ) <= PendingCap
  /\ tracked \subseteq Positions
  /\ polling \in BOOLEAN
  /\ todo \subseteq tracked
  /\ confirming \in {0} \cup tracked
  /\ redeemedQ \in Seq(Positions) /\ Len(redeemedQ) <= RedeemedCap
  /\ books \in [bankroll : Int, inPlay : Int, toRedeem : Int]
  /\ toolRuns \in 0..MaxToolRuns /\ crashes \in 0..MaxCrashes

NoBooks == [bankroll |-> 0, inPlay |-> 0, toRedeem |-> 0]

Init ==
  /\ MarketInit
  /\ lifecycle = <<>> /\ cutoffPrice = 0
  /\ at = [w \in Workers |-> "idle"]
  /\ verdict = [w \in Workers |-> TRUE]
  /\ batch = [w \in Workers |-> {}]
  /\ status = [p \in Positions |-> "none"]
  /\ slugOf = [p \in Positions |-> 0]
  /\ pays = [p \in Positions |-> FALSE]
  /\ watched = {} /\ fillNews = [r \in Receivers |-> {}]
  /\ settledNews = [r \in Receivers |-> <<>>]
  /\ tx = [p \in Positions |-> "none"]
  /\ redeems = [p \in Positions |-> 0]
  /\ pendingQ = <<>> /\ redeemedQ = <<>>
  /\ tracked = {} /\ polling = FALSE /\ todo = {} /\ confirming = 0
  /\ books = NoBooks
  /\ toolRuns = 0 /\ crashes = 0

-----------------------------------------------------------------------------
(* market_rotation_task: the steps of run_round, with what it tells settlement. *)

\* emit_lifecycle waits for room in the channel.
Emit(kind, slug, known) ==
  /\ Len(lifecycle) < LifecycleCap
  /\ lifecycle' = Append(lifecycle, [kind |-> kind, slug |-> slug, known |-> known])

\* A market resolved already is settled at once.  The catalog's answer may lack the
\* winning outcome.  No market is begun twice: MarketRotation's ResolvedInOrder, for a
\* catalog that closes no market before its window has ended.
RoundBegins ==
  /\ BeginRound
  /\ market'.slug >= round
  /\ IF market'.status = "Resolved"
     THEN \E known \in BOOLEAN : Emit("resolved", market'.slug, known)
     ELSE UNCHANGED lifecycle

RoundAdvances ==
  \/ (OpenTrading \/ StartResolving \/ PublishPrefetched \/ SkipPrefetched)
       /\ UNCHANGED lifecycle
  \/ CutoffTrading /\ Emit("cutoff", round, FALSE)
  \/ ConfirmResolved /\ \E known \in BOOLEAN : Emit("resolved", round, known)

RotateMarket ==
  /\ RoundBegins \/ RoundAdvances
  /\ UNCHANGED <<cutoffPrice, workVars, storeVars, newsVars, relayerVars, pendingQ,
                 pollerVars, redeemedQ, books, histVars>>

-----------------------------------------------------------------------------
(* The order path, as settlement sees it: rows come and are filled. *)

\* A row is inserted for the market in force.
PositionOpens ==
  /\ market.slug # 0
  /\ \E p \in Positions, b \in BOOLEAN :
       /\ status[p] = "none" /\ \A q \in Positions : q < p => status[q] # "none"
       /\ status' = [status EXCEPT ![p] = "submitted"]
       /\ slugOf' = [slugOf EXCEPT ![p] = market.slug]
       /\ pays' = [pays EXCEPT ![p] = b]
       /\ watched' = watched \cup {p}
  /\ UNCHANGED <<rotationVars, lifecycle, cutoffPrice, workVars, fillNews, settledNews,
                 relayerVars, pendingQ, pollerVars, redeemedQ, books, histVars>>

\* Its order is matched, however late, and Filled is broadcast.
PositionFills(p) ==
  /\ p \in watched
  /\ watched' = watched \ {p}
  /\ fillNews' = [r \in Receivers |-> fillNews[r] \cup {p}]
  /\ UNCHANGED <<rotationVars, lifecycle, cutoffPrice, workVars, storeVars, settledNews,
                 relayerVars, pendingQ, pollerVars, redeemedQ, books, histVars>>

-----------------------------------------------------------------------------
(* settlement_task *)

Take(e) == lifecycle # <<>> /\ e = Head(lifecycle) /\ lifecycle' = Tail(lifecycle)

\* The price of the market is captured, if a tick from before its close is cached
\* (PriceTicks has the ticks and the cache).
TakeCutoff ==
  /\ at["task"] = "idle"
  /\ \E e \in Events : /\ Take(e) /\ e.kind = "cutoff"
                       /\ cutoffPrice' \in {0, e.slug}
  /\ UNCHANGED <<rotationVars, workVars, storeVars, newsVars, relayerVars, pendingQ,
                 pollerVars, redeemedQ, books, histVars>>

\* MUTANT of SettleRows: the rows of every market are taken.
SettleRowsAnyMarket(slug) == {p \in Positions : status[p] \in {"filled", "settling"}}

\* The rows settle_market_positions takes from open_positions.
SettleRows(slug) ==
  {p \in Positions : status[p] \in {"filled", "settling"} /\ slugOf[p] = slug}

\* settle_market_positions starts on a market, its winner known: v says rightly.
Settle(w, slug, v) ==
  \E rows \in {SettleRows(slug)} \cup (IF "query" \in Faults THEN {{}} ELSE {}) :
    /\ batch' = [batch EXCEPT ![w] = rows]
    /\ verdict' = [verdict EXCEPT ![w] = v]
    /\ at' = [at EXCEPT ![w] = IF rows = {} THEN "idle" ELSE "marking"]

\* MUTANT of TakeResolved: the captured price is read and not taken.
TakeResolvedKeepsPrice ==
  /\ at["task"] = "idle"
  /\ \E e \in Events :
       /\ Take(e) /\ e.kind = "resolved"
       /\ \/ e.known /\ Settle("task", e.slug, TRUE)
          \/ ~e.known /\ \E v \in BOOLEAN : Settle("task", e.slug, v)
          \/ ~e.known /\ UNCHANGED workVars
  /\ UNCHANGED <<rotationVars, cutoffPrice, storeVars, newsVars, relayerVars, pendingQ,
                 pollerVars, redeemedQ, books, histVars>>

\* The winner is the one the catalog names, else the one a price says, rightly or not: the
\* captured price, else what the tick cache still has, against the strike.  With no price or
\* no strike, nothing is settled.
TakeResolved ==
  /\ at["task"] = "idle"
  /\ \E e \in Events :
       /\ Take(e) /\ e.kind = "resolved"
       /\ \/ e.known /\ Settle("task", e.slug, TRUE)
          \/ ~e.known /\ \E v \in BOOLEAN : Settle("task", e.slug, v)
          \/ ~e.known /\ UNCHANGED workVars
  /\ cutoffPrice' = 0
  /\ UNCHANGED <<rotationVars, storeVars, newsVars, relayerVars, pendingQ, pollerVars,
                 redeemedQ, books, histVars>>

-----------------------------------------------------------------------------
(* settle_market_positions, row by row in the order of their ids.  Both runs of it   *)
(* are the same code; only the bot's has the channels.                               *)

Current(w) == CHOOSE p \in batch[w] : \A q \in batch[w] : p <= q

GoOn(w) ==
  LET rest == batch[w] \ {Current(w)} IN
    /\ batch' = [batch EXCEPT ![w] = rest]
    /\ at' = [at EXCEPT ![w] = IF rest = {} THEN "idle" ELSE "marking"]
    /\ UNCHANGED verdict

StepTo(w, s) == at' = [at EXCEPT ![w] = s] /\ UNCHANGED <<verdict, batch>>

\* Settling is written before anything else is done; a row that cannot be marked is
\* skipped.
MarkSettling(w) ==
  /\ at[w] = "marking"
  /\ \/ status' = [status EXCEPT ![Current(w)] = "settling"] /\ StepTo(w, "judging")
     \/ "update" \in Faults /\ UNCHANGED status /\ GoOn(w)
  /\ UNCHANGED <<rotationVars, lifecycle, cutoffPrice, slugOf, pays, newsVars, relayerVars,
                 pendingQ, pollerVars, redeemedQ, books, histVars>>

Won(w, p) == pays[p] = verdict[w]

\* The settled broadcast, for the run that has one.
Tell(w, p, won) ==
  settledNews' = IF w = "task"
                 THEN [r \in Receivers |-> Append(settledNews[r], [pos |-> p, won |-> won])]
                 ELSE settledNews

\* MUTANT of JudgeLost: nobody is told of a loss.
JudgeLostQuietly(w) ==
  /\ at[w] = "judging" /\ ~Won(w, Current(w))
  /\ GoOn(w)
  /\ UNCHANGED <<rotationVars, lifecycle, cutoffPrice, storeVars, newsVars, relayerVars,
                 pendingQ, pollerVars, redeemedQ, books, histVars>>

JudgeLost(w) ==
  /\ at[w] = "judging" /\ ~Won(w, Current(w))
  /\ Tell(w, Current(w), FALSE)
  /\ GoOn(w)
  /\ UNCHANGED <<rotationVars, lifecycle, cutoffPrice, storeVars, watched, fillNews, relayerVars,
                 pendingQ, pollerVars, redeemedQ, books, histVars>>

\* What client.redeem may come to: the relayer takes the transaction and says so; an error
\* before it does, in the encoding, the nonce, the signing or the submission; an error in
\* reading the answer of a relayer that did.
Redemptions ==
  {[taken |-> TRUE, told |-> TRUE]}
    \cup (IF "redeem" \in Faults THEN {[taken |-> FALSE, told |-> FALSE]} ELSE {})
    \cup (IF "lostReceipt" \in Faults THEN {[taken |-> TRUE, told |-> FALSE]} ELSE {})

\* A winner whose redemption fails is left in Settling.
Redeem(w) ==
  LET p == Current(w)
  IN /\ at[w] = "judging" /\ Won(w, p)
     /\ \E r \in Redemptions :
          /\ IF r.taken THEN /\ tx' = [tx EXCEPT ![p] = "pending"]
                            /\ redeems' = [redeems EXCEPT ![p] = @ + 1]
                       ELSE UNCHANGED relayerVars
          /\ IF r.told THEN StepTo(w, "telling") ELSE GoOn(w)
     /\ UNCHANGED <<rotationVars, lifecycle, cutoffPrice, storeVars, newsVars, pendingQ,
                    pollerVars, redeemedQ, books, histVars>>

TellWon(w) ==
  /\ at[w] = "telling"
  /\ Tell(w, Current(w), TRUE)
  /\ StepTo(w, "handing")
  /\ UNCHANGED <<rotationVars, lifecycle, cutoffPrice, storeVars, watched, fillNews, relayerVars,
                 pendingQ, pollerVars, redeemedQ, books, histVars>>

\* MUTANT of HandOver: the transaction goes in whatever room there is.
HandOverAnyway(w) ==
  /\ at[w] = "handing"
  /\ pendingQ' = IF w = "task" THEN Append(pendingQ, Current(w)) ELSE pendingQ
  /\ GoOn(w)
  /\ UNCHANGED <<rotationVars, lifecycle, cutoffPrice, storeVars, newsVars, relayerVars,
                 pollerVars, redeemedQ, books, histVars>>

\* The transaction is handed to the redeem poller, waiting for room; without the
\* channel, or without a transaction id, it is not.
HandOver(w) ==
  /\ at[w] = "handing"
  /\ \/ /\ w = "task" /\ Len(pendingQ) < PendingCap
        /\ pendingQ' = Append(pendingQ, Current(w))
     \/ w = "tool" /\ UNCHANGED pendingQ
     \/ "noTxId" \in Faults /\ UNCHANGED pendingQ
  /\ GoOn(w)
  /\ UNCHANGED <<rotationVars, lifecycle, cutoffPrice, storeVars, newsVars, relayerVars,
                 pollerVars, redeemedQ, books, histVars>>

\* pm-recover-settlements --apply takes up a market the catalog calls resolved and
\* knows the winner of.
StartTool ==
  /\ at["tool"] = "idle"
  /\ toolRuns < MaxToolRuns
  /\ toolRuns' = toolRuns + 1
  /\ \E r \in Rounds :
       /\ r < round \/ (r = round /\ phase \in {"cutoff", "resolving", "prefetch"})
       /\ SettleRows(r) # {}
       /\ Settle("tool", r, TRUE)
  /\ UNCHANGED <<rotationVars, lifecycle, cutoffPrice, storeVars, newsVars, relayerVars,
                 pendingQ, pollerVars, redeemedQ, books, crashes>>

-----------------------------------------------------------------------------
(* The relayer and the chain, as MarketClient shows them.  External. *)

TxEnds(p) ==
  /\ tx[p] = "pending"
  /\ \E s \in {"confirmed"} \cup (IF "txFails" \in Faults THEN {"failed"} ELSE {}) :
       tx' = [tx EXCEPT ![p] = s]
  /\ UNCHANGED <<rotationVars, lifecycle, cutoffPrice, workVars, storeVars, newsVars, redeems,
                 pendingQ, pollerVars, redeemedQ, books, histVars>>

-----------------------------------------------------------------------------
(* redeem_status_poller_task *)

TrackPending ==
  /\ ~polling
  /\ pendingQ # <<>>
  /\ tracked' = tracked \cup {Head(pendingQ)}
  /\ pendingQ' = Tail(pendingQ)
  /\ UNCHANGED <<rotationVars, lifecycle, cutoffPrice, workVars, storeVars, newsVars,
                 relayerVars, polling, todo, confirming, redeemedQ, books, histVars>>

StartRedeemTick ==
  /\ ~polling
  /\ tracked # {}
  /\ polling' = TRUE /\ todo' = tracked
  /\ UNCHANGED <<rotationVars, lifecycle, cutoffPrice, workVars, storeVars, newsVars,
                 relayerVars, pendingQ, tracked, confirming, redeemedQ, books, histVars>>

\* MUTANT of PollConfirmed: any transaction that has ended counts as confirmed.
PollConfirmedOnEnd(p) ==
  /\ polling /\ confirming = 0 /\ p \in todo
  /\ tx[p] \in {"confirmed", "failed"}
  /\ todo' = todo \ {p} /\ confirming' = p
  /\ status' = [status EXCEPT ![p] = "redeemed"]
  /\ UNCHANGED <<rotationVars, lifecycle, cutoffPrice, workVars, slugOf, pays, newsVars,
                 relayerVars, pendingQ, tracked, polling, redeemedQ, books, histVars>>

\* Redeemed is written to the store, then sent; a failed write does not stop it.
PollConfirmed(p) ==
  /\ polling /\ confirming = 0 /\ p \in todo
  /\ tx[p] = "confirmed"
  /\ todo' = todo \ {p} /\ confirming' = p
  /\ \/ status' = [status EXCEPT ![p] = "redeemed"]
     \/ "update" \in Faults /\ UNCHANGED status
  /\ UNCHANGED <<rotationVars, lifecycle, cutoffPrice, workVars, slugOf, pays, newsVars,
                 relayerVars, pendingQ, tracked, polling, redeemedQ, books, histVars>>

SendRedeemed ==
  /\ confirming # 0
  /\ Len(redeemedQ) < RedeemedCap
  /\ redeemedQ' = Append(redeemedQ, confirming)
  /\ tracked' = tracked \ {confirming}
  /\ confirming' = 0
  /\ UNCHANGED <<rotationVars, lifecycle, cutoffPrice, workVars, storeVars, newsVars,
                 relayerVars, pendingQ, polling, todo, books, histVars>>

\* A failed transaction is dropped; one still pending, or an error, leaves it tracked.
PollOther(p) ==
  /\ polling /\ confirming = 0 /\ p \in todo
  /\ todo' = todo \ {p}
  /\ \/ tx[p] = "failed" /\ tracked' = tracked \ {p}
     \/ tx[p] = "pending" /\ UNCHANGED tracked
     \/ "poll" \in Faults /\ UNCHANGED tracked
  /\ UNCHANGED <<rotationVars, lifecycle, cutoffPrice, workVars, storeVars, newsVars,
                 relayerVars, pendingQ, polling, confirming, redeemedQ, books, histVars>>

EndRedeemTick ==
  /\ polling /\ confirming = 0 /\ todo = {}
  /\ polling' = FALSE
  /\ UNCHANGED <<rotationVars, lifecycle, cutoffPrice, workVars, storeVars, newsVars,
                 relayerVars, pendingQ, tracked, todo, confirming, redeemedQ, books, histVars>>

-----------------------------------------------------------------------------
(* persistence_task and bankroll_task.  Each picks among its channels as it likes. *)

GetFill(r, p) == /\ p \in fillNews[r]
                 /\ fillNews' = [fillNews EXCEPT ![r] = @ \ {p}]

GetSettled(r, s) == /\ settledNews[r] # <<>> /\ s = Head(settledNews[r])
                    /\ settledNews' = [settledNews EXCEPT ![r] = Tail(@)]

PersistFill(p) ==
  /\ GetFill("persistence", p)
  /\ \/ status' = [status EXCEPT ![p] = "filled"]
     \/ "update" \in Faults /\ UNCHANGED status
  /\ UNCHANGED <<rotationVars, lifecycle, cutoffPrice, workVars, slugOf, pays, watched, settledNews,
                 relayerVars, pendingQ, pollerVars, redeemedQ, books, histVars>>

PersistSettled ==
  /\ \E s \in Settleds :
       /\ GetSettled("persistence", s)
       /\ \/ status' = [status EXCEPT ![s.pos] = IF s.won THEN "won" ELSE "lost"]
          \/ "update" \in Faults /\ UNCHANGED status
  /\ UNCHANGED <<rotationVars, lifecycle, cutoffPrice, workVars, slugOf, pays, watched, fillNews,
                 relayerVars, pendingQ, pollerVars, redeemedQ, books, histVars>>

BookFill(p) ==
  /\ GetFill("bankroll", p)
  /\ books' = [books EXCEPT !.inPlay = @ + Cost, !.bankroll = @ - Cost]
  /\ UNCHANGED <<rotationVars, lifecycle, cutoffPrice, workVars, storeVars, watched, settledNews,
                 relayerVars, pendingQ, pollerVars, redeemedQ, histVars>>

\* MUTANT of Proceeds: the profit is booked without the stake that comes back.
ProceedsProfitOnly(won) == IF won THEN Payout - Cost ELSE 0

\* cost + realized_pnl, which is all of a winner's payout and nothing of a loser's.
Proceeds(won) == IF won THEN Payout ELSE 0

BookSettled ==
  /\ \E s \in Settleds :
       /\ GetSettled("bankroll", s)
       /\ books' = [books EXCEPT !.inPlay = @ - Cost, !.toRedeem = @ + Proceeds(s.won)]
  /\ UNCHANGED <<rotationVars, lifecycle, cutoffPrice, workVars, storeVars, watched, fillNews,
                 relayerVars, pendingQ, pollerVars, redeemedQ, histVars>>

BookRedeemed ==
  /\ redeemedQ # <<>>
  /\ redeemedQ' = Tail(redeemedQ)
  /\ books' = [books EXCEPT !.bankroll = @ + Payout, !.toRedeem = @ - Payout]
  /\ UNCHANGED <<rotationVars, lifecycle, cutoffPrice, workVars, storeVars, newsVars,
                 relayerVars, pendingQ, pollerVars, histVars>>

-----------------------------------------------------------------------------
\* The bot dies and is started again at the next window: its tasks and channels start
\* afresh, and the bankroll is read from the exchange anew.
Crash ==
  /\ crashes < MaxCrashes
  /\ crashes' = crashes + 1
  /\ market' = NoMarket /\ phase' = "resolve"
  /\ round' = IF phase = "resolve" THEN round ELSE round + 1
  /\ lifecycle' = <<>> /\ cutoffPrice' = 0
  /\ at' = [at EXCEPT !["task"] = "idle"]
  /\ batch' = [batch EXCEPT !["task"] = {}]
  /\ verdict' = [verdict EXCEPT !["task"] = TRUE]
  /\ watched' = {} /\ fillNews' = [r \in Receivers |-> {}]
  /\ settledNews' = [r \in Receivers |-> <<>>]
  /\ pendingQ' = <<>> /\ redeemedQ' = <<>>
  /\ tracked' = {} /\ polling' = FALSE /\ todo' = {} /\ confirming' = 0
  /\ books' = NoBooks
  /\ UNCHANGED <<storeVars, relayerVars, toolRuns>>

\* The rounds of the model are over and everything told has been acted on.
Finished ==
  /\ phase = "resolve" /\ round = MaxRounds + 1
  /\ lifecycle = <<>> /\ pendingQ = <<>> /\ redeemedQ = <<>>
  /\ \A w \in Workers : at[w] = "idle"
  /\ \A r \in Receivers : fillNews[r] = {} /\ settledNews[r] = <<>>
  /\ tracked = {} /\ ~polling
  /\ UNCHANGED vars

SettleStep(w) == MarkSettling(w) \/ JudgeLost(w) \/ Redeem(w) \/ TellWon(w) \/ HandOver(w)

RedeemPoller == \/ TrackPending \/ StartRedeemTick \/ SendRedeemed \/ EndRedeemTick
                \/ \E p \in Positions : PollConfirmed(p) \/ PollOther(p)

Next == \/ RotateMarket
        \/ PositionOpens \/ \E p \in Positions : PositionFills(p)
        \/ TakeCutoff \/ TakeResolved \/ StartTool
        \/ \E w \in Workers : SettleStep(w)
        \/ \E p \in Positions : TxEnds(p)
        \/ RedeemPoller
        \/ \E p \in Positions : PersistFill(p) \/ BookFill(p)
        \/ PersistSettled \/ BookSettled \/ BookRedeemed
        \/ Crash
        \/ Finished

Spec == Init /\ [][Next]_vars

\* Every task is polled by the runtime until it waits and select! is fair to its arms.
\* Nothing is assumed of the market, the order path, the relayer or the operator.
Fairness ==
  /\ WF_vars(TakeCutoff \/ TakeResolved)
  /\ \A w \in Workers : WF_vars(SettleStep(w))
  /\ WF_vars(TrackPending)
  /\ WF_vars(StartRedeemTick \/ SendRedeemed \/ EndRedeemTick
             \/ \E p \in Positions : PollConfirmed(p) \/ PollOther(p))
  /\ WF_vars(PersistSettled) /\ WF_vars(BookSettled) /\ WF_vars(BookRedeemed)

FairSpec == Spec /\ Fairness

-----------------------------------------------------------------------------
(* Properties *)

\* However rounds, restarts and failures fall, a position's redemption is submitted
\* at most once (settlement.rs 83-192).
RedeemOnce == \A p \in Positions : redeems[p] <= 1

\* What the store says of a position is what happened on chain: a row is Redeemed only
\* once its transaction is confirmed, Won only if one was submitted, and Lost only if
\* none was (settlement.rs 120-191, redeem_status_poller.rs 51-77, persistence.rs 53-91).
StoreMatchesChain ==
  \A p \in Positions :
    /\ status[p] = "redeemed" => tx[p] = "confirmed"
    /\ status[p] = "won" => redeems[p] > 0
    /\ status[p] = "lost" => redeems[p] = 0

\* A market is never resolved on the price captured at another market's cutoff
\* (settlement.rs 207, 236-247).
PriceIsOfMarket ==
  lifecycle # <<>> /\ Head(lifecycle).kind = "resolved"
    => cutoffPrice \in {0, Head(lifecycle).slug}

\* Nothing the bankroll has yet to hear of is under way.
CaughtUp ==
  /\ at["task"] \in {"idle", "marking"}
  /\ \A r \in Receivers : fillNews[r] = {} /\ settledNews[r] = <<>>
  /\ pendingQ = <<>> /\ redeemedQ = <<>>
  /\ \A p \in tracked : tx[p] # "confirmed"

\* Once every task has caught up, the three amounts of the bankroll are those the rows
\* of the store and the transactions on chain add up to (bankroll.rs 36-71,
\* state.rs 168-181).
BooksMatchChain ==
  LET Rows(S) == Cardinality({p \in Positions : status[p] \in S})
      Txs(S) == Cardinality({p \in Positions : tx[p] \in S})
      Unredeemed == {p \in Positions : status[p] \in {"filled", "settling"} /\ tx[p] = "none"}
  IN CaughtUp =>
       /\ books.inPlay = Cost * Cardinality(Unredeemed)
       /\ books.toRedeem = Payout * Txs({"pending", "failed"})
       /\ books.bankroll = Payout * Txs({"confirmed"})
                           - Cost * Rows(RowStatuses \ {"none", "submitted"})

\* A position the bot's settlement has taken up is eventually judged in the store,
\* whatever room the channels have and whatever the recovery tool does to it meanwhile
\* (settlement.rs 106-193, redeem_status_poller.rs 28-95, persistence.rs 53-91).
SettlingIsJudged ==
  \A p \in Positions :
    at["task"] = "judging" /\ p = Current("task") ~> status[p] \in {"won", "lost", "redeemed"}

-----------------------------------------------------------------------------
(* What comments of the code say, and the code does not do. *)

\* The row's status moves by PositionState's table (state.rs 110, 119-130).
Lifecycle == INSTANCE PositionLifecycle
StatusFollowsLifecycle == Lifecycle!Spec
=============================================================================
