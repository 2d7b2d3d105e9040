----------------------------- MODULE OrderPath -----------------------------
(***************************************************************************)
(* The path of an order through the bot: decision_center_task sends an     *)
(* intent, executor_task places it on the exchange, order_status_poller    *)
(* watches it, and the order-update broadcast carries its verdict to       *)
(* persistence_task (the store) and bankroll_task.  The market watch is    *)
(* MarketWatch's; the slot watch and both receivers' change flags are here.*)
(* One action is what a task does between two awaits.                      *)
(***************************************************************************)
EXTENDS MarketWatch, Sequences, FiniteSets

CONSTANTS MaxPositions, \* bound: rows inserted, ids 1..MaxPositions
          IntentCap,    \* capacity of the intent channel (8)
          UpdateCap,    \* capacity of the order-update broadcast (64)
          MaxCrashes,   \* bound: restarts of the process
          Faults        \* the failures that may happen, out of FaultKinds

\* insert: store.insert_position fails.  update: store.update_position fails.
\* query: store.open_positions fails.  poll: client.order_status fails.
\* lostReply: place_order fails although the exchange took the order.
\* lag: a receiver falls more than UpdateCap messages behind the broadcast.
FaultKinds == {"insert", "update", "query", "poll", "lostReply", "lag"}

ASSUME OrderPathAssumption ==
  /\ MaxPositions \in Nat
  /\ IntentCap \in Nat \ {0}
  /\ UpdateCap \in Nat \ {0}
  /\ MaxCrashes \in Nat
  /\ Faults \subseteq FaultKinds

VARIABLES
  marketChanged, \* executor: market_rx has a version it has not seen
  deciding,      \* decision center: slug of the market being sized, 0 when idle
  intents,       \* intent channel: the slug each intent was priced on
  slot,          \* slot watch: 0 is Empty, p is Pending{p}
  slotChanged,   \* poller: slot_rx has a version it has not seen
  step,          \* executor: where it stands in the intent arm
  order,         \* executor: the position it is placing, 0 for none
  orderMarket,   \* executor: slug of the market the intent was admitted on
  lastId,        \* store: ids handed out so far
  status,        \* store: status column
  recorded,      \* store: whether order_id is set
  slugOf,        \* store: market_slug column, 0 while there is no row
  exchange,      \* exchange: state of each position's order
  awaiting,      \* poller: positions whose order_id is not known yet
  tracked,       \* poller: positions polled on each tick
  polling,       \* poller: inside a tick
  todo,          \* poller: tracked positions this tick has yet to poll
  updates,       \* order-update broadcast, as each receiver still sees it
  fills,         \* bankroll: fills booked for each position
  claimed,       \* history: positions that claimed the slot since its last reset
  crashes        \* history: restarts so far

decisionVars == <<deciding, intents>>
executorVars == <<marketChanged, slot, step, order, orderMarket, claimed>>
storeVars == <<lastId, status, recorded, slugOf>>
pollerVars == <<slotChanged, awaiting, tracked, polling, todo>>
vars == <<rotationVars, decisionVars, executorVars, storeVars, pollerVars,
          exchange, updates, fills, crashes>>

Positions == 1..MaxPositions
Receivers == {"persistence", "bankroll"}
Steps == {"select", "inserting", "placing", "recording", "rejecting"}
RowStatuses == {"none", "submitted", "filled", "rejected", "cancelled"}
OrderStates == {"none", "live", "matched", "unmatched", "canceled"}
FinalStates == {"matched", "unmatched", "canceled"}
UpdateKinds == {"submitted", "filled", "rejected", "cancelled"}
Verdicts == {"filled", "rejected", "cancelled"}
Updates == [pos : Positions, kind : UpdateKinds]

DecisionTypeOK == deciding \in 0..MaxRounds /\ intents \in Seq(Rounds)

ExecutorTypeOK ==
  /\ marketChanged \in BOOLEAN
  /\ slot \in 0..MaxPositions
  /\ step \in Steps
  /\ order \in 0..MaxPositions
  /\ orderMarket \in 0..MaxRounds
  /\ claimed \subseteq Positions

StoreTypeOK ==
  /\ lastId \in 0..MaxPositions
  /\ status \in [Positions -> RowStatuses]
  /\ recorded \in [Positions -> BOOLEAN]
  /\ slugOf \in [Positions -> 0..MaxRounds]

PollerTypeOK ==
  /\ slotChanged \in BOOLEAN
  /\ awaiting \subseteq Positions
  /\ tracked \subseteq Positions
  /\ polling \in BOOLEAN
  /\ todo \subseteq tracked

TypeOK ==
  /\ MarketTypeOK /\ DecisionTypeOK /\ ExecutorTypeOK /\ StoreTypeOK /\ PollerTypeOK
  /\ exchange \in [Positions -> OrderStates]
  /\ updates \in [Receivers -> Seq(Updates)]
  /\ fills \in [Positions -> Nat]
  /\ crashes \in 0..MaxCrashes

Init ==
  /\ MarketInit
  /\ marketChanged = FALSE
  /\ deciding = 0 /\ intents = <<>>
  /\ slot = 0 /\ slotChanged = FALSE /\ claimed = {}
  /\ step = "select" /\ order = 0 /\ orderMarket = 0
  /\ lastId = 0
  /\ status = [p \in Positions |-> "none"]
  /\ recorded = [p \in Positions |-> FALSE]
  /\ slugOf = [p \in Positions |-> 0]
  /\ exchange = [p \in Positions |-> "none"]
  /\ awaiting = {} /\ tracked = {} /\ polling = FALSE /\ todo = {}
  /\ updates = [r \in Receivers |-> <<>>]
  /\ fills = [p \in Positions |-> 0]
  /\ crashes = 0

-----------------------------------------------------------------------------
(* market_rotation_task: a send on the watch marks it changed for the executor. *)

PublishMarket ==
  /\ Publish
  /\ marketChanged' = TRUE
  /\ UNCHANGED <<decisionVars, slot, step, order, orderMarket, claimed,
                 storeVars, pollerVars, exchange, updates, fills, crashes>>

PrefetchFails ==
  /\ SkipPrefetched
  /\ UNCHANGED <<decisionVars, executorVars, storeVars, pollerVars, exchange,
                 updates, fills, crashes>>

-----------------------------------------------------------------------------
(* decision_center_task: the slot and the market are read first, the book  *)
(* cache and the bankroll behind two awaits, and only then the intent goes *)
(* out.                                                                    *)

StartDecision ==
  /\ deciding = 0
  /\ slot = 0
  /\ market.slug # 0 /\ market.status = "Open"
  /\ deciding' = market.slug
  /\ UNCHANGED <<rotationVars, intents, executorVars, storeVars, pollerVars,
                 exchange, updates, fills, crashes>>

\* try_send: an intent that finds the channel full is dropped.
SendIntent ==
  /\ deciding # 0
  /\ intents' = IF Len(intents) < IntentCap THEN Append(intents, deciding)
                                            ELSE intents
  /\ deciding' = 0
  /\ UNCHANGED <<rotationVars, executorVars, storeVars, pollerVars, exchange,
                 updates, fills, crashes>>

\* No ask in the cache, an ask of 0.95 or more, or a size of zero.
Hold ==
  /\ deciding # 0
  /\ deciding' = 0
  /\ UNCHANGED <<rotationVars, intents, executorVars, storeVars, pollerVars,
                 exchange, updates, fills, crashes>>

-----------------------------------------------------------------------------
(* executor_task *)

\* What is left of a receiver's queue when u is sent: the oldest message gives way
\* once UpdateCap are waiting.
Push(q, u) == IF Len(q) < UpdateCap THEN Append(q, u) ELSE Append(Tail(q), u)

Broadcast(u) ==
  /\ "lag" \in Faults \/ \A r \in Receivers : Len(updates[r]) < UpdateCap
  /\ updates' = [r \in Receivers |-> Push(updates[r], u)]

\* Every slot_tx.send marks the slot watch changed, whatever is sent.
SetSlot(s) == slot' = s /\ slotChanged' = TRUE

\* The market watch changed: the slot is reset, for a new round or for a new
\* status of the same round alike.
RotateSlot ==
  /\ step = "select" /\ marketChanged
  /\ marketChanged' = FALSE
  /\ SetSlot(0)
  /\ claimed' = {}
  /\ UNCHANGED <<rotationVars, decisionVars, step, order, orderMarket, storeVars,
                 awaiting, tracked, polling, todo, exchange, updates, fills, crashes>>

\* The next intent goes, and nothing comes of it.
DiscardIntent ==
  /\ step = "select" /\ intents # <<>>
  /\ intents' = Tail(intents)
  /\ UNCHANGED <<rotationVars, deciding, executorVars, storeVars, pollerVars,
                 exchange, updates, fills, crashes>>

\* The entry policy rejects an intent while the slot is claimed.
RejectIntent == slot # 0 /\ DiscardIntent

\* The market in force does not have the outcome the intent names.
DropIntent == slot = 0 /\ DiscardIntent

\* The intent is admitted on the market the watch holds now, whatever market it
\* was priced on and whatever that market's status.
AdmitIntent ==
  /\ step = "select" /\ intents # <<>>
  /\ slot = 0
  /\ market.slug # 0
  /\ lastId < MaxPositions
  /\ intents' = Tail(intents)
  /\ step' = "inserting"
  /\ orderMarket' = market.slug
  /\ UNCHANGED <<rotationVars, deciding, marketChanged, slot, order, claimed,
                 storeVars, pollerVars, exchange, updates, fills, crashes>>

\* MUTANT of InsertPosition: the slot is not claimed before the order is placed.
InsertPositionNoClaim ==
  /\ step = "inserting"
  /\ LET p == lastId + 1 IN
       /\ lastId' = p
       /\ status' = [status EXCEPT ![p] = "submitted"]
       /\ slugOf' = [slugOf EXCEPT ![p] = orderMarket]
       /\ order' = p
       /\ claimed' = claimed \cup {p}
  /\ step' = "placing"
  /\ orderMarket' = 0
  /\ UNCHANGED <<rotationVars, decisionVars, marketChanged, slot, recorded, pollerVars,
                 exchange, updates, fills, crashes>>

\* The row is inserted, its id claims the slot, and place_order is called.
InsertPosition ==
  /\ step = "inserting"
  /\ LET p == lastId + 1 IN
       /\ lastId' = p
       /\ status' = [status EXCEPT ![p] = "submitted"]
       /\ slugOf' = [slugOf EXCEPT ![p] = orderMarket]
       /\ order' = p
       /\ SetSlot(p)
       /\ claimed' = claimed \cup {p}
  /\ step' = "placing"
  /\ orderMarket' = 0
  /\ UNCHANGED <<rotationVars, decisionVars, marketChanged, recorded, awaiting,
                 tracked, polling, todo, exchange, updates, fills, crashes>>

InsertFails ==
  /\ "insert" \in Faults
  /\ step = "inserting"
  /\ step' = "select"
  /\ orderMarket' = 0
  /\ UNCHANGED <<rotationVars, decisionVars, marketChanged, slot, order, claimed,
                 storeVars, pollerVars, exchange, updates, fills, crashes>>

\* place_order returned an order id: Submitted is broadcast.
OrderAccepted ==
  /\ step = "placing" /\ exchange[order] # "none"
  /\ Broadcast([pos |-> order, kind |-> "submitted"])
  /\ step' = "recording"
  /\ UNCHANGED <<rotationVars, decisionVars, marketChanged, slot, order, orderMarket,
                 claimed, storeVars, pollerVars, exchange, fills, crashes>>

\* The order id is written to the row; a failed write is ignored.
RecordOrderId ==
  /\ step = "recording"
  /\ \/ /\ recorded' = [recorded EXCEPT ![order] = TRUE]
        /\ status' = [status EXCEPT ![order] = "submitted"]
     \/ "update" \in Faults /\ UNCHANGED <<recorded, status>>
  /\ step' = "select" /\ order' = 0
  /\ UNCHANGED <<rotationVars, decisionVars, marketChanged, slot, orderMarket, claimed,
                 lastId, slugOf, pollerVars, exchange, updates, fills, crashes>>

\* place_order errs in building, signing or posting the order, or in reading the answer
\* to an order the exchange took.
PlaceErrs == exchange[order] = "none" \/ "lostReply" \in Faults

\* Either frees the slot as an immediate rejection.
PlaceFailed ==
  /\ step = "placing"
  /\ PlaceErrs
  /\ SetSlot(0)
  /\ step' = "rejecting"
  /\ UNCHANGED <<rotationVars, decisionVars, marketChanged, order, orderMarket, claimed,
                 storeVars, awaiting, tracked, polling, todo, exchange, updates, fills,
                 crashes>>

RecordRejected ==
  /\ step = "rejecting"
  /\ \/ status' = [status EXCEPT ![order] = "rejected"]
     \/ "update" \in Faults /\ UNCHANGED status
  /\ step' = "select" /\ order' = 0
  /\ UNCHANGED <<rotationVars, decisionVars, marketChanged, slot, orderMarket, claimed,
                 lastId, recorded, slugOf, pollerVars, exchange, updates, fills, crashes>>

-----------------------------------------------------------------------------
(* The exchange, as MarketClient shows it.  External. *)

ExchangeTakes ==
  /\ step = "placing" /\ exchange[order] = "none"
  /\ exchange' = [exchange EXCEPT ![order] = "live"]
  /\ UNCHANGED <<rotationVars, decisionVars, executorVars, storeVars, pollerVars,
                 updates, fills, crashes>>

ExchangeFinishes(p) ==
  /\ exchange[p] = "live"
  /\ \E s \in FinalStates : exchange' = [exchange EXCEPT ![p] = s]
  /\ UNCHANGED <<rotationVars, decisionVars, executorVars, storeVars, pollerVars,
                 updates, fills, crashes>>

-----------------------------------------------------------------------------
(* order_status_poller_task *)

\* MUTANT of SeeSlot: an emptied slot clears what is queued.
SeeSlotForgets ==
  /\ ~polling /\ slotChanged
  /\ slotChanged' = FALSE
  /\ awaiting' = IF slot # 0 THEN awaiting \cup {slot} ELSE {}
  /\ UNCHANGED <<rotationVars, decisionVars, executorVars, storeVars, tracked, polling,
                 todo, exchange, updates, fills, crashes>>

\* The slot watch changed: a pending position is queued.  Only the slot's last
\* value is seen, and only between ticks.
SeeSlot ==
  /\ ~polling /\ slotChanged
  /\ slotChanged' = FALSE
  /\ awaiting' = IF slot # 0 THEN awaiting \cup {slot} ELSE awaiting
  /\ UNCHANGED <<rotationVars, decisionVars, executorVars, storeVars, tracked, polling,
                 todo, exchange, updates, fills, crashes>>

\* MUTANT of OpenWithOrderId: rows are taken before the executor wrote the order id.
OpenRows == {p \in Positions : status[p] \in {"submitted", "filled"}}

\* Rows open_positions returns that carry an order id.
OpenWithOrderId == {p \in Positions : status[p] \in {"submitted", "filled"} /\ recorded[p]}

\* What a tick moves from awaiting to tracked.
Resolved == awaiting \cap OpenWithOrderId

\* MUTANT of StartTick: entries still awaiting an order id are polled too.
StartTickPollsAwaiting ==
  /\ ~polling
  /\ awaiting \cup tracked # {}
  /\ awaiting' = awaiting \ Resolved
  /\ tracked' = tracked \cup Resolved
  /\ todo' = tracked \cup awaiting
  /\ polling' = TRUE
  /\ UNCHANGED <<rotationVars, decisionVars, executorVars, storeVars, slotChanged,
                 exchange, updates, fills, crashes>>

\* A tick starts: awaiting entries the store knows an order id for are tracked,
\* and every tracked order is to be polled.
StartTick ==
  /\ ~polling
  /\ awaiting \cup tracked # {}
  /\ \E found \in {Resolved} \cup (IF "query" \in Faults THEN {{}} ELSE {}) :
       /\ awaiting' = awaiting \ found
       /\ tracked' = tracked \cup found
       /\ todo' = tracked \cup found
  /\ polling' = TRUE
  /\ UNCHANGED <<rotationVars, decisionVars, executorVars, storeVars, slotChanged,
                 exchange, updates, fills, crashes>>

\* MUTANT of StatusOf: an unmatched order counts as cancelled.
StatusOfUnmatched(s) == CASE s = "matched" -> "filled"
                          [] s \in {"unmatched", "canceled"} -> "cancelled"
                          [] OTHER -> "submitted"

\* order_status: the exchange's word for the order as an OrderUpdate.
StatusOf(s) == CASE s = "matched"   -> "filled"
                 [] s = "unmatched" -> "rejected"
                 [] s = "canceled"  -> "cancelled"
                 [] OTHER           -> "submitted"

\* MUTANT of PollOrder: a verdict does not end tracking.
PollOrderKeepsTracking(p) ==
  /\ polling /\ p \in todo
  /\ todo' = todo \ {p}
  /\ Broadcast([pos |-> p, kind |-> StatusOf(exchange[p])])
  /\ UNCHANGED <<rotationVars, decisionVars, executorVars, storeVars, slotChanged,
                 awaiting, tracked, polling, exchange, fills, crashes>>

\* One tracked order is polled and its update broadcast; a verdict ends tracking.
PollOrder(p) ==
  /\ polling /\ p \in todo
  /\ todo' = todo \ {p}
  /\ LET kind == StatusOf(exchange[p]) IN
       /\ Broadcast([pos |-> p, kind |-> kind])
       /\ tracked' = IF kind \in Verdicts THEN tracked \ {p} ELSE tracked
  /\ UNCHANGED <<rotationVars, decisionVars, executorVars, storeVars, slotChanged,
                 awaiting, polling, exchange, fills, crashes>>

PollFails(p) ==
  /\ "poll" \in Faults
  /\ polling /\ p \in todo
  /\ todo' = todo \ {p}
  /\ UNCHANGED <<rotationVars, decisionVars, executorVars, storeVars, slotChanged,
                 awaiting, tracked, polling, exchange, updates, fills, crashes>>

EndTick ==
  /\ polling /\ todo = {}
  /\ polling' = FALSE
  /\ UNCHANGED <<rotationVars, decisionVars, executorVars, storeVars, slotChanged,
                 awaiting, tracked, todo, exchange, updates, fills, crashes>>

-----------------------------------------------------------------------------
(* The receivers of the broadcast. *)

Receive(r) == /\ updates[r] # <<>>
              /\ updates' = [updates EXCEPT ![r] = Tail(@)]

\* MUTANT of PersistUpdate: a cancellation is skipped as Submitted is.
PersistUpdateSkipsCancelled ==
  /\ Receive("persistence")
  /\ LET u == Head(updates["persistence"]) IN
       IF u.kind \in {"filled", "rejected"}
       THEN status' = [status EXCEPT ![u.pos] = u.kind]
       ELSE UNCHANGED status
  /\ UNCHANGED <<rotationVars, decisionVars, executorVars, lastId, recorded, slugOf,
                 pollerVars, exchange, fills, crashes>>

\* persistence_task: Submitted is skipped, a verdict overwrites the status.
PersistUpdate ==
  /\ Receive("persistence")
  /\ LET u == Head(updates["persistence"]) IN
       \/ u.kind \in Verdicts /\ status' = [status EXCEPT ![u.pos] = u.kind]
       \/ u.kind \notin Verdicts /\ UNCHANGED status
       \/ "update" \in Faults /\ UNCHANGED status
  /\ UNCHANGED <<rotationVars, decisionVars, executorVars, lastId, recorded, slugOf,
                 pollerVars, exchange, fills, crashes>>

\* MUTANT of BookUpdate: every verdict is booked as a fill.
BookUpdateEveryVerdict ==
  /\ Receive("bankroll")
  /\ LET u == Head(updates["bankroll"]) IN
       fills' = IF u.kind \in Verdicts THEN [fills EXCEPT ![u.pos] = @ + 1] ELSE fills
  /\ UNCHANGED <<rotationVars, decisionVars, executorVars, storeVars, pollerVars,
                 exchange, crashes>>

\* bankroll_task: a fill moves its cost from the bankroll into play.
BookUpdate ==
  /\ Receive("bankroll")
  /\ LET u == Head(updates["bankroll"]) IN
       fills' = IF u.kind = "filled" THEN [fills EXCEPT ![u.pos] = @ + 1] ELSE fills
  /\ UNCHANGED <<rotationVars, decisionVars, executorVars, storeVars, pollerVars,
                 exchange, crashes>>

-----------------------------------------------------------------------------
\* The process dies and is started again: every task and channel starts afresh
\* at the next window, the store and the exchange stay as they were.
Crash ==
  /\ crashes < MaxCrashes
  /\ crashes' = crashes + 1
  /\ market' = NoMarket /\ phase' = "resolve"
  /\ round' = IF phase = "resolve" THEN round ELSE round + 1
  /\ marketChanged' = FALSE
  /\ deciding' = 0 /\ intents' = <<>>
  /\ slot' = 0 /\ slotChanged' = FALSE /\ claimed' = {}
  /\ step' = "select" /\ order' = 0 /\ orderMarket' = 0
  /\ awaiting' = {} /\ tracked' = {} /\ polling' = FALSE /\ todo' = {}
  /\ updates' = [r \in Receivers |-> <<>>]
  /\ fills' = [p \in Positions |-> 0]
  /\ UNCHANGED <<storeVars, exchange>>

Executor == \/ RotateSlot \/ RejectIntent \/ DropIntent \/ AdmitIntent
            \/ InsertPosition \/ InsertFails \/ OrderAccepted \/ RecordOrderId \/ PlaceFailed \/ RecordRejected

Poller == \/ SeeSlot \/ StartTick \/ EndTick
          \/ \E p \in Positions : PollOrder(p) \/ PollFails(p)

Next == \/ PublishMarket \/ PrefetchFails
        \/ StartDecision \/ SendIntent \/ Hold
        \/ Executor
        \/ ExchangeTakes \/ \E p \in Positions : ExchangeFinishes(p)
        \/ Poller
        \/ PersistUpdate \/ BookUpdate
        \/ Crash

Spec == Init /\ [][Next]_vars

\* Once an intent is admitted the executor sees it through.
PlacesOrder == InsertPosition \/ OrderAccepted \/ RecordOrderId \/ PlaceFailed \/ RecordRejected

\* A poll tick, from its start to its end.
Ticks == StartTick \/ (\E p \in Positions : PollOrder(p)) \/ EndTick

\* Every task is polled by the runtime until it waits, select! is fair to its
\* arms, ticks keep coming and requests are answered.  Nothing is assumed of the
\* market, the strategy or the verdict of the exchange.
Fairness ==
  /\ WF_vars(RotateSlot) /\ WF_vars(PlacesOrder)
  /\ WF_vars(SeeSlot) /\ WF_vars(Ticks)
  /\ WF_vars(PersistUpdate) /\ WF_vars(BookUpdate)

FairSpec == Spec /\ Fairness

-----------------------------------------------------------------------------
(* Properties *)

InPlay(p) == exchange[p] \in {"live", "matched"}

\* Between two resets of its slot the executor has at most one order in play:
\* intents sized before the slot was claimed are all turned away
\* (executor.rs 45-103).
OneOrderPerReset == \A p, q \in claimed : InPlay(p) /\ InPlay(q) => p = q

\* A row's verdict is the exchange's: no row is closed while its order is still
\* in play (executor.rs 129-137, persistence.rs 33-51).
StoreMatchesExchange ==
  \A p \in Positions :
    /\ status[p] = "filled" => exchange[p] = "matched"
    /\ status[p] = "cancelled" => exchange[p] = "canceled"
    /\ status[p] = "rejected" => exchange[p] \in {"none", "unmatched"}

\* A fill reaches the bankroll at most once, and only if the exchange matched
\* the order (order_status_poller.rs 61-99, bankroll.rs 36-52).
FillBookedOnce == \A p \in Positions :
                    fills[p] <= 1 /\ (fills[p] = 1 => exchange[p] = "matched")

\* Once both receivers have drained the broadcast, the store holds a fill exactly
\* for the positions whose cost the bankroll has put into play.
BooksAgree ==
  (\A r \in Receivers : updates[r] = <<>>) =>
    \A p \in Positions : status[p] = "filled" <=> fills[p] = 1

\* Whatever order the tasks write in, and whatever fails, the status column moves
\* only as PositionState's table allows (state.rs 119-139): the poller holds no
\* order whose row the executor or a verdict may still change.
Lifecycle == INSTANCE PositionLifecycle
StatusFollowsLifecycle == Lifecycle!Spec

\* A tracked order's verdict is eventually in the store
\* (order_status_poller.rs 60-99, persistence.rs 24-52).
VerdictReachesStore ==
  \A p \in Positions :
    p \in tracked /\ exchange[p] \in FinalStates ~> status[p] = StatusOf(exchange[p])

\* A queued position whose order id is in the store is eventually tracked
\* (order_status_poller.rs 41-58).
AwaitingIsTracked ==
  \A p \in Positions : p \in awaiting /\ recorded[p] ~> p \in tracked

-----------------------------------------------------------------------------
(* The inductive invariant behind FillBookedOnce and StatusFollowsLifecycle. *)

\* No message of queue q judges position p.
NoVerdict(q, p) == \A i \in 1..Len(q) : q[i].pos = p => q[i].kind = "submitted"

\* Queue q judges each position at most once.
OneVerdict(q) == \A i, j \in 1..Len(q) :
                   /\ q[i].pos = q[j].pos
                   /\ q[i].kind # "submitted" /\ q[j].kind # "submitted"
                   => i = j

\* Queue q tells of a fill of position p.
TellsFill(q, p) == \E i \in 1..Len(q) : q[i].pos = p /\ q[i].kind = "filled"

\* No verdict on p is under way or booked.
Unjudged(p) == fills[p] = 0 /\ \A r \in Receivers : NoVerdict(updates[r], p)

RowsInv == \A p \in Positions :
             IF p <= lastId THEN status[p] # "none"
             ELSE status[p] = "none" /\ ~recorded[p] /\ Unjudged(p)

ExecutorInv ==
  /\ step = "inserting" => lastId < MaxPositions
  /\ step = "rejecting" => slot = 0
  /\ step \in {"placing", "recording", "rejecting"} =>
       /\ order \in 1..lastId
       /\ status[order] = "submitted" /\ ~recorded[order] /\ Unjudged(order)

SlotInv ==
  /\ slot <= lastId
  /\ slot # 0 /\ slotChanged =>
       status[slot] = "submitted" /\ Unjudged(slot) /\ slot \notin awaiting \cup tracked

AwaitingInv == \A p \in awaiting :
                 /\ p <= lastId /\ Unjudged(p) /\ p \notin tracked
                 /\ status[p] = "submitted" \/ (status[p] = "rejected" /\ ~recorded[p])

TrackedInv == \A p \in tracked :
                recorded[p] /\ status[p] = "submitted" /\ Unjudged(p)

QueueInv ==
  /\ \A r \in Receivers : OneVerdict(updates[r])
  /\ \A p \in Positions :
       /\ NoVerdict(updates["persistence"], p) \/ (recorded[p] /\ status[p] = "submitted")
       /\ NoVerdict(updates["bankroll"], p) \/ fills[p] = 0
       /\ TellsFill(updates["bankroll"], p) => exchange[p] = "matched"

IInv == /\ TypeOK
        /\ RowsInv /\ ExecutorInv /\ SlotInv /\ AwaitingInv /\ TrackedInv /\ QueueInv
        /\ FillBookedOnce

-----------------------------------------------------------------------------
(* What comments of the code say, and the code does not do. *)

\* One position per round (state.rs 7, main.rs 39).
OnePositionPerRound ==
  \A p, q \in Positions : InPlay(p) /\ InPlay(q) /\ slugOf[p] = slugOf[q] => p = q
=============================================================================
