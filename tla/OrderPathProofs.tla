-------------------------- MODULE OrderPathProofs --------------------------
(***************************************************************************)
(* Theorems about OrderPath, for any number of positions, rounds, restarts *)
(* and any capacities.  Types, the booking of fills and the lifecycle of   *)
(* rows survive every set of faults; that slot, rows and exchange agree    *)
(* needs replies that are not lost, and that store and bankroll agree      *)
(* needs writes that succeed, receivers that keep up and no restart.       *)
(***************************************************************************)
EXTENDS OrderPath, TLAPS

-----------------------------------------------------------------------------
(* The queues of the broadcast. *)

\* Taking the oldest message off a queue keeps what is said of the rest, and
\* leaves no verdict on the position it judged.
LEMMA TailLemma ==
  ASSUME NEW q \in Seq(Updates), q # <<>>
  PROVE  /\ Tail(q) \in Seq(Updates)
         /\ Head(q) \in Updates
         /\ \A p : NoVerdict(q, p) => NoVerdict(Tail(q), p)
         /\ OneVerdict(q) => OneVerdict(Tail(q))
         /\ \A p : TellsFill(Tail(q), p) => TellsFill(q, p)
         /\ Head(q).kind = "filled" => TellsFill(q, Head(q).pos)
         /\ Head(q).kind # "submitted" => ~NoVerdict(q, Head(q).pos)
         /\ OneVerdict(q) /\ Head(q).kind # "submitted" => NoVerdict(Tail(q), Head(q).pos)
<1>1. /\ Tail(q) \in Seq(Updates) /\ Head(q) \in Updates /\ Head(q) = q[1]
      /\ Len(q) \in Nat \ {0} /\ Len(Tail(q)) = Len(q) - 1
      /\ \A i \in 1..Len(Tail(q)) : Tail(q)[i] = q[i + 1] /\ i + 1 \in 1..Len(q)
  OBVIOUS
<1>2. \A p : NoVerdict(q, p) => NoVerdict(Tail(q), p)
  BY <1>1 DEF NoVerdict
<1>3. OneVerdict(q) => OneVerdict(Tail(q))
  <2>1. SUFFICES ASSUME OneVerdict(q),
                        NEW i \in 1..Len(Tail(q)), NEW j \in 1..Len(Tail(q)),
                        Tail(q)[i].pos = Tail(q)[j].pos,
                        Tail(q)[i].kind # "submitted", Tail(q)[j].kind # "submitted"
                 PROVE  i = j
    BY DEF OneVerdict
  <2>2. i + 1 = j + 1
    BY <1>1, <2>1 DEF OneVerdict
  <2>3. QED BY <2>2, <1>1
<1>4. \A p : TellsFill(Tail(q), p) => TellsFill(q, p)
  BY <1>1 DEF TellsFill
<1>5. /\ Head(q).kind = "filled" => TellsFill(q, Head(q).pos)
      /\ Head(q).kind # "submitted" => ~NoVerdict(q, Head(q).pos)
  BY <1>1 DEF TellsFill, NoVerdict
<1>6. OneVerdict(q) /\ Head(q).kind # "submitted" => NoVerdict(Tail(q), Head(q).pos)
  <2>1. SUFFICES ASSUME OneVerdict(q), Head(q).kind # "submitted",
                        NEW i \in 1..Len(Tail(q)), Tail(q)[i].pos = Head(q).pos
                 PROVE  Tail(q)[i].kind = "submitted"
    BY DEF NoVerdict
  <2>2. 1 \in 1..Len(q) /\ i + 1 # 1
    BY <1>1
  <2>3. QED BY <1>1, <2>1, <2>2 DEF OneVerdict
<1>7. QED BY <1>1, <1>2, <1>3, <1>4, <1>5, <1>6

\* Appending a message adds what it says and nothing else.
LEMMA AppendLemma ==
  ASSUME NEW q \in Seq(Updates), NEW u \in Updates
  PROVE  /\ Append(q, u) \in Seq(Updates)
         /\ \A p : NoVerdict(q, p) /\ (u.pos = p => u.kind = "submitted")
                     => NoVerdict(Append(q, u), p)
         /\ OneVerdict(q) /\ (u.kind = "submitted" \/ NoVerdict(q, u.pos))
              => OneVerdict(Append(q, u))
         /\ \A p : TellsFill(Append(q, u), p)
                     => TellsFill(q, p) \/ (u.pos = p /\ u.kind = "filled")
<1>1. /\ Append(q, u) \in Seq(Updates)
      /\ Len(q) \in Nat /\ Len(Append(q, u)) = Len(q) + 1
      /\ Append(q, u)[Len(q) + 1] = u
      /\ \A i \in 1..Len(q) : Append(q, u)[i] = q[i]
      /\ \A i \in 1..(Len(q) + 1) : i \in 1..Len(q) \/ i = Len(q) + 1
  OBVIOUS
<1>2. \A p : NoVerdict(q, p) /\ (u.pos = p => u.kind = "submitted")
               => NoVerdict(Append(q, u), p)
  BY <1>1 DEF NoVerdict
<1>3. OneVerdict(q) /\ (u.kind = "submitted" \/ NoVerdict(q, u.pos))
        => OneVerdict(Append(q, u))
  <2>1. SUFFICES ASSUME OneVerdict(q), u.kind = "submitted" \/ NoVerdict(q, u.pos),
                        NEW i \in 1..(Len(q) + 1), NEW j \in 1..(Len(q) + 1),
                        Append(q, u)[i].pos = Append(q, u)[j].pos,
                        Append(q, u)[i].kind # "submitted",
                        Append(q, u)[j].kind # "submitted"
                 PROVE  i = j
    BY <1>1 DEF OneVerdict
  <2>2. CASE i \in 1..Len(q) /\ j \in 1..Len(q)
    BY <1>1, <2>1, <2>2 DEF OneVerdict
  <2>3. CASE i = Len(q) + 1 /\ j \in 1..Len(q)
    BY <1>1, <2>1, <2>3 DEF NoVerdict
  <2>4. CASE j = Len(q) + 1 /\ i \in 1..Len(q)
    BY <1>1, <2>1, <2>4 DEF NoVerdict
  <2>5. QED BY <1>1, <2>1, <2>2, <2>3, <2>4
<1>4. \A p : TellsFill(Append(q, u), p)
               => TellsFill(q, p) \/ (u.pos = p /\ u.kind = "filled")
  BY <1>1 DEF TellsFill
<1>5. QED BY <1>1, <1>2, <1>3, <1>4

\* The same of Push, whether or not it loses the oldest message.
LEMMA PushLemma ==
  ASSUME NEW q \in Seq(Updates), NEW u \in Updates
  PROVE  /\ Push(q, u) \in Seq(Updates)
         /\ \A p : NoVerdict(q, p) /\ (u.pos = p => u.kind = "submitted")
                     => NoVerdict(Push(q, u), p)
         /\ OneVerdict(q) /\ (u.kind = "submitted" \/ NoVerdict(q, u.pos))
              => OneVerdict(Push(q, u))
         /\ \A p : TellsFill(Push(q, u), p)
                     => TellsFill(q, p) \/ (u.pos = p /\ u.kind = "filled")
<1>1. CASE Len(q) < UpdateCap
  <2>1. Push(q, u) = Append(q, u) BY <1>1 DEF Push
  <2>2. QED BY <2>1, AppendLemma
<1>2. CASE ~(Len(q) < UpdateCap)
  <2>1. q # <<>> BY <1>2, OrderPathAssumption
  <2>2. Push(q, u) = Append(Tail(q), u) BY <1>2 DEF Push
  <2>3. /\ Tail(q) \in Seq(Updates)
        /\ \A p : NoVerdict(q, p) => NoVerdict(Tail(q), p)
        /\ OneVerdict(q) => OneVerdict(Tail(q))
        /\ \A p : TellsFill(Tail(q), p) => TellsFill(q, p)
    BY <2>1, TailLemma
  <2> DEFINE t == Tail(q)
  <2>4. /\ Append(t, u) \in Seq(Updates)
        /\ \A p : NoVerdict(t, p) /\ (u.pos = p => u.kind = "submitted")
                    => NoVerdict(Append(t, u), p)
        /\ OneVerdict(t) /\ (u.kind = "submitted" \/ NoVerdict(t, u.pos))
             => OneVerdict(Append(t, u))
        /\ \A p : TellsFill(Append(t, u), p)
                    => TellsFill(t, p) \/ (u.pos = p /\ u.kind = "filled")
    <3> HIDE DEF t
    <3>1. t \in Seq(Updates) BY <2>3 DEF t
    <3>2. QED BY <3>1, AppendLemma
  <2>5. QED BY <2>2, <2>3, <2>4
<1>3. QED BY <1>1, <1>2

\* Broadcasting u adds to every queue what u says and nothing else.
LEMMA BroadcastLemma ==
  ASSUME updates \in [Receivers -> Seq(Updates)], NEW u \in Updates, Broadcast(u)
  PROVE  /\ updates' \in [Receivers -> Seq(Updates)]
         /\ \A r \in Receivers :
              /\ \A p : NoVerdict(updates[r], p) /\ (u.pos = p => u.kind = "submitted")
                          => NoVerdict(updates'[r], p)
              /\ OneVerdict(updates[r])
                   /\ (u.kind = "submitted" \/ NoVerdict(updates[r], u.pos))
                   => OneVerdict(updates'[r])
              /\ \A p : TellsFill(updates'[r], p)
                          => TellsFill(updates[r], p) \/ (u.pos = p /\ u.kind = "filled")
<1>1. updates' = [r \in Receivers |-> Push(updates[r], u)]
  BY DEF Broadcast
<1>2. ASSUME NEW r \in Receivers
      PROVE  updates[r] \in Seq(Updates) /\ updates'[r] = Push(updates[r], u)
  BY <1>1, <1>2
<1>3. \A r \in Receivers : updates'[r] \in Seq(Updates)
  BY <1>2, PushLemma
<1>4. updates' \in [Receivers -> Seq(Updates)]
  BY <1>1, <1>3
<1>5. QED BY <1>2, <1>4, PushLemma

\* Receiver r takes its oldest message; the other queue is left alone.
LEMMA ReceiveLemma ==
  ASSUME updates \in [Receivers -> Seq(Updates)], NEW r \in Receivers, Receive(r)
  PROVE  /\ updates' \in [Receivers -> Seq(Updates)]
         /\ Head(updates[r]).pos \in Positions /\ Head(updates[r]).kind \in UpdateKinds
         /\ \A s \in Receivers :
              /\ \A p : NoVerdict(updates[s], p) => NoVerdict(updates'[s], p)
              /\ OneVerdict(updates[s]) => OneVerdict(updates'[s])
              /\ \A p : TellsFill(updates'[s], p) => TellsFill(updates[s], p)
              /\ s # r => updates'[s] = updates[s]
         /\ Head(updates[r]).kind = "filled" => TellsFill(updates[r], Head(updates[r]).pos)
         /\ Head(updates[r]).kind # "submitted" =>
              /\ ~NoVerdict(updates[r], Head(updates[r]).pos)
              /\ OneVerdict(updates[r]) => NoVerdict(updates'[r], Head(updates[r]).pos)
<1>1. /\ updates[r] \in Seq(Updates) /\ updates[r] # <<>>
      /\ updates' = [updates EXCEPT ![r] = Tail(updates[r])]
      /\ updates'[r] = Tail(updates[r])
      /\ \A s \in Receivers : s # r => updates'[s] = updates[s]
  BY DEF Receive
<1>2. Tail(updates[r]) \in Seq(Updates) /\ Head(updates[r]) \in Updates
  BY <1>1, TailLemma
<1>3. updates' \in [Receivers -> Seq(Updates)]
  BY <1>1, <1>2
<1>4. Head(updates[r]).pos \in Positions /\ Head(updates[r]).kind \in UpdateKinds
  BY <1>2 DEF Updates
<1>5. ASSUME NEW s \in Receivers
      PROVE  /\ \A p : NoVerdict(updates[s], p) => NoVerdict(updates'[s], p)
             /\ OneVerdict(updates[s]) => OneVerdict(updates'[s])
             /\ \A p : TellsFill(updates'[s], p) => TellsFill(updates[s], p)
  <2>1. CASE s = r
    BY <2>1, <1>1, TailLemma
  <2>2. CASE s # r
    BY <2>2, <1>1
  <2>3. QED BY <2>1, <2>2
<1>6. QED BY <1>1, <1>3, <1>4, <1>5, TailLemma

-----------------------------------------------------------------------------
(* Type correctness. *)

\* A step of run_round leaves the watch well-typed.
LEMMA PublishType ==
  ASSUME MarketTypeOK, Publish \/ SkipPrefetched
  PROVE  MarketTypeOK'
<1> USE MaxRoundsAssumption
    DEF MarketTypeOK, Markets, MarketStatuses, Phases, Rounds, CatalogStatuses, Snapshot
<1>1. CASE BeginRound
  BY <1>1 DEF BeginRound
<1>2. CASE OpenTrading \/ CutoffTrading \/ StartResolving \/ ConfirmResolved
  BY <1>2 DEF OpenTrading, CutoffTrading, StartResolving, ConfirmResolved, Advance
<1>3. CASE PublishPrefetched
  BY <1>3 DEF PublishPrefetched
<1>4. CASE SkipPrefetched
  BY <1>4 DEF SkipPrefetched
<1>5. QED BY <1>1, <1>2, <1>3, <1>4 DEF Publish

\* What a component leaves alone stays well-typed.
LEMMA TypeFrame ==
  ASSUME TypeOK
  PROVE  /\ UNCHANGED rotationVars => MarketTypeOK'
         /\ UNCHANGED decisionVars => DecisionTypeOK'
         /\ UNCHANGED executorVars => ExecutorTypeOK'
         /\ UNCHANGED storeVars => StoreTypeOK'
         /\ UNCHANGED pollerVars => PollerTypeOK'
<1>1. UNCHANGED rotationVars => MarketTypeOK'
  BY DEF TypeOK, rotationVars, MarketTypeOK
<1>2. UNCHANGED decisionVars => DecisionTypeOK'
  BY DEF TypeOK, decisionVars, DecisionTypeOK
<1>3. UNCHANGED executorVars => ExecutorTypeOK'
  BY DEF TypeOK, executorVars, ExecutorTypeOK
<1>4. UNCHANGED storeVars => StoreTypeOK'
  BY DEF TypeOK, storeVars, StoreTypeOK
<1>5. UNCHANGED pollerVars => PollerTypeOK'
  BY DEF TypeOK, pollerVars, PollerTypeOK
<1>6. QED BY <1>1, <1>2, <1>3, <1>4, <1>5

\* Every step leaves the state well-typed.  ExecutorInv is needed for the ids the
\* executor hands out and puts into messages.
LEMMA TypeStep ==
  ASSUME TypeOK, ExecutorInv, [Next]_vars
  PROVE  TypeOK'
<1> USE MaxRoundsAssumption, OrderPathAssumption
<1>1. CASE PublishMarket
  <2>1. MarketTypeOK'
    BY <1>1, PublishType DEF TypeOK, PublishMarket
  <2>2. ExecutorTypeOK'
    BY <1>1 DEF TypeOK, PublishMarket, ExecutorTypeOK, executorVars, Steps
  <2>3. QED BY <1>1, <2>1, <2>2, TypeFrame DEF TypeOK, PublishMarket
<1>2. CASE PrefetchFails
  <2>1. MarketTypeOK'
    BY <1>2, PublishType DEF TypeOK, PrefetchFails
  <2>2. QED BY <1>2, <2>1, TypeFrame DEF TypeOK, PrefetchFails
<1>3. CASE StartDecision
  <2>1. DecisionTypeOK'
    BY <1>3 DEF TypeOK, StartDecision, DecisionTypeOK, decisionVars, MarketTypeOK, Markets
  <2>2. QED BY <1>3, <2>1, TypeFrame DEF TypeOK, StartDecision
<1>4. CASE SendIntent
  <2>1. DecisionTypeOK'
    <3>1. deciding \in Rounds
      BY <1>4 DEF TypeOK, SendIntent, DecisionTypeOK, Rounds
    <3>2. QED BY <1>4, <3>1 DEF TypeOK, SendIntent, DecisionTypeOK
  <2>2. QED BY <1>4, <2>1, TypeFrame DEF TypeOK, SendIntent
<1>5. CASE Hold
  <2>1. DecisionTypeOK'
    BY <1>5 DEF TypeOK, Hold, DecisionTypeOK, decisionVars
  <2>2. QED BY <1>5, <2>1, TypeFrame DEF TypeOK, Hold
<1>6. CASE RotateSlot
  <2>1. ExecutorTypeOK'
    <3>1. slot' \in 0..MaxPositions /\ claimed' \subseteq Positions
      BY <1>6 DEF TypeOK, RotateSlot, SetSlot
    <3>2. QED BY <1>6, <3>1 DEF TypeOK, RotateSlot, ExecutorTypeOK
  <2>2. PollerTypeOK'
    BY <1>6 DEF TypeOK, RotateSlot, PollerTypeOK, pollerVars, SetSlot
  <2>3. QED BY <1>6, <2>1, <2>2, TypeFrame DEF TypeOK, RotateSlot
<1>7. CASE RejectIntent
  <2>1. DecisionTypeOK'
    BY <1>7 DEF TypeOK, RejectIntent, DecisionTypeOK, decisionVars, DiscardIntent
  <2>2. QED BY <1>7, <2>1, TypeFrame DEF TypeOK, RejectIntent, DiscardIntent
<1>8. CASE DropIntent
  <2>1. DecisionTypeOK'
    BY <1>8 DEF TypeOK, DropIntent, DecisionTypeOK, decisionVars, DiscardIntent
  <2>2. QED BY <1>8, <2>1, TypeFrame DEF TypeOK, DropIntent, DiscardIntent
<1>9. CASE AdmitIntent
  <2>1. DecisionTypeOK'
    BY <1>9 DEF TypeOK, AdmitIntent, DecisionTypeOK, decisionVars
  <2>2. ExecutorTypeOK'
    BY <1>9 DEF TypeOK, AdmitIntent, ExecutorTypeOK, executorVars, Steps, MarketTypeOK,
       Markets
  <2>3. QED BY <1>9, <2>1, <2>2, TypeFrame DEF TypeOK, AdmitIntent
<1>10. CASE InsertPosition
  <2>1. ExecutorTypeOK'
    BY <1>10 DEF TypeOK, InsertPosition, ExecutorTypeOK, executorVars, Steps, SetSlot,
       ExecutorInv, StoreTypeOK, Positions
  <2>2. StoreTypeOK'
    BY <1>10 DEF TypeOK, InsertPosition, StoreTypeOK, storeVars, RowStatuses, ExecutorInv,
       ExecutorTypeOK, Positions
  <2>3. PollerTypeOK'
    BY <1>10 DEF TypeOK, InsertPosition, PollerTypeOK, pollerVars, SetSlot
  <2>4. QED BY <1>10, <2>1, <2>2, <2>3, TypeFrame DEF TypeOK, InsertPosition
<1>11. CASE InsertFails
  <2>1. ExecutorTypeOK'
    BY <1>11 DEF TypeOK, InsertFails, ExecutorTypeOK, executorVars, Steps
  <2>2. QED BY <1>11, <2>1, TypeFrame DEF TypeOK, InsertFails
<1>12. CASE OrderAccepted
  <2>1. ExecutorTypeOK'
    BY <1>12 DEF TypeOK, OrderAccepted, ExecutorTypeOK, executorVars, Steps
  <2>2. updates' \in [Receivers -> Seq(Updates)]
    <3>1. [pos |-> order, kind |-> "submitted"] \in Updates
      BY <1>12 DEF TypeOK, OrderAccepted, ExecutorInv, StoreTypeOK, Positions, Updates,
                   UpdateKinds
    <3>2. QED BY <1>12, <3>1, BroadcastLemma DEF TypeOK, OrderAccepted
  <2>3. QED BY <1>12, <2>1, <2>2, TypeFrame DEF TypeOK, OrderAccepted
<1>13. CASE RecordOrderId
  <2>1. ExecutorTypeOK'
    BY <1>13 DEF TypeOK, RecordOrderId, ExecutorTypeOK, executorVars, Steps
  <2>2. StoreTypeOK'
    BY <1>13 DEF TypeOK, RecordOrderId, StoreTypeOK, storeVars, RowStatuses
  <2>3. QED BY <1>13, <2>1, <2>2, TypeFrame DEF TypeOK, RecordOrderId
<1>14. CASE PlaceFailed
  <2>1. ExecutorTypeOK'
    BY <1>14 DEF TypeOK, PlaceFailed, ExecutorTypeOK, executorVars, Steps, SetSlot
  <2>2. PollerTypeOK'
    BY <1>14 DEF TypeOK, PlaceFailed, PollerTypeOK, pollerVars, SetSlot
  <2>3. QED BY <1>14, <2>1, <2>2, TypeFrame DEF TypeOK, PlaceFailed
<1>15. CASE RecordRejected
  <2>1. ExecutorTypeOK'
    BY <1>15 DEF TypeOK, RecordRejected, ExecutorTypeOK, executorVars, Steps
  <2>2. StoreTypeOK'
    BY <1>15 DEF TypeOK, RecordRejected, StoreTypeOK, storeVars, RowStatuses
  <2>3. QED BY <1>15, <2>1, <2>2, TypeFrame DEF TypeOK, RecordRejected
<1>16. CASE ExchangeTakes
  <2>1. exchange' \in [Positions -> OrderStates]
    BY <1>16 DEF TypeOK, ExchangeTakes, OrderStates
  <2>2. QED BY <1>16, <2>1, TypeFrame DEF TypeOK, ExchangeTakes
<1>17. ASSUME NEW p \in Positions, ExchangeFinishes(p) PROVE TypeOK'
  <2>1. exchange' \in [Positions -> OrderStates]
    BY <1>17 DEF TypeOK, ExchangeFinishes, OrderStates, FinalStates
  <2>2. QED BY <1>17, <2>1, TypeFrame DEF TypeOK, ExchangeFinishes
<1>18. CASE SeeSlot
  <2>1. PollerTypeOK'
    <3>1. slot # 0 => slot \in Positions
      BY DEF TypeOK, ExecutorTypeOK, Positions
    <3>2. QED BY <1>18, <3>1 DEF TypeOK, SeeSlot, PollerTypeOK
  <2>2. QED BY <1>18, <2>1, TypeFrame DEF TypeOK, SeeSlot
<1>19. CASE StartTick
  <2>1. PollerTypeOK'
    BY <1>19 DEF TypeOK, StartTick, PollerTypeOK, pollerVars, Resolved
  <2>2. QED BY <1>19, <2>1, TypeFrame DEF TypeOK, StartTick
<1>20. ASSUME NEW p \in Positions, PollOrder(p) PROVE TypeOK'
  <2>1. PollerTypeOK'
    BY <1>20 DEF TypeOK, PollOrder, PollerTypeOK, pollerVars
  <2>2. updates' \in [Receivers -> Seq(Updates)]
    <3>1. [pos |-> p, kind |-> StatusOf(exchange[p])] \in Updates
      BY <1>20 DEF StatusOf, Updates, UpdateKinds
    <3>2. QED BY <1>20, <3>1, BroadcastLemma DEF TypeOK, PollOrder
  <2>3. QED BY <1>20, <2>1, <2>2, TypeFrame DEF TypeOK, PollOrder
<1>21. ASSUME NEW p \in Positions, PollFails(p) PROVE TypeOK'
  <2>1. PollerTypeOK'
    BY <1>21 DEF TypeOK, PollFails, PollerTypeOK, pollerVars
  <2>2. QED BY <1>21, <2>1, TypeFrame DEF TypeOK, PollFails
<1>22. CASE EndTick
  <2>1. PollerTypeOK'
    BY <1>22 DEF TypeOK, EndTick, PollerTypeOK, pollerVars
  <2>2. QED BY <1>22, <2>1, TypeFrame DEF TypeOK, EndTick
<1>23. CASE PersistUpdate
  <2>1. StoreTypeOK'
    BY <1>23, ReceiveLemma DEF TypeOK, PersistUpdate, StoreTypeOK, Receivers, RowStatuses,
                               Verdicts
  <2>2. updates' \in [Receivers -> Seq(Updates)]
    BY <1>23, ReceiveLemma DEF TypeOK, PersistUpdate, Receivers
  <2>3. QED BY <1>23, <2>1, <2>2, TypeFrame DEF TypeOK, PersistUpdate
<1>24. CASE BookUpdate
  <2>1. fills' \in [Positions -> Nat]
    BY <1>24, ReceiveLemma DEF TypeOK, BookUpdate, Receivers
  <2>2. updates' \in [Receivers -> Seq(Updates)]
    BY <1>24, ReceiveLemma DEF TypeOK, BookUpdate, Receivers
  <2>3. QED BY <1>24, <2>1, <2>2, TypeFrame DEF TypeOK, BookUpdate
<1>25. CASE Crash
  <2>1. MarketTypeOK'
    BY <1>25 DEF TypeOK, Crash, MarketTypeOK, NoMarket, Markets, MarketStatuses, Phases,
       Rounds
  <2>2. DecisionTypeOK'
    BY <1>25 DEF TypeOK, Crash, DecisionTypeOK, decisionVars
  <2>3. ExecutorTypeOK'
    <3>1. /\ slot' \in 0..MaxPositions /\ order' \in 0..MaxPositions
          /\ orderMarket' \in 0..MaxRounds /\ claimed' \subseteq Positions
      BY <1>25 DEF Crash
    <3>2. QED BY <1>25, <3>1 DEF Crash, ExecutorTypeOK, Steps
  <2>4. PollerTypeOK'
    BY <1>25 DEF TypeOK, Crash, PollerTypeOK, pollerVars
  <2>5. updates' \in [Receivers -> Seq(Updates)]
    BY <1>25 DEF TypeOK, Crash, Receivers
  <2>6. fills' \in [Positions -> Nat]
    BY <1>25 DEF TypeOK, Crash
  <2>7. QED BY <1>25, <2>1, <2>2, <2>3, <2>4, <2>5, <2>6, TypeFrame DEF TypeOK, Crash
<1>26. CASE UNCHANGED vars
  BY <1>26, TypeFrame DEF TypeOK, vars
<1>27. QED
  BY <1>1, <1>2, <1>3, <1>4, <1>5, <1>6, <1>7, <1>8, <1>9, <1>10, <1>11, <1>12, <1>13, <1>14,
     <1>15, <1>16, <1>17, <1>18, <1>19, <1>20, <1>21, <1>22, <1>23, <1>24, <1>25, <1>26
  DEF Next, Executor, Poller

-----------------------------------------------------------------------------
(* The inductive invariant. *)

\* A conjunct of the invariant outlives a step that leaves its variables alone.
LEMMA InvFrame ==
  ASSUME IInv
  PROVE  /\ UNCHANGED <<updates, fills>> => \A p : Unjudged(p)' <=> Unjudged(p)
         /\ UNCHANGED <<lastId, status, recorded, updates, fills>> => RowsInv'
         /\ UNCHANGED <<step, slot, order, lastId, status, recorded, updates, fills>>
              => ExecutorInv'
         /\ UNCHANGED <<slot, slotChanged, lastId, status, awaiting, tracked, updates, fills>>
              => SlotInv'
         /\ UNCHANGED <<awaiting, lastId, tracked, status, recorded, updates, fills>>
              => AwaitingInv'
         /\ UNCHANGED <<tracked, recorded, status, updates, fills>> => TrackedInv'
         /\ UNCHANGED <<updates, recorded, status, fills, exchange>> => QueueInv'
         /\ UNCHANGED <<fills, exchange>> => FillBookedOnce'
<1>1. UNCHANGED <<updates, fills>> => \A p : Unjudged(p)' <=> Unjudged(p)
  BY DEF Unjudged
<1>2. UNCHANGED <<lastId, status, recorded, updates, fills>> => RowsInv'
  BY <1>1 DEF IInv, RowsInv
<1>3. UNCHANGED <<step, slot, order, lastId, status, recorded, updates, fills>>
        => ExecutorInv'
  BY <1>1 DEF IInv, ExecutorInv
<1>4. UNCHANGED <<slot, slotChanged, lastId, status, awaiting, tracked, updates, fills>>
        => SlotInv'
  BY <1>1 DEF IInv, SlotInv
<1>5. UNCHANGED <<awaiting, lastId, tracked, status, recorded, updates, fills>>
        => AwaitingInv'
  BY <1>1 DEF IInv, AwaitingInv
<1>6. UNCHANGED <<tracked, recorded, status, updates, fills>> => TrackedInv'
  BY <1>1 DEF IInv, TrackedInv
<1>7. UNCHANGED <<updates, recorded, status, fills, exchange>> => QueueInv'
  BY DEF IInv, QueueInv
<1>8. UNCHANGED <<fills, exchange>> => FillBookedOnce'
  BY DEF IInv, FillBookedOnce
<1>9. QED BY <1>1, <1>2, <1>3, <1>4, <1>5, <1>6, <1>7, <1>8

\* IInv is inductive.
LEMMA InvStep ==
  ASSUME IInv, [Next]_vars
  PROVE  IInv'
<1> USE MaxRoundsAssumption, OrderPathAssumption
<1> DEFINE Preserved == \A q \in Positions : Unjudged(q) => Unjudged(q)'
<1>1. TypeOK'
  BY TypeStep DEF IInv
<1>2. /\ lastId \in 0..MaxPositions /\ lastId \in Nat /\ slot \in 0..MaxPositions
      /\ order \in 0..MaxPositions /\ awaiting \subseteq Positions
      /\ tracked \subseteq Positions
      /\ status \in [Positions -> RowStatuses] /\ recorded \in [Positions -> BOOLEAN]
      /\ exchange \in [Positions -> OrderStates] /\ fills \in [Positions -> Nat]
      /\ updates \in [Receivers -> Seq(Updates)]
  BY DEF IInv, TypeOK, ExecutorTypeOK, StoreTypeOK, PollerTypeOK
<1>3. /\ RowsInv /\ ExecutorInv /\ SlotInv /\ AwaitingInv /\ TrackedInv /\ QueueInv
      /\ FillBookedOnce
  BY DEF IInv
<1>4. CASE PublishMarket
  <2>1. QED BY <1>1, <1>3, <1>4, InvFrame DEF IInv, PublishMarket, rotationVars, decisionVars,
     executorVars, storeVars, pollerVars
<1>5. CASE PrefetchFails
  <2>1. QED BY <1>1, <1>3, <1>5, InvFrame DEF IInv, PrefetchFails, rotationVars, decisionVars,
     executorVars, storeVars, pollerVars
<1>6. CASE StartDecision
  <2>1. QED BY <1>1, <1>3, <1>6, InvFrame DEF IInv, StartDecision, rotationVars, decisionVars,
     executorVars, storeVars, pollerVars
<1>7. CASE SendIntent
  <2>1. QED BY <1>1, <1>3, <1>7, InvFrame DEF IInv, SendIntent, rotationVars, decisionVars,
     executorVars, storeVars, pollerVars
<1>8. CASE Hold
  <2>1. QED BY <1>1, <1>3, <1>8, InvFrame DEF IInv, Hold, rotationVars, decisionVars,
     executorVars, storeVars, pollerVars
<1>9. CASE RejectIntent
  <2>1. QED BY <1>1, <1>3, <1>9, InvFrame DEF IInv, RejectIntent, DiscardIntent, rotationVars,
     decisionVars, executorVars, storeVars, pollerVars
<1>10. CASE DropIntent
  <2>1. QED BY <1>1, <1>3, <1>10, InvFrame DEF IInv, DropIntent, DiscardIntent, rotationVars,
     decisionVars, executorVars, storeVars, pollerVars
<1>11. CASE RotateSlot
  <2>1. Preserved
    BY <1>2, <1>3, <1>11, InvFrame DEF RotateSlot, SetSlot, storeVars
  <2>2. ExecutorInv'
    BY <1>2, <1>3, <1>11, <2>1 DEF RotateSlot, SetSlot, storeVars, ExecutorInv
  <2>3. SlotInv'
    BY <1>2, <1>3, <1>11, <2>1 DEF RotateSlot, SetSlot, storeVars, SlotInv
  <2>4. QED BY <1>1, <1>3, <1>11, <2>1, <2>2, <2>3, InvFrame DEF IInv, RotateSlot, SetSlot,
     storeVars, rotationVars, decisionVars, executorVars, storeVars, pollerVars
<1>12. CASE AdmitIntent
  <2>1. ExecutorInv'
    BY <1>2, <1>3, <1>12 DEF AdmitIntent, storeVars, ExecutorInv
  <2>2. QED BY <1>1, <1>3, <1>12, <2>1, InvFrame DEF IInv, AdmitIntent, storeVars,
     rotationVars, decisionVars, executorVars, storeVars, pollerVars
<1>13. CASE InsertPosition
  <2>1. lastId + 1 \in Positions /\ status[lastId + 1] = "none" /\ ~recorded[lastId + 1] /\ Unjudged(lastId + 1)
    BY <1>2, <1>3, <1>13 DEF InsertPosition, SetSlot, ExecutorInv, RowsInv, Positions
  <2>2. Preserved
    BY <1>2, <1>3, <1>13, <2>1, InvFrame DEF InsertPosition, SetSlot
  <2>3. RowsInv'
    BY <1>2, <1>3, <1>13, <2>1, <2>2 DEF InsertPosition, SetSlot, RowsInv, Positions
  <2>4. ExecutorInv'
    BY <1>2, <1>3, <1>13, <2>1, <2>2 DEF InsertPosition, SetSlot, ExecutorInv
  <2>5. SlotInv'
    BY <1>2, <1>3, <1>13, <2>1, <2>2 DEF InsertPosition, SetSlot, SlotInv, TrackedInv,
       AwaitingInv
  <2>6. AwaitingInv'
    BY <1>2, <1>3, <1>13, <2>1, <2>2 DEF InsertPosition, SetSlot, AwaitingInv, Positions
  <2>7. TrackedInv'
    BY <1>2, <1>3, <1>13, <2>1, <2>2 DEF InsertPosition, SetSlot, TrackedInv
  <2>8. QueueInv'
    BY <1>2, <1>3, <1>13, <2>1, <2>2 DEF InsertPosition, SetSlot, QueueInv
  <2>9. QED BY <1>1, <1>3, <1>13, <2>1, <2>2, <2>3, <2>4, <2>5, <2>6, <2>7, <2>8, InvFrame DEF
     IInv, InsertPosition, SetSlot, rotationVars, decisionVars, executorVars, storeVars,
     pollerVars
<1>14. CASE InsertFails
  <2>1. ExecutorInv'
    BY <1>2, <1>3, <1>14 DEF InsertFails, ExecutorInv
  <2>2. QED BY <1>1, <1>3, <1>14, <2>1, InvFrame DEF IInv, InsertFails, rotationVars,
     decisionVars, executorVars, storeVars, pollerVars
<1>15. CASE OrderAccepted
  <2>1. order \in Positions /\ [pos |-> order, kind |-> "submitted"] \in Updates
    BY <1>2, <1>3, <1>15 DEF OrderAccepted, storeVars, pollerVars, ExecutorInv, Positions,
       Updates, UpdateKinds
  <2>2. Preserved
    BY <1>2, <1>3, <1>15, <2>1, BroadcastLemma DEF OrderAccepted, storeVars, pollerVars,
       Unjudged
  <2>3. RowsInv'
    BY <1>2, <1>3, <1>15, <2>1, <2>2 DEF OrderAccepted, storeVars, pollerVars, RowsInv
  <2>4. ExecutorInv'
    BY <1>2, <1>3, <1>15, <2>1, <2>2 DEF OrderAccepted, storeVars, pollerVars, ExecutorInv,
       Positions
  <2>5. SlotInv'
    BY <1>2, <1>3, <1>15, <2>1, <2>2 DEF OrderAccepted, storeVars, pollerVars, SlotInv,
       Positions
  <2>6. AwaitingInv'
    BY <1>2, <1>3, <1>15, <2>1, <2>2 DEF OrderAccepted, storeVars, pollerVars, AwaitingInv
  <2>7. TrackedInv'
    BY <1>2, <1>3, <1>15, <2>1, <2>2 DEF OrderAccepted, storeVars, pollerVars, TrackedInv
  <2>8. QueueInv'
    BY <1>2, <1>3, <1>15, <2>1, <2>2, BroadcastLemma DEF OrderAccepted, storeVars, pollerVars,
       QueueInv, Receivers
  <2>9. QED BY <1>1, <1>3, <1>15, <2>1, <2>2, <2>3, <2>4, <2>5, <2>6, <2>7, <2>8, InvFrame DEF
     IInv, OrderAccepted, storeVars, pollerVars, rotationVars, decisionVars, executorVars,
     storeVars, pollerVars
<1>16. CASE RecordOrderId
  <2>1. order \in Positions /\ status[order] = "submitted" /\ ~recorded[order] /\ order <= lastId /\ Unjudged(order)
    BY <1>2, <1>3, <1>16 DEF RecordOrderId, pollerVars, ExecutorInv, Positions
  <2>2. Preserved
    BY <1>2, <1>3, <1>16, <2>1, InvFrame DEF RecordOrderId, pollerVars
  <2>3. status' = status
    BY <1>2, <1>3, <1>16, <2>1, <2>2 DEF RecordOrderId, pollerVars
  <2>4. UNCHANGED <<lastId, slot, slotChanged, awaiting, tracked>>
    BY <1>2, <1>3, <1>16, <2>1, <2>2, <2>3 DEF RecordOrderId, pollerVars
  <2>5. RowsInv'
    BY <1>2, <1>3, <1>16, <2>1, <2>2, <2>3, <2>4 DEF RecordOrderId, pollerVars, RowsInv
  <2>6. ExecutorInv'
    BY <1>2, <1>3, <1>16, <2>1, <2>2, <2>3, <2>4 DEF RecordOrderId, pollerVars, ExecutorInv
  <2>7. SlotInv'
    BY <1>2, <1>3, <2>2, <2>3, <2>4 DEF SlotInv, Positions
  <2>8. AwaitingInv'
    BY <1>2, <1>3, <1>16, <2>1, <2>2, <2>3, <2>4 DEF RecordOrderId, pollerVars, AwaitingInv
  <2>9. TrackedInv'
    BY <1>2, <1>3, <1>16, <2>1, <2>2, <2>3, <2>4 DEF RecordOrderId, pollerVars, TrackedInv
  <2>10. QueueInv'
    BY <1>2, <1>3, <1>16, <2>1, <2>2, <2>3, <2>4 DEF RecordOrderId, pollerVars, QueueInv
  <2>11. QED BY <1>1, <1>3, <1>16, <2>1, <2>2, <2>3, <2>4, <2>5, <2>6, <2>7, <2>8, <2>9,
     <2>10, InvFrame DEF IInv, RecordOrderId, pollerVars, rotationVars, decisionVars,
     executorVars, storeVars, pollerVars
<1>17. CASE PlaceFailed
  <2>1. Preserved
    BY <1>2, <1>3, <1>17, InvFrame DEF PlaceFailed, SetSlot, storeVars
  <2>2. ExecutorInv'
    BY <1>2, <1>3, <1>17, <2>1 DEF PlaceFailed, SetSlot, storeVars, ExecutorInv, Positions
  <2>3. SlotInv'
    BY <1>2, <1>3, <1>17, <2>1 DEF PlaceFailed, SetSlot, storeVars, SlotInv
  <2>4. QED BY <1>1, <1>3, <1>17, <2>1, <2>2, <2>3, InvFrame DEF IInv, PlaceFailed, SetSlot,
     storeVars, rotationVars, decisionVars, executorVars, storeVars, pollerVars
<1>18. CASE RecordRejected
  <2>1. order \in Positions /\ status[order] = "submitted" /\ ~recorded[order] /\ order <= lastId /\ slot = 0
    BY <1>2, <1>3, <1>18 DEF RecordRejected, pollerVars, ExecutorInv, Positions
  <2>2. Preserved
    BY <1>2, <1>3, <1>18, <2>1, InvFrame DEF RecordRejected, pollerVars
  <2>3. RowsInv'
    BY <1>2, <1>3, <1>18, <2>1, <2>2 DEF RecordRejected, pollerVars, RowsInv
  <2>4. ExecutorInv'
    BY <1>2, <1>3, <1>18, <2>1, <2>2 DEF RecordRejected, pollerVars, ExecutorInv
  <2>5. SlotInv'
    BY <1>2, <1>3, <1>18, <2>1, <2>2 DEF RecordRejected, pollerVars, SlotInv
  <2>6. AwaitingInv'
    BY <1>2, <1>3, <1>18, <2>1, <2>2 DEF RecordRejected, pollerVars, AwaitingInv
  <2>7. TrackedInv'
    BY <1>2, <1>3, <1>18, <2>1, <2>2 DEF RecordRejected, pollerVars, TrackedInv
  <2>8. QueueInv'
    BY <1>2, <1>3, <1>18, <2>1, <2>2 DEF RecordRejected, pollerVars, QueueInv
  <2>9. QED BY <1>1, <1>3, <1>18, <2>1, <2>2, <2>3, <2>4, <2>5, <2>6, <2>7, <2>8, InvFrame DEF
     IInv, RecordRejected, pollerVars, rotationVars, decisionVars, executorVars, storeVars,
     pollerVars
<1>19. CASE ExchangeTakes
  <2>1. QueueInv'
    BY <1>2, <1>3, <1>19 DEF ExchangeTakes, storeVars, QueueInv
  <2>2. FillBookedOnce'
    BY <1>2, <1>3, <1>19 DEF ExchangeTakes, storeVars, FillBookedOnce
  <2>3. QED BY <1>1, <1>3, <1>19, <2>1, <2>2, InvFrame DEF IInv, ExchangeTakes, storeVars,
     rotationVars, decisionVars, executorVars, storeVars, pollerVars
<1>20. ASSUME NEW p \in Positions, ExchangeFinishes(p) PROVE IInv'
  <2>1. QueueInv'
    BY <1>2, <1>3, <1>20 DEF ExchangeFinishes, storeVars, QueueInv
  <2>2. FillBookedOnce'
    BY <1>2, <1>3, <1>20 DEF ExchangeFinishes, storeVars, FillBookedOnce
  <2>3. QED BY <1>1, <1>3, <1>20, <2>1, <2>2, InvFrame DEF IInv, ExchangeFinishes, storeVars,
     rotationVars, decisionVars, executorVars, storeVars, pollerVars
<1>21. CASE SeeSlot
  <2>1. Preserved
    BY <1>2, <1>3, <1>21, InvFrame DEF SeeSlot, executorVars, storeVars
  <2>2. SlotInv'
    BY <1>2, <1>3, <1>21, <2>1 DEF SeeSlot, executorVars, storeVars, SlotInv
  <2>3. AwaitingInv'
    BY <1>2, <1>3, <1>21, <2>1 DEF SeeSlot, executorVars, storeVars, AwaitingInv, SlotInv,
       Positions
  <2>4. QED BY <1>1, <1>3, <1>21, <2>1, <2>2, <2>3, InvFrame DEF IInv, SeeSlot, executorVars,
     storeVars, rotationVars, decisionVars, executorVars, storeVars, pollerVars
<1>22. CASE StartTick
  <2>1. Preserved
    BY <1>2, <1>3, <1>22, InvFrame DEF StartTick, executorVars, storeVars, Resolved,
       OpenWithOrderId
  <2>2. SlotInv'
    <3>1. /\ awaiting' \subseteq awaiting /\ tracked' \subseteq tracked \cup awaiting
          /\ UNCHANGED <<slot, slotChanged, lastId, status>>
      BY <1>22 DEF StartTick, executorVars, storeVars, Resolved
    <3>2. QED BY <1>2, <1>3, <2>1, <3>1 DEF SlotInv, Positions
  <2>3. AwaitingInv'
    BY <1>2, <1>3, <1>22, <2>1 DEF StartTick, executorVars, storeVars, Resolved,
       OpenWithOrderId, AwaitingInv
  <2>4. TrackedInv'
    BY <1>2, <1>3, <1>22, <2>1 DEF StartTick, executorVars, storeVars, Resolved,
       OpenWithOrderId, TrackedInv, AwaitingInv
  <2>5. QED BY <1>1, <1>3, <1>22, <2>1, <2>2, <2>3, <2>4, InvFrame DEF IInv, StartTick,
     executorVars, storeVars, Resolved, OpenWithOrderId, rotationVars, decisionVars,
     executorVars, storeVars, pollerVars
<1>23. ASSUME NEW p \in Positions, PollOrder(p) PROVE IInv'
  <2> DEFINE kind == StatusOf(exchange[p])
             u == [pos |-> p, kind |-> kind]
  <2>1. /\ p \in tracked /\ recorded[p] /\ status[p] = "submitted" /\ Unjudged(p)
        /\ p <= lastId /\ p \notin awaiting
    BY <1>2, <1>3, <1>23
    DEF PollOrder, IInv, TypeOK, PollerTypeOK, TrackedInv, AwaitingInv, RowsInv
  <2>2. /\ kind \in UpdateKinds /\ u \in Updates
        /\ kind = "filled" => exchange[p] = "matched"
        /\ kind \notin Verdicts => kind = "submitted"
    BY DEF StatusOf, Updates, UpdateKinds, Verdicts
  <2>3. /\ Broadcast(u)
        /\ tracked' \subseteq tracked /\ (p \in tracked' => kind = "submitted")
        /\ UNCHANGED <<slot, slotChanged, step, order, lastId, status, recorded, exchange,
                       awaiting, fills>>
    BY <2>2, <1>23 DEF PollOrder, executorVars, storeVars
  <2> HIDE DEF kind
  <2>4. \A q \in Positions : q # p \/ kind = "submitted" => (Unjudged(q) => Unjudged(q)')
    BY <1>2, <2>2, <2>3, BroadcastLemma DEF Unjudged
  <2>5. RowsInv'
    BY <1>2, <1>3, <2>1, <2>3, <2>4 DEF RowsInv
  <2>6. ExecutorInv'
    BY <1>2, <1>3, <2>1, <2>3, <2>4 DEF ExecutorInv, Positions
  <2>7. SlotInv'
    BY <1>2, <1>3, <2>1, <2>3, <2>4 DEF SlotInv, Positions
  <2>8. AwaitingInv'
    BY <1>2, <1>3, <2>1, <2>3, <2>4 DEF AwaitingInv
  <2>9. TrackedInv'
    BY <1>2, <1>3, <2>1, <2>3, <2>4 DEF TrackedInv
  <2>10. QueueInv'
    <3>1. \A r \in Receivers : OneVerdict(updates'[r])
      BY <1>2, <1>3, <2>1, <2>2, <2>3, BroadcastLemma DEF QueueInv, Unjudged
    <3>2. ASSUME NEW q \in Positions, q # p
          PROVE  /\ NoVerdict(updates'["persistence"], q)
                      \/ (recorded'[q] /\ status'[q] = "submitted")
                 /\ NoVerdict(updates'["bankroll"], q) \/ fills'[q] = 0
                 /\ TellsFill(updates'["bankroll"], q) => exchange'[q] = "matched"
      BY <1>2, <1>3, <2>2, <2>3, <3>2, BroadcastLemma DEF QueueInv, Receivers
    <3>3. /\ recorded'[p] /\ status'[p] = "submitted" /\ fills'[p] = 0
          /\ TellsFill(updates'["bankroll"], p) => exchange'[p] = "matched"
      BY <1>2, <1>3, <2>1, <2>2, <2>3, BroadcastLemma DEF QueueInv, Receivers, Unjudged
    <3>4. QED BY <3>1, <3>2, <3>3 DEF QueueInv
  <2>11. FillBookedOnce'
    BY <1>3, <2>3, InvFrame
  <2>12. QED BY <1>1, <2>5, <2>6, <2>7, <2>8, <2>9, <2>10, <2>11 DEF IInv
<1>24. ASSUME NEW p \in Positions, PollFails(p) PROVE IInv'
  <2>1. QED BY <1>1, <1>3, <1>24, InvFrame DEF IInv, PollFails, rotationVars, decisionVars,
     executorVars, storeVars, pollerVars
<1>25. CASE EndTick
  <2>1. QED BY <1>1, <1>3, <1>25, InvFrame DEF IInv, EndTick, rotationVars, decisionVars,
     executorVars, storeVars, pollerVars
<1>26. CASE PersistUpdate
  <2> DEFINE u == Head(updates["persistence"])
  <2>1. /\ Receive("persistence") /\ "persistence" \in Receivers
        /\ \/ UNCHANGED status
           \/ u.kind \in Verdicts /\ status' = [status EXCEPT ![u.pos] = u.kind]
        /\ UNCHANGED <<slot, slotChanged, step, order, lastId, recorded, exchange,
                       awaiting, tracked, fills>>
    BY <1>26 DEF PersistUpdate, executorVars, pollerVars, Receivers
  <2>2. /\ u.pos \in Positions /\ u.kind \in UpdateKinds
        /\ \A r \in Receivers :
             /\ \A q : NoVerdict(updates[r], q) => NoVerdict(updates'[r], q)
             /\ OneVerdict(updates'[r])
             /\ \A q : TellsFill(updates'[r], q) => TellsFill(updates[r], q)
        /\ u.kind # "submitted" => /\ ~NoVerdict(updates["persistence"], u.pos)
                                   /\ NoVerdict(updates'["persistence"], u.pos)
    BY <1>2, <1>3, <2>1, ReceiveLemma DEF QueueInv
  <2>3. Preserved
    BY <2>1, <2>2 DEF Unjudged
  <2>4. ASSUME NEW q \in Positions
        PROVE  \/ status'[q] = status[q]
               \/ /\ q = u.pos /\ status'[q] \in Verdicts /\ u.kind # "submitted"
                  /\ recorded[q] /\ status[q] = "submitted" /\ ~Unjudged(q)
    <3>1. CASE UNCHANGED status
      BY <3>1
    <3>2. CASE u.kind \in Verdicts /\ status' = [status EXCEPT ![u.pos] = u.kind]
      BY <1>2, <1>3, <2>1, <2>2, <3>2 DEF QueueInv, Unjudged, Verdicts
    <3>3. QED BY <2>1, <3>1, <3>2
  <2> HIDE DEF u
  <2>5. RowsInv'
    BY <1>2, <1>3, <2>1, <2>3, <2>4 DEF RowsInv, Verdicts
  <2>6. ExecutorInv'
    BY <1>2, <1>3, <2>1, <2>3, <2>4 DEF ExecutorInv, Positions
  <2>7. SlotInv'
    BY <1>2, <1>3, <2>1, <2>3, <2>4 DEF SlotInv, Positions
  <2>8. AwaitingInv'
    BY <1>2, <1>3, <2>1, <2>3, <2>4 DEF AwaitingInv
  <2>9. TrackedInv'
    BY <1>2, <1>3, <2>1, <2>3, <2>4 DEF TrackedInv
  <2>10. QueueInv'
    BY <1>2, <1>3, <2>1, <2>2, <2>4 DEF QueueInv, Receivers
  <2>11. FillBookedOnce'
    BY <1>3, <2>1, InvFrame
  <2>12. QED BY <1>1, <2>5, <2>6, <2>7, <2>8, <2>9, <2>10, <2>11 DEF IInv
<1>27. CASE BookUpdate
  <2> DEFINE u == Head(updates["bankroll"])
  <2>1. /\ Receive("bankroll") /\ "bankroll" \in Receivers
        /\ fills' = IF u.kind = "filled" THEN [fills EXCEPT ![u.pos] = @ + 1] ELSE fills
        /\ UNCHANGED <<slot, slotChanged, step, order, lastId, status, recorded, exchange,
                       awaiting, tracked>>
    BY <1>27 DEF BookUpdate, executorVars, pollerVars, storeVars, Receivers
  <2>2. /\ u.pos \in Positions /\ u.kind \in UpdateKinds
        /\ \A r \in Receivers :
             /\ \A q : NoVerdict(updates[r], q) => NoVerdict(updates'[r], q)
             /\ OneVerdict(updates'[r])
             /\ \A q : TellsFill(updates'[r], q) => TellsFill(updates[r], q)
        /\ u.kind = "filled" => /\ TellsFill(updates["bankroll"], u.pos)
                                /\ ~NoVerdict(updates["bankroll"], u.pos)
                                /\ NoVerdict(updates'["bankroll"], u.pos)
    BY <1>2, <1>3, <2>1, ReceiveLemma DEF QueueInv
  <2>3. ASSUME NEW q \in Positions
        PROVE  \/ fills'[q] = fills[q]
               \/ /\ q = u.pos /\ u.kind = "filled" /\ ~Unjudged(q)
                  /\ fills[q] = 0 /\ fills'[q] = 1 /\ exchange[q] = "matched"
    <3>1. CASE u.kind = "filled"
      BY <1>2, <1>3, <2>1, <2>2, <3>1 DEF QueueInv, Unjudged
    <3>2. CASE u.kind # "filled"
      BY <2>1, <3>2
    <3>3. QED BY <3>1, <3>2
  <2> HIDE DEF u
  <2>4. Preserved
    BY <2>2, <2>3 DEF Unjudged
  <2>5. RowsInv'
    BY <1>2, <1>3, <2>1, <2>4 DEF RowsInv
  <2>6. ExecutorInv'
    BY <1>2, <1>3, <2>1, <2>4 DEF ExecutorInv, Positions
  <2>7. SlotInv'
    BY <1>2, <1>3, <2>1, <2>4 DEF SlotInv, Positions
  <2>8. AwaitingInv'
    BY <1>2, <1>3, <2>1, <2>4 DEF AwaitingInv
  <2>9. TrackedInv'
    BY <1>2, <1>3, <2>1, <2>4 DEF TrackedInv
  <2>10. QueueInv'
    BY <1>2, <1>3, <2>1, <2>2, <2>3 DEF QueueInv, Receivers
  <2>11. FillBookedOnce'
    BY <1>2, <1>3, <2>1, <2>3 DEF FillBookedOnce
  <2>12. QED BY <1>1, <2>5, <2>6, <2>7, <2>8, <2>9, <2>10, <2>11 DEF IInv
<1>28. CASE Crash
  <2>1. \A q \in Positions : Unjudged(q)'
    BY <1>2, <1>3, <1>28 DEF Crash, storeVars, Unjudged, NoVerdict, Receivers
  <2>2. RowsInv'
    BY <1>2, <1>3, <1>28, <2>1 DEF Crash, storeVars, RowsInv
  <2>3. ExecutorInv'
    BY <1>2, <1>3, <1>28, <2>1 DEF Crash, storeVars, ExecutorInv
  <2>4. SlotInv'
    BY <1>2, <1>3, <1>28, <2>1 DEF Crash, storeVars, SlotInv
  <2>5. AwaitingInv'
    BY <1>2, <1>3, <1>28, <2>1 DEF Crash, storeVars, AwaitingInv
  <2>6. TrackedInv'
    BY <1>2, <1>3, <1>28, <2>1 DEF Crash, storeVars, TrackedInv
  <2>7. QueueInv'
    BY <1>2, <1>3, <1>28, <2>1 DEF Crash, storeVars, QueueInv, OneVerdict, NoVerdict,
       TellsFill, Receivers
  <2>8. FillBookedOnce'
    BY <1>2, <1>3, <1>28, <2>1 DEF Crash, storeVars, FillBookedOnce
  <2>9. QED BY <1>1, <1>3, <1>28, <2>1, <2>2, <2>3, <2>4, <2>5, <2>6, <2>7, <2>8, InvFrame DEF
     IInv, Crash, storeVars, rotationVars, decisionVars, executorVars, storeVars, pollerVars
<1>29. CASE UNCHANGED vars
  BY <1>1, <1>3, <1>29, InvFrame DEF IInv, vars, rotationVars, decisionVars, executorVars,
     storeVars, pollerVars
<1>30. QED
  BY <1>4, <1>5, <1>6, <1>7, <1>8, <1>9, <1>10, <1>11, <1>12, <1>13, <1>14, <1>15, <1>16,
     <1>17, <1>18, <1>19, <1>20, <1>21, <1>22, <1>23, <1>24, <1>25, <1>26, <1>27, <1>28, <1>29
  DEF Next, Executor, Poller

-----------------------------------------------------------------------------
(* The theorems. *)

\* The invariant holds before the first task runs.
LEMMA InitInv == Init => IInv
<1> SUFFICES ASSUME Init PROVE IInv
  OBVIOUS
<1> USE MaxRoundsAssumption, OrderPathAssumption
<1>1. MarketTypeOK
  BY DEF Init, MarketInit, MarketTypeOK, NoMarket, Markets, MarketStatuses, Phases
<1>2. TypeOK
  <2>1. DecisionTypeOK /\ PollerTypeOK
    <3>1. 0 \in 0..MaxRounds /\ <<>> \in Seq(Rounds)
      OBVIOUS
    <3>2. QED BY <3>1 DEF Init, DecisionTypeOK, PollerTypeOK
  <2>2. ExecutorTypeOK
    <3>1. 0 \in 0..MaxRounds /\ 0 \in 0..MaxPositions
      OBVIOUS
    <3>2. QED BY <3>1 DEF Init, ExecutorTypeOK, Steps
  <2>3. StoreTypeOK
    BY DEF Init, StoreTypeOK, RowStatuses
  <2>4. updates \in [Receivers -> Seq(Updates)]
    BY DEF Init, Receivers
  <2>5. QED BY <1>1, <2>1, <2>2, <2>3, <2>4 DEF Init, TypeOK, OrderStates
<1>3. RowsInv /\ ExecutorInv /\ SlotInv /\ AwaitingInv /\ TrackedInv /\ FillBookedOnce
  BY DEF Init, RowsInv, ExecutorInv, SlotInv, AwaitingInv, TrackedInv, FillBookedOnce,
     Unjudged, NoVerdict, Receivers, Positions
<1>4. QueueInv
  BY DEF Init, QueueInv, OneVerdict, NoVerdict, TellsFill, Receivers
<1>5. QED BY <1>2, <1>3, <1>4 DEF IInv

\* The inductive invariant holds in every state the tasks can reach.
THEOREM Invariance == Spec => []IInv
<1>1. IInv /\ [Next]_vars => IInv'
  BY InvStep
<1>2. QED BY InitInv, <1>1, PTL DEF Spec

\* Every variable keeps to its type, for any bounds and any faults.
THEOREM TypeCorrect == Spec => []TypeOK
<1>1. IInv => TypeOK
  BY DEF IInv
<1>2. QED BY Invariance, <1>1, PTL

\* Whatever fails or lags, and over any number of rounds and restarts, no fill is
\* booked twice, and none the exchange did not match (bankroll.rs 36-52).
THEOREM FillsBookedOnce == Spec => []FillBookedOnce
<1>1. IInv => FillBookedOnce
  BY DEF IInv
<1>2. QED BY Invariance, <1>1, PTL

\* A step of the tasks is a step of the position lifecycle, or none at all.
LEMMA LifecycleStep ==
  ASSUME IInv, [Next]_vars
  PROVE  [Lifecycle!Next]_status
<1> USE DEF Lifecycle!Next, Lifecycle!New, Lifecycle!Move, Lifecycle!Transitions,
            Lifecycle!Statuses
<1>1. CASE InsertPosition
  <2>1. lastId + 1 \in Positions /\ status[lastId + 1] = "none"
    BY <1>1, OrderPathAssumption
    DEF InsertPosition, IInv, TypeOK, StoreTypeOK, ExecutorInv, RowsInv, Positions
  <2>2. QED BY <1>1, <2>1 DEF InsertPosition
<1>2. CASE RecordOrderId
  <2>1. status' = status
    BY <1>2 DEF RecordOrderId, IInv, TypeOK, StoreTypeOK, ExecutorInv, Positions
  <2>2. QED BY <2>1
<1>3. CASE RecordRejected
  <2>1. order \in Positions /\ status[order] = "submitted"
    BY <1>3, OrderPathAssumption
    DEF RecordRejected, IInv, TypeOK, ExecutorInv, StoreTypeOK, Positions
  <2>2. CASE UNCHANGED status
    BY <2>2
  <2>3. CASE status' = [status EXCEPT ![order] = "rejected"]
    BY <2>1, <2>3
  <2>4. QED BY <1>3, <2>2, <2>3 DEF RecordRejected
<1>4. CASE PersistUpdate
  <2> DEFINE u == Head(updates["persistence"])
  <2>1. CASE UNCHANGED status
    BY <2>1
  <2>2. CASE u.kind \in Verdicts /\ status' = [status EXCEPT ![u.pos] = u.kind]
    <3>1. /\ updates \in [Receivers -> Seq(Updates)] /\ Receive("persistence")
          /\ "persistence" \in Receivers
      BY <1>4 DEF PersistUpdate, IInv, TypeOK, Receivers
    <3>2. u.pos \in Positions /\ ~NoVerdict(updates["persistence"], u.pos)
      BY <2>2, <3>1, ReceiveLemma DEF Verdicts
    <3>3. status[u.pos] = "submitted"
      BY <3>2 DEF IInv, QueueInv
    <3> HIDE DEF u
    <3>4. QED BY <2>2, <3>2, <3>3 DEF Verdicts
  <2>3. QED BY <1>4, <2>1, <2>2 DEF PersistUpdate
<1>5. CASE UNCHANGED status
  BY <1>5
<1>6. QED
  <2> HIDE DEF Lifecycle!Next
  <2>1. ASSUME PublishMarket \/ PrefetchFails \/ StartDecision \/ SendIntent \/ Hold \/ Crash
        PROVE  UNCHANGED status
    BY <2>1 DEF PublishMarket, PrefetchFails, StartDecision, SendIntent, Hold, Crash, storeVars
  <2>2. ASSUME RotateSlot \/ RejectIntent \/ DropIntent \/ AdmitIntent \/ InsertFails
                 \/ OrderAccepted \/ PlaceFailed
        PROVE  UNCHANGED status
    BY <2>2 DEF RotateSlot, RejectIntent, DropIntent, DiscardIntent, AdmitIntent, InsertFails,
                OrderAccepted, PlaceFailed, storeVars
  <2>3. ASSUME ExchangeTakes \/ (\E p \in Positions : ExchangeFinishes(p))
        PROVE  UNCHANGED status
    BY <2>3 DEF ExchangeTakes, ExchangeFinishes, storeVars
  <2>4. ASSUME Poller
        PROVE  UNCHANGED status
    BY <2>4 DEF Poller, SeeSlot, StartTick, EndTick, PollOrder, PollFails, storeVars
  <2>5. ASSUME BookUpdate \/ UNCHANGED vars
        PROVE  UNCHANGED status
    BY <2>5 DEF BookUpdate, vars, storeVars
  <2>6. QED BY <1>1, <1>2, <1>3, <1>4, <1>5, <2>1, <2>2, <2>3, <2>4, <2>5 DEF Next, Executor

\* The store's status column, written by three tasks none of which reads it first,
\* moves only as PositionState's table allows (state.rs 119-139).
THEOREM ImplementsLifecycle == Spec => StatusFollowsLifecycle
<1>1. Init => Lifecycle!Init
  BY DEF Init, Lifecycle!Init
<1>2. IInv /\ [Next]_vars => [Lifecycle!Next]_status
  BY LifecycleStep
<1>3. QED BY <1>1, <1>2, Invariance, PTL DEF Spec, StatusFollowsLifecycle, Lifecycle!Spec

-----------------------------------------------------------------------------
(* One order in play, and rows that say what the exchange does, as long as place_order *)
(* never fails for an order the exchange took.                                         *)

\* The slot names the order in play, or about to be, out of those claimed since its reset.
ClaimInv ==
  /\ step = "inserting" => slot = 0
  /\ step = "placing" => slot = order
  /\ \A p \in claimed : p <= lastId
  /\ \A p \in claimed : InPlay(p) \/ (step = "placing" /\ p = order) => p = slot

\* Every verdict of queue q is what order_status says of an exchange that is as ex has it.
Truthful(q, ex) ==
  \A i \in 1..Len(q) : q[i].kind # "submitted" => StatusOf(ex[q[i].pos]) = q[i].kind

QueuesTruthful == \A r \in Receivers : Truthful(updates[r], exchange)

\* An order whose placing failed is none the exchange has.
FailedIsNone == step = "rejecting" => exchange[order] = "none"

AgreeInv == ClaimInv /\ QueuesTruthful /\ FailedIsNone /\ StoreMatchesExchange

LEMMA TruthfulTail ==
  ASSUME NEW q \in Seq(Updates), NEW ex, q # <<>>, Truthful(q, ex)
  PROVE  /\ Truthful(Tail(q), ex)
         /\ Head(q).kind # "submitted" => StatusOf(ex[Head(q).pos]) = Head(q).kind
<1>1. /\ Len(q) \in Nat \ {0} /\ Len(Tail(q)) = Len(q) - 1 /\ Head(q) = q[1]
      /\ \A i \in 1..Len(Tail(q)) : Tail(q)[i] = q[i + 1] /\ i + 1 \in 1..Len(q)
  OBVIOUS
<1>2. QED BY <1>1 DEF Truthful

LEMMA TruthfulAppend ==
  ASSUME NEW q \in Seq(Updates), NEW u \in Updates, NEW ex, Truthful(q, ex),
         u.kind # "submitted" => StatusOf(ex[u.pos]) = u.kind
  PROVE  Truthful(Append(q, u), ex)
<1>1. /\ Len(q) \in Nat /\ Len(Append(q, u)) = Len(q) + 1
      /\ Append(q, u)[Len(q) + 1] = u
      /\ \A i \in 1..Len(q) : Append(q, u)[i] = q[i]
      /\ \A i \in 1..(Len(q) + 1) : i \in 1..Len(q) \/ i = Len(q) + 1
  OBVIOUS
<1>2. QED BY <1>1 DEF Truthful

LEMMA TruthfulBroadcast ==
  ASSUME updates \in [Receivers -> Seq(Updates)], QueuesTruthful, NEW u \in Updates,
         Broadcast(u), u.kind # "submitted" => StatusOf(exchange[u.pos]) = u.kind,
         UNCHANGED exchange
  PROVE  QueuesTruthful'
<1>1. SUFFICES ASSUME NEW r \in Receivers PROVE Truthful(updates'[r], exchange)
  BY DEF QueuesTruthful, Truthful
<1>2. updates[r] \in Seq(Updates) /\ Truthful(updates[r], exchange)
      /\ updates'[r] = Push(updates[r], u)
  BY DEF QueuesTruthful, Broadcast
<1> DEFINE q == updates[r]
<1> HIDE DEF q
<1>3. CASE Len(q) < UpdateCap
  BY <1>2, <1>3, TruthfulAppend DEF Push, q
<1>4. CASE ~(Len(q) < UpdateCap)
  <2>1. q # <<>> /\ q \in Seq(Updates)
    BY <1>2, <1>4, OrderPathAssumption DEF q
  <2>2. Truthful(Tail(q), exchange) /\ Tail(q) \in Seq(Updates)
    BY <1>2, <2>1, TruthfulTail DEF q
  <2> DEFINE s == Tail(q)
  <2>3. Push(q, u) = Append(s, u)
    BY <1>4 DEF Push
  <2> HIDE DEF s
  <2>4. Truthful(Append(s, u), exchange)
    BY <2>2, TruthfulAppend DEF s
  <2>5. QED BY <1>2, <2>3, <2>4 DEF q
<1>5. QED BY <1>3, <1>4

LEMMA TruthfulReceive ==
  ASSUME updates \in [Receivers -> Seq(Updates)], QueuesTruthful, NEW r \in Receivers,
         Receive(r), UNCHANGED exchange
  PROVE  /\ QueuesTruthful'
         /\ Head(updates[r]).kind # "submitted" =>
              StatusOf(exchange[Head(updates[r]).pos]) = Head(updates[r]).kind
<1>1. /\ updates[r] \in Seq(Updates) /\ updates[r] # <<>>
      /\ updates'[r] = Tail(updates[r])
      /\ \A s \in Receivers : s # r => updates'[s] = updates[s]
  BY DEF Receive
<1>2. /\ Truthful(Tail(updates[r]), exchange)
      /\ Head(updates[r]).kind # "submitted" =>
           StatusOf(exchange[Head(updates[r]).pos]) = Head(updates[r]).kind
  BY <1>1, TruthfulTail DEF QueuesTruthful
<1>3. \A s \in Receivers : Truthful(updates'[s], exchange)
  BY <1>1, <1>2 DEF QueuesTruthful
<1>4. QED BY <1>2, <1>3 DEF QueuesTruthful, Truthful

\* No verdict is given on an order that is not final, and a final order stays as it is.
LEMMA ExchangeMovesAgree ==
  ASSUME IInv, AgreeInv, ExchangeTakes \/ \E p \in Positions : ExchangeFinishes(p)
  PROVE  AgreeInv'
<1>1. PICK p \in Positions :
        /\ \/ exchange[p] = "none" /\ p = order /\ step = "placing"
           \/ exchange[p] = "live"
        /\ \E s \in OrderStates : exchange' = [exchange EXCEPT ![p] = s]
  <2>1. CASE ExchangeTakes
    <3>1. step = "placing" /\ exchange[order] = "none"
          /\ exchange' = [exchange EXCEPT ![order] = "live"]
      BY <2>1 DEF ExchangeTakes
    <3>2. order \in Positions
      BY <3>1, OrderPathAssumption DEF IInv, ExecutorInv, TypeOK, StoreTypeOK, Positions
    <3>3. "live" \in OrderStates
      BY DEF OrderStates
    <3>4. QED BY <3>1, <3>2, <3>3
  <2>2. CASE \E p \in Positions : ExchangeFinishes(p)
    BY <2>2 DEF ExchangeFinishes, OrderStates, FinalStates
  <2>3. QED BY <2>1, <2>2
<1>2. /\ exchange \in [Positions -> OrderStates]
      /\ exchange[p] = "none" \/ exchange[p] = "live"
      /\ \A q \in Positions : q # p => exchange'[q] = exchange[q]
      /\ UNCHANGED <<slot, step, order, claimed, lastId, status, updates>>
  BY <1>1 DEF IInv, TypeOK, ExchangeTakes, ExchangeFinishes, executorVars, storeVars
<1>3. updates \in [Receivers -> Seq(Updates)] /\ claimed \subseteq Positions
  BY DEF IInv, TypeOK, ExecutorTypeOK
<1>4. QueuesTruthful'
  <2>1. SUFFICES ASSUME NEW r \in Receivers, NEW i \in 1..Len(updates[r]),
                        updates[r][i].kind # "submitted"
                 PROVE  StatusOf(exchange'[updates[r][i].pos]) = updates[r][i].kind
    BY <1>2 DEF QueuesTruthful, Truthful
  <2>2. updates[r][i] \in Updates
    BY <1>3
  <2>3. updates[r][i].pos \in Positions /\ updates[r][i].kind \in UpdateKinds
    BY <2>2 DEF Updates
  <2>4. StatusOf(exchange[updates[r][i].pos]) = updates[r][i].kind
    BY <2>1 DEF AgreeInv, QueuesTruthful, Truthful
  <2>5. updates[r][i].pos # p
    BY <1>2, <2>1, <2>4 DEF StatusOf
  <2>6. QED BY <1>2, <2>3, <2>4, <2>5
<1>5. FailedIsNone'
  <2>1. step = "rejecting" => order # p
    BY <1>1, <1>2 DEF AgreeInv, FailedIsNone
  <2>2. step = "rejecting" => order \in Positions
    BY OrderPathAssumption DEF IInv, ExecutorInv, TypeOK, StoreTypeOK, Positions
  <2>3. QED BY <1>2, <2>1, <2>2 DEF AgreeInv, FailedIsNone
<1>6. StoreMatchesExchange'
  <2>1. exchange[p] = "none" => status[p] = "submitted"
    BY <1>1 DEF IInv, ExecutorInv
  <2>2. status[p] \notin {"filled", "rejected", "cancelled"}
    <3>1. CASE exchange[p] = "live"
      BY <3>1 DEF AgreeInv, StoreMatchesExchange
    <3>2. CASE exchange[p] = "none"
      BY <2>1, <3>2
    <3>3. QED BY <1>2, <3>1, <3>2
  <2>3. QED BY <1>2, <2>2 DEF AgreeInv, StoreMatchesExchange
<1>7. ClaimInv'
  <2>1. \A q \in claimed : InPlay(q)' => InPlay(q) \/ (step = "placing" /\ q = order)
    <3>1. SUFFICES ASSUME NEW q \in claimed, InPlay(q)', ~InPlay(q)
                   PROVE  step = "placing" /\ q = order
      OBVIOUS
    <3>2. q = p
      BY <1>2, <1>3, <3>1 DEF InPlay
    <3>3. QED BY <1>1, <3>1, <3>2 DEF InPlay
  <2>2. QED BY <1>2, <2>1 DEF AgreeInv, ClaimInv
<1>8. QED BY <1>4, <1>5, <1>6, <1>7 DEF AgreeInv

\* A conjunct outlives a step that leaves its variables alone.
LEMMA AgreeFrame ==
  ASSUME AgreeInv
  PROVE  /\ UNCHANGED <<slot, step, order, claimed, lastId, exchange>> => ClaimInv'
         /\ UNCHANGED <<updates, exchange>> => QueuesTruthful'
         /\ UNCHANGED <<step, order, exchange>> => FailedIsNone'
         /\ UNCHANGED <<status, exchange>> => StoreMatchesExchange'
<1>1. UNCHANGED <<slot, step, order, claimed, lastId, exchange>> => ClaimInv'
  BY DEF AgreeInv, ClaimInv, InPlay
<1>2. UNCHANGED <<updates, exchange>> => QueuesTruthful'
  BY DEF AgreeInv, QueuesTruthful, Truthful
<1>3. UNCHANGED <<step, order, exchange>> => FailedIsNone'
  BY DEF AgreeInv, FailedIsNone
<1>4. UNCHANGED <<status, exchange>> => StoreMatchesExchange'
  BY DEF AgreeInv, StoreMatchesExchange
<1>5. QED BY <1>1, <1>2, <1>3, <1>4

\* The executor's steps on the slot.
LEMMA ExecutorAgrees ==
  ASSUME IInv, AgreeInv, "lostReply" \notin Faults,
         \/ RotateSlot \/ AdmitIntent \/ InsertPosition \/ InsertFails
         \/ RecordOrderId \/ PlaceFailed \/ RecordRejected
  PROVE  AgreeInv'
<1>1. /\ slot \in 0..MaxPositions /\ order \in 0..MaxPositions /\ lastId \in 0..MaxPositions
      /\ claimed \subseteq Positions /\ MaxPositions \in Nat
      /\ status \in [Positions -> RowStatuses]
  BY OrderPathAssumption DEF IInv, TypeOK, ExecutorTypeOK, StoreTypeOK
<1>2. QueuesTruthful'
  <2>1. UNCHANGED <<updates, exchange>>
    BY DEF RotateSlot, AdmitIntent, InsertPosition, InsertFails, RecordOrderId, PlaceFailed,
           RecordRejected
  <2>2. QED BY <2>1, AgreeFrame
<1>3. CASE RotateSlot
  <2>1. ClaimInv'
    BY <1>3 DEF RotateSlot, SetSlot, ClaimInv
  <2>2. FailedIsNone' /\ StoreMatchesExchange'
    BY <1>3, AgreeFrame DEF RotateSlot, storeVars
  <2>3. QED BY <1>2, <2>1, <2>2 DEF AgreeInv
<1>4. CASE AdmitIntent
  <2>1. ClaimInv'
    BY <1>4 DEF AgreeInv, AdmitIntent, ClaimInv, InPlay, storeVars
  <2>2. FailedIsNone' /\ StoreMatchesExchange'
    BY <1>4, AgreeFrame DEF AdmitIntent, storeVars, FailedIsNone
  <2>3. QED BY <1>2, <2>1, <2>2 DEF AgreeInv
<1>5. CASE InsertFails
  <2>1. ClaimInv'
    BY <1>5 DEF AgreeInv, InsertFails, ClaimInv, InPlay, storeVars
  <2>2. FailedIsNone' /\ StoreMatchesExchange'
    BY <1>5, AgreeFrame DEF InsertFails, storeVars, FailedIsNone
  <2>3. QED BY <1>2, <2>1, <2>2 DEF AgreeInv
<1>6. CASE InsertPosition
  <2> DEFINE p == lastId + 1
  <2>1. /\ step = "inserting" /\ slot = 0 /\ p \in Positions /\ p # 0 /\ lastId' = p
        /\ status' = [status EXCEPT ![p] = "submitted"]
        /\ order' = p /\ slot' = p /\ claimed' = claimed \cup {p} /\ step' = "placing"
        /\ UNCHANGED exchange
    BY <1>1, <1>6 DEF AgreeInv, ClaimInv, InsertPosition, SetSlot, IInv, ExecutorInv, Positions
  <2>2. \A q \in claimed : ~InPlay(q) /\ q <= p /\ q # p
    <3>1. SUFFICES ASSUME NEW q \in claimed PROVE ~InPlay(q) /\ q <= p /\ q # p
      OBVIOUS
    <3>2. q <= lastId /\ q # 0 /\ q \in Nat /\ lastId \in Nat
      BY <1>1 DEF AgreeInv, ClaimInv, Positions
    <3>3. ~InPlay(q)
      BY <2>1, <3>2 DEF AgreeInv, ClaimInv
    <3>4. QED BY <3>2, <3>3
  <2> HIDE DEF p
  <2>3. ClaimInv'
    <3>1. \A q \in claimed' : q = p \/ (q \in claimed /\ ~InPlay(q) /\ q <= p /\ q # p)
      BY <2>1, <2>2
    <3>2. p <= p
      BY <2>1 DEF Positions
    <3>3. QED BY <2>1, <3>1, <3>2 DEF ClaimInv, InPlay
  <2>4. FailedIsNone'
    BY <2>1 DEF FailedIsNone
  <2>5. StoreMatchesExchange'
    BY <1>1, <2>1 DEF AgreeInv, StoreMatchesExchange
  <2>6. QED BY <1>2, <2>3, <2>4, <2>5 DEF AgreeInv
<1>7. CASE RecordOrderId
  <2>1. /\ step = "recording" /\ step' = "select" /\ order \in Positions
        /\ status[order] = "submitted" /\ UNCHANGED <<slot, claimed, lastId, exchange>>
    BY <1>1, <1>7 DEF RecordOrderId, IInv, ExecutorInv, Positions
  <2>2. status' = status
    BY <1>1, <1>7, <2>1 DEF RecordOrderId
  <2>3. ClaimInv'
    BY <2>1 DEF AgreeInv, ClaimInv, InPlay
  <2>4. FailedIsNone' /\ StoreMatchesExchange'
    BY <2>1, <2>2, AgreeFrame DEF FailedIsNone
  <2>5. QED BY <1>2, <2>3, <2>4 DEF AgreeInv
<1>8. CASE PlaceFailed
  <2>1. /\ step = "placing" /\ step' = "rejecting" /\ exchange[order] = "none"
        /\ slot = order /\ slot' = 0
        /\ UNCHANGED <<claimed, lastId, exchange, order, status>>
    BY <1>8 DEF PlaceFailed, PlaceErrs, SetSlot, AgreeInv, ClaimInv, storeVars
  <2>2. \A q \in claimed : ~InPlay(q)
    BY <2>1 DEF AgreeInv, ClaimInv, InPlay
  <2>3. ClaimInv'
    BY <2>1, <2>2 DEF AgreeInv, ClaimInv, InPlay
  <2>4. FailedIsNone' /\ StoreMatchesExchange'
    BY <2>1, AgreeFrame DEF FailedIsNone
  <2>5. QED BY <1>2, <2>3, <2>4 DEF AgreeInv
<1>9. CASE RecordRejected
  <2>1. /\ step = "rejecting" /\ step' = "select" /\ exchange[order] = "none"
        /\ order \in Positions /\ UNCHANGED <<slot, claimed, lastId, exchange>>
        /\ \/ status' = [status EXCEPT ![order] = "rejected"]
           \/ UNCHANGED status
    BY <1>1, <1>9 DEF RecordRejected, IInv, ExecutorInv, AgreeInv, FailedIsNone, Positions
  <2>2. ClaimInv'
    BY <2>1 DEF AgreeInv, ClaimInv, InPlay
  <2>3. FailedIsNone'
    BY <2>1 DEF FailedIsNone
  <2>4. StoreMatchesExchange'
    BY <1>1, <2>1 DEF AgreeInv, StoreMatchesExchange
  <2>5. QED BY <1>2, <2>2, <2>3, <2>4 DEF AgreeInv
<1>10. QED BY <1>3, <1>4, <1>5, <1>6, <1>7, <1>8, <1>9

\* What is broadcast is what the exchange says, and what the store is told of.
LEMMA BroadcastAgrees ==
  ASSUME IInv, AgreeInv,
         \/ OrderAccepted \/ PersistUpdate \/ BookUpdate
         \/ \E p \in Positions : PollOrder(p)
  PROVE  AgreeInv'
<1>1. updates \in [Receivers -> Seq(Updates)] /\ QueuesTruthful
      /\ status \in [Positions -> RowStatuses]
  BY DEF IInv, TypeOK, StoreTypeOK, AgreeInv
<1>2. CASE OrderAccepted
  <2> DEFINE u == [pos |-> order, kind |-> "submitted"]
  <2>1. u \in Updates
    BY <1>2, OrderPathAssumption DEF OrderAccepted, IInv, ExecutorInv, TypeOK, StoreTypeOK,
                                     Positions, Updates, UpdateKinds
  <2>2. Broadcast(u) /\ UNCHANGED exchange /\ u.kind = "submitted"
    BY <1>2 DEF OrderAccepted
  <2> HIDE DEF u
  <2>3. QueuesTruthful'
    BY <1>1, <2>1, <2>2, TruthfulBroadcast
  <2>4. /\ step = "placing" /\ step' = "recording" /\ exchange[order] # "none"
        /\ UNCHANGED <<slot, order, claimed, lastId, exchange, status>>
    BY <1>2 DEF OrderAccepted, storeVars
  <2>5. ClaimInv'
    BY <2>4 DEF AgreeInv, ClaimInv, InPlay
  <2>6. FailedIsNone' /\ StoreMatchesExchange'
    BY <2>4, AgreeFrame DEF FailedIsNone
  <2>7. QED BY <2>3, <2>5, <2>6 DEF AgreeInv
<1>3. CASE PersistUpdate
  <2> DEFINE u == Head(updates["persistence"])
  <2>1. /\ Receive("persistence") /\ "persistence" \in Receivers
        /\ \/ UNCHANGED status
           \/ u.kind \in Verdicts /\ status' = [status EXCEPT ![u.pos] = u.kind]
        /\ UNCHANGED <<slot, step, order, claimed, lastId, exchange>>
    BY <1>3 DEF PersistUpdate, executorVars, Receivers
  <2>2. /\ QueuesTruthful'
        /\ u.kind # "submitted" => StatusOf(exchange[u.pos]) = u.kind
    BY <1>1, <2>1, TruthfulReceive
  <2> HIDE DEF u
  <2>3. StoreMatchesExchange'
    <3>1. CASE UNCHANGED status
      BY <2>1, <3>1, AgreeFrame
    <3>2. CASE u.kind \in Verdicts /\ status' = [status EXCEPT ![u.pos] = u.kind]
      <4>1. StatusOf(exchange[u.pos]) = u.kind
        BY <2>2, <3>2 DEF Verdicts
      <4>2. /\ u.kind = "filled" => exchange[u.pos] = "matched"
            /\ u.kind = "cancelled" => exchange[u.pos] = "canceled"
            /\ u.kind = "rejected" => exchange[u.pos] \in {"none", "unmatched"}
        BY <4>1 DEF StatusOf
      <4>3. \A q \in Positions : status'[q] = IF q = u.pos THEN u.kind ELSE status[q]
        BY <1>1, <3>2
      <4>4. QED BY <2>1, <4>2, <4>3 DEF AgreeInv, StoreMatchesExchange
    <3>3. QED BY <2>1, <3>1, <3>2
  <2>4. QED BY <2>1, <2>2, <2>3, AgreeFrame DEF AgreeInv
<1>4. CASE BookUpdate
  <2>1. /\ Receive("bankroll") /\ "bankroll" \in Receivers
        /\ UNCHANGED <<slot, step, order, claimed, lastId, exchange, status>>
    BY <1>4 DEF BookUpdate, executorVars, storeVars, Receivers
  <2>2. QueuesTruthful'
    BY <1>1, <2>1, TruthfulReceive
  <2>3. QED BY <2>1, <2>2, AgreeFrame DEF AgreeInv
<1>5. ASSUME NEW p \in Positions, PollOrder(p) PROVE AgreeInv'
  <2> DEFINE u == [pos |-> p, kind |-> StatusOf(exchange[p])]
  <2>1. u \in Updates /\ StatusOf(exchange[u.pos]) = u.kind
    BY DEF StatusOf, Updates, UpdateKinds
  <2>2. /\ Broadcast(u)
        /\ UNCHANGED <<slot, step, order, claimed, lastId, exchange, status>>
    BY <1>5 DEF PollOrder, executorVars, storeVars
  <2> HIDE DEF u
  <2>3. QueuesTruthful'
    BY <1>1, <2>1, <2>2, TruthfulBroadcast
  <2>4. QED BY <2>2, <2>3, AgreeFrame DEF AgreeInv
<1>6. QED BY <1>2, <1>3, <1>4, <1>5

LEMMA CrashAgrees ==
  ASSUME IInv, AgreeInv, Crash
  PROVE  AgreeInv'
<1>1. UNCHANGED <<lastId, status, exchange>>
  BY DEF Crash, storeVars
<1>2. ClaimInv' /\ FailedIsNone'
  BY DEF Crash, ClaimInv, FailedIsNone
<1>3. QueuesTruthful'
  BY DEF Crash, QueuesTruthful, Truthful
<1>4. QED BY <1>1, <1>2, <1>3, AgreeFrame DEF AgreeInv

LEMMA AgreeStep ==
  ASSUME IInv, AgreeInv, "lostReply" \notin Faults, [Next]_vars
  PROVE  AgreeInv'
<1>1. CASE \/ PublishMarket \/ PrefetchFails \/ StartDecision \/ SendIntent \/ Hold
           \/ RejectIntent \/ DropIntent
           \/ SeeSlot \/ StartTick \/ EndTick \/ (\E p \in Positions : PollFails(p))
           \/ UNCHANGED vars
  <2>1. UNCHANGED <<slot, step, order, claimed, lastId, status, exchange, updates>>
    BY <1>1 DEF PublishMarket, PrefetchFails, StartDecision, SendIntent, Hold, RejectIntent,
                DropIntent, DiscardIntent, SeeSlot, StartTick, EndTick, PollFails, vars,
                executorVars, storeVars
  <2>2. QED BY <2>1, AgreeFrame DEF AgreeInv
<1>2. QED BY <1>1, ExchangeMovesAgree, ExecutorAgrees, BroadcastAgrees, CrashAgrees
          DEF Next, Executor, Poller

\* As long as place_order does not fail for an order the exchange took, the slot names the
\* order in play, and every verdict under way or in the store is the exchange's, whatever
\* else fails and however often the bot is restarted.
THEOREM AgreeInvariance ==
  ASSUME "lostReply" \notin Faults
  PROVE  Spec => []AgreeInv
<1>1. Init => AgreeInv
  BY DEF Init, AgreeInv, ClaimInv, QueuesTruthful, Truthful, FailedIsNone, StoreMatchesExchange
<1>2. IInv /\ AgreeInv /\ [Next]_vars => AgreeInv'
  BY AgreeStep
<1>3. QED BY <1>1, <1>2, Invariance, PTL DEF Spec

\* Between two resets of its slot the executor has at most one order in play: intents
\* sized before the slot was claimed are all turned away (executor.rs 45-103).
THEOREM OneOrderInPlay ==
  ASSUME "lostReply" \notin Faults
  PROVE  Spec => []OneOrderPerReset
<1>1. AgreeInv => OneOrderPerReset
  BY DEF AgreeInv, ClaimInv, OneOrderPerReset
<1>2. QED BY <1>1, AgreeInvariance, PTL

\* A row's verdict is the exchange's: no row is closed while its order is still in play
\* (executor.rs 129-137, persistence.rs 33-51).
THEOREM RowsMatchExchange ==
  ASSUME "lostReply" \notin Faults
  PROVE  Spec => []StoreMatchesExchange
<1>1. AgreeInv => StoreMatchesExchange
  BY DEF AgreeInv
<1>2. QED BY <1>1, AgreeInvariance, PTL

-----------------------------------------------------------------------------
(* The store and the bankroll book the same fills, as long as no update is lost, to lag, *)
(* to a failed write or to a restart.                                                     *)

\* A fill is in the store, or on its way there, if and only if it is in the bankroll, or on
\* its way there.
BooksInv ==
  \A p \in Positions :
    status[p] = "filled" \/ TellsFill(updates["persistence"], p)
      <=> fills[p] = 1 \/ TellsFill(updates["bankroll"], p)

LEMMA FillsOfAppend ==
  ASSUME NEW q \in Seq(Updates), NEW u \in Updates, NEW p
  PROVE  TellsFill(Append(q, u), p) <=> TellsFill(q, p) \/ (u.pos = p /\ u.kind = "filled")
<1>1. /\ Len(q) \in Nat /\ Len(Append(q, u)) = Len(q) + 1
      /\ Append(q, u)[Len(q) + 1] = u
      /\ \A i \in 1..Len(q) : Append(q, u)[i] = q[i] /\ i \in 1..(Len(q) + 1)
      /\ \A i \in 1..(Len(q) + 1) : i \in 1..Len(q) \/ i = Len(q) + 1
      /\ Len(q) + 1 \in 1..(Len(q) + 1)
  OBVIOUS
<1>2. QED BY <1>1 DEF TellsFill

LEMMA FillsOfTail ==
  ASSUME NEW q \in Seq(Updates), q # <<>>, NEW p
  PROVE  TellsFill(q, p)
           <=> TellsFill(Tail(q), p) \/ (Head(q).pos = p /\ Head(q).kind = "filled")
<1>1. TellsFill(Tail(q), p) => TellsFill(q, p)
  BY TailLemma
<1>2. Head(q).pos = p /\ Head(q).kind = "filled" => TellsFill(q, p)
  BY TailLemma
<1>3. ASSUME TellsFill(q, p), ~(Head(q).pos = p /\ Head(q).kind = "filled")
      PROVE  TellsFill(Tail(q), p)
  <2>1. PICK i \in 1..Len(q) : q[i].pos = p /\ q[i].kind = "filled"
    BY <1>3 DEF TellsFill
  <2>2. Head(q) = q[1] /\ Len(q) \in Nat /\ Len(Tail(q)) = Len(q) - 1
        /\ \A j \in 1..Len(Tail(q)) : Tail(q)[j] = q[j + 1]
    OBVIOUS
  <2>3. i # 1
    BY <1>3, <2>1, <2>2
  <2>4. i - 1 \in 1..Len(Tail(q)) /\ i - 1 + 1 = i
    BY <2>2, <2>3
  <2>5. Tail(q)[i - 1] = q[i]
    BY <2>2, <2>4
  <2>6. QED BY <2>1, <2>4, <2>5 DEF TellsFill
<1>4. QED BY <1>1, <1>2, <1>3

\* Without lag a message is added to both queues, and none falls off.
LEMMA BroadcastToBoth ==
  ASSUME IInv, BooksInv, "lag" \notin Faults, NEW u \in Updates, Broadcast(u),
         UNCHANGED <<status, fills>>
  PROVE  BooksInv'
<1>1. ASSUME NEW r \in Receivers
      PROVE  /\ updates[r] \in Seq(Updates)
             /\ updates'[r] = Append(updates[r], u)
  <2>1. updates[r] \in Seq(Updates) /\ Len(updates[r]) < UpdateCap
        /\ updates'[r] = Push(updates[r], u)
    BY DEF IInv, TypeOK, Broadcast
  <2>2. QED BY <2>1 DEF Push
<1>2. "persistence" \in Receivers /\ "bankroll" \in Receivers
  BY DEF Receivers
<1>3. ASSUME NEW r \in Receivers, NEW p
      PROVE  TellsFill(updates'[r], p)
               <=> TellsFill(updates[r], p) \/ (u.pos = p /\ u.kind = "filled")
  <2> DEFINE q == updates[r]
  <2>1. q \in Seq(Updates) /\ updates'[r] = Append(q, u)
    BY <1>1
  <2> HIDE DEF q
  <2>2. TellsFill(Append(q, u), p) <=> TellsFill(q, p) \/ (u.pos = p /\ u.kind = "filled")
    BY <2>1, FillsOfAppend
  <2>3. QED BY <2>1, <2>2 DEF q
<1>4. QED BY <1>2, <1>3 DEF BooksInv

LEMMA PersistBooks ==
  ASSUME IInv, BooksInv, "update" \notin Faults, PersistUpdate
  PROVE  BooksInv'
<1> DEFINE q == updates["persistence"]
<1> DEFINE u == Head(q)
<1>1. /\ q \in Seq(Updates) /\ q # <<>>
      /\ updates'["persistence"] = Tail(q) /\ updates'["bankroll"] = updates["bankroll"]
      /\ status \in [Positions -> RowStatuses]
      /\ \/ u.kind \in Verdicts /\ status' = [status EXCEPT ![u.pos] = u.kind]
         \/ u.kind \notin Verdicts /\ UNCHANGED status
      /\ UNCHANGED fills
  BY DEF PersistUpdate, Receive, IInv, TypeOK, StoreTypeOK, Receivers
<1>2. \A p : TellsFill(q, p) <=> TellsFill(Tail(q), p) \/ (u.pos = p /\ u.kind = "filled")
  BY <1>1, FillsOfTail
<1>3. u.kind \in Verdicts => status[u.pos] = "submitted" /\ u.pos \in Positions
  <2>1. u \in Updates /\ (u.kind # "submitted" => ~NoVerdict(q, u.pos))
    BY <1>1, TailLemma
  <2>2. u.pos \in Positions
    BY <2>1 DEF Updates
  <2> HIDE DEF u
  <2>3. QED BY <2>1, <2>2 DEF IInv, QueueInv, Verdicts
<1> HIDE DEF u, q
<1>4. ASSUME NEW p \in Positions
      PROVE  status'[p] = "filled" \/ TellsFill(updates'["persistence"], p)
               <=> status[p] = "filled" \/ TellsFill(q, p)
  <2>1. CASE u.kind \in Verdicts /\ u.pos = p
    <3>1. status'[p] = u.kind /\ status[p] = "submitted"
      BY <1>1, <1>3, <2>1 DEF Verdicts
    <3>2. u.kind = "filled" \/ ~(u.kind = "filled")
      OBVIOUS
    <3>3. QED BY <1>1, <1>2, <2>1, <3>1
  <2>2. CASE ~(u.kind \in Verdicts /\ u.pos = p)
    <3>1. status'[p] = status[p] /\ ~(u.pos = p /\ u.kind = "filled")
      BY <1>1, <2>2 DEF Verdicts
    <3>2. QED BY <1>1, <1>2, <3>1
  <2>3. QED BY <2>1, <2>2
<1>5. QED BY <1>1, <1>4 DEF BooksInv, q

LEMMA BankrollBooks ==
  ASSUME IInv, BooksInv, BookUpdate
  PROVE  BooksInv'
<1> DEFINE q == updates["bankroll"]
<1> DEFINE u == Head(q)
<1>1. /\ q \in Seq(Updates) /\ q # <<>>
      /\ updates'["bankroll"] = Tail(q) /\ updates'["persistence"] = updates["persistence"]
      /\ fills \in [Positions -> Nat]
      /\ fills' = IF u.kind = "filled" THEN [fills EXCEPT ![u.pos] = @ + 1] ELSE fills
      /\ UNCHANGED status
  BY DEF BookUpdate, Receive, IInv, TypeOK, Receivers, storeVars
<1>2. \A p : TellsFill(q, p) <=> TellsFill(Tail(q), p) \/ (u.pos = p /\ u.kind = "filled")
  BY <1>1, FillsOfTail
<1>3. u.kind = "filled" => fills[u.pos] = 0 /\ u.pos \in Positions
  <2>1. u \in Updates /\ (u.kind # "submitted" => ~NoVerdict(q, u.pos))
    BY <1>1, TailLemma
  <2>2. u.pos \in Positions
    BY <2>1 DEF Updates
  <2> HIDE DEF u
  <2>3. QED BY <2>1, <2>2 DEF IInv, QueueInv
<1> HIDE DEF u, q
<1>4. ASSUME NEW p \in Positions
      PROVE  fills'[p] = 1 \/ TellsFill(updates'["bankroll"], p)
               <=> fills[p] = 1 \/ TellsFill(q, p)
  <2>1. CASE u.kind = "filled" /\ u.pos = p
    <3>1. fills'[p] = 1 /\ TellsFill(q, p)
      BY <1>1, <1>2, <1>3, <2>1
    <3>2. QED BY <3>1
  <2>2. CASE ~(u.kind = "filled" /\ u.pos = p)
    <3>1. fills'[p] = fills[p]
      BY <1>1, <2>2
    <3>2. QED BY <1>1, <1>2, <2>2, <3>1
  <2>3. QED BY <2>1, <2>2
<1>5. QED BY <1>1, <1>4 DEF BooksInv, q

\* The executor writes to no row that is filled.
LEMMA ExecutorBooks ==
  ASSUME IInv, BooksInv, InsertPosition \/ RecordOrderId \/ RecordRejected
  PROVE  BooksInv'
<1>1. UNCHANGED <<updates, fills>> /\ status \in [Positions -> RowStatuses]
  BY DEF InsertPosition, RecordOrderId, RecordRejected, IInv, TypeOK, StoreTypeOK
<1>2. \A p \in Positions : status'[p] = "filled" <=> status[p] = "filled"
  <2>1. CASE InsertPosition
    <3>1. lastId + 1 \in Positions /\ status[lastId + 1] = "none"
      BY <2>1, OrderPathAssumption
      DEF InsertPosition, IInv, TypeOK, StoreTypeOK, ExecutorInv, RowsInv, Positions
    <3>2. QED BY <1>1, <2>1, <3>1 DEF InsertPosition
  <2>2. CASE RecordOrderId \/ RecordRejected
    <3>1. status[order] = "submitted"
      BY <2>2 DEF RecordOrderId, RecordRejected, IInv, ExecutorInv
    <3>2. \/ UNCHANGED status
          \/ status' = [status EXCEPT ![order] = "submitted"]
          \/ status' = [status EXCEPT ![order] = "rejected"]
      BY <2>2 DEF RecordOrderId, RecordRejected
    <3>3. QED BY <1>1, <3>1, <3>2
  <2>3. QED BY <2>1, <2>2
<1>3. QED BY <1>1, <1>2 DEF BooksInv

LEMMA BooksStep ==
  ASSUME IInv, BooksInv, Faults \cap {"update", "lag"} = {}, MaxCrashes = 0, [Next]_vars
  PROVE  BooksInv'
<1>1. CASE UNCHANGED <<status, updates, fills>>
  BY <1>1 DEF BooksInv
<1>2. CASE OrderAccepted
  <2>1. [pos |-> order, kind |-> "submitted"] \in Updates
    BY <1>2, OrderPathAssumption DEF OrderAccepted, IInv, ExecutorInv, TypeOK, StoreTypeOK,
                                     Positions, Updates, UpdateKinds
  <2>2. QED BY <1>2, <2>1, BroadcastToBoth DEF OrderAccepted, storeVars
<1>3. ASSUME NEW p \in Positions, PollOrder(p) PROVE BooksInv'
  <2>1. [pos |-> p, kind |-> StatusOf(exchange[p])] \in Updates
    BY DEF StatusOf, Updates, UpdateKinds
  <2>2. QED BY <1>3, <2>1, BroadcastToBoth DEF PollOrder, storeVars
<1>4. ASSUME Crash PROVE FALSE
  BY <1>4 DEF Crash, IInv, TypeOK
<1>5. QED
  <2>1. \/ UNCHANGED <<status, updates, fills>>
        \/ InsertPosition \/ RecordOrderId \/ RecordRejected
        \/ OrderAccepted \/ PersistUpdate \/ BookUpdate \/ Crash
        \/ \E p \in Positions : PollOrder(p)
    <3>1. CASE Executor
      BY <3>1 DEF Executor, RotateSlot, RejectIntent, DropIntent, DiscardIntent, AdmitIntent,
                  InsertFails, PlaceFailed, storeVars
    <3>2. CASE Poller
      BY <3>2 DEF Poller, SeeSlot, StartTick, EndTick, PollFails, storeVars
    <3>3. CASE Next /\ ~Executor /\ ~Poller
      BY <3>3 DEF Next, PublishMarket, PrefetchFails, StartDecision, SendIntent, Hold,
                  ExchangeTakes, ExchangeFinishes, storeVars
    <3>4. QED BY <3>1, <3>2, <3>3 DEF vars, storeVars
  <2>2. QED BY <1>1, <1>2, <1>3, <1>4, <2>1, PersistBooks, BankrollBooks, ExecutorBooks

\* Once both receivers have drained the broadcast, the store holds a fill exactly for the
\* positions whose cost the bankroll has put into play, if no message of the broadcast was
\* lost to lag, no write failed and the bot was not restarted
\* (persistence.rs 24-52, bankroll.rs 36-52).
THEOREM StoreAndBankrollAgree ==
  ASSUME Faults \cap {"update", "lag"} = {}, MaxCrashes = 0
  PROVE  Spec => []BooksAgree
<1>1. Init => BooksInv
  BY DEF Init, BooksInv, TellsFill, Receivers
<1>2. IInv /\ BooksInv /\ [Next]_vars => BooksInv'
  BY BooksStep
<1>3. BooksInv => BooksAgree
  BY DEF BooksInv, BooksAgree, TellsFill, Receivers
<1>4. QED BY <1>1, <1>2, <1>3, Invariance, PTL DEF Spec
=============================================================================
