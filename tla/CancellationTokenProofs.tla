----------------------- MODULE CancellationTokenProofs -----------------------
(***************************************************************************)
(* Proofs about CancellationToken for any number of futures, wakers,       *)
(* cancel calls and waiter ids: types, the answer of `cancel`, and that no *)
(* wakeup is lost.                                                         *)
(***************************************************************************)
EXTENDS CancellationToken, TLAPS

\* Once the registry is taken, a pending future was woken or is about to be.
Delivered ==
  Taken => \A f \in Futures :
    pc[f] = "pending" =>
      \/ woken[f]
      \/ waker[f] \in batch /\ \E c \in Cancellers : caller[c] = "wake"

\* A call past the swap has set the flag, so has whoever saw it set, and at most
\* one call goes on past the swap.
Winner == {"take", "wake", "returned_true"}
OneWinner ==
  /\ \A c \in Cancellers : caller[c] # "start" => cancelled
  /\ \A f \in Futures : pc[f] = "deregister_wake" => cancelled
  /\ \A c, d \in Cancellers : caller[c] \in Winner /\ caller[d] \in Winner => c = d

IInv == TypeOK /\ EntriesOwned /\ Delivered /\ OneWinner

\* One step of any future or canceller preserves the types.
LEMMA TypeStep == TypeOK /\ [Next]_vars => TypeOK'
<1> SUFFICES ASSUME TypeOK, [Next]_vars PROVE TypeOK'
  OBVIOUS
<1> USE IdSpaceAssumption DEF TypeOK, PollState, Resting, Goto
<1>1. ASSUME NEW f \in Futures, NEW w \in Wakers, PollCheck(f, w) PROVE TypeOK'
  BY <1>1 DEF PollCheck
<1>0. ASSUME NEW f \in Futures, Create(f) PROVE TypeOK'
  BY <1>0 DEF Create
<1>2. ASSUME NEW f \in Futures, RegisterCheck(f) PROVE TypeOK'
  BY <1>2 DEF RegisterCheck
<1>3. ASSUME NEW f \in Futures, RegisterInsert(f) PROVE TypeOK'
  BY <1>3 DEF RegisterInsert, WaiterIds
<1>4. ASSUME NEW f \in Futures, RegisterRecheck(f) PROVE TypeOK'
  BY <1>4 DEF RegisterRecheck
<1>5. ASSUME NEW f \in Futures, RegisterWithdraw(f) PROVE TypeOK'
  BY <1>5 DEF RegisterWithdraw, deregister, Wake
<1>6. ASSUME NEW f \in Futures, PollRecheck(f) PROVE TypeOK'
  BY <1>6 DEF PollRecheck
<1>7. ASSUME NEW f \in Futures, PollReady(f) PROVE TypeOK'
  BY <1>7 DEF PollReady, deregister
<1>8. ASSUME NEW f \in Futures, Drop(f) PROVE TypeOK'
  BY <1>8 DEF Drop, deregister
<1>9. ASSUME NEW c \in Cancellers, CancelSwap(c) PROVE TypeOK'
  BY <1>9 DEF CancelSwap
<1>10. ASSUME NEW c \in Cancellers, CancelTake(c) PROVE TypeOK'
  BY <1>10 DEF CancelTake, Occupied
<1>11. ASSUME NEW c \in Cancellers, CancelWake(c) PROVE TypeOK'
  BY Zenon, <1>11 DEF CancelWake, Wake
<1>12. CASE UNCHANGED vars
  BY <1>12 DEF vars
<1> QED
  BY <1>0, <1>1, <1>2, <1>3, <1>4, <1>5, <1>6, <1>7, <1>8, <1>9, <1>10, <1>11, <1>12
     DEF Next, PollStep, CancelStep

\* Every variable keeps its type under every poll, drop and cancel.
THEOREM TypeCorrect == Spec => []TypeOK
<1>1. Init => TypeOK
  BY ZenonT(60), IdSpaceAssumption DEF Init, TypeOK, WaiterIds, PollState, Resting
<1> QED
  BY <1>1, TypeStep, PTL DEF Spec

\* One step preserves the inductive invariant.
LEMMA InvStep == IInv /\ [Next]_vars => IInv'
<1> SUFFICES ASSUME IInv, [Next]_vars PROVE IInv'
  OBVIOUS
<1>t. TypeOK'
  BY TypeStep DEF IInv
<1> SUFFICES EntriesOwned' /\ Delivered' /\ OneWinner'
  BY <1>t DEF IInv
<1> USE NoneAssumption DEF IInv, TypeOK, PollState, Resting, Goto, Winner, Taken
<1>1. ASSUME NEW f \in Futures, NEW w \in Wakers, PollCheck(f, w)
      PROVE  EntriesOwned' /\ Delivered' /\ OneWinner'
  BY <1>1 DEF PollCheck, EntriesOwned, Delivered, OneWinner
<1>0. ASSUME NEW f \in Futures, Create(f)
      PROVE  EntriesOwned' /\ Delivered' /\ OneWinner'
  BY <1>0 DEF Create, EntriesOwned, Delivered, OneWinner
<1>2. ASSUME NEW f \in Futures, RegisterCheck(f)
      PROVE  EntriesOwned' /\ Delivered' /\ OneWinner'
  BY <1>2 DEF RegisterCheck, EntriesOwned, Delivered, OneWinner
<1>3. ASSUME NEW f \in Futures, RegisterInsert(f)
      PROVE  EntriesOwned' /\ Delivered' /\ OneWinner'
  <2> PICK id \in WaiterIds :
        /\ IF waiter_id[f] = None THEN vacant_id(id) ELSE id = waiter_id[f]
        /\ waiter_id' = [waiter_id EXCEPT ![f] = id]
        /\ waiters' = [waiters EXCEPT ![id] = waker[f]]
    BY Zenon, <1>3 DEF RegisterInsert
  <2>1. ~Taken => \A g \in Futures : waiter_id[g] = id => g = f
    BY DEF EntriesOwned, vacant_id, Occupied, WaiterIds
  <2>2. EntriesOwned'
    BY <1>3, <1>t, <2>1 DEF RegisterInsert, EntriesOwned, WaiterIds
  <2> QED
    BY <1>3, <2>2 DEF RegisterInsert, Delivered, OneWinner
<1>4. ASSUME NEW f \in Futures, RegisterRecheck(f)
      PROVE  EntriesOwned' /\ Delivered' /\ OneWinner'
  BY <1>4 DEF RegisterRecheck, EntriesOwned, Delivered, OneWinner
<1>5. ASSUME NEW f \in Futures, RegisterWithdraw(f)
      PROVE  EntriesOwned' /\ Delivered' /\ OneWinner'
  <2>1. EntriesOwned'
    BY <1>5 DEF RegisterWithdraw, deregister, EntriesOwned, OneWinner
  <2> QED
    BY <1>5, <2>1 DEF RegisterWithdraw, Wake, Delivered, OneWinner
<1>6. ASSUME NEW f \in Futures, PollRecheck(f)
      PROVE  EntriesOwned' /\ Delivered' /\ OneWinner'
  BY <1>6 DEF PollRecheck, EntriesOwned, Delivered, OneWinner
<1>7. ASSUME NEW f \in Futures, PollReady(f) \/ Drop(f)
      PROVE  EntriesOwned' /\ Delivered' /\ OneWinner'
  <2>1. EntriesOwned'
    BY <1>7 DEF PollReady, Drop, deregister, EntriesOwned
  <2> QED
    BY <1>7, <2>1 DEF PollReady, Drop, Delivered, OneWinner
<1>8. ASSUME NEW c \in Cancellers, CancelSwap(c)
      PROVE  EntriesOwned' /\ Delivered' /\ OneWinner'
  BY <1>8 DEF CancelSwap, EntriesOwned, Delivered, OneWinner
<1>9. ASSUME NEW c \in Cancellers, CancelTake(c)
      PROVE  EntriesOwned' /\ Delivered' /\ OneWinner'
  <2>1. ~Taken
    BY <1>9 DEF CancelTake, OneWinner
  <2>2. \A f \in Futures : pc[f] = "pending" => waker[f] \in batch'
    BY <1>9, <2>1 DEF CancelTake, EntriesOwned, Occupied
  <2>3. Taken' /\ caller'[c] = "wake"
    BY <1>9 DEF CancelTake
  <2> QED
    BY <1>9, <2>2, <2>3 DEF CancelTake, EntriesOwned, Delivered, OneWinner
<1>10. ASSUME NEW c \in Cancellers, CancelWake(c)
      PROVE  EntriesOwned' /\ Delivered' /\ OneWinner'
  <2>1. Taken /\ Taken'
    BY Zenon, <1>10 DEF CancelWake
  <2>2. Delivered'
    BY <1>10, <2>1 DEF CancelWake, Wake, Delivered, OneWinner
  <2> QED
    BY ZenonT(60), <1>10, <2>1, <2>2 DEF CancelWake, EntriesOwned, OneWinner
<1>11. CASE UNCHANGED vars
  BY <1>11 DEF vars, EntriesOwned, Delivered, OneWinner
<1> QED
  BY <1>0, <1>1, <1>2, <1>3, <1>4, <1>5, <1>6, <1>7, <1>8, <1>9, <1>10, <1>11
     DEF Next, PollStep, CancelStep

\* The inductive invariant holds throughout.
THEOREM Invariance == Spec => []IInv
<1>1. Init => IInv
  <2>1. Init => TypeOK
    BY Zenon, IdSpaceAssumption DEF Init, TypeOK, WaiterIds, PollState, Resting
  <2> QED
    BY <2>1 DEF Init, IInv, EntriesOwned, Delivered, OneWinner, Taken, Winner
<1> QED
  BY <1>1, InvStep, PTL DEF Spec

\* No wakeup is lost, for any number of futures, tasks, callers and ids: a
\* future left pending when the winning `cancel` returns has been woken since
\* its latest poll began.
THEOREM NoWakeupLost == Spec => []NoLostWakeup
<1>1. IInv => NoLostWakeup
  BY DEF IInv, Delivered, OneWinner, Winner, Taken, NoLostWakeup
<1> QED
  BY <1>1, Invariance, PTL

\* Until `cancel` takes the registry, each registered future owns its entry.
THEOREM EntriesStayOwned == Spec => []EntriesOwned
<1>1. IInv => EntriesOwned
  BY DEF IInv
<1> QED
  BY <1>1, Invariance, PTL

=============================================================================
