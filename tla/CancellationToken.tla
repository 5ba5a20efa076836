-------------------------- MODULE CancellationToken --------------------------
(***************************************************************************)
(* The cooperative cancellation signal of machine-god-core (cancel.rs).    *)
(*                                                                         *)
(* A token is an atomic flag and a mutex-protected registry of wakers.     *)
(* `cancel` sets the flag, takes the registry under the lock and wakes the *)
(* taken wakers after releasing it; a `Cancelled` future checks the flag,  *)
(* registers its waker under the lock and checks the flag again.  Each     *)
(* atomic access and each critical section is one action, so that every    *)
(* interleaving of the threads that poll, drop and cancel is a behaviour.  *)
(***************************************************************************)
EXTENDS Naturals, FiniteSets

CONSTANTS Futures,     \* places for live `Cancelled` futures of clones of the token
          Wakers,      \* task wakers a poll may carry (`Waker::will_wake` is equality)
          Cancellers,  \* callers of `cancel`, each calling once
          IdSpace,     \* number of WaiterId values: the u64 counter wraps modulo 2^64
          None         \* an absent Option

ASSUME IdSpaceAssumption ==
  /\ IdSpace \in Nat \ {0}
  /\ IsFiniteSet(Futures)
  /\ Cardinality(Futures) <= IdSpace
ASSUME NoneAssumption == None \notin Wakers /\ None \notin Nat

VARIABLES cancelled,  \* CancellationInner.cancelled
          waiters,    \* WaiterRegistry.waiters: WaiterId -> waker or None (absent)
          next_id,    \* WaiterRegistry.next_id
          pc,         \* where each future is: see PollState
          waiter_id,  \* Cancelled.waiter_id of each future
          waker,      \* the waker of each future's latest poll
          woken,      \* whether that waker was woken since that poll began
          caller,     \* where each `cancel` call is
          batch       \* wakers `cancel` took from the registry and has yet to wake

vars == <<cancelled, waiters, next_id, pc, waiter_id, waker, woken, caller, batch>>
-----------------------------------------------------------------------------
WaiterIds == 0 .. IdSpace - 1

\* Between polls a future is "idle" (never polled) or "pending"; "ready" and
\* "dropped" are final.  The others are points inside one poll.
Resting   == {"idle", "pending"}
PollState == Resting \cup {"register", "insert", "recheck", "deregister_wake",
                           "last_check", "deregister_ready", "ready", "dropped"}
Live(f)   == pc[f] \notin {"ready", "dropped"}

Occupied == {id \in WaiterIds : waiters[id] # None}

\* The wrapping distance of an id from the counter.
Distance(id) == (id + IdSpace - next_id) % IdSpace

\* Mutant of vacant_id: hands out the counter without skipping occupied ids.
VacantIdUnchecked(id) == id = next_id

\* vacant_id returns id: the first unoccupied one at or after the counter,
\* wrapping.
vacant_id(id) ==
  /\ id \notin Occupied
  /\ \A other \in WaiterIds \ Occupied : Distance(id) <= Distance(other)

\* Waking w: every future whose latest poll carried w becomes runnable.
Wake(W) == woken' = [f \in Futures |-> woken[f] \/ waker[f] \in W]

\* deregister: take the id and, if there was one, remove its entry.
deregister(f) ==
  /\ waiters' = IF waiter_id[f] = None
                  THEN waiters
                  ELSE [waiters EXCEPT ![waiter_id[f]] = None]
  /\ waiter_id' = [waiter_id EXCEPT ![f] = None]

Goto(f, state) == pc' = [pc EXCEPT ![f] = state]
-----------------------------------------------------------------------------
(* Cancelled::poll *)

\* `cancelled()` makes a new future; it takes the place of one that is gone, so
\* that Futures bounds how many live at once and not how many ever live.
Create(f) ==
  /\ ~Live(f)
  /\ Goto(f, "idle")
  /\ waiter_id' = [waiter_id EXCEPT ![f] = None]
  /\ UNCHANGED <<cancelled, waiters, next_id, waker, woken, caller, batch>>

\* poll begins with waker w and loads the flag.
PollCheck(f, w) ==
  /\ pc[f] \in Resting
  /\ waker' = [waker EXCEPT ![f] = w]
  /\ woken' = [woken EXCEPT ![f] = FALSE]
  /\ Goto(f, IF cancelled THEN "deregister_ready" ELSE "register")
  /\ UNCHANGED <<cancelled, waiters, next_id, waiter_id, caller, batch>>

\* register's first load of the flag.
RegisterCheck(f) ==
  /\ pc[f] = "register"
  /\ Goto(f, IF cancelled THEN "deregister_wake" ELSE "insert")
  /\ UNCHANGED <<cancelled, waiters, next_id, waiter_id, waker, woken, caller, batch>>

\* Mutant of RegisterInsert: keeps the waker of an earlier poll when there is one.
RegisterInsertKeepsOld(f) ==
  /\ pc[f] = "insert"
  /\ \E id \in WaiterIds :
        /\ IF waiter_id[f] = None THEN vacant_id(id) ELSE id = waiter_id[f]
        /\ waiter_id' = [waiter_id EXCEPT ![f] = id]
        /\ waiters' = [waiters EXCEPT ![id] = IF @ = None THEN waker[f] ELSE @]
        /\ next_id' = IF waiter_id[f] = None THEN (id + 1) % IdSpace ELSE next_id
  /\ Goto(f, "recheck")
  /\ UNCHANGED <<cancelled, waker, woken, caller, batch>>

\* register's critical section: reuse the id or take a vacant one, then insert
\* or replace the waker.
RegisterInsert(f) ==
  /\ pc[f] = "insert"
  /\ \E id \in WaiterIds :
        /\ IF waiter_id[f] = None THEN vacant_id(id) ELSE id = waiter_id[f]
        /\ waiter_id' = [waiter_id EXCEPT ![f] = id]
        /\ waiters' = [waiters EXCEPT ![id] = waker[f]]
        /\ next_id' = IF waiter_id[f] = None THEN (id + 1) % IdSpace ELSE next_id
  /\ Goto(f, "recheck")
  /\ UNCHANGED <<cancelled, waker, woken, caller, batch>>

\* register's second load of the flag.
RegisterRecheck(f) ==
  /\ pc[f] = "recheck"
  /\ Goto(f, IF cancelled THEN "deregister_wake" ELSE "last_check")
  /\ UNCHANGED <<cancelled, waiters, next_id, waiter_id, waker, woken, caller, batch>>

\* register saw the flag: remove the entry and wake the polling task.
RegisterWithdraw(f) ==
  /\ pc[f] = "deregister_wake"
  /\ deregister(f)
  /\ Wake({waker[f]})
  /\ Goto(f, "last_check")
  /\ UNCHANGED <<cancelled, next_id, waker, caller, batch>>

\* poll's load of the flag after register returned.
PollRecheck(f) ==
  /\ pc[f] = "last_check"
  /\ Goto(f, IF cancelled THEN "deregister_ready" ELSE "pending")
  /\ UNCHANGED <<cancelled, waiters, next_id, waiter_id, waker, woken, caller, batch>>

\* poll saw the flag: remove the entry and return Ready.
PollReady(f) ==
  /\ pc[f] = "deregister_ready"
  /\ deregister(f)
  /\ Goto(f, "ready")
  /\ UNCHANGED <<cancelled, next_id, waker, woken, caller, batch>>

\* Drop for Cancelled: only its owner drops it, so never inside a poll.
Drop(f) ==
  /\ pc[f] \in Resting
  /\ deregister(f)
  /\ Goto(f, "dropped")
  /\ UNCHANGED <<cancelled, next_id, waker, woken, caller, batch>>
-----------------------------------------------------------------------------
(* CancellationToken::cancel *)

\* The swap: only the call that changed the flag goes on.
CancelSwap(c) ==
  /\ caller[c] = "start"
  /\ caller' = [caller EXCEPT ![c] = IF cancelled THEN "returned_false" ELSE "take"]
  /\ cancelled' = TRUE
  /\ UNCHANGED <<waiters, next_id, pc, waiter_id, waker, woken, batch>>

\* The critical section: take every registered waker.
CancelTake(c) ==
  /\ caller[c] = "take"
  /\ batch' = {waiters[id] : id \in Occupied}
  /\ waiters' = [id \in WaiterIds |-> None]
  /\ caller' = [caller EXCEPT ![c] = "wake"]
  /\ UNCHANGED <<cancelled, next_id, pc, waiter_id, waker, woken>>

\* Mutant of CancelWake: wakes only one of the taken wakers.
CancelWakeOne(c) ==
  /\ caller[c] = "wake"
  /\ \/ \E w \in batch : Wake({w})
     \/ batch = {} /\ UNCHANGED woken
  /\ batch' = {}
  /\ caller' = [caller EXCEPT ![c] = "returned_true"]
  /\ UNCHANGED <<cancelled, waiters, next_id, pc, waiter_id, waker>>

\* Outside the lock, wake the taken wakers one by one.
CancelWake(c) ==
  /\ caller[c] = "wake"
  /\ \/ \E w \in batch :
          /\ Wake({w})
          /\ batch' = batch \ {w}
          /\ UNCHANGED caller
     \/ /\ batch = {}
        /\ caller' = [caller EXCEPT ![c] = "returned_true"]
        /\ UNCHANGED <<woken, batch>>
  /\ UNCHANGED <<cancelled, waiters, next_id, pc, waiter_id, waker>>
-----------------------------------------------------------------------------
Init ==
  /\ cancelled = FALSE
  /\ waiters = [id \in WaiterIds |-> None]
  /\ next_id \in WaiterIds  \* a long-lived token may be anywhere in the id space
  /\ pc = [f \in Futures |-> "idle"]
  /\ waiter_id = [f \in Futures |-> None]
  /\ waker \in [Futures -> Wakers]
  /\ woken = [f \in Futures |-> FALSE]
  /\ caller = [c \in Cancellers |-> "start"]
  /\ batch = {}

PollStep(f) == \/ RegisterCheck(f) \/ RegisterInsert(f) \/ RegisterRecheck(f)
               \/ RegisterWithdraw(f) \/ PollRecheck(f) \/ PollReady(f)
CancelStep(c) == CancelTake(c) \/ CancelWake(c)

Next ==
  \/ \E f \in Futures : \/ Create(f) \/ (\E w \in Wakers : PollCheck(f, w))
                         \/ PollStep(f) \/ Drop(f)
  \/ \E c \in Cancellers : CancelSwap(c) \/ CancelStep(c)

\* Code that has started runs on, and an executor polls a task whose waker was
\* woken.  Nothing obliges anyone to cancel, to drop, or to poll unwoken.
WokenPoll(f) == woken[f] /\ \E w \in Wakers : PollCheck(f, w)
Fairness ==
  /\ \A f \in Futures : WF_vars(PollStep(f)) /\ WF_vars(WokenPoll(f))
  /\ \A c \in Cancellers : WF_vars(CancelStep(c))

Spec == Init /\ [][Next]_vars
FairSpec == Spec /\ Fairness
-----------------------------------------------------------------------------
TypeOK ==
  /\ cancelled \in BOOLEAN
  /\ waiters \in [WaiterIds -> Wakers \cup {None}]
  /\ next_id \in WaiterIds
  /\ pc \in [Futures -> PollState]
  /\ waiter_id \in [Futures -> WaiterIds \cup {None}]
  /\ waker \in [Futures -> Wakers]
  /\ woken \in [Futures -> BOOLEAN]
  /\ caller \in [Cancellers -> {"start", "returned_false", "take", "wake", "returned_true"}]
  /\ batch \in SUBSET Wakers

\* No wakeup is lost: once the `cancel` call that set the flag has returned, a
\* future left pending by its latest poll has been woken since that poll began,
\* whatever the order of the flag, the registry and the wakes (cancel, register).
NoLostWakeup ==
  \A c \in Cancellers, f \in Futures :
    caller[c] = "returned_true" /\ pc[f] = "pending" => woken[f]

\* Until `cancel` takes the registry, ids and live futures correspond one to
\* one, an id stands for a registered waker, and the entry of a future that has
\* registered holds the waker of its latest poll: no future can withdraw or
\* replace another future's waker (vacant_id, register, deregister).
Taken == \E c \in Cancellers : caller[c] \in {"wake", "returned_true"}
EntriesOwned ==
  ~Taken =>
    /\ \A f, g \in Futures : waiter_id[f] # None /\ waiter_id[f] = waiter_id[g] => f = g
    /\ \A f \in Futures : waiter_id[f] # None => waiters[waiter_id[f]] # None
    /\ \A f \in Futures :
         \/ pc[f] \in {"recheck", "pending"}
         \/ pc[f] = "last_check" /\ ~cancelled
         => waiter_id[f] # None /\ waiters[waiter_id[f]] = waker[f]

\* A cancelled token resolves every future that has been polled: it becomes
\* ready (or its owner drops it), under the executor's promise to poll what
\* was woken.
CancellationResolves ==
  \A f \in Futures : (cancelled /\ pc[f] = "pending") ~> ~Live(f)

=============================================================================
