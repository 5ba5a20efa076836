------------------------ MODULE BackgroundSupervisor ------------------------
(***************************************************************************)
(* Starting and retaining background processes in one host: the ordered   *)
(* start of the core supervisor (start_polled), run to completion on a     *)
(* blocking worker, and the native retention pool (WorkerRetainer) whose   *)
(* workers own a released process until its terminal record is published. *)
(* Starts race one another for slots, their cancellation, and the          *)
(* shutdown of the pool.  Records and leases are those of                  *)
(* BackgroundHistory; a start is named by the identifier it will reserve.  *)
(***************************************************************************)
EXTENDS BackgroundHistory, Sequences

CONSTANTS Slots,     \* the pool's workers, one per active process
          Rescue,    \* the rescue worker
          None       \* no slot, no job

ASSUME SupervisorAssumption ==
  /\ IsFiniteSet(Slots) /\ Rescue \notin Slots
  /\ None \notin Ids \cup Outcomes /\ {"empty", "shutdown"} \cap Ids = {}
  /\ {"stopped", "dead"} \subseteq Outcomes
  /\ Outcomes \cap {"absent", "running", "stale"} = {}
ASSUME SlotAssumption == None \notin Slots

VARIABLES
  pc,         \* where each start stands
  result,     \* what its future answered: Ok, Cancelled, or an error of another kind
  outcome,    \* the terminal observation of its process, None before one
  cancelled,  \* starts whose operation token is cancelled
  proc,       \* its process: none, held at the barrier, running, reaped, unproven
  slot,       \* the slot its permit holds
  avail,      \* the free slots, a stack
  chan,       \* [Slots -> "empty" | "shutdown" | the job sent]: sync_channel(1)
  worker,     \* [Slots and Rescue -> where the loop is, and with which job]
  stopped,    \* jobs whose stop token is cancelled
  closing,    \* the pool's closing flag
  shut,       \* the shutdown call: "none", "stops", "idle", "done"
  rescue      \* jobs queued for the rescue worker

startVars == <<pc, result, outcome, cancelled, proc, slot>>
poolVars == <<avail, chan, worker, stopped, closing, shut, rescue>>
vars == <<histVars, startVars, poolVars>>

Workers == Slots \cup {Rescue}
Idle == [at |-> "recv", job |-> None]

\* The stack the pool is built with: every slot once.
FreshStack == CHOOSE q \in [1..Cardinality(Slots) -> Slots] : {q[i] : i \in DOMAIN q} = Slots

TypeOK ==
  /\ record \in [Ids -> States] /\ leased \subseteq Ids /\ spent \subseteq Ids
  /\ pc \in [Ids -> {"new", "entering", "admitted", "reserve", "leased", "prepared",
                     "published", "unpublished", "releasing", "activate", "retain",
                     "complete", "dropping", "dropped", "done"}]
  /\ result \in [Ids -> {"none", "ok", "cancelled", "failed"}]
  /\ outcome \in [Ids -> Outcomes \cup {None}]
  /\ cancelled \subseteq Ids /\ stopped \subseteq Ids /\ rescue \subseteq Ids
  /\ proc \in [Ids -> {"none", "held", "running", "reaped", "unproven"}]
  /\ slot \in [Ids -> Slots \cup {None}] /\ avail \in Seq(Slots)
  /\ chan \in [Slots -> Ids \cup {"empty", "shutdown"}]
  /\ worker \in [Workers -> [at : {"recv", "check", "wait", "publish", "clear", "return",
                                   "exiting", "exited"}, job : Ids \cup {None}]]
  /\ closing \in BOOLEAN /\ shut \in {"none", "stops", "idle", "done"}

Init ==
  /\ HistInit
  /\ pc = [s \in Ids |-> "new"] /\ result = [s \in Ids |-> "none"]
  /\ outcome = [s \in Ids |-> None] /\ cancelled = {}
  /\ proc = [s \in Ids |-> "none"] /\ slot = [s \in Ids |-> None]
  /\ avail = FreshStack /\ chan = [k \in Slots |-> "empty"]
  /\ worker = [k \in Workers |-> Idle]
  /\ stopped = {} /\ closing = FALSE /\ shut = "none" /\ rescue = {}

At(s, here) == pc[s] = here
Goto(s, there) == pc' = [pc EXCEPT ![s] = there]

\* The future answers r; its locals are dropped, the lease before the permit,
\* and the operation's token with them.
Finish(s, r) ==
  /\ cancelled' = cancelled \ {s}
  /\ result' = [result EXCEPT ![s] = r]
  /\ leased' = leased \ {s}
  /\ Goto(s, IF slot[s] = None THEN "done" ELSE "dropping")

\* Aborting or dropping a process ends it, or leaves its cleanup unproven.
Ends(s, proven) == proc' = [proc EXCEPT ![s] = IF proven THEN "reaped" ELSE "unproven"]

\* The token may be cancelled by the caller, by dropping the future, or by the
\* shutdown of the blocking pool; after the release nobody reads it.
Cancel(s) ==
  /\ pc[s] \in {"new", "entering", "admitted", "reserve", "leased", "prepared",
               "published", "unpublished", "releasing"}
  /\ cancelled' = cancelled \cup {s}
  /\ UNCHANGED <<histVars, pc, result, outcome, proc, slot, poolVars>>

(***************************************************************************)
(* WorkerRetainer::try_admit.                                              *)
(***************************************************************************)
\* The blocking pool has as many workers as the retention pool, and a start
\* occupies one until its future is dropped.
Scheduled(s) ==
  /\ At(s, "new")
  /\ Cardinality({o \in Ids : pc[o] \notin {"new", "done"}}) < Cardinality(Slots)

Enter(s) ==
  /\ Scheduled(s) /\ s \notin cancelled /\ ~closing
  /\ Goto(s, "entering")
  /\ UNCHANGED <<histVars, result, outcome, cancelled, proc, slot, poolVars>>

Pop(s) ==
  /\ At(s, "entering") /\ avail # <<>>
  /\ avail' = SubSeq(avail, 1, Len(avail) - 1)
  /\ slot' = [slot EXCEPT ![s] = avail[Len(avail)]]
  /\ Goto(s, "admitted")
  /\ UNCHANGED <<histVars, result, outcome, cancelled, proc, chan, worker, stopped,
                 closing, shut, rescue>>

\* Cancelled or closed before entering; no slot, or its list is contended, after.
Refuse(s) ==
  /\ \/ Scheduled(s) /\ s \in cancelled /\ Finish(s, "cancelled")
     \/ Scheduled(s) /\ s \notin cancelled /\ closing /\ Finish(s, "failed")
     \/ At(s, "entering") /\ Finish(s, "failed")
  /\ UNCHANGED <<record, spent, outcome, proc, slot, poolVars>>

\* The second look at closing; the slot goes back unless the list is contended.
Recheck(s) ==
  /\ At(s, "admitted")
  /\ IF closing
       THEN /\ avail' \in {avail, Append(avail, slot[s])}
            /\ slot' = [slot EXCEPT ![s] = None]
            /\ result' = [result EXCEPT ![s] = "failed"]
            /\ cancelled' = cancelled \ {s}
            /\ Goto(s, "done")
       ELSE Goto(s, "reserve") /\ UNCHANGED <<avail, slot, result, cancelled>>
  /\ UNCHANGED <<histVars, outcome, proc, chan, worker, stopped,
                 closing, shut, rescue>>

(***************************************************************************)
(* start_polled: reservation, preparation, publication.                    *)
(***************************************************************************)
ReserveId(s) ==
  /\ At(s, "reserve") /\ s \notin cancelled
  /\ Reserve(s)
  /\ Goto(s, "leased")
  /\ UNCHANGED <<result, outcome, cancelled, proc, slot, poolVars>>

\* Every early return before a process exists.
GiveUp(s) ==
  /\ \/ At(s, "reserve") /\ Finish(s, "failed")
     \/ At(s, "reserve") /\ s \in cancelled /\ Finish(s, "cancelled")
     \/ /\ At(s, "leased")
        /\ \/ Finish(s, "failed")
           \/ s \in cancelled /\ Finish(s, "cancelled")
  /\ UNCHANGED <<record, spent, outcome, proc, slot, poolVars>>

Prepare(s) ==
  /\ At(s, "leased") /\ s \notin cancelled
  /\ proc' = [proc EXCEPT ![s] = "held"]
  /\ Goto(s, "prepared")
  /\ UNCHANGED <<histVars, result, outcome, cancelled, slot, poolVars>>

\* abort_prepared: only a proven abort answers Cancelled.
AbortPrepared(s) ==
  /\ At(s, "prepared") /\ s \in cancelled
  /\ \E proven \in BOOLEAN :
       Ends(s, proven) /\ Finish(s, IF proven THEN "cancelled" ELSE "failed")
  /\ UNCHANGED <<record, spent, outcome, slot, poolVars>>

\* publish_initial answers Ok, or fails with or without the record installed.
PublishInitial(s) ==
  /\ At(s, "prepared") /\ s \notin cancelled
  /\ \/ Publish(s) /\ Goto(s, "published")
     \/ Publish(s) /\ Goto(s, "unpublished")
     \/ UNCHANGED histVars /\ Goto(s, "unpublished")
  /\ UNCHANGED <<result, outcome, cancelled, proc, slot, poolVars>>

\* A mutant: the cleanup is reported stopped without its proof.
CleanupUnproven(s) ==
  /\ pc[s] \in {"published", "unpublished"} /\ s \in cancelled
  /\ \E proven \in BOOLEAN : Ends(s, proven)
  /\ outcome' = [outcome EXCEPT ![s] = "stopped"]
  /\ result' = [result EXCEPT ![s] = "failed"]
  /\ Goto(s, "complete")
  /\ UNCHANGED <<histVars, cancelled, slot, poolVars>>

\* cleanup_after_possible_publication.
Cleanup(s) ==
  /\ pc[s] \in {"published", "unpublished"} /\ s \in cancelled
  /\ \E proven \in BOOLEAN :
       /\ Ends(s, proven)
       /\ outcome' = [outcome EXCEPT ![s] = IF proven THEN "stopped" ELSE "dead"]
       /\ result' = [result EXCEPT ![s] = IF At(s, "published") /\ proven
                                            THEN "cancelled" ELSE "failed"]
  /\ Goto(s, "complete")
  /\ UNCHANGED <<histVars, cancelled, slot, poolVars>>

\* A failed publication without cancellation: the prepared process is dropped.
Unpublished(s) ==
  /\ At(s, "unpublished") /\ s \notin cancelled
  /\ \E proven \in BOOLEAN : Ends(s, proven)
  /\ Finish(s, "failed")
  /\ UNCHANGED <<record, spent, outcome, slot, poolVars>>

Commit(s) ==
  /\ At(s, "published") /\ s \notin cancelled
  /\ Goto(s, "releasing")
  /\ UNCHANGED <<histVars, result, outcome, cancelled, proc, slot, poolVars>>

(***************************************************************************)
(* start_polled: release, activation, retention.                           *)
(***************************************************************************)
ReleaseProcess(s) ==
  /\ At(s, "releasing")
  /\ proc' = [proc EXCEPT ![s] = "running"]
  /\ Goto(s, "activate")
  /\ UNCHANGED <<histVars, result, outcome, cancelled, slot, poolVars>>

\* Release or activation fails: the process is dropped, and only cancellation
\* proven before the barrier opened is a clean stop.
ReleaseFails(s) ==
  /\ \/ /\ At(s, "releasing") /\ s \in cancelled /\ Ends(s, TRUE)
        /\ outcome' = [outcome EXCEPT ![s] = "stopped"]
        /\ result' = [result EXCEPT ![s] = "cancelled"]
     \/ /\ pc[s] \in {"releasing", "activate"} /\ \E proven \in BOOLEAN : Ends(s, proven)
        /\ outcome' = [outcome EXCEPT ![s] = "dead"]
        /\ result' = [result EXCEPT ![s] = "failed"]
  /\ Goto(s, "complete")
  /\ UNCHANGED <<histVars, cancelled, slot, poolVars>>

Activate(s) ==
  /\ At(s, "activate")
  /\ Goto(s, "retain")
  /\ UNCHANGED <<histVars, result, outcome, cancelled, proc, slot, poolVars>>

\* publish_completion of a failed start, whose own failure is ignored.
CompleteFailed(s) ==
  /\ At(s, "complete")
  /\ record' \in {record, IF record[s] = "running" THEN [record EXCEPT ![s] = outcome[s]]
                                                   ELSE record}
  /\ Finish(s, result[s])
  /\ UNCHANGED <<spent, outcome, proc, slot, poolVars>>

\* retain and WorkerPool::dispatch: the reserved worker, or the rescue queue
\* when its channel is full or gone.
Retain(s) ==
  LET k == slot[s] IN
  /\ At(s, "retain")
  /\ IF chan[k] = "empty" /\ worker[k].at # "exited"
       THEN chan' = [chan EXCEPT ![k] = s] /\ UNCHANGED rescue
       ELSE rescue' = rescue \cup {s} /\ UNCHANGED chan
  /\ slot' = [slot EXCEPT ![s] = None]
  /\ result' = [result EXCEPT ![s] = "ok"]
  /\ cancelled' = cancelled \ {s}
  /\ Goto(s, "done")
  /\ UNCHANGED <<histVars, outcome, proc, avail, worker, stopped, closing, shut>>

\* An unused permit: the slot returns first, a closing pool is noticed second.
DropSlot(s) ==
  /\ At(s, "dropping")
  /\ avail' = Append(avail, slot[s])
  /\ Goto(s, "dropped")
  /\ UNCHANGED <<histVars, result, outcome, cancelled, proc, slot, chan, worker,
                 stopped, closing, shut, rescue>>

\* try_send(Shutdown): nothing happens when the channel is full or gone.
Notified(ks) ==
  chan' = [k \in Slots |-> IF k \in ks /\ chan[k] = "empty" /\ worker[k].at # "exited"
                             THEN "shutdown" ELSE chan[k]]

DropNotice(s) ==
  /\ At(s, "dropped")
  /\ IF closing THEN Notified({slot[s]}) ELSE UNCHANGED chan
  /\ slot' = [slot EXCEPT ![s] = None]
  /\ Goto(s, "done")
  /\ UNCHANGED <<histVars, result, outcome, cancelled, proc, avail, worker, stopped,
                 closing, shut, rescue>>

(***************************************************************************)
(* worker_loop, rescue_worker_loop and WorkerPool::shutdown.               *)
(***************************************************************************)
Move(k, there) == worker' = [worker EXCEPT ![k].at = there]

Receive(k) ==
  /\ worker[k].at = "recv" /\ chan[k] \in Ids
  /\ worker' = [worker EXCEPT ![k] = [at |-> "check", job |-> chan[k]]]
  /\ chan' = [chan EXCEPT ![k] = "empty"]
  /\ UNCHANGED <<histVars, startVars, avail, stopped, closing, shut, rescue>>

\* A mutant: the worker waits for its job without looking at closing.
CheckClosingNever(k) ==
  /\ worker[k].at = "check"
  /\ Move(k, "wait")
  /\ UNCHANGED <<histVars, startVars, avail, chan, stopped, closing, shut, rescue>>

CheckClosing(k) ==
  /\ worker[k].at = "check"
  /\ stopped' = IF closing THEN stopped \cup {worker[k].job} ELSE stopped
  /\ Move(k, "wait")
  /\ UNCHANGED <<histVars, startVars, avail, chan, closing, shut, rescue>>

RescueTakes(s) ==
  /\ worker[Rescue].at = "recv" /\ s \in rescue
  /\ rescue' = rescue \ {s}
  /\ stopped' = stopped \cup {s}
  /\ worker' = [worker EXCEPT ![Rescue] = [at |-> "wait", job |-> s]]
  /\ UNCHANGED <<histVars, startVars, avail, chan, closing, shut>>

\* process.wait: it exits by itself, is stopped by the token, or its wait fails.
WaitEnds(k, o) ==
  LET s == worker[k].job IN
  /\ worker[k].at = "wait"
  /\ o = "stopped" => s \in stopped
  /\ Ends(s, o # "dead")
  /\ outcome' = [outcome EXCEPT ![s] = o]
  /\ Move(k, "publish")
  /\ UNCHANGED <<histVars, pc, result, cancelled, slot, avail, chan, stopped,
                 closing, shut, rescue>>

\* publish_terminal, whose failure is ignored; the lease goes with the job.
PublishTerminal(k) ==
  LET s == worker[k].job IN
  /\ worker[k].at = "publish"
  /\ record' \in {record, [record EXCEPT ![s] = outcome[s]]}
  /\ leased' = leased \ {s} /\ stopped' = stopped \ {s}
  /\ worker' = [worker EXCEPT ![k] = [at |-> IF k = Rescue THEN "recv" ELSE "clear", job |-> None]]
  /\ UNCHANGED <<spent, startVars, avail, chan, closing, shut, rescue>>

\* A mutant: the worker goes back to receive and keeps its slot.
ClearKeepsSlot(k) ==
  /\ worker[k].at = "clear"
  /\ Move(k, IF closing THEN "exiting" ELSE "recv")
  /\ UNCHANGED <<histVars, startVars, avail, chan, stopped, closing, shut, rescue>>

Clear(k) ==
  /\ worker[k].at = "clear"
  /\ Move(k, IF closing THEN "exiting" ELSE "return")
  /\ UNCHANGED <<histVars, startVars, avail, chan, stopped, closing, shut, rescue>>

ReturnSlot(k) ==
  /\ worker[k].at = "return"
  /\ avail' = Append(avail, k)
  /\ Move(k, "recv")
  /\ UNCHANGED <<histVars, startVars, chan, stopped, closing, shut, rescue>>

TakeShutdown(k) ==
  /\ worker[k].at = "recv" /\ chan[k] = "shutdown"
  /\ chan' = [chan EXCEPT ![k] = "empty"]
  /\ Move(k, "exiting")
  /\ UNCHANGED <<histVars, startVars, avail, stopped, closing, shut, rescue>>

\* The loop has ended and its receiver is dropped, with what it still holds.
Exit(k) ==
  /\ worker[k].at = "exiting"
  /\ chan' = [chan EXCEPT ![k] = "empty"]
  /\ IF chan[k] \in Ids
       THEN /\ \E proven \in BOOLEAN : Ends(chan[k], proven)
            /\ leased' = leased \ {chan[k]}
       ELSE UNCHANGED <<proc, leased>>
  /\ Move(k, "exited")
  /\ UNCHANGED <<record, spent, pc, result, outcome, cancelled, slot, avail, stopped,
                 closing, shut, rescue>>

\* The pool itself is dropped after its last user, and recv fails.
Disconnect(k) ==
  /\ worker[k].at = "recv"
  /\ shut = "done" /\ \A s \in Ids : pc[s] = "done"
  /\ IF k = Rescue THEN rescue = {} ELSE chan[k] = "empty"
  /\ Move(k, "exited")
  /\ UNCHANGED <<histVars, startVars, avail, chan, stopped, closing, shut, rescue>>

\* The jobs with a token in stops: put there before closing is checked, taken
\* out after the terminal record is written.
Registered == {worker[k].job : k \in Slots} \ {None}

ShutdownBegins ==
  /\ shut = "none"
  /\ closing' = TRUE /\ shut' = "stops"
  /\ UNCHANGED <<histVars, startVars, avail, chan, worker, stopped, rescue>>

ShutdownStops ==
  /\ shut = "stops"
  /\ stopped' = stopped \cup Registered
  /\ shut' = "idle"
  /\ UNCHANGED <<histVars, startVars, avail, chan, worker, closing, rescue>>

\* Idle workers are told, unless the list is contended at that moment.
ShutdownIdle ==
  /\ shut = "idle"
  /\ Notified({avail[i] : i \in DOMAIN avail}) \/ UNCHANGED chan
  /\ shut' = "done"
  /\ UNCHANGED <<histVars, startVars, avail, worker, stopped, closing, rescue>>
----------------------------------------------------------------------------
Step(s) ==
  \/ Enter(s) \/ Pop(s) \/ Refuse(s) \/ Recheck(s)
  \/ ReserveId(s) \/ GiveUp(s) \/ Prepare(s) \/ AbortPrepared(s)
  \/ PublishInitial(s) \/ Cleanup(s) \/ Unpublished(s) \/ Commit(s)
  \/ ReleaseProcess(s) \/ ReleaseFails(s) \/ Activate(s) \/ CompleteFailed(s) \/ Retain(s)
  \/ DropSlot(s) \/ DropNotice(s)

\* The worker's own steps; a process that nobody stops may run for ever.
Work(k) ==
  \/ CheckClosing(k) \/ PublishTerminal(k) \/ Disconnect(k)
  \/ \E o \in Outcomes : WaitEnds(k, o) /\ worker[k].job \in stopped
  \/ k = Rescue /\ \E s \in Ids : RescueTakes(s)
  \/ k \in Slots /\ (Receive(k) \/ Clear(k) \/ ReturnSlot(k) \/ TakeShutdown(k) \/ Exit(k))

Shutdown == ShutdownBegins \/ ShutdownStops \/ ShutdownIdle

Next ==
  \/ \E s \in Ids : Step(s) \/ Cancel(s)
  \/ \E k \in Workers : Work(k) \/ \E o \in Outcomes : WaitEnds(k, o)
  \/ Shutdown

Spec == Init /\ [][Next]_vars

\* Every thread of the host is scheduled: a start that has entered goes on, a
\* worker goes on, and so does the shutdown call once it is made.
FairSpec ==
  /\ Spec
  /\ \A s \in Ids : WF_vars(pc[s] # "new" /\ Step(s))
  /\ \A k \in Workers : WF_vars(Work(k))
  /\ WF_vars(ShutdownStops \/ ShutdownIdle)
----------------------------------------------------------------------------
(***************************************************************************)
(* Properties                                                              *)
(***************************************************************************)
\* Persist before release, and claim only what was proven: while the command
\* runs under its owner the store says running and the lease that protects that
\* record is held; exited and stopped, and an answer of Cancelled, are given
\* only for a process that is gone.
HistoryIsTrue ==
  \A s \in Ids :
    /\ proc[s] = "running" => record[s] = "running" /\ s \in leased
    /\ record[s] \in {"exited", "stopped"} => proc[s] = "reaped"
    /\ result[s] = "cancelled" => proc[s] \in {"none", "reaped"}

\* While the pool is open every slot is in exactly one place: free, held by a
\* permit, or with the worker or the channel that has its job.
SlotsAccounted ==
  ~closing => \A k \in Slots :
    LET free == {i \in DOMAIN avail : avail[i] = k}
        held == {s \in Ids : slot[s] = k /\ pc[s] # "dropped"}
        busy == chan[k] # "empty" \/ worker[k].at # "recv"
    IN Cardinality(held) + Cardinality(free) + (IF busy THEN 1 ELSE 0) = 1

\* After shutdown no process stays running: whatever the moment it was
\* admitted, released or handed over, its owner is told to stop.
ShutdownStopsProcesses ==
  \A s \in Ids : (closing /\ proc[s] = "running") ~> (proc[s] # "running")

\* A retained operation has exactly one owner that waits for its process and
\* publishes its terminal record: its worker's channel, that worker, the
\* rescue queue or the rescue worker, until the terminal observation is made.
RetainedHasOwner ==
  \A s \in Ids : result[s] = "ok" /\ outcome[s] = None =>
    \/ s \in rescue
    \/ \E k \in Slots : chan[k] = s
    \/ \E k \in Workers : worker[k].job = s
=============================================================================
