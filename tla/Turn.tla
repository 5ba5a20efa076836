-------------------------------- MODULE Turn --------------------------------
(***************************************************************************)
(* A turn as its consumer sees it: the stream Turn::poll_next of           *)
(* session.rs, which polls the workflow of TurnWorkflow, sends each event  *)
(* to the event sink and only then yields it, and decides between the      *)
(* workflow's terminal event and a cancellation.                           *)
(*                                                                         *)
(* poll_next is a loop; its steps here lie between its looks at the token, *)
(* which other threads, the sink and the tools may set at any moment.  A   *)
(* poll that returns Pending sleeps until it is woken: by an answer, by the*)
(* sink, or by the token if the stream's waiter is registered there.       *)
(***************************************************************************)
EXTENDS TurnWorkflow

VARIABLES
    place,       \* of poll_next: "returned", "asleep", "top", "sink", "workflow", "after"
    state,       \* TurnState
    closing,     \* the event of TurnState::EmitTerminal, or None
    delivery,    \* PendingDelivery: event, sequence, what the sink answered
    sequence,
    terminal,    \* terminal_seen
    synthesized, \* locally_synthesized_cancellation
    lease,       \* the TurnLease is held
    armed,       \* cancellation_waiter is registered
    woken,       \* the waker was woken since the last poll began
    out,         \* history: the events yielded
    erred        \* history: an error was yielded

streamVars == <<place, state, closing, delivery, sequence, terminal, synthesized, lease, armed, woken,
                out, erred>>
vars == <<cancelled, workflowVars, streamVars>>

Terminals == {"completed", "cancelled", "failed"}

-----------------------------------------------------------------------------
(* Delivery.                                                               *)

\* stage.
Stage(event) ==
    /\ delivery' = [what |-> event.what, call |-> event.call, seq |-> sequence, sink |-> "pending"]
    /\ sequence' = sequence + 1

Yield(what, c, n) == out' = Append(out, [what |-> what, call |-> c, seq |-> n])

\* A mutant: the lease is kept until the stream is dropped.
FinishKeepsLease ==
    /\ state' = "done"
    /\ closing' = None
    /\ staged' = None /\ stagedEnds' = FALSE /\ acked' = FALSE /\ established' = FALSE
    /\ emitting' = FALSE /\ awaiting' = None /\ res' = None /\ probing' = FALSE /\ defer' = 0
    /\ armed' = FALSE
    /\ UNCHANGED lease

\* finish: the workflow, its futures and its deferral are dropped, the lease is
\* released.
Finish ==
    /\ state' = "done"
    /\ closing' = None
    /\ staged' = None /\ stagedEnds' = FALSE /\ acked' = FALSE /\ established' = FALSE
    /\ emitting' = FALSE /\ awaiting' = None /\ res' = None /\ probing' = FALSE /\ defer' = 0
    /\ armed' = FALSE
    /\ lease' = FALSE

\* cancel_pending_delivery applies: the pending event is given up for the
\* cancellation, unless a terminal event is already decided.
CancelsDelivery ==
    /\ cancelled
    /\ defer = 0
    /\ delivery # None
    /\ terminal => synthesized /\ delivery.what = "cancelled"

DeliverCancellation ==
    /\ place \in {"top", "sink"}
    /\ CancelsDelivery
    /\ IF terminal
       THEN /\ Yield("cancelled", None, delivery.seq)
            /\ UNCHANGED sequence
       ELSE /\ Yield("cancelled", None, sequence)
            /\ sequence' = sequence + 1
    /\ delivery' = None
    /\ synthesized' = TRUE
    /\ terminal' = TRUE
    /\ Finish
    /\ place' = "returned"
    /\ UNCHANGED <<cancelled, wf, exit, roundVars, task, durableVars, historyVars, woken, erred>>

\* A mutant: the waiter is not registered while an event is delivered.
PollSinkUnarmed ==
    /\ place = "top"
    /\ delivery # None
    /\ ~CancelsDelivery
    /\ armed' = FALSE
    /\ place' = "sink"
    /\ UNCHANGED <<cancelled, workflowVars, state, closing, delivery, sequence, terminal, synthesized,
                   lease, woken, out, erred>>

\* poll_delivery up to its look at what the sink answered.
PollSink ==
    /\ place = "top"
    /\ delivery # None
    /\ ~CancelsDelivery
    /\ armed' = (~terminal /\ ~cancelled)
    /\ place' = "sink"
    /\ UNCHANGED <<cancelled, workflowVars, state, closing, delivery, sequence, terminal, synthesized,
                   lease, woken, out, erred>>

SinkPends ==
    /\ place = "sink"
    /\ ~CancelsDelivery
    /\ delivery.sink = "pending"
    /\ place' = "asleep"
    /\ UNCHANGED <<cancelled, workflowVars, state, closing, delivery, sequence, terminal, synthesized,
                   lease, armed, woken, out, erred>>

\* A mutant: the workflow is not told that its event was delivered.
DeliveredUnacknowledged ==
    /\ place = "sink"
    /\ ~CancelsDelivery
    /\ delivery.sink = "ok"
    /\ Yield(delivery.what, delivery.call, delivery.seq)
    /\ delivery' = None
    /\ IF delivery.what \in Terminals
       THEN Finish
       ELSE UNCHANGED <<state, closing, lease, armed, gateVars, emitting, awaiting, res, probing, defer>>
    /\ place' = "returned"
    /\ UNCHANGED <<cancelled, wf, exit, roundVars, task, durableVars, historyVars, sequence, terminal,
                   synthesized, woken, erred>>

\* The event is yielded; the workflow may go on, or the turn is over.
Delivered ==
    /\ place = "sink"
    /\ ~CancelsDelivery
    /\ delivery.sink = "ok"
    /\ Yield(delivery.what, delivery.call, delivery.seq)
    /\ delivery' = None
    /\ IF delivery.what \in Terminals
       THEN Finish
       ELSE /\ acked' = TRUE
            /\ armed' = FALSE
            /\ UNCHANGED <<state, closing, lease, staged, stagedEnds, established, emitting, awaiting,
                           res, probing, defer>>
    /\ place' = "returned"
    /\ UNCHANGED <<cancelled, wf, exit, roundVars, task, durableVars, historyVars, sequence, terminal,
                   synthesized, woken, erred>>

\* fail_before_terminal: the sink's error ends the turn.
SinkFailed ==
    /\ place = "sink"
    /\ ~CancelsDelivery
    /\ delivery.sink = "err"
    /\ cancelled' = (cancelled \/ ~terminal)
    /\ terminal' = TRUE
    /\ delivery' = None
    /\ erred' = TRUE
    /\ Finish
    /\ place' = "returned"
    /\ UNCHANGED <<wf, exit, roundVars, task, durableVars, historyVars, sequence, synthesized, woken, out>>

-----------------------------------------------------------------------------
(* The loop of poll_next without a delivery.                               *)

\* establish_cancellation: the workflow is dropped.
EstablishCancellation ==
    /\ terminal' = TRUE
    /\ synthesized' = TRUE
    /\ state' = "emit"
    /\ closing' = Event("cancelled", None)

\* The workflow is dropped, with its futures and what it staged.
Abandon ==
    /\ emitting' = FALSE /\ awaiting' = None /\ res' = None /\ probing' = FALSE
    /\ staged' = None /\ stagedEnds' = FALSE
    /\ UNCHANGED <<acked, established, defer, wf, exit, roundVars, task, durableVars, historyVars>>

Observed(seenTerminal) == cancelled /\ ~seenTerminal /\ defer = 0

\* A cancellation is observed before the workflow is polled; the terminal event is
\* staged in the same pass.
ObserveCancellation ==
    /\ place = "top"
    /\ delivery = None
    /\ Observed(terminal \/ established)
    /\ terminal' = TRUE
    /\ synthesized' = TRUE
    /\ state' = "done"
    /\ closing' = None
    /\ Stage(Event("cancelled", None))
    /\ armed' = FALSE
    /\ Abandon
    /\ UNCHANGED <<cancelled, place, lease, woken, out, erred>>

PollWorkflow ==
    /\ place = "top"
    /\ delivery = None
    /\ state = "running"
    /\ ~Observed(terminal \/ established)
    /\ terminal' = (terminal \/ established)
    /\ armed' = (~terminal' /\ ~cancelled)
    /\ place' = "workflow"
    /\ UNCHANGED <<cancelled, workflowVars, state, closing, delivery, sequence, synthesized, lease,
                   woken, out, erred>>

StageTerminal ==
    /\ place = "top"
    /\ delivery = None
    /\ state = "emit"
    /\ Stage(closing)
    /\ state' = "done"
    /\ closing' = None
    /\ armed' = FALSE
    /\ UNCHANGED <<cancelled, workflowVars, place, terminal, synthesized, lease, woken, out, erred>>

\* The workflow runs until it stages an event, waits or returns.
RunWorkflow ==
    /\ place = "workflow"
    /\ \/ /\ WorkflowStep
          /\ place' = IF staged' # None \/ exit' # None THEN "after" ELSE "workflow"
       \/ /\ WorkflowPends
          /\ place' = "after"
    /\ UNCHANGED <<state, closing, delivery, sequence, terminal, synthesized, lease, armed, woken, out,
                   erred>>

\* After the poll: a cancellation wins unless the terminal event is decided.
AfterCancelled ==
    /\ place = "after"
    /\ Observed(terminal \/ established \/ stagedEnds)
    /\ EstablishCancellation
    /\ Abandon
    /\ place' = "top"
    /\ UNCHANGED <<cancelled, delivery, sequence, lease, armed, woken, out, erred>>

AfterStaged ==
    /\ place = "after"
    /\ staged # None
    /\ ~Observed(terminal \/ established \/ stagedEnds)
    /\ terminal' = (terminal \/ established \/ stagedEnds)
    /\ Stage(staged)
    /\ staged' = None
    /\ stagedEnds' = FALSE
    /\ place' = "top"
    /\ UNCHANGED <<cancelled, acked, established, flowVars, roundVars, task, durableVars, historyVars,
                   state, closing, synthesized, lease, armed, woken, out, erred>>

AfterPending ==
    /\ place = "after"
    /\ staged = None
    /\ exit = None
    /\ ~Observed(terminal \/ established)
    /\ terminal' = (terminal \/ established)
    /\ place' = "asleep"
    /\ UNCHANGED <<cancelled, workflowVars, state, closing, delivery, sequence, synthesized, lease,
                   armed, woken, out, erred>>

AfterExit ==
    /\ place = "after"
    /\ staged = None
    /\ exit # None
    /\ ~Observed(terminal \/ established)
    /\ terminal' = TRUE
    /\ synthesized' = (synthesized \/ exit = "cancelled")
    /\ state' = "emit"
    /\ closing' = Event(exit, None)
    /\ place' = "top"
    /\ UNCHANGED <<cancelled, workflowVars, delivery, sequence, lease, armed, woken, out, erred>>

-----------------------------------------------------------------------------
(* The consumer, the canceller, the sink.                                  *)

Poll ==
    /\ lease
    /\ place = "returned" \/ (place = "asleep" /\ woken)
    /\ place' = "top"
    /\ woken' = FALSE
    /\ UNCHANGED <<cancelled, workflowVars, state, closing, delivery, sequence, terminal, synthesized,
                   lease, armed, out, erred>>

\* Drop for Turn, between polls.
DropTurn ==
    /\ lease
    /\ place \in {"returned", "asleep"}
    /\ cancelled' = TRUE
    /\ delivery' = None
    /\ Finish
    /\ place' = "returned"
    /\ UNCHANGED <<wf, exit, roundVars, task, durableVars, historyVars, sequence, terminal, synthesized,
                   woken, out, erred>>

\* TurnHandle::cancel, from anywhere; a registered waiter is woken.
Cancel ==
    /\ ~cancelled
    /\ lease
    /\ cancelled' = TRUE
    /\ woken' = (woken \/ armed)
    /\ armed' = FALSE
    /\ UNCHANGED <<workflowVars, place, state, closing, delivery, sequence, terminal, synthesized,
                   lease, out, erred>>

AnswerWakes ==
    /\ Answer
    /\ woken' = TRUE
    /\ UNCHANGED <<place, state, closing, delivery, sequence, terminal, synthesized, lease, armed, out,
                   erred>>

SinkAnswers ==
    /\ place \in {"sink", "asleep"}
    /\ delivery # None
    /\ delivery.sink = "pending"
    /\ \E answer \in {"ok", "err"} : delivery' = [delivery EXCEPT !.sink = answer]
    /\ woken' = TRUE
    /\ UNCHANGED <<cancelled, workflowVars, place, state, closing, sequence, terminal, synthesized,
                   lease, armed, out, erred>>

-----------------------------------------------------------------------------
Init ==
    /\ WorkflowInit
    /\ place = "returned"
    /\ state = "running"
    /\ closing = None
    /\ delivery = None
    /\ sequence = 0
    /\ terminal = FALSE
    /\ synthesized = FALSE
    /\ lease = TRUE
    /\ armed = FALSE
    /\ woken = FALSE
    /\ out = <<>>
    /\ erred = FALSE

\* What a poll does.
PollStep ==
    \/ DeliverCancellation \/ PollSink \/ SinkPends \/ Delivered \/ SinkFailed
    \/ ObserveCancellation \/ PollWorkflow \/ StageTerminal \/ RunWorkflow
    \/ AfterCancelled \/ AfterStaged \/ AfterPending \/ AfterExit

Environment == Cancel \/ DropTurn \/ AnswerWakes \/ SinkAnswers

Next == Poll \/ PollStep \/ Environment

Spec == Init /\ [][Next]_vars
\* The consumer keeps polling a stream that is ready or woken.
PollFairness == WF_vars(Poll \/ PollStep)
FairSpec == Spec /\ PollFairness

\* The sink and the awaited futures answer.
Served == WF_vars(AnswerWakes) /\ WF_vars(SinkAnswers)

-----------------------------------------------------------------------------
(* Properties.                                                             *)

Places == {"returned", "asleep", "top", "sink", "workflow", "after"}
WorkflowPlaces == {"start", "round", "provider", "items", "persist", "commit", "call", "authorize",
                   "decided", "execute", "validate", "store", "finished", "final", "end"}
Whats == {"started", "model", "permission_requested", "permission_resolved", "tool_started",
          "tool_denied", "tool_finished"} \cup Terminals
Events == [what : Whats, call : Calls \cup {None}]
Deliveries == [what : Whats, call : Calls \cup {None}, seq : Nat, sink : {"pending", "ok", "err"}]
Tasks == [mode : {"cancellable", "completes"}, guarded : BOOLEAN, executed : BOOLEAN,
          finish : BOOLEAN, registers : BOOLEAN]
Awaitables == {"provider", "item", "persist", "commit", "permission", "tool", "replace", "final"}

\* None is none of the program's values.
ASSUME NoneAssumption ==
    /\ None \notin Events /\ None \notin Deliveries
    /\ None \notin Terminals \cup Awaitables
    /\ \A op \in Awaitables : None \notin Answers(op)

\* The types of the state: session.rs Turn, EmissionState and the locals of
\* run_turn_inner.
TypeOK ==
    /\ cancelled \in BOOLEAN
    /\ staged \in Events \cup {None}
    /\ {stagedEnds, acked, established, emitting, probing, local, final} \subseteq BOOLEAN
    /\ defer \in 0..1
    /\ wf \in WorkflowPlaces
    /\ awaiting \in Awaitables \cup {None}
    /\ awaiting = None => res = None
    /\ awaiting # None /\ res # None => res \in Answers(awaiting)
    /\ exit \in Terminals \cup {None}
    /\ rounds \in 0..MaxRounds
    /\ items \in 0..MaxItems
    /\ Len(calls) \in 0..MaxPerRound
    /\ \A i \in 1..Len(calls) : calls[i] \in Calls
    /\ idx \in 0..(MaxPerRound + 1)
    /\ total \in 0..MaxCalls
    /\ seen \subseteq Calls
    /\ task \in Tasks
    /\ ledger \in [Calls -> {"absent", "unknown", "result"}]
    /\ ran \in [Calls -> Nat]
    /\ granted \in [Calls -> {"none", "free", "asked", "allowed", "denied"}]
    /\ submitted \subseteq Calls
    /\ place \in Places
    /\ state \in {"running", "emit", "done"}
    /\ closing \in Events \cup {None}
    /\ delivery \in Deliveries \cup {None}
    /\ sequence \in Nat
    /\ {terminal, synthesized, lease, armed, woken, erred} \subseteq BOOLEAN
    /\ \A i \in 1..Len(out) : [what |-> out[i].what, call |-> out[i].call] \in Events

Yielded(what, c) == \E i \in 1..Len(out) : out[i].what = what /\ out[i].call = c

\* The stream is one orderly account of its turn: sequence numbers are strictly
\* increasing, and contiguous but for the event a cancellation superseded (stage,
\* cancel_pending_delivery); a terminal event is the last thing yielded, after it
\* nothing fails, and the lease is free for the next turn by then; a stream that is
\* done without one still owes it, so it never yields None with the session left
\* busy (finish).
OrderedEvents ==
    /\ \A i \in 2..Len(out) :
          /\ out[i].seq > out[i - 1].seq
          /\ out[i].seq = out[i - 1].seq + 1 \/ out[i].what = "cancelled"
    /\ \A i \in 1..Len(out) : out[i].what \in Terminals => i = Len(out) /\ ~erred /\ ~lease
    /\ lease /\ state = "done" => delivery # None

\* The stream tells the truth about tools, and in time: one runs only after its start
\* was yielded, a permission-required one only after the request and the decision
\* were; ToolFinished is yielded only of an execution whose result is durable, and a
\* denial only of a call that did not run.
ReportsAreTrue ==
    \A c \in Calls :
        /\ ran[c] > 0 => Yielded("tool_started", c)
        /\ ran[c] > 0 /\ granted[c] = "allowed" =>
              Yielded("permission_requested", c) /\ Yielded("permission_resolved", c)
        /\ Yielded("tool_finished", c) => ledger[c] = "result" /\ ran[c] = 1
        /\ Yielded("tool_denied", c) => ran[c] = 0

\* Completion wins: a cancelled turn has stored and reported the result of every
\* completion-wins execution it started (core-api.md: "durably replaces the result
\* placeholder without cancellation interruption, and delivers ToolFinished before
\* observing a pending turn cancellation").
CompletionWins ==
    Yielded("cancelled", None) =>
        \A c \in submitted : ledger[c] = "result" /\ Yielded("tool_finished", c)

\* Success and the final save agree: a turn reports completion only if its final
\* message, or the result of the call that finished it, is durable, and once that
\* save succeeded it cannot turn into a cancelled one (FinalSaveSuccessWins).
CompletionIsDurable ==
    /\ Yielded("completed", None) =>
          \/ final
          \/ task.finish /\ ledger[Current] = "result" /\ Yielded("tool_finished", Current)
    /\ wf = "end" => ~synthesized /\ ~Yielded("cancelled", None)

\* What the calls of a turn may do (ToolLedger), with the turn ended when its lease
\* is released.
Ledger == INSTANCE ToolLedger WITH ended <- ~lease
ImplementsLedger == Ledger!LedgerSpec

\* A cancelled turn ends without help from provider, store, tool or sink, unless
\* a completion-wins execution holds it or its terminal event was decided before.
CancellationIsPrompt ==
    cancelled /\ lease ~> \/ ~lease
                          \/ defer > 0
                          \/ (terminal \/ established) /\ ~synthesized

\* If provider, store, tools and sink answer, every turn ends.
TurnEnds == Served => <>~lease
=============================================================================
