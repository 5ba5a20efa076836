---------------------------- MODULE TurnWorkflow ----------------------------
(***************************************************************************)
(* The agent loop of one turn: run_turn_inner of session.rs, from its first*)
(* event to its exit, with the emission gate through which it hands events *)
(* to the stream that polls it (EmissionGate, TurnEmitter, EmitFuture).    *)
(*                                                                         *)
(* The workflow is an async function: a step runs from one await to the    *)
(* next.  Awaited futures (provider, store, permission handler, tools) are *)
(* answered by their owners, at any time after the first poll; the answer  *)
(* carries its effect, so an answer nobody reads has happened all the same.*)
(* A cancellation is a flag that anyone may set at any time; where and     *)
(* when the workflow looks at it is what this module is about.             *)
(*                                                                         *)
(* Bytes, JSON and token usage are left out: every check on them is a      *)
(* choice to fail at the place of the check.  The conflict loops of        *)
(* commit_messages and replace_message are the subject of SessionState;    *)
(* here a commit answers or fails, with or without its effect.             *)
(***************************************************************************)
EXTENDS Integers, Sequences, FiniteSets

CONSTANTS
    Calls,      \* tool-call ids the model may use
    MaxRounds,  \* EngineLimits::max_model_rounds
    MaxItems,   \* EngineLimits::max_model_events_per_turn
    MaxPerRound,\* EngineLimits::max_tool_calls_per_round
    MaxCalls,   \* EngineLimits::max_tool_calls_per_turn
    None

ASSUME LimitsAssumption ==
    /\ MaxRounds \in Nat \ {0}
    /\ MaxItems \in Nat \ {0}
    /\ MaxPerRound \in Nat \ {0}
    /\ MaxCalls \in Nat \ {0}
ASSUME CallsAssumption == None \notin Calls

VARIABLES
    cancelled,   \* the turn's CancellationToken
    staged,      \* EmissionState::pending
    stagedEnds,  \* StagedTurnEvent::establishes_terminal
    acked,       \* EmissionState::acknowledged
    established, \* EmissionState::terminal_established
    defer,       \* EmissionState::cancellation_deferrals
    wf,          \* where the workflow is
    emitting,    \* it awaits the acknowledgement of its event
    awaiting,    \* the future it awaits, or None
    res,         \* what that future answered, or None
    probing,     \* await_final_save is past its look at the token
    exit,        \* WorkflowExit, or None
    rounds, items, calls, idx, total, seen,
    local,       \* the turn-local tool is in TurnToolCatalog
    task,        \* the prepared call in hand
    ledger,      \* durable: what the transcript says of each call
    final,       \* durable: the final assistant message
    ran,         \* history: how often each call's execution was polled first
    granted,     \* history: the authority each call got
    submitted    \* history: the completion-wins calls whose execution was polled

gateVars == <<staged, stagedEnds, acked, established>>
flowVars == <<wf, emitting, awaiting, res, probing, exit, defer>>
roundVars == <<rounds, items, calls, idx, total, seen, local>>
durableVars == <<ledger, final>>
historyVars == <<ran, granted, submitted>>
workflowVars == <<gateVars, flowVars, roundVars, task, durableVars, historyVars>>

-----------------------------------------------------------------------------
Event(what, c) == [what |-> what, call |-> c]

NoTask == [mode |-> "cancellable", guarded |-> FALSE, executed |-> FALSE,
           finish |-> FALSE, registers |-> FALSE]

Current == calls[idx]

\* The workflow runs: it awaits no acknowledgement and has not returned.
At(place) == wf = place /\ ~emitting /\ exit = None
Idle(place) == At(place) /\ awaiting = None
Ready(place) == At(place) /\ awaiting # None /\ res # None

\* EmitFuture: stage the event, and do not go on before it is acknowledged.
Emit(event, ends, place) ==
    /\ staged' = event
    /\ stagedEnds' = ends
    /\ emitting' = TRUE
    /\ wf' = place
    /\ UNCHANGED acked

Acknowledged ==
    /\ emitting
    /\ acked
    /\ exit = None
    /\ acked' = FALSE
    /\ emitting' = FALSE
    /\ UNCHANGED <<cancelled, staged, stagedEnds, established, wf, awaiting, res, probing, exit,
                   defer, roundVars, task, durableVars, historyVars>>

Await(op) == awaiting' = op /\ res' = None
Resumed == awaiting' = None /\ res' = None

\* The async frame ends: its futures and its deferral are dropped.
Exit(how) ==
    /\ exit' = how
    /\ Resumed
    /\ defer' = 0
    /\ UNCHANGED <<wf, emitting, probing>>

Fails ==
    /\ Exit("failed")
    /\ UNCHANGED <<cancelled, gateVars, roundVars, task, durableVars, historyVars>>

\* A failure that no cancellation may hide any more.
FailsForGood ==
    /\ Exit("failed")
    /\ established' = TRUE
    /\ UNCHANGED <<cancelled, staged, stagedEnds, acked, roundVars, task, durableVars, historyVars>>

-----------------------------------------------------------------------------
(* Cancellation.                                                           *)

\* Where the workflow looks at the token before it goes on: check_cancelled,
\* await_cancellable, next_model_item, await_tool_execution, await_operation and
\* await_final_save (whose first poll, and whose poll in progress, do not look).
Honours ==
    CASE wf = "execute" -> awaiting = None \/ task.mode = "cancellable"
      [] wf = "store" -> defer = 0
      [] wf = "final" -> awaiting = None \/ ~probing
      [] wf \in {"start", "decided", "validate", "finished", "end"} -> FALSE
      [] OTHER -> TRUE

Interrupted == cancelled /\ Honours

Aborts ==
    /\ exit = None
    /\ ~emitting
    /\ Interrupted
    /\ Exit("cancelled")
    /\ UNCHANGED <<cancelled, gateVars, roundVars, task, durableVars, historyVars>>

-----------------------------------------------------------------------------
(* A model round.                                                          *)

Start ==
    /\ Idle("start")
    /\ Emit(Event("started", None), FALSE, "round")
    /\ UNCHANGED <<cancelled, established, awaiting, res, probing, exit, defer, roundVars, task,
                   durableVars, historyVars>>

RoundBegins ==
    /\ Idle("round")
    /\ ~Interrupted
    /\ rounds < MaxRounds
    /\ rounds' = rounds + 1
    /\ calls' = <<>>
    /\ Await("provider")
    /\ wf' = "provider"
    /\ UNCHANGED <<cancelled, gateVars, emitting, probing, exit, defer, items, idx, total, seen, local,
                   task, durableVars, historyVars>>

\* The round limit; an oversized record or context.
RoundFails ==
    /\ Idle("round")
    /\ ~Interrupted
    /\ Fails

ProviderStarts ==
    /\ Ready("provider")
    /\ ~Interrupted
    /\ res = <<"ok">>
    /\ Resumed
    /\ wf' = "items"
    /\ UNCHANGED <<cancelled, gateVars, emitting, probing, exit, defer, roundVars, task, durableVars,
                   historyVars>>

NextItem ==
    /\ Idle("items")
    /\ ~Interrupted
    /\ Await("item")
    /\ UNCHANGED <<cancelled, gateVars, wf, emitting, probing, exit, defer, roundVars, task,
                   durableVars, historyVars>>

\* An awaited future failed, and with it the turn (a store, provider, archive or
\* policy error; a stream that ends without a stop).
AnswerFails ==
    /\ wf \in {"provider", "items", "persist", "commit", "authorize"}
    /\ Ready(wf)
    /\ ~Interrupted
    /\ res = <<"err">>
    /\ Fails

\* The checks on a tool call of the model.
CallAdmissible(c, name) ==
    /\ Len(calls) + 1 <= MaxPerRound
    /\ total + Len(calls) + 1 <= MaxCalls
    /\ c \notin seen
    /\ \A i \in 1..Len(calls) : calls[i] # c
    /\ name = "local" => local

\* A mutant: the events of the turn are not counted against their limit.
TextItemUnlimited ==
    /\ Ready("items")
    /\ ~Interrupted
    /\ res = <<"text">>
    /\ items' = items + 1
    /\ Resumed
    /\ Emit(Event("model", None), FALSE, "items")
    /\ UNCHANGED <<cancelled, established, probing, exit, defer, rounds, calls, idx, total, seen, local,
                   task, durableVars, historyVars>>

TextItem ==
    /\ Ready("items")
    /\ ~Interrupted
    /\ items < MaxItems
    /\ res = <<"text">>
    /\ items' = items + 1
    /\ Resumed
    /\ Emit(Event("model", None), FALSE, "items")
    /\ UNCHANGED <<cancelled, established, probing, exit, defer, rounds, calls, idx, total, seen, local,
                   task, durableVars, historyVars>>

CallItem ==
    /\ Ready("items")
    /\ ~Interrupted
    /\ items < MaxItems
    /\ res[1] = "call"
    /\ CallAdmissible(res[2], res[3])
    /\ items' = items + 1
    /\ calls' = Append(calls, res[2])
    /\ Resumed
    /\ Emit(Event("model", res[2]), FALSE, "items")
    /\ UNCHANGED <<cancelled, established, probing, exit, defer, rounds, idx, total, seen, local, task,
                   durableVars, historyVars>>

\* The event limit, a call or delta beyond its limits, a repeated id, an unknown
\* tool, an oversized stop, a stop that does not fit the calls.
ItemFails ==
    /\ Ready("items")
    /\ ~Interrupted
    /\ \/ items = MaxItems
       \/ res[1] # "err"
    /\ Fails

StopItem ==
    /\ Ready("items")
    /\ ~Interrupted
    /\ items < MaxItems
    /\ res = <<"stop">>
    /\ calls = <<>>
    /\ items' = items + 1
    /\ Resumed
    /\ wf' = "final"
    /\ UNCHANGED <<cancelled, gateVars, emitting, probing, exit, defer, rounds, calls, idx, total, seen,
                   local, task, durableVars, historyVars>>

ToolStopItem ==
    /\ Ready("items")
    /\ ~Interrupted
    /\ items < MaxItems
    /\ res = <<"tool_stop">>
    /\ calls # <<>>
    /\ items' = items + 1
    /\ seen' = seen \cup {calls[i] : i \in 1..Len(calls)}
    /\ idx' = 1
    /\ Resumed
    /\ Emit(Event("model", None), FALSE, "persist")
    /\ UNCHANGED <<cancelled, established, probing, exit, defer, rounds, calls, total, local, task,
                   durableVars, historyVars>>

-----------------------------------------------------------------------------
(* The durable round: arguments, then the message with its placeholders.   *)

PersistArguments ==
    /\ Idle("persist")
    /\ ~Interrupted
    /\ idx <= Len(calls)
    /\ Await("persist")
    /\ UNCHANGED <<cancelled, gateVars, wf, emitting, probing, exit, defer, roundVars, task,
                   durableVars, historyVars>>

ArgumentsPersisted ==
    /\ Ready("persist")
    /\ ~Interrupted
    /\ res = <<"ok">>
    /\ idx' = idx + 1
    /\ Resumed
    /\ UNCHANGED <<cancelled, gateVars, wf, emitting, probing, exit, defer, rounds, items, calls, total,
                   seen, local, task, durableVars, historyVars>>

\* A mutant: the calls run while the round is not durable yet.
CommitRoundLater ==
    /\ Idle("persist")
    /\ ~Interrupted
    /\ idx > Len(calls)
    /\ idx' = 1
    /\ wf' = "call"
    /\ UNCHANGED <<cancelled, gateVars, awaiting, res, emitting, probing, exit, defer, rounds, items,
                   calls, total, seen, local, task, durableVars, historyVars>>

CommitRound ==
    /\ Idle("persist")
    /\ ~Interrupted
    /\ idx > Len(calls)
    /\ Await("commit")
    /\ wf' = "commit"
    /\ UNCHANGED <<cancelled, gateVars, emitting, probing, exit, defer, roundVars, task, durableVars,
                   historyVars>>

RoundCommitted ==
    /\ Ready("commit")
    /\ ~Interrupted
    /\ res = <<"ok">>
    /\ idx' = 1
    /\ Resumed
    /\ wf' = "call"
    /\ UNCHANGED <<cancelled, gateVars, emitting, probing, exit, defer, rounds, items, calls, total,
                   seen, local, task, durableVars, historyVars>>

-----------------------------------------------------------------------------
(* One call: preparation, authority, execution.                            *)

\* A preparation that fails makes an error result and runs nothing.
PrepareErrs ==
    /\ Idle("call")
    /\ ~Interrupted
    /\ idx <= Len(calls)
    /\ task' = NoTask
    /\ wf' = "validate"
    /\ UNCHANGED <<cancelled, gateVars, emitting, awaiting, res, probing, exit, defer, roundVars,
                   durableVars, historyVars>>

PrepareInvalid ==
    /\ Idle("call")
    /\ ~Interrupted
    /\ idx <= Len(calls)
    /\ Fails

\* A mutant: a call that needs no permission starts without its event.
PrepareFreeSilently(mode) ==
    /\ Idle("call")
    /\ ~Interrupted
    /\ idx <= Len(calls)
    /\ task' = [NoTask EXCEPT !.mode = mode]
    /\ granted' = [granted EXCEPT ![Current] = "free"]
    /\ wf' = "execute"
    /\ UNCHANGED <<cancelled, gateVars, emitting, awaiting, res, probing, exit, defer, roundVars,
                   durableVars, ran, submitted>>

\* PreparedToolAuthorization::NoAuthorityRequired.
PrepareFree(mode) ==
    /\ Idle("call")
    /\ ~Interrupted
    /\ idx <= Len(calls)
    /\ task' = [NoTask EXCEPT !.mode = mode]
    /\ granted' = [granted EXCEPT ![Current] = "free"]
    /\ Emit(Event("tool_started", Current), FALSE, "execute")
    /\ UNCHANGED <<cancelled, established, awaiting, res, probing, exit, defer, roundVars, durableVars,
                   ran, submitted>>

\* PreparedToolAuthorization::PermissionRequired.
PrepareAsks(mode) ==
    /\ Idle("call")
    /\ ~Interrupted
    /\ idx <= Len(calls)
    /\ task' = [NoTask EXCEPT !.mode = mode]
    /\ granted' = [granted EXCEPT ![Current] = "asked"]
    /\ Emit(Event("permission_requested", Current), FALSE, "authorize")
    /\ UNCHANGED <<cancelled, established, awaiting, res, probing, exit, defer, roundVars, durableVars,
                   ran, submitted>>

Authorize ==
    /\ Idle("authorize")
    /\ ~Interrupted
    /\ Await("permission")
    /\ UNCHANGED <<cancelled, gateVars, wf, emitting, probing, exit, defer, roundVars, task,
                   durableVars, historyVars>>

\* PermissionDecision::Allow, with or without a PermissionExecutionAdmission.
Authorized ==
    /\ Ready("authorize")
    /\ ~Interrupted
    /\ res[1] = "allow"
    /\ task' = [task EXCEPT !.guarded = res[2]]
    /\ granted' = [granted EXCEPT ![Current] = "allowed"]
    /\ Resumed
    /\ Emit(Event("permission_resolved", Current), FALSE, "decided")
    /\ UNCHANGED <<cancelled, established, probing, exit, defer, roundVars, durableVars, ran,
                   submitted>>

Refused ==
    /\ Ready("authorize")
    /\ ~Interrupted
    /\ res = <<"deny">>
    /\ granted' = [granted EXCEPT ![Current] = "denied"]
    /\ Resumed
    /\ Emit(Event("permission_resolved", Current), FALSE, "decided")
    /\ UNCHANGED <<cancelled, established, probing, exit, defer, roundVars, task, durableVars, ran,
                   submitted>>

\* A refused call gets an error result and is not started.
Decided ==
    /\ Idle("decided")
    /\ IF granted[Current] = "denied"
       THEN Emit(Event("tool_denied", Current), FALSE, "validate")
       ELSE Emit(Event("tool_started", Current), FALSE, "execute")
    /\ UNCHANGED <<cancelled, established, awaiting, res, probing, exit, defer, roundVars, task,
                   durableVars, historyVars>>

\* PermissionExecutionAdmission::admit refuses at the last moment.
AdmissionRevoked ==
    /\ Idle("execute")
    /\ ~Interrupted
    /\ task.guarded
    /\ Fails

\* The first poll of the execution future; a completion-wins one defers
\* cancellation from here on.
Execute ==
    /\ Idle("execute")
    /\ ~Interrupted
    /\ ran' = [ran EXCEPT ![Current] = @ + 1]
    /\ IF task.mode = "completes"
       THEN defer' = 1 /\ submitted' = submitted \cup {Current}
       ELSE UNCHANGED <<defer, submitted>>
    /\ task' = [task EXCEPT !.guarded = FALSE, !.executed = TRUE]
    /\ Await("tool")
    /\ UNCHANGED <<cancelled, gateVars, wf, emitting, probing, exit, roundVars, durableVars, granted>>

Executed ==
    /\ Ready("execute")
    /\ ~Interrupted
    /\ task' = IF res[1] = "done"
               THEN [task EXCEPT !.finish = res[2], !.registers = res[3]]
               ELSE task
    /\ Resumed
    /\ wf' = "validate"
    /\ UNCHANGED <<cancelled, gateVars, emitting, probing, exit, defer, roundVars, durableVars,
                   historyVars>>

-----------------------------------------------------------------------------
(* Its result.                                                             *)

\* An output beyond its limits, or an error that registers a tool.
OutputRejected ==
    /\ Idle("validate")
    /\ FailsForGood

\* validate_registration: the name is taken.
RegistrationClashes ==
    /\ Idle("validate")
    /\ task.registers
    /\ IF defer > 0 THEN FailsForGood ELSE Fails

OutputValid ==
    /\ Idle("validate")
    /\ wf' = "store"
    /\ UNCHANGED <<cancelled, gateVars, emitting, awaiting, res, probing, exit, defer, roundVars, task,
                   durableVars, historyVars>>

StoreResult ==
    /\ Idle("store")
    /\ ~Interrupted
    /\ Await("replace")
    /\ UNCHANGED <<cancelled, gateVars, wf, emitting, probing, exit, defer, roundVars, task,
                   durableVars, historyVars>>

\* A mutant: a lost result is an ordinary failure, which a cancellation hides.
ResultLostBlind ==
    /\ Ready("store")
    /\ ~Interrupted
    /\ res = <<"err">>
    /\ Fails

\* The result could not be stored: after a completion-wins execution this ends the
\* turn as a failure, whatever else was requested.
ResultLost ==
    /\ Ready("store")
    /\ ~Interrupted
    /\ res = <<"err">>
    /\ IF defer > 0 THEN FailsForGood ELSE Fails

\* The tool registered by the call becomes available to the next round.
ResultStored ==
    /\ Ready("store")
    /\ ~Interrupted
    /\ res = <<"ok">>
    /\ local' = (local \/ task.registers)
    /\ Resumed
    /\ IF task.executed
       THEN Emit(Event("tool_finished", Current), FALSE, "finished")
       ELSE wf' = "finished" /\ UNCHANGED <<staged, stagedEnds, acked, emitting>>
    /\ UNCHANGED <<cancelled, established, probing, exit, defer, rounds, items, calls, idx, total, seen,
                   task, durableVars, historyVars>>

\* The deferral ends; the next call, or the next round.
CallFinished ==
    /\ Idle("finished")
    /\ ~task.finish
    /\ defer' = 0
    /\ task' = NoTask
    /\ IF idx < Len(calls)
       THEN idx' = idx + 1 /\ wf' = "call" /\ UNCHANGED total
       ELSE idx' = 0 /\ wf' = "round" /\ total' = total + Len(calls)
    /\ UNCHANGED <<cancelled, gateVars, emitting, awaiting, res, probing, exit, rounds, items, calls,
                   seen, local, durableVars, historyVars>>

\* ToolExecution::finish_turn, unless cancelled meanwhile.
TurnFinished ==
    /\ Idle("finished")
    /\ task.finish
    /\ IF cancelled
       THEN Exit("cancelled") /\ UNCHANGED established
       ELSE Exit("completed") /\ established' = TRUE
    /\ UNCHANGED <<cancelled, staged, stagedEnds, acked, roundVars, task, durableVars, historyVars>>

-----------------------------------------------------------------------------
(* The final message: await_final_save.                                    *)

FinalSave ==
    /\ Idle("final")
    /\ ~Interrupted
    /\ Await("final")
    /\ probing' = TRUE
    /\ UNCHANGED <<cancelled, gateVars, wf, emitting, exit, defer, roundVars, task, durableVars,
                   historyVars>>

\* A later poll looks at the token before it polls the save.
FinalProbe ==
    /\ At("final")
    /\ awaiting = "final"
    /\ ~probing
    /\ ~Interrupted
    /\ probing' = TRUE
    /\ UNCHANGED <<cancelled, gateVars, wf, emitting, awaiting, res, exit, defer, roundVars, task,
                   durableVars, historyVars>>

\* A mutant: the terminal event is staged but not established.
FinalSavedUnestablished ==
    /\ Ready("final")
    /\ probing
    /\ res = <<"ok">>
    /\ Resumed
    /\ Emit(Event("model", None), FALSE, "end")
    /\ UNCHANGED <<cancelled, established, probing, exit, defer, roundVars, task, durableVars,
                   historyVars>>

\* A save that succeeds wins over a cancellation requested during its last poll.
FinalSaved ==
    /\ Ready("final")
    /\ probing
    /\ res = <<"ok">>
    /\ Resumed
    /\ established' = TRUE
    /\ Emit(Event("model", None), TRUE, "end")
    /\ UNCHANGED <<cancelled, probing, exit, defer, roundVars, task, durableVars, historyVars>>

\* A failed one does not; neither does one that is still pending.
FinalFails ==
    /\ Ready("final")
    /\ probing
    /\ res = <<"err">>
    /\ IF cancelled THEN Exit("cancelled") ELSE Exit("failed")
    /\ UNCHANGED <<cancelled, gateVars, roundVars, task, durableVars, historyVars>>

FinalInterrupted ==
    /\ At("final")
    /\ awaiting = "final"
    /\ probing
    /\ res = None
    /\ cancelled
    /\ Exit("cancelled")
    /\ UNCHANGED <<cancelled, gateVars, roundVars, task, durableVars, historyVars>>

Completed ==
    /\ Idle("end")
    /\ Exit("completed")
    /\ UNCHANGED <<cancelled, gateVars, roundVars, task, durableVars, historyVars>>

-----------------------------------------------------------------------------
\* One step of the async frame.
WorkflowStep ==
    \/ Start \/ Acknowledged \/ Aborts
    \/ RoundBegins \/ RoundFails \/ ProviderStarts \/ NextItem \/ AnswerFails
    \/ TextItem \/ CallItem \/ ItemFails \/ StopItem \/ ToolStopItem
    \/ PersistArguments \/ ArgumentsPersisted \/ CommitRound \/ RoundCommitted
    \/ PrepareErrs \/ PrepareInvalid
    \/ \E mode \in {"cancellable", "completes"} : PrepareFree(mode) \/ PrepareAsks(mode)
    \/ Authorize \/ Authorized \/ Refused \/ Decided
    \/ AdmissionRevoked \/ Execute \/ Executed
    \/ OutputRejected \/ RegistrationClashes \/ OutputValid
    \/ StoreResult \/ ResultLost \/ ResultStored \/ CallFinished \/ TurnFinished
    \/ FinalSave \/ FinalProbe \/ FinalSaved \/ FinalFails \/ FinalInterrupted \/ Completed

\* The frame returns Pending: its event is not acknowledged, or the future it
\* awaits has not answered.
WorkflowPends ==
    /\ exit = None
    /\ \/ emitting /\ ~acked
       \/ /\ ~emitting
          /\ awaiting # None
          /\ res = None
          /\ ~Interrupted
          /\ awaiting = "final" => probing /\ ~cancelled
    /\ probing' = FALSE
    /\ UNCHANGED <<cancelled, gateVars, wf, emitting, awaiting, res, exit, defer, roundVars, task,
                   durableVars, historyVars>>

-----------------------------------------------------------------------------
(* The owners of the awaited futures answer.                               *)

Items ==
    {<<"text">>, <<"stop">>, <<"tool_stop">>, <<"err">>}
        \cup {<<"call", c, name>> : c \in Calls, name \in {"static", "local"}}

Answers(op) ==
    CASE op = "item" -> Items
      [] op = "permission" -> {<<"allow", TRUE>>, <<"allow", FALSE>>, <<"deny">>, <<"err">>}
      [] op = "tool" -> {<<"done", finish, reg>> : finish \in BOOLEAN, reg \in BOOLEAN} \cup {<<"err">>}
      [] OTHER -> {<<"ok">>, <<"err">>}

\* A successful commit is durable; a failed one may be.
Effect(op, durable) ==
    CASE op = "commit" /\ durable ->
            /\ ledger' = [c \in Calls |-> IF \E i \in 1..Len(calls) : calls[i] = c
                                          THEN "unknown" ELSE ledger[c]]
            /\ UNCHANGED final
      [] op = "replace" /\ durable ->
            /\ ledger' = [ledger EXCEPT ![Current] = "result"]
            /\ UNCHANGED final
      [] op = "final" /\ durable ->
            /\ final' = TRUE
            /\ UNCHANGED ledger
      [] OTHER -> UNCHANGED durableVars

Answer ==
    /\ awaiting # None
    /\ res = None
    /\ \E answer \in Answers(awaiting), durable \in BOOLEAN :
          /\ answer = <<"ok">> => durable
          /\ durable => awaiting \in {"commit", "replace", "final"}
                        \/ answer = <<"ok">>
          /\ res' = answer
          /\ Effect(awaiting, durable)
    /\ UNCHANGED <<cancelled, gateVars, wf, emitting, awaiting, probing, exit, defer, roundVars, task,
                   historyVars>>

WorkflowInit ==
    /\ cancelled = FALSE
    /\ staged = None /\ stagedEnds = FALSE /\ acked = FALSE /\ established = FALSE
    /\ defer = 0
    /\ wf = "start" /\ emitting = FALSE /\ awaiting = None /\ res = None /\ probing = FALSE
    /\ exit = None
    /\ rounds = 0 /\ items = 0 /\ calls = <<>> /\ idx = 0 /\ total = 0 /\ seen = {} /\ local = FALSE
    /\ task = NoTask
    /\ ledger = [c \in Calls |-> "absent"]
    /\ final = FALSE
    /\ ran = [c \in Calls |-> 0]
    /\ granted = [c \in Calls |-> "none"]
    /\ submitted = {}
=============================================================================
