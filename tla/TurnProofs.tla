----------------------------- MODULE TurnProofs -----------------------------
(***************************************************************************)
(* What holds of Turn for any set of calls and any limits.                 *)
(*                                                                         *)
(* The invariant follows an event through the gate and a call through its  *)
(* places:                                                                 *)
(*   Types      the types of the state;                                    *)
(*   StreamInv  where the stream is, what of the workflow is alive, and    *)
(*              that an event is staged, with the sink or acknowledged;    *)
(*   Numbered   what was yielded so far is numbered without a gap;         *)
(*   FlightInv  the event on its way is the one the place announces;       *)
(*   TellInv    what must have been yielded at a place;                    *)
(*   CallInv    what ledger, authority and history say of the calls of the *)
(*              round at a place;                                          *)
(*   WinInv     while a cancellation can be observed, every completion-wins*)
(*              execution is stored and reported;                          *)
(*   EndInv     what was decided stays decided;                            *)
(*   ReportInv  what was yielded about tools is true.                      *)
(***************************************************************************)
EXTENDS Turn, TLAPS

Yields == [what : Whats, call : Calls \cup {None}, seq : Nat]

\* The events yielded, without their numbers.
Said == {<<out[i].what, out[i].call>> : i \in 1..Len(out)}

FlowTypes ==
    /\ staged \in Events \cup {None} /\ stagedEnds \in BOOLEAN /\ acked \in BOOLEAN /\ established \in BOOLEAN
    /\ defer \in {0, 1}
    /\ wf \in WorkflowPlaces /\ emitting \in BOOLEAN /\ probing \in BOOLEAN
    /\ awaiting \in Awaitables \cup {None}
    /\ awaiting = None => res = None
    /\ awaiting # None /\ res # None => res \in Answers(awaiting)
    /\ exit \in Terminals \cup {None}

RoundTypes ==
    /\ rounds \in 0..MaxRounds /\ items \in 0..MaxItems
    /\ calls \in Seq(Calls) /\ Len(calls) <= MaxPerRound
    /\ idx \in 0..(MaxPerRound + 1)
    /\ total \in 0..MaxCalls
    /\ seen \subseteq Calls /\ local \in BOOLEAN
    /\ task \in Tasks

LedgerTypes ==
    /\ ledger \in [Calls -> {"absent", "unknown", "result"}] /\ final \in BOOLEAN
    /\ ran \in [Calls -> Nat]
    /\ granted \in [Calls -> {"none", "free", "asked", "allowed", "denied"}]
    /\ submitted \subseteq Calls

StreamTypes ==
    /\ cancelled \in BOOLEAN
    /\ place \in Places /\ state \in {"running", "emit", "done"}
    /\ closing \in Events \cup {None}
    /\ delivery \in Deliveries \cup {None}
    /\ sequence \in Nat
    /\ terminal \in BOOLEAN /\ synthesized \in BOOLEAN /\ lease \in BOOLEAN /\ armed \in BOOLEAN
    /\ woken \in BOOLEAN /\ erred \in BOOLEAN
    /\ out \in Seq(Yields)

Types == FlowTypes /\ RoundTypes /\ LedgerTypes /\ StreamTypes

\* The stream and its hold on the workflow.
StreamInv ==
    /\ ~lease => place = "returned" /\ state = "done" /\ delivery = None
    /\ lease => ~erred
    /\ state # "running" => awaiting = None /\ staged = None /\ (lease => terminal)
    /\ state = "emit" => place = "top" /\ delivery = None /\ closing # None /\ closing.what \in Terminals
    /\ lease /\ state = "done" => delivery # None /\ delivery.what \in Terminals
    /\ place \in {"workflow", "after"} => state = "running" /\ delivery = None
    /\ place = "sink" => delivery # None

\* The gate of a running workflow.
GateInv == state = "running" =>
    /\ staged # None => place = "after" /\ emitting /\ ~acked /\ staged.what \notin Terminals
    /\ delivery # None => emitting /\ ~acked /\ delivery.what \notin Terminals
    /\ emitting => exit = None /\ awaiting = None /\ (acked \/ staged # None \/ delivery # None)
    /\ ~emitting => ~acked
    /\ exit # None => place = "after" /\ awaiting = None

Numbered == lease =>
    /\ \A i \in 1..Len(out) : out[i].seq = i - 1 /\ out[i].what \notin Terminals
    /\ delivery = None => sequence = Len(out)
    /\ delivery # None => sequence = Len(out) + 1 /\ delivery.seq = Len(out)

\* The frame of the workflow is alive and has not returned.
Working == state = "running" /\ exit = None

\* The future a place awaits.
AwaitInv == Working /\ awaiting # None =>
    \/ wf = "provider" /\ awaiting = "provider"
    \/ wf = "items" /\ awaiting = "item"
    \/ wf = "persist" /\ awaiting = "persist" /\ idx <= Len(calls)
    \/ wf = "commit" /\ awaiting = "commit"
    \/ wf = "authorize" /\ awaiting = "permission"
    \/ wf = "execute" /\ awaiting = "tool"
    \/ wf = "store" /\ awaiting = "replace"
    \/ wf = "final" /\ awaiting = "final" /\ (res = <<"ok">> => final)

Speaking == {"authorize", "decided", "execute", "validate", "finished"}

\* What the event on its way says at a place.
Announced(what, c) ==
    /\ wf \in Speaking => c = Current
    /\ wf = "authorize" => what = "permission_requested"
    /\ wf = "decided" => what = "permission_resolved"
    /\ wf = "execute" => what = "tool_started"
    /\ wf = "validate" => what = "tool_denied"
    /\ wf = "finished" => what = "tool_finished"
    /\ wf \notin Speaking => what \in {"started", "model"}

FlightInv == Working =>
    /\ staged # None => Announced(staged.what, staged.call)
    /\ delivery # None => Announced(delivery.what, delivery.call)

\* The consumer has the event that the workflow emitted last.
Told == ~emitting \/ acked

TellInv == Working =>
    /\ wf = "authorize" /\ Told => <<"permission_requested", Current>> \in Said
    /\ wf = "decided" => <<"permission_requested", Current>> \in Said
    /\ wf = "decided" /\ Told => <<"permission_resolved", Current>> \in Said
    /\ wf = "execute" /\ Told => <<"tool_started", Current>> \in Said
    /\ wf = "execute" /\ granted[Current] = "allowed" =>
          <<"permission_requested", Current>> \in Said /\ <<"permission_resolved", Current>> \in Said
    /\ wf = "finished" /\ task.executed /\ Told => <<"tool_finished", Current>> \in Said

CallPlaces == {"call", "authorize", "decided", "execute", "validate", "store", "finished"}

Untouched(c) == ledger[c] = "absent" /\ ran[c] = 0 /\ granted[c] = "none"
Recorded(c) == ledger[c] = "unknown" /\ ran[c] = 0 /\ granted[c] = "none"

\* The calls of the round, those still to come included.
RoundInv == Working =>
    /\ wf \notin {"start", "round"} => total + Len(calls) <= MaxCalls
    /\ wf \in CallPlaces \cup {"persist"} => idx >= 1
    /\ wf \in CallPlaces => idx <= Len(calls)
    /\ \A i, j \in 1..Len(calls) : calls[i] = calls[j] => i = j
    /\ wf = "provider" => calls = <<>>
    /\ wf \in {"persist", "commit"} => calls # <<>>
    /\ wf = "items" => \A i \in 1..Len(calls) : calls[i] \notin seen
    /\ \A c \in Calls : c \notin seen => Untouched(c)
    /\ wf \in CallPlaces \cup {"persist", "commit"} => \A i \in 1..Len(calls) : calls[i] \in seen
    /\ wf = "persist" => \A i \in 1..Len(calls) : Untouched(calls[i])
    /\ wf = "commit" => \A i \in 1..Len(calls) :
          /\ ran[calls[i]] = 0 /\ granted[calls[i]] = "none"
          /\ res = None => ledger[calls[i]] = "absent"
          /\ res = <<"ok">> => ledger[calls[i]] = "unknown"
    /\ wf \in CallPlaces => \A i \in 1..Len(calls) : i > idx => Recorded(calls[i])

\* The call in hand.
CallInv == Working =>
    /\ wf = "call" => Recorded(Current)
    /\ wf \in {"authorize", "decided", "execute", "validate"} => ledger[Current] = "unknown"
    /\ wf \in {"authorize", "decided"} => ran[Current] = 0 /\ ~task.executed
    /\ wf = "authorize" => granted[Current] = "asked"
    /\ wf = "decided" => granted[Current] \in {"allowed", "denied"}
    /\ wf = "execute" => granted[Current] \in {"free", "allowed"}
    /\ wf = "execute" /\ awaiting = None => ran[Current] = 0 /\ ~task.executed
    /\ wf = "execute" /\ awaiting # None => ran[Current] = 1 /\ task.executed
    /\ wf \in {"validate", "store", "finished"} =>
          IF task.executed THEN ran[Current] = 1
          ELSE ran[Current] = 0 /\ granted[Current] \in {"none", "denied"}
    /\ wf = "validate" /\ emitting => ~task.executed /\ granted[Current] = "denied"
    /\ wf = "store" => (res = None => ledger[Current] = "unknown") /\ (res = <<"ok">> => ledger[Current] = "result")
    /\ wf = "finished" => ledger[Current] = "result"
    /\ wf = "finished" /\ emitting => task.executed
    /\ \A d \in Calls : ran[d] > 0 =>
          ledger[d] = "result" \/ (d = Current /\ wf \in {"execute", "validate", "store"})

\* A completion-wins execution that was stored and reported.
Settles(c) == ledger[c] = "result" /\ <<"tool_finished", c>> \in Said
Settled == \A c \in submitted : Settles(c)

WinInv ==
    /\ Working /\ defer = 0 => Settled
    /\ Working /\ defer # 0 =>
          /\ wf \in {"execute", "validate", "store", "finished"}
          /\ task.executed
          /\ wf = "execute" => awaiting # None /\ task.mode = "completes"
          /\ \A c \in submitted : c = Current \/ Settles(c)
    /\ state = "running" /\ exit # None =>
          Settled \/ (established /\ exit # "cancelled")
    /\ state = "emit" /\ closing.what = "cancelled" => Settled
    /\ delivery # None /\ delivery.what = "cancelled" => Settled

\* What a completed turn has durably.
Complete == final \/ (task.finish /\ ledger[Current] = "result" /\ <<"tool_finished", Current>> \in Said)

EndInv ==
    /\ task.finish => task.executed
    /\ wf = "end" => final /\ ~synthesized /\ exit \in {None, "completed"} /\ (lease => established)
    /\ Working /\ established => wf = "end"
    /\ state = "running" => ~synthesized
    /\ state = "running" /\ delivery # None /\ established => terminal
    /\ state = "emit" /\ closing.what = "cancelled" => synthesized
    /\ delivery # None /\ delivery.what = "cancelled" => synthesized
    /\ state = "running" /\ exit = "completed" => Complete
    /\ state = "emit" /\ closing.what = "completed" => Complete
    /\ delivery # None /\ delivery.what = "completed" => Complete

\* What was yielded about tools, and what makes it stay true.
ReportInv ==
    /\ \A c \in Calls :
          /\ ran[c] > 0 => <<"tool_started", c>> \in Said
          /\ ran[c] > 0 /\ granted[c] = "allowed" =>
                <<"permission_requested", c>> \in Said /\ <<"permission_resolved", c>> \in Said
          /\ <<"tool_finished", c>> \in Said => ledger[c] = "result" /\ ran[c] = 1
          /\ <<"tool_denied", c>> \in Said => granted[c] = "denied"
          /\ granted[c] = "denied" => ran[c] = 0
    /\ \A c \in submitted : ran[c] > 0

\* The inductive invariant.
IInv == /\ Types /\ StreamInv /\ GateInv /\ Numbered /\ OrderedEvents /\ AwaitInv /\ FlightInv /\ TellInv
        /\ RoundInv /\ CallInv /\ WinInv /\ EndInv /\ ReportInv /\ CompletionWins /\ CompletionIsDurable

-----------------------------------------------------------------------------
(* The events yielded.                                                     *)

\* Yielded, in terms of what was said.
LEMMA SaidIsYielded == \A what, c : Yielded(what, c) <=> <<what, c>> \in Said
BY DEF Yielded, Said

\* A yield says one thing more (poll_delivery).
LEMMA YieldSays ==
    ASSUME out \in Seq(Yields), NEW what \in Whats, NEW c \in Calls \cup {None}, NEW n \in Nat, Yield(what, c, n)
    PROVE  /\ out' \in Seq(Yields) /\ Len(out') = Len(out) + 1
           /\ \A i \in 1..Len(out) : out'[i] = out[i]
           /\ out'[Len(out')] = [what |-> what, call |-> c, seq |-> n]
           /\ Said' = Said \cup {<<what, c>>}
<1> DEFINE y == [what |-> what, call |-> c, seq |-> n]
<1>1. y \in Yields /\ y.what = what /\ y.call = c
  BY DEF Yields
<1>2. out' = Append(out, y)
  BY DEF Yield
<1> HIDE DEF y
<1>3. /\ out' \in Seq(Yields) /\ Len(out') = Len(out) + 1
      /\ \A i \in 1..Len(out) : out'[i] = out[i]
      /\ out'[Len(out) + 1] = y
  BY <1>1, <1>2
<1>4. Said' = Said \cup {<<what, c>>}
  <2>1. Len(out) \in Nat
    OBVIOUS
  <2>2. 1..Len(out') = 1..Len(out) \cup {Len(out) + 1}
    BY <1>3, <2>1
  <2> QED BY <1>1, <1>3, <2>2 DEF Said
<1> QED BY <1>3, <1>4 DEF y

\* A stream that yielded no terminal event has not reported an end.
LEMMA NoEndSaid ==
    ASSUME Numbered, lease, out \in Seq(Yields)
    PROVE  <<"cancelled", None>> \notin Said /\ <<"completed", None>> \notin Said
BY DEF Numbered, Said, Terminals

\* Pairs are equal when their parts are.
LEMMA SamePair == \A w, d, what, c : <<w, d>> = <<what, c>> <=> w = what /\ d = c
OBVIOUS

\* The same of the next state.
LEMMA SaidIsYieldedNext == \A what, c : Yielded(what, c)' <=> <<what, c>> \in Said'
BY DEF Yielded, Said

-----------------------------------------------------------------------------
(* A step of the workflow.                                                 *)

\* The stream waits for the workflow it polls.
Runs ==
    /\ place = "workflow" /\ place' \in {"workflow", "after"}
    /\ UNCHANGED <<cancelled, state, closing, delivery, sequence, terminal, synthesized, lease, armed, woken,
                   out, erred>>

\* What holds while the workflow is polled.
LEMMA AtWork ==
    ASSUME IInv, place = "workflow"
    PROVE  /\ state = "running" /\ delivery = None /\ staged = None /\ exit = None
           /\ lease /\ ~erred /\ ~synthesized
           /\ emitting => acked /\ awaiting = None
           /\ ~emitting => ~acked
           /\ Working
<1>1. state = "running" /\ delivery = None
  BY Zenon DEF IInv, StreamInv
<1>2. staged = None /\ exit = None /\ (emitting => acked /\ awaiting = None) /\ (~emitting => ~acked)
  BY Zenon, <1>1 DEF IInv, GateInv
<1>3. lease /\ ~erred
  BY Zenon, <1>1 DEF IInv, StreamInv
<1>4. ~synthesized
  BY Zenon, <1>1 DEF IInv, EndInv
<1> QED BY Zenon, <1>1, <1>2, <1>3, <1>4 DEF Working

\* The stream of such a step, and what was said.
LEMMA RunsKeeps ==
    ASSUME IInv, Runs
    PROVE  /\ StreamTypes' /\ StreamInv' /\ Numbered' /\ OrderedEvents'
           /\ Said' = Said /\ state' = "running" /\ delivery' = None /\ lease' /\ ~synthesized'
           /\ CompletionWins' /\ <<"cancelled", None>> \notin Said' /\ <<"completed", None>> \notin Said'
<1>1. state = "running" /\ delivery = None /\ lease /\ ~erred /\ ~synthesized
  BY Zenon, AtWork DEF Runs
<1>2. state' = "running" /\ delivery' = None /\ lease' /\ ~erred' /\ ~synthesized' /\ out' = out
  BY Zenon, <1>1 DEF Runs
<1>3. StreamTypes'
  BY Zenon DEF Runs, IInv, Types, StreamTypes, Places
<1>4. StreamInv'
  <2>1. place' # "sink" /\ place' \in {"workflow", "after"}
    BY Zenon DEF Runs
  <2> QED BY Zenon, <1>2, <2>1 DEF StreamInv
<1>5. Numbered'
  BY Zenon, <1>2 DEF Runs, IInv, Numbered
<1>6. OrderedEvents'
  BY Zenon, <1>2 DEF Runs, IInv, OrderedEvents
<1>7. Said' = Said
  BY Zenon, <1>2 DEF Said
<1>8. <<"cancelled", None>> \notin Said /\ <<"completed", None>> \notin Said
  BY Zenon, <1>1, NoEndSaid DEF IInv, Types, StreamTypes
<1>9. CompletionWins'
  BY Zenon, <1>7, <1>8, SaidIsYieldedNext DEF CompletionWins
<1> QED BY Zenon, <1>2, <1>3, <1>4, <1>5, <1>6, <1>7, <1>8, <1>9

\* What is left to show of a step of the workflow.
LEMMA WorkStep ==
    ASSUME IInv, Runs, FlowTypes', RoundTypes', LedgerTypes', GateInv', AwaitInv', FlightInv', TellInv', RoundInv',
           CallInv', WinInv', EndInv', ReportInv'
    PROVE  IInv'
<1>1. /\ StreamTypes' /\ StreamInv' /\ Numbered' /\ OrderedEvents' /\ CompletionWins' /\ ~synthesized'
      /\ <<"cancelled", None>> \notin Said' /\ <<"completed", None>> \notin Said'
  BY Zenon, RunsKeeps
<1>2. CompletionIsDurable'
  BY Zenon, <1>1, SaidIsYieldedNext DEF CompletionIsDurable
<1> QED BY Zenon, <1>1, <1>2 DEF IInv, Types

\* The step leaves the gate alone.
Quiet == exit' = None /\ staged' = None /\ emitting' = FALSE /\ acked' = FALSE /\ established' = established

\* Such a step leaves nothing at the gate.
LEMMA QuietKeeps ==
    ASSUME IInv, Runs, Quiet
    PROVE  GateInv' /\ FlightInv' /\ Working' /\ Told'
<1>1. delivery' = None /\ state' = "running"
  BY Zenon, RunsKeeps
<1>2. GateInv'
  BY Zenon, <1>1 DEF GateInv, Quiet
<1>3. FlightInv'
  BY Zenon, <1>1 DEF FlightInv, Quiet
<1> QED BY Zenon, <1>1, <1>2, <1>3 DEF Quiet, Working, Told

\* The step stages an event (EmitFuture).
Emits(what, c) ==
    /\ exit' = None /\ awaiting' = None /\ staged' = Event(what, c) /\ emitting' = TRUE /\ acked' = FALSE

\* Such a step leaves its event at the gate, as the place announces it.
LEMMA EmitsKeeps ==
    ASSUME IInv, Runs, NEW what \in Whats \ Terminals, NEW c \in Calls \cup {None}, Emits(what, c),
           staged' # None => place' = "after"
    PROVE  /\ GateInv' /\ Working' /\ ~Told' /\ staged' \in Events
           /\ Announced(what, c)' => FlightInv'
<1>1. delivery' = None /\ state' = "running"
  BY Zenon, RunsKeeps
<1>2. staged' \in Events /\ staged'.what = what /\ staged'.call = c
  BY DEF Emits, Event, Events
<1>3. staged' # None
  BY Zenon, <1>2, NoneAssumption
<1>4. GateInv'
  BY Zenon, <1>1, <1>2, <1>3 DEF GateInv, Emits
<1>5. Announced(what, c)' => FlightInv'
  BY ZenonT(30), <1>1, <1>2 DEF FlightInv, Announced
<1> QED BY Zenon, <1>1, <1>2, <1>4, <1>5 DEF Emits, Working, Told

\* The promise to finish what a completion-wins execution began, while ledger and
\* executions stay as they are.
LEMMA WinKeeps ==
    ASSUME IInv, Runs, exit' = None, UNCHANGED <<ledger, submitted, defer>>,
           defer # 0 =>
              /\ wf' \in {"execute", "validate", "store", "finished"} /\ Current' = Current /\ task'.executed
              /\ wf' = "execute" => awaiting' # None /\ task'.mode = "completes"
    PROVE  WinInv'
<1>1. Working /\ Said' = Said /\ state' = "running" /\ delivery' = None
  BY Zenon, AtWork, RunsKeeps DEF Runs
<1>2. \A c : Settles(c)' <=> Settles(c)
  BY Zenon, <1>1 DEF Settles
<1>3. Working' /\ defer' = 0 => Settled'
  BY Zenon, <1>1, <1>2 DEF IInv, WinInv, Settled
<1>4. Working' /\ defer' # 0 => \A c \in submitted' : c = Current' \/ Settles(c)'
  BY Zenon, <1>1, <1>2 DEF IInv, WinInv
<1> QED BY Zenon, <1>1, <1>3, <1>4 DEF WinInv

\* Nothing is decided.
LEMMA EndKeeps ==
    ASSUME IInv, Runs, exit' = None, established' = established, wf # "end", wf' # "end",
           task'.finish => task'.executed
    PROVE  EndInv'
<1>1. Working /\ state' = "running" /\ delivery' = None /\ ~synthesized'
  BY Zenon, AtWork, RunsKeeps DEF Runs
<1>2. ~established
  BY Zenon, <1>1 DEF IInv, EndInv
<1>3. exit' # "completed"
  BY Zenon, NoneAssumption DEF Terminals
<1> QED BY Zenon, <1>1, <1>2, <1>3 DEF EndInv

\* What was reported stays true when neither calls nor yields change.
LEMMA ReportKeeps ==
    ASSUME IInv, Runs, UNCHANGED <<ledger, ran, granted, submitted>>
    PROVE  ReportInv'
<1>1. Said' = Said
  BY Zenon, RunsKeeps
<1> QED BY Zenon, <1>1 DEF IInv, ReportInv

\* The frame ends (Exit).
LEMMA ExitKeeps ==
    ASSUME IInv, Runs, NEW how \in Terminals, Exit(how), emitting = FALSE, place' = "after",
           UNCHANGED <<staged, stagedEnds, acked, roundVars, task, durableVars, historyVars>>,
           established' \in BOOLEAN, established => established',
           Settled \/ (established' /\ how # "cancelled"),
           how = "completed" => Complete,
           wf = "end" => how = "completed"
    PROVE  IInv'
<1>1. /\ Working /\ staged = None /\ ~acked /\ Said' = Said /\ state' = "running" /\ delivery' = None
      /\ lease' /\ ~synthesized' /\ lease
  BY Zenon, AtWork, RunsKeeps DEF Runs
<1>2. exit' = how /\ how # None /\ awaiting' = None /\ res' = None /\ defer' = 0 /\ UNCHANGED <<wf, emitting, probing>>
  BY Zenon, NoneAssumption DEF Exit, Resumed
<1>3. UNCHANGED <<staged, stagedEnds, acked>> /\ UNCHANGED <<rounds, items, calls, idx, total, seen, local, task>>
      /\ UNCHANGED <<ledger, final, ran, granted, submitted>>
  BY Zenon DEF roundVars, durableVars, historyVars
<1>4. ~Working'
  BY Zenon, <1>2 DEF Working
<1>5. FlowTypes'
  BY Zenon, <1>2, <1>3 DEF IInv, Types, FlowTypes
<1>6. RoundTypes' /\ LedgerTypes'
  BY Zenon, <1>3 DEF IInv, Types, RoundTypes, LedgerTypes
<1>7. GateInv'
  BY <1>1, <1>2, <1>3 DEF GateInv
<1>8. AwaitInv' /\ FlightInv' /\ TellInv' /\ RoundInv' /\ CallInv'
  BY Zenon, <1>4 DEF AwaitInv, FlightInv, TellInv, RoundInv, CallInv
<1>9. WinInv'
  <2>1. Settled' <=> Settled
    BY Zenon, <1>1, <1>3 DEF Settled, Settles
  <2> QED BY Zenon, <1>1, <1>2, <1>4, <2>1 DEF WinInv
<1>10. EndInv'
  <2>1. Complete' <=> Complete
    BY Zenon, <1>1, <1>3 DEF Complete, Current
  <2>2. wf = "end" => final /\ established
    BY Zenon, <1>1 DEF IInv, EndInv
  <2>3. task.finish => task.executed
    BY Zenon DEF IInv, EndInv
  <2> QED BY Zenon, <1>1, <1>2, <1>3, <1>4, <2>1, <2>2, <2>3 DEF EndInv
<1>11. ReportInv'
  BY Zenon, <1>3, ReportKeeps
<1> QED BY Zenon, <1>5, <1>6, <1>7, <1>8, <1>9, <1>10, <1>11, WorkStep

\* RunWorkflow, but for what the workflow does.
Polled ==
    /\ place = "workflow"
    /\ place' = IF staged' # None \/ exit' # None THEN "after" ELSE "workflow"
    /\ UNCHANGED <<cancelled, state, closing, delivery, sequence, terminal, synthesized, lease, armed, woken,
                   out, erred>>

\* Such a poll leaves the stream as it is.
LEMMA PolledRuns == Polled => Runs
BY Zenon DEF Polled, Runs

-----------------------------------------------------------------------------
(* The ends of the frame.                                                  *)

\* Where nothing is deferred, everything that was begun is stored and reported.
LEMMA NothingDeferred ==
    ASSUME IInv, Working,
           \/ wf \notin {"execute", "validate", "store", "finished"}
           \/ wf = "execute" /\ (awaiting = None \/ task.mode # "completes")
           \/ defer = 0
    PROVE  defer = 0 /\ Settled
BY Zenon DEF IInv, WinInv

\* An ordinary failure.
LEMMA FailsStep ==
    ASSUME IInv, Polled, Fails, emitting = FALSE, defer = 0, wf # "end"
    PROVE  IInv'
<1>1. Runs /\ Working
  BY Zenon, PolledRuns, AtWork DEF Polled
<1>2. /\ Exit("failed") /\ UNCHANGED <<staged, stagedEnds, acked, roundVars, task, durableVars, historyVars>>
      /\ established' = established
  BY Zenon DEF Fails, gateVars
<1>3. "failed" \in Terminals /\ exit' # None /\ place' = "after"
  BY Zenon, <1>2, NoneAssumption DEF Terminals, Exit, Polled
<1>4. Settled /\ established \in BOOLEAN
  BY Zenon, <1>1 DEF IInv, WinInv, Types, FlowTypes
<1> QED BY Zenon, <1>1, <1>2, <1>3, <1>4, ExitKeeps

\* A failure that no cancellation hides.
LEMMA FailsForGoodStep ==
    ASSUME IInv, Polled, FailsForGood, emitting = FALSE, wf # "end"
    PROVE  IInv'
<1>1. Runs /\ Working
  BY Zenon, PolledRuns, AtWork DEF Polled
<1>2. /\ Exit("failed") /\ UNCHANGED <<staged, stagedEnds, acked, roundVars, task, durableVars, historyVars>>
      /\ established' \in BOOLEAN /\ established'
  BY Zenon DEF FailsForGood
<1>3. "failed" \in Terminals /\ exit' # None /\ place' = "after"
  BY Zenon, <1>2, NoneAssumption DEF Terminals, Exit, Polled
<1> QED BY Zenon, <1>1, <1>2, <1>3, ExitKeeps

\* The frame returns what it looked at: the token, or the end of the turn.
LEMMA AbortsStep == ASSUME IInv, Polled, Aborts PROVE IInv'
<1>1. Runs /\ Working
  BY Zenon, PolledRuns, AtWork DEF Polled
<1>2. /\ Exit("cancelled") /\ UNCHANGED <<staged, stagedEnds, acked, roundVars, task, durableVars, historyVars>>
      /\ established' = established /\ Honours
  BY Zenon DEF Aborts, gateVars, Interrupted
<1>3. "cancelled" \in Terminals /\ exit' # None /\ place' = "after" /\ emitting = FALSE
  BY <1>2, NoneAssumption DEF Terminals, Exit, Polled, Aborts, IInv, Types, FlowTypes
<1>4. Settled /\ established \in BOOLEAN /\ wf # "end"
  <2>1. \/ wf \notin {"execute", "validate", "store", "finished", "end"}
        \/ wf = "execute" /\ (awaiting = None \/ task.mode # "completes")
        \/ wf = "store" /\ defer = 0
    BY <1>2 DEF Honours
  <2>2. Settled /\ wf # "end"
    BY Zenon, <1>1, <2>1, NothingDeferred
  <2> QED BY Zenon, <2>2 DEF IInv, Types, FlowTypes
<1> QED BY Zenon, <1>1, <1>2, <1>3, <1>4, ExitKeeps

\* The steps that end it with a failure.
LEMMA FailingSteps ==
    ASSUME IInv, Polled,
           \/ RoundFails \/ AnswerFails \/ ItemFails \/ PrepareInvalid \/ AdmissionRevoked
           \/ OutputRejected \/ RegistrationClashes \/ ResultLost
    PROVE  IInv'
<1>1. Working /\ (~emitting => emitting = FALSE) /\ defer \in {0, 1}
  BY Zenon, AtWork DEF Polled, IInv, Types, FlowTypes
<1>2. CASE RoundFails
  <2>1. wf = "round" /\ ~emitting /\ Fails
    BY Zenon, <1>2 DEF RoundFails, Idle, At
  <2> QED BY Zenon, <1>1, <2>1, NothingDeferred, FailsStep
<1>3. CASE AnswerFails
  <2>1. wf \in {"provider", "items", "persist", "commit", "authorize"} /\ ~emitting /\ Fails
    BY Zenon, <1>3 DEF AnswerFails, Ready, At
  <2> QED BY Zenon, <1>1, <2>1, NothingDeferred, FailsStep
<1>4. CASE ItemFails
  <2>1. wf = "items" /\ ~emitting /\ Fails
    BY Zenon, <1>4 DEF ItemFails, Ready, At
  <2> QED BY Zenon, <1>1, <2>1, NothingDeferred, FailsStep
<1>5. CASE PrepareInvalid
  <2>1. wf = "call" /\ ~emitting /\ Fails
    BY Zenon, <1>5 DEF PrepareInvalid, Idle, At
  <2> QED BY Zenon, <1>1, <2>1, NothingDeferred, FailsStep
<1>6. CASE AdmissionRevoked
  <2>1. wf = "execute" /\ awaiting = None /\ ~emitting /\ Fails
    BY Zenon, <1>6 DEF AdmissionRevoked, Idle, At
  <2> QED BY Zenon, <1>1, <2>1, NothingDeferred, FailsStep
<1>7. CASE OutputRejected
  <2>1. wf = "validate" /\ ~emitting /\ FailsForGood
    BY Zenon, <1>7 DEF OutputRejected, Idle, At
  <2> QED BY Zenon, <1>1, <2>1, FailsForGoodStep
<1>8. CASE RegistrationClashes
  <2>1. wf = "validate" /\ ~emitting /\ (IF defer > 0 THEN FailsForGood ELSE Fails)
    BY Zenon, <1>8 DEF RegistrationClashes, Idle, At
  <2>2. FailsForGood \/ (Fails /\ defer = 0)
    BY <1>1, <2>1
  <2> QED BY Zenon, <1>1, <2>1, <2>2, FailsStep, FailsForGoodStep
<1>9. CASE ResultLost
  <2>1. wf = "store" /\ ~emitting /\ (IF defer > 0 THEN FailsForGood ELSE Fails)
    BY Zenon, <1>9 DEF ResultLost, Ready, At
  <2>2. FailsForGood \/ (Fails /\ defer = 0)
    BY <1>1, <2>1
  <2> QED BY Zenon, <1>1, <2>1, <2>2, FailsStep, FailsForGoodStep
<1> QED BY Zenon, <1>2, <1>3, <1>4, <1>5, <1>6, <1>7, <1>8, <1>9

\* The final save lost against the token, or failed (await_final_save).
LEMMA FinalEnds ==
    ASSUME IInv, Polled, FinalFails \/ FinalInterrupted
    PROVE  IInv'
<1>1. Runs /\ Working
  BY Zenon, PolledRuns, AtWork DEF Polled
<1>2. PICK how \in {"cancelled", "failed"} :
         /\ Exit(how) /\ UNCHANGED <<staged, stagedEnds, acked, roundVars, task, durableVars, historyVars>>
         /\ established' = established /\ wf = "final" /\ ~emitting
  BY Zenon DEF FinalFails, FinalInterrupted, gateVars, Ready, At
<1>3. how \in Terminals /\ how # "completed" /\ exit' # None /\ place' = "after" /\ emitting = FALSE
  <2>1. how \in Terminals /\ how # "completed"
    BY Zenon DEF Terminals
  <2>2. exit' # None /\ emitting = FALSE
    BY Zenon, <1>2, <2>1, NoneAssumption DEF Exit, IInv, Types, FlowTypes
  <2> QED BY Zenon, <2>1, <2>2 DEF Polled
<1>4. Settled /\ established \in BOOLEAN
  BY Zenon, <1>1, <1>2, NothingDeferred DEF IInv, Types, FlowTypes
<1> QED BY Zenon, <1>1, <1>2, <1>3, <1>4, ExitKeeps

\* The final message was delivered after its save.
LEMMA CompletedStep == ASSUME IInv, Polled, Completed PROVE IInv'
<1>1. Runs /\ Working
  BY Zenon, PolledRuns, AtWork DEF Polled
<1>2. /\ Exit("completed") /\ UNCHANGED <<staged, stagedEnds, acked, roundVars, task, durableVars, historyVars>>
      /\ established' = established /\ wf = "end" /\ ~emitting
  BY Zenon DEF Completed, gateVars, Idle, At
<1>3. "completed" \in Terminals /\ exit' # None /\ place' = "after" /\ emitting = FALSE
  BY <1>2, NoneAssumption DEF Terminals, Exit, Polled, IInv, Types, FlowTypes
<1>4. Settled /\ established \in BOOLEAN /\ Complete
  BY Zenon, <1>1, <1>2, NothingDeferred DEF IInv, Types, FlowTypes, EndInv, Complete
<1> QED BY Zenon, <1>1, <1>2, <1>3, <1>4, ExitKeeps

\* A tool finished the turn: its execution is stored and reported (finish_turn).
LEMMA TurnFinishedStep == ASSUME IInv, Polled, TurnFinished PROVE IInv'
<1>1. Runs /\ Working
  BY Zenon, PolledRuns, AtWork DEF Polled
<1>2. PICK how \in {"cancelled", "completed"} :
         /\ Exit(how) /\ UNCHANGED <<staged, stagedEnds, acked, roundVars, task, durableVars, historyVars>>
         /\ established' = established \/ established' = TRUE
         /\ wf = "finished" /\ ~emitting /\ task.finish
  BY Zenon DEF TurnFinished, Idle, At
<1>3. how \in Terminals /\ exit' # None /\ place' = "after" /\ emitting = FALSE
  <2>1. how \in Terminals
    BY Zenon DEF Terminals
  <2>2. exit' # None /\ emitting = FALSE
    BY Zenon, <1>2, <2>1, NoneAssumption DEF Exit, IInv, Types, FlowTypes
  <2> QED BY Zenon, <2>1, <2>2 DEF Polled
<1>4. established' \in BOOLEAN /\ (established => established')
  <2>1. established \in BOOLEAN
    BY Zenon DEF IInv, Types, FlowTypes
  <2>2. CASE established' = established
    BY Zenon, <2>1, <2>2
  <2>3. CASE established' = TRUE
    BY Zenon, <2>3
  <2> QED BY Zenon, <1>2, <2>2, <2>3
<1>5. Settles(Current)
  <2>1. task.executed /\ Told
    BY Zenon, <1>2 DEF IInv, EndInv, Told
  <2>2. <<"tool_finished", Current>> \in Said /\ ledger[Current] = "result"
    BY Zenon, <1>1, <1>2, <2>1 DEF IInv, TellInv, CallInv
  <2> QED BY Zenon, <2>2 DEF Settles
<1>6. Settled /\ Complete
  BY Zenon, <1>1, <1>2, <1>5 DEF IInv, WinInv, Settled, Complete, Settles
<1> QED BY Zenon, <1>1, <1>2, <1>3, <1>4, <1>6, ExitKeeps

-----------------------------------------------------------------------------
(* The steps that go on.                                                   *)

\* A step that stages nothing.
LEMMA QuietStep ==
    ASSUME IInv, Polled, Quiet, stagedEnds' = stagedEnds, wf # "end", wf' \in WorkflowPlaces, wf' # "end",
           awaiting' \in Awaitables \cup {None}, res' = None, probing' \in BOOLEAN,
           UNCHANGED <<defer, ledger, final, ran, granted, submitted>>,
           defer # 0 =>
              /\ wf' \in {"execute", "validate", "store", "finished"} /\ Current' = Current /\ task'.executed
              /\ wf' = "execute" => awaiting' # None /\ task'.mode = "completes",
           task'.finish => task'.executed,
           RoundTypes', AwaitInv', TellInv', RoundInv', CallInv'
    PROVE  IInv'
<1>1. Runs
  BY Zenon, PolledRuns
<1>2. exit' = None /\ staged' = None /\ emitting' = FALSE /\ acked' = FALSE /\ established' = established
  BY Zenon DEF Quiet
<1>3. FlowTypes'
  BY ZenonT(30), <1>2 DEF IInv, Types, FlowTypes
<1>4. LedgerTypes'
  BY Zenon DEF IInv, Types, LedgerTypes
<1>5. GateInv' /\ FlightInv'
  BY Zenon, <1>1, QuietKeeps
<1>6. WinInv'
  BY Zenon, <1>1, <1>2, WinKeeps
<1>7. EndInv'
  BY Zenon, <1>1, <1>2, EndKeeps
<1>8. ReportInv'
  BY Zenon, <1>1, ReportKeeps
<1> QED BY Zenon, <1>1, <1>3, <1>4, <1>5, <1>6, <1>7, <1>8, WorkStep

\* A step that stages an event.
LEMMA EmitStep ==
    ASSUME IInv, Polled, NEW what \in Whats \ Terminals, NEW c \in Calls \cup {None}, Emits(what, c),
           Announced(what, c)',
           stagedEnds' \in BOOLEAN, established' = established, wf # "end", wf' \in WorkflowPlaces, wf' # "end",
           res' = None, probing' \in BOOLEAN,
           UNCHANGED <<defer, ledger, final, ran, submitted>>,
           defer # 0 => /\ wf' \in {"validate", "store", "finished"} /\ Current' = Current /\ task'.executed,
           task'.finish => task'.executed,
           RoundTypes', LedgerTypes', TellInv', RoundInv', CallInv', ReportInv'
    PROVE  IInv'
<1>1. Runs /\ (staged' # None => place' = "after")
  BY Zenon, PolledRuns DEF Polled
<1>2. exit' = None /\ awaiting' = None /\ emitting' = TRUE /\ acked' = FALSE
  BY Zenon DEF Emits
<1>3. GateInv' /\ FlightInv' /\ staged' \in Events
  BY Zenon, <1>1, EmitsKeeps
<1>4. FlowTypes'
  BY ZenonT(30), <1>2, <1>3 DEF IInv, Types, FlowTypes
<1>5. AwaitInv'
  BY Zenon, <1>2 DEF AwaitInv
<1>6. WinInv'
  BY Zenon, <1>1, <1>2, WinKeeps
<1>7. EndInv'
  BY Zenon, <1>1, <1>2, EndKeeps
<1> QED BY Zenon, <1>1, <1>3, <1>4, <1>5, <1>6, <1>7, WorkStep

\* What a step at a quiet place starts from.
LEMMA Quietly ==
    ASSUME IInv, Polled, ~emitting
    PROVE  Working /\ staged = None /\ exit = None /\ emitting = FALSE /\ acked = FALSE /\ lease
<1>1. Working /\ staged = None /\ exit = None /\ ~acked /\ lease
  BY Zenon, AtWork DEF Polled
<1>2. emitting \in BOOLEAN /\ acked \in BOOLEAN
  BY Zenon DEF IInv, Types, FlowTypes
<1> QED BY Zenon, <1>1, <1>2

\* Where no call is in hand, every execution has its result.
LEMMA RanHaveResults ==
    ASSUME IInv, Working, wf \notin {"execute", "validate", "store"}
    PROVE  \A d \in Calls : ran[d] > 0 => ledger[d] = "result"
BY Zenon DEF IInv, CallInv

\* An answer is a value.
LEMMA OkIsNotNone == None # <<"ok">>
BY NoneAssumption DEF Awaitables, Answers

\* The calls of the round stay as they are, and the workflow goes on among them.
RoundKept ==
    /\ UNCHANGED <<calls, idx, total, seen, ledger, ran, granted>>
    /\ wf \in {"start", "round"} => wf' \in {"start", "round"}
    /\ wf' \in CallPlaces => wf \in CallPlaces
    /\ wf' \in {"provider", "items", "persist"} => wf' = wf
    /\ wf' = "commit" => wf = "persist" /\ res' = None

\* Such a step keeps what is known of the round.
LEMMA RoundKeeps == ASSUME IInv, Working, RoundKept PROVE RoundInv'
<1>1. RoundInv
  BY Zenon DEF IInv
<1>2. UNCHANGED <<calls, idx, total, seen, ledger, ran, granted>>
  BY Zenon DEF RoundKept
<1>3. \A c : (Untouched(c)' <=> Untouched(c)) /\ (Recorded(c)' <=> Recorded(c))
  BY Zenon, <1>2 DEF Untouched, Recorded
<1>4. /\ wf' \notin {"start", "round"} => total' + Len(calls') <= MaxCalls
      /\ wf' \in CallPlaces \cup {"persist"} => idx' >= 1
      /\ wf' \in CallPlaces => idx' <= Len(calls')
  BY Zenon, <1>1, <1>2 DEF RoundInv, RoundKept
<1>5. /\ \A i, j \in 1..Len(calls') : calls'[i] = calls'[j] => i = j
      /\ wf' = "provider" => calls' = <<>>
      /\ wf' \in {"persist", "commit"} => calls' # <<>>
      /\ wf' = "items" => \A i \in 1..Len(calls') : calls'[i] \notin seen'
      /\ \A c \in Calls : c \notin seen' => Untouched(c)'
  <2>1. \A i, j \in 1..Len(calls) : calls[i] = calls[j] => i = j
    BY Zenon, <1>1 DEF RoundInv
  <2>2. (wf' \in {"provider", "items", "persist"} => wf' = wf) /\ (wf' = "commit" => wf = "persist")
    BY Zenon DEF RoundKept
  <2>3. /\ wf' = "provider" => calls = <<>>
        /\ wf' \in {"persist", "commit"} => calls # <<>>
        /\ wf' = "items" => \A i \in 1..Len(calls) : calls[i] \notin seen
    BY Zenon, <1>1, <2>2 DEF RoundInv
  <2>4. \A c \in Calls : c \notin seen => Untouched(c)'
    BY Zenon, <1>1, <1>3 DEF RoundInv
  <2>5. /\ \A i, j \in 1..Len(calls') : calls'[i] = calls'[j] => i = j
        /\ wf' = "items" => \A i \in 1..Len(calls') : calls'[i] \notin seen'
    BY Zenon, <1>2, <2>1, <2>3
  <2>6. /\ wf' = "provider" => calls' = <<>>
        /\ wf' \in {"persist", "commit"} => calls' # <<>>
        /\ \A c \in Calls : c \notin seen' => Untouched(c)'
    BY Zenon, <1>2, <2>3, <2>4
  <2> QED BY Zenon, <2>5, <2>6
<1>6. /\ wf' \in CallPlaces \cup {"persist", "commit"} => \A i \in 1..Len(calls') : calls'[i] \in seen'
      /\ wf' = "persist" => \A i \in 1..Len(calls') : Untouched(calls[i])'
  <2>1. wf' \in CallPlaces \cup {"persist", "commit"} => wf \in CallPlaces \cup {"persist", "commit"}
    BY Zenon DEF RoundKept
  <2>2. wf \in CallPlaces \cup {"persist", "commit"} => \A i \in 1..Len(calls) : calls[i] \in seen
    BY Zenon, <1>1 DEF RoundInv
  <2>3. wf' = "persist" => \A i \in 1..Len(calls') : Untouched(calls[i])'
    BY Zenon, <1>1, <1>2 DEF RoundInv, RoundKept, Untouched
  <2> QED BY Zenon, <1>2, <2>1, <2>2, <2>3
<1>7. wf' = "commit" => \A i \in 1..Len(calls') :
          /\ ran'[calls'[i]] = 0 /\ granted'[calls'[i]] = "none"
          /\ ledger'[calls'[i]] = "absent" /\ res' # <<"ok">>
  BY Zenon, <1>1, <1>2, OkIsNotNone DEF RoundInv, RoundKept, Untouched
<1>8. wf' \in CallPlaces => \A i \in 1..Len(calls') : i > idx' => Recorded(calls[i])'
  BY Zenon, <1>1, <1>2, <1>3 DEF RoundInv, RoundKept
<1> QED BY Zenon, <1>4, <1>5, <1>6, <1>7, <1>8 DEF RoundInv

-----------------------------------------------------------------------------
(* A model round.                                                          *)

\* A model round begins with no calls.
LEMMA RoundBeginsStep == ASSUME IInv, Polled, RoundBegins PROVE IInv'
<1>1. /\ wf = "round" /\ ~emitting /\ wf' = "provider" /\ awaiting' = "provider" /\ res' = None
      /\ rounds < MaxRounds /\ rounds' = rounds + 1 /\ calls' = <<>>
      /\ UNCHANGED <<staged, stagedEnds, acked, established, emitting, probing, exit, defer>>
      /\ UNCHANGED <<items, idx, total, seen, local, task, ledger, final, ran, granted, submitted>>
  BY Zenon DEF RoundBegins, Idle, At, Await, gateVars, durableVars, historyVars
<1>2. Working /\ Quiet
  BY Zenon, <1>1, Quietly DEF Quiet
<1>3. defer = 0
  BY Zenon, <1>1, <1>2, NothingDeferred
<1>4. RoundTypes' /\ Len(calls') = 0
  BY <1>1, LimitsAssumption DEF IInv, Types, RoundTypes
<1>5. AwaitInv' /\ TellInv' /\ CallInv'
  BY Zenon, <1>1, <1>2, RanHaveResults DEF AwaitInv, TellInv, CallInv
<1>6. RoundInv'
  BY <1>1, <1>2, <1>4 DEF IInv, RoundInv, Untouched, CallPlaces, Types, RoundTypes
<1>7. task.finish => task.executed
  BY Zenon DEF IInv, EndInv
<1> QED BY Zenon, <1>1, <1>2, <1>3, <1>4, <1>5, <1>6, <1>7, QuietStep DEF IInv, Types, FlowTypes, WorkflowPlaces, Awaitables

\* The provider has started its stream.
LEMMA ProviderStartsStep == ASSUME IInv, Polled, ProviderStarts PROVE IInv'
<1>1. /\ wf = "provider" /\ ~emitting /\ wf' = "items" /\ awaiting' = None /\ res' = None
      /\ UNCHANGED <<staged, stagedEnds, acked, established, emitting, probing, exit, defer>>
      /\ UNCHANGED <<rounds, items, calls, idx, total, seen, local, task, ledger, final, ran, granted, submitted>>
  BY Zenon DEF ProviderStarts, Ready, At, Resumed, gateVars, roundVars, durableVars, historyVars
<1>2. Working /\ Quiet
  BY Zenon, <1>1, Quietly DEF Quiet
<1>3. defer = 0
  BY Zenon, <1>1, <1>2, NothingDeferred
<1>4. RoundTypes'
  BY Zenon, <1>1 DEF IInv, Types, RoundTypes
<1>5. AwaitInv' /\ TellInv' /\ CallInv'
  BY Zenon, <1>1, <1>2, RanHaveResults DEF AwaitInv, TellInv, CallInv
<1>6. RoundInv'
  <2>1. calls' = <<>> /\ Len(calls') = 0
    BY <1>1, <1>2 DEF IInv, RoundInv
  <2> QED BY <1>1, <1>2, <2>1 DEF IInv, RoundInv, Untouched, CallPlaces
<1>7. task.finish => task.executed
  BY Zenon DEF IInv, EndInv
<1> QED BY Zenon, <1>1, <1>2, <1>3, <1>4, <1>5, <1>6, <1>7, QuietStep DEF IInv, Types, FlowTypes, WorkflowPlaces, Awaitables

\* The next item of the provider is awaited.
LEMMA NextItemStep == ASSUME IInv, Polled, NextItem PROVE IInv'
<1>1. /\ wf = "items" /\ ~emitting /\ wf' = "items" /\ awaiting' = "item" /\ res' = None
      /\ UNCHANGED <<staged, stagedEnds, acked, established, emitting, probing, exit, defer>>
      /\ UNCHANGED <<rounds, items, calls, idx, total, seen, local, task, ledger, final, ran, granted, submitted>>
  BY Zenon DEF NextItem, Idle, At, Await, gateVars, roundVars, durableVars, historyVars
<1>2. Working /\ Quiet
  BY Zenon, <1>1, Quietly DEF Quiet
<1>3. defer = 0
  BY Zenon, <1>1, <1>2, NothingDeferred
<1>4. RoundTypes'
  BY Zenon, <1>1 DEF IInv, Types, RoundTypes
<1>5. AwaitInv' /\ TellInv' /\ CallInv'
  BY Zenon, <1>1, <1>2, RanHaveResults DEF AwaitInv, TellInv, CallInv
<1>6. RoundInv'
  BY Zenon, <1>1, <1>2, RoundKeeps DEF RoundKept, CallPlaces
<1>7. task.finish => task.executed
  BY Zenon DEF IInv, EndInv
<1> QED BY Zenon, <1>1, <1>2, <1>3, <1>4, <1>5, <1>6, <1>7, QuietStep DEF IInv, Types, FlowTypes, WorkflowPlaces, Awaitables

\* A stop without calls leads to the final message.
LEMMA StopItemStep == ASSUME IInv, Polled, StopItem PROVE IInv'
<1>1. /\ wf = "items" /\ ~emitting /\ wf' = "final" /\ awaiting' = None /\ res' = None
      /\ items < MaxItems /\ items' = items + 1
      /\ UNCHANGED <<staged, stagedEnds, acked, established, emitting, probing, exit, defer>>
      /\ UNCHANGED <<rounds, calls, idx, total, seen, local, task, ledger, final, ran, granted, submitted>>
  BY Zenon DEF StopItem, Ready, At, Resumed, gateVars, durableVars, historyVars
<1>2. Working /\ Quiet
  BY Zenon, <1>1, Quietly DEF Quiet
<1>3. defer = 0
  BY Zenon, <1>1, <1>2, NothingDeferred
<1>4. RoundTypes'
  BY <1>1, LimitsAssumption DEF IInv, Types, RoundTypes
<1>5. AwaitInv' /\ TellInv' /\ CallInv'
  BY Zenon, <1>1, <1>2, RanHaveResults DEF AwaitInv, TellInv, CallInv
<1>6. RoundInv'
  BY Zenon, <1>1, <1>2, RoundKeeps DEF RoundKept, CallPlaces
<1>7. task.finish => task.executed
  BY Zenon DEF IInv, EndInv
<1> QED BY Zenon, <1>1, <1>2, <1>3, <1>4, <1>5, <1>6, <1>7, QuietStep DEF IInv, Types, FlowTypes, WorkflowPlaces, Awaitables

\* Start and a text delta stage an event that names no call.
LEMMA PlainEventStep == ASSUME IInv, Polled, Start \/ TextItem PROVE IInv'
<1>1. PICK what \in {"started", "model"} :
         /\ wf \in {"start", "items"} /\ ~emitting /\ wf' \in {"round", "items"}
         /\ wf' = "items" => wf = "items"
         /\ awaiting' = None /\ res' = None /\ staged' = Event(what, None) /\ stagedEnds' = FALSE /\ emitting' = TRUE
         /\ items' = items \/ (items < MaxItems /\ items' = items + 1)
         /\ UNCHANGED <<acked, established, probing, exit, defer>>
         /\ UNCHANGED <<rounds, calls, idx, total, seen, local, task, ledger, final, ran, granted, submitted>>
  <2>1. awaiting = None => res = None
    BY Zenon DEF IInv, Types, FlowTypes
  <2> QED BY Zenon, <2>1 DEF Start, TextItem, Idle, Ready, At, Emit, Resumed, roundVars, durableVars, historyVars
<1>2. Working /\ Emits(what, None) /\ what \in Whats \ Terminals
  BY Zenon, <1>1, Quietly DEF Emits, Whats, Terminals
<1>3. defer = 0
  BY Zenon, <1>1, <1>2, NothingDeferred
<1>4. RoundTypes' /\ LedgerTypes'
  BY <1>1, LimitsAssumption DEF IInv, Types, RoundTypes, LedgerTypes
<1>5. TellInv' /\ CallInv' /\ Announced(what, None)'
  BY Zenon, <1>1, <1>2, RanHaveResults DEF TellInv, CallInv, Announced, Speaking
<1>6. RoundInv'
  BY Zenon, <1>1, <1>2, RoundKeeps DEF RoundKept, CallPlaces
<1>7. ReportInv' /\ (task.finish => task.executed)
  BY Zenon, <1>1, PolledRuns, ReportKeeps DEF IInv, EndInv
<1> QED BY Zenon, <1>1, <1>2, <1>3, <1>4, <1>5, <1>6, <1>7, EmitStep DEF IInv, Types, FlowTypes, WorkflowPlaces

\* What the futures answer.
LEMMA AnswerSets ==
    /\ Answers("item") = Items
    /\ Answers("permission") = {<<"allow", TRUE>>, <<"allow", FALSE>>, <<"deny">>, <<"err">>}
    /\ \A answer \in Answers("tool") :
          answer = <<"err">> \/ \E finish, reg \in BOOLEAN : answer = <<"done", finish, reg>>
    /\ \A op \in {"provider", "persist", "commit", "replace", "final"} : Answers(op) = {<<"ok">>, <<"err">>}
BY DEF Answers

\* A call item is one of the calls the model may make.
LEMMA CallItems ==
    ASSUME IInv, Working, wf = "items", awaiting # None, res # None, res[1] = "call"
    PROVE  res[2] \in Calls
<1>1. awaiting = "item"
  BY Zenon DEF IInv, AwaitInv
<1>2. res \in Answers("item")
  BY Zenon, <1>1 DEF IInv, Types, FlowTypes
<1>3. res \in Items
  BY Zenon, <1>2, AnswerSets
<1>4. /\ <<"text">>[1] = "text" /\ <<"stop">>[1] = "stop" /\ <<"tool_stop">>[1] = "tool_stop" /\ <<"err">>[1] = "err"
      /\ \A c, name : <<"call", c, name>>[2] = c
  OBVIOUS
<1>5. res \notin {<<"text">>, <<"stop">>, <<"tool_stop">>, <<"err">>}
  BY Zenon, <1>4
<1>6. PICK c \in Calls, name \in {"static", "local"} : res = <<"call", c, name>>
  BY <1>3, <1>5 DEF Items
<1> QED BY Zenon, <1>4, <1>6

\* A call added to the round.
LEMMA AppendCall ==
    ASSUME calls \in Seq(Calls), NEW c \in Calls, calls' = Append(calls, c),
           \A i \in 1..Len(calls) : calls[i] # c,
           \A i, j \in 1..Len(calls) : calls[i] = calls[j] => i = j
    PROVE  /\ calls' \in Seq(Calls) /\ Len(calls') = Len(calls) + 1
           /\ \A i \in 1..Len(calls) : calls'[i] = calls[i]
           /\ calls'[Len(calls) + 1] = c
           /\ \A i \in 1..Len(calls') : calls'[i] = c \/ \E j \in 1..Len(calls) : calls'[i] = calls[j]
           /\ \A i, j \in 1..Len(calls') : calls'[i] = calls'[j] => i = j
OBVIOUS

\* A tool call of the model: admitted, it is new to the turn and to the round.
LEMMA CallItemStep == ASSUME IInv, Polled, CallItem PROVE IInv'
<1>1. /\ wf = "items" /\ ~emitting /\ awaiting # None /\ res # None /\ res[1] = "call"
      /\ CallAdmissible(res[2], res[3]) /\ items < MaxItems /\ items' = items + 1 /\ calls' = Append(calls, res[2])
      /\ wf' = "items" /\ awaiting' = None /\ res' = None
      /\ staged' = Event("model", res[2]) /\ stagedEnds' = FALSE /\ emitting' = TRUE
      /\ UNCHANGED <<acked, established, probing, exit, defer>>
      /\ UNCHANGED <<rounds, idx, total, seen, local, task, ledger, final, ran, granted, submitted>>
  BY Zenon DEF CallItem, Ready, At, Emit, Resumed, durableVars, historyVars
<1>2. Working
  BY Zenon, <1>1, Quietly
<1>3. PICK c \in Calls : c = res[2]
  BY Zenon, <1>1, <1>2, CallItems
<1>4. Emits("model", c) /\ "model" \in Whats \ Terminals
  BY Zenon, <1>1, <1>3, Quietly DEF Emits, Whats, Terminals
<1>5. defer = 0
  BY Zenon, <1>1, <1>2, NothingDeferred
<1>6. calls \in Seq(Calls) /\ Len(calls) \in Nat /\ total \in Nat
  BY LimitsAssumption DEF IInv, Types, RoundTypes
<1>7. /\ Len(calls) + 1 <= MaxPerRound /\ total + Len(calls) + 1 <= MaxCalls /\ c \notin seen
      /\ \A i \in 1..Len(calls) : calls[i] # c
  BY Zenon, <1>1, <1>3 DEF CallAdmissible
<1>8. /\ \A i, j \in 1..Len(calls) : calls[i] = calls[j] => i = j
      /\ \A i \in 1..Len(calls) : calls[i] \notin seen
      /\ \A d \in Calls : d \notin seen => Untouched(d)
  BY Zenon, <1>1, <1>2 DEF IInv, RoundInv
<1>9. /\ calls' \in Seq(Calls) /\ Len(calls') = Len(calls) + 1
      /\ \A i \in 1..Len(calls') : calls'[i] = c \/ \E j \in 1..Len(calls) : calls'[i] = calls[j]
      /\ \A i, j \in 1..Len(calls') : calls'[i] = calls'[j] => i = j
  BY Zenon, <1>1, <1>3, <1>6, <1>7, <1>8, AppendCall
<1>10. RoundTypes' /\ LedgerTypes'
  <2>1. items' \in 0..MaxItems /\ Len(calls') <= MaxPerRound
    BY <1>1, <1>7, <1>9, LimitsAssumption DEF IInv, Types, RoundTypes
  <2> QED BY Zenon, <1>1, <1>9, <2>1 DEF IInv, Types, RoundTypes, LedgerTypes
<1>11. RoundInv'
  <2>1. total' + Len(calls') <= MaxCalls
    BY <1>1, <1>6, <1>7, <1>9
  <2>2. \A i \in 1..Len(calls') : calls'[i] \notin seen'
    BY Zenon, <1>1, <1>7, <1>8, <1>9
  <2>3. \A d \in Calls : d \notin seen' => Untouched(d)'
    BY Zenon, <1>1, <1>8 DEF Untouched
  <2> QED BY Zenon, <1>1, <1>9, <2>1, <2>2, <2>3 DEF RoundInv, CallPlaces
<1>12. TellInv' /\ CallInv' /\ Announced("model", c)'
  BY Zenon, <1>1, <1>2, RanHaveResults DEF TellInv, CallInv, Announced, Speaking
<1>13. ReportInv' /\ (task.finish => task.executed)
  BY Zenon, <1>1, PolledRuns, ReportKeeps DEF IInv, EndInv
<1> QED BY Zenon, <1>1, <1>2, <1>4, <1>5, <1>10, <1>11, <1>12, <1>13, EmitStep DEF IInv, Types, FlowTypes, WorkflowPlaces

\* The stop of a round with calls: their ids are taken from now on.
LEMMA ToolStopItemStep == ASSUME IInv, Polled, ToolStopItem PROVE IInv'
<1>1. /\ wf = "items" /\ ~emitting /\ awaiting # None /\ res # None
      /\ items < MaxItems /\ items' = items + 1 /\ calls # <<>>
      /\ seen' = seen \cup {calls[i] : i \in 1..Len(calls)} /\ idx' = 1
      /\ wf' = "persist" /\ awaiting' = None /\ res' = None
      /\ staged' = Event("model", None) /\ stagedEnds' = FALSE /\ emitting' = TRUE
      /\ UNCHANGED <<acked, established, probing, exit, defer>>
      /\ UNCHANGED <<rounds, calls, total, local, task, ledger, final, ran, granted, submitted>>
  BY Zenon DEF ToolStopItem, Ready, At, Emit, Resumed, durableVars, historyVars
<1>2. Working /\ Emits("model", None) /\ "model" \in Whats \ Terminals
  BY Zenon, <1>1, Quietly DEF Emits, Whats, Terminals
<1>3. defer = 0
  BY Zenon, <1>1, <1>2, NothingDeferred
<1>4. \A i \in 1..Len(calls) : calls[i] \in Calls
  BY DEF IInv, Types, RoundTypes
<1>5. RoundTypes' /\ LedgerTypes'
  <2>1. items' \in 0..MaxItems /\ idx' \in 0..(MaxPerRound + 1)
    BY <1>1, LimitsAssumption DEF IInv, Types, RoundTypes
  <2>2. seen' \subseteq Calls
    BY Zenon, <1>1, <1>4 DEF IInv, Types, RoundTypes
  <2> QED BY Zenon, <1>1, <2>1, <2>2 DEF IInv, Types, RoundTypes, LedgerTypes
<1>6. RoundInv'
  <2>1. idx' >= 1 /\ total' + Len(calls') <= MaxCalls
    BY <1>1, <1>2 DEF IInv, RoundInv
  <2>2. /\ \A i, j \in 1..Len(calls) : calls[i] = calls[j] => i = j
        /\ \A i \in 1..Len(calls) : calls[i] \notin seen
        /\ \A d \in Calls : d \notin seen => Untouched(d)
    BY Zenon, <1>1, <1>2 DEF IInv, RoundInv
  <2>3. \A i \in 1..Len(calls') : calls'[i] \in seen' /\ Untouched(calls[i])'
    BY Zenon, <1>1, <1>4, <2>2 DEF Untouched
  <2>4. \A d \in Calls : d \notin seen' => Untouched(d)'
    BY Zenon, <1>1, <2>2 DEF Untouched
  <2> QED BY Zenon, <1>1, <2>1, <2>2, <2>3, <2>4 DEF RoundInv, CallPlaces
<1>7. TellInv' /\ CallInv' /\ Announced("model", None)'
  BY Zenon, <1>1, <1>2, RanHaveResults DEF TellInv, CallInv, Announced, Speaking
<1>8. ReportInv' /\ (task.finish => task.executed)
  BY Zenon, <1>1, PolledRuns, ReportKeeps DEF IInv, EndInv
<1> QED BY Zenon, <1>1, <1>2, <1>3, <1>5, <1>6, <1>7, <1>8, EmitStep DEF IInv, Types, FlowTypes, WorkflowPlaces

-----------------------------------------------------------------------------
(* The durable round.                                                      *)

\* The arguments of the next call are persisted.
LEMMA PersistArgumentsStep == ASSUME IInv, Polled, PersistArguments PROVE IInv'
<1>1. /\ wf = "persist" /\ ~emitting /\ idx <= Len(calls) /\ wf' = "persist" /\ awaiting' = "persist" /\ res' = None
      /\ UNCHANGED <<staged, stagedEnds, acked, established, emitting, probing, exit, defer>>
      /\ UNCHANGED <<rounds, items, calls, idx, total, seen, local, task, ledger, final, ran, granted, submitted>>
  BY Zenon DEF PersistArguments, Idle, At, Await, gateVars, roundVars, durableVars, historyVars
<1>2. Working /\ Quiet
  BY Zenon, <1>1, Quietly DEF Quiet
<1>3. defer = 0
  BY Zenon, <1>1, <1>2, NothingDeferred
<1>4. RoundTypes'
  BY Zenon, <1>1 DEF IInv, Types, RoundTypes
<1>5. AwaitInv' /\ TellInv' /\ CallInv'
  BY Zenon, <1>1, <1>2, RanHaveResults DEF AwaitInv, TellInv, CallInv
<1>6. RoundInv'
  BY Zenon, <1>1, <1>2, RoundKeeps DEF RoundKept, CallPlaces
<1>7. task.finish => task.executed
  BY Zenon DEF IInv, EndInv
<1> QED BY Zenon, <1>1, <1>2, <1>3, <1>4, <1>5, <1>6, <1>7, QuietStep DEF IInv, Types, FlowTypes, WorkflowPlaces, Awaitables

\* They are, and the next ones follow.
LEMMA ArgumentsPersistedStep == ASSUME IInv, Polled, ArgumentsPersisted PROVE IInv'
<1>1. /\ wf = "persist" /\ ~emitting /\ awaiting # None /\ idx' = idx + 1
      /\ wf' = "persist" /\ awaiting' = None /\ res' = None
      /\ UNCHANGED <<staged, stagedEnds, acked, established, emitting, probing, exit, defer>>
      /\ UNCHANGED <<rounds, items, calls, total, seen, local, task, ledger, final, ran, granted, submitted>>
  BY Zenon DEF ArgumentsPersisted, Ready, At, Resumed, gateVars, durableVars, historyVars
<1>2. Working /\ Quiet
  BY Zenon, <1>1, Quietly DEF Quiet
<1>3. defer = 0
  BY Zenon, <1>1, <1>2, NothingDeferred
<1>4. idx <= Len(calls)
  BY Zenon, <1>1, <1>2 DEF IInv, AwaitInv
<1>5. idx' \in 0..(MaxPerRound + 1) /\ idx' >= 1
  BY <1>1, <1>4, LimitsAssumption DEF IInv, Types, RoundTypes
<1>6. RoundTypes'
  BY Zenon, <1>1, <1>5 DEF IInv, Types, RoundTypes
<1>7. AwaitInv' /\ TellInv' /\ CallInv'
  BY Zenon, <1>1, <1>2, RanHaveResults DEF AwaitInv, TellInv, CallInv
<1>8. RoundInv'
  <2>1. /\ total + Len(calls) <= MaxCalls /\ calls # <<>>
        /\ \A i, j \in 1..Len(calls) : calls[i] = calls[j] => i = j
        /\ \A i \in 1..Len(calls) : calls[i] \in seen /\ Untouched(calls[i])
        /\ \A d \in Calls : d \notin seen => Untouched(d)
    BY Zenon, <1>1, <1>2 DEF IInv, RoundInv, CallPlaces
  <2>2. /\ \A d \in Calls : d \notin seen' => Untouched(d)'
        /\ \A i \in 1..Len(calls') : Untouched(calls[i])'
    BY Zenon, <1>1, <2>1 DEF Untouched
  <2> QED BY Zenon, <1>1, <1>5, <2>1, <2>2 DEF RoundInv, CallPlaces
<1>9. task.finish => task.executed
  BY Zenon DEF IInv, EndInv
<1> QED BY Zenon, <1>1, <1>2, <1>3, <1>6, <1>7, <1>8, <1>9, QuietStep DEF IInv, Types, FlowTypes, WorkflowPlaces

\* The message of the round is committed with its placeholders.
LEMMA CommitRoundStep == ASSUME IInv, Polled, CommitRound PROVE IInv'
<1>1. /\ wf = "persist" /\ ~emitting /\ wf' = "commit" /\ awaiting' = "commit" /\ res' = None
      /\ UNCHANGED <<staged, stagedEnds, acked, established, emitting, probing, exit, defer>>
      /\ UNCHANGED <<rounds, items, calls, idx, total, seen, local, task, ledger, final, ran, granted, submitted>>
  BY Zenon DEF CommitRound, Idle, At, Await, gateVars, roundVars, durableVars, historyVars
<1>2. Working /\ Quiet
  BY Zenon, <1>1, Quietly DEF Quiet
<1>3. defer = 0
  BY Zenon, <1>1, <1>2, NothingDeferred
<1>4. RoundTypes'
  BY Zenon, <1>1 DEF IInv, Types, RoundTypes
<1>5. AwaitInv' /\ TellInv' /\ CallInv'
  BY Zenon, <1>1, <1>2, RanHaveResults DEF AwaitInv, TellInv, CallInv
<1>6. RoundInv'
  BY Zenon, <1>1, <1>2, RoundKeeps DEF RoundKept, CallPlaces
<1>7. task.finish => task.executed
  BY Zenon DEF IInv, EndInv
<1> QED BY Zenon, <1>1, <1>2, <1>3, <1>4, <1>5, <1>6, <1>7, QuietStep DEF IInv, Types, FlowTypes, WorkflowPlaces, Awaitables

\* Once it is, its first call is the call in hand.
LEMMA RoundCommittedStep == ASSUME IInv, Polled, RoundCommitted PROVE IInv'
<1>1. /\ wf = "commit" /\ ~emitting /\ awaiting # None /\ res = <<"ok">> /\ idx' = 1
      /\ wf' = "call" /\ awaiting' = None /\ res' = None
      /\ UNCHANGED <<staged, stagedEnds, acked, established, emitting, probing, exit, defer>>
      /\ UNCHANGED <<rounds, items, calls, total, seen, local, task, ledger, final, ran, granted, submitted>>
  BY Zenon DEF RoundCommitted, Ready, At, Resumed, gateVars, durableVars, historyVars
<1>2. Working /\ Quiet
  BY Zenon, <1>1, Quietly DEF Quiet
<1>3. defer = 0
  BY Zenon, <1>1, <1>2, NothingDeferred
<1>4. /\ total + Len(calls) <= MaxCalls /\ calls # <<>>
      /\ \A i, j \in 1..Len(calls) : calls[i] = calls[j] => i = j
      /\ \A i \in 1..Len(calls) : calls[i] \in seen /\ Recorded(calls[i])
      /\ \A d \in Calls : d \notin seen => Untouched(d)
  BY Zenon, <1>1, <1>2 DEF IInv, RoundInv, CallPlaces, Recorded
<1>5. idx' \in 0..(MaxPerRound + 1) /\ idx' >= 1 /\ idx' <= Len(calls) /\ idx' \in 1..Len(calls)
  BY <1>1, <1>4, LimitsAssumption DEF IInv, Types, RoundTypes
<1>6. RoundTypes'
  BY Zenon, <1>1, <1>5 DEF IInv, Types, RoundTypes
<1>7. Recorded(Current)'
  BY Zenon, <1>1, <1>4, <1>5 DEF Recorded, Current
<1>8. AwaitInv' /\ TellInv' /\ CallInv'
  BY Zenon, <1>1, <1>2, <1>7, RanHaveResults DEF AwaitInv, TellInv, CallInv
<1>9. RoundInv'
  <2>1. /\ \A d \in Calls : d \notin seen' => Untouched(d)'
        /\ \A i \in 1..Len(calls') : Recorded(calls[i])'
    BY Zenon, <1>1, <1>4 DEF Untouched, Recorded
  <2> QED BY Zenon, <1>1, <1>4, <1>5, <2>1 DEF RoundInv, CallPlaces
<1>10. task.finish => task.executed
  BY Zenon DEF IInv, EndInv
<1> QED BY Zenon, <1>1, <1>2, <1>3, <1>6, <1>8, <1>9, <1>10, QuietStep DEF IInv, Types, FlowTypes, WorkflowPlaces

-----------------------------------------------------------------------------
(* One call.                                                               *)

\* The call in hand is one of the round, and none of those still to come.
LEMMA InHand ==
    ASSUME IInv, Working, wf \in CallPlaces
    PROVE  /\ idx \in 1..Len(calls) /\ Current \in Calls /\ Current \in seen
           /\ \A i \in 1..Len(calls) : calls[i] \in Calls /\ (i > idx => calls[i] # Current)
<1>1. /\ idx >= 1 /\ idx <= Len(calls)
      /\ \A i, j \in 1..Len(calls) : calls[i] = calls[j] => i = j
      /\ \A i \in 1..Len(calls) : calls[i] \in seen
  BY Zenon DEF IInv, RoundInv
<1>2. calls \in Seq(Calls) /\ idx \in 0..(MaxPerRound + 1)
  BY Zenon DEF IInv, Types, RoundTypes
<1>3. idx \in 1..Len(calls) /\ \A i \in 1..Len(calls) : calls[i] \in Calls /\ (i > idx => i # idx)
  BY <1>1, <1>2, LimitsAssumption
<1> QED BY Zenon, <1>1, <1>3 DEF Current

\* A step that changes what is known of the call in hand only.
LEMMA HandKeeps ==
    ASSUME IInv, Working, wf \in CallPlaces, wf' \in CallPlaces, UNCHANGED <<calls, idx, total, seen>>,
           \A c \in Calls : c # Current => ledger'[c] = ledger[c] /\ ran'[c] = ran[c] /\ granted'[c] = granted[c]
    PROVE  RoundInv'
<1>1. /\ wf' \notin {"start", "round", "provider", "items", "persist", "commit"}
      /\ wf \notin {"start", "round", "provider", "items", "persist", "commit"}
  BY Zenon DEF CallPlaces
<1>2. /\ total + Len(calls) <= MaxCalls /\ idx >= 1 /\ idx <= Len(calls)
      /\ \A i, j \in 1..Len(calls) : calls[i] = calls[j] => i = j
      /\ \A i \in 1..Len(calls) : calls[i] \in seen /\ (i > idx => Recorded(calls[i]))
      /\ \A c \in Calls : c \notin seen => Untouched(c)
  BY Zenon, <1>1 DEF IInv, RoundInv
<1>3. \A c \in Calls : c \notin seen' => Untouched(c)'
  BY Zenon, <1>2, InHand DEF Untouched
<1>4. \A i \in 1..Len(calls') : i > idx' => Recorded(calls[i])'
  BY Zenon, <1>2, InHand DEF Recorded
<1> QED BY Zenon, <1>1, <1>2, <1>3, <1>4 DEF RoundInv

\* A call that did not run gets an authority.
LEMMA GrantReports ==
    ASSUME IInv, Runs, NEW c \in Calls, ran[c] = 0, granted[c] # "denied", UNCHANGED <<ledger, ran, submitted>>,
           NEW g \in {"free", "asked", "allowed", "denied"}, granted' = [granted EXCEPT ![c] = g]
    PROVE  /\ ReportInv' /\ granted' \in [Calls -> {"none", "free", "asked", "allowed", "denied"}]
           /\ granted'[c] = g /\ \A d \in Calls : d # c => granted'[d] = granted[d]
<1>1. Said' = Said
  BY Zenon, RunsKeeps
<1>2. granted \in [Calls -> {"none", "free", "asked", "allowed", "denied"}]
  BY Zenon DEF IInv, Types, LedgerTypes
<1>3. /\ granted' \in [Calls -> {"none", "free", "asked", "allowed", "denied"}]
      /\ granted'[c] = g /\ \A d \in Calls : d # c => granted'[d] = granted[d]
  BY <1>2
<1>4. ~(ran[c] > 0)
  OBVIOUS
<1>5. /\ \A d \in Calls :
            /\ ran[d] > 0 => <<"tool_started", d>> \in Said
            /\ ran[d] > 0 /\ granted[d] = "allowed" =>
                  <<"permission_requested", d>> \in Said /\ <<"permission_resolved", d>> \in Said
            /\ <<"tool_finished", d>> \in Said => ledger[d] = "result" /\ ran[d] = 1
            /\ <<"tool_denied", d>> \in Said => granted[d] = "denied"
            /\ granted[d] = "denied" => ran[d] = 0
      /\ \A d \in submitted : ran[d] > 0
  BY Zenon DEF IInv, ReportInv
<1>6. \A d \in Calls :
         /\ ran[d] > 0 /\ granted'[d] = "allowed" =>
               <<"permission_requested", d>> \in Said /\ <<"permission_resolved", d>> \in Said
         /\ <<"tool_denied", d>> \in Said => granted'[d] = "denied"
         /\ granted'[d] = "denied" => ran[d] = 0
  <2> SUFFICES ASSUME NEW d \in Calls
               PROVE  /\ ran[d] > 0 /\ granted'[d] = "allowed" =>
                            <<"permission_requested", d>> \in Said /\ <<"permission_resolved", d>> \in Said
                      /\ <<"tool_denied", d>> \in Said => granted'[d] = "denied"
                      /\ granted'[d] = "denied" => ran[d] = 0
    BY Zenon
  <2>1. CASE d = c
    BY Zenon, <1>4, <1>5, <2>1
  <2>2. CASE d # c
    BY Zenon, <1>3, <1>5, <2>2
  <2> QED BY Zenon, <2>1, <2>2
<1>7. ReportInv'
  BY Zenon, <1>1, <1>5, <1>6 DEF ReportInv
<1> QED BY Zenon, <1>3, <1>7

\* A task before its execution.
LEMMA FreshTask ==
    /\ NoTask \in Tasks /\ ~NoTask.executed /\ ~NoTask.finish
    /\ \A mode \in {"cancellable", "completes"} :
          /\ [NoTask EXCEPT !.mode = mode] \in Tasks
          /\ ~[NoTask EXCEPT !.mode = mode].executed /\ ~[NoTask EXCEPT !.mode = mode].finish
BY Zenon DEF NoTask, Tasks

\* A preparation that fails runs nothing.
LEMMA PrepareErrsStep == ASSUME IInv, Polled, PrepareErrs PROVE IInv'
<1>1. /\ wf = "call" /\ ~emitting /\ awaiting = None /\ wf' = "validate" /\ task' = NoTask
      /\ UNCHANGED <<staged, stagedEnds, acked, established, emitting, probing, exit, defer, awaiting, res>>
      /\ UNCHANGED <<rounds, items, calls, idx, total, seen, local, ledger, final, ran, granted, submitted>>
  BY Zenon DEF PrepareErrs, Idle, At, gateVars, roundVars, durableVars, historyVars
<1>2. Working /\ Quiet
  BY Zenon, <1>1, Quietly DEF Quiet
<1>3. defer = 0 /\ Current' = Current /\ res' = None /\ awaiting' = None
  BY Zenon, <1>1, <1>2, NothingDeferred DEF Current, IInv, Types, FlowTypes
<1>4. RoundTypes'
  BY Zenon, <1>1, FreshTask DEF IInv, Types, RoundTypes
<1>5. Recorded(Current)
  BY Zenon, <1>1, <1>2 DEF IInv, CallInv
<1>6. AwaitInv' /\ TellInv' /\ CallInv'
  BY Zenon, <1>1, <1>2, <1>3, <1>5, RanHaveResults, FreshTask DEF AwaitInv, TellInv, CallInv, Recorded, Quiet
<1>7. RoundInv'
  BY Zenon, <1>1, <1>2, RoundKeeps DEF RoundKept, CallPlaces
<1>8. task'.finish => task'.executed
  BY Zenon, <1>1, FreshTask
<1> QED BY Zenon, <1>1, <1>2, <1>3, <1>4, <1>6, <1>7, <1>8, QuietStep DEF IInv, Types, FlowTypes, WorkflowPlaces

\* Both preparations stage the event of their place.
LEMMA PrepareStep ==
    ASSUME IInv, Polled, \E mode \in {"cancellable", "completes"} : PrepareFree(mode) \/ PrepareAsks(mode)
    PROVE  IInv'
<1>1. PICK mode \in {"cancellable", "completes"}, g \in {"free", "asked"}, what \in {"tool_started", "permission_requested"} :
         /\ wf = "call" /\ ~emitting /\ awaiting = None /\ task' = [NoTask EXCEPT !.mode = mode]
         /\ granted' = [granted EXCEPT ![Current] = g]
         /\ g = "free" => what = "tool_started" /\ wf' = "execute"
         /\ g = "asked" => what = "permission_requested" /\ wf' = "authorize"
         /\ staged' = Event(what, Current) /\ stagedEnds' = FALSE /\ emitting' = TRUE
         /\ UNCHANGED <<acked, established, probing, exit, defer, awaiting, res>>
         /\ UNCHANGED <<rounds, items, calls, idx, total, seen, local, ledger, final, ran, submitted>>
  BY ZenonT(30) DEF PrepareFree, PrepareAsks, Idle, At, Emit, roundVars, durableVars
<1>2. Working /\ exit = None /\ ~acked /\ acked = FALSE
  BY Zenon, <1>1, Quietly
<1>3. defer = 0 /\ Current' = Current /\ res' = None /\ awaiting' = None
  BY Zenon, <1>1, <1>2, NothingDeferred DEF Current, IInv, Types, FlowTypes
<1>4. wf \in CallPlaces /\ wf' \in CallPlaces /\ wf' \in {"execute", "authorize"} /\ what \in Whats \ Terminals
  BY Zenon, <1>1 DEF CallPlaces, Whats, Terminals
<1>5. Current \in Calls /\ Emits(what, Current)
  BY Zenon, <1>1, <1>2, <1>3, <1>4, InHand DEF Emits
<1>6. ledger[Current] = "unknown" /\ ran[Current] = 0 /\ granted[Current] = "none"
  BY Zenon, <1>1, <1>2 DEF IInv, CallInv, Recorded
<1>7. /\ ReportInv' /\ granted' \in [Calls -> {"none", "free", "asked", "allowed", "denied"}]
      /\ granted'[Current] = g /\ \A d \in Calls : d # Current => granted'[d] = granted[d]
  BY Zenon, <1>1, <1>5, <1>6, PolledRuns, GrantReports
<1>8. RoundTypes' /\ LedgerTypes'
  BY Zenon, <1>1, <1>7, FreshTask DEF IInv, Types, RoundTypes, LedgerTypes
<1>9. TellInv' /\ Announced(what, Current)'
  BY Zenon, <1>1, <1>2, <1>3, <1>4, <1>7 DEF TellInv, Announced, Speaking, Told
<1>10. CallInv'
  <2>1. ~task'.executed
    BY Zenon, <1>1, FreshTask
  <2> QED BY Zenon, <1>1, <1>2, <1>3, <1>4, <1>6, <1>7, <2>1, RanHaveResults DEF CallInv
<1>11. RoundInv'
  BY Zenon, <1>1, <1>2, <1>4, <1>7, HandKeeps
<1>12. task'.finish => task'.executed
  BY Zenon, <1>1, FreshTask
<1>13. /\ wf # "end" /\ wf' # "end" /\ wf' \in WorkflowPlaces /\ stagedEnds' \in BOOLEAN /\ probing' \in BOOLEAN
       /\ Current \in Calls \cup {None}
  BY Zenon, <1>1, <1>4, <1>5 DEF IInv, Types, FlowTypes, WorkflowPlaces
<1> QED BY Zenon, <1>1, <1>3, <1>4, <1>5, <1>7, <1>8, <1>9, <1>10, <1>11, <1>12, <1>13, EmitStep

\* The permission handler is asked after its request was yielded.
LEMMA AuthorizeStep == ASSUME IInv, Polled, Authorize PROVE IInv'
<1>1. /\ wf = "authorize" /\ ~emitting /\ wf' = "authorize" /\ awaiting' = "permission" /\ res' = None
      /\ UNCHANGED <<staged, stagedEnds, acked, established, emitting, probing, exit, defer>>
      /\ UNCHANGED <<rounds, items, calls, idx, total, seen, local, task, ledger, final, ran, granted, submitted>>
  BY Zenon DEF Authorize, Idle, At, Await, gateVars, roundVars, durableVars, historyVars
<1>2. Working /\ Quiet
  BY Zenon, <1>1, Quietly DEF Quiet
<1>3. defer = 0 /\ Current' = Current /\ Said' = Said
  BY Zenon, <1>1, <1>2, NothingDeferred, PolledRuns, RunsKeeps DEF Current
<1>4. RoundTypes'
  BY Zenon, <1>1 DEF IInv, Types, RoundTypes
<1>5. AwaitInv' /\ CallInv'
  BY Zenon, <1>1, <1>2, <1>3, RanHaveResults DEF AwaitInv, IInv, CallInv
<1>6. TellInv'
  BY Zenon, <1>1, <1>2, <1>3 DEF IInv, TellInv, Told
<1>7. RoundInv'
  BY Zenon, <1>1, <1>2, RoundKeeps DEF RoundKept, CallPlaces
<1>8. task.finish => task.executed
  BY Zenon DEF IInv, EndInv
<1> QED BY Zenon, <1>1, <1>2, <1>3, <1>4, <1>5, <1>6, <1>7, <1>8, QuietStep DEF IInv, Types, FlowTypes, WorkflowPlaces, Awaitables

\* The answer of the permission handler.
LEMMA GuardTyped ==
    ASSUME IInv, Working, wf = "authorize", awaiting # None, res # None, res[1] = "allow"
    PROVE  res[2] \in BOOLEAN
<1>1. awaiting = "permission"
  BY Zenon DEF IInv, AwaitInv
<1>2. res \in {<<"allow", TRUE>>, <<"allow", FALSE>>, <<"deny">>, <<"err">>}
  BY Zenon, <1>1, AnswerSets DEF IInv, Types, FlowTypes
<1>3. /\ <<"deny">>[1] = "deny" /\ <<"err">>[1] = "err"
      /\ <<"allow", TRUE>>[2] = TRUE /\ <<"allow", FALSE>>[2] = FALSE
  OBVIOUS
<1> QED BY Zenon, <1>2, <1>3

\* The authority of a task before its execution.
LEMMA GuardTask ==
    ASSUME task \in Tasks, NEW b \in BOOLEAN, task' = [task EXCEPT !.guarded = b]
    PROVE  task' \in Tasks /\ task'.executed = task.executed /\ task'.finish = task.finish /\ task'.mode = task.mode
BY DEF Tasks

\* The permission handler decides.
LEMMA DecisionStep == ASSUME IInv, Polled, Authorized \/ Refused PROVE IInv'
<1>1. PICK g \in {"allowed", "denied"} :
         /\ wf = "authorize" /\ ~emitting /\ awaiting # None /\ res # None
         /\ task' = task \/ (res[1] = "allow" /\ task' = [task EXCEPT !.guarded = res[2]])
         /\ granted' = [granted EXCEPT ![Current] = g]
         /\ awaiting' = None /\ res' = None /\ wf' = "decided"
         /\ staged' = Event("permission_resolved", Current) /\ stagedEnds' = FALSE /\ emitting' = TRUE
         /\ UNCHANGED <<acked, established, probing, exit, defer>>
         /\ UNCHANGED <<rounds, items, calls, idx, total, seen, local, ledger, final, ran, submitted>>
  BY ZenonT(30) DEF Authorized, Refused, Ready, At, Emit, Resumed, roundVars, durableVars
<1>2. Working /\ exit = None /\ ~acked /\ acked = FALSE /\ Said' = Said /\ Runs
  BY Zenon, <1>1, Quietly, PolledRuns, RunsKeeps
<1>3. defer = 0 /\ Current' = Current
  BY Zenon, <1>1, <1>2, NothingDeferred DEF Current
<1>4. wf \in CallPlaces /\ wf' \in CallPlaces /\ "permission_resolved" \in Whats \ Terminals
  BY Zenon, <1>1 DEF CallPlaces, Whats, Terminals
<1>5. Current \in Calls /\ Emits("permission_resolved", Current)
  BY Zenon, <1>1, <1>2, <1>4, InHand DEF Emits
<1>6. /\ ledger[Current] = "unknown" /\ ran[Current] = 0 /\ granted[Current] = "asked" /\ ~task.executed
      /\ <<"permission_requested", Current>> \in Said
  BY Zenon, <1>1, <1>2 DEF IInv, CallInv, TellInv, Told
<1>7. /\ ReportInv' /\ granted' \in [Calls -> {"none", "free", "asked", "allowed", "denied"}]
      /\ granted'[Current] = g /\ \A d \in Calls : d # Current => granted'[d] = granted[d]
  BY Zenon, <1>1, <1>2, <1>5, <1>6, GrantReports
<1>8. task' \in Tasks /\ ~task'.executed /\ (task'.finish => task'.executed)
  <2>1. task \in Tasks /\ (task.finish => task.executed)
    BY Zenon DEF IInv, Types, RoundTypes, EndInv
  <2> QED BY Zenon, <1>1, <1>2, <1>6, <2>1, GuardTyped, GuardTask
<1>9. RoundTypes' /\ LedgerTypes'
  BY Zenon, <1>1, <1>7, <1>8 DEF IInv, Types, RoundTypes, LedgerTypes
<1>10. TellInv' /\ Announced("permission_resolved", Current)'
  BY Zenon, <1>1, <1>2, <1>3, <1>6 DEF TellInv, Announced, Speaking, Told
<1>11. CallInv'
  BY Zenon, <1>1, <1>2, <1>3, <1>6, <1>7, <1>8, RanHaveResults DEF CallInv
<1>12. RoundInv'
  BY Zenon, <1>1, <1>2, <1>4, <1>7, HandKeeps
<1>13. /\ wf # "end" /\ wf' # "end" /\ wf' \in WorkflowPlaces /\ stagedEnds' \in BOOLEAN /\ probing' \in BOOLEAN
       /\ Current \in Calls \cup {None}
  BY Zenon, <1>1, <1>5 DEF IInv, Types, FlowTypes, WorkflowPlaces
<1> QED BY Zenon, <1>1, <1>3, <1>4, <1>5, <1>7, <1>8, <1>9, <1>10, <1>11, <1>12, <1>13, EmitStep

\* A refused call is reported as denied, an allowed one as started.
LEMMA DecidedStep == ASSUME IInv, Polled, Decided PROVE IInv'
<1>1. PICK what \in {"tool_denied", "tool_started"} :
         /\ wf = "decided" /\ ~emitting /\ awaiting = None
         /\ what = "tool_denied" => granted[Current] = "denied" /\ wf' = "validate"
         /\ what = "tool_started" => granted[Current] # "denied" /\ wf' = "execute"
         /\ staged' = Event(what, Current) /\ stagedEnds' = FALSE /\ emitting' = TRUE
         /\ UNCHANGED <<acked, established, probing, exit, defer, awaiting, res>>
         /\ UNCHANGED <<rounds, items, calls, idx, total, seen, local, task, ledger, final, ran, granted, submitted>>
  BY ZenonT(30) DEF Decided, Idle, At, Emit, roundVars, durableVars, historyVars
<1>2. Working /\ exit = None /\ ~acked /\ acked = FALSE /\ Said' = Said /\ Runs
  BY Zenon, <1>1, Quietly, PolledRuns, RunsKeeps
<1>3. defer = 0 /\ Current' = Current /\ res' = None /\ awaiting' = None
  BY Zenon, <1>1, <1>2, NothingDeferred DEF Current, IInv, Types, FlowTypes
<1>4. wf' \in {"validate", "execute"} /\ wf \in CallPlaces /\ wf' \in CallPlaces /\ what \in Whats \ Terminals
  BY Zenon, <1>1 DEF CallPlaces, Whats, Terminals
<1>5. Current \in Calls /\ Emits(what, Current)
  BY Zenon, <1>1, <1>2, <1>3, <1>4, InHand DEF Emits
<1>6. /\ ledger[Current] = "unknown" /\ ran[Current] = 0 /\ granted[Current] \in {"allowed", "denied"} /\ ~task.executed
      /\ <<"permission_requested", Current>> \in Said /\ <<"permission_resolved", Current>> \in Said
  BY Zenon, <1>1, <1>2 DEF IInv, CallInv, TellInv, Told
<1>7. RoundTypes' /\ LedgerTypes'
  BY Zenon, <1>1 DEF IInv, Types, RoundTypes, LedgerTypes
<1>8. TellInv' /\ Announced(what, Current)'
  BY Zenon, <1>1, <1>2, <1>3, <1>4, <1>6 DEF TellInv, Announced, Speaking, Told
<1>9. CallInv'
  BY Zenon, <1>1, <1>2, <1>3, <1>4, <1>6, RanHaveResults DEF CallInv
<1>10. RoundInv'
  BY Zenon, <1>1, <1>2, <1>4, HandKeeps
<1>11. ReportInv' /\ (task'.finish => task'.executed)
  BY Zenon, <1>1, <1>2, ReportKeeps DEF IInv, EndInv
<1>12. /\ wf # "end" /\ wf' # "end" /\ wf' \in WorkflowPlaces /\ stagedEnds' \in BOOLEAN /\ probing' \in BOOLEAN
       /\ Current \in Calls \cup {None}
  BY Zenon, <1>1, <1>4, <1>5 DEF IInv, Types, FlowTypes, WorkflowPlaces
<1> QED BY Zenon, <1>1, <1>3, <1>4, <1>5, <1>7, <1>8, <1>9, <1>10, <1>11, <1>12, EmitStep

\* The task whose execution began.
LEMMA BegunTask ==
    ASSUME task \in Tasks, task' = [task EXCEPT !.guarded = FALSE, !.executed = TRUE]
    PROVE  task' \in Tasks /\ task'.executed /\ task'.mode = task.mode
<1> DEFINE t == [task EXCEPT !.guarded = FALSE]
<1>1. t \in Tasks /\ t.mode = task.mode
  BY Zenon DEF Tasks
<1>2. task' = [t EXCEPT !.executed = TRUE]
  BY Zenon
<1> HIDE DEF t
<1>3. [t EXCEPT !.executed = TRUE] \in Tasks /\ [t EXCEPT !.executed = TRUE].executed
      /\ [t EXCEPT !.executed = TRUE].mode = t.mode
  BY Zenon, <1>1 DEF Tasks
<1> QED BY Zenon, <1>1, <1>2, <1>3

\* The count of the call in hand.
LEMMA RanOnce ==
    ASSUME ran \in [Calls -> Nat], NEW c \in Calls, ran[c] = 0, ran' = [ran EXCEPT ![c] = @ + 1]
    PROVE  /\ ran' \in [Calls -> Nat] /\ ran'[c] = 1 /\ ran'[c] > 0 /\ ~(ran[c] > 0)
           /\ \A d \in Calls : d # c => ran'[d] = ran[d]
OBVIOUS

\* The execution is polled for the first time: the call runs once.
LEMMA ExecuteStep == ASSUME IInv, Polled, Execute PROVE IInv'
<1>1. /\ wf = "execute" /\ ~emitting /\ awaiting = None
      /\ wf' = "execute" /\ awaiting' = "tool" /\ res' = None
      /\ ran' = [ran EXCEPT ![Current] = @ + 1]
      /\ \/ task.mode = "completes" /\ defer' = 1 /\ submitted' = submitted \cup {Current}
         \/ task.mode # "completes" /\ defer' = defer /\ submitted' = submitted
      /\ task' = [task EXCEPT !.guarded = FALSE, !.executed = TRUE]
      /\ UNCHANGED <<staged, stagedEnds, acked, established, emitting, probing, exit>>
      /\ UNCHANGED <<rounds, items, calls, idx, total, seen, local, ledger, final, granted>>
  BY Zenon DEF Execute, Idle, At, Await, gateVars, roundVars, durableVars
<1>2. Working /\ Quiet /\ Runs /\ Said' = Said
  BY Zenon, <1>1, Quietly, PolledRuns, RunsKeeps DEF Quiet
<1>3. exit' = None /\ staged' = None /\ emitting' = FALSE /\ acked' = FALSE /\ established' = established
  BY Zenon, <1>2 DEF Quiet
<1>4. defer = 0 /\ Settled /\ Current' = Current /\ state' = "running" /\ delivery' = None /\ Told
  BY Zenon, <1>1, <1>2, NothingDeferred, RunsKeeps DEF Current, Told
<1>5. wf \in CallPlaces /\ wf' \in CallPlaces /\ awaiting' \in Awaitables /\ awaiting' # None
  BY Zenon, <1>1, NoneAssumption DEF CallPlaces, Awaitables
<1>6. Current \in Calls
  BY Zenon, <1>2, <1>5, InHand
<1>7. /\ ledger[Current] = "unknown" /\ ran[Current] = 0 /\ granted[Current] \in {"free", "allowed"}
      /\ <<"tool_started", Current>> \in Said
      /\ granted[Current] = "allowed" =>
            <<"permission_requested", Current>> \in Said /\ <<"permission_resolved", Current>> \in Said
  BY Zenon, <1>1, <1>2, <1>4 DEF IInv, CallInv, TellInv
<1>8. /\ ran' \in [Calls -> Nat] /\ ran'[Current] = 1 /\ ran'[Current] > 0 /\ ~(ran[Current] > 0)
      /\ \A d \in Calls : d # Current => ran'[d] = ran[d]
  BY Zenon, <1>1, <1>6, <1>7, RanOnce DEF IInv, Types, LedgerTypes
<1>9. task' \in Tasks /\ task'.executed /\ task'.mode = task.mode
  BY Zenon, <1>1, BegunTask DEF IInv, Types, RoundTypes
<1>10. FlowTypes'
  <2>1. defer' \in {0, 1} /\ wf' \in WorkflowPlaces
    BY Zenon, <1>1, <1>4 DEF WorkflowPlaces
  <2> QED BY ZenonT(30), <1>1, <1>3, <1>5, <2>1 DEF IInv, Types, FlowTypes
<1>11. RoundTypes' /\ LedgerTypes'
  <2>1. submitted' \subseteq Calls
    BY Zenon, <1>1, <1>6 DEF IInv, Types, LedgerTypes
  <2> QED BY Zenon, <1>1, <1>8, <1>9, <2>1 DEF IInv, Types, RoundTypes, LedgerTypes
<1>12. AwaitInv' /\ GateInv' /\ FlightInv'
  BY Zenon, <1>1, <1>2, QuietKeeps DEF AwaitInv
<1>13. TellInv'
  BY Zenon, <1>1, <1>2, <1>4, <1>7 DEF TellInv
<1>14. RoundInv'
  BY Zenon, <1>1, <1>2, <1>5, <1>8, HandKeeps
<1>15. CallInv'
  <2>1. \A d \in Calls : ran[d] > 0 => ledger[d] = "result" \/ d = Current
    BY Zenon, <1>2 DEF IInv, CallInv
  <2>2. \A d \in Calls : ran'[d] > 0 => ledger'[d] = "result" \/ d = Current'
    BY Zenon, <1>1, <1>4, <1>8, <2>1
  <2> QED BY Zenon, <1>1, <1>4, <1>5, <1>7, <1>8, <1>9, <2>2 DEF CallInv
<1>16. WinInv'
  <2>1. \A c : Settles(c)' <=> Settles(c)
    BY Zenon, <1>1, <1>2 DEF Settles
  <2>2. CASE task.mode = "completes" /\ defer' = 1 /\ submitted' = submitted \cup {Current}
    <3>1. defer' # 0 /\ \A c \in submitted' : c = Current' \/ Settles(c)'
      BY <1>4, <2>1, <2>2 DEF Settled
    <3> QED BY Zenon, <1>1, <1>3, <1>4, <1>5, <1>9, <2>2, <3>1 DEF WinInv, Working
  <2>3. CASE task.mode # "completes" /\ defer' = defer /\ submitted' = submitted
    <3>1. Settled' /\ defer' = 0
      BY Zenon, <1>4, <2>1, <2>3 DEF Settled
    <3> QED BY Zenon, <1>3, <1>4, <3>1 DEF WinInv
  <2> QED BY Zenon, <1>1, <2>2, <2>3
<1>17. EndInv'
  BY Zenon, <1>1, <1>2, <1>3, <1>9, EndKeeps
<1>18. ReportInv'
  <2>1. /\ \A c \in Calls :
            /\ ran[c] > 0 => <<"tool_started", c>> \in Said
            /\ ran[c] > 0 /\ granted[c] = "allowed" =>
                  <<"permission_requested", c>> \in Said /\ <<"permission_resolved", c>> \in Said
            /\ <<"tool_finished", c>> \in Said => ledger[c] = "result" /\ ran[c] = 1
            /\ <<"tool_denied", c>> \in Said => granted[c] = "denied"
            /\ granted[c] = "denied" => ran[c] = 0
        /\ \A c \in submitted : ran[c] > 0 /\ c \in Calls
    BY Zenon DEF IInv, ReportInv, Types, LedgerTypes
  <2>2. \A c \in Calls :
            /\ ran'[c] > 0 => <<"tool_started", c>> \in Said'
            /\ ran'[c] > 0 /\ granted'[c] = "allowed" =>
                  <<"permission_requested", c>> \in Said' /\ <<"permission_resolved", c>> \in Said'
            /\ <<"tool_finished", c>> \in Said' => ledger'[c] = "result" /\ ran'[c] = 1
            /\ <<"tool_denied", c>> \in Said' => granted'[c] = "denied"
            /\ granted'[c] = "denied" => ran'[c] = 0
    <3> SUFFICES ASSUME NEW c \in Calls
                 PROVE  /\ ran'[c] > 0 => <<"tool_started", c>> \in Said
                        /\ ran'[c] > 0 /\ granted[c] = "allowed" =>
                              <<"permission_requested", c>> \in Said /\ <<"permission_resolved", c>> \in Said
                        /\ <<"tool_finished", c>> \in Said => ledger[c] = "result" /\ ran'[c] = 1
                        /\ <<"tool_denied", c>> \in Said => granted[c] = "denied"
                        /\ granted[c] = "denied" => ran'[c] = 0
      BY Zenon, <1>1, <1>2
    <3>1. CASE c = Current
      BY Zenon, <1>7, <1>8, <2>1, <3>1
    <3>2. CASE c # Current
      BY Zenon, <1>8, <2>1, <3>2
    <3> QED BY Zenon, <3>1, <3>2
  <2>3. \A c \in submitted' : ran'[c] > 0
    <3>1. \A c \in submitted' : c = Current \/ c \in submitted
      BY Zenon, <1>1
    <3> QED BY Zenon, <1>8, <2>1, <3>1
  <2> QED BY Zenon, <2>2, <2>3 DEF ReportInv
<1> QED BY Zenon, <1>2, <1>10, <1>11, <1>12, <1>13, <1>14, <1>15, <1>16, <1>17, <1>18, WorkStep

\* What the tool answered is kept in its task.
LEMMA AnsweredTask ==
    ASSUME task \in Tasks, task.executed,
           NEW answer, answer = <<"err">> \/ \E finish, reg \in BOOLEAN : answer = <<"done", finish, reg>>,
           task' = IF answer[1] = "done" THEN [task EXCEPT !.finish = answer[2], !.registers = answer[3]] ELSE task
    PROVE  task' \in Tasks /\ task'.executed
<1>1. CASE answer[1] = "done"
  <2>1. <<"err">>[1] = "err" /\ \A f, r : <<"done", f, r>>[2] = f /\ <<"done", f, r>>[3] = r
    OBVIOUS
  <2>2. PICK finish \in BOOLEAN, reg \in BOOLEAN : answer = <<"done", finish, reg>>
    BY Zenon, <1>1, <2>1
  <2>3. answer[2] \in BOOLEAN /\ answer[3] \in BOOLEAN
    BY Zenon, <2>1, <2>2
  <2> DEFINE t == [task EXCEPT !.finish = answer[2]]
  <2>4. t \in Tasks /\ t.executed
    BY Zenon, <2>3 DEF Tasks
  <2>5. task' = [t EXCEPT !.registers = answer[3]]
    BY Zenon, <1>1
  <2> HIDE DEF t
  <2>6. [t EXCEPT !.registers = answer[3]] \in Tasks /\ [t EXCEPT !.registers = answer[3]].executed
    BY Zenon, <2>3, <2>4 DEF Tasks
  <2> QED BY Zenon, <2>5, <2>6
<1>2. CASE answer[1] # "done"
  BY Zenon, <1>2
<1> QED BY Zenon, <1>1, <1>2

\* The execution has answered.
LEMMA ExecutedStep == ASSUME IInv, Polled, Executed PROVE IInv'
<1>1. /\ wf = "execute" /\ ~emitting /\ awaiting # None /\ res # None
      /\ wf' = "validate" /\ awaiting' = None /\ res' = None
      /\ task' = IF res[1] = "done" THEN [task EXCEPT !.finish = res[2], !.registers = res[3]] ELSE task
      /\ UNCHANGED <<staged, stagedEnds, acked, established, emitting, probing, exit, defer>>
      /\ UNCHANGED <<rounds, items, calls, idx, total, seen, local, ledger, final, ran, granted, submitted>>
  BY Zenon DEF Executed, Ready, At, Resumed, gateVars, roundVars, durableVars, historyVars
<1>2. Working /\ Quiet
  BY Zenon, <1>1, Quietly DEF Quiet
<1>3. /\ ledger[Current] = "unknown" /\ ran[Current] = 1 /\ task.executed /\ awaiting = "tool"
      /\ \A d \in Calls : ran[d] > 0 => ledger[d] = "result" \/ d = Current
  BY Zenon, <1>1, <1>2 DEF IInv, CallInv, AwaitInv
<1>4. res = <<"err">> \/ \E finish, reg \in BOOLEAN : res = <<"done", finish, reg>>
  <2>1. res \in Answers("tool")
    BY Zenon, <1>1, <1>3 DEF IInv, Types, FlowTypes
  <2> QED BY Zenon, <2>1, AnswerSets
<1>5. task' \in Tasks /\ task'.executed
  BY Zenon, <1>1, <1>3, <1>4, AnsweredTask DEF IInv, Types, RoundTypes
<1>6. Current' = Current /\ emitting' = FALSE
  BY Zenon, <1>1, <1>2 DEF Current, Quiet
<1>7. RoundTypes'
  BY Zenon, <1>1, <1>5 DEF IInv, Types, RoundTypes
<1>8. AwaitInv' /\ TellInv' /\ CallInv'
  BY Zenon, <1>1, <1>3, <1>5, <1>6 DEF AwaitInv, TellInv, CallInv
<1>9. RoundInv'
  BY Zenon, <1>1, <1>2, RoundKeeps DEF RoundKept, CallPlaces
<1> QED BY Zenon, <1>1, <1>2, <1>5, <1>6, <1>7, <1>8, <1>9, QuietStep DEF IInv, Types, FlowTypes, WorkflowPlaces

-----------------------------------------------------------------------------
(* Its result.                                                             *)

\* Its output is within the limits.
LEMMA OutputValidStep == ASSUME IInv, Polled, OutputValid PROVE IInv'
<1>1. /\ wf = "validate" /\ ~emitting /\ awaiting = None /\ wf' = "store"
      /\ UNCHANGED <<staged, stagedEnds, acked, established, emitting, probing, exit, defer, awaiting, res>>
      /\ UNCHANGED <<rounds, items, calls, idx, total, seen, local, task, ledger, final, ran, granted, submitted>>
  BY Zenon DEF OutputValid, Idle, At, gateVars, roundVars, durableVars, historyVars
<1>2. Working /\ Quiet
  BY Zenon, <1>1, Quietly DEF Quiet
<1>3. /\ ledger[Current] = "unknown"
      /\ IF task.executed THEN ran[Current] = 1 ELSE ran[Current] = 0 /\ granted[Current] \in {"none", "denied"}
      /\ \A d \in Calls : ran[d] > 0 => ledger[d] = "result" \/ d = Current
  BY Zenon, <1>1, <1>2 DEF IInv, CallInv
<1>4. res' = None /\ awaiting' = None /\ Current' = Current /\ (defer # 0 => task.executed) /\ res' # <<"ok">>
  BY Zenon, <1>1, <1>2, OkIsNotNone DEF IInv, Types, FlowTypes, WinInv, Current
<1>5. RoundTypes'
  BY Zenon, <1>1 DEF IInv, Types, RoundTypes
<1>6. AwaitInv' /\ TellInv' /\ CallInv'
  BY Zenon, <1>1, <1>3, <1>4 DEF AwaitInv, TellInv, CallInv
<1>7. RoundInv'
  BY Zenon, <1>1, <1>2, RoundKeeps DEF RoundKept, CallPlaces
<1>8. task.finish => task.executed
  BY Zenon DEF IInv, EndInv
<1> QED BY Zenon, <1>1, <1>2, <1>4, <1>5, <1>6, <1>7, <1>8, QuietStep DEF IInv, Types, FlowTypes, WorkflowPlaces

\* The placeholder is being replaced by the result.
LEMMA StoreResultStep == ASSUME IInv, Polled, StoreResult PROVE IInv'
<1>1. /\ wf = "store" /\ ~emitting /\ awaiting = None /\ wf' = "store" /\ awaiting' = "replace" /\ res' = None
      /\ UNCHANGED <<staged, stagedEnds, acked, established, emitting, probing, exit, defer>>
      /\ UNCHANGED <<rounds, items, calls, idx, total, seen, local, task, ledger, final, ran, granted, submitted>>
  BY Zenon DEF StoreResult, Idle, At, Await, gateVars, roundVars, durableVars, historyVars
<1>2. Working /\ Quiet
  BY Zenon, <1>1, Quietly DEF Quiet
<1>3. res = None /\ Current' = Current /\ (defer # 0 => task.executed) /\ res' # <<"ok">>
  BY Zenon, <1>1, <1>2, OkIsNotNone DEF IInv, Types, FlowTypes, WinInv, Current
<1>4. /\ ledger[Current] = "unknown"
      /\ IF task.executed THEN ran[Current] = 1 ELSE ran[Current] = 0 /\ granted[Current] \in {"none", "denied"}
      /\ \A d \in Calls : ran[d] > 0 => ledger[d] = "result" \/ d = Current
  BY Zenon, <1>1, <1>2, <1>3 DEF IInv, CallInv
<1>5. RoundTypes'
  BY Zenon, <1>1 DEF IInv, Types, RoundTypes
<1>6. AwaitInv' /\ TellInv' /\ CallInv'
  BY Zenon, <1>1, <1>3, <1>4 DEF AwaitInv, TellInv, CallInv
<1>7. RoundInv'
  BY Zenon, <1>1, <1>2, RoundKeeps DEF RoundKept, CallPlaces
<1>8. task.finish => task.executed
  BY Zenon DEF IInv, EndInv
<1> QED BY Zenon, <1>1, <1>2, <1>3, <1>5, <1>6, <1>7, <1>8, QuietStep DEF IInv, Types, FlowTypes, WorkflowPlaces, Awaitables

\* The result is durable, and only then reported.
LEMMA ResultStoredStep == ASSUME IInv, Polled, ResultStored PROVE IInv'
<1>1. /\ wf = "store" /\ ~emitting /\ awaiting # None /\ res = <<"ok">> /\ local' = (local \/ task.registers)
      /\ wf' = "finished" /\ awaiting' = None /\ res' = None
      /\ UNCHANGED <<established, probing, exit, defer>>
      /\ UNCHANGED <<rounds, items, calls, idx, total, seen, task, ledger, final, ran, granted, submitted>>
      /\ task.executed => staged' = Event("tool_finished", Current) /\ stagedEnds' = FALSE /\ emitting' = TRUE
                          /\ acked' = acked
      /\ ~task.executed => UNCHANGED <<staged, stagedEnds, acked, emitting>>
  BY ZenonT(30) DEF ResultStored, Ready, At, Emit, Resumed, durableVars, historyVars
<1>2. Working /\ exit = None /\ staged = None /\ emitting = FALSE /\ acked = FALSE /\ Said' = Said /\ Runs
  BY Zenon, <1>1, Quietly, PolledRuns, RunsKeeps
<1>3. /\ ledger[Current] = "result"
      /\ IF task.executed THEN ran[Current] = 1 ELSE ran[Current] = 0 /\ granted[Current] \in {"none", "denied"}
      /\ \A d \in Calls : ran[d] > 0 => ledger[d] = "result" \/ d = Current
  BY Zenon, <1>1, <1>2 DEF IInv, CallInv
<1>4. Current' = Current /\ (defer # 0 => task.executed) /\ wf' # "end" /\ wf # "end" /\ wf' \in WorkflowPlaces
  BY Zenon, <1>1, <1>2 DEF IInv, WinInv, Current, WorkflowPlaces
<1>5. wf \in CallPlaces /\ wf' \in CallPlaces
  BY Zenon, <1>1 DEF CallPlaces
<1>6. Current \in Calls
  BY Zenon, <1>2, <1>5, InHand
<1>7. RoundTypes' /\ LedgerTypes' /\ probing' \in BOOLEAN
  <2>1. local' \in BOOLEAN
    BY Zenon, <1>1
  <2> QED BY Zenon, <1>1, <2>1 DEF IInv, Types, RoundTypes, LedgerTypes, FlowTypes
<1>8. RoundInv' /\ AwaitInv'
  BY Zenon, <1>1, <1>2, <1>5, HandKeeps DEF AwaitInv
<1>9. \A d \in Calls : ran'[d] > 0 => ledger'[d] = "result"
  BY Zenon, <1>1, <1>3
<1>10. task.finish => task.executed
  BY Zenon DEF IInv, EndInv
<1>11. CASE task.executed
  <2>1. Emits("tool_finished", Current) /\ "tool_finished" \in Whats \ Terminals /\ Current \in Calls \cup {None}
    BY Zenon, <1>1, <1>2, <1>6, <1>11 DEF Emits, Whats, Terminals
  <2>2. CallInv'
    BY Zenon, <1>1, <1>3, <1>4, <1>9, <1>11 DEF CallInv
  <2>3. TellInv' /\ Announced("tool_finished", Current)'
    BY Zenon, <1>1, <1>2, <1>4, <1>11 DEF TellInv, Announced, Speaking, Told
  <2>4. ReportInv' /\ stagedEnds' \in BOOLEAN
    BY Zenon, <1>1, <1>2, <1>11, ReportKeeps
  <2> QED BY Zenon, <1>1, <1>4, <1>7, <1>8, <1>10, <1>11, <2>1, <2>2, <2>3, <2>4, EmitStep
<1>12. CASE ~task.executed
  <2>1. Quiet /\ stagedEnds' = stagedEnds /\ emitting' = FALSE
    BY Zenon, <1>1, <1>2, <1>12 DEF Quiet
  <2>2. CallInv' /\ TellInv'
    BY Zenon, <1>1, <1>3, <1>4, <1>9, <1>12, <2>1 DEF CallInv, TellInv
  <2> QED BY Zenon, <1>1, <1>4, <1>7, <1>8, <1>10, <1>12, <2>1, <2>2, QuietStep
<1> QED BY Zenon, <1>11, <1>12

\* The deferral ends when the execution in hand is stored and reported.
LEMMA HandSettled ==
    ASSUME IInv, Working, wf = "finished", ~emitting
    PROVE  Settled
<1>1. ledger[Current] = "result" /\ (task.executed => <<"tool_finished", Current>> \in Said)
  BY Zenon DEF IInv, CallInv, TellInv, Told
<1> QED BY Zenon, <1>1 DEF IInv, WinInv, Settled, Settles

\* The deferral ends after the report; the next call or round follows.
LEMMA CallFinishedStep == ASSUME IInv, Polled, CallFinished PROVE IInv'
<1>1. /\ wf = "finished" /\ ~emitting /\ awaiting = None /\ ~task.finish /\ defer' = 0 /\ task' = NoTask
      /\ \/ idx < Len(calls) /\ idx' = idx + 1 /\ wf' = "call" /\ total' = total
         \/ ~(idx < Len(calls)) /\ idx' = 0 /\ wf' = "round" /\ total' = total + Len(calls)
      /\ UNCHANGED <<staged, stagedEnds, acked, established, emitting, probing, exit, awaiting, res>>
      /\ UNCHANGED <<rounds, items, calls, seen, local, ledger, final, ran, granted, submitted>>
  BY Zenon DEF CallFinished, Idle, At, gateVars, durableVars, historyVars
<1>2. Working /\ Quiet /\ Runs /\ Said' = Said /\ state' = "running" /\ delivery' = None
  BY Zenon, <1>1, Quietly, PolledRuns, RunsKeeps DEF Quiet
<1>3. exit' = None /\ staged' = None /\ emitting' = FALSE /\ acked' = FALSE /\ established' = established
  BY Zenon, <1>2 DEF Quiet
<1>4. awaiting' = None /\ res' = None /\ Settled /\ Working'
  BY Zenon, <1>1, <1>2, <1>3, HandSettled DEF IInv, Types, FlowTypes, Working
<1>5. wf' \in {"call", "round"} /\ wf \in CallPlaces
  BY Zenon, <1>1 DEF CallPlaces
<1>6. /\ total + Len(calls) <= MaxCalls /\ idx >= 1 /\ idx <= Len(calls)
      /\ \A i, j \in 1..Len(calls) : calls[i] = calls[j] => i = j
      /\ \A i \in 1..Len(calls) : calls[i] \in seen /\ (i > idx => Recorded(calls[i]))
      /\ \A c \in Calls : c \notin seen => Untouched(c)
  BY Zenon, <1>1, <1>2, <1>5 DEF IInv, RoundInv
<1>7. /\ idx' \in 0..(MaxPerRound + 1) /\ total' \in 0..MaxCalls
      /\ wf' = "call" => /\ idx' \in 1..Len(calls) /\ idx' > idx /\ idx' >= 1 /\ idx' <= Len(calls) /\ total' = total
                         /\ \A i \in 1..Len(calls) : i > idx' => i > idx
  <2>1. idx \in Int /\ total \in Nat /\ Len(calls) \in Nat /\ Len(calls) <= MaxPerRound
    BY LimitsAssumption DEF IInv, Types, RoundTypes
  <2> QED BY <1>1, <1>6, <2>1, LimitsAssumption
<1>8. FlowTypes'
  BY ZenonT(30), <1>1, <1>3, <1>4, <1>5 DEF IInv, Types, FlowTypes, WorkflowPlaces
<1>9. RoundTypes' /\ LedgerTypes'
  BY Zenon, <1>1, <1>7, FreshTask DEF IInv, Types, RoundTypes, LedgerTypes
<1>10. GateInv' /\ FlightInv' /\ AwaitInv' /\ TellInv'
  BY Zenon, <1>2, <1>4, <1>5, QuietKeeps DEF AwaitInv, TellInv
<1>11. /\ \A c \in Calls : c \notin seen' => Untouched(c)'
       /\ wf' = "call" => \A i \in 1..Len(calls') : i > idx' => Recorded(calls[i])'
       /\ wf' = "call" => Recorded(Current)'
  BY Zenon, <1>1, <1>6, <1>7 DEF Untouched, Recorded, Current
<1>12. RoundInv'
  <2>1. wf' = "call" => total' + Len(calls') <= MaxCalls
    BY Zenon, <1>1, <1>6, <1>7
  <2> QED BY Zenon, <1>1, <1>5, <1>6, <1>7, <1>11, <2>1 DEF RoundInv, CallPlaces
<1>13. CallInv'
  BY Zenon, <1>1, <1>2, <1>5, <1>11, RanHaveResults DEF CallInv
<1>14. WinInv'
  <2>1. Settled'
    BY Zenon, <1>1, <1>2, <1>4 DEF Settled, Settles
  <2> QED BY Zenon, <1>1, <1>2, <1>3, <2>1 DEF WinInv
<1>15. EndInv'
  <2>1. wf # "end" /\ wf' # "end" /\ ~task'.finish
    BY Zenon, <1>1, FreshTask
  <2> QED BY Zenon, <1>2, <1>3, <2>1, EndKeeps
<1>16. ReportInv'
  BY Zenon, <1>1, <1>2, ReportKeeps
<1> QED BY Zenon, <1>2, <1>8, <1>9, <1>10, <1>12, <1>13, <1>14, <1>15, <1>16, WorkStep

-----------------------------------------------------------------------------
(* The final message, and the steps that only resume or wait.              *)

\* The final message is being saved.
LEMMA FinalSaveStep == ASSUME IInv, Polled, FinalSave PROVE IInv'
<1>1. /\ wf = "final" /\ ~emitting /\ wf' = "final" /\ awaiting' = "final" /\ res' = None /\ probing' = TRUE
      /\ UNCHANGED <<staged, stagedEnds, acked, established, emitting, exit, defer>>
      /\ UNCHANGED <<rounds, items, calls, idx, total, seen, local, task, ledger, final, ran, granted, submitted>>
  BY Zenon DEF FinalSave, Idle, At, Await, gateVars, roundVars, durableVars, historyVars
<1>2. Working /\ Quiet
  BY Zenon, <1>1, Quietly DEF Quiet
<1>3. defer = 0 /\ res' # <<"ok">>
  BY Zenon, <1>1, <1>2, NothingDeferred, OkIsNotNone
<1>4. RoundTypes'
  BY Zenon, <1>1 DEF IInv, Types, RoundTypes
<1>5. AwaitInv' /\ TellInv' /\ CallInv'
  BY Zenon, <1>1, <1>2, <1>3, RanHaveResults DEF AwaitInv, TellInv, CallInv
<1>6. RoundInv'
  BY Zenon, <1>1, <1>2, RoundKeeps DEF RoundKept, CallPlaces
<1>7. task.finish => task.executed
  BY Zenon DEF IInv, EndInv
<1> QED BY Zenon, <1>1, <1>2, <1>3, <1>4, <1>5, <1>6, <1>7, QuietStep DEF WorkflowPlaces, Awaitables

\* A final save that succeeded decides the turn (await_final_save).
LEMMA FinalSavedStep == ASSUME IInv, Polled, FinalSaved PROVE IInv'
<1>1. /\ wf = "final" /\ ~emitting /\ awaiting # None /\ res = <<"ok">>
      /\ wf' = "end" /\ awaiting' = None /\ res' = None /\ established' = TRUE
      /\ staged' = Event("model", None) /\ stagedEnds' = TRUE /\ emitting' = TRUE
      /\ UNCHANGED <<acked, probing, exit, defer>>
      /\ UNCHANGED <<rounds, items, calls, idx, total, seen, local, task, ledger, final, ran, granted, submitted>>
  BY Zenon DEF FinalSaved, Ready, At, Emit, Resumed, roundVars, durableVars, historyVars
<1>2. Working /\ exit = None /\ acked = FALSE /\ Runs /\ Said' = Said
  BY Zenon, <1>1, Quietly, PolledRuns, RunsKeeps
<1>3. Emits("model", None) /\ "model" \in Whats \ Terminals /\ (staged' # None => place' = "after")
  BY Zenon, <1>1, <1>2 DEF Emits, Whats, Terminals, Polled
<1>4. final
  BY Zenon, <1>1, <1>2 DEF IInv, AwaitInv
<1>5. state' = "running" /\ delivery' = None /\ ~synthesized' /\ exit' = None /\ acked' = FALSE
  BY Zenon, <1>1, <1>2, RunsKeeps
<1>6. defer = 0
  BY Zenon, <1>1, <1>2, NothingDeferred
<1>7. Announced("model", None)'
  BY Zenon, <1>1 DEF Announced, Speaking
<1>8. GateInv' /\ FlightInv' /\ staged' \in Events
  BY Zenon, <1>2, <1>3, <1>7, EmitsKeeps
<1>9. FlowTypes'
  BY ZenonT(30), <1>1, <1>2, <1>5, <1>8 DEF IInv, Types, FlowTypes, WorkflowPlaces
<1>10. RoundTypes' /\ LedgerTypes'
  BY Zenon, <1>1 DEF IInv, Types, RoundTypes, LedgerTypes
<1>11. AwaitInv' /\ TellInv' /\ CallInv'
  BY Zenon, <1>1, <1>2, RanHaveResults DEF AwaitInv, TellInv, CallInv
<1>12. RoundInv'
  BY Zenon, <1>1, <1>2, RoundKeeps DEF RoundKept, CallPlaces
<1>13. WinInv'
  BY Zenon, <1>1, <1>2, <1>5, <1>6, WinKeeps
<1>14. EndInv'
  <2>1. exit' # "completed" /\ (task'.finish => task'.executed) /\ final'
    BY Zenon, <1>1, <1>4, <1>5, NoneAssumption DEF Terminals, IInv, EndInv
  <2> QED BY Zenon, <1>1, <1>5, <2>1 DEF EndInv
<1>15. ReportInv'
  BY Zenon, <1>1, <1>2, ReportKeeps
<1> QED BY Zenon, <1>2, <1>8, <1>9, <1>10, <1>11, <1>12, <1>13, <1>14, <1>15, WorkStep

\* The workflow resumes where it is, or waits there: nothing but its look at the
\* token and the acknowledgement changes.
Resumes ==
    /\ probing' \in BOOLEAN /\ emitting' = FALSE /\ acked' = FALSE
    /\ UNCHANGED <<staged, stagedEnds, established, exit, defer, wf, awaiting, res>>
    /\ UNCHANGED <<rounds, items, calls, idx, total, seen, local, task, ledger, final, ran, granted, submitted>>

\* Such a step changes nothing that the invariant speaks of.
LEMMA ResumesStep ==
    ASSUME IInv, Runs, Resumes
    PROVE  IInv'
<1>1. Working /\ staged = None /\ exit = None /\ Told /\ lease
  BY Zenon, AtWork DEF Runs, Told
<1>2. Said' = Said /\ state' = "running" /\ delivery' = None /\ ~synthesized' /\ lease' /\ Current' = Current
  BY Zenon, RunsKeeps DEF Resumes, Current
<1>3. Quiet
  BY Zenon, <1>1 DEF Quiet, Resumes
<1>4. exit' = None
  BY Zenon, <1>3 DEF Quiet
<1>5. FlowTypes'
  BY ZenonT(30) DEF Resumes, IInv, Types, FlowTypes
<1>6. RoundTypes' /\ LedgerTypes'
  BY Zenon DEF Resumes, IInv, Types, RoundTypes, LedgerTypes
<1>7. GateInv' /\ FlightInv' /\ Working' /\ Told'
  BY Zenon, <1>3, QuietKeeps
<1>8. AwaitInv'
  BY Zenon, <1>1 DEF Resumes, IInv, AwaitInv
<1>9. TellInv'
  BY Zenon, <1>1, <1>2 DEF Resumes, IInv, TellInv
<1>10. RoundInv'
  <2>1. \A c : (Untouched(c)' <=> Untouched(c)) /\ (Recorded(c)' <=> Recorded(c))
    BY Zenon DEF Resumes, Untouched, Recorded
  <2>2. UNCHANGED <<wf, res, calls, idx, total, seen, ledger, ran, granted>>
    BY Zenon DEF Resumes
  <2> QED BY Zenon, <1>1, <2>1, <2>2 DEF IInv, RoundInv
<1>11. CallInv'
  BY Zenon, <1>1, <1>2 DEF Resumes, IInv, CallInv, Recorded
<1>12. WinInv'
  <2>1. defer # 0 => /\ wf' \in {"execute", "validate", "store", "finished"} /\ task'.executed
                     /\ wf' = "execute" => awaiting' # None /\ task'.mode = "completes"
    BY Zenon, <1>1 DEF Resumes, IInv, WinInv
  <2> QED BY Zenon, <1>2, <1>4, <2>1, WinKeeps DEF Resumes
<1>13. EndInv'
  <2>1. exit' # "completed"
    BY Zenon, <1>4, NoneAssumption DEF Terminals
  <2> QED BY Zenon, <1>1, <1>2, <1>4, <2>1 DEF Resumes, IInv, EndInv
<1>14. ReportInv'
  BY Zenon, ReportKeeps DEF Resumes
<1> QED BY Zenon, <1>5, <1>6, <1>7, <1>8, <1>9, <1>10, <1>11, <1>12, <1>13, <1>14, WorkStep

\* The steps of this kind.
LEMMA WaitingSteps ==
    ASSUME IInv, Runs, Acknowledged \/ FinalProbe \/ WorkflowPends
    PROVE  IInv'
<1>1. (emitting => acked) /\ (~emitting => ~acked) /\ emitting \in BOOLEAN /\ acked \in BOOLEAN /\ probing \in BOOLEAN
  BY Zenon, AtWork DEF Runs, IInv, Types, FlowTypes
<1>2. CASE Acknowledged
  BY Zenon, <1>1, <1>2, ResumesStep DEF Acknowledged, Resumes, roundVars, durableVars, historyVars
<1>3. CASE FinalProbe
  <2>1. emitting = FALSE /\ acked = FALSE
    BY Zenon, <1>1, <1>3 DEF FinalProbe, At
  <2> QED BY Zenon, <1>3, <2>1, ResumesStep DEF FinalProbe, Resumes, gateVars, roundVars, durableVars, historyVars
<1>4. CASE WorkflowPends
  <2>1. emitting = FALSE /\ acked = FALSE
    BY Zenon, <1>1, <1>4 DEF WorkflowPends
  <2> QED BY Zenon, <1>4, <2>1, ResumesStep DEF WorkflowPends, Resumes, gateVars, roundVars, durableVars, historyVars
<1> QED BY Zenon, <1>2, <1>3, <1>4

\* The workflow, whatever it does.
LEMMA RunWorkflowStep == ASSUME IInv, RunWorkflow PROVE IInv'
<1>1. cancelled' = cancelled /\ place = "workflow"
  BY Zenon DEF RunWorkflow, WorkflowStep, WorkflowPends, Start, Acknowledged, Aborts, RoundBegins, RoundFails,
     ProviderStarts, NextItem, AnswerFails, TextItem, CallItem, ItemFails, StopItem, ToolStopItem, PersistArguments,
     ArgumentsPersisted, CommitRound, RoundCommitted, PrepareErrs, PrepareInvalid, PrepareFree, PrepareAsks, Authorize,
     Authorized, Refused, Decided, AdmissionRevoked, Execute, Executed, OutputRejected, RegistrationClashes,
     OutputValid, StoreResult, ResultLost, ResultStored, CallFinished, TurnFinished, FinalSave, FinalProbe, FinalSaved,
     FinalFails, FinalInterrupted, Completed, Fails, FailsForGood
<1>2. CASE WorkflowPends /\ place' = "after"
  <2>1. Runs
    BY Zenon, <1>1, <1>2 DEF RunWorkflow, Runs
  <2> QED BY Zenon, <1>2, <2>1, WaitingSteps
<1>3. CASE WorkflowStep /\ place' = IF staged' # None \/ exit' # None THEN "after" ELSE "workflow"
  <2>1. Polled /\ Runs
    BY Zenon, <1>1, <1>3, PolledRuns DEF RunWorkflow, Polled
  <2> QED BY Zenon, <1>3, <2>1, PlainEventStep, WaitingSteps, AbortsStep, RoundBeginsStep, FailingSteps,
     ProviderStartsStep, NextItemStep, CallItemStep, StopItemStep, ToolStopItemStep, PersistArgumentsStep,
     ArgumentsPersistedStep, CommitRoundStep, RoundCommittedStep, PrepareErrsStep, PrepareStep, AuthorizeStep,
     DecisionStep, DecidedStep, ExecuteStep, ExecutedStep, OutputValidStep, StoreResultStep, ResultStoredStep,
     CallFinishedStep, TurnFinishedStep, FinalSaveStep, FinalSavedStep, FinalEnds, CompletedStep DEF WorkflowStep
<1> QED BY Zenon, <1>1, <1>2, <1>3 DEF RunWorkflow

-----------------------------------------------------------------------------
(* A future answers.                                                       *)

\* What the answer leaves behind, by the future it answers.
LEMMA EffectOf ==
    ASSUME IInv, Working, awaiting # None, res = None, NEW durable \in BOOLEAN, Effect(awaiting, durable)
    PROVE  /\ ledger' \in [Calls -> {"absent", "unknown", "result"}] /\ final' \in BOOLEAN /\ (final => final')
           /\ awaiting = "final" /\ durable => final'
           /\ awaiting \notin {"commit", "replace"} \/ ~durable => ledger' = ledger
           /\ awaiting = "commit" /\ durable => \A c \in Calls :
                 /\ (\E i \in 1..Len(calls) : calls[i] = c) => ledger'[c] = "unknown"
                 /\ (\A i \in 1..Len(calls) : calls[i] # c) => ledger'[c] = ledger[c]
           /\ awaiting = "replace" /\ durable =>
                 ledger'[Current] = "result" /\ \A c \in Calls : c # Current => ledger'[c] = ledger[c]
<1>1. ledger \in [Calls -> {"absent", "unknown", "result"}] /\ final \in BOOLEAN
  BY Zenon DEF IInv, Types, LedgerTypes
<1>2. CASE awaiting = "commit" /\ durable
  <2>1. /\ ledger' = [c \in Calls |-> IF \E i \in 1..Len(calls) : calls[i] = c THEN "unknown" ELSE ledger[c]]
        /\ final' = final
    BY <1>2 DEF Effect
  <2>2. awaiting # "final" /\ awaiting # "replace"
    BY Zenon, <1>2
  <2> QED BY Zenon, <1>1, <1>2, <2>1, <2>2
<1>3. CASE awaiting = "replace" /\ durable
  <2>1. ledger' = [ledger EXCEPT ![Current] = "result"] /\ final' = final
    BY <1>3 DEF Effect
  <2>2. wf = "store"
    BY Zenon, <1>3 DEF IInv, AwaitInv
  <2>3. Current \in Calls
    BY Zenon, <2>2, InHand DEF CallPlaces
  <2>4. awaiting # "final" /\ awaiting # "commit"
    BY Zenon, <1>3
  <2> QED BY Zenon, <1>1, <1>3, <2>1, <2>3, <2>4
<1>4. CASE awaiting = "final" /\ durable
  <2>1. final' = TRUE /\ ledger' = ledger
    BY <1>4 DEF Effect
  <2>2. awaiting \notin {"commit", "replace"}
    BY Zenon, <1>4
  <2> QED BY Zenon, <1>1, <2>1, <2>2
<1>5. CASE awaiting \notin {"commit", "replace", "final"} \/ ~durable
  <2>1. UNCHANGED <<ledger, final>>
    BY <1>5 DEF Effect, durableVars
  <2> QED BY Zenon, <1>1, <1>5, <2>1
<1> QED BY Zenon, <1>2, <1>3, <1>4, <1>5

\* What a future that is awaited says of the place.
LEMMA Awaiting ==
    ASSUME IInv, awaiting # None
    PROVE  /\ Working /\ state = "running" /\ ~emitting /\ staged = None /\ delivery = None /\ lease /\ wf # "end"
           /\ awaiting = "commit" => wf = "commit"
           /\ awaiting = "replace" => wf = "store"
           /\ awaiting = "final" => wf = "final"
           /\ wf = "commit" => awaiting = "commit"
           /\ wf = "store" => awaiting = "replace"
           /\ wf = "final" => awaiting = "final"
<1>1. state = "running"
  BY Zenon DEF IInv, StreamInv
<1>2. ~emitting /\ exit = None
  BY Zenon, <1>1 DEF IInv, GateInv
<1>3. staged = None /\ delivery = None
  BY Zenon, <1>1, <1>2 DEF IInv, GateInv
<1>4. lease /\ Working
  BY Zenon, <1>1, <1>2 DEF IInv, StreamInv, Working
<1> QED BY Zenon, <1>1, <1>2, <1>3, <1>4 DEF IInv, AwaitInv

\* An answer brings its effect with it, read or not.
LEMMA AnswerWakesStep == ASSUME IInv, AnswerWakes PROVE IInv'
<1>1. PICK answer \in Answers(awaiting), durable \in BOOLEAN :
         /\ answer = <<"ok">> => durable
         /\ res' = answer
         /\ Effect(awaiting, durable)
  BY Zenon DEF AnswerWakes, Answer
<1>2. /\ awaiting # None /\ res = None /\ woken' = TRUE
      /\ UNCHANGED <<cancelled, staged, stagedEnds, acked, established, wf, emitting, awaiting, probing, exit, defer>>
      /\ UNCHANGED <<rounds, items, calls, idx, total, seen, local, task, ran, granted, submitted>>
      /\ UNCHANGED <<place, state, closing, delivery, sequence, terminal, synthesized, lease, armed, out, erred>>
  BY Zenon DEF AnswerWakes, Answer, gateVars, roundVars, historyVars
<1>3. /\ Working /\ state = "running" /\ ~emitting /\ staged = None /\ delivery = None /\ lease /\ wf # "end"
      /\ awaiting = "commit" => wf = "commit"
      /\ awaiting = "replace" => wf = "store"
      /\ wf = "commit" => awaiting = "commit"
      /\ wf = "store" => awaiting = "replace"
      /\ wf = "final" => awaiting = "final"
  BY Zenon, <1>2, Awaiting
<1>4. /\ ledger' \in [Calls -> {"absent", "unknown", "result"}] /\ final' \in BOOLEAN /\ (final => final')
      /\ awaiting = "final" /\ durable => final'
      /\ awaiting \notin {"commit", "replace"} \/ ~durable => ledger' = ledger
      /\ awaiting = "commit" /\ durable => \A c \in Calls :
            /\ (\E i \in 1..Len(calls) : calls[i] = c) => ledger'[c] = "unknown"
            /\ (\A i \in 1..Len(calls) : calls[i] # c) => ledger'[c] = ledger[c]
      /\ awaiting = "replace" /\ durable =>
            ledger'[Current] = "result" /\ \A c \in Calls : c # Current => ledger'[c] = ledger[c]
  BY Zenon, <1>1, <1>2, <1>3, EffectOf
<1>5. /\ Said' = Said /\ Current' = Current /\ (Working' <=> Working) /\ (Told' <=> Told)
      /\ <<"cancelled", None>> \notin Said /\ <<"completed", None>> \notin Said
  BY Zenon, <1>2, <1>3, NoEndSaid DEF Said, Current, Working, Told, IInv, Types, StreamTypes
<1>6. awaiting \in Awaitables /\ answer # None
  BY Zenon, <1>1, <1>2, NoneAssumption DEF IInv, Types, FlowTypes
<1>7. FlowTypes'
  BY ZenonT(30), <1>1, <1>2 DEF IInv, Types, FlowTypes
<1>8. RoundTypes' /\ LedgerTypes' /\ StreamTypes'
  BY ZenonT(30), <1>2, <1>4 DEF IInv, Types, RoundTypes, LedgerTypes, StreamTypes
<1>9. StreamInv' /\ GateInv'
  BY Zenon, <1>2 DEF IInv, StreamInv, GateInv
<1>10. Numbered' /\ OrderedEvents'
  BY Zenon, <1>2 DEF IInv, Numbered, OrderedEvents
<1>11. AwaitInv'
  BY Zenon, <1>1, <1>2, <1>3, <1>4, <1>5 DEF IInv, AwaitInv
<1>12. FlightInv' /\ TellInv'
  <2>1. FlightInv'
    BY Zenon, <1>2, <1>3 DEF FlightInv
  <2> QED BY Zenon, <1>2, <1>3, <1>5, <2>1 DEF IInv, TellInv
<1>13. \A c \in Calls : wf = "commit" /\ (\E i \in 1..Len(calls) : calls[i] = c) =>
          ledger[c] = "absent" /\ ran[c] = 0 /\ granted[c] = "none" /\ c \in seen
  BY Zenon, <1>2, <1>3 DEF IInv, RoundInv
<1>14. \A c \in Calls : ledger[c] = "result" => ledger'[c] = "result"
  <2> SUFFICES ASSUME NEW c \in Calls, ledger[c] = "result" PROVE ledger'[c] = "result"
    BY Zenon
  <2>1. CASE awaiting = "commit" /\ durable
    BY Zenon, <1>3, <1>4, <1>13, <2>1
  <2>2. CASE awaiting = "replace" /\ durable
    BY Zenon, <1>4, <2>2
  <2>3. CASE awaiting \notin {"commit", "replace"} \/ ~durable
    BY Zenon, <1>4, <2>3
  <2> QED BY Zenon, <2>1, <2>2, <2>3
<1>15. RoundInv'
  <2>1. CASE awaiting = "commit"
    <3>1. wf = "commit" /\ wf' = "commit" /\ wf' \notin CallPlaces
      BY Zenon, <1>2, <1>3, <2>1 DEF CallPlaces
    <3>2. /\ total + Len(calls) <= MaxCalls /\ calls # <<>>
          /\ \A i, j \in 1..Len(calls) : calls[i] = calls[j] => i = j
          /\ \A i \in 1..Len(calls) : /\ calls[i] \in seen /\ ran[calls[i]] = 0 /\ granted[calls[i]] = "none"
                                      /\ ledger[calls[i]] = "absent"
          /\ \A c \in Calls : c \notin seen => Untouched(c)
      BY Zenon, <1>2, <1>3, <3>1 DEF IInv, RoundInv
    <3>3. \A c \in Calls : c \notin seen' => Untouched(c)'
      <4> SUFFICES ASSUME NEW c \in Calls, c \notin seen PROVE ledger'[c] = ledger[c]
        BY Zenon, <1>2, <3>2 DEF Untouched
      <4>1. \A i \in 1..Len(calls) : calls[i] # c
        BY Zenon, <3>2
      <4> QED BY Zenon, <1>4, <2>1, <4>1
    <3>4. \A i \in 1..Len(calls) : calls[i] \in Calls
      BY DEF IInv, Types, RoundTypes
    <3>5. \A i \in 1..Len(calls') :
             /\ ran'[calls'[i]] = 0 /\ granted'[calls'[i]] = "none" /\ res' # None
             /\ res' = <<"ok">> => ledger'[calls'[i]] = "unknown"
      BY Zenon, <1>1, <1>2, <1>4, <1>6, <2>1, <3>2, <3>4
    <3> QED BY Zenon, <1>2, <3>1, <3>2, <3>3, <3>5 DEF RoundInv
  <2>2. CASE awaiting = "replace"
    <3>1. wf \in CallPlaces /\ wf' \in CallPlaces
      BY Zenon, <1>2, <1>3, <2>2 DEF CallPlaces
    <3>2. \A c \in Calls : c # Current => ledger'[c] = ledger[c]
      BY Zenon, <1>4, <2>2
    <3> QED BY Zenon, <1>2, <1>3, <3>1, <3>2, HandKeeps
  <2>3. CASE awaiting \notin {"commit", "replace"}
    <3>1. wf # "commit" /\ ledger' = ledger
      BY Zenon, <1>3, <1>4, <2>3
    <3>2. \A c : (Untouched(c)' <=> Untouched(c)) /\ (Recorded(c)' <=> Recorded(c))
      BY Zenon, <1>2, <3>1 DEF Untouched, Recorded
    <3> QED BY Zenon, <1>2, <1>3, <3>1, <3>2 DEF IInv, RoundInv
  <2> QED BY Zenon, <2>1, <2>2, <2>3
<1>16. CallInv'
  <2>1. \A d \in Calls : ran'[d] > 0 => ledger'[d] = "result" \/ (d = Current' /\ wf' \in {"execute", "validate", "store"})
    BY Zenon, <1>2, <1>3, <1>5, <1>14 DEF IInv, CallInv
  <2>2. CASE awaiting = "commit"
    BY Zenon, <1>2, <1>3, <2>1, <2>2 DEF CallInv
  <2>3. CASE awaiting = "replace"
    <3>1. IF task.executed THEN ran[Current] = 1 ELSE ran[Current] = 0 /\ granted[Current] \in {"none", "denied"}
      BY Zenon, <1>3, <2>3 DEF IInv, CallInv
    <3>2. res' # None /\ (res' = <<"ok">> => ledger'[Current'] = "result")
      BY Zenon, <1>1, <1>4, <1>5, <1>6, <2>3
    <3> QED BY Zenon, <1>2, <1>3, <1>5, <2>1, <2>3, <3>1, <3>2 DEF CallInv
  <2>4. CASE awaiting \notin {"commit", "replace"}
    <3>1. wf \notin {"commit", "store"} /\ ledger' = ledger
      BY Zenon, <1>3, <1>4, <2>4
    <3> QED BY Zenon, <1>2, <1>3, <1>5, <2>1, <3>1 DEF IInv, CallInv, Recorded
  <2> QED BY Zenon, <2>2, <2>3, <2>4
<1>17. \A c \in Calls : Settles(c) => Settles(c)'
  BY Zenon, <1>5, <1>14 DEF Settles
<1>18. WinInv'
  <2>1. submitted \subseteq Calls
    BY Zenon DEF IInv, Types, LedgerTypes
  <2>2. Working /\ defer = 0 => Settled'
    BY Zenon, <1>2, <1>17, <2>1 DEF IInv, WinInv, Settled
  <2>3. Working /\ defer # 0 => \A c \in submitted : c = Current \/ Settles(c)'
    BY Zenon, <1>17, <2>1 DEF IInv, WinInv
  <2> QED BY Zenon, <1>2, <1>3, <1>5, <2>2, <2>3 DEF IInv, WinInv, Working
<1>19. EndInv'
  <2>1. exit # "completed"
    BY Zenon, <1>3, NoneAssumption DEF Working, Terminals
  <2> QED BY Zenon, <1>2, <1>3, <1>5, <2>1 DEF IInv, EndInv
<1>20. ReportInv'
  BY Zenon, <1>2, <1>5, <1>14 DEF IInv, ReportInv
<1>21. CompletionWins' /\ CompletionIsDurable'
  BY Zenon, <1>2, <1>3, <1>5, SaidIsYieldedNext DEF CompletionWins, CompletionIsDurable
<1> QED BY Zenon, <1>7, <1>8, <1>9, <1>10, <1>11, <1>12, <1>15, <1>16, <1>18, <1>19, <1>20, <1>21 DEF IInv, Types

-----------------------------------------------------------------------------
(* The stream.                                                             *)

\* The calls, the durable state and the history of the turn stay as they are.
DataKept == UNCHANGED <<wf, exit, rounds, items, calls, idx, total, seen, local, task, ledger, final, ran, granted,
                        submitted>>

\* Where the data of the workflow are kept, so are their types.
LEMMA DataTypes == ASSUME IInv, DataKept PROVE RoundTypes' /\ LedgerTypes' /\ Current' = Current
<1>1. RoundTypes'
  BY Zenon DEF DataKept, IInv, Types, RoundTypes
<1>2. LedgerTypes'
  BY Zenon DEF DataKept, IInv, Types, LedgerTypes
<1> QED BY Zenon, <1>1, <1>2 DEF DataKept, Current

\* What is known of the calls, while the workflow is where it was.
LEMMA DataInvs ==
    ASSUME IInv, DataKept, UNCHANGED <<state, awaiting, res, emitting>>
    PROVE  AwaitInv' /\ RoundInv' /\ CallInv'
<1>1. UNCHANGED <<wf, exit, calls, idx, total, seen, task, ledger, final, ran, granted, submitted>> /\ Current' = Current
  BY Zenon, DataTypes DEF DataKept
<1>2. Working' <=> Working
  BY Zenon, <1>1 DEF Working
<1>3. \A c : (Untouched(c)' <=> Untouched(c)) /\ (Recorded(c)' <=> Recorded(c))
  BY Zenon, <1>1 DEF Untouched, Recorded
<1>4. AwaitInv'
  BY Zenon, <1>1, <1>2 DEF IInv, AwaitInv
<1>5. RoundInv'
  BY Zenon, <1>1, <1>2, <1>3 DEF IInv, RoundInv
<1>6. CallInv'
  BY Zenon, <1>1, <1>2, <1>3 DEF IInv, CallInv
<1> QED BY Zenon, <1>4, <1>5, <1>6

\* The stream goes about its event, and the workflow and what was said stay as they are.
Attends ==
    /\ DataKept /\ UNCHANGED <<staged, stagedEnds, acked, established, emitting, awaiting, res, probing, defer>>
    /\ UNCHANGED <<state, closing, sequence, synthesized, lease, out, erred>>
    /\ \/ delivery' = delivery
       \/ /\ delivery # None /\ delivery' # None
          /\ delivery'.what = delivery.what /\ delivery'.call = delivery.call /\ delivery'.seq = delivery.seq
    /\ terminal => terminal'

\* Such a step keeps the invariant if the stream and the gate stay in order.
LEMMA AttendsStep ==
    ASSUME IInv, Attends, StreamTypes', StreamInv', GateInv'
    PROVE  IInv'
<1>1. /\ UNCHANGED <<staged, stagedEnds, acked, established, emitting, awaiting, res, probing, defer>>
      /\ UNCHANGED <<state, closing, sequence, synthesized, lease, out, erred>> /\ (terminal => terminal') /\ DataKept
  BY Zenon DEF Attends
<1>2. UNCHANGED <<wf, exit, task, ledger, final, ran, granted, submitted>> /\ Current' = Current /\ Said' = Said
  BY Zenon, <1>1, DataTypes DEF DataKept, Said
<1>3. /\ delivery' # None <=> delivery # None
      /\ delivery' # None => /\ delivery'.what = delivery.what /\ delivery'.call = delivery.call
                             /\ delivery'.seq = delivery.seq
  BY Zenon DEF Attends
<1>4. FlowTypes' /\ RoundTypes' /\ LedgerTypes'
  <2>1. FlowTypes'
    BY ZenonT(30), <1>1, <1>2 DEF IInv, Types, FlowTypes
  <2> QED BY Zenon, <1>1, <2>1, DataTypes
<1>5. Numbered' /\ OrderedEvents'
  BY Zenon, <1>1, <1>3 DEF IInv, Numbered, OrderedEvents
<1>6. AwaitInv' /\ RoundInv' /\ CallInv'
  BY Zenon, <1>1, DataInvs
<1>7. (Working' <=> Working) /\ (Told' <=> Told)
  BY Zenon, <1>1, <1>2 DEF Working, Told
<1>8. FlightInv' /\ TellInv'
  <2>1. \A what, c : Announced(what, c)' <=> Announced(what, c)
    BY Zenon, <1>2 DEF Announced
  <2>2. FlightInv'
    BY Zenon, <1>1, <1>3, <1>7, <2>1 DEF IInv, FlightInv
  <2>3. TellInv'
    BY Zenon, <1>2, <1>7 DEF IInv, TellInv
  <2> QED BY Zenon, <2>2, <2>3
<1>9. /\ \A c : Settles(c)' <=> Settles(c)
      /\ Complete' <=> Complete
  BY Zenon, <1>2 DEF Settles, Complete
<1>10. WinInv'
  <2>1. Settled' <=> Settled
    BY Zenon, <1>2, <1>9 DEF Settled
  <2> QED BY Zenon, <1>1, <1>2, <1>3, <1>7, <1>9, <2>1 DEF IInv, WinInv
<1>11. EndInv'
  BY Zenon, <1>1, <1>2, <1>3, <1>7, <1>9 DEF IInv, EndInv
<1>12. ReportInv'
  BY Zenon, <1>2 DEF IInv, ReportInv
<1>13. CompletionWins' /\ CompletionIsDurable'
  <2>1. \A what, c : Yielded(what, c)' <=> Yielded(what, c)
    BY Zenon, <1>2, SaidIsYielded, SaidIsYieldedNext
  <2> QED BY Zenon, <1>1, <1>2, <2>1 DEF IInv, CompletionWins, CompletionIsDurable
<1> QED BY Zenon, <1>4, <1>5, <1>6, <1>8, <1>10, <1>11, <1>12, <1>13 DEF IInv, Types

\* The steps of this kind that leave the event alone.
LEMMA AttendingSteps ==
    ASSUME IInv, Poll \/ PollSink \/ SinkPends \/ PollWorkflow \/ AfterPending \/ Cancel
    PROVE  IInv'
<1>1. /\ UNCHANGED workflowVars /\ UNCHANGED <<state, closing, delivery, sequence, synthesized, lease, out, erred>>
      /\ place' \in Places /\ armed' \in BOOLEAN /\ woken' \in BOOLEAN /\ cancelled' \in BOOLEAN
      /\ terminal' \in BOOLEAN /\ (terminal => terminal')
  <2>1. /\ place \in Places /\ armed \in BOOLEAN /\ woken \in BOOLEAN /\ cancelled \in BOOLEAN /\ terminal \in BOOLEAN
        /\ established \in BOOLEAN
    BY Zenon DEF IInv, Types, StreamTypes, FlowTypes
  <2>2. CASE Poll
    BY Zenon, <2>1, <2>2 DEF Poll, Places
  <2>3. CASE PollSink
    BY Zenon, <2>1, <2>3 DEF PollSink, Places
  <2>4. CASE SinkPends
    BY Zenon, <2>1, <2>4 DEF SinkPends, Places
  <2>5. CASE PollWorkflow
    BY Zenon, <2>1, <2>5 DEF PollWorkflow, Places
  <2>6. CASE AfterPending
    BY Zenon, <2>1, <2>6 DEF AfterPending, Places
  <2>7. CASE Cancel
    BY Zenon, <2>1, <2>7 DEF Cancel
  <2> QED BY Zenon, <2>2, <2>3, <2>4, <2>5, <2>6, <2>7
<1>2. UNCHANGED <<staged, stagedEnds, acked, established, emitting, awaiting, res, probing, defer>> /\ DataKept
  BY Zenon, <1>1 DEF workflowVars, gateVars, flowVars, roundVars, durableVars, historyVars, DataKept
<1>3. Attends
  BY Zenon, <1>1, <1>2 DEF Attends
<1>4. StreamTypes'
  BY Zenon, <1>1 DEF IInv, Types, StreamTypes
<1>5. /\ place = "after" => place' = "after" \/ (staged = None /\ exit = None)
      /\ ~lease => place' = place
      /\ state = "emit" => place' = place \/ place' = "top"
      /\ place' \in {"workflow", "after"} => place' = place \/ (state = "running" /\ delivery = None)
      /\ place' = "sink" => delivery # None
  <2>1. /\ ~lease => place = "returned" /\ state = "done" /\ delivery = None
        /\ state = "emit" => place = "top" /\ delivery = None
        /\ place = "sink" => delivery # None
    BY Zenon DEF IInv, StreamInv
  <2>2. CASE Poll
    BY Zenon, <2>2 DEF Poll
  <2>3. CASE PollSink
    BY Zenon, <2>1, <2>3 DEF PollSink
  <2>4. CASE SinkPends
    BY Zenon, <2>1, <2>4 DEF SinkPends
  <2>5. CASE PollWorkflow
    BY Zenon, <2>1, <2>5 DEF PollWorkflow
  <2>6. CASE AfterPending
    BY Zenon, <2>1, <2>6 DEF AfterPending
  <2>7. CASE Cancel
    BY Zenon, <2>1, <2>7 DEF Cancel
  <2> QED BY Zenon, <2>2, <2>3, <2>4, <2>5, <2>6, <2>7
<1>6. StreamInv'
  BY Zenon, <1>1, <1>2, <1>5 DEF IInv, StreamInv
<1>7. GateInv'
  BY Zenon, <1>1, <1>2, <1>5 DEF IInv, GateInv, DataKept
<1> QED BY Zenon, <1>3, <1>4, <1>6, <1>7, AttendsStep

\* The answer of the sink changes the delivery only.
LEMMA SinkAnswersStep == ASSUME IInv, SinkAnswers PROVE IInv'
<1>1. PICK answer \in {"ok", "err"} : delivery' = [delivery EXCEPT !.sink = answer]
  BY Zenon DEF SinkAnswers
<1>2. /\ delivery # None /\ woken' = TRUE /\ UNCHANGED workflowVars
      /\ UNCHANGED <<cancelled, place, state, closing, sequence, terminal, synthesized, lease, armed, out, erred>>
  BY Zenon DEF SinkAnswers
<1>3. delivery \in Deliveries
  BY Zenon, <1>2 DEF IInv, Types, StreamTypes
<1>4. /\ delivery' \in Deliveries
      /\ delivery'.what = delivery.what /\ delivery'.call = delivery.call /\ delivery'.seq = delivery.seq
  BY <1>1, <1>3 DEF Deliveries
<1>5. delivery' # None
  BY Zenon, <1>4, NoneAssumption
<1>6. UNCHANGED <<staged, stagedEnds, acked, established, emitting, awaiting, res, probing, defer>> /\ DataKept
  BY Zenon, <1>2 DEF workflowVars, gateVars, flowVars, roundVars, durableVars, historyVars, DataKept
<1>7. Attends
  BY Zenon, <1>2, <1>4, <1>5, <1>6 DEF Attends
<1>8. StreamTypes'
  BY Zenon, <1>2, <1>4 DEF IInv, Types, StreamTypes
<1>9. StreamInv'
  BY Zenon, <1>2, <1>4, <1>5, <1>6 DEF IInv, StreamInv
<1>10. GateInv'
  BY Zenon, <1>2, <1>4, <1>5, <1>6 DEF IInv, GateInv, DataKept
<1> QED BY Zenon, <1>7, <1>8, <1>9, <1>10, AttendsStep

\* What is staged: an event with the next number.
LEMMA StageKeeps ==
    ASSUME NEW event \in Events, sequence \in Nat, Stage(event)
    PROVE  /\ delivery' \in Deliveries /\ delivery' # None /\ sequence' = sequence + 1 /\ sequence' \in Nat
           /\ delivery'.what = event.what /\ delivery'.call = event.call /\ delivery'.seq = sequence
<1>1. delivery' = [what |-> event.what, call |-> event.call, seq |-> sequence, sink |-> "pending"]
  BY Zenon DEF Stage
<1>2. event.what \in Whats /\ event.call \in Calls \cup {None}
  BY DEF Events
<1>3. /\ delivery' \in Deliveries
      /\ delivery'.what = event.what /\ delivery'.call = event.call /\ delivery'.seq = sequence
  BY Zenon, <1>1, <1>2 DEF Deliveries
<1>4. sequence' = sequence + 1 /\ sequence' \in Nat
  BY DEF Stage
<1> QED BY Zenon, <1>3, <1>4, NoneAssumption

\* The staged event gets its number and goes to the sink.
LEMMA AfterStagedStep == ASSUME IInv, AfterStaged PROVE IInv'
<1>1. /\ place = "after" /\ staged # None /\ Stage(staged) /\ staged' = None /\ stagedEnds' = FALSE /\ place' = "top"
      /\ terminal' = (terminal \/ established \/ stagedEnds)
      /\ UNCHANGED <<acked, established, emitting, awaiting, res, probing, defer>> /\ DataKept
      /\ UNCHANGED <<cancelled, state, closing, synthesized, lease, armed, woken, out, erred>>
  BY Zenon DEF AfterStaged, flowVars, roundVars, durableVars, historyVars, DataKept
<1>2. UNCHANGED <<wf, exit, task, ledger, final, ran, granted, submitted>> /\ Current' = Current /\ Said' = Said
  BY Zenon, <1>1, DataTypes DEF DataKept, Said
<1>3. state = "running" /\ delivery = None /\ lease /\ staged \in Events /\ sequence \in Nat
  BY Zenon, <1>1 DEF IInv, StreamInv, Types, StreamTypes, FlowTypes
<1>4. /\ emitting /\ ~acked /\ staged.what \notin Terminals
  BY Zenon, <1>1, <1>3 DEF IInv, GateInv
<1>5. exit = None /\ awaiting = None
  BY Zenon, <1>3, <1>4 DEF IInv, GateInv
<1>6. /\ delivery' \in Deliveries /\ delivery' # None /\ sequence' = sequence + 1 /\ sequence' \in Nat
      /\ delivery'.what = staged.what /\ delivery'.call = staged.call /\ delivery'.seq = sequence
  BY Zenon, <1>1, <1>3, StageKeeps
<1>7. Working /\ Working' /\ ~Told' /\ state' = "running" /\ lease' /\ exit' = None
  BY Zenon, <1>1, <1>2, <1>3, <1>4, <1>5 DEF Working, Told
<1>8. FlowTypes'
  BY ZenonT(30), <1>1, <1>2 DEF IInv, Types, FlowTypes
<1>9. RoundTypes' /\ LedgerTypes' /\ StreamTypes'
  <2>1. StreamTypes'
    BY Zenon, <1>1, <1>6 DEF IInv, Types, StreamTypes, Places
  <2> QED BY Zenon, <1>1, <2>1, DataTypes
<1>10. StreamInv'
  BY Zenon, <1>1, <1>3, <1>6, <1>7 DEF IInv, StreamInv
<1>11. GateInv'
  BY Zenon, <1>1, <1>4, <1>5, <1>6, <1>7 DEF GateInv
<1>12. Numbered'
  <2>1. sequence = Len(out) /\ \A i \in 1..Len(out) : out[i].seq = i - 1 /\ out[i].what \notin Terminals
    BY Zenon, <1>3 DEF IInv, Numbered
  <2> QED BY Zenon, <1>1, <1>6, <2>1 DEF Numbered
<1>13. OrderedEvents'
  BY Zenon, <1>1, <1>6 DEF IInv, OrderedEvents
<1>14. AwaitInv' /\ RoundInv' /\ CallInv'
  BY Zenon, <1>1, DataInvs
<1>15. FlightInv' /\ TellInv'
  <2>1. \A what, c : Announced(what, c) => Announced(what, c)'
    BY Zenon, <1>2 DEF Announced
  <2>2. FlightInv'
    BY Zenon, <1>1, <1>6, <1>7, <2>1 DEF IInv, FlightInv
  <2>3. TellInv'
    BY Zenon, <1>2, <1>7 DEF IInv, TellInv
  <2> QED BY Zenon, <2>2, <2>3
<1>16. WinInv'
  <2>1. delivery'.what # "cancelled"
    BY Zenon, <1>4, <1>6 DEF Terminals
  <2>2. \A c : Settles(c)' <=> Settles(c)
    BY Zenon, <1>2 DEF Settles
  <2>3. Settled' <=> Settled
    BY Zenon, <1>2, <2>2 DEF Settled
  <2> QED BY Zenon, <1>1, <1>2, <1>7, <2>1, <2>2, <2>3 DEF IInv, WinInv
<1>17. EndInv'
  <2>1. delivery'.what # "cancelled" /\ delivery'.what # "completed" /\ exit' # "completed"
    BY Zenon, <1>4, <1>6, <1>7, NoneAssumption DEF Terminals
  <2>2. established => terminal'
    BY Zenon, <1>1
  <2> QED BY Zenon, <1>1, <1>2, <1>3, <1>7, <2>1, <2>2 DEF IInv, EndInv
<1>18. ReportInv'
  BY Zenon, <1>2 DEF IInv, ReportInv
<1>19. CompletionWins' /\ CompletionIsDurable'
  <2>1. \A what, c : Yielded(what, c)' <=> Yielded(what, c)
    BY Zenon, <1>2, SaidIsYielded, SaidIsYieldedNext
  <2> QED BY Zenon, <1>1, <1>2, <2>1 DEF IInv, CompletionWins, CompletionIsDurable
<1> QED BY Zenon, <1>8, <1>9, <1>10, <1>11, <1>12, <1>13, <1>14, <1>15, <1>16, <1>17, <1>18, <1>19 DEF IInv, Types

\* Numbers without a gap increase.
LEMMA GaplessOrders ==
    ASSUME NEW o \in Seq(Yields), \A i \in 1..Len(o) : o[i].seq = i - 1
    PROVE  \A i \in 2..Len(o) : o[i].seq > o[i - 1].seq /\ o[i].seq = o[i - 1].seq + 1
<1> SUFFICES ASSUME NEW i \in 2..Len(o) PROVE o[i].seq > o[i - 1].seq /\ o[i].seq = o[i - 1].seq + 1
  OBVIOUS
<1>1. Len(o) \in Nat
  OBVIOUS
<1>2. i \in 1..Len(o) /\ i - 1 \in 1..Len(o) /\ i \in Int
  BY <1>1
<1>3. o[i].seq = i - 1 /\ o[i - 1].seq = i - 1 - 1
  BY Zenon, <1>2
<1> QED BY <1>2, <1>3

\* An event with the next number, or a cancellation in the place of one.
LEMMA YieldOrders ==
    ASSUME out \in Seq(Yields), \A i \in 1..Len(out) : out[i].seq = i - 1 /\ out[i].what \notin Terminals,
           NEW what \in Whats, NEW c \in Calls \cup {None}, NEW n \in Nat, Yield(what, c, n),
           n = Len(out) \/ (n = Len(out) + 1 /\ what = "cancelled")
    PROVE  /\ \A i \in 2..Len(out') : /\ out'[i].seq > out'[i - 1].seq
                                      /\ out'[i].seq = out'[i - 1].seq + 1 \/ out'[i].what = "cancelled"
           /\ \A i \in 1..Len(out') : out'[i].what \in Terminals => i = Len(out')
           /\ n = Len(out) /\ what \notin Terminals =>
                 \A i \in 1..Len(out') : out'[i].seq = i - 1 /\ out'[i].what \notin Terminals
<1>1. /\ out' \in Seq(Yields) /\ Len(out') = Len(out) + 1 /\ Len(out) \in Nat
      /\ \A i \in 1..Len(out) : out'[i] = out[i]
      /\ out'[Len(out')] = [what |-> what, call |-> c, seq |-> n]
  <2>1. Len(out) \in Nat
    OBVIOUS
  <2> QED BY Zenon, <2>1, YieldSays
<1>2. out'[Len(out')].what = what /\ out'[Len(out')].seq = n
  <2>1. out'[Len(out')] = [what |-> what, call |-> c, seq |-> n]
    BY Zenon, <1>1
  <2> QED BY <2>1
<1>3. \A i \in 1..Len(out') : i = Len(out') \/ i \in 1..Len(out)
  BY <1>1
<1>4. \A i \in 2..Len(out) : out[i].seq > out[i - 1].seq /\ out[i].seq = out[i - 1].seq + 1
  BY Zenon, GaplessOrders
<1>5. ASSUME NEW i \in 2..Len(out')
      PROVE  /\ out'[i].seq > out'[i - 1].seq
             /\ out'[i].seq = out'[i - 1].seq + 1 \/ out'[i].what = "cancelled"
  <2>1. CASE i = Len(out')
    <3>1. i - 1 \in 1..Len(out) /\ i - 1 = Len(out)
      BY <1>1, <2>1
    <3>2. out'[i - 1].seq = Len(out) - 1
      BY Zenon, <1>1, <3>1
    <3> QED BY <1>1, <1>2, <2>1, <3>2
  <2>2. CASE i # Len(out')
    <3>1. i \in 2..Len(out) /\ i \in 1..Len(out) /\ i - 1 \in 1..Len(out)
      BY <1>1, <2>2
    <3> QED BY Zenon, <1>1, <1>4, <3>1
  <2> QED BY Zenon, <2>1, <2>2
<1>6. \A i \in 1..Len(out') : out'[i].what \in Terminals => i = Len(out')
  BY Zenon, <1>1, <1>3
<1>7. ASSUME n = Len(out), what \notin Terminals, NEW i \in 1..Len(out')
      PROVE  out'[i].seq = i - 1 /\ out'[i].what \notin Terminals
  <2>1. CASE i = Len(out')
    <3>1. Len(out) = i - 1
      BY <1>1, <2>1
    <3> QED BY Zenon, <1>2, <1>7, <2>1, <3>1
  <2>2. CASE i \in 1..Len(out)
    BY Zenon, <1>1, <2>2
  <2> QED BY Zenon, <1>3, <2>1, <2>2
<1> QED BY Zenon, <1>5, <1>6, <1>7

\* The event in flight is the one its place announces.
LEMMA InFlight ==
    ASSUME IInv, Working, NEW what, NEW c, Announced(what, c)
    PROVE  /\ wf \in Speaking => c = Current
           /\ what = "tool_finished" => wf = "finished"
           /\ what = "tool_denied" => wf = "validate"
BY Zenon DEF Announced, Speaking

\* An event is yielded, and the workflow told so.
LEMMA DeliveredStep == ASSUME IInv, Delivered, delivery.what \notin Terminals PROVE IInv'
<1>1. /\ place = "sink" /\ Yield(delivery.what, delivery.call, delivery.seq) /\ delivery' = None /\ acked' = TRUE
      /\ armed' = FALSE /\ place' = "returned" /\ DataKept
      /\ UNCHANGED <<state, closing, lease, staged, stagedEnds, established, emitting, awaiting, res, probing, defer>>
      /\ UNCHANGED <<cancelled, sequence, terminal, synthesized, woken, erred>>
  BY Zenon DEF Delivered, roundVars, durableVars, historyVars, DataKept
<1>2. UNCHANGED <<wf, exit, task, ledger, final, ran, granted, submitted>> /\ Current' = Current
  BY Zenon, <1>1, DataTypes DEF DataKept
<1>3. delivery # None /\ lease /\ delivery \in Deliveries
  BY Zenon, <1>1 DEF IInv, StreamInv, Types, StreamTypes
<1>4. state = "running"
  BY Zenon, <1>3 DEF IInv, StreamInv, Types, StreamTypes
<1>5. emitting /\ ~acked
  BY Zenon, <1>3, <1>4 DEF IInv, GateInv
<1>6. exit = None /\ awaiting = None /\ staged = None
  BY Zenon, <1>1, <1>4, <1>5 DEF IInv, GateInv
<1>7. /\ delivery.what \in Whats /\ delivery.call \in Calls \cup {None} /\ delivery.seq \in Nat
  BY <1>3 DEF Deliveries
<1>8. /\ out \in Seq(Yields) /\ sequence = Len(out) + 1 /\ delivery.seq = Len(out)
      /\ \A i \in 1..Len(out) : out[i].seq = i - 1 /\ out[i].what \notin Terminals
  BY Zenon, <1>3 DEF IInv, Types, StreamTypes, Numbered
<1>9. /\ out' \in Seq(Yields) /\ Len(out') = Len(out) + 1
      /\ Said' = Said \cup {<<delivery.what, delivery.call>>}
  BY Zenon, <1>1, <1>7, <1>8, YieldSays
<1>10. /\ \A i \in 2..Len(out') : /\ out'[i].seq > out'[i - 1].seq
                                  /\ out'[i].seq = out'[i - 1].seq + 1 \/ out'[i].what = "cancelled"
       /\ \A i \in 1..Len(out') : out'[i].seq = i - 1 /\ out'[i].what \notin Terminals
  BY Zenon, <1>1, <1>7, <1>8, YieldOrders
<1>11. Working /\ Working' /\ Told' /\ state' = "running" /\ lease' /\ exit' = None
  BY Zenon, <1>1, <1>2, <1>3, <1>4, <1>6 DEF Working, Told
<1>12. FlowTypes'
  BY ZenonT(30), <1>1, <1>2 DEF IInv, Types, FlowTypes
<1>13. RoundTypes' /\ LedgerTypes' /\ StreamTypes'
  <2>1. StreamTypes'
    BY Zenon, <1>1, <1>9 DEF IInv, Types, StreamTypes, Places
  <2> QED BY Zenon, <1>1, <2>1, DataTypes
<1>14. StreamInv' /\ GateInv'
  <2>1. StreamInv'
    BY Zenon, <1>1, <1>11 DEF IInv, StreamInv
  <2>2. GateInv'
    BY Zenon, <1>1, <1>5, <1>6, <1>11 DEF GateInv
  <2> QED BY Zenon, <2>1, <2>2
<1>15. Numbered' /\ OrderedEvents'
  BY Zenon, <1>1, <1>8, <1>9, <1>10, <1>11 DEF Numbered, OrderedEvents
<1>16. AwaitInv' /\ RoundInv' /\ CallInv'
  BY Zenon, <1>1, DataInvs
<1>17. Announced(delivery.what, delivery.call)
  BY Zenon, <1>3, <1>11 DEF IInv, FlightInv
<1>18. FlightInv'
  BY Zenon, <1>1, <1>6 DEF FlightInv
<1>19. TellInv'
  <2>1. /\ wf = "authorize" => <<"permission_requested", Current>> \in Said'
        /\ wf = "decided" => <<"permission_resolved", Current>> \in Said'
        /\ wf = "execute" => <<"tool_started", Current>> \in Said'
        /\ wf = "finished" => <<"tool_finished", Current>> \in Said'
    BY Zenon, <1>9, <1>17 DEF Announced, Speaking
  <2>2. /\ wf = "decided" => <<"permission_requested", Current>> \in Said'
        /\ wf = "execute" /\ granted[Current] = "allowed" =>
              <<"permission_requested", Current>> \in Said' /\ <<"permission_resolved", Current>> \in Said'
    BY Zenon, <1>9, <1>11 DEF IInv, TellInv
  <2> QED BY Zenon, <1>2, <2>1, <2>2 DEF TellInv
<1>20. WinInv'
  <2>1. \A c : Settles(c) => Settles(c)'
    BY Zenon, <1>2, <1>9 DEF Settles
  <2>2. Working /\ defer = 0 => Settled'
    BY Zenon, <1>2, <2>1 DEF IInv, WinInv, Settled
  <2>3. Working /\ defer # 0 => \A c \in submitted : c = Current \/ Settles(c)'
    BY Zenon, <2>1 DEF IInv, WinInv
  <2> QED BY Zenon, <1>1, <1>2, <1>11, <2>2, <2>3 DEF IInv, WinInv
<1>21. EndInv'
  <2>1. exit' # "completed"
    BY Zenon, <1>11, NoneAssumption DEF Terminals
  <2> QED BY Zenon, <1>1, <1>2, <1>11, <2>1 DEF IInv, EndInv
<1>22. ReportInv'
  <2>1. \A c \in Calls :
           /\ <<"tool_finished", c>> \in Said' => <<"tool_finished", c>> \in Said \/ (c = Current /\ wf = "finished")
           /\ <<"tool_denied", c>> \in Said' => <<"tool_denied", c>> \in Said \/ (c = Current /\ wf = "validate")
    <3>1. \A what, c : <<what, c>> \in Said' => <<what, c>> \in Said \/ (what = delivery.what /\ c = delivery.call)
      BY Zenon, <1>9, SamePair
    <3>2. /\ delivery.what = "tool_finished" => wf = "finished" /\ delivery.call = Current
          /\ delivery.what = "tool_denied" => wf = "validate" /\ delivery.call = Current
      BY Zenon, <1>11, <1>17, InFlight DEF Speaking
    <3> QED BY Zenon, <3>1, <3>2
  <2>2. /\ wf = "finished" => ledger[Current] = "result" /\ ran[Current] = 1
        /\ wf = "validate" => granted[Current] = "denied"
    BY Zenon, <1>5, <1>11 DEF IInv, CallInv
  <2>3. Said \subseteq Said'
    BY Zenon, <1>9
  <2> QED BY Zenon, <1>2, <2>1, <2>2, <2>3 DEF IInv, ReportInv
<1>23. CompletionWins' /\ CompletionIsDurable'
  <2>1. <<"cancelled", None>> \notin Said /\ <<"completed", None>> \notin Said
    BY Zenon, <1>3, <1>8, NoEndSaid DEF IInv
  <2>2. delivery.what # "cancelled" /\ delivery.what # "completed"
    BY Zenon DEF Terminals
  <2>3. <<"cancelled", None>> \notin Said' /\ <<"completed", None>> \notin Said'
    BY <1>9, <2>1, <2>2
  <2>4. ~synthesized'
    BY Zenon, <1>1, <1>4 DEF IInv, EndInv
  <2> QED BY Zenon, <2>3, <2>4, SaidIsYieldedNext DEF CompletionWins, CompletionIsDurable
<1> QED BY Zenon, <1>12, <1>13, <1>14, <1>15, <1>16, <1>18, <1>19, <1>20, <1>21, <1>22, <1>23 DEF IInv, Types

-----------------------------------------------------------------------------
(* The end of the workflow, and of the stream.                             *)

\* Of a workflow that is gone nothing more is promised.
LEMMA Stopped ==
    ASSUME state' # "running"
    PROVE  GateInv' /\ AwaitInv' /\ FlightInv' /\ TellInv' /\ RoundInv' /\ CallInv' /\ ~Working'
<1>1. ~Working'
  BY Zenon DEF Working
<1>2. GateInv' /\ AwaitInv' /\ FlightInv' /\ TellInv'
  BY Zenon, <1>1 DEF GateInv, AwaitInv, FlightInv, TellInv
<1>3. RoundInv' /\ CallInv'
  BY Zenon, <1>1 DEF RoundInv, CallInv
<1> QED BY Zenon, <1>1, <1>2, <1>3

\* Of tools a terminal event says nothing.
LEMMA EndReports ==
    ASSUME IInv, DataKept,
           \A c : \A what \in Whats \ Terminals : <<what, c>> \in Said' <=> <<what, c>> \in Said
    PROVE  ReportInv'
<1>1. UNCHANGED <<ledger, ran, granted, submitted>>
  BY Zenon DEF DataKept
<1>2. {"tool_started", "tool_finished", "tool_denied", "permission_requested", "permission_resolved"} \subseteq Whats \ Terminals
  BY Zenon DEF Whats, Terminals
<1>3. \A c : /\ <<"tool_started", c>> \in Said' <=> <<"tool_started", c>> \in Said
             /\ <<"tool_finished", c>> \in Said' <=> <<"tool_finished", c>> \in Said
             /\ <<"tool_denied", c>> \in Said' <=> <<"tool_denied", c>> \in Said
             /\ <<"permission_requested", c>> \in Said' <=> <<"permission_requested", c>> \in Said
             /\ <<"permission_resolved", c>> \in Said' <=> <<"permission_resolved", c>> \in Said
  BY Zenon, <1>2
<1> QED BY Zenon, <1>1, <1>3 DEF IInv, ReportInv

\* A stream that ends.
LEMMA EndsStep ==
    ASSUME IInv, Finish, DataKept, delivery' = None, place' = "returned",
           cancelled' \in BOOLEAN, sequence' \in Nat, terminal' \in BOOLEAN, synthesized' \in BOOLEAN,
           woken' \in BOOLEAN, erred' \in BOOLEAN, out' \in Seq(Yields),
           \A c : \A what \in Whats \ Terminals : <<what, c>> \in Said' <=> <<what, c>> \in Said,
           wf = "end" => ~synthesized',
           OrderedEvents', CompletionWins', CompletionIsDurable'
    PROVE  IInv'
<1>1. /\ state' = "done" /\ closing' = None /\ staged' = None /\ stagedEnds' = FALSE /\ acked' = FALSE
      /\ established' = FALSE /\ emitting' = FALSE /\ awaiting' = None /\ res' = None /\ probing' = FALSE
      /\ defer' = 0 /\ armed' = FALSE /\ lease' = FALSE
  BY Zenon DEF Finish
<1>2. UNCHANGED <<wf, exit, task, final>>
  BY Zenon DEF DataKept
<1>3. FlowTypes'
  BY ZenonT(30), <1>1, <1>2 DEF IInv, Types, FlowTypes
<1>4. RoundTypes' /\ LedgerTypes' /\ StreamTypes'
  <2>1. StreamTypes'
    BY Zenon, <1>1 DEF StreamTypes, Places
  <2> QED BY Zenon, <2>1, DataTypes
<1>5. GateInv' /\ AwaitInv' /\ FlightInv' /\ TellInv' /\ RoundInv' /\ CallInv' /\ ~Working'
  BY Zenon, <1>1, Stopped
<1>6. StreamInv' /\ Numbered'
  BY Zenon, <1>1 DEF StreamInv, Numbered
<1>7. WinInv'
  BY Zenon, <1>1, <1>5 DEF WinInv
<1>8. EndInv'
  BY Zenon, <1>1, <1>2, <1>5 DEF IInv, EndInv
<1>9. ReportInv'
  BY Zenon, EndReports
<1> QED BY Zenon, <1>3, <1>4, <1>5, <1>6, <1>7, <1>8, <1>9 DEF IInv, Types

\* A stream that yields its terminal event and ends.
LEMMA TerminalYields ==
    ASSUME IInv, lease, DataKept, NEW what \in Terminals, NEW c \in Calls \cup {None}, NEW n \in Nat, Yield(what, c, n),
           n = Len(out) \/ (n = Len(out) + 1 /\ what = "cancelled"),
           ~lease', ~erred',
           what = "cancelled" => Settled /\ wf # "end",
           what = "completed" => Complete,
           wf = "end" => ~synthesized'
    PROVE  /\ out' \in Seq(Yields) /\ OrderedEvents' /\ CompletionWins' /\ CompletionIsDurable'
           /\ \A d : \A w \in Whats \ Terminals : <<w, d>> \in Said' <=> <<w, d>> \in Said
<1>1. /\ out \in Seq(Yields) /\ what \in Whats
      /\ \A i \in 1..Len(out) : out[i].seq = i - 1 /\ out[i].what \notin Terminals
  BY Zenon DEF IInv, Types, StreamTypes, Numbered, Whats
<1>2. out' \in Seq(Yields) /\ Said' = Said \cup {<<what, c>>}
  BY Zenon, <1>1, YieldSays
<1>3. \A w, d : <<w, d>> \in Said' <=> <<w, d>> \in Said \/ (w = what /\ d = c)
  <2>1. \A w, d : <<w, d>> \in Said' <=> <<w, d>> \in Said \/ <<w, d>> = <<what, c>>
    BY Zenon, <1>2
  <2> QED BY Zenon, <2>1, SamePair
<1>4. \A d : \A w \in Whats \ Terminals : <<w, d>> \in Said' <=> <<w, d>> \in Said
  <2> SUFFICES ASSUME NEW d, NEW w \in Whats \ Terminals PROVE <<w, d>> \in Said' <=> <<w, d>> \in Said
    BY Zenon
  <2>1. w # what
    BY Zenon
  <2> QED BY Zenon, <1>3, <2>1
<1>5. OrderedEvents'
  <2>1. /\ \A i \in 2..Len(out') : /\ out'[i].seq > out'[i - 1].seq
                                   /\ out'[i].seq = out'[i - 1].seq + 1 \/ out'[i].what = "cancelled"
        /\ \A i \in 1..Len(out') : out'[i].what \in Terminals => i = Len(out')
    BY Zenon, <1>1, YieldOrders
  <2> QED BY Zenon, <2>1 DEF OrderedEvents
<1>6. <<"cancelled", None>> \notin Said /\ <<"completed", None>> \notin Said
  BY Zenon, <1>1, NoEndSaid DEF IInv
<1>7. UNCHANGED <<wf, task, ledger, final, submitted>> /\ Current' = Current
  BY Zenon, DataTypes DEF DataKept
<1>8. CompletionWins'
  <2>1. <<"cancelled", None>> \in Said' => Settled
    BY Zenon, <1>3, <1>6
  <2>2. \A d : Settles(d) => ledger'[d] = "result" /\ <<"tool_finished", d>> \in Said'
    BY Zenon, <1>3, <1>7 DEF Settles
  <2> QED BY Zenon, <1>7, <2>1, <2>2, SaidIsYieldedNext DEF CompletionWins, Settled
<1>9. CompletionIsDurable'
  <2>1. <<"completed", None>> \in Said' => Complete
    BY Zenon, <1>3, <1>6
  <2>2. Complete => final' \/ (task'.finish /\ ledger'[Current'] = "result" /\ <<"tool_finished", Current'>> \in Said')
    BY Zenon, <1>3, <1>7 DEF Complete
  <2>3. wf' = "end" => ~synthesized' /\ <<"cancelled", None>> \notin Said'
    BY Zenon, <1>3, <1>6, <1>7
  <2>4. Yielded("tool_finished", Current)' <=> <<"tool_finished", Current'>> \in Said'
    BY Zenon, SaidIsYieldedNext
  <2> QED BY Zenon, <2>1, <2>2, <2>3, <2>4, SaidIsYieldedNext DEF CompletionIsDurable
<1> QED BY Zenon, <1>2, <1>4, <1>5, <1>8, <1>9

\* A stream that ends without a terminal event.
LEMMA SilentEnds ==
    ASSUME IInv, lease, DataKept, out' = out, ~lease', wf = "end" => ~synthesized'
    PROVE  /\ out' \in Seq(Yields) /\ OrderedEvents' /\ CompletionWins' /\ CompletionIsDurable'
           /\ \A d : \A w \in Whats \ Terminals : <<w, d>> \in Said' <=> <<w, d>> \in Said
<1>1. out' \in Seq(Yields) /\ Said' = Said /\ wf' = wf
  BY Zenon DEF IInv, Types, StreamTypes, Said, DataKept
<1>2. \A i \in 1..Len(out) : out[i].what \notin Terminals
  BY Zenon DEF IInv, Numbered
<1>3. OrderedEvents'
  BY Zenon, <1>2 DEF IInv, OrderedEvents
<1>4. <<"cancelled", None>> \notin Said' /\ <<"completed", None>> \notin Said'
  BY Zenon, <1>1, NoEndSaid DEF IInv, Types, StreamTypes
<1>5. CompletionWins' /\ CompletionIsDurable'
  BY Zenon, <1>1, <1>4, SaidIsYieldedNext DEF CompletionWins, CompletionIsDurable
<1> QED BY Zenon, <1>1, <1>3, <1>5

\* A cancellation that takes the place of the pending event: nothing that was begun
\* is left unsaid (cancel_pending_delivery).
LEMMA DeliverCancellationStep == ASSUME IInv, DeliverCancellation PROVE IInv'
<1>1. /\ delivery # None /\ defer = 0 /\ (terminal => synthesized /\ delivery.what = "cancelled")
      /\ \/ terminal /\ Yield("cancelled", None, delivery.seq) /\ sequence' = sequence
         \/ ~terminal /\ Yield("cancelled", None, sequence) /\ sequence' = sequence + 1
      /\ delivery' = None /\ synthesized' = TRUE /\ terminal' = TRUE /\ Finish /\ place' = "returned" /\ DataKept
      /\ UNCHANGED <<cancelled, woken, erred>>
  BY Zenon DEF DeliverCancellation, CancelsDelivery, roundVars, durableVars, historyVars, DataKept
<1>2. lease /\ ~erred /\ delivery \in Deliveries /\ sequence \in Nat
  BY Zenon, <1>1 DEF IInv, StreamInv, Types, StreamTypes
<1>3. sequence = Len(out) + 1 /\ delivery.seq = Len(out) /\ delivery.seq \in Nat
  <2>1. delivery.seq \in Nat
    BY <1>2 DEF Deliveries
  <2> QED BY Zenon, <1>1, <1>2, <2>1 DEF IInv, Numbered
<1>4. Settled /\ wf # "end"
  <2>1. CASE terminal
    BY Zenon, <1>1, <2>1 DEF IInv, WinInv, EndInv
  <2>2. CASE ~terminal
    <3>1. state = "running"
      BY Zenon, <1>2, <2>2 DEF IInv, StreamInv
    <3>2. emitting
      BY Zenon, <1>1, <3>1 DEF IInv, GateInv
    <3>3. exit = None
      BY Zenon, <3>1, <3>2 DEF IInv, GateInv
    <3>4. Settled
      BY Zenon, <1>1, <3>1, <3>3 DEF IInv, WinInv, Working
    <3>5. wf # "end"
      BY Zenon, <1>1, <1>2, <2>2, <3>1 DEF IInv, EndInv
    <3> QED BY Zenon, <3>4, <3>5
  <2> QED BY Zenon, <2>1, <2>2
<1>5. ~lease' /\ ~erred' /\ "cancelled" \in Terminals /\ None \in Calls \cup {None} /\ "cancelled" # "completed"
  BY Zenon, <1>1, <1>2 DEF Finish, Terminals
<1>6. PICK n \in Nat : Yield("cancelled", None, n) /\ (n = Len(out) \/ n = Len(out) + 1)
  BY Zenon, <1>1, <1>2, <1>3
<1>7. /\ out' \in Seq(Yields) /\ OrderedEvents' /\ CompletionWins' /\ CompletionIsDurable'
      /\ \A d : \A w \in Whats \ Terminals : <<w, d>> \in Said' <=> <<w, d>> \in Said
  BY Zenon, <1>1, <1>2, <1>4, <1>5, <1>6, TerminalYields
<1>8. sequence' \in Nat
  BY <1>1, <1>2
<1>9. /\ cancelled' \in BOOLEAN /\ terminal' \in BOOLEAN /\ synthesized' \in BOOLEAN /\ woken' \in BOOLEAN
      /\ erred' \in BOOLEAN
  BY Zenon, <1>1 DEF IInv, Types, StreamTypes
<1> QED BY Zenon, <1>1, <1>4, <1>7, <1>8, <1>9, EndsStep

\* The terminal event is delivered.
LEMMA DeliveredEndStep == ASSUME IInv, Delivered, delivery.what \in Terminals PROVE IInv'
<1>1. /\ place = "sink" /\ Yield(delivery.what, delivery.call, delivery.seq) /\ delivery' = None /\ Finish
      /\ place' = "returned" /\ DataKept
      /\ UNCHANGED <<cancelled, sequence, terminal, synthesized, woken, erred>>
  BY Zenon DEF Delivered, roundVars, durableVars, historyVars, DataKept
<1>2. delivery # None /\ lease /\ ~erred /\ delivery \in Deliveries
  BY Zenon, <1>1 DEF IInv, StreamInv, Types, StreamTypes
<1>3. delivery.call \in Calls \cup {None} /\ delivery.seq \in Nat /\ delivery.seq = Len(out)
  <2>1. delivery.call \in Calls \cup {None} /\ delivery.seq \in Nat
    BY <1>2 DEF Deliveries
  <2> QED BY Zenon, <1>2, <2>1 DEF IInv, Numbered
<1>4. /\ delivery.what = "cancelled" => Settled /\ wf # "end"
      /\ delivery.what = "completed" => Complete
      /\ wf = "end" => ~synthesized'
  BY Zenon, <1>1, <1>2 DEF IInv, WinInv, EndInv
<1>5. ~lease' /\ ~erred'
  BY Zenon, <1>1, <1>2 DEF Finish
<1>6. /\ out' \in Seq(Yields) /\ OrderedEvents' /\ CompletionWins' /\ CompletionIsDurable'
      /\ \A d : \A w \in Whats \ Terminals : <<w, d>> \in Said' <=> <<w, d>> \in Said
  BY Zenon, <1>1, <1>2, <1>3, <1>4, <1>5, TerminalYields
<1>7. /\ cancelled' \in BOOLEAN /\ terminal' \in BOOLEAN /\ synthesized' \in BOOLEAN /\ woken' \in BOOLEAN
      /\ erred' \in BOOLEAN /\ sequence' \in Nat
  BY Zenon, <1>1 DEF IInv, Types, StreamTypes
<1> QED BY Zenon, <1>1, <1>4, <1>6, <1>7, EndsStep

\* The sink failed, or the stream is dropped.
LEMMA SilentStep == ASSUME IInv, SinkFailed \/ DropTurn PROVE IInv'
<1>1. /\ delivery' = None /\ Finish /\ place' = "returned" /\ DataKept /\ lease
      /\ UNCHANGED <<sequence, synthesized, woken, out>>
      /\ cancelled' \in BOOLEAN /\ terminal' \in BOOLEAN /\ erred' \in BOOLEAN
  <2>1. cancelled \in BOOLEAN /\ terminal \in BOOLEAN /\ erred \in BOOLEAN
    BY Zenon DEF IInv, Types, StreamTypes
  <2>2. CASE SinkFailed
    <3>1. lease
      BY Zenon, <2>2 DEF SinkFailed, IInv, StreamInv
    <3> QED BY Zenon, <2>1, <2>2, <3>1 DEF SinkFailed, roundVars, durableVars, historyVars, DataKept
  <2>3. CASE DropTurn
    BY Zenon, <2>1, <2>3 DEF DropTurn, roundVars, durableVars, historyVars, DataKept
  <2> QED BY Zenon, <2>2, <2>3
<1>2. ~lease' /\ (wf = "end" => ~synthesized')
  BY Zenon, <1>1 DEF Finish, IInv, EndInv
<1>3. /\ out' \in Seq(Yields) /\ OrderedEvents' /\ CompletionWins' /\ CompletionIsDurable'
      /\ \A d : \A w \in Whats \ Terminals : <<w, d>> \in Said' <=> <<w, d>> \in Said
  BY Zenon, <1>1, <1>2, SilentEnds
<1>4. synthesized' \in BOOLEAN /\ woken' \in BOOLEAN /\ sequence' \in Nat
  BY Zenon, <1>1 DEF IInv, Types, StreamTypes
<1> QED BY Zenon, <1>1, <1>2, <1>3, <1>4, EndsStep

\* The end is decided and not yet told.
LEMMA DecidesStep ==
    ASSUME IInv, lease, DataKept, UNCHANGED <<lease, out, erred>>, state' # "running", state' = "done" => delivery' # None,
           FlowTypes', StreamTypes', StreamInv', Numbered', WinInv', EndInv'
    PROVE  IInv'
<1>1. GateInv' /\ AwaitInv' /\ FlightInv' /\ TellInv' /\ RoundInv' /\ CallInv'
  BY Zenon, Stopped
<1>2. Said' = Said /\ wf' = wf
  BY Zenon DEF Said, DataKept
<1>3. RoundTypes' /\ LedgerTypes' /\ ReportInv'
  BY Zenon, <1>2, DataTypes, EndReports
<1>4. OrderedEvents'
  BY Zenon DEF IInv, OrderedEvents
<1>5. <<"cancelled", None>> \notin Said' /\ <<"completed", None>> \notin Said'
  BY Zenon, <1>2, NoEndSaid DEF IInv, Types, StreamTypes
<1>6. CompletionWins' /\ CompletionIsDurable'
  BY Zenon, <1>5, SaidIsYieldedNext DEF CompletionWins, CompletionIsDurable, EndInv
<1> QED BY Zenon, <1>1, <1>3, <1>4, <1>6 DEF IInv, Types

\* Settled and Complete look at the calls only.
LEMMA DecisionKept ==
    ASSUME IInv, DataKept, out' = out
    PROVE  (Settled' <=> Settled) /\ (Complete' <=> Complete) /\ (task'.finish => task'.executed)
           /\ (wf' = "end" => final' /\ exit' \in {None, "completed"})
<1>1. UNCHANGED <<wf, exit, task, ledger, final, submitted>> /\ Current' = Current /\ Said' = Said
  BY Zenon, DataTypes DEF DataKept, Said
<1> QED BY Zenon, <1>1 DEF Settled, Settles, Complete, IInv, EndInv

\* A cancellation seen between two polls.
LEMMA ObserveCancellationStep == ASSUME IInv, ObserveCancellation PROVE IInv'
<1>1. /\ place = "top" /\ delivery = None /\ cancelled /\ ~terminal /\ ~established /\ defer = 0
      /\ terminal' = TRUE /\ synthesized' = TRUE /\ state' = "done" /\ closing' = None
      /\ Stage(Event("cancelled", None)) /\ armed' = FALSE /\ DataKept
      /\ emitting' = FALSE /\ awaiting' = None /\ res' = None /\ probing' = FALSE /\ staged' = None /\ stagedEnds' = FALSE
      /\ UNCHANGED <<acked, established, defer, cancelled, place, lease, woken, out, erred>>
  BY Zenon DEF ObserveCancellation, Observed, Abandon, roundVars, durableVars, historyVars, DataKept
<1>2. lease /\ ~erred /\ sequence \in Nat /\ Event("cancelled", None) \in Events /\ Event("cancelled", None).what = "cancelled"
  <2>1. Event("cancelled", None) \in Events /\ Event("cancelled", None).what = "cancelled"
    BY DEF Event, Events, Whats, Terminals
  <2> QED BY Zenon, <1>1, <2>1 DEF IInv, StreamInv, Types, StreamTypes
<1>3. state = "running"
  BY Zenon, <1>1, <1>2 DEF IInv, StreamInv
<1>4. exit = None
  BY Zenon, <1>1, <1>3 DEF IInv, GateInv
<1>5. Settled /\ wf # "end"
  BY Zenon, <1>1, <1>2, <1>3, <1>4 DEF IInv, WinInv, EndInv, Working
<1>6. /\ delivery' \in Deliveries /\ delivery' # None /\ sequence' = sequence + 1 /\ sequence' \in Nat
      /\ delivery'.what = "cancelled" /\ delivery'.seq = sequence
  BY Zenon, <1>1, <1>2, StageKeeps
<1>7. (Settled' <=> Settled) /\ (task'.finish => task'.executed) /\ wf' # "end" /\ wf' = wf /\ exit' = exit /\ lease'
  BY Zenon, <1>1, <1>2, <1>5, DecisionKept DEF DataKept
<1>8. FlowTypes'
  BY ZenonT(30), <1>1, <1>7 DEF IInv, Types, FlowTypes
<1>9. StreamTypes'
  BY Zenon, <1>1, <1>6 DEF IInv, Types, StreamTypes
<1>10. StreamInv'
  BY Zenon, <1>1, <1>2, <1>6, <1>7 DEF StreamInv, Terminals
<1>11. Numbered'
  <2>1. sequence = Len(out) /\ \A i \in 1..Len(out) : out[i].seq = i - 1 /\ out[i].what \notin Terminals
    BY Zenon, <1>1, <1>2 DEF IInv, Numbered
  <2> QED BY Zenon, <1>1, <1>6, <2>1 DEF Numbered
<1>12. WinInv'
  BY Zenon, <1>1, <1>5, <1>7 DEF WinInv, Working
<1>13. EndInv'
  BY Zenon, <1>1, <1>6, <1>7 DEF EndInv, Working
<1> QED BY Zenon, <1>1, <1>2, <1>6, <1>8, <1>9, <1>10, <1>11, <1>12, <1>13, DecidesStep

\* The terminal event is staged.
LEMMA StageTerminalStep == ASSUME IInv, StageTerminal PROVE IInv'
<1>1. /\ place = "top" /\ delivery = None /\ state = "emit" /\ Stage(closing) /\ state' = "done" /\ closing' = None
      /\ armed' = FALSE /\ DataKept
      /\ UNCHANGED <<staged, stagedEnds, acked, established, emitting, awaiting, res, probing, defer>>
      /\ UNCHANGED <<cancelled, place, terminal, synthesized, lease, woken, out, erred>>
  BY Zenon DEF StageTerminal, workflowVars, gateVars, flowVars, roundVars, durableVars, historyVars, DataKept
<1>2. /\ lease /\ ~erred /\ terminal /\ sequence \in Nat /\ closing \in Events /\ closing.what \in Terminals
      /\ awaiting = None /\ staged = None
  BY Zenon, <1>1 DEF IInv, StreamInv, Types, StreamTypes
<1>3. /\ closing.what = "cancelled" => Settled /\ synthesized
      /\ closing.what = "completed" => Complete
      /\ wf = "end" => ~synthesized /\ established
  BY Zenon, <1>1, <1>2 DEF IInv, WinInv, EndInv
<1>4. /\ delivery' \in Deliveries /\ delivery' # None /\ sequence' = sequence + 1 /\ sequence' \in Nat
      /\ delivery'.what = closing.what /\ delivery'.seq = sequence
  BY Zenon, <1>1, <1>2, StageKeeps
<1>5. /\ (Settled' <=> Settled) /\ (Complete' <=> Complete) /\ (task'.finish => task'.executed)
      /\ wf' = wf /\ exit' = exit /\ lease' /\ (wf' = "end" => final' /\ exit' \in {None, "completed"})
  BY Zenon, <1>1, <1>2, DecisionKept DEF DataKept
<1>6. FlowTypes'
  BY ZenonT(30), <1>1, <1>5 DEF IInv, Types, FlowTypes
<1>7. StreamTypes'
  BY Zenon, <1>1, <1>4 DEF IInv, Types, StreamTypes
<1>8. StreamInv'
  BY Zenon, <1>1, <1>2, <1>4, <1>5 DEF StreamInv
<1>9. Numbered'
  <2>1. sequence = Len(out) /\ \A i \in 1..Len(out) : out[i].seq = i - 1 /\ out[i].what \notin Terminals
    BY Zenon, <1>1, <1>2 DEF IInv, Numbered
  <2> QED BY Zenon, <1>1, <1>4, <2>1 DEF Numbered
<1>10. WinInv'
  BY Zenon, <1>1, <1>3, <1>4, <1>5 DEF WinInv, Working
<1>11. EndInv'
  BY Zenon, <1>1, <1>3, <1>4, <1>5 DEF EndInv, Working
<1> QED BY Zenon, <1>1, <1>2, <1>4, <1>6, <1>7, <1>8, <1>9, <1>10, <1>11, DecidesStep

\* A poll of the workflow ends with a cancellation, or with its exit.
LEMMA AfterEndStep == ASSUME IInv, AfterCancelled \/ AfterExit PROVE IInv'
<1>1. PICK how \in Terminals :
         /\ place = "after" /\ closing' = Event(how, None) /\ state' = "emit" /\ terminal' = TRUE /\ place' = "top"
         /\ synthesized' \in BOOLEAN /\ DataKept /\ staged' = None /\ stagedEnds' \in BOOLEAN /\ emitting' \in BOOLEAN
         /\ awaiting' = None /\ res' = None /\ probing' \in BOOLEAN
         /\ UNCHANGED <<acked, established, defer>>
         /\ UNCHANGED <<cancelled, delivery, sequence, lease, armed, woken, out, erred>>
         /\ how = "cancelled" => Settled /\ synthesized'
         /\ how = "completed" => Complete
         /\ wf = "end" => ~synthesized' /\ established
  <2>1. place = "after" => state = "running" /\ delivery = None /\ lease /\ ~synthesized
    BY Zenon DEF IInv, StreamInv, EndInv
  <2>2. /\ stagedEnds \in BOOLEAN /\ emitting \in BOOLEAN /\ probing \in BOOLEAN /\ exit \in Terminals \cup {None}
        /\ synthesized \in BOOLEAN /\ (awaiting = None => res = None)
    BY Zenon DEF IInv, Types, FlowTypes, StreamTypes
  <2>3. CASE AfterCancelled
    <3>1. /\ place = "after" /\ ~established /\ defer = 0 /\ terminal' = TRUE /\ synthesized' = TRUE /\ state' = "emit"
          /\ closing' = Event("cancelled", None) /\ place' = "top" /\ DataKept
          /\ emitting' = FALSE /\ awaiting' = None /\ res' = None /\ probing' = FALSE /\ staged' = None
          /\ stagedEnds' = FALSE /\ UNCHANGED <<acked, established, defer>>
          /\ UNCHANGED <<cancelled, delivery, sequence, lease, armed, woken, out, erred>>
      BY Zenon, <2>3 DEF AfterCancelled, Observed, EstablishCancellation, Abandon, roundVars, durableVars, historyVars,
         DataKept
    <3>2. Settled
      BY Zenon, <2>1, <3>1 DEF IInv, WinInv, Working
    <3>3. wf # "end"
      BY Zenon, <2>1, <3>1 DEF IInv, EndInv
    <3>4. "cancelled" \in Terminals /\ "cancelled" # "completed"
      BY Zenon DEF Terminals
    <3> QED BY Zenon, <3>1, <3>2, <3>3, <3>4
  <2>4. CASE AfterExit
    <3>1. /\ place = "after" /\ staged = None /\ exit # None /\ terminal' = TRUE
          /\ synthesized' = (synthesized \/ exit = "cancelled") /\ state' = "emit"
          /\ closing' = Event(exit, None) /\ place' = "top" /\ DataKept
          /\ UNCHANGED <<staged, stagedEnds, acked, established, emitting, awaiting, res, probing, defer>>
          /\ UNCHANGED <<cancelled, delivery, sequence, lease, armed, woken, out, erred>>
      BY Zenon, <2>4 DEF AfterExit, workflowVars, gateVars, flowVars, roundVars, durableVars, historyVars, DataKept
    <3>2. awaiting = None
      BY Zenon, <2>1, <3>1 DEF IInv, GateInv
    <3>3. exit = "cancelled" => Settled
      BY Zenon, <2>1, <3>1 DEF IInv, WinInv
    <3>4. /\ exit = "completed" => Complete
          /\ wf = "end" => exit = "completed" /\ established
      BY Zenon, <2>1, <3>1 DEF IInv, EndInv
    <3>5. synthesized' \in BOOLEAN /\ (exit = "cancelled" => synthesized') /\ (wf = "end" => ~synthesized')
      BY Zenon, <2>1, <3>1, <3>4
    <3> QED BY Zenon, <2>2, <3>1, <3>2, <3>3, <3>4, <3>5
  <2> QED BY Zenon, <2>3, <2>4
<1>2. state = "running" /\ delivery = None /\ lease /\ ~erred
  BY Zenon, <1>1 DEF IInv, StreamInv
<1>3. closing' \in Events /\ closing'.what = how /\ closing' # None
  <2>1. Event(how, None) \in Events /\ Event(how, None).what = how
    BY DEF Event, Events, Whats
  <2> QED BY Zenon, <1>1, <2>1, NoneAssumption
<1>4. /\ (Settled' <=> Settled) /\ (Complete' <=> Complete) /\ (task'.finish => task'.executed)
      /\ wf' = wf /\ exit' = exit /\ lease' /\ (wf' = "end" => final' /\ exit' \in {None, "completed"})
  BY Zenon, <1>1, <1>2, DecisionKept DEF DataKept
<1>5. FlowTypes'
  BY ZenonT(30), <1>1, <1>4 DEF IInv, Types, FlowTypes
<1>6. StreamTypes'
  BY Zenon, <1>1, <1>3 DEF IInv, Types, StreamTypes, Places
<1>7. StreamInv'
  BY Zenon, <1>1, <1>2, <1>3, <1>4 DEF StreamInv
<1>8. Numbered'
  BY Zenon, <1>1 DEF IInv, Numbered
<1>9. WinInv'
  BY Zenon, <1>1, <1>2, <1>3, <1>4 DEF WinInv, Working
<1>10. EndInv'
  BY Zenon, <1>1, <1>2, <1>3, <1>4 DEF EndInv, Working
<1>11. state' # "running" /\ state' # "done"
  BY Zenon, <1>1
<1> QED BY Zenon, <1>1, <1>2, <1>5, <1>6, <1>7, <1>8, <1>9, <1>10, <1>11, DecidesStep

-----------------------------------------------------------------------------
(* The theorems.                                                           *)

\* A turn that was just opened.
LEMMA InitIInv == ASSUME Init PROVE IInv
<1>1. /\ cancelled = FALSE /\ staged = None /\ stagedEnds = FALSE /\ acked = FALSE /\ established = FALSE /\ defer = 0
      /\ wf = "start" /\ emitting = FALSE /\ awaiting = None /\ res = None /\ probing = FALSE /\ exit = None
      /\ rounds = 0 /\ items = 0 /\ calls = <<>> /\ idx = 0 /\ total = 0 /\ seen = {} /\ local = FALSE /\ task = NoTask
      /\ ledger = [c \in Calls |-> "absent"] /\ final = FALSE /\ ran = [c \in Calls |-> 0]
      /\ granted = [c \in Calls |-> "none"] /\ submitted = {}
      /\ place = "returned" /\ state = "running" /\ closing = None /\ delivery = None /\ sequence = 0
      /\ terminal = FALSE /\ synthesized = FALSE /\ lease = TRUE /\ armed = FALSE /\ woken = FALSE /\ out = <<>>
      /\ erred = FALSE
  BY Zenon DEF Init, WorkflowInit
<1>2. Len(out) = 0 /\ Len(calls) = 0 /\ 1..Len(out) = {} /\ 2..Len(out) = {} /\ 1..Len(calls) = {} /\ Said = {}
  <2>1. Len(out) = 0 /\ Len(calls) = 0 /\ 1..0 = {} /\ 2..0 = {}
    BY <1>1
  <2> QED BY Zenon, <2>1 DEF Said
<1>3. FlowTypes
  BY Zenon, <1>1 DEF FlowTypes, WorkflowPlaces
<1>4. RoundTypes
  <2>1. /\ 0 \in 0..MaxRounds /\ 0 \in 0..MaxItems /\ 0 \in 0..(MaxPerRound + 1) /\ 0 \in 0..MaxCalls /\ 0 <= MaxPerRound
        /\ <<>> \in Seq(Calls)
    BY LimitsAssumption
  <2> QED BY Zenon, <1>1, <1>2, <2>1, FreshTask DEF RoundTypes
<1>5. LedgerTypes
  <2>1. 0 \in Nat
    OBVIOUS
  <2> QED BY Zenon, <1>1, <2>1 DEF LedgerTypes
<1>6. StreamTypes
  <2>1. 0 \in Nat /\ <<>> \in Seq(Yields)
    OBVIOUS
  <2> QED BY Zenon, <1>1, <2>1 DEF StreamTypes, Places
<1>7. StreamInv /\ GateInv /\ AwaitInv /\ FlightInv /\ TellInv
  BY Zenon, <1>1 DEF StreamInv, GateInv, AwaitInv, FlightInv, TellInv
<1>8. Numbered /\ OrderedEvents
  BY Zenon, <1>1, <1>2 DEF Numbered, OrderedEvents
<1>9. ~(0 > 0)
  OBVIOUS
<1>10. RoundInv
  BY Zenon, <1>1, <1>2 DEF RoundInv, CallPlaces, Untouched
<1>11. CallInv
  BY Zenon, <1>1, <1>9 DEF CallInv
<1>12. WinInv /\ ReportInv
  BY Zenon, <1>1, <1>2, <1>9 DEF WinInv, Settled, ReportInv
<1>13. EndInv
  <2>1. exit # "completed"
    BY Zenon, <1>1, NoneAssumption DEF Terminals
  <2> QED BY Zenon, <1>1, <2>1, FreshTask DEF EndInv, Working
<1>14. CompletionWins /\ CompletionIsDurable
  BY Zenon, <1>1, <1>2, SaidIsYielded DEF CompletionWins, CompletionIsDurable
<1> QED BY Zenon, <1>3, <1>4, <1>5, <1>6, <1>7, <1>8, <1>10, <1>11, <1>12, <1>13, <1>14 DEF IInv, Types

\* A step that changes nothing.
LEMMA StutterStep == ASSUME IInv, UNCHANGED vars PROVE IInv'
<1>1. /\ UNCHANGED workflowVars
      /\ UNCHANGED <<cancelled, place, state, closing, delivery, sequence, terminal, synthesized, lease, armed, woken, out,
                     erred>>
  BY Zenon DEF vars, streamVars
<1>2. UNCHANGED <<staged, stagedEnds, acked, established, emitting, awaiting, res, probing, defer>> /\ DataKept
  BY Zenon, <1>1 DEF workflowVars, gateVars, flowVars, roundVars, durableVars, historyVars, DataKept
<1>3. Attends
  BY Zenon, <1>1, <1>2 DEF Attends
<1>4. StreamTypes' /\ StreamInv'
  BY Zenon, <1>1, <1>2 DEF IInv, Types, StreamTypes, StreamInv
<1>5. GateInv'
  BY Zenon, <1>1, <1>2 DEF IInv, GateInv, DataKept
<1> QED BY Zenon, <1>3, <1>4, <1>5, AttendsStep

\* Every step keeps the invariant.
LEMMA NextIInv == ASSUME IInv, [Next]_vars PROVE IInv'
<1>1. CASE Next
  <2>1. CASE Delivered
    BY Zenon, <2>1, DeliveredStep, DeliveredEndStep
  <2> QED BY Zenon, <1>1, <2>1, AttendingSteps, SinkAnswersStep, AnswerWakesStep, SilentStep, DeliverCancellationStep,
     ObserveCancellationStep, StageTerminalStep, AfterEndStep, AfterStagedStep, RunWorkflowStep
     DEF Next, PollStep, Environment
<1> QED BY Zenon, <1>1, StutterStep

\* The invariant of the turn: gate, stream, calls and what was yielded about them
\* agree after every step of poll_next, of the workflow and of its environment.
THEOREM Invariance == Spec => []IInv
BY InitIInv, NextIInv, PTL DEF Spec

\* The state of the stream and of run_turn_inner has its types.
THEOREM TypeCorrect == Spec => []TypeOK
<1>1. ASSUME IInv PROVE TypeOK
  <2>1. /\ defer \in 0..1
        /\ Len(calls) \in 0..MaxPerRound /\ \A i \in 1..Len(calls) : calls[i] \in Calls
    <3>1. defer \in {0, 1} /\ calls \in Seq(Calls) /\ Len(calls) <= MaxPerRound
      BY Zenon, <1>1 DEF IInv, Types, FlowTypes, RoundTypes
    <3> QED BY <3>1, LimitsAssumption
  <2>2. \A i \in 1..Len(out) : [what |-> out[i].what, call |-> out[i].call] \in Events
    <3>1. out \in Seq(Yields)
      BY Zenon, <1>1 DEF IInv, Types, StreamTypes
    <3>2. \A i \in 1..Len(out) : out[i] \in Yields
      BY <3>1
    <3>3. \A i \in 1..Len(out) : out[i].what \in Whats /\ out[i].call \in Calls \cup {None}
      BY Zenon, <3>2 DEF Yields
    <3> QED BY Zenon, <3>3 DEF Events
  <2>3. /\ {stagedEnds, acked, established, emitting, probing, local, final} \subseteq BOOLEAN
        /\ {terminal, synthesized, lease, armed, woken, erred} \subseteq BOOLEAN
    BY Zenon, <1>1 DEF IInv, Types, FlowTypes, RoundTypes, LedgerTypes, StreamTypes
  <2> QED BY Zenon, <1>1, <2>1, <2>2, <2>3 DEF TypeOK, IInv, Types, FlowTypes, RoundTypes, LedgerTypes, StreamTypes
<1> QED BY <1>1, Invariance, PTL

\* The stream is one orderly account of its turn: the numbers that stage gives out
\* increase, without a gap but for a superseded event, and a terminal event is the last
\* thing yielded and releases the lease.
THEOREM EventsAlwaysOrdered == Spec => []OrderedEvents
<1>1. IInv => OrderedEvents
  BY Zenon DEF IInv
<1> QED BY <1>1, Invariance, PTL

\* What the stream yields about tools is true and in time: the start, the request and
\* the decision before the execution, the end after its durable result, a denial only
\* of a call that did not run.
THEOREM ReportsAlwaysTrue == Spec => []ReportsAreTrue
<1>1. IInv => ReportsAreTrue
  BY Zenon, SaidIsYielded DEF IInv, ReportInv, ReportsAreTrue
<1> QED BY <1>1, Invariance, PTL

\* A turn that reports its cancellation has stored and reported the result of every
\* completion-wins execution it started (defer_cancellation).
THEOREM CompletionAlwaysWins == Spec => []CompletionWins
<1>1. IInv => CompletionWins
  BY Zenon DEF IInv
<1> QED BY <1>1, Invariance, PTL

\* A turn that reports completion has saved what it completed with, and a successful
\* final save cannot turn into a cancelled turn (await_final_save).
THEOREM CompletionAlwaysDurable == Spec => []CompletionIsDurable
<1>1. IInv => CompletionIsDurable
  BY Zenon DEF IInv
<1> QED BY <1>1, Invariance, PTL

-----------------------------------------------------------------------------
(* The calls of a turn do what ToolLedger promises.                        *)

\* What the ledger does not see.
LEMMA LedgerStutters ==
    ASSUME UNCHANGED <<ledger, ran, granted, lease>>
    PROVE  UNCHANGED Ledger!ledgerVars
BY Zenon DEF Ledger!ledgerVars

\* The steps of the workflow that the ledger does not see.
LEMMA WorkflowOfLedger ==
    ASSUME RunWorkflow
    PROVE  /\ lease' = lease /\ place = "workflow"
           /\ \/ UNCHANGED <<ledger, ran, granted>>
              \/ \E mode \in {"cancellable", "completes"} : PrepareFree(mode) \/ PrepareAsks(mode)
              \/ Authorized \/ Refused \/ Execute
BY ZenonT(30) DEF RunWorkflow, WorkflowStep, WorkflowPends, Start, Acknowledged, Aborts, RoundBegins, RoundFails,
   ProviderStarts, NextItem, AnswerFails, TextItem, CallItem, ItemFails, StopItem, ToolStopItem, PersistArguments,
   ArgumentsPersisted, CommitRound, RoundCommitted, PrepareErrs, PrepareInvalid, Authorize, Decided, AdmissionRevoked,
   Executed, OutputRejected, RegistrationClashes, OutputValid, StoreResult, ResultLost, ResultStored, CallFinished,
   TurnFinished, FinalSave, FinalProbe, FinalSaved, FinalFails, FinalInterrupted, Completed, Fails, FailsForGood,
   durableVars, historyVars

\* A grant of the workflow is a request or a decision of the ledger.
LEMMA GrantOfLedger ==
    ASSUME IInv, RunWorkflow,
           \/ \E mode \in {"cancellable", "completes"} : PrepareFree(mode) \/ PrepareAsks(mode)
           \/ Authorized \/ Refused
    PROVE  Ledger!LedgerNext
<1>1. place = "workflow" /\ lease' = lease
  BY Zenon, WorkflowOfLedger
<1>2. Working /\ lease
  BY Zenon, <1>1, AtWork
<1>3. /\ UNCHANGED <<ledger, ran>> /\ wf \in {"call", "authorize"}
      /\ \/ wf = "call" /\ granted' = [granted EXCEPT ![Current] = "free"]
         \/ wf = "call" /\ granted' = [granted EXCEPT ![Current] = "asked"]
         \/ wf = "authorize" /\ granted' = [granted EXCEPT ![Current] = "allowed"]
         \/ wf = "authorize" /\ granted' = [granted EXCEPT ![Current] = "denied"]
  BY Zenon DEF PrepareFree, PrepareAsks, Authorized, Refused, Idle, Ready, At, durableVars
<1>4. Current \in Calls
  BY Zenon, <1>2, <1>3, InHand DEF CallPlaces
<1>5. ledger[Current] = "unknown" /\ (wf = "call" => granted[Current] = "none") /\ (wf = "authorize" => granted[Current] = "asked")
  BY Zenon, <1>2, <1>3 DEF IInv, CallInv, Recorded
<1>6. Ledger!Ask(Current) \/ Ledger!Decide(Current)
  BY Zenon, <1>1, <1>3, <1>5 DEF Ledger!Ask, Ledger!Decide
<1> QED BY Zenon, <1>2, <1>4, <1>6 DEF Ledger!LedgerNext

\* The first poll of an execution is the run of its call.
LEMMA ExecuteOfLedger == ASSUME IInv, RunWorkflow, Execute PROVE Ledger!LedgerNext
<1>1. place = "workflow" /\ lease' = lease
  BY Zenon, WorkflowOfLedger
<1>2. Working /\ lease
  BY Zenon, <1>1, AtWork
<1>3. wf = "execute" /\ awaiting = None /\ ran' = [ran EXCEPT ![Current] = @ + 1] /\ UNCHANGED <<ledger, granted>>
  BY Zenon DEF Execute, Idle, At, durableVars
<1>4. Current \in Calls /\ ran \in [Calls -> Nat]
  BY Zenon, <1>2, <1>3, InHand DEF CallPlaces, IInv, Types, LedgerTypes
<1>5. /\ ledger[Current] = "unknown" /\ granted[Current] \in {"free", "allowed"} /\ ran[Current] = 0
      /\ \A d \in Calls : ran[d] > 0 => ledger[d] = "result" \/ d = Current
  BY Zenon, <1>2, <1>3 DEF IInv, CallInv
<1>6. ~(ran[Current] > 0)
  BY Zenon, <1>3, <1>4, <1>5, RanOnce
<1>7. \A d \in Calls : ran[d] > 0 => ledger[d] = "result"
  BY Zenon, <1>5, <1>6
<1>8. ran' = [ran EXCEPT ![Current] = 1]
  <2>1. 0 + 1 = 1
    OBVIOUS
  <2> QED BY Zenon, <1>3, <1>5, <2>1
<1>9. Ledger!Run(Current)
  BY Zenon, <1>1, <1>3, <1>5, <1>7, <1>8 DEF Ledger!Run
<1> QED BY Zenon, <1>2, <1>4, <1>9 DEF Ledger!LedgerNext

\* A commit that takes effect puts the calls of its round on record, a replaced
\* placeholder settles the call in hand, whether or not the store reports it.
LEMMA AnswerOfLedger == ASSUME IInv, AnswerWakes PROVE Ledger!LedgerNext \/ UNCHANGED Ledger!ledgerVars
<1>1. PICK durable \in BOOLEAN : Effect(awaiting, durable)
  BY Zenon DEF AnswerWakes, Answer
<1>2. awaiting # None /\ res = None /\ UNCHANGED <<ran, granted, lease>>
  BY Zenon DEF AnswerWakes, Answer, historyVars
<1>3. Working /\ lease /\ (awaiting = "commit" => wf = "commit") /\ (awaiting = "replace" => wf = "store")
  BY Zenon, <1>2, Awaiting
<1>4. CASE awaiting = "commit" /\ durable
  <2> DEFINE S == {c \in Calls : \E i \in 1..Len(calls) : calls[i] = c}
  <2>1. ledger' = [c \in Calls |-> IF \E i \in 1..Len(calls) : calls[i] = c THEN "unknown" ELSE ledger[c]]
    BY <1>1, <1>4 DEF Effect
  <2>2. ledger' = [c \in Calls |-> IF c \in S THEN "unknown" ELSE ledger[c]]
    BY Zenon, <2>1
  <2>3. \A c \in S : ledger[c] = "absent"
    BY Zenon, <1>2, <1>3, <1>4 DEF IInv, RoundInv
  <2>4. S \in SUBSET Calls
    BY Zenon
  <2> HIDE DEF S
  <2>5. Ledger!Record(S)
    BY Zenon, <1>2, <2>2, <2>3 DEF Ledger!Record
  <2> QED BY Zenon, <1>3, <2>4, <2>5 DEF Ledger!LedgerNext
<1>5. CASE awaiting = "replace" /\ durable
  <2>1. ledger' = [ledger EXCEPT ![Current] = "result"]
    BY <1>1, <1>5 DEF Effect
  <2>2. Current \in Calls
    BY Zenon, <1>3, <1>5, InHand DEF CallPlaces
  <2>3. ledger[Current] = "unknown" /\ (ran[Current] = 0 => granted[Current] \in {"none", "denied"})
    <3>1. 0 # 1
      OBVIOUS
    <3> QED BY Zenon, <1>2, <1>3, <1>5, <3>1 DEF IInv, CallInv
  <2>4. Ledger!Settle(Current)
    BY Zenon, <1>2, <2>1, <2>3 DEF Ledger!Settle
  <2> QED BY Zenon, <1>3, <2>2, <2>4 DEF Ledger!LedgerNext
<1>6. CASE awaiting \notin {"commit", "replace"} \/ ~durable
  <2>1. ledger' = ledger
    BY Zenon, <1>1, <1>2, <1>3, <1>6, EffectOf
  <2> QED BY Zenon, <1>2, <2>1, LedgerStutters
<1> QED BY Zenon, <1>4, <1>5, <1>6

\* finish and Drop end the turn, and leave its calls alone.
LEMMA EndOfLedger ==
    ASSUME IInv, DeliverCancellation \/ SinkFailed \/ DropTurn \/ (Delivered /\ delivery.what \in Terminals)
    PROVE  Ledger!LedgerNext
<1>1. UNCHANGED <<ledger, ran, granted>> /\ lease' = FALSE
  BY Zenon DEF DeliverCancellation, SinkFailed, DropTurn, Delivered, Finish, durableVars, historyVars
<1>2. lease
  BY Zenon DEF DeliverCancellation, SinkFailed, DropTurn, Delivered, IInv, StreamInv
<1>3. (~lease') = TRUE
  BY Zenon, <1>1
<1>4. Ledger!End
  BY Zenon, <1>1, <1>3 DEF Ledger!End
<1> QED BY Zenon, <1>2, <1>4 DEF Ledger!LedgerNext

\* Every step of the turn is a step of the ledger, or one it does not see.
LEMMA LedgerStep == ASSUME IInv, [Next]_vars PROVE [Ledger!LedgerNext]_(Ledger!ledgerVars)
<1>1. CASE RunWorkflow
  BY Zenon, <1>1, WorkflowOfLedger, GrantOfLedger, ExecuteOfLedger, LedgerStutters
<1>2. CASE DeliverCancellation \/ SinkFailed \/ DropTurn \/ (Delivered /\ delivery.what \in Terminals)
  BY Zenon, <1>2, EndOfLedger
<1>3. CASE \/ Poll \/ PollSink \/ SinkPends \/ (Delivered /\ delivery.what \notin Terminals) \/ ObserveCancellation
           \/ PollWorkflow \/ StageTerminal \/ AfterCancelled \/ AfterStaged \/ AfterPending \/ AfterExit \/ Cancel
           \/ SinkAnswers \/ UNCHANGED vars
  <2>1. UNCHANGED <<ledger, ran, granted, lease>>
    BY ZenonT(30), <1>3 DEF Poll, PollSink, SinkPends, Delivered, ObserveCancellation, PollWorkflow, StageTerminal,
       AfterCancelled, AfterStaged, AfterPending, AfterExit, Cancel, SinkAnswers, Abandon, vars, workflowVars, streamVars,
       durableVars, historyVars
  <2> QED BY Zenon, <2>1, LedgerStutters
<1>4. CASE AnswerWakes
  BY Zenon, <1>4, AnswerOfLedger
<1> QED BY Zenon, <1>1, <1>2, <1>3, <1>4 DEF Next, PollStep, Environment

\* A turn does with its calls what ToolLedger promises: a call is on record before it
\* runs, runs at most once, with authority and after the results of those before it are
\* durable, its result is never taken back, and nothing happens once the lease is
\* released.
THEOREM TurnImplementsLedger == Spec => ImplementsLedger
<1>1. Init => Ledger!LedgerInit
  <2> SUFFICES ASSUME Init PROVE Ledger!LedgerInit
    OBVIOUS
  <2>1. (~lease) = FALSE
    BY Zenon DEF Init
  <2> QED BY Zenon, <2>1 DEF Init, WorkflowInit, Ledger!LedgerInit
<1>2. IInv /\ [Next]_vars => [Ledger!LedgerNext]_(Ledger!ledgerVars)
  BY Zenon, LedgerStep
<1> QED BY <1>1, <1>2, Invariance, PTL DEF Spec, ImplementsLedger, Ledger!LedgerSpec
=============================================================================
