# Verification of machine-god

TLA+ models of the machine-god agent runtime (Rust, `src/crates/`), checked with
TLC on small instances and, for the parts that matter most, proved with TLAPS for
every value of the constants. `PROJECT.json` maps each definition to the source
lines it models and lists every run, mutant, hazard and theorem.

## The system

machine-god is an agent engine. The crates are:

| crate | what it holds |
|---|---|
| `machine-god-core` | traits and the runtime-agnostic engine: sessions, turns, tools, permissions, cancellation, events |
| `machine-god-native` | the store, tools, terminals, background processes, MCP, ACP and hosts of a Unix machine |
| `machine-god-cli` | commands and rendering over the native crate |
| `machine-god-testkit` | deterministic doubles for the traits of core |
| `machine-god-terminal-sys` | process inventory system calls |

Everything durable and everything concurrent in a conversation passes through one
path. A host loads a *session* from an `Engine` (`engine.rs`). The session is a
canonical record in memory, shared by all handles of that id, over a record in a
`SessionStore` that other processes share. A *turn* is admitted by an exclusive
lease and a durable reservation of its turn id. It is a stream (`Turn`) that polls
a workflow: model request, stream items, tool calls, next round. Each transcript
change is a compare-and-swap save. Each event goes through the event sink before
the consumer sees it. A `CancellationToken` may fire at any moment. Under all that,
`FileSessionStore` turns a save into system calls on a few files.

Two more parts stand beside that path. A tool may start a *background process*: the
core fixes the order of the start, a native pool owns the process until its terminal
record is published, and a store shared by all hosts of the workspace keeps the
records. A tool that needs a human decision puts a *prompt* into an inbox that one
UI task serves.

The models follow that path from the bottom up:

```
 Turn + TurnWorkflow   --refines-->  ToolLedger         a turn: stream, workflow, tools
        |  commits          TurnMetadata                editors beside the live turn
 SessionState          --refines-->  RecordStore        canonical state, lease, debt, CAS
        |  save / load
 FileSessionStore      --refines-->  RecordStore        files, flock, fsync, failures
 SessionRegistry                                        who keeps a state and the host alive
 CancellationToken                                      used by the turn and its futures

 BackgroundSupervisor  --extends-->  BackgroundHistory  starts, retention pool, shutdown
 BackgroundStore       --refines-->  BackgroundHistory  counter, records, lock files
 InteractivePrompts    --refines-->  PromptExchange     inbox, askers, one UI task
```

`RecordStore` is the seam: `FileSessionStore` is shown to implement it, and the
store that `SessionState` contains as one atomic compare-and-swap is shown to
implement it too. `BackgroundHistory` is the seam of the other stack: the store is
shown to implement it, and the supervisor is written over it.

## Modules and the code

### CancellationToken (`core/src/cancel.rs`)

The token's flag, its waiter registry, and any number of `Cancelled` futures and
`cancel` callers. One step is one atomic operation or one critical section:
`cancel` is `CancelSwap`, `CancelTake` (the registry) and one `CancelWake` per
waker. `poll` is a flag check, `RegisterInsert` under the mutex, a second check
and, if needed, a deregistration. Waiter ids come from a counter of width
`IdSpace` that wraps (`wrapping_add`), so reuse of ids and the exhaustion
assertion are within reach.

### SessionState (`core/src/session.rs`, `core/src/engine.rs`)

One session id, several engines, several futures per engine.

| state | code |
|---|---|
| `stored` | the durable record, compared and replaced atomically under the store's lock |
| `canon`, `persisted` | `SessionData::record`, `SessionData::persisted` |
| `lease` | `SessionState::active_turn`, held by a `TurnLease` |
| `debt` | `metadata_reconciliation_required` |
| `pc`, `kind`, `snap`, `was`, `cand`, `got`, `base`, `tries` | the locals of a future: load, metadata check or edit, ordinary or prepared reservation, transcript append or replacement |
| `used`, `grants`, `floor` | history, read only by properties and by the freshness of incarnation ids |

A store call is two steps, its effect and the poll that reads its answer. A future
can be dropped in between, so the model has every committed-but-unseen save. A
save may also fail after it committed. `DropState` drops an engine's state when its
last handle goes. `LoseRecord` (external, at most `MaxLosses`) is the record file
vanishing. Records keep incarnation, revision, next turn sequence, the messages
with their author, and the author of the metadata; contents are left out.

### TurnMetadata (`core/src/session/turn_metadata.rs`)

`TurnMetadata` extends `SessionState` with the editors of a live turn. An editor
reads the metadata and exchanges it if it is unchanged, in a loop over conflicts and
reloads. It holds no lease, so its loads and saves run beside the commits of its own
turn and, once that turn has ended, beside whatever is admitted next.

| state | code |
|---|---|
| `scope` | the `TurnMetadataScope` a live turn keeps open |
| `place`, `within` | the editor's future and the scope it works in |
| `expected` | the record of its `TurnMetadataSnapshot` |
| `current`, `change`, `answer`, `passes` | the locals of one pass of the loop |

The actions of `SessionState` are taken whole; the ones that end a turn also close
its scope. The metadata is one entry. Cancellation and a closed host make
`ensure_open` fail, so an editor may fail at any of its checks. A scope is named by
incarnation and allocator position, which is unique while no record is lost. The
wakers of editors that wait for one another, and byte limits, are left out.

### SessionRegistry (`core/src/engine.rs`)

`SessionState` starts from the fact that an engine has one canonical state of an id.
`SessionRegistry` is where that fact comes from: the registry's weak `entry`, the
states as allocations (`inc`), the callers with the strong references they hold
(`mine`), and the owners of the host resource (`votes`). A step is one critical
section of the registry or one look at a reference count. Between the last
reference to a state and the removal of its entry (`remove_if_matches`) other
callers run. Futures of a session handle hold its state and not the host; they
may be admitted after the handle went. Ids are independent, so there is one.

### TurnWorkflow, Turn and ToolLedger (`core/src/session.rs`)

`TurnWorkflow` is `run_turn_inner`: rounds, stream items, the placeholder commit,
preparation, permission, execution (plain and completion-wins), result commits,
the final save. `Turn` is `poll_next` around it: the emission gate, delivery to
the sink, cancellation, supersession of a pending event, terminal bookkeeping,
the waiter and the waker, and drop. Steps of `Turn` lie between two looks at the
token. Futures of the host (model, tools, permission, store, sink) answer when
they like, in any way their trait allows.

`ToolLedger` is the abstract promise about tool calls: a call is recorded durably
as unknown before it has an effect, runs at most once, and what is recorded
afterwards is its result. `ImplementsLedger` is the refinement.

### FileSessionStore and RecordStore (`native/src/session_store.rs`, `session_store/initial.rs`, `session_maintenance/storage.rs`, `.../cleanup.rs`)

The three files of a session id (data, temporary, lock), the private staging files
of maintenance, and workers that run load, save, create, reset, initial creation
and its confirmation, migration, recovery into an id and cleanup, with their
controlled (non-blocking, cancellable) variants. Steps are system calls: probe,
flock, read, create the temporary, write and fsync it, rename, fsync the directory.

The file system is external and modelled from how the code uses it:

- a rename is atomic for running processes; after a power failure the data name
  refers to something it referred to since the last directory fsync (`maybe`);
- a file renamed before it was synced may come back torn;
- `flock` belongs to the open file, so a spawned child shares it until it execs;
- a published file is never written again, so its record identifies it.

### BackgroundStore and BackgroundHistory (`native/src/background_store.rs`)

The allocator counter, a data file and a lock file per identifier, and the flocks on
them, shared by the hosts of one workspace. A job (prepare, reserve, reconcile) runs
under the allocator lock and compacts the history first. Its steps are the scans, one
`Classify` and `Freeze` per lock file, the removals, and the creation and flock of the
new identifier. Owners publish and replace their record without that lock, and a
host may die at any step (`Crash`), which releases its flocks and leaves the files.
`Select`, `Revalidate` and `ProveOrphans` are one step each: what they look at (records
and lock files without an owner) cannot change while the allocator lock is held.
Compaction takes one batch, its victims any eligible subset; the temporaries of atomic
writes and the byte budget are left out.

`BackgroundHistory` is the promise: an identifier is handed out once, a record changes
only in the hands of its lease or after that lease is gone, a terminal record is final
until it is forgotten.

### BackgroundSupervisor (`core/src/background.rs`, `native/src/background_supervisor.rs`)

`Step` is `start_polled`: admission, reservation, preparation behind the barrier,
publication, release, activation, retention, with each early return and its cleanup.
`Work` is a worker of the retention pool: receive, check for closing, wait, publish,
put the slot back. The rescue worker takes the jobs whose channel is full or gone.
`Shutdown` closes the pool, stops the registered jobs and tells the idle workers. A
start is named by the identifier it will reserve.

Results are told apart as ok, cancelled and failed. A `try_lock` that loses is a
skipped step. A permit or job dropped with its future runs its Drop. The loop of
shutdown over the retained operations is one step. Of the blocking executor only the
bound on running starts is kept.

### InteractivePrompts and PromptExchange (`native/src/interactive_prompts.rs`, `interactive_prompts/`)

Registrations (reserved, live, gone), requests in their three critical sections, the
polling and dropping of their futures, both byte budgets, and the UI task that pages,
shows, answers, cancels and sleeps on one waker. An action is one critical section of
the inbox mutex with the wakes it sends.

`PromptExchange` is the promise to a session: an answer is given once, for a prompt
that was shown, and is delivered only while the registration that asked is alive.

Left out: rule proposals, exhaustion of the u64 generations, mutex poisoning, the
order of the queue, and responses that are rejected without changing anything.

## Runs

Between them the passing runs fire every disjunct of their next-state relations. Every property has a mutant: a plausible bug in the modelled code under which
TLC finds that property violated.

| run | question | bounds |
|---|---|---|
| `cancel` | is a wakeup ever lost, an id reused, a registry entry leaked; does every waiting future resolve | 2 futures, 2 wakers, 2 cancellers, 3 ids |
| `session_safety` | unique turn ids, no lost update, beliefs durable, commits keep what is not theirs (the transcript included), store refinement | 2 engines, 1 future each, loads, edits, reservations, commits, 2 incarnations, revisions to 3, 2 turns |
| `session_futures` | exclusion by the lease; does a late load or save rewind the canonical record | 1 engine, 2 futures, revisions to 3, 1 loss |
| `turn_metadata` | editors beside a live turn: does an exchange replace more than it read; is an uncertain edit undone when the record vanishes; does every operation end | 1 engine, 2 futures, 1 editor, revisions to 3, 2 turns, 2 tries, 1 loss |
| `registry` | is there ever a second canonical state or a stale entry; can a closed host be reopened | 3 callers, 3 allocations, 2 incarnations |
| `turn` | event order, one terminal event, lease, tool effects, completion wins, final save, ledger refinement; does a cancelled turn end though nobody answers, and a served one | 2 calls, 3 rounds, 4 stream items |
| `store_safety` | do acknowledged saves survive, the lock, store refinement (a torn record is no record) | 2 workers, revisions to 3, 1 failure, 1 child |
| `store_maintenance` | acknowledged saves, temporaries and answers against creation, confirmation, recovery, migration and cleanup | 2 workers, revisions to 2, 1 failure |
| `background_store` | does a host's death ever leave a workspace that later jobs refuse; refinement of the history | 2 hosts, 4 identifiers, 2 retained records |
| `background_start` | is the history true of the processes; is a slot lost or doubled; does shutdown stop every process | 2 starts, 2 slots |
| `background_retention` | violation: a retained job without an owner, see Findings | 2 starts, 2 slots |
| `prompts` | exact byte budgets, no lost wakeup, refinement of the exchange, every prompt resolves | 2 askers, 2 registrations of one owner, 2 answers, sizes 1 and 2, payload limit 3, response limit 2 |

Why the bounds are enough. Two concurrent actors show every pairwise race.
Revision 3 allows create, a competing save and a save on top of it;
the exhaustion error is reached too. One failure is enough because every failure
returns the system to a state a fresh start could find, with the residue of one
interrupted publication; a second only repeats it. Three rounds, two calls and four
stream items give two calls in one round and a round that ends the turn after them,
and a second call round whose placeholders, results and failures follow a first one.
Limits of the code (items, calls, transcript messages, conflict retries) are constants
small enough to be hit; the error of the round limit may come at every round.

Three callers in `registry` are the one that drops, the one that registers the next
state and the one that would find it missing. In `turn_metadata` one editor is
enough: editors of one scope exclude each other, and an editor left over from an
earlier turn meets the next turn's operations as futures. With two retained records
and four identifiers a reservation has to compact, twice, while the other host
publishes. Two starts on two slots are the two permits whose drop and take-over race
with shutdown. Two prompts of size 2 exceed the payload limit and two responses the
response limit; the limit on pending prompts is not binding with two askers.

`CHECK_DEADLOCK FALSE` is set for the token, the turn, the registry, the background
runs and the prompts: a resolved token, a finished turn, a closed host whose handles
are gone, a store whose identifiers are used up, a pool that was shut down and a
closed inbox have nothing left to do.

## Findings

`background_retention`. Dropping an unused permit puts its slot back
(`background_supervisor.rs:2851`) before it looks at `closing` and sends `Shutdown`
(2853). Another start can take the slot in between and pass both of its own looks at
`closing`. Then shutdown begins, the first permit sends `Shutdown`, the worker leaves
its loop, and the job that the second start sends into the channel is dropped with the
receiver. Its start answered Ok; nobody waits for the process or publishes a terminal
record. `core/src/background.rs:553` and `docs/background-supervisor.md:202` promise
exactly one owner. `background_start` shows what is true all the same: dropping the job ends
the process or gives it up as unproven, and no untrue terminal record is written.

A smaller disagreement has no run of its own. The comment at `turn_metadata.rs:211`
says that re-arming the publication debt prevents an overlapping load from clearing it.
A load of an operation admitted after the turn ended stores `false` unconditionally
(`session.rs:971`), also when its read took effect before the edit was published and
its answer arrives after the re-arming. `UncertainEditSurvives` therefore speaks of
edits abandoned while no operation is being admitted (`RaiseEditFloor`).

## Fairness

- `CancellationToken!FairSpec`: a canceller that won runs to its end (it is a
  plain function), and a woken task is polled (the contract of every executor).
- `SessionState!FairSpec`: an admitted future is polled and the store answers it.
  No fairness on the kind of answer: it may conflict or fail every time.
- `Turn!FairSpec`: the stream is polled when it is ready or woken. Nothing is
  assumed of sink, model, tools or store; the property leaves out the time in which
  a completion-wins tool defers the cancellation.
- `TurnMetadata!FairEditSpec`: the fairness of `SessionState`; nothing is assumed of
  an editor, so an operation ends though editors interfere or never move.
- `BackgroundSupervisor!FairSpec`: a start that has entered, a worker and a begun
  shutdown go on (they are threads). A process that nobody stops may run for ever.
- `InteractivePrompts!FairSpec`: a woken future is polled, and an awake UI task goes
  on: the person at the prompt answers or cancels in the end. Nobody has to ask,
  retire a registration or close the inbox.
- `TurnEnds` assumes moreover that every future of the host and the sink answer.

`FileSessionStore`, `SessionRegistry` and `BackgroundStore` have safety properties only.

## Proofs

| module | theorems |
|---|---|
| `CancellationTokenProofs` | `TypeCorrect`, `NoWakeupLost`, `EntriesStayOwned` |
| `SessionStateProofs` | of `SessionState`: `TypeCorrect`, `LeaseIsExclusive`, `TurnsAreUnique`, `BeliefsDurable`, `NoUpdateIsLost`, `CanonicalNeverRewinds`, `CommitsKeepTheRest`, `EnginesImplementStore`; of `TurnMetadata`: `EditTypeCorrect`, `EditLeaseIsExclusive`, `EditTurnsAreUnique`, `EditsKeepTheirRest`, `EditsNeverRewind`, `UncertainEditsSurvive`, `EditBeliefsDurable`, `NoEditIsLost`, `EditsLeaveCommitsAlone`, `EditorsImplementStore` |
| `FileSessionStoreProofs` | `Invariant`, `AcknowledgedAlwaysSurvives`, `LockAlwaysOwned`, `TemporaryAlwaysOwn`, `AnswersAlwaysTrue`, `AlwaysReplacesItsBase`, `AlwaysImplementsStore` |
| `TurnProofs` | `Invariance`, `TypeCorrect`, `EventsAlwaysOrdered`, `ReportsAlwaysTrue`, `CompletionAlwaysWins`, `CompletionAlwaysDurable`, `TurnImplementsLedger` |
| `SessionRegistryProofs` | `TypeCorrect`, `StateIsCanonical`, `EntriesNeverStale`, `HostStaysClosed` |
| `BackgroundStoreProofs` | `StaysWellFormed`, `StaysServiceable`, `StoreImplementsHistory` |
| `BackgroundSupervisorProofs` | `TypeCorrect`, `HistoryStaysTrue`, `NeverTwoOwners`, `SlotsNeverLost` |
| `InteractivePromptsProofs` | `TypeCorrect`, `WakeupsKept`, `InboxImplementsExchange`, `ChargesStayExact` |

They hold for any number of futures, wakers, cancellers, engines, callers, editors,
incarnations, workers, failures, calls, rounds, hosts, starts, slots and askers and any
bounds, from the named assumptions of the modules: each caller and editor has an engine,
the slots are finitely many, bounds are natural numbers, one prompt or response fits its
budget, and the special values are not records, identifiers, events, slots or answers.

*CancellationToken.* `NoLostWakeup` speaks of the moment after `cancel` has
finished. It is not inductive: one has to know what the registry holds while
`cancel` is between its swap, its removal of the registry and its wakes. The
invariant says that until the registry is taken each registered future owns the
entry of its id, that a future which has not yet made its second check will see
the flag, and that every other waiting future is in the registry or in the list
the winner is waking.

*SessionState.* `UniqueTurns` counts durable reservations; alone it says nothing
about the candidate a future is about to save. The invariant `IInv` has four
parts: types; `LocalInv`, which ties the locals of a future to its place (the
candidate is made of the snapshot, at its revision); `LeaseInv`, a held lease has
exactly one holder; `StoreInv`, every record held anywhere (canonical, snapshot,
answer, base of a live turn) is either unpublished and empty or *good*: not ahead
of the stored record, equal to it at equal revision of an incarnation. From the
last two comes the key fact `SaveSeesSnapshot`: a save that the store admits found
exactly the record its candidate was built from. Uniqueness of turns, no lost
update and durable beliefs follow; so does the action property that the canonical
record never rewinds. The parts of `StoreInv` that concern the stored record are
conditional on no loss having happened, because a vanished record file is
outside what the store promises. `CommitsTouchTheirOwn` compares the stored record
before and after a save, so it needs one more part, `TouchInv`: a candidate that is
about to be saved differs from its snapshot only in what its operation is about, and a
replacement still has its own placeholder last. With `SaveSeesSnapshot` the snapshot is
the stored record. For the refinement of `RecordStore` the same fact makes every
admitted save the next revision; it is stated for behaviours without a loss, the
condition under which the property is checked.

*SessionRegistry.* `OneCanonicalState` needs what a registration may assume: every
strong reference is to the state of the entry, and a state whose Drop runs has
nobody else. Then an entry that cannot be upgraded means that no reference is left
anywhere, so a new state is the only one, and the pending removal, which compares
allocations, cannot touch it: its own allocation is not free until it is done.

*TurnMetadata.* The invariant `EInv` adds two things to `IInv`. `EditLocal` ties an
editor's locals to its place: the candidate of a save differs from the record its pass
started from in the entry alone, and that record has the expected entry. `EditGood`
says that the records an editor holds are good in the sense of `StoreInv`. Then the
revision that the store compares decides which record a save replaces, exactly as
`SaveSeesSnapshot` does for the futures, and `IInv` is kept though the editor holds no
lease. So every theorem of the engines carries over: `EditsLeave` shows that an editor
changes no future, and of the store only what it publishes, which has the transcript
and the allocator of the record it replaced.

`UncertainEditSurvives` needs to know who may still recreate a record. `DebtInv` says
that an engine owes a reload or its canonical record is as new as the abandoned edit
(`Owes`); that a future which got past the reload, and what it is about to save, are as
new (`Covered`); and that the commits of a live turn expect their record to be there,
so they never create one (`Owed`). An editor works on a record its engine has seen
(`Ahead`). The debt can only be cleared by a load that reaches the edit, and an edit
abandoned during an admission is left out, as said under findings.

*FileSessionStore.* That an acknowledged record survives depends on who may rename
what over it. `IInv` has these parts: types; `Locked`, a worker in its critical section
holds the flock; `LocalInv`, which ties the locals of a worker to its place, above all
that while it publishes the stored record is still the one its candidate was made of,
at the revision before; `OwnTemporary`; `Durable`, everything a power failure may leave
under the data name is whole, not newer than the stored record and not older than the
acknowledged one; `Remembered`, what a worker loaded or saved is the stored record or
older, and equal at equal revision. The last one turns the comparison of revisions in a
save into equality of records. `Remembered` also says that an initial creation which did
not publish, and may still be confirmed, shares its incarnation with nothing anybody
else holds or has stored. So a confirmation that finds its record finds what it
published, and what it answers is true. For the refinement a rename is a replacement, a
receipt an acknowledgement, a power failure takes back what `Durable` allows, and every
other step stutters.

*Turn.* What the stream says of a call is said before or after the fact, never at it: the
start is yielded before the execution, its end after the result is durable, and in
between the consumer, the sink or a cancellation may end the turn. `IInv` therefore
follows an event through the gate and a call through its places. `StreamInv`, `GateInv`
and `Numbered` say where the one event on its way is (staged, with the sink,
acknowledged) and that everything yielded so far is numbered without a gap. `FlightInv`
says that this event is the one the place of the workflow announces, `TellInv` which
events a place may rely on. `RoundInv` and `CallInv` say what ledger, authority and
history are for the calls before, at and after the one in hand; this needs that the ids
of a turn are never repeated, which the admission of a call checks. `WinInv` says that
whenever a cancellation can be observed every completion-wins execution is stored and
reported: this is what the deferral is for. `EndInv` says that a decision between the
end of the workflow and a cancellation is made once. The proof has one lemma for each
step of the workflow, of the loop of `poll_next` and of the environment; the steps that
only stop something (finish, drop, a failed delivery) share one argument. For the
refinement an answer of the store that takes effect, reported or not, is a record or a
settlement, the first poll of an execution is a run, `finish` is the end, and every other
step stutters.

*BackgroundStore.* That a record never loses its lock file is not inductive: a job
removes files one by one. `JobInv` says what the job knows at each step: its victims
are unowned and terminal when data is removed, and its orphans have neither owner nor
record. Owners cannot undo that, because the right to publish is the flock that the
job found free. `Serviceable` adds the count of records and leases. A job compares it
with the limit from two snapshots, between which owners publish; `CountInv` says what
its numbers still bound at each step: while it inspects, what it neither saw a record
of nor has left to inspect is covered by its pending count, since a lease it counted may
have become a record but no lease can have been added under the allocator lock; after
that the others leave the room it needs. The refinement maps records to themselves,
flocks to leases and the identifiers up to the counter, without the one a job is about
to lock, to the spent ones; one lemma shows that every step is a step of the history or
a stutter.

*BackgroundSupervisor.* `HistoryIsTrue` depends on who may touch a record. `Placed`
says what each place of a start implies for its record, lease and process; `Owners`
what a channel, a worker and the rescue queue may rely on for the job they have;
`OneOwner` that a job is in one of these places only. Publication of a terminal record
then always follows the end of that very process. `SlotsAccounted` counts; its invariant
`PoolInv` says the same without counting (`OnePlace`): a slot has one permit, or is once
on the stack, or its worker is engaged, and no two of these. It also says that a worker
has one job, in its channel or in hand, which is what makes the return of a slot after
a job the only one.

*InteractivePrompts.* `NoLostWakeup` needs `Consistent`, which ties the flags of an
entry to the place of its future: a queued entry that was answered has a response, an
entry without one belongs to a future that still polls or waits. The refinement needs
the same: at the last look a delivered answer belongs to a live registration.
`ChargesExact` is about sums over the queue. `Total` counts the charged bytes one by
one, so that a sum is the cardinality of a set and the facts about it (`TotalAdd`,
`TotalSplit`, `TotalSame`) follow from those about finite sets. `ChargeInv` adds that
the queue is finite and an unanswered entry is charged no response, so an answer is
charged from zero and a removal takes back exactly what was added.

Only model-checked: the liveness properties, because fairness and `ENABLED` are outside
the prover's reach. These are `CancellationResolves`, `OperationsFinish`,
`CancellationIsPrompt`, `TurnEnds`, `ShutdownStopsProcesses` and `PromptsResolve`. Every
safety property that a passing run checks is also proved.

## Not modelled

Contents (texts, JSON, metadata values, permission reasons), formatting, logging and
most byte limits are abstracted to the outcomes they can have. Only what the
properties tell apart is kept. Allocation failure and poisoned locks are left out.

`PROJECT.json` lists every component with its reason. In groups:

- *Nothing for a state machine to add*: pure decoders and validators (exact JSON,
  terminal screen, images, requests, identifiers), read-only scans (listing,
  inspection, search), rendering, argument parsing, HTTP streaming.
- *The same protocol again*: file tools, skills, configuration and memory publish by
  the staged replacement that `FileSessionStore` models for session files.
- *Behind a modelled interface*: processes, barriers and signals answer the prepare,
  release, abort and wait of `BackgroundSupervisor`; the permission controller and
  the ACP server use sessions, turns and prompts.
- *Systems of their own size*: the conversation runtime, managed agents, terminals
  with their registry and journal, the MCP client, the undo journal and the archive
  of tool results. Each has state worth a model; none is started here. Of them the
  terminal journal and the agents' mailboxes have the most that can go wrong.
