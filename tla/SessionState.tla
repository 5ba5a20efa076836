---------------------------- MODULE SessionState ----------------------------
(***************************************************************************)
(* The durable life of one session id: the engine-canonical state of       *)
(* machine-god-core (session.rs SessionState and SessionOperation, the     *)
(* loads of engine.rs) over the compare-and-swap store that several        *)
(* engines share (native FileSessionStore::save_unix and its siblings).    *)
(*                                                                         *)
(* Each engine keeps one canonical record (canon, persisted), one          *)
(* exclusive admission lease (active_turn) and one reconciliation debt     *)
(* flag (metadata_reconciliation_required).  Callers are futures polled on *)
(* behalf of an engine: loads, metadata checks and edits, prepared and     *)
(* ordinary turn reservations, and the transcript commits of a live turn.  *)
(* A store call is two steps: its effect, then the poll that reads its     *)
(* result, so a future dropped in between has committed without anyone     *)
(* having seen it.                                                         *)
(*                                                                         *)
(* The retry loop of reconcile_loaded and reconcile_saved validates, locks *)
(* and installs only over the record it validated: one atomic step here.   *)
(* Arc identity of a record is its value: an engine installs a record only *)
(* over one of a smaller revision.                                         *)
(***************************************************************************)
EXTENDS Integers, Sequences, FiniteSets

CONSTANTS
    Engines,      \* engines (processes) sharing the store
    Callers,      \* futures that may be polled concurrently
    Owner,        \* the engine each caller belongs to
    Incarnations, \* globally unique session incarnation ids
    Operations,   \* the operations the host calls
    MaxRev,       \* greatest revision the counter can hold
    MaxSeq,       \* greatest turn sequence the counter can hold
    MaxMessages,  \* EngineLimits::max_transcript_messages
    MaxTries,     \* MAX_CONFLICT_RETRIES
    MaxLosses,    \* how often the record file may disappear
    Missing,      \* what a load of an absent record returns
    Conflict,     \* SessionStoreErrorKind::Conflict
    None

ASSUME OwnerAssumption == Owner \in [Callers -> Engines]
ASSUME BoundsAssumption ==
    /\ MaxRev \in Nat \ {0}
    /\ MaxSeq \in Nat \ {0}
    /\ MaxMessages \in Nat
    /\ MaxTries \in Nat \ {0}
    /\ MaxLosses \in Nat
ASSUME NoneAssumption == None \notin Callers

VARIABLES
    stored,     \* the durable record, or Missing
    used,       \* history: the incarnations ever published
    grants,     \* history: how often each turn sequence was durably reserved
    losses,     \* how often the durable record has disappeared
    canon,      \* SessionData::record, or None when no handle is alive
    persisted,  \* SessionData::persisted
    lease,      \* active_turn
    debt,       \* metadata_reconciliation_required
    floor,      \* history: newest edit of this state that no reload has confirmed
    pc,         \* where each future is
    kind,       \* which operation it runs
    snap,       \* the record it snapshotted
    was,        \* the persisted flag it snapshotted
    cand,       \* the candidate it saves
    got,        \* what the store answered
    base,       \* the last record a live turn committed
    tries       \* conflict retries left

storeVars == <<stored, used, grants, losses>>
stateVars == <<canon, persisted, lease, debt, floor>>
opVars == <<pc, kind, snap, was, cand, got, base, tries>>
vars == <<storeVars, stateVars, opVars>>

-----------------------------------------------------------------------------
(* Records.                                                                *)

Messages == [by : Callers, what : {"user", "unknown", "result"}]

Record == [inc : Incarnations, rev : 0..MaxRev, seq : 1..(MaxSeq + 1),
           msgs : Seq(Messages), meta : Callers \cup {None}]

ASSUME AnswerAssumption ==
    /\ Missing \notin Record
    /\ Conflict \notin Record
    /\ None \notin Record
    /\ Missing # Conflict
    /\ Missing # None
    /\ Conflict # None

Answers == Record \cup {Missing, Conflict, None}

empty(inc) == [inc |-> inc, rev |-> 0, seq |-> 1, msgs |-> <<>>, meta |-> None]

At(r, n) == [r EXCEPT !.rev = n]

\* The operations that hold the lease; "append" and "replace" are the commits
\* of a live turn.
Reserving  == {"prompt", "continue"}
Prepared   == {"prepared", "prepared_continue"}
Committing == {"append", "replace"}
Leased     == {"check", "update"} \cup Reserving \cup Prepared
Loading    == {"load", "load_at"}
Kinds      == Leased \cup Loading \cup Committing

\* The operations that arm the reconciliation debt before their save.
Arming == {"update"} \cup Prepared

-----------------------------------------------------------------------------
(* The store's compare-and-swap, under its per-session lock.               *)

\* A mutant: the store compares nothing but the incarnation.
AdmitsBlind(r, c, expects) ==
    r # Missing => r.inc = c.inc
\* The expected revision is the candidate's own when the snapshot was
\* persisted, and none otherwise.
Admits(r, c, expects) ==
    IF r = Missing
    THEN ~expects
    ELSE r.inc = c.inc /\ expects /\ r.rev = c.rev

NextRevision(r, c) ==
    (IF r # Missing /\ r.rev > c.rev THEN r.rev ELSE c.rev) + 1

Publish(r) ==
    /\ stored' = r
    /\ used' = used \cup {r.inc}

-----------------------------------------------------------------------------
(* Reconciliation of canonical state.                                      *)

\* A mutant: a load that was overtaken is accepted.
LoadAcceptableStale(e, r) ==
    /\ r \in Record
    /\ r.rev > 0
    /\ r.inc = canon[e].inc

\* reconcile_loaded accepts r over the canonical record of engine e.
LoadAcceptable(e, r) ==
    /\ r \in Record
    /\ r.rev > 0
    /\ r.inc = canon[e].inc
    /\ r.seq >= canon[e].seq
    /\ r.rev >= canon[e].rev
    /\ r.rev = canon[e].rev => r = canon[e]

\* reconcile_saved accepts r; a newer canonical record is left alone.
SaveAcceptable(e, r) ==
    /\ r \in Record
    /\ r.inc = canon[e].inc
    /\ r.seq >= canon[e].seq
    /\ r.rev = canon[e].rev => r = canon[e]

reconcile_loaded(e, r) ==
    /\ canon' = [canon EXCEPT ![e] = r]
    /\ persisted' = [persisted EXCEPT ![e] = TRUE]

reconcile_saved(e, r) ==
    IF canon[e].rev <= r.rev
    THEN /\ canon' = [canon EXCEPT ![e] = r]
         /\ persisted' = [persisted EXCEPT ![e] = TRUE]
    ELSE UNCHANGED <<canon, persisted>>

SnapshotIsCurrent(c) ==
    canon[Owner[c]] = snap[c] /\ persisted[Owner[c]] = was[c]

-----------------------------------------------------------------------------
(* How a future moves and how it ends.                                     *)

Goto(c, place) == pc' = [pc EXCEPT ![c] = place]

\* The locals of one pass die with it.
Forget(c) ==
    /\ snap' = [snap EXCEPT ![c] = None]
    /\ was' = [was EXCEPT ![c] = FALSE]
    /\ cand' = [cand EXCEPT ![c] = None]
    /\ got' = [got EXCEPT ![c] = None]

\* The future completes or is dropped.
Leave(c) ==
    /\ Goto(c, "idle")
    /\ Forget(c)
    /\ kind' = [kind EXCEPT ![c] = "check"]
    /\ base' = [base EXCEPT ![c] = None]
    /\ tries' = [tries EXCEPT ![c] = 0]

\* Dropping the TurnLease.
End(c) ==
    /\ Leave(c)
    /\ lease' = [lease EXCEPT ![Owner[c]] = FALSE]

\* Another pass of a conflict loop, or its exhaustion.
Retry(c) ==
    \/ /\ tries[c] > 1
       /\ tries' = [tries EXCEPT ![c] = @ - 1]
       /\ Goto(c, "snapshot")
       /\ Forget(c)
       /\ UNCHANGED <<kind, base, lease>>
    \/ /\ tries[c] <= 1
       /\ End(c)

-----------------------------------------------------------------------------
(* Handles: SessionRegistry::session_state and the last drop of a state.   *)

create_session(e, inc) ==
    /\ canon[e] = None
    /\ canon' = [canon EXCEPT ![e] = empty(inc)]
    /\ UNCHANGED <<storeVars, persisted, lease, debt, floor, opVars>>

\* The state dies with its last owner; a load in flight owns none yet.
DropState(e) ==
    /\ canon[e] # None
    /\ \A c \in Callers : Owner[c] = e => pc[c] \in {"idle", "loaded"}
    /\ canon' = [canon EXCEPT ![e] = None]
    /\ persisted' = [persisted EXCEPT ![e] = FALSE]
    /\ debt' = [debt EXCEPT ![e] = FALSE]
    /\ floor' = [floor EXCEPT ![e] = 0]
    /\ UNCHANGED <<storeVars, lease, opVars>>

-----------------------------------------------------------------------------
(* Loads (load_session_guarded_with_access).  They hold no lease.          *)

\* SessionStore::load takes effect; a load that fails never leaves "idle".
LoadBegin(c, k) ==
    /\ pc[c] = "idle"
    /\ k \in Operations \cap Loading
    /\ kind' = [kind EXCEPT ![c] = k]
    /\ got' = [got EXCEPT ![c] = stored]
    /\ Goto(c, "loaded")
    /\ UNCHANGED <<storeVars, stateVars, snap, was, cand, base, tries>>

\* An absent or refused record changes nothing; neither does a guarded load that
\* expected another incarnation or revision, or met a held lease.
LoadRejected(c) ==
    LET e == Owner[c] IN
    /\ pc[c] = "loaded"
    /\ \/ got[c] = Missing
       \/ kind[c] = "load_at"
       \/ canon[e] # None /\ ~LoadAcceptable(e, got[c])
    /\ Leave(c)
    /\ UNCHANGED <<storeVars, stateVars>>

LoadRegistered(c) ==
    LET e == Owner[c] IN
    /\ pc[c] = "loaded"
    /\ got[c] # Missing
    /\ kind[c] = "load_at" => ~lease[e]
    /\ canon[e] # None => LoadAcceptable(e, got[c])
    /\ reconcile_loaded(e, got[c])
    /\ Leave(c)
    /\ UNCHANGED <<storeVars, lease, debt, floor>>

-----------------------------------------------------------------------------
(* Admission and the authoritative reload an uncertain save requires.      *)

\* A mutant: the lease is stored, not compared and exchanged.
AdmitUnleased(c, k) ==
    LET e == Owner[c] IN
    /\ pc[c] = "idle"
    /\ k \in Operations \cap Leased
    /\ canon[e] # None
    /\ lease' = [lease EXCEPT ![e] = TRUE]
    /\ kind' = [kind EXCEPT ![c] = k]
    /\ tries' = [tries EXCEPT ![c] = MaxTries]
    /\ Goto(c, "snapshot")
    /\ UNCHANGED <<storeVars, canon, persisted, debt, floor, snap, was, cand, got, base>>

\* compare_exchange on active_turn (a caller that loses it returns SessionBusy),
\* then reconcile_uncertain_metadata up to its load.
Admit(c, k) ==
    LET e == Owner[c] IN
    /\ pc[c] = "idle"
    /\ k \in Operations \cap Leased
    /\ canon[e] # None
    /\ ~lease[e]
    /\ lease' = [lease EXCEPT ![e] = TRUE]
    /\ kind' = [kind EXCEPT ![c] = k]
    /\ tries' = [tries EXCEPT ![c] = MaxTries]
    /\ IF debt[e]
       THEN /\ Goto(c, "reload")
            /\ snap' = [snap EXCEPT ![c] = canon[e]]
            /\ was' = [was EXCEPT ![c] = persisted[e]]
       ELSE /\ Goto(c, "snapshot")
            /\ UNCHANGED <<snap, was>>
    /\ UNCHANGED <<storeVars, canon, persisted, debt, floor, cand, got, base>>

\* A missing record settles the debt only of a session never saved.
MissingAcceptable(c) ==
    /\ ~was[c]
    /\ snap[c].rev = 0
    /\ SnapshotIsCurrent(c)

Reload(c) ==
    /\ pc[c] = "reload"
    /\ got' = [got EXCEPT ![c] = stored]
    /\ Goto(c, "reloaded")
    /\ UNCHANGED <<storeVars, stateVars, kind, snap, was, cand, base, tries>>

Reconciled(c) ==
    LET e == Owner[c] IN
    /\ pc[c] = "reloaded"
    /\ \/ /\ LoadAcceptable(e, got[c])
          /\ reconcile_loaded(e, got[c])
          /\ floor' = [floor EXCEPT ![e] = 0]
       \/ /\ got[c] = Missing
          /\ MissingAcceptable(c)
          /\ UNCHANGED <<canon, persisted, floor>>
    /\ debt' = [debt EXCEPT ![e] = FALSE]
    /\ Forget(c)
    /\ Goto(c, "snapshot")
    /\ UNCHANGED <<storeVars, lease, kind, base, tries>>

\* A mutant: a refused reload is tried again.
ReconcileFailedRetries(c) ==
    /\ pc[c] = "reloaded"
    /\ \/ got[c] = Missing /\ ~MissingAcceptable(c)
       \/ got[c] # Missing /\ ~LoadAcceptable(Owner[c], got[c])
    /\ Goto(c, "reload")
    /\ UNCHANGED <<storeVars, stateVars, kind, snap, was, cand, got, base, tries>>

\* The reload was refused: the debt stays.
ReconcileFailed(c) ==
    /\ pc[c] = "reloaded"
    /\ \/ got[c] = Missing /\ ~MissingAcceptable(c)
       \/ got[c] # Missing /\ ~LoadAcceptable(Owner[c], got[c])
    /\ End(c)
    /\ UNCHANGED <<storeVars, canon, persisted, debt, floor>>

-----------------------------------------------------------------------------
(* Building a candidate from a snapshot.                                   *)

Said(c, word) == [by |-> c, what |-> word]

Reserve(c, r) ==
    [r EXCEPT !.seq = @ + 1,
              !.msgs = IF kind[c] \in {"prompt", "prepared"}
                       THEN Append(@, Said(c, "user")) ELSE @]

\* A mutant: a live turn commits over its own last record.
CandidateFromBase(c, r, m) ==
    CASE kind[c] = "update"      -> [r EXCEPT !.meta = m]
      [] kind[c] \in Prepared    -> [Reserve(c, r) EXCEPT !.meta = m]
      [] kind[c] \in Reserving   -> Reserve(c, r)
      [] OTHER -> [base[c] EXCEPT !.rev = r.rev,
                                  !.msgs = Append(@, Said(c, "unknown"))]

\* What operation c would save over record r, with metadata m where it edits it.
Candidate(c, r, m) ==
    CASE kind[c] = "update"      -> [r EXCEPT !.meta = m]
      [] kind[c] \in Prepared    -> [Reserve(c, r) EXCEPT !.meta = m]
      [] kind[c] \in Reserving   -> Reserve(c, r)
      [] kind[c] = "append"      -> [r EXCEPT !.msgs = Append(@, Said(c, "unknown"))]
      [] kind[c] = "replace"     -> [r EXCEPT !.msgs[Len(r.msgs)] = Said(c, "result")]

\* The checks between the snapshot and the save of each operation: empty
\* history, exhausted allocator, transcript bound, and for a live turn the
\* transcript it last committed.
Buildable(c, r) ==
    /\ kind[c] # "check"
    /\ kind[c] \in {"continue", "prepared_continue"} => r.msgs # <<>>
    /\ kind[c] \in Reserving \cup Prepared => r.seq <= MaxSeq
    /\ kind[c] \in Committing => r.inc = base[c].inc /\ r.msgs = base[c].msgs
    /\ kind[c] \in {"prompt", "prepared", "append"} => Len(r.msgs) < MaxMessages

Snapshot(c) ==
    LET e == Owner[c] IN
    /\ pc[c] = "snapshot"
    /\ Buildable(c, canon[e])
    /\ snap' = [snap EXCEPT ![c] = canon[e]]
    /\ was' = [was EXCEPT ![c] = persisted[e]]
    /\ \E m \in IF kind[c] \in Prepared THEN {c, canon[e].meta} ELSE {c} :
          cand' = [cand EXCEPT ![c] = Candidate(c, canon[e], m)]
    /\ Goto(c, "issue")
    /\ UNCHANGED <<storeVars, stateVars, kind, got, base, tries>>

\* A check only observes; an edit or a preparation pinned to another revision
\* conflicts; an unbuildable candidate fails.
SnapshotEnds(c) ==
    /\ pc[c] = "snapshot"
    /\ kind[c] \in Arming \/ ~Buildable(c, canon[Owner[c]])
    /\ End(c)
    /\ UNCHANGED <<storeVars, canon, persisted, debt, floor>>

ArmDebt(c) ==
    IF kind[c] \in Arming
    THEN debt' = [debt EXCEPT ![Owner[c]] = TRUE]
    ELSE UNCHANGED debt

\* snapshot_is_current, then the debt, then the call of save.
Issue(c) ==
    /\ pc[c] = "issue"
    /\ SnapshotIsCurrent(c)
    /\ ArmDebt(c)
    /\ Goto(c, "save")
    /\ UNCHANGED <<storeVars, canon, persisted, lease, floor, kind, snap, was, cand, got, base, tries>>

\* A pinned operation conflicts, a looping one takes another pass.
IssueStale(c) ==
    /\ pc[c] = "issue"
    /\ ~SnapshotIsCurrent(c)
    /\ IF kind[c] \in Arming THEN End(c) ELSE Retry(c)
    /\ UNCHANGED <<storeVars, canon, persisted, debt, floor>>

-----------------------------------------------------------------------------
(* The save: its effect in the store, then the poll that reads its result. *)

\* A history of the durable reservations.
Grant(c) ==
    IF kind[c] \in Reserving \cup Prepared
    THEN grants' = [grants EXCEPT ![cand[c].inc][snap[c].seq] = @ + 1]
    ELSE UNCHANGED grants

\* A history of what the debt is about: the newest edit of a session known to
\* be saved that this state may not have seen succeed.
RaiseFloor(c, n) ==
    IF kind[c] \in Arming /\ snap[c].rev > 0
    THEN floor' = [floor EXCEPT ![Owner[c]] = n]
    ELSE UNCHANGED floor

\* The record is published.
SaveEffect(c) ==
    LET n == NextRevision(stored, cand[c]) IN
    /\ pc[c] = "save"
    /\ Admits(stored, cand[c], was[c])
    /\ n <= MaxRev
    /\ Publish(At(cand[c], n))
    /\ Grant(c)
    /\ RaiseFloor(c, n)

SaveCommits(c) ==
    /\ SaveEffect(c)
    /\ got' = [got EXCEPT ![c] = stored']
    /\ Goto(c, "saved")
    /\ UNCHANGED <<losses, canon, persisted, lease, debt, kind, snap, was, cand, base, tries>>

\* The record is published and the directory sync after it fails: an ambiguous
\* error, which no operation retries.
SaveAmbiguous(c) ==
    /\ SaveEffect(c)
    /\ End(c)
    /\ UNCHANGED <<losses, canon, persisted, debt>>

SaveConflicts(c) ==
    /\ pc[c] = "save"
    /\ ~Admits(stored, cand[c], was[c])
    /\ got' = [got EXCEPT ![c] = Conflict]
    /\ Goto(c, "saved")
    /\ UNCHANGED <<storeVars, stateVars, kind, snap, was, cand, base, tries>>

\* The save fails without effect: an exhausted revision counter, a disk error.
SaveErrors(c) ==
    /\ pc[c] = "save"
    /\ End(c)
    /\ UNCHANGED <<storeVars, canon, persisted, debt, floor>>

\* The future that awaits a store call is dropped (or a reload fails): an edit or
\* reservation abandoned by its caller, a live turn cancelled or dropped.
DropFuture(c) ==
    /\ pc[c] \in {"reload", "reloaded", "save", "saved", "conflicted"}
    /\ End(c)
    /\ UNCHANGED <<storeVars, canon, persisted, debt, floor>>

\* A successful edit ends; a reservation or a commit leaves a live turn.
Saved(c) ==
    LET e == Owner[c] IN
    /\ pc[c] = "saved"
    /\ SaveAcceptable(e, got[c])
    /\ got[c].rev > snap[c].rev
    /\ reconcile_saved(e, got[c])
    /\ IF kind[c] \in Arming
       THEN debt' = [debt EXCEPT ![e] = FALSE]
       ELSE UNCHANGED debt
    /\ IF kind[c] = "update"
       THEN End(c)
       ELSE /\ base' = [base EXCEPT ![c] = got[c]]
            /\ Forget(c)
            /\ tries' = [tries EXCEPT ![c] = 0]
            /\ kind' = [kind EXCEPT ![c] = "append"]
            /\ Goto(c, "turn")
            /\ UNCHANGED lease
    /\ UNCHANGED <<storeVars, floor>>

\* A conflict of a pinned operation, or a result the canonical state refuses.
SaveFailed(c) ==
    /\ pc[c] = "saved"
    /\ ~(SaveAcceptable(Owner[c], got[c]) /\ got[c].rev > snap[c].rev)
    /\ got[c] = Conflict => kind[c] \in Arming
    /\ End(c)
    /\ UNCHANGED <<storeVars, canon, persisted, debt, floor>>

\* A looping operation reloads after a conflict.
Conflicted(c) ==
    /\ pc[c] = "saved"
    /\ got[c] = Conflict
    /\ kind[c] \notin Arming
    /\ got' = [got EXCEPT ![c] = stored]
    /\ Goto(c, "conflicted")
    /\ UNCHANGED <<storeVars, stateVars, kind, snap, was, cand, base, tries>>

\* mark_missing_if_current, for a reservation whose record is gone.
ConflictMissing(c) ==
    /\ pc[c] = "conflicted"
    /\ got[c] = Missing
    /\ kind[c] \in Reserving
    /\ IF SnapshotIsCurrent(c)
       THEN persisted' = [persisted EXCEPT ![Owner[c]] = FALSE]
       ELSE UNCHANGED persisted
    /\ Retry(c)
    /\ UNCHANGED <<storeVars, canon, debt, floor>>

\* A conflict reload is adopted: by a turn only if it holds the turn's own
\* transcript.
ReloadAdoptable(c) ==
    /\ LoadAcceptable(Owner[c], got[c])
    /\ kind[c] \in Committing => got[c].inc = base[c].inc /\ got[c].msgs = base[c].msgs

ConflictReloaded(c) ==
    /\ pc[c] = "conflicted"
    /\ ReloadAdoptable(c)
    /\ reconcile_loaded(Owner[c], got[c])
    /\ Retry(c)
    /\ UNCHANGED <<storeVars, debt, floor>>

ConflictFailed(c) ==
    /\ pc[c] = "conflicted"
    /\ ~ReloadAdoptable(c)
    /\ got[c] = Missing => kind[c] \in Committing
    /\ End(c)
    /\ UNCHANGED <<storeVars, canon, persisted, debt, floor>>

-----------------------------------------------------------------------------
(* A live turn: it holds the lease and commits to its own transcript.      *)

CommitBegin(c, k) ==
    /\ pc[c] = "turn"
    /\ k \in Operations \cap Committing
    /\ k = "replace" => /\ base[c].msgs # <<>>
                        /\ base[c].msgs[Len(base[c].msgs)] = Said(c, "unknown")
    /\ kind' = [kind EXCEPT ![c] = k]
    /\ tries' = [tries EXCEPT ![c] = MaxTries]
    /\ Goto(c, "snapshot")
    /\ UNCHANGED <<storeVars, stateVars, snap, was, cand, got, base>>

\* The turn reaches its terminal event or is dropped.
TurnEnds(c) ==
    /\ pc[c] = "turn"
    /\ End(c)
    /\ UNCHANGED <<storeVars, canon, persisted, debt, floor>>

-----------------------------------------------------------------------------
(* The store's other writers: native session lifecycle and the filesystem. *)

\* Incarnation ids are globally unique: a new lifetime takes an unused one.
Fresh(inc) == inc \notin used

publish_initial_record(inc) ==
    /\ stored = Missing
    /\ Fresh(inc)
    /\ Publish(At(empty(inc), 1))
    /\ UNCHANGED <<grants, losses, stateVars, opVars>>

\* A mutant: the replacement starts its revisions again from one.
ResetRecordRestarts(inc) ==
    /\ stored # Missing
    /\ Fresh(inc)
    /\ Publish(At(empty(inc), 1))
    /\ UNCHANGED <<grants, losses, stateVars, opVars>>

reset_record(inc) ==
    /\ stored # Missing
    /\ stored.rev < MaxRev
    /\ Fresh(inc)
    /\ Publish(At(empty(inc), stored.rev + 1))
    /\ UNCHANGED <<grants, losses, stateVars, opVars>>

\* Someone outside the store removes the file.
LoseRecord ==
    /\ stored # Missing
    /\ losses < MaxLosses
    /\ losses' = losses + 1
    /\ stored' = Missing
    /\ UNCHANGED <<used, grants, stateVars, opVars>>

-----------------------------------------------------------------------------
Init ==
    /\ stored = Missing
    /\ used = {}
    /\ grants = [i \in Incarnations |-> [n \in 1..MaxSeq |-> 0]]
    /\ losses = 0
    /\ canon = [e \in Engines |-> None]
    /\ persisted = [e \in Engines |-> FALSE]
    /\ lease = [e \in Engines |-> FALSE]
    /\ debt = [e \in Engines |-> FALSE]
    /\ floor = [e \in Engines |-> 0]
    /\ pc = [c \in Callers |-> "idle"]
    /\ kind = [c \in Callers |-> "check"]
    /\ snap = [c \in Callers |-> None]
    /\ was = [c \in Callers |-> FALSE]
    /\ cand = [c \in Callers |-> None]
    /\ got = [c \in Callers |-> None]
    /\ base = [c \in Callers |-> None]
    /\ tries = [c \in Callers |-> 0]

\* What the executor does by polling an admitted future.
Poll(c) ==
    \/ Reconciled(c) \/ ReconcileFailed(c)
    \/ Snapshot(c) \/ SnapshotEnds(c) \/ Issue(c) \/ IssueStale(c)
    \/ Reload(c) \/ SaveCommits(c) \/ SaveConflicts(c) \/ SaveAmbiguous(c) \/ SaveErrors(c)
    \/ Saved(c) \/ SaveFailed(c) \/ Conflicted(c)
    \/ ConflictMissing(c) \/ ConflictReloaded(c) \/ ConflictFailed(c)
    \/ LoadRejected(c) \/ LoadRegistered(c)

\* What the host decides.
Host(c) ==
    \/ \E k \in Operations : Admit(c, k) \/ LoadBegin(c, k) \/ CommitBegin(c, k)
    \/ DropFuture(c) \/ TurnEnds(c)

Next ==
    \/ \E c \in Callers : Poll(c) \/ Host(c)
    \/ \E e \in Engines : DropState(e)
    \/ \E e \in Engines, i \in Incarnations : create_session(e, i)
    \/ \E i \in Incarnations : publish_initial_record(i) \/ reset_record(i)
    \/ LoseRecord

Spec == Init /\ [][Next]_vars

\* Admitted futures keep being polled.
Fairness == \A c \in Callers : WF_vars(Poll(c))

FairSpec == Spec /\ Fairness

-----------------------------------------------------------------------------
(* Properties.                                                             *)

Places == {"idle", "loaded", "reload", "reloaded", "snapshot",
           "issue", "save", "saved", "conflicted", "turn"}
Holding(c) == pc[c] \notin {"idle", "loaded"}

\* The types of the state: session.rs SessionRecord, SessionData, SessionState.
TypeOK ==
    /\ stored \in Record \cup {Missing}
    /\ used \subseteq Incarnations
    /\ grants \in [Incarnations -> [1..MaxSeq -> Nat]]
    /\ losses \in 0..MaxLosses
    /\ canon \in [Engines -> Record \cup {None}]
    /\ persisted \in [Engines -> BOOLEAN]
    /\ lease \in [Engines -> BOOLEAN]
    /\ debt \in [Engines -> BOOLEAN]
    /\ floor \in [Engines -> 0..MaxRev]
    /\ pc \in [Callers -> Places]
    /\ kind \in [Callers -> Kinds]
    /\ snap \in [Callers -> Record \cup {None}]
    /\ was \in [Callers -> BOOLEAN]
    /\ cand \in [Callers -> Record \cup {None}]
    /\ got \in [Callers -> Answers]
    /\ base \in [Callers -> Record \cup {None}]
    /\ tries \in [Callers -> 0..MaxTries]

\* Turn ids are unique: whatever engines race, crash or forget their state, no
\* turn sequence of an incarnation is durably reserved twice (core-api.md: "never
\* reuses an already-persisted allocator position").
UniqueTurns ==
    losses = 0 => \A i \in Incarnations, n \in 1..MaxSeq : grants[i][n] <= 1

\* One operation at a time holds an engine's lease, and a held lease has a
\* holder (TurnLease): futures of cloned handles never interleave their saves.
LeaseExclusive ==
    \A e \in Engines :
        LET holders == {c \in Callers : Owner[c] = e /\ Holding(c)} IN
        /\ \A c, d \in holders : c = d
        /\ lease[e] <=> holders # {}

\* The records that engines and futures believe to be saved.
Believed ==
    {r \in {canon[e] : e \in Engines} \cup {base[c] : c \in Callers} : r # None /\ r.rev > 0}

\* Nothing in memory is ahead of the store or contradicts it: a canonical record
\* and a live turn's last commit were published, and at the store's revision they
\* are the stored record (reconcile_loaded, reconcile_saved).
BeliefsAreDurable ==
    losses = 0 => \A r \in Believed :
        /\ stored # Missing
        /\ r.rev <= stored.rev
        /\ r.rev = stored.rev => r = stored
        /\ r.inc = stored.inc => r.seq <= stored.seq

\* No state rewinds: while an engine's state lives its revision and its turn
\* allocator only grow, and records of one revision are the same record.
CanonicalMonotone ==
    [][\A e \in Engines : canon[e] # None /\ canon'[e] # None =>
          /\ canon'[e].inc = canon[e].inc
          /\ canon'[e].seq >= canon[e].seq
          /\ canon'[e].rev >= canon[e].rev
          /\ canon'[e].rev = canon[e].rev => canon'[e] = canon[e]]_vars

Commits(c) == pc[c] = "save" /\ pc'[c] # "save" /\ stored' # stored

\* No lost update: a save that overwrites a record overwrites exactly the record
\* its candidate was built from, whoever wrote in between.
NoLostUpdate ==
    [][\A c \in Callers : Commits(c) /\ stored # Missing /\ losses = 0 => stored = snap[c]]_vars

\* What the transcript of a record keeps of another: every message, but for
\* placeholders that got their result.
Keeps(new, old) ==
    /\ Len(new) >= Len(old)
    /\ \A i \in 1..Len(old) :
          \/ new[i] = old[i]
          \/ old[i].what = "unknown" /\ new[i] = Said(old[i].by, "result")

\* A save changes only what its operation is about: an edit keeps transcript and
\* allocator, a transcript commit keeps metadata and allocator (commit_messages
\* builds on the newest canonical record, not on the turn's own), and a
\* reservation advances the allocator by one.  So the durable transcript of an
\* incarnation only grows, and only the turn that wrote a placeholder replaces it.
CommitsTouchTheirOwn ==
    [][/\ \A c \in Callers : Commits(c) /\ stored # Missing /\ losses = 0 =>
             /\ kind[c] \notin Arming => stored'.meta = stored.meta
             /\ kind[c] = "update" => stored'.msgs = stored.msgs
             /\ stored'.seq = stored.seq + (IF kind[c] \in Reserving \cup Prepared THEN 1 ELSE 0)
       /\ stored # Missing /\ stored' # Missing /\ stored'.inc = stored.inc /\ losses = 0
             => Keeps(stored'.msgs, stored.msgs)]_vars

\* An uncertain edit is not undone by recreation: after an edit of a saved
\* session that may have committed, a vanished record is never written again from
\* an older one (reconcile_uncertain_metadata: "A missing persisted record is not
\* permission to recreate it after an uncertain edit").
UncertainEditSurvives ==
    [][\A c \in Callers : Commits(c) /\ stored = Missing
          => cand[c].rev >= floor[Owner[c]]]_vars

\* The engines' saves and the lifecycle's publications are steps that a store
\* promises (RecordStore), which the file protocol of FileSessionStore implements.
Store == INSTANCE RecordStore WITH
            stored <- stored,
            floor <- IF stored = Missing THEN 0 ELSE stored.rev
ImplementsStore == Store!StoreSpec

\* Every admitted operation ends or becomes a live turn, so an engine's lease is
\* not held forever by an edit or a reservation.
OperationsFinish ==
    \A c \in Callers : pc[c] \notin {"idle", "turn"} ~> pc[c] \in {"idle", "turn"}
=============================================================================
