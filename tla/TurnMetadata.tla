---------------------------- MODULE TurnMetadata ----------------------------
(***************************************************************************)
(* The metadata editors of a live turn (session/turn_metadata.rs), composed*)
(* with the engines, futures and store of SessionState.                    *)
(*                                                                         *)
(* An editor reads one metadata entry and exchanges it while its turn is   *)
(* live.  It holds no lease: its loads and saves interleave with the       *)
(* commits of its own turn and, once the turn has ended, with whatever is  *)
(* admitted next.  A turn opens one scope when it is reserved; the scope   *)
(* closes before the turn gives its lease back.  Cancellation and the end  *)
(* of the host close a scope earlier: an editor may fail at any check.     *)
(*                                                                         *)
(* The metadata of a record is one entry, the one the editors are for.     *)
(***************************************************************************)
EXTENDS SessionState

CONSTANTS
    Editors,  \* editors that may be polled concurrently
    Home,     \* the engine each editor belongs to
    Values    \* the entries an editor writes, None to remove it

ASSUME EditorAssumption ==
    /\ Home \in [Editors -> Engines]
    /\ Values \subseteq Callers \cup {None}
    /\ None \notin [inc : Incarnations, seq : 1..(MaxSeq + 1)]

VARIABLES
    scope,     \* the TurnMetadataScope each live turn keeps open
    place,     \* where each editor's future is
    within,    \* the scope it works in
    expected,  \* the record of its TurnMetadataSnapshot
    current,   \* the record this pass started from
    change,    \* the candidate, before the first pass the replacement
    answer,    \* what the store answered
    passes     \* passes of the conflict loop left

editVars == <<place, within, expected, current, change, answer, passes>>
allVars == <<vars, scope, editVars>>

\* The identity of a turn's scope: its incarnation and the allocator position
\* after its reservation.
ScopeOf(r) == [inc |-> r.inc, seq |-> r.seq]
Scopes == [inc : Incarnations, seq : 1..(MaxSeq + 1)]

EditPlaces == {"idle", "loaded", "read", "pass", "issue", "save", "saved"}

\* An operation is active: it owns the scope and with it the session's state.
Active(x) == place[x] \notin {"idle", "read"}

\* ensure_open: the turn of the scope is still live, so it holds its lease.
Open(e, s) == \E c \in Callers : Owner[c] = e /\ Holding(c) /\ scope[c] = s

\* acquire: at most one operation of a scope.
Acquirable(e, s) ==
    /\ Open(e, s)
    /\ \A y \in Editors : ~(Active(y) /\ Home[y] = e /\ within[y] = s)

\* snapshot: the canonical record r is still of the editor's turn, and saved.
Usable(x, r, saved) ==
    /\ Open(Home[x], within[x])
    /\ ScopeOf(r) = within[x]
    /\ saved
    /\ r.rev # 0

-----------------------------------------------------------------------------
(* Beginning and ending an operation.                                      *)

Move(x, to) == place' = [place EXCEPT ![x] = to]

Finish(x) ==
    /\ Move(x, "idle")
    /\ within' = [within EXCEPT ![x] = None]
    /\ expected' = [expected EXCEPT ![x] = None]
    /\ current' = [current EXCEPT ![x] = None]
    /\ change' = [change EXCEPT ![x] = None]
    /\ answer' = [answer EXCEPT ![x] = None]
    /\ passes' = [passes EXCEPT ![x] = 0]

\* A PublicationDebt exists from the invocation of a save to the end of its pass.
Owing(x) == current[x] # None /\ place[x] \in {"save", "saved", "loaded"}

\* A mutant: PublicationDebt has no Drop.
RearmNever(x) == UNCHANGED debt

\* Drop of an unconfirmed PublicationDebt.
Rearm(x) ==
    IF Owing(x)
    THEN debt' = [debt EXCEPT ![Home[x]] = TRUE]
    ELSE UNCHANGED debt

\* read_entry: the editor's turn is live; the load takes effect.
read_entry(x, c) ==
    /\ place[x] = "idle"
    /\ scope[c] # None
    /\ Owner[c] = Home[x]
    /\ Acquirable(Home[x], scope[c])
    /\ within' = [within EXCEPT ![x] = scope[c]]
    /\ answer' = [answer EXCEPT ![x] = stored]
    /\ Move(x, "loaded")
    /\ UNCHANGED <<vars, scope, expected, current, change, passes>>

\* compare_exchange: an outstanding debt is reloaded before the first pass.
compare_exchange(x, v) ==
    /\ place[x] = "read"
    /\ Acquirable(Home[x], within[x])
    /\ change' = [change EXCEPT ![x] = [expected[x] EXCEPT !.meta = v]]
    /\ passes' = [passes EXCEPT ![x] = MaxTries]
    /\ IF debt[Home[x]]
       THEN /\ answer' = [answer EXCEPT ![x] = stored]
            /\ Move(x, "loaded")
       ELSE /\ Move(x, "pass")
            /\ UNCHANGED answer
    /\ UNCHANGED <<vars, scope, within, expected, current>>

-----------------------------------------------------------------------------
(* reload: of a read, of a debt, of a conflict.                            *)

\* The loaded record is of this turn; a transcript commit may have overtaken it.
Reloadable(x) ==
    LET e == Home[x] IN
    /\ answer[x] \in Record
    /\ ScopeOf(answer[x]) = within[x]
    /\ answer[x].rev > 0
    /\ LoadAcceptable(e, answer[x]) \/ canon[e].rev > answer[x].rev

\* reconcile_loaded, then the snapshot: of a read it is the result, otherwise
\* the next pass takes a new one.
EditReloaded(x) ==
    LET e == Home[x] IN
    /\ place[x] = "loaded"
    /\ Reloadable(x)
    /\ IF LoadAcceptable(e, answer[x])
       THEN reconcile_loaded(e, answer[x])
       ELSE UNCHANGED <<canon, persisted>>
    /\ Rearm(x)
    /\ \/ /\ Usable(x, canon'[e], persisted'[e])
          /\ answer' = [answer EXCEPT ![x] = None]
          /\ current' = [current EXCEPT ![x] = None]
          /\ IF expected[x] = None
             THEN expected' = [expected EXCEPT ![x] = canon'[e]] /\ Move(x, "read")
             ELSE Move(x, "pass") /\ UNCHANGED expected
          /\ UNCHANGED <<within, change, passes>>
       \/ Finish(x)
    /\ UNCHANGED <<storeVars, lease, floor, opVars, scope>>

-----------------------------------------------------------------------------
(* One pass of the compare-exchange loop.                                  *)

\* A mutant: the candidate is made of the record that was read.
EditPassFromRead(x) ==
    LET r == canon[Home[x]] IN
    /\ place[x] = "pass"
    /\ passes[x] > 0
    /\ Usable(x, r, persisted[Home[x]])
    /\ r.meta = expected[x].meta
    /\ current' = [current EXCEPT ![x] = r]
    /\ change' = [change EXCEPT ![x] = [@ EXCEPT !.rev = r.rev]]
    /\ passes' = [passes EXCEPT ![x] = @ - 1]
    /\ Move(x, "issue")
    /\ UNCHANGED <<vars, scope, within, expected, answer>>

\* The entry must still be the expected one; the rest is the newest canonical
\* record.
EditPass(x) ==
    LET r == canon[Home[x]] IN
    /\ place[x] = "pass"
    /\ passes[x] > 0
    /\ Usable(x, r, persisted[Home[x]])
    /\ r.meta = expected[x].meta
    /\ current' = [current EXCEPT ![x] = r]
    /\ change' = [change EXCEPT ![x] = [r EXCEPT !.meta = change[x].meta]]
    /\ passes' = [passes EXCEPT ![x] = @ - 1]
    /\ Move(x, "issue")
    /\ UNCHANGED <<vars, scope, within, expected, answer>>

\* snapshot_is_current, then the debt, then the call of save.
EditIssue(x) ==
    LET e == Home[x] IN
    /\ place[x] = "issue"
    /\ canon[e] = current[x] /\ persisted[e]
    /\ Open(e, within[x])
    /\ debt' = [debt EXCEPT ![e] = TRUE]
    /\ Move(x, "save")
    /\ UNCHANGED <<storeVars, canon, persisted, lease, floor, opVars, scope,
                   within, expected, current, change, answer, passes>>

EditStale(x) ==
    /\ place[x] = "issue"
    /\ ~(canon[Home[x]] = current[x] /\ persisted[Home[x]])
    /\ current' = [current EXCEPT ![x] = None]
    /\ Move(x, "pass")
    /\ UNCHANGED <<vars, scope, within, expected, change, answer, passes>>

EditCommits(x) ==
    LET n == NextRevision(stored, change[x]) IN
    /\ place[x] = "save"
    /\ Admits(stored, change[x], TRUE)
    /\ n <= MaxRev
    /\ Publish(At(change[x], n))
    /\ answer' = [answer EXCEPT ![x] = stored']
    /\ Move(x, "saved")
    /\ UNCHANGED <<grants, losses, stateVars, opVars, scope,
                   within, expected, current, change, passes>>

EditConflicts(x) ==
    /\ place[x] = "save"
    /\ ~Admits(stored, change[x], TRUE)
    /\ answer' = [answer EXCEPT ![x] = Conflict]
    /\ Move(x, "saved")
    /\ UNCHANGED <<vars, scope, within, expected, current, change, passes>>

\* A confirmed save; the turn may have closed meanwhile.  The debt stays.
EditSaved(x) ==
    /\ place[x] = "saved"
    /\ SaveAcceptable(Home[x], answer[x])
    /\ answer[x].rev > current[x].rev
    /\ reconcile_saved(Home[x], answer[x])
    /\ Finish(x)
    /\ UNCHANGED <<storeVars, lease, debt, floor, opVars, scope>>

\* The store conflicts: reload before the next pass.
EditConflicted(x) ==
    /\ place[x] = "saved"
    /\ answer[x] = Conflict
    /\ Open(Home[x], within[x])
    /\ answer' = [answer EXCEPT ![x] = stored]
    /\ Move(x, "loaded")
    /\ UNCHANGED <<vars, scope, within, expected, current, change, passes>>

\* A history of what the debt is about: an edit published and left unconfirmed
\* while no operation was being admitted, which would not look at the debt again.
RaiseEditFloor(x) ==
    LET e == Home[x] IN
    IF /\ place[x] = "saved" /\ answer[x] \in Record
       /\ answer[x].rev > floor[e]
       /\ \A c \in Callers : Owner[c] = e /\ Holding(c) => base[c] # None
    THEN floor' = [floor EXCEPT ![e] = answer[x].rev]
    ELSE UNCHANGED floor

\* A check fails, the store fails, the scope closes, the passes are used up or
\* the future is dropped; an unconfirmed save leaves its debt.
EditFails(x) ==
    /\ place[x] # "idle"
    /\ Rearm(x)
    /\ RaiseEditFloor(x)
    /\ Finish(x)
    /\ UNCHANGED <<storeVars, canon, persisted, lease, opVars, scope>>

-----------------------------------------------------------------------------
(* The engines' steps under the editors.                                   *)

\* TurnMetadataScope::new with the reservation of a turn, Turn::finish.
TrackScopes ==
    scope' = [c \in Callers |-> CASE base'[c] = None -> None
                                  [] base'[c] # None /\ base[c] = None -> ScopeOf(base'[c])
                                  [] OTHER -> scope[c]]

\* An active operation owns the session's state.
StateKept == \A x \in Editors : Active(x) => canon'[Home[x]] # None

EngineStep ==
    /\ Next
    /\ TrackScopes
    /\ StateKept
    /\ UNCHANGED editVars

EditInit ==
    /\ Init
    /\ scope = [c \in Callers |-> None]
    /\ place = [x \in Editors |-> "idle"]
    /\ within = [x \in Editors |-> None]
    /\ expected = [x \in Editors |-> None]
    /\ current = [x \in Editors |-> None]
    /\ change = [x \in Editors |-> None]
    /\ answer = [x \in Editors |-> None]
    /\ passes = [x \in Editors |-> 0]

EditPoll(x) ==
    \/ EditReloaded(x) \/ EditPass(x) \/ EditIssue(x) \/ EditStale(x)
    \/ EditCommits(x) \/ EditConflicts(x) \/ EditSaved(x) \/ EditConflicted(x)
    \/ EditFails(x)

EditNext ==
    \/ EngineStep
    \/ \E x \in Editors : \/ EditPoll(x)
                          \/ \E c \in Callers : read_entry(x, c)
                          \/ \E v \in Values : compare_exchange(x, v)

EditSpec == EditInit /\ [][EditNext]_allVars

\* Admitted futures keep being polled; nothing is assumed of an editor.
FairEditSpec == EditSpec /\ Fairness

-----------------------------------------------------------------------------
(* Properties.                                                             *)

\* The types of scopes and editors: TurnMetadataScope, TurnMetadataSnapshot.
EditTypeOK ==
    /\ TypeOK
    /\ scope \in [Callers -> Scopes \cup {None}]
    /\ place \in [Editors -> EditPlaces]
    /\ within \in [Editors -> Scopes \cup {None}]
    /\ expected \in [Editors -> Record \cup {None}]
    /\ current \in [Editors -> Record \cup {None}]
    /\ change \in [Editors -> Record \cup {None}]
    /\ answer \in [Editors -> Answers]
    /\ passes \in [Editors -> 0..MaxTries]

Published(x) == place[x] = "save" /\ place'[x] = "saved" /\ stored' # stored

\* An exchange replaces exactly the entry that was read: at the moment an edit is
\* published the stored record is there, it still has the expected entry, no later
\* turn was reserved, and transcript and allocator are kept, though the turn that
\* commits beside it holds the lease and the editor does not (core-api.md:
\* "preserving all transcript and unrelated metadata fields. The target value must
\* still equal its snapshot").
EditsKeepTheRest ==
    [][\A x \in Editors : Published(x) =>
          /\ stored # Missing
          /\ losses = 0 =>
                /\ ScopeOf(stored) = within[x]
                /\ stored.meta = expected[x].meta
                /\ stored' = [stored EXCEPT !.meta = change[x].meta, !.rev = @ + 1]]_allVars
=============================================================================
