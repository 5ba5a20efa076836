-------------------------- MODULE FileSessionStore --------------------------
(***************************************************************************)
(* native FileSessionStore: how the operations on one session id become    *)
(* system calls on the three files of that id (data, temporary, lock) and  *)
(* on the private staging files of session maintenance.                    *)
(*                                                                         *)
(* A worker is a thread or process of any number of stores over the same   *)
(* root; it runs one operation at a time, a few system calls per step, and *)
(* may die between two of them.  The file system (directory, contents,     *)
(* fsync, rename, flock) is external: a file is the record written to it,  *)
(* the directory may forget the entries made since its last fsync, and a   *)
(* file that was not synced may come back torn.  A published file is never *)
(* written again, so its record identifies it (Source::check).             *)
(***************************************************************************)
EXTENDS Integers, FiniteSets

CONSTANTS
    Workers,
    Incarnations, \* globally unique session incarnation ids
    Operations,   \* the operations the hosts call
    MaxRev,       \* greatest revision the counter can hold
    MaxFailures,  \* how many deaths of processes and power failures may happen
    MaxChildren,  \* how many children with an inherited lock may be alive at once
    Missing,      \* there is no such file
    Torn,         \* a file that is not a whole record
    None

VARIABLES
    data,      \* the file of the data name
    maybe,     \* what the data name may refer to after a power failure
    temp,      \* the file of the temporary name
    staging,   \* the private staging file of each maintenance operation
    residue,   \* private staging files that dead operations left
    lock,      \* whose open lock file holds the flock
    spawned,   \* workers whose lock descriptor a child has inherited
    pc,        \* where each worker is
    kind,      \* the operation it runs
    seen,      \* the record it loaded or saved last
    cand,      \* the record it publishes, or the one it observed before locking
    told,      \* how its last operation ended
    did,       \* history: it renamed its file over the data name
    acked,     \* history: the record that somebody was last told to be saved
    used,      \* history: the incarnations ever taken
    failures   \* deaths and power failures so far

fileVars == <<data, maybe, temp, staging, residue>>
lockVars == <<lock, spawned>>
opVars == <<pc, kind, seen, cand, told, did>>
historyVars == <<acked, used, failures>>
vars == <<fileVars, lockVars, opVars, historyVars>>

-----------------------------------------------------------------------------
(* Records and files.                                                      *)

\* A record: its incarnation, revision, who wrote its body and the version of its
\* native metadata.
Record == [inc : Incarnations, rev : 1..MaxRev, by : Workers, ver : 1..2]

\* A temporary file: what is being written, how much of it is there and whether it
\* is synced.
TempFile == [rec : Record, full : BOOLEAN, synced : BOOLEAN]
File(r) == [rec |-> r, full |-> FALSE, synced |-> FALSE]

ASSUME StoreAssumption ==
    /\ MaxRev \in Nat \ {0}
    /\ MaxFailures \in Nat
    /\ MaxChildren \in Nat
    /\ None \notin Workers \cup Record
    /\ Missing \notin Record \cup TempFile
    /\ Torn \notin Record \cup {Missing}

Creating == {"create", "initial", "recover"}
Controlled == {"load_controlled", "save_controlled", "initial", "confirm", "migrate", "recover",
               "cleanup"}
Loading == {"load", "load_controlled"}
Saving == {"save", "save_controlled"}
\* Maintenance publishes through a staging file of a random name.
Staged == {"migrate", "recover"}

\* Where a worker holds the flock; where it has its temporary file.
Publishing == {"write", "rename"}
Critical == {"examine", "temp", "dirsync", "confirm"} \cup Publishing

Readable(f) == f \notin {Missing, Torn}

-----------------------------------------------------------------------------
(* Beginning, ending and the lock.                                         *)

\* A mutant: the guard only closes its descriptor.
UnlockByClosing(w) ==
    lock' = IF lock = w /\ pc[w] \in Critical /\ w \notin spawned THEN None ELSE lock

\* What is left when the operation of w ends: SessionLockGuard unlocks explicitly,
\* for a child that inherited the descriptor would keep a lock that is only closed.
Unlock(w) == lock' = IF lock = w /\ pc[w] \in Critical THEN None ELSE lock

\* The operation returns.  Of its answer the model keeps what it says of a
\* publication: "saved", "unsure" (the ambiguous and indeterminate errors) or
\* "unsaved" (whatever was read, every other error, a cancellation).  An initial
\* creation without a receipt is remembered, to be confirmed.
Finish(w, answer) ==
    /\ pc' = [pc EXCEPT ![w] = "idle"]
    /\ told' = [told EXCEPT ![w] = answer]
    /\ cand' = [cand EXCEPT ![w] = IF kind[w] \in {"initial", "confirm"} /\ answer # "saved"
                                  THEN @ ELSE None]
    /\ kind' = [kind EXCEPT ![w] = None]
    /\ Unlock(w)
    /\ UNCHANGED spawned

\* It returns without a receipt; a confirmation that fails leaves open what the
\* creation left open.
Refuse(w) == Finish(w, IF kind[w] = "confirm" THEN told[w] ELSE "unsaved")

Goto(w, place) ==
    /\ pc' = [pc EXCEPT ![w] = place]
    /\ UNCHANGED <<kind, told, lockVars>>

Begin(w, k) ==
    /\ pc[w] = "idle"
    /\ k = "reset" => seen[w] # None
    /\ k = "confirm" => cand[w] # None
    /\ pc' = [pc EXCEPT ![w] = CASE k \in Loading -> "probe"
                                 [] k = "migrate" -> "source"
                                 [] OTHER -> "lock"]
    /\ kind' = [kind EXCEPT ![w] = k]
    /\ IF k = "confirm"
       THEN UNCHANGED <<told, did, cand>>
       ELSE /\ told' = [told EXCEPT ![w] = None]
            /\ did' = [did EXCEPT ![w] = FALSE]
            /\ cand' = [cand EXCEPT ![w] = None]
    /\ UNCHANGED <<seen, fileVars, lockVars, historyVars>>

\* A load of an absent record neither creates nor takes the lock.
probe_data(w) ==
    /\ pc[w] = "probe"
    /\ IF data = Missing
       THEN Finish(w, "unsaved")
       ELSE Goto(w, "lock") /\ UNCHANGED cand
    /\ UNCHANGED <<seen, did, fileVars, historyVars>>

\* A migration reads its source before it takes the lock.
read_source(w) ==
    /\ pc[w] = "source"
    /\ IF data = Missing
       THEN Finish(w, "unsaved")
       ELSE Goto(w, "lock") /\ cand' = [cand EXCEPT ![w] = data]
    /\ UNCHANGED <<seen, did, fileVars, historyVars>>

lock_exclusive(w) ==
    /\ pc[w] = "lock"
    /\ lock = None
    /\ lock' = w
    /\ pc' = [pc EXCEPT ![w] = "examine"]
    /\ UNCHANGED <<spawned, kind, seen, cand, told, did, fileVars, historyVars>>

\* A mutant: a controlled operation goes on without the lock.
LockBusyProceeds(w) ==
    /\ pc[w] = "lock"
    /\ lock # None
    /\ kind[w] \in Controlled
    /\ Goto(w, "examine")
    /\ UNCHANGED <<seen, cand, did, fileVars, historyVars>>

\* A controlled operation does not wait for the lock.
LockBusy(w) ==
    /\ pc[w] = "lock"
    /\ lock # None
    /\ kind[w] \in Controlled
    /\ Refuse(w)
    /\ UNCHANGED <<seen, did, fileVars, historyVars>>

-----------------------------------------------------------------------------
(* Under the lock: what the operation finds.                               *)

Fresh(inc) == inc \notin used

NextRevision(c) == (IF data.rev > c.rev THEN data.rev ELSE c.rev) + 1

\* w goes on to publish r.
Prepare(w, r) ==
    /\ r.rev <= MaxRev
    /\ cand' = [cand EXCEPT ![w] = r]
    /\ used' = used \cup {r.inc}
    /\ Goto(w, "temp")
    /\ UNCHANGED <<seen, did, acked, failures, fileVars>>

SaveAdmitted(w) ==
    /\ seen[w] # None
    /\ Readable(data)
    /\ data.inc = seen[w].inc
    /\ data.rev = seen[w].rev

\* save_unix and save_controlled of a record that was loaded or saved before.
ExamineSave(w) ==
    /\ pc[w] = "examine"
    /\ kind[w] \in Saving
    /\ SaveAdmitted(w)
    /\ Prepare(w, [seen[w] EXCEPT !.by = w, !.rev = NextRevision(seen[w])])

\* publish_initial_record, a save that expects no record, and a recovery into this
\* id.
ExamineCreate(w) ==
    /\ pc[w] = "examine"
    /\ kind[w] \in Creating \/ (kind[w] \in Saving /\ seen[w] = None)
    /\ data = Missing
    /\ \E inc \in Incarnations, ver \in 1..2 :
          /\ Fresh(inc)
          /\ kind[w] \in {"initial", "recover"} => ver = 2
          /\ kind[w] \in Saving => ver = 1
          /\ Prepare(w, [inc |-> inc, rev |-> 1, by |-> w, ver |-> ver])

\* A mutant: the replacement starts its revisions again from one.
ExamineResetRestarts(w) ==
    /\ pc[w] = "examine"
    /\ kind[w] = "reset"
    /\ Readable(data)
    /\ data.inc = seen[w].inc
    /\ data.rev = seen[w].rev
    /\ \E inc \in Incarnations :
          /\ Fresh(inc)
          /\ Prepare(w, [inc |-> inc, rev |-> 1, by |-> w, ver |-> 1])

ExamineReset(w) ==
    /\ pc[w] = "examine"
    /\ kind[w] = "reset"
    /\ Readable(data)
    /\ data.inc = seen[w].inc
    /\ data.rev = seen[w].rev
    /\ \E inc \in Incarnations :
          /\ Fresh(inc)
          /\ Prepare(w, [inc |-> inc, rev |-> data.rev + 1, by |-> w, ver |-> 1])

\* A mutant: the source is not looked at again.
SourceUnchecked(r) == TRUE

\* Source::check, under the lock and again before the rename.
SourceUnchanged(r) == data = r

\* migrate_metadata, and the record that it made r of.
Migrated(r) == [r EXCEPT !.ver = 2, !.rev = @ + 1]
Unmigrated(r) == [r EXCEPT !.ver = 1, !.rev = @ - 1]

ExamineMigrate(w) ==
    /\ pc[w] = "examine"
    /\ kind[w] = "migrate"
    /\ SourceUnchanged(cand[w])
    /\ Readable(cand[w])
    /\ cand[w].ver = 1
    /\ Prepare(w, Migrated(cand[w]))

\* Loads, confirmations and migrations with nothing to do.
ExamineLoad(w) ==
    /\ pc[w] = "examine"
    /\ kind[w] \in Loading
    /\ Finish(w, "unsaved")
    /\ seen' = [seen EXCEPT ![w] = IF Readable(data) THEN data ELSE @]
    /\ UNCHANGED <<did, fileVars, historyVars>>

ExamineCurrent(w) ==
    /\ pc[w] = "examine"
    /\ kind[w] = "migrate"
    /\ SourceUnchanged(cand[w])
    /\ Readable(cand[w])
    /\ cand[w].ver = 2
    /\ Finish(w, "unsaved")
    /\ UNCHANGED <<seen, did, fileVars, historyVars>>

ExamineConfirm(w) ==
    /\ pc[w] = "examine"
    /\ kind[w] = "confirm"
    /\ data \in {Missing, cand[w]}
    /\ Goto(w, "confirm")
    /\ UNCHANGED <<seen, cand, did, fileVars, historyVars>>

\* What the operation requires is not there.
ExamineConflict(w) ==
    /\ pc[w] = "examine"
    /\ \/ kind[w] \in Saving /\ seen[w] # None /\ ~SaveAdmitted(w)
       \/ kind[w] \in Saving /\ seen[w] = None /\ data # Missing
       \/ kind[w] \in Creating /\ data # Missing
       \/ kind[w] = "reset" /\ ~(Readable(data) /\ data.inc = seen[w].inc /\ data.rev = seen[w].rev)
       \/ kind[w] = "migrate" /\ ~(SourceUnchanged(cand[w]) /\ Readable(cand[w]))
       \/ kind[w] = "confirm" /\ data \notin {Missing, cand[w]}
    /\ Refuse(w)
    /\ UNCHANGED <<seen, did, fileVars, historyVars>>

\* The next revision is beyond the counter.
ExamineExhausted(w) ==
    /\ pc[w] = "examine"
    /\ \/ kind[w] \in Saving /\ SaveAdmitted(w)
       \/ kind[w] = "reset" /\ Readable(data) /\ data.inc = seen[w].inc /\ data.rev = seen[w].rev
       \/ kind[w] = "migrate" /\ SourceUnchanged(cand[w]) /\ Readable(cand[w]) /\ cand[w].ver = 1
    /\ data.rev = MaxRev
    /\ Finish(w, "unsaved")
    /\ UNCHANGED <<seen, did, fileVars, historyVars>>

\* The files that cleanup_one may remove: whole ones whose record is the stored one
\* or what a migration would make of it.
Removable(f) ==
    /\ f # Missing
    /\ f.full
    /\ Readable(data)
    /\ \/ f.rec = data
       \/ data.ver = 1 /\ f.rec = Migrated(data)

\* cleanup_one under the lock: one file, then the directory.
cleanup_one(w) ==
    /\ pc[w] = "examine"
    /\ kind[w] = "cleanup"
    /\ \/ Removable(temp) /\ temp' = Missing /\ UNCHANGED <<staging, residue>>
       \/ \E f \in residue : Removable(f) /\ residue' = residue \ {f} /\ UNCHANGED <<temp, staging>>
       \/ \E v \in Workers : /\ Removable(staging[v])
                             /\ staging' = [staging EXCEPT ![v] = Missing]
                             /\ UNCHANGED <<temp, residue>>
    /\ maybe' \in {maybe, {data}}
    /\ Finish(w, "unsaved")
    /\ UNCHANGED <<data, seen, did, historyVars>>

CleanupLeaves(w) ==
    /\ pc[w] = "examine"
    /\ kind[w] = "cleanup"
    /\ Finish(w, "unsaved")
    /\ UNCHANGED <<seen, did, fileVars, historyVars>>

-----------------------------------------------------------------------------
(* Publication.                                                            *)

\* create_temp: a stale file of the fixed name is unlinked and replaced.
create_temp(w) ==
    /\ pc[w] = "temp"
    /\ IF kind[w] \in Staged
       THEN staging' = [staging EXCEPT ![w] = File(cand[w])] /\ temp' = temp
       ELSE temp' = File(cand[w]) /\ staging' = staging
    /\ Goto(w, "write")
    /\ UNCHANGED <<data, maybe, residue, seen, cand, did, historyVars>>

\* The file w writes.
Mine(w) == IF kind[w] \in Staged THEN staging[w] ELSE temp

\* The file w writes becomes f.
Rewrites(w, f) ==
    IF kind[w] \in Staged
    THEN staging' = [staging EXCEPT ![w] = f] /\ temp' = temp
    ELSE temp' = f /\ staging' = staging

\* A mutant: the temporary file is not synced.
WriteAllUnsynced(w) ==
    /\ pc[w] = "write"
    /\ Mine(w) # Missing
    /\ Rewrites(w, [Mine(w) EXCEPT !.full = TRUE])
    /\ Goto(w, "rename")
    /\ UNCHANGED <<data, maybe, residue, seen, cand, did, historyVars>>

\* write_all and sync_file of the temporary file.
write_all(w) ==
    /\ pc[w] = "write"
    /\ Mine(w) # Missing
    /\ Rewrites(w, [Mine(w) EXCEPT !.full = TRUE, !.synced = TRUE])
    /\ Goto(w, "rename")
    /\ UNCHANGED <<data, maybe, residue, seen, cand, did, historyVars>>

\* What may be left of a file after a power failure.
Survives(f) == IF f.synced THEN {f.rec} ELSE {f.rec, Torn}

\* The rename of the temporary file over the data name; a recovery looks at its
\* destination once more, a migration at its source.
RenameTemp(w) ==
    /\ pc[w] = "rename"
    /\ Mine(w) # Missing
    /\ kind[w] = "recover" => data = Missing
    /\ kind[w] = "migrate" => SourceUnchanged(Unmigrated(cand[w]))
    /\ data' = Mine(w).rec
    /\ maybe' = maybe \cup Survives(Mine(w))
    /\ Rewrites(w, Missing)
    /\ did' = [did EXCEPT ![w] = TRUE]
    /\ Goto(w, "dirsync")
    /\ UNCHANGED <<residue, seen, cand, historyVars>>

\* The directory is durable: the operation succeeds.
SyncDir(w) ==
    /\ pc[w] = "dirsync"
    /\ maybe' = {data}
    /\ Finish(w, "saved")
    /\ seen' = [seen EXCEPT ![w] = cand[w]]
    /\ acked' = cand[w]
    /\ UNCHANGED <<data, temp, staging, residue, did, used, failures>>

\* A mutant: a cancellation is still observed after the rename.
SyncDirFailsCancelled(w) ==
    /\ pc[w] = "dirsync"
    /\ Finish(w, IF kind[w] \in Controlled THEN "unsaved" ELSE "unsure")
    /\ UNCHANGED <<seen, did, fileVars, historyVars>>

\* save_ambiguous, Indeterminate: published, durable or not.
SyncDirFails(w) ==
    /\ pc[w] = "dirsync"
    /\ Finish(w, "unsure")
    /\ UNCHANGED <<seen, did, fileVars, historyVars>>

\* The file of w stays behind, written as far as it was.
Abandons(w) ==
    /\ temp' = temp \/ (pc[w] = "write" /\ kind[w] \notin Staged /\ temp' = [temp EXCEPT !.full = TRUE])
    /\ staging' = [staging EXCEPT ![w] = Missing]
    /\ \/ residue' = residue \cup ({staging[w]} \ {Missing})
       \/ /\ pc[w] = "write"
          /\ kind[w] \in Staged
          /\ residue' = residue \cup {[staging[w] EXCEPT !.full = TRUE]}

\* An error or, of a controlled operation, a cancellation before the rename: the
\* temporary file, written or not, is unlinked if it can be.
PublishFails(w) ==
    /\ pc[w] \in {"temp"} \cup Publishing
    /\ Finish(w, "unsaved")
    /\ \/ pc[w] = "temp" /\ UNCHANGED <<temp, staging, residue>>
       \/ pc[w] # "temp" /\ Rewrites(w, Missing) /\ UNCHANGED residue
       \/ /\ pc[w] # "temp"
          /\ Abandons(w)
    /\ UNCHANGED <<data, maybe, seen, did, historyVars>>

\* The same before there is anything to publish.
ReadFails(w) ==
    /\ pc[w] \in {"probe", "source", "lock", "examine", "confirm"}
    /\ Refuse(w)
    /\ UNCHANGED <<seen, did, fileVars, historyVars>>

\* A mutant: reading the record back is taken for its durability.
ConfirmByReading(w) ==
    /\ pc[w] = "confirm"
    /\ IF data = Missing
       THEN Finish(w, "unsaved") /\ UNCHANGED <<seen, acked>>
       ELSE /\ Finish(w, "saved")
            /\ seen' = [seen EXCEPT ![w] = cand[w]]
            /\ acked' = cand[w]
    /\ UNCHANGED <<fileVars, did, used, failures>>

\* confirm_initial_record: the record, or its absence, is made durable.
ConfirmSync(w) ==
    /\ pc[w] = "confirm"
    /\ maybe' = {data}
    /\ IF data = Missing
       THEN Finish(w, "unsaved") /\ UNCHANGED <<seen, acked>>
       ELSE /\ Finish(w, "saved")
            /\ seen' = [seen EXCEPT ![w] = cand[w]]
            /\ acked' = cand[w]
    /\ UNCHANGED <<data, temp, staging, residue, did, used, failures>>

-----------------------------------------------------------------------------
(* Failures.                                                               *)

\* A child is spawned while the lock file is open, and later executes its program,
\* which closes what it inherited.
Spawn(w) ==
    /\ lock = w
    /\ w \notin spawned
    /\ Cardinality(spawned) < MaxChildren
    /\ spawned' = spawned \cup {w}
    /\ UNCHANGED <<lock, fileVars, opVars, historyVars>>

ChildExecs(w) ==
    /\ w \in spawned
    /\ spawned' = spawned \ {w}
    /\ lock' = IF lock = w /\ pc[w] \notin Critical THEN None ELSE lock
    /\ UNCHANGED <<fileVars, opVars, historyVars>>

\* The process of w dies; a lock that a child shares outlives it.
Die(w) ==
    /\ pc[w] # "idle"
    /\ failures < MaxFailures
    /\ failures' = failures + 1
    /\ pc' = [pc EXCEPT ![w] = "idle"]
    /\ told' = [told EXCEPT ![w] = None]
    /\ cand' = [cand EXCEPT ![w] = None]
    /\ seen' = [seen EXCEPT ![w] = None]
    /\ lock' = IF lock = w /\ w \notin spawned THEN None ELSE lock
    /\ Abandons(w)
    /\ kind' = [kind EXCEPT ![w] = None]
    /\ did' = [did EXCEPT ![w] = FALSE]
    /\ UNCHANGED <<data, maybe, spawned, acked, used>>

\* What a power failure leaves of a temporary file.
Remains(f) ==
    IF f = Missing THEN {Missing}
    ELSE {Missing, [f EXCEPT !.synced = TRUE]}
         \cup (IF f.synced THEN {} ELSE {[f EXCEPT !.full = FALSE]})

\* The host loses power: every process dies, the data name refers to something it
\* referred to since the directory was last synced.
PowerFailure ==
    /\ failures < MaxFailures
    /\ failures' = failures + 1
    /\ data' \in maybe
    /\ maybe' = {data'}
    /\ temp' \in Remains(temp)
    /\ residue' \in SUBSET (residue \cup ({staging[w] : w \in Workers} \ {Missing}))
    /\ staging' = [w \in Workers |-> Missing]
    /\ lock' = None
    /\ spawned' = {}
    /\ pc' = [w \in Workers |-> "idle"]
    /\ seen' = [w \in Workers |-> None]
    /\ cand' = [w \in Workers |-> None]
    /\ told' = [w \in Workers |-> None]
    /\ kind' = [w \in Workers |-> None]
    /\ did' = [w \in Workers |-> FALSE]
    /\ UNCHANGED <<acked, used>>

-----------------------------------------------------------------------------
Init ==
    /\ data = Missing
    /\ maybe = {Missing}
    /\ temp = Missing
    /\ staging = [w \in Workers |-> Missing]
    /\ residue = {}
    /\ lock = None
    /\ spawned = {}
    /\ pc = [w \in Workers |-> "idle"]
    /\ kind = [w \in Workers |-> None]
    /\ seen = [w \in Workers |-> None]
    /\ cand = [w \in Workers |-> None]
    /\ told = [w \in Workers |-> None]
    /\ did = [w \in Workers |-> FALSE]
    /\ acked = Missing
    /\ used = {}
    /\ failures = 0

Examine(w) ==
    \/ ExamineSave(w) \/ ExamineCreate(w) \/ ExamineReset(w) \/ ExamineMigrate(w)
    \/ ExamineLoad(w) \/ ExamineCurrent(w) \/ ExamineConfirm(w)
    \/ ExamineConflict(w) \/ ExamineExhausted(w) \/ cleanup_one(w) \/ CleanupLeaves(w)

\* What a worker in an operation does.
Step(w) ==
    \/ probe_data(w) \/ read_source(w) \/ lock_exclusive(w) \/ LockBusy(w) \/ Examine(w)
    \/ create_temp(w) \/ write_all(w) \/ RenameTemp(w) \/ SyncDir(w)
    \/ SyncDirFails(w) \/ PublishFails(w) \/ ReadFails(w) \/ ConfirmSync(w)

Next ==
    \/ \E w \in Workers, k \in Operations : Begin(w, k)
    \/ \E w \in Workers : Step(w) \/ Spawn(w) \/ ChildExecs(w) \/ Die(w)
    \/ PowerFailure

Spec == Init /\ [][Next]_vars

-----------------------------------------------------------------------------
(* Properties.                                                             *)

\* What a caller was told to be saved is there, or what replaced it, whatever dies
\* afterwards, and no partially written record ever is (publish_record,
\* confirm_initial_record).
AcknowledgedSurvives ==
    /\ data # Torn
    /\ acked # Missing =>
          /\ data # Missing
          /\ data.rev >= acked.rev
          /\ data.rev = acked.rev => data = acked

\* The file an operation is about to rename is the one it created and wrote: no
\* other operation, no cleanup and no stale file of a dead one takes its place.
OwnTemporary ==
    \A w \in Workers : pc[w] \in Publishing =>
        /\ Mine(w) # Missing
        /\ Mine(w).rec = cand[w]
        /\ pc[w] = "rename" => Mine(w).full /\ Mine(w).synced

\* A refused, failed or cancelled operation published nothing, and one that cannot
\* tell did publish ("Cancellation must not hide its receipt").
AnswersAreTrue ==
    \A w \in Workers : told[w] # None => (did[w] <=> told[w] \in {"saved", "unsure"})

\* What an operation made its record of.
BasedOn(w) ==
    IF kind[w] = "migrate" THEN Unmigrated(cand[w])
    ELSE IF kind[w] \in Creating \/ seen[w] = None THEN Missing ELSE seen[w]

\* An operation replaces exactly the record it was based on, though a migration
\* read that before it took the lock and a save long before.
ReplacesItsBase ==
    [][\A w \in Workers : did'[w] /\ ~did[w] => data = BasedOn(w)]_vars

\* The file protocol implements the promise of the store (RecordStore).
Store == INSTANCE RecordStore WITH
            stored <- data,
            floor <- IF acked = Missing THEN 0 ELSE acked.rev
ImplementsStore == Store!StoreSpec

\* The lock never outlives the operation that took it, though a child inherited its
\* descriptor, unless the process died in the middle (SessionLockGuard).
LockOwned ==
    lock # None => pc[lock] \in Critical \/ (lock \in spawned /\ failures > 0)
=============================================================================
