-------------------------- MODULE BackgroundStore --------------------------
(***************************************************************************)
(* The file-backed record store of background processes, shared by every   *)
(* host process of one workspace (background_store.rs).  Its state is the  *)
(* allocator counter, one data file and one lock file per identifier, and  *)
(* the flocks on them.  A maintenance job (prepare_allocator, reserve_id,  *)
(* reconcile) holds the allocator lock and compacts the history first;     *)
(* owners publish and replace their own record without that lock, so every *)
(* step of a job interleaves with them and with the death of any host.     *)
(***************************************************************************)
EXTENDS FiniteSets, Naturals

CONSTANTS Hosts,         \* host processes sharing the workspace
          NoHost,        \* nobody
          MaxId,         \* the last value of the u64 counter
          MaxRetained,   \* MAX_RETAINED_BACKGROUND_RECORDS
          Outcomes       \* terminal states an owner reports

ASSUME StoreAssumption ==
  /\ MaxId \in Nat /\ MaxRetained \in Nat \ {0}
  /\ NoHost \notin Hosts
  /\ Outcomes \cap {"absent", "running", "stale"} = {}

VARIABLES
  host,      \* [Hosts -> "down" | "prepared" | "up"]
  counter,   \* allocator.counter, NoCounter before the first prepare
  record,    \* the state in each data file, "absent" without one
  locks,     \* identifiers that have a lock file
  lease,     \* [Ids -> Hosts \cup {NoHost}]: who holds the flock
  job        \* the holder of the allocator lock and where it stands

vars == <<host, counter, record, locks, lease, job>>

Ids == 1..MaxId
NoCounter == MaxId + 1
Terminal == Outcomes \cup {"stale"}
States == {"absent", "running"} \cup Terminal
Kinds == {"prepare", "reserve", "reconcile"}
Phases == {"idle", "control", "inspect", "data", "unlink", "sweep", "count",
           "create", "flock", "rescan", "mark"}

Jobs == [at : Phases, kind : Kinds, by : Hosts \cup {NoHost}, seen : [Ids -> States],
         left : SUBSET Ids, pending : Nat, orphans : SUBSET Ids, victims : SUBSET Ids]

NoJob == [at |-> "idle", kind |-> "prepare", by |-> NoHost,
          seen |-> [i \in Ids |-> "absent"], left |-> {}, pending |-> 0,
          orphans |-> {}, victims |-> {}]

TypeOK ==
  /\ host \in [Hosts -> {"down", "prepared", "up"}]
  /\ counter \in 0..NoCounter
  /\ record \in [Ids -> States]
  /\ locks \subseteq Ids
  /\ lease \in [Ids -> Hosts \cup {NoHost}]
  /\ job \in Jobs

Init ==
  /\ host = [h \in Hosts |-> "down"]
  /\ counter = NoCounter
  /\ record = [i \in Ids |-> "absent"]
  /\ locks = {}
  /\ lease = [i \in Ids |-> NoHost]
  /\ job = NoJob

Present(files) == {i \in Ids : files[i] # "absent"}
Held(i) == lease[i] # NoHost

\* The identifier a reserve job is about to hand out.
NextId == counter + 1

\* How many records compaction must leave room for.
Occupancy == IF job.kind = "reserve" THEN MaxRetained - 1 ELSE MaxRetained

(***************************************************************************)
(* Maintenance under the allocator lock.  Taking it fails without waiting  *)
(* when somebody holds it, which changes nothing.                          *)
(***************************************************************************)
MayRun(h, kind) ==
  CASE kind = "prepare"   -> host[h] = "down"
    [] kind = "reconcile" -> host[h] \in {"prepared", "up"}
    [] kind = "reserve"   -> host[h] = "up" /\ counter < MaxId

\* The lock is taken, the counter read (and first written, over an empty
\* workspace only), and the records scanned; one past the counter is corrupt.
Acquire(h, kind) ==
  /\ job = NoJob
  /\ MayRun(h, kind)
  /\ IF counter = NoCounter
       THEN Present(record) = {} /\ locks = {} /\ counter' = 0
       ELSE (\A i \in Present(record) : i <= counter) /\ UNCHANGED counter
  /\ job' = [NoJob EXCEPT !.at = "control", !.kind = kind, !.by = h, !.seen = record]
  /\ UNCHANGED <<host, record, locks, lease>>

\* scan_control_snapshot: every record seen has its lock file.  What is left to
\* inspect are the other lock files and then the records seen running.
ScanControl ==
  /\ job.at = "control"
  /\ Present(job.seen) \subseteq locks
  /\ job' = [job EXCEPT !.at = "inspect",
                        !.left = {i \in locks : job.seen[i] \in {"absent", "running"}}]
  /\ UNCHANGED <<host, counter, record, locks, lease>>

\* A mutant: leases that have not published yet are not counted.
ClassifyForgetsPending(i) ==
  /\ job.at = "inspect"
  /\ i \in job.left /\ job.seen[i] = "absent"
  /\ Held(i) \/ record[i] = "absent"
  /\ job' = [job EXCEPT !.left = @ \ {i}, !.orphans = IF Held(i) THEN @ ELSE @ \cup {i}]
  /\ UNCHANGED <<host, counter, record, locks, lease>>

\* classify_orphan_locks, one lock file: its lease is pending, or it is an
\* orphan unless its record appeared since the scan.
Classify(i) ==
  /\ job.at = "inspect"
  /\ i \in job.left /\ job.seen[i] = "absent"
  /\ Held(i) \/ record[i] = "absent"
  /\ job' = IF Held(i) THEN [job EXCEPT !.left = @ \ {i}, !.pending = @ + 1]
                       ELSE [job EXCEPT !.left = @ \ {i}, !.orphans = @ \cup {i}]
  /\ UNCHANGED <<host, counter, record, locks, lease>>

\* freeze_unowned_records, one record: one seen running that nobody owns any
\* more is read again.
Freeze(i) ==
  /\ job.at = "inspect"
  /\ i \in job.left /\ \A j \in job.left : job.seen[j] = "running"
  /\ Held(i) \/ record[i] # "absent"
  /\ job' = [job EXCEPT !.left = @ \ {i}, !.seen[i] = IF Held(i) THEN @ ELSE record[i]]
  /\ UNCHANGED <<host, counter, record, locks, lease>>

\* select_terminal_victims: as many unowned, unchanged terminal records as
\* exceed the room left; too few of them is a resource limit.
Select ==
  LET eligible == {i \in Ids : job.seen[i] \in Terminal /\ ~Held(i) /\ record[i] = job.seen[i]}
      excess == Cardinality(Present(job.seen)) + job.pending - Occupancy
  IN /\ job.at = "inspect" /\ job.left = {}
     /\ job.pending <= Occupancy
     /\ \E victims \in SUBSET eligible :
          /\ Cardinality(victims) = (IF excess > 0 THEN excess ELSE 0)
          /\ job' = [job EXCEPT !.at = "data", !.victims = victims]
     /\ UNCHANGED <<host, counter, record, locks, lease>>

\* commit_compaction: every victim is revalidated under its authority, which is
\* then held until its files are gone.
Revalidate ==
  /\ job.at = "data"
  /\ \A i \in job.victims : i \in locks /\ ~Held(i) /\ record[i] = job.seen[i]
  /\ job' = [job EXCEPT !.at = "unlink"]
  /\ UNCHANGED <<host, counter, record, locks, lease>>

\* Data files go first, one by one; a host may die between any two.
RemoveData(i) ==
  /\ job.at = "unlink"
  /\ i \in job.victims /\ record[i] # "absent"
  /\ record' = [record EXCEPT ![i] = "absent"]
  /\ UNCHANGED <<host, counter, locks, lease, job>>

\* A victim's lock file goes when no victim has data left.
RemoveLock(i) ==
  /\ job.at = "unlink"
  /\ \A v \in job.victims : record[v] = "absent"
  /\ i \in job.victims \cap locks
  /\ locks' = locks \ {i}
  /\ UNCHANGED <<host, counter, record, lease, job>>

\* Orphans are proven again, and skipped while somebody holds one.
ProveOrphans ==
  /\ job.at = "unlink" /\ job.victims \cap locks = {}
  /\ \A i \in job.orphans : ~Held(i) => record[i] = "absent"
  /\ job' = [job EXCEPT !.at = "sweep", !.orphans = {i \in @ : ~Held(i)}]
  /\ UNCHANGED <<host, counter, record, locks, lease>>

Sweep(i) ==
  /\ job.at = "sweep"
  /\ i \in job.orphans \cap locks
  /\ locks' = locks \ {i}
  /\ UNCHANGED <<host, counter, record, lease, job>>

\* The history is compacted; the job goes on to what it was for.
Compacted ==
  /\ job.at = "sweep" /\ job.orphans \cap locks = {}
  /\ job' = IF job.kind = "prepare" THEN NoJob
            ELSE [job EXCEPT !.at = IF job.kind = "reserve" THEN "count" ELSE "rescan"]
  /\ host' = IF job.kind = "prepare" THEN [host EXCEPT ![job.by] = "prepared"] ELSE host
  /\ UNCHANGED <<counter, record, locks, lease>>

\* replace_counter: the identifier is spent before anybody may hold it.
Count ==
  /\ job.at = "count"
  /\ counter' = NextId
  /\ job' = [job EXCEPT !.at = "create"]
  /\ UNCHANGED <<host, record, locks, lease>>

\* open_private_lock for the reserved identifier.
CreateLock ==
  /\ job.at = "create"
  /\ locks' = locks \cup {counter}
  /\ job' = [job EXCEPT !.at = "flock"]
  /\ UNCHANGED <<host, counter, record, lease>>

\* acquire_exclusive: the lease, and the end of reserve_id.
Flock ==
  /\ job.at = "flock"
  /\ ~Held(counter)
  /\ lease' = [lease EXCEPT ![counter] = job.by]
  /\ job' = NoJob
  /\ UNCHANGED <<host, counter, record, locks>>

\* reconcile scans again after compaction.
Rescan ==
  /\ job.at = "rescan"
  /\ job' = [job EXCEPT !.at = "mark", !.seen = record]
  /\ UNCHANGED <<host, counter, record, locks, lease>>

\* A mutant: the owner's lock is not tried before the record is marked.
MarkOwned(i) ==
  /\ job.at = "mark"
  /\ job.seen[i] = "running"
  /\ i \in locks /\ record[i] # "absent"
  /\ record' = IF record[i] = "running" THEN [record EXCEPT ![i] = "stale"] ELSE record
  /\ job' = [job EXCEPT !.seen[i] = "absent"]
  /\ UNCHANGED <<host, counter, locks, lease>>

\* One record seen running: skipped while owned; read again under its lock,
\* and marked stale only if it still says running.
Mark(i) ==
  /\ job.at = "mark"
  /\ job.seen[i] = "running"
  /\ i \in locks
  /\ Held(i) \/ record[i] # "absent"
  /\ record' = IF ~Held(i) /\ record[i] = "running"
                 THEN [record EXCEPT ![i] = "stale"] ELSE record
  /\ job' = [job EXCEPT !.seen[i] = "absent"]
  /\ UNCHANGED <<host, counter, locks, lease>>

Reconciled ==
  /\ job.at = "mark"
  /\ \A i \in Ids : job.seen[i] # "running"
  /\ host' = [host EXCEPT ![job.by] = "up"]
  /\ job' = NoJob
  /\ UNCHANGED <<counter, record, locks, lease>>

\* Any call of a job may fail, and a failed check ends it too; a host that
\* was opening is not constructed.
Fail ==
  /\ job # NoJob
  /\ job' = NoJob
  /\ host' = [host EXCEPT ![job.by] = IF @ = "up" THEN "up" ELSE "down"]
  /\ UNCHANGED <<counter, record, locks, lease>>

(***************************************************************************)
(* Owners, without the allocator lock.                                     *)
(***************************************************************************)
PublishInitial(i) ==
  /\ Held(i)
  /\ record[i] = "absent"
  /\ record' = [record EXCEPT ![i] = "running"]
  /\ UNCHANGED <<host, counter, locks, lease, job>>

Replace(i, o) ==
  /\ Held(i)
  /\ record[i] = "running"
  /\ record' = [record EXCEPT ![i] = o]
  /\ UNCHANGED <<host, counter, locks, lease, job>>

DropLease(i) ==
  /\ Held(i)
  /\ lease' = [lease EXCEPT ![i] = NoHost]
  /\ UNCHANGED <<host, counter, record, locks, job>>

\* The host dies: its flocks go, its files stay as they are.
Crash(h) ==
  /\ host[h] # "down" \/ job.by = h
  /\ host' = [host EXCEPT ![h] = "down"]
  /\ lease' = [i \in Ids |-> IF lease[i] = h THEN NoHost ELSE lease[i]]
  /\ job' = IF job.by = h THEN NoJob ELSE job
  /\ UNCHANGED <<counter, record, locks>>

Next ==
  \/ \E h \in Hosts, kind \in Kinds : Acquire(h, kind)
  \/ ScanControl \/ Select \/ Revalidate \/ ProveOrphans \/ Compacted
  \/ \E i \in Ids : Classify(i) \/ Freeze(i)
  \/ \E i \in Ids : RemoveData(i) \/ RemoveLock(i) \/ Sweep(i)
  \/ Count \/ CreateLock \/ Flock
  \/ Rescan \/ (\E i \in Ids : Mark(i)) \/ Reconciled \/ Fail
  \/ \E i \in Ids : PublishInitial(i) \/ DropLease(i)
  \/ \E i \in Ids, o \in Outcomes : Replace(i, o)
  \/ \E h \in Hosts : Crash(h)

Spec == Init /\ [][Next]_vars
----------------------------------------------------------------------------
(***************************************************************************)
(* Properties                                                              *)
(***************************************************************************)
\* What every later job insists on: each record has its lock file and lies
\* within the counter, each lease is on a lock file that is still there, and a
\* workspace without a counter is empty.
WellFormed ==
  /\ \A i \in Present(record) : i \in locks /\ counter # NoCounter /\ i <= counter
  /\ \A i \in Ids : Held(i) => i \in locks
  /\ counter = NoCounter => locks = {}

\* A workspace never becomes one that every later job must refuse, wherever a
\* host died: it stays well formed, and its records with the leases that may
\* still publish one stay within MAX_RETAINED_BACKGROUND_RECORDS, though owners
\* publish without the allocator lock between the two snapshots that
\* compact_history counts from.
Serviceable ==
  /\ WellFormed
  /\ Cardinality({i \in Ids : record[i] # "absent" \/ Held(i)}) <= MaxRetained

\* The identifiers nobody can be given any more: the one a job has counted
\* but not yet locked is still to be handed out.
Spent == IF counter = NoCounter THEN {}
         ELSE (1..counter) \ (IF job.at \in {"create", "flock"} THEN {counter} ELSE {})

History == INSTANCE BackgroundHistory WITH
  leased <- {i \in Ids : Held(i)}, spent <- Spent

\* The store keeps the abstract history: identifiers are handed out once, an
\* owned record is changed by its owner alone, terminal records are final and
\* only unowned running ones become stale.
ImplementsHistory == History!HistSpec
=============================================================================
