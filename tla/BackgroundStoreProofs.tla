----------------------- MODULE BackgroundStoreProofs -----------------------
(***************************************************************************)
(* For any number of hosts, identifiers and retained records: the store    *)
(* stays well formed and within its bounds, and implements the abstract    *)
(* history.  All need to know what a job has established by the time it    *)
(* removes a file or hands out an identifier, and that owners cannot undo  *)
(* it meanwhile.                                                           *)
(***************************************************************************)
EXTENDS BackgroundStore, FiniteSetTheorems, TLAPS

\* What the lock files, the counter and the running job know of each other.
JobInv ==
  /\ \A i \in locks : counter # NoCounter /\ i <= counter
  /\ job.at # "idle" => counter # NoCounter /\ job.by \in Hosts
  /\ job.kind = "reserve" /\ job.at \in {"control", "inspect", "data", "unlink", "sweep", "count"}
       => counter < MaxId
  /\ job.at = "count" => job.kind = "reserve"
  /\ job.at = "data" => \A i \in job.victims : job.seen[i] \in Terminal
  /\ job.at = "unlink" => \A i \in job.victims : ~Held(i) /\ record[i] \in Terminal \cup {"absent"}
  /\ job.at = "sweep" => \A i \in job.orphans : ~Held(i) /\ record[i] = "absent"
  /\ job.at \in {"create", "flock"} => counter \in Ids
  /\ job.at = "flock" => counter \in locks

\* The inductive invariant.
IInv == TypeOK /\ WellFormed /\ JobInv

\* Every set of identifiers is finite, so its cardinality is a number.
LEMMA IdsFinite == \A S \in SUBSET Ids : Cardinality(S) \in Nat
<1>1. IsFiniteSet(Ids)
  BY StoreAssumption, FS_Interval DEF Ids
<1> QED
  BY <1>1, FS_Subset, FS_CardinalityType

\* The empty workspace satisfies the invariant.
LEMMA InitIInv == Init => IInv
BY SMTT(90), StoreAssumption DEF Init, IInv, TypeOK, WellFormed, JobInv, NoJob, NoCounter, Ids, States,
   Terminal, Jobs, Kinds, Phases, Present, Held

\* Every step keeps the invariant.
LEMMA NextIInv == IInv /\ [Next]_vars => IInv'
<1> SUFFICES ASSUME IInv, [Next]_vars PROVE IInv'
  OBVIOUS
<1> USE StoreAssumption, IdsFinite
    DEF IInv, TypeOK, WellFormed, JobInv, Ids, NoCounter, Present, Held, NoJob, Jobs, Phases,
        Kinds, States, Terminal
<1>1. CASE \E h \in Hosts, kind \in Kinds : Acquire(h, kind)
  <2>1. PICK h \in Hosts, kind \in Kinds : Acquire(h, kind)
    BY <1>1
  <2>2. kind = "reserve" => counter < MaxId
    BY <2>1 DEF Acquire, MayRun
  <2>3. /\ job'.at = "control" /\ job'.kind = kind
        /\ job' \in Jobs
    BY ZenonT(60), <2>1 DEF Acquire
  <2> QED
    BY SMTT(90), <2>1, <2>2, <2>3 DEF Acquire
<1>2. CASE ScanControl \/ \E i \in Ids : Classify(i) \/ Freeze(i)
  <2>1. CASE ScanControl
    BY ZenonT(60), <2>1 DEF ScanControl
  <2>2. CASE \E i \in Ids : Classify(i)
    <3>1. /\ job' \in Jobs /\ job'.at = "inspect" /\ job.at = "inspect"
          /\ job'.kind = job.kind /\ job'.by = job.by
      <4>1. PICK i \in Ids : Classify(i)
        BY <2>2
      <4>2. /\ job.at = "inspect" /\ job.left \ {i} \in SUBSET Ids
            /\ job.pending + 1 \in Nat /\ job.orphans \cup {i} \in SUBSET Ids
        BY <4>1 DEF Classify
      <4>3. CASE job' = [job EXCEPT !.left = job.left \ {i}, !.pending = job.pending + 1]
        BY Zenon, <4>2, <4>3
      <4>4. CASE job' = [job EXCEPT !.left = job.left \ {i}, !.orphans = job.orphans \cup {i}]
        BY Zenon, <4>2, <4>4
      <4> QED
        BY Zenon, <4>1, <4>3, <4>4 DEF Classify
    <3>2. UNCHANGED <<host, counter, record, locks, lease>>
      BY <2>2 DEF Classify
    <3> QED
      BY <3>1, <3>2
  <2>3. CASE \E i \in Ids : Freeze(i)
    <3>1. /\ job' \in Jobs /\ job'.at = "inspect" /\ job.at = "inspect"
          /\ job'.kind = job.kind /\ job'.by = job.by
      <4>1. PICK i \in Ids : Freeze(i)
        BY <2>3
      <4>2. PICK s \in [Ids -> States] :
              job.at = "inspect" /\ job' = [job EXCEPT !.left = job.left \ {i}, !.seen = s]
        BY Zenon, <4>1 DEF Freeze
      <4>3. job.left \ {i} \in SUBSET Ids
        OBVIOUS
      <4> QED
        BY Zenon, <4>2, <4>3
    <3>2. UNCHANGED <<host, counter, record, locks, lease>>
      BY <2>3 DEF Freeze
    <3> QED
      BY <3>1, <3>2
  <2> QED
    BY ZenonT(60), <1>2, <2>1, <2>2, <2>3
<1>3. CASE Select
  <2>1. PICK victims \in SUBSET {i \in Ids : job.seen[i] \in Terminal} :
          job' = [job EXCEPT !.at = "data", !.victims = victims]
    BY ZenonT(60), <1>3 DEF Select
  <2>2. /\ job' \in Jobs
        /\ job'.at = "data" /\ job'.kind = job.kind /\ job'.by = job.by
        /\ job'.seen = job.seen /\ job'.victims = victims
    BY ZenonT(60), <2>1
  <2> QED
    BY SMTT(90), <1>3, <2>1, <2>2 DEF Select
<1>4. CASE Revalidate
  BY ZenonT(60), <1>4 DEF Revalidate
<1>5. CASE ProveOrphans
  BY ZenonT(60), <1>5 DEF ProveOrphans
<1>6. CASE Compacted
  BY ZenonT(60), <1>6 DEF Compacted
<1>7. CASE \E i \in Ids : RemoveData(i)
  BY <1>7 DEF RemoveData
<1>8. CASE \E i \in Ids : RemoveLock(i)
  BY <1>8 DEF RemoveLock
<1>9. CASE \E i \in Ids : Sweep(i)
  BY <1>9 DEF Sweep
<1>10. CASE Count
  <2>1. job' \in Jobs /\ job'.at = "create" /\ job'.by = job.by /\ job.by \in Hosts
    BY Zenon, <1>10 DEF Count
  <2>2. job.at = "count" /\ counter' = counter + 1 /\ UNCHANGED <<host, record, locks, lease>>
    BY <1>10 DEF Count, NextId
  <2>3. counter \in 0..(MaxId - 1)
    BY <2>2
  <2> QED
    BY <2>1, <2>2, <2>3
<1>11. CASE CreateLock
  <2>1. /\ job' \in Jobs
        /\ job'.at = "flock" /\ job'.kind = job.kind /\ job'.by \in Hosts
    BY ZenonT(60), <1>11 DEF CreateLock
  <2>2. counter \in Ids /\ counter # NoCounter
    BY <1>11 DEF CreateLock
  <2>3. locks' = locks \cup {counter} /\ UNCHANGED <<host, counter, record, lease>>
    BY <1>11 DEF CreateLock
  <2>4. TypeOK'
    BY <2>1, <2>2, <2>3
  <2>5. WellFormed'
    BY <2>2, <2>3
  <2>6. JobInv'
    BY SMTT(90), <2>1, <2>2, <2>3
  <2> QED
    BY <2>4, <2>5, <2>6
<1>12. CASE Flock
  BY <1>12 DEF Flock
<1>13. CASE Rescan
  BY ZenonT(60), <1>13 DEF Rescan
<1>14. CASE \E i \in Ids : Mark(i)
  <2>1. PICK i \in Ids : Mark(i)
    BY <1>14
  <2>2. /\ job' \in Jobs
        /\ job'.at = "mark" /\ job'.kind = job.kind
    BY Zenon, <2>1 DEF Mark
  <2>3. record' \in [Ids -> States] /\ \A j \in Ids : record'[j] # "absent" <=> record[j] # "absent"
    BY SMTT(90), <2>1 DEF Mark
  <2> QED
    BY ZenonT(60), <2>1, <2>2, <2>3 DEF Mark
<1>15. CASE Reconciled
  BY SMTT(90), <1>15 DEF Reconciled
<1>16. CASE Fail
  BY ZenonT(60), <1>16 DEF Fail
<1>17. CASE \E i \in Ids : PublishInitial(i)
  BY <1>17 DEF PublishInitial
<1>18. CASE \E i \in Ids : DropLease(i)
  BY <1>18 DEF DropLease
<1>19. CASE \E i \in Ids, o \in Outcomes : Replace(i, o)
  BY <1>19 DEF Replace
<1>20. CASE \E h \in Hosts : Crash(h)
  BY <1>20 DEF Crash
<1>21. CASE UNCHANGED vars
  BY <1>21 DEF vars
<1> QED
  BY ZenonT(60), <1>1, <1>2, <1>3, <1>4, <1>5, <1>6, <1>7, <1>8, <1>9, <1>10, <1>11, <1>12, <1>13, <1>14, <1>15, <1>16, <1>17, <1>18, <1>19, <1>20, <1>21 DEF Next

\* Jobs that touch neither a record nor a lease nor what is spent.
LEMMA StepStutters ==
  ASSUME IInv, UNCHANGED <<record, lease>>, Spent' = Spent
  PROVE  UNCHANGED History!histVars
BY DEF History!histVars, Held

\* The identifier a job has counted and not handed out is lost with the job.
Burnt == IF job.at \in {"create", "flock"} THEN {counter} ELSE {}

\* A job that ends spends the identifier it had counted, and no other.
LEMMA JobEnds ==
  ASSUME IInv, UNCHANGED counter, job'.at = "idle"
  PROVE  Burnt \in SUBSET Ids /\ Spent' = Spent \cup Burnt
BY StoreAssumption DEF IInv, TypeOK, JobInv, Ids, NoCounter, Spent, Burnt

\* Every step is a step of the abstract history or invisible to it: a hand-out
\* is the flock, a failure after the count burns the identifier.
LEMMA StepRefines == IInv /\ IInv' /\ [Next]_vars => [History!HistNext]_(History!histVars)
<1> SUFFICES ASSUME IInv, IInv', [Next]_vars PROVE [History!HistNext]_(History!histVars)
  OBVIOUS
<1>0. /\ \A i \in Ids : History!Reserve(i) \/ History!Publish(i) \/ History!Stale(i)
           => History!HistNext
      /\ \A i \in Ids, o \in Outcomes : History!Complete(i, o) => History!HistNext
      /\ \A S \in SUBSET {i \in Ids : Held(i)}, T \in SUBSET Ids : History!Release(S, T)
           => History!HistNext
      /\ \A S \in SUBSET Ids : History!Forget(S) => History!HistNext
  BY DEF History!HistNext
<1> USE StoreAssumption DEF IInv, TypeOK, JobInv, Ids, NoCounter, Held, Jobs
<1>1. CASE \E h \in Hosts, kind \in Kinds : Acquire(h, kind)
  <2>1. Spent' = Spent
    BY SMTT(90), <1>1 DEF Acquire, Spent, NoJob
  <2> QED
    BY <1>1, <2>1, StepStutters DEF Acquire
<1>2. CASE ScanControl \/ Select \/ Revalidate \/ ProveOrphans \/ Compacted \/ Rescan \/ Reconciled
  <2>1. Spent' = Spent
    <3>1. counter' = counter /\ job.at \notin {"create", "flock"}
      BY Zenon, <1>2 DEF ScanControl, Select, Revalidate, ProveOrphans, Compacted, Rescan, Reconciled
    <3>2. job'.at \notin {"create", "flock"}
      <4>1. CASE ScanControl
        BY ZenonT(60), <4>1 DEF ScanControl
      <4>2. CASE Select
        BY <4>2 DEF Select
      <4>3. CASE Revalidate \/ ProveOrphans \/ Rescan
        BY ZenonT(60), <4>3 DEF Revalidate, ProveOrphans, Rescan
      <4>4. CASE Compacted \/ Reconciled
        BY <4>4 DEF Compacted, Reconciled, NoJob
      <4> QED
        BY SMTT(90), <1>2, <4>1, <4>2, <4>3, <4>4
    <3> QED
      BY SMTT(90), <3>1, <3>2 DEF Spent
  <2> QED
    BY ZenonT(60), <1>2, <2>1, StepStutters
       DEF ScanControl, Select, Revalidate, ProveOrphans, Compacted, Rescan, Reconciled
<1>3. CASE \E i \in Ids : RemoveLock(i) \/ Sweep(i)
  BY Zenon, <1>3, StepStutters DEF RemoveLock, Sweep, Spent
<1>15. CASE \E i \in Ids : Classify(i) \/ Freeze(i)
  <2>1. PICK i \in Ids : Classify(i) \/ Freeze(i)
    BY <1>15
  <2>2. job.at = "inspect" /\ UNCHANGED <<counter, record, lease>>
    BY Zenon, <2>1 DEF Classify, Freeze
  <2>4. job'.at = "inspect"
    <3>1. CASE Classify(i)
      BY Zenon, <2>2, <3>1 DEF Classify
    <3>2. CASE Freeze(i)
      BY Zenon, <2>2, <3>2 DEF Freeze
    <3> QED
      BY ZenonT(60), <2>1, <3>1, <3>2
  <2>3. Spent' = Spent
    BY ZenonT(60), <2>2, <2>4 DEF Spent
  <2> QED
    BY ZenonT(60), <2>2, <2>3, StepStutters
<1>4. CASE Count
  <2>1. Spent' = Spent
    BY <1>4 DEF Count, NextId, Spent
  <2> QED
    BY <1>4, <2>1, StepStutters DEF Count
<1>5. CASE CreateLock
  <2>1. Spent' = Spent
    BY <1>5 DEF CreateLock, Spent
  <2> QED
    BY <1>5, <2>1, StepStutters DEF CreateLock
<1>6. CASE Flock
  <2>1. PICK n \in Ids : n = counter
    BY ZenonT(60), <1>6 DEF Flock
  <2>2. n \notin Spent /\ Spent' = Spent \cup {n}
    BY <1>6, <2>1 DEF Flock, Spent, NoJob
  <2>3. {i \in Ids : Held(i)}' = {i \in Ids : Held(i)} \cup {n}
    <3>1. lease' = [lease EXCEPT ![n] = job.by] /\ job.by # NoHost
      BY <1>6, <2>1 DEF Flock
    <3> QED
      BY <3>1
  <2>4. History!Reserve(n)
    BY ZenonT(60), <1>6, <2>2, <2>3 DEF Flock, History!Reserve
  <2> QED
    BY ZenonT(60), <1>0, <2>4
<1>7. CASE Fail
  <2>1. PICK burnt \in SUBSET Ids : Spent' = Spent \cup burnt
    <3>1. UNCHANGED counter /\ job'.at = "idle"
      BY ZenonT(60), <1>7 DEF Fail, NoJob
    <3> QED
      BY ZenonT(60), <3>1, JobEnds
  <2>2. History!Release({}, burnt)
    BY <1>7, <2>1 DEF Fail, History!Release
  <2> QED
    BY ZenonT(60), <1>0, <2>2
<1>8. CASE \E h \in Hosts : Crash(h)
  <2>1. PICK h \in Hosts : Crash(h)
    BY ZenonT(60), <1>8
  <2>2. PICK burnt \in SUBSET Ids : Spent' = Spent \cup burnt
    <3>1. CASE job.by = h
      BY Zenon, <2>1, <3>1, JobEnds DEF Crash, NoJob
    <3>2. CASE job.by # h
      <4>1. Spent' = Spent \cup {}
        BY ZenonT(60), <2>1, <3>2 DEF Crash, Spent
      <4> QED
        BY ZenonT(60), <4>1
    <3> QED
      BY Zenon, <3>1, <3>2
  <2>3. PICK lost \in SUBSET {i \in Ids : Held(i)} :
          {i \in Ids : Held(i)}' = {i \in Ids : Held(i)} \ lost
    <3>1. {i \in Ids : Held(i)}' = {i \in Ids : Held(i)} \ {i \in Ids : lease[i] = h}
      BY ZenonT(60), <2>1 DEF Crash
    <3>2. {i \in Ids : lease[i] = h} \in SUBSET {i \in Ids : Held(i)}
      OBVIOUS
    <3> QED
      BY ZenonT(60), <3>1, <3>2
  <2>4. History!Release(lost, burnt)
    BY Zenon, <2>1, <2>2, <2>3 DEF Crash, History!Release
  <2> QED
    BY ZenonT(60), <1>0, <2>4
<1>9. CASE \E i \in Ids : DropLease(i)
  <2>1. PICK i \in Ids : DropLease(i)
    BY ZenonT(60), <1>9
  <2>2. {j \in Ids : Held(j)}' = {j \in Ids : Held(j)} \ {i} /\ {i} \subseteq {j \in Ids : Held(j)}
    BY SMTT(90), <2>1 DEF DropLease
  <2>3. Spent' = Spent \cup {}
    BY SMTT(90), <2>1 DEF DropLease, Spent
  <2>4. History!Release({i}, {})
    BY ZenonT(60), <2>1, <2>2, <2>3 DEF DropLease, History!Release
  <2> QED
    <3>1. {i} \in SUBSET {j \in Ids : Held(j)} /\ {} \in SUBSET Ids
      BY ZenonT(60), <2>2
    <3> QED
      BY Zenon, <1>0, <2>4, <3>1
<1>10. CASE \E i \in Ids : RemoveData(i)
  <2>1. PICK i \in Ids : RemoveData(i)
    BY <1>10
  <2>2. record[i] \in Terminal /\ ~Held(i)
    BY ZenonT(60), <2>1 DEF RemoveData
  <2>3. record' = [j \in Ids |-> IF j \in {i} THEN "absent" ELSE record[j]]
    BY ZenonT(60), <2>1 DEF RemoveData
  <2>4. History!Forget({i})
    <3>1. {i} \cap {j \in Ids : Held(j)} = {} /\ \A j \in {i} : record[j] \in History!Terminal
      BY <2>2 DEF Terminal, History!Terminal
    <3>2. Spent' = Spent /\ UNCHANGED lease
      BY ZenonT(60), <2>1 DEF RemoveData, Spent
    <3> QED
      BY <2>3, <3>1, <3>2 DEF History!Forget
  <2> QED
    BY ZenonT(60), <1>0, <2>4
<1>11. CASE \E i \in Ids : Mark(i)
  <2>1. PICK i \in Ids : Mark(i)
    BY <1>11
  <2>2. Spent' = Spent
    BY SMTT(90), <2>1 DEF Mark, Spent
  <2>3. CASE ~Held(i) /\ record[i] = "running"
    <3>1. History!Stale(i)
      BY <2>1, <2>2, <2>3 DEF Mark, History!Stale
    <3> QED
      BY ZenonT(60), <1>0, <3>1
  <2>4. CASE ~(~Held(i) /\ record[i] = "running")
    BY SMTT(90), <2>1, <2>2, <2>4, StepStutters DEF Mark
  <2> QED
    BY ZenonT(60), <2>3, <2>4
<1>12. CASE \E i \in Ids : PublishInitial(i)
  <2>1. PICK i \in Ids : PublishInitial(i)
    BY <1>12
  <2>2. History!Publish(i)
    BY <2>1 DEF PublishInitial, Spent, History!Publish
  <2> QED
    BY ZenonT(60), <1>0, <2>2
<1>13. CASE \E i \in Ids, o \in Outcomes : Replace(i, o)
  <2>1. PICK i \in Ids, o \in Outcomes : Replace(i, o)
    BY ZenonT(60), <1>13
  <2>2. History!Complete(i, o)
    BY SMTT(90), <2>1 DEF Replace, Spent, History!Complete
  <2> QED
    BY ZenonT(60), <1>0, <2>2
<1>14. CASE UNCHANGED vars
  BY ZenonT(60), <1>14, StepStutters DEF vars, Spent
<1> QED
  BY <1>1, <1>2, <1>3, <1>4, <1>5, <1>6, <1>7, <1>8, <1>9, <1>10, <1>11, <1>12, <1>13, <1>14, <1>15 DEF Next

\* An empty workspace is an empty history.
LEMMA InitRefines == Init => History!HistInit
BY StoreAssumption DEF Init, NoJob, NoCounter, Spent, Held, Ids, History!HistInit

\* The workspace stays well formed, whatever hosts die and whatever owners
\* publish while a job compacts (background_store.rs, commit_compaction).
THEOREM StaysWellFormed == Spec => []WellFormed
<1>1. IInv => WellFormed
  BY DEF IInv
<1> QED
  BY InitIInv, NextIInv, <1>1, PTL DEF Spec

\* The store implements the abstract history: identifiers are handed out once,
\* owned records change only in their owner's hands, terminal ones are final.
THEOREM StoreImplementsHistory == Spec => ImplementsHistory
<1>1. Init /\ [][Next]_vars => []IInv
  BY InitIInv, NextIInv, PTL
<1> QED
  BY <1>1, InitRefines, StepRefines, PTL DEF Spec, ImplementsHistory, History!HistSpec

----------------------------------------------------------------------------
(* How many records there are.                                             *)

\* The identifiers that count: those with a record and those that may still
\* publish one.
Kept == {i \in Ids : record[i] # "absent" \/ Held(i)}

\* What a job knows of their number: while it inspects, those it neither saw a
\* record of nor has left to inspect were counted as pending; once its victims are
\* chosen, the others leave the room it needs; and then so do all.
CountInv ==
  /\ Cardinality(Kept) <= MaxRetained
  /\ job.at = "inspect" => Cardinality(Kept \ (Present(job.seen) \cup job.left)) <= job.pending
  /\ job.at \in {"data", "unlink"} => Cardinality(Kept \ job.victims) <= Occupancy
  /\ job.at = "sweep" => Cardinality(Kept) <= Occupancy
  /\ job.at \in {"count", "create", "flock"} => Cardinality(Kept) <= MaxRetained - 1

\* Cardinalities of sets of identifiers.
LEMMA Counting ==
  ASSUME NEW S \in SUBSET Ids, NEW T \in SUBSET Ids
  PROVE  /\ Cardinality(S) \in Nat /\ Cardinality(T) \in Nat
         /\ S \subseteq T => Cardinality(S) <= Cardinality(T)
         /\ Cardinality(S \cup T) <= Cardinality(S) + Cardinality(T)
         /\ T \subseteq S => Cardinality(S \ T) = Cardinality(S) - Cardinality(T)
<1>1. IsFiniteSet(S) /\ IsFiniteSet(T)
  <2>1. IsFiniteSet(Ids)
    BY StoreAssumption, FS_Interval DEF Ids
  <2> QED BY Zenon, <2>1, FS_Subset
<1>2. Cardinality(S) \in Nat /\ Cardinality(T) \in Nat
  BY IdsFinite
<1>3. S \subseteq T => Cardinality(S) <= Cardinality(T)
  BY <1>1, FS_Subset
<1>4. Cardinality(S \cup T) <= Cardinality(S) + Cardinality(T)
  <2>1. Cardinality(S \cup T) = Cardinality(S) + Cardinality(T) - Cardinality(S \cap T)
    BY <1>1, FS_Union
  <2>2. Cardinality(S \cap T) \in Nat
    <3>1. S \cap T \in SUBSET Ids
      OBVIOUS
    <3> QED BY <3>1, IdsFinite
  <2> QED BY <1>2, <2>1, <2>2
<1>5. ASSUME T \subseteq S PROVE Cardinality(S \ T) = Cardinality(S) - Cardinality(T)
  <2>1. S \cap T = T
    BY Zenon, <1>5
  <2> QED BY Zenon, <1>1, <2>1, FS_Difference
<1> QED BY <1>2, <1>3, <1>4, <1>5

\* The sets that are counted.
LEMMA KeptTyped ==
  /\ Kept \in SUBSET Ids /\ Kept' \in SUBSET Ids
  /\ \A S : Kept \ S \in SUBSET Ids /\ Kept' \ S \in SUBSET Ids
BY Zenon DEF Kept

\* A part of a set within its bound is within it.
LEMMA Fewer ==
  ASSUME NEW S \in SUBSET Ids, NEW T \in SUBSET Ids, S \subseteq T, NEW n \in Int, Cardinality(T) <= n
  PROVE  Cardinality(S) <= n
<1>1. Cardinality(S) \in Nat /\ Cardinality(T) \in Nat /\ Cardinality(S) <= Cardinality(T)
  BY Zenon, Counting
<1> QED BY <1>1

\* The bounds are numbers.
LEMMA BoundsTyped ==
  ASSUME IInv
  PROVE  MaxRetained \in Int /\ MaxRetained - 1 \in Int /\ Occupancy \in Int /\ job.pending \in Int
<1>1. job.pending \in Nat
  BY Zenon DEF IInv, TypeOK, Jobs
<1>2. MaxRetained \in Int /\ MaxRetained - 1 \in Int /\ job.pending \in Int
  BY <1>1, StoreAssumption
<1> QED BY Zenon, <1>2 DEF Occupancy

\* A step that keeps no more than before, with the job where it was or where
\* nothing but the limit is known.
LEMMA FewerKept ==
  ASSUME IInv, CountInv, Kept' \subseteq Kept,
         job' = job \/ job'.at \in {"idle", "control", "rescan", "mark"}
  PROVE  CountInv'
<1>1. /\ Kept \in SUBSET Ids /\ Kept' \in SUBSET Ids
      /\ \A S : Kept \ S \in SUBSET Ids /\ Kept' \ S \in SUBSET Ids /\ Kept' \ S \subseteq Kept \ S
  BY Zenon, KeptTyped
<1>2. \A n \in Int : Cardinality(Kept) <= n => Cardinality(Kept') <= n
  BY Zenon, <1>1, Fewer
<1>3. \A S : \A n \in Int : Cardinality(Kept \ S) <= n => Cardinality(Kept' \ S) <= n
  BY Zenon, <1>1, Fewer
<1>4. Cardinality(Kept') <= MaxRetained
  BY Zenon, <1>2, BoundsTyped DEF CountInv
<1>5. CASE job' = job
  <2>1. Occupancy' = Occupancy /\ Present(job.seen)' = Present(job.seen)
    BY Zenon, <1>5 DEF Occupancy, Present
  <2>2. job.at = "inspect" => Cardinality(Kept' \ (Present(job.seen) \cup job.left)) <= job.pending
    BY Zenon, <1>3, BoundsTyped DEF CountInv
  <2>3. job.at \in {"data", "unlink"} => Cardinality(Kept' \ job.victims) <= Occupancy
    BY Zenon, <1>3, BoundsTyped DEF CountInv
  <2>4. /\ job.at = "sweep" => Cardinality(Kept') <= Occupancy
        /\ job.at \in {"count", "create", "flock"} => Cardinality(Kept') <= MaxRetained - 1
    BY Zenon, <1>2, BoundsTyped DEF CountInv
  <2> QED BY Zenon, <1>4, <1>5, <2>1, <2>2, <2>3, <2>4 DEF CountInv
<1>6. CASE job'.at \in {"idle", "control", "rescan", "mark"}
  BY Zenon, <1>4, <1>6 DEF CountInv
<1> QED BY Zenon, <1>5, <1>6

\* Records and leases alone decide what is kept.
LEMMA SameKept == ASSUME UNCHANGED <<record, lease>> PROVE Kept' = Kept
BY Zenon DEF Kept, Held

\* What is kept has its lock file.
LEMMA KeptLocked == ASSUME IInv PROVE Kept \subseteq locks
BY Zenon DEF IInv, WellFormed, Kept, Present

\* The control snapshot: what it did not see a record of is left to inspect.
LEMMA ScanCounts == ASSUME IInv, CountInv, ScanControl PROVE CountInv'
<1>1. job.at = "control" /\ UNCHANGED <<record, lease>>
  BY Zenon DEF ScanControl
<1>2. job \in Jobs /\ job.seen \in [Ids -> States]
  BY Zenon DEF IInv, TypeOK, Jobs
<1>3. /\ job'.at = "inspect" /\ job'.seen = job.seen /\ job'.pending = job.pending
      /\ job'.left = {i \in locks : job.seen[i] \in {"absent", "running"}}
  BY Zenon, <1>2 DEF ScanControl, Jobs
<1>4. Kept' = Kept
  BY Zenon, <1>1, SameKept
<1>5. Kept' \ (Present(job'.seen) \cup job'.left) = {}
  BY Zenon, <1>3, <1>4, KeptLocked DEF Present, Kept
<1>6. Cardinality(Kept' \ (Present(job'.seen) \cup job'.left)) <= job'.pending
  <2>1. Cardinality({}) = 0 /\ job.pending \in Nat
    BY Zenon, FS_EmptySet DEF IInv, TypeOK, Jobs
  <2>2. 0 <= job.pending
    BY <2>1
  <2> QED BY Zenon, <1>3, <1>5, <2>1, <2>2
<1> QED BY Zenon, <1>3, <1>4, <1>6 DEF CountInv

\* One lock file: held, it is counted; an orphan is not kept.
LEMMA ClassifyCounts == ASSUME IInv, CountInv, NEW i \in Ids, Classify(i) PROVE CountInv'
<1>1. job.at = "inspect" /\ i \in job.left /\ (Held(i) \/ record[i] = "absent") /\ UNCHANGED <<record, lease>>
  BY Zenon DEF Classify
<1>2. job \in Jobs /\ job.pending \in Nat
  BY Zenon DEF IInv, TypeOK, Jobs
<1>3. /\ job'.at = "inspect" /\ job'.seen = job.seen /\ job'.left = job.left \ {i}
      /\ Held(i) => job'.pending = job.pending + 1
      /\ ~Held(i) => job'.pending = job.pending
  <2>1. CASE Held(i)
    BY Zenon, <1>1, <1>2, <2>1 DEF Classify, Jobs
  <2>2. CASE ~Held(i)
    BY Zenon, <1>1, <1>2, <2>2 DEF Classify, Jobs
  <2> QED BY Zenon, <2>1, <2>2
<1>4. Kept' = Kept
  BY Zenon, <1>1, SameKept
<1> DEFINE S == Kept \ (Present(job.seen) \cup job.left)
<1> DEFINE T == Kept' \ (Present(job'.seen) \cup job'.left)
<1>5. S \in SUBSET Ids /\ T \in SUBSET Ids /\ {i} \in SUBSET Ids /\ T \subseteq S \cup {i} /\ (~Held(i) => T \subseteq S)
  BY Zenon, <1>1, <1>3, <1>4 DEF Kept
<1>6. Cardinality(S) <= job.pending
  BY Zenon, <1>1 DEF CountInv
<1> HIDE DEF S, T
<1>7. Cardinality(T) <= job'.pending
  <2>1. CASE Held(i)
    <3>1. Cardinality(S \cup {i}) <= Cardinality(S) + Cardinality({i}) /\ Cardinality(S) \in Nat
      BY Zenon, <1>5, Counting
    <3>2. Cardinality({i}) = 1 /\ S \cup {i} \in SUBSET Ids
      BY Zenon, <1>5, FS_Singleton
    <3>3. Cardinality(T) <= Cardinality(S \cup {i}) /\ Cardinality(T) \in Nat /\ Cardinality(S \cup {i}) \in Nat
      BY Zenon, <1>5, <3>2, Counting
    <3> QED BY <1>2, <1>3, <1>6, <2>1, <3>1, <3>2, <3>3
  <2>2. CASE ~Held(i)
    BY Zenon, <1>3, <1>5, <1>6, <2>2, Fewer, BoundsTyped
  <2> QED BY Zenon, <2>1, <2>2
<1> QED BY Zenon, <1>3, <1>4, <1>7 DEF CountInv, T

\* One record seen running: still seen.
LEMMA FreezeCounts == ASSUME IInv, CountInv, NEW i \in Ids, Freeze(i) PROVE CountInv'
<1>1. /\ job.at = "inspect" /\ i \in job.left /\ job.seen[i] = "running" /\ (Held(i) \/ record[i] # "absent")
      /\ UNCHANGED <<record, lease>>
  BY Zenon DEF Freeze
<1>2. job \in Jobs /\ job.seen \in [Ids -> States]
  BY Zenon DEF IInv, TypeOK, Jobs
<1>3. PICK s : /\ s[i] # "absent" /\ \A j \in Ids : j # i => s[j] = job.seen[j]
               /\ job' = [job EXCEPT !.left = job.left \ {i}, !.seen = s]
  <2> DEFINE s == [job.seen EXCEPT ![i] = IF Held(i) THEN job.seen[i] ELSE record[i]]
  <2>1. job' = [job EXCEPT !.left = job.left \ {i}, !.seen = s]
    BY Zenon DEF Freeze
  <2>2. s[i] # "absent" /\ \A j \in Ids : j # i => s[j] = job.seen[j]
    BY Zenon, <1>1, <1>2
  <2> QED BY Zenon, <2>1, <2>2
<1>4. job'.at = "inspect" /\ job'.seen = s /\ job'.left = job.left \ {i} /\ job'.pending = job.pending
  BY Zenon, <1>1, <1>2, <1>3 DEF Jobs
<1>5. Kept' = Kept
  BY Zenon, <1>1, SameKept
<1> DEFINE S == Kept \ (Present(job.seen) \cup job.left)
<1> DEFINE T == Kept' \ (Present(job'.seen) \cup job'.left)
<1>6. S \in SUBSET Ids /\ T \in SUBSET Ids /\ T \subseteq S
  BY Zenon, <1>3, <1>4, <1>5 DEF Kept, Present
<1>7. Cardinality(S) <= job.pending
  BY Zenon, <1>1 DEF CountInv
<1> HIDE DEF S, T
<1>8. Cardinality(T) <= job'.pending
  BY Zenon, <1>4, <1>6, <1>7, Fewer, BoundsTyped
<1> QED BY Zenon, <1>4, <1>5, <1>8 DEF CountInv, T

\* The victims: what stays is what was seen without them, and what was pending.
LEMMA SelectCounts == ASSUME IInv, CountInv, Select PROVE CountInv'
<1>1. job.at = "inspect" /\ job.left = {} /\ UNCHANGED <<record, lease>>
  BY Zenon DEF Select
<1>2. job \in Jobs /\ job.pending \in Nat
  BY Zenon DEF IInv, TypeOK, Jobs
<1> DEFINE P == Present(job.seen)
<1> DEFINE excess == Cardinality(P) + job.pending - Occupancy
<1>3. PICK victims \in SUBSET {i \in Ids : job.seen[i] \in Terminal} :
         /\ Cardinality(victims) = (IF excess > 0 THEN excess ELSE 0)
         /\ job' = [job EXCEPT !.at = "data", !.victims = victims]
  BY Zenon DEF Select
<1>4. job'.at = "data" /\ job'.victims = victims /\ job'.kind = job.kind
  BY Zenon, <1>2, <1>3 DEF Jobs
<1>5. Kept' = Kept /\ Occupancy' = Occupancy
  BY Zenon, <1>1, <1>4, SameKept DEF Occupancy
<1>6. P \in SUBSET Ids /\ victims \in SUBSET Ids /\ victims \subseteq P
  <2>1. "absent" \notin Terminal
    BY Zenon, StoreAssumption DEF Terminal
  <2> QED BY Zenon, <1>3, <2>1 DEF Present
<1>7. Cardinality(Kept \ P) <= job.pending
  <2>1. Kept \ (P \cup job.left) = Kept \ P
    BY Zenon, <1>1
  <2> QED BY Zenon, <1>1, <2>1 DEF CountInv
<1> HIDE DEF P
<1>8. Cardinality(P \ victims) = Cardinality(P) - Cardinality(victims) /\ Cardinality(P) \in Nat
  BY Zenon, <1>6, Counting
<1>9. /\ Kept \ P \in SUBSET Ids /\ P \ victims \in SUBSET Ids /\ Kept \ victims \in SUBSET Ids
      /\ (Kept \ P) \cup (P \ victims) \in SUBSET Ids /\ Kept \ victims \subseteq (Kept \ P) \cup (P \ victims)
  BY Zenon, <1>6, KeptTyped
<1>10. /\ Cardinality((Kept \ P) \cup (P \ victims)) <= Cardinality(Kept \ P) + Cardinality(P \ victims)
       /\ Cardinality(Kept \ P) \in Nat /\ Cardinality(P \ victims) \in Nat
  BY Zenon, <1>9, Counting
<1>11. Cardinality((Kept \ P) \cup (P \ victims)) \in Nat
  BY Zenon, <1>9, Counting
<1>12. Cardinality((Kept \ P) \cup (P \ victims)) <= Occupancy
  <2>1. Occupancy \in Int
    BY Zenon, BoundsTyped
  <2>2. Cardinality(P) + job.pending - Cardinality(victims) <= Occupancy
    BY <1>2, <1>3, <1>8, <2>1
  <2>3. Cardinality(victims) \in Nat
    BY Zenon, <1>6, Counting
  <2> QED BY <1>2, <1>7, <1>8, <1>10, <1>11, <2>1, <2>2, <2>3
<1>13. Cardinality(Kept' \ job'.victims) <= Occupancy'
  BY Zenon, <1>4, <1>5, <1>9, <1>12, Fewer, BoundsTyped
<1> QED BY Zenon, <1>4, <1>5, <1>13 DEF CountInv

\* The steps of a job that only take it on, with what it knows.
LEMMA GoesOnCounts ==
  ASSUME IInv, CountInv, Revalidate \/ ProveOrphans \/ Compacted \/ Count \/ CreateLock
  PROVE  CountInv'
<1>1. job \in Jobs /\ Kept' = Kept
  BY Zenon, SameKept DEF IInv, TypeOK, Revalidate, ProveOrphans, Compacted, Count, CreateLock
<1>2. CASE Revalidate
  <2>1. job.at = "data" /\ job'.at = "unlink" /\ job'.victims = job.victims /\ job'.kind = job.kind
    BY Zenon, <1>1, <1>2 DEF Revalidate, Jobs
  <2>2. Occupancy' = Occupancy
    BY Zenon, <2>1 DEF Occupancy
  <2> QED BY Zenon, <1>1, <2>1, <2>2 DEF CountInv
<1>3. CASE ProveOrphans
  <2>1. job.at = "unlink" /\ job.victims \cap locks = {} /\ job'.at = "sweep" /\ job'.kind = job.kind
    BY Zenon, <1>1, <1>3 DEF ProveOrphans, Jobs
  <2>2. Kept \ job.victims = Kept
    BY Zenon, <2>1, KeptLocked
  <2>3. Occupancy' = Occupancy
    BY Zenon, <2>1 DEF Occupancy
  <2> QED BY Zenon, <1>1, <2>1, <2>2, <2>3 DEF CountInv
<1>4. CASE Compacted
  <2>1. CASE job.kind = "reserve"
    <3>1. job.at = "sweep" /\ job'.at = "count"
      BY Zenon, <1>1, <1>4, <2>1 DEF Compacted, Jobs
    <3>2. Occupancy = MaxRetained - 1
      BY Zenon, <2>1 DEF Occupancy
    <3> QED BY Zenon, <1>1, <3>1, <3>2 DEF CountInv
  <2>2. CASE job.kind # "reserve"
    <3>1. job'.at \in {"idle", "rescan"}
      BY Zenon, <1>1, <1>4, <2>2 DEF Compacted, Jobs, NoJob
    <3> QED BY Zenon, <1>1, <3>1, FewerKept
  <2> QED BY Zenon, <2>1, <2>2
<1>5. CASE Count \/ CreateLock
  <2>1. job.at \in {"count", "create"} /\ job'.at \in {"create", "flock"}
    BY Zenon, <1>1, <1>5 DEF Count, CreateLock, Jobs
  <2> QED BY Zenon, <1>1, <2>1 DEF CountInv
<1> QED BY Zenon, <1>2, <1>3, <1>4, <1>5

\* The hand-out uses the room that the job made.
LEMMA FlockCounts == ASSUME IInv, CountInv, Flock PROVE CountInv'
<1>1. job.at = "flock" /\ job' = NoJob /\ lease' = [lease EXCEPT ![counter] = job.by] /\ record' = record
  BY Zenon DEF Flock
<1>2. counter \in Ids /\ lease \in [Ids -> Hosts \cup {NoHost}]
  BY Zenon, <1>1 DEF IInv, JobInv, TypeOK
<1>3. {counter} \in SUBSET Ids /\ Kept \cup {counter} \in SUBSET Ids /\ Kept' \subseteq Kept \cup {counter}
  BY Zenon, <1>1, <1>2 DEF Kept, Held
<1>4. /\ Cardinality(Kept \cup {counter}) <= Cardinality(Kept) + Cardinality({counter})
      /\ Cardinality(Kept) \in Nat
  BY Zenon, <1>3, KeptTyped, Counting
<1>5. Cardinality(Kept \cup {counter}) \in Nat /\ Cardinality({counter}) = 1
  BY Zenon, <1>3, Counting, FS_Singleton
<1>6. Cardinality(Kept) <= MaxRetained - 1
  BY Zenon, <1>1 DEF CountInv
<1>7. Cardinality(Kept \cup {counter}) <= MaxRetained
  BY <1>4, <1>5, <1>6, StoreAssumption
<1>8. Cardinality(Kept') <= MaxRetained
  BY Zenon, <1>3, <1>7, KeptTyped, Fewer, BoundsTyped
<1>9. job'.at = "idle"
  BY Zenon, <1>1 DEF NoJob
<1> QED BY Zenon, <1>8, <1>9 DEF CountInv

\* The steps that add nothing: of jobs that mark, end or begin, of owners, and of
\* hosts that die.
LEMMA OtherCounts ==
  ASSUME IInv, CountInv,
         \/ \E h \in Hosts, kind \in Kinds : Acquire(h, kind)
         \/ \E i \in Ids : RemoveData(i) \/ RemoveLock(i) \/ Sweep(i) \/ Mark(i) \/ PublishInitial(i) \/ DropLease(i)
         \/ Rescan \/ Reconciled \/ Fail
         \/ \E i \in Ids, o \in Outcomes : Replace(i, o)
         \/ \E h \in Hosts : Crash(h)
         \/ UNCHANGED vars
  PROVE  CountInv'
<1>1. job \in Jobs /\ record \in [Ids -> States] /\ lease \in [Ids -> Hosts \cup {NoHost}]
  BY Zenon DEF IInv, TypeOK
<1>2. CASE \E h \in Hosts, kind \in Kinds : Acquire(h, kind)
  <2>1. job'.at = "control" /\ UNCHANGED <<record, lease>>
    BY Zenon, <1>2 DEF Acquire, NoJob
  <2> QED BY Zenon, <2>1, SameKept, FewerKept
<1>3. CASE Rescan \/ Reconciled \/ Fail
  <2>1. CASE Rescan
    <3>1. job' = [job EXCEPT !.at = "mark", !.seen = record] /\ UNCHANGED <<record, lease>>
      BY Zenon, <2>1 DEF Rescan
    <3>2. job'.at = "mark"
      BY Zenon, <1>1, <3>1 DEF Jobs
    <3> QED BY Zenon, <3>1, <3>2, SameKept, FewerKept
  <2>2. CASE Reconciled \/ Fail
    <3>1. job' = NoJob /\ UNCHANGED <<record, lease>>
      BY Zenon, <2>2 DEF Reconciled, Fail
    <3>2. job'.at = "idle"
      BY Zenon, <3>1 DEF NoJob
    <3> QED BY Zenon, <3>1, <3>2, SameKept, FewerKept
  <2> QED BY Zenon, <1>3, <2>1, <2>2
<1>4. CASE \E i \in Ids : RemoveLock(i) \/ Sweep(i)
  BY Zenon, <1>4, SameKept, FewerKept DEF RemoveLock, Sweep
<1>5. CASE UNCHANGED vars
  BY Zenon, <1>5, SameKept, FewerKept DEF vars
<1>6. CASE \E i \in Ids : RemoveData(i)
  <2>1. Kept' \subseteq Kept /\ job' = job
    BY Zenon, <1>1, <1>6 DEF RemoveData, Kept, Held
  <2> QED BY Zenon, <2>1, FewerKept
<1>7. CASE \E i \in Ids : Mark(i)
  <2>1. PICK i \in Ids : Mark(i)
    BY Zenon, <1>7
  <2>2. job'.at = "mark"
    BY Zenon, <1>1, <2>1 DEF Mark, Jobs
  <2>3. Kept' \subseteq Kept
    <3>1. lease' = lease /\ (record' = record \/ (record[i] = "running" /\ record' = [record EXCEPT ![i] = "stale"]))
      BY Zenon, <2>1 DEF Mark
    <3> QED BY Zenon, <1>1, <3>1 DEF Kept, Held
  <2> QED BY Zenon, <2>2, <2>3, FewerKept
<1>8. CASE \E i \in Ids : PublishInitial(i) \/ \E o \in Outcomes : Replace(i, o)
  <2>1. PICK i \in Ids : Held(i) /\ lease' = lease /\ job' = job /\ \E o : record' = [record EXCEPT ![i] = o]
    BY Zenon, <1>8 DEF PublishInitial, Replace
  <2>2. Kept' \subseteq Kept
    BY Zenon, <1>1, <2>1 DEF Kept, Held
  <2> QED BY Zenon, <2>1, <2>2, FewerKept
<1>9. CASE \E i \in Ids : DropLease(i)
  <2>1. Kept' \subseteq Kept /\ job' = job
    BY Zenon, <1>1, <1>9 DEF DropLease, Kept, Held
  <2> QED BY Zenon, <2>1, FewerKept
<1>10. CASE \E h \in Hosts : Crash(h)
  <2>1. PICK h \in Hosts : Crash(h)
    BY Zenon, <1>10
  <2>2. Kept' \subseteq Kept
    BY Zenon, <1>1, <2>1 DEF Crash, Kept, Held
  <2>3. job' = job \/ job'.at = "idle"
    BY Zenon, <2>1 DEF Crash, NoJob
  <2> QED BY Zenon, <2>2, <2>3, FewerKept
<1> QED BY Zenon, <1>2, <1>3, <1>4, <1>5, <1>6, <1>7, <1>8, <1>9, <1>10

\* Every step keeps the count.
LEMMA NextCounts == ASSUME IInv, CountInv, [Next]_vars PROVE CountInv'
BY Zenon, ScanCounts, ClassifyCounts, FreezeCounts, SelectCounts, GoesOnCounts, FlockCounts, OtherCounts DEF Next

\* An empty workspace keeps nothing.
LEMMA InitCounts == ASSUME Init PROVE CountInv
<1>1. Kept = {} /\ job.at = "idle"
  BY Zenon DEF Init, Kept, Held, NoJob
<1>2. Cardinality({}) = 0 /\ 0 <= MaxRetained
  BY FS_EmptySet, StoreAssumption
<1> QED BY Zenon, <1>1, <1>2 DEF CountInv

\* The workspace never becomes one that every later job must refuse: well formed, and
\* with no more records and leases than may be retained, though owners publish between
\* the two snapshots that compact_history counts from.
THEOREM StaysServiceable == Spec => []Serviceable
<1>1. ASSUME IInv, CountInv PROVE Serviceable
  BY Zenon, <1>1 DEF IInv, CountInv, Serviceable, Kept
<1>2. Init => IInv /\ CountInv
  BY Zenon, InitIInv, InitCounts
<1>3. IInv /\ CountInv /\ [Next]_vars => IInv' /\ CountInv'
  BY Zenon, NextIInv, NextCounts
<1> QED BY <1>1, <1>2, <1>3, PTL DEF Spec
=============================================================================
