------------------------- MODULE SessionStateProofs -------------------------
(***************************************************************************)
(* What holds of SessionState for any number of engines, futures and       *)
(* incarnations and any bounds.  The invariant has four parts:             *)
(*   TypeOK      the types of the state;                                   *)
(*   LocalInv    what the place of a future says about its locals, above   *)
(*               all that a candidate keeps revision and incarnation of    *)
(*               its snapshot and advances the allocator only to reserve;  *)
(*   LeaseInv    the holder of a lease is unique;                          *)
(*   StoreInv    every record anyone holds was published and is not ahead  *)
(*               of the store, and a granted turn sequence lies below the  *)
(*               stored allocator.                                         *)
(* The compare-and-swap then compares revisions of records that can differ *)
(* only if their revisions do, so a successful save was built on exactly   *)
(* the stored record.  Beside the editors of turn metadata (EditSpec) the  *)
(* same holds of their records, TouchInv says which fields a candidate     *)
(* keeps, and DebtInv what is owed to an edit nobody was told about.       *)
(***************************************************************************)
EXTENDS TurnMetadata, TLAPS

\* What a candidate keeps of its snapshot.
CandidateOK(c) ==
    /\ cand[c].rev = snap[c].rev
    /\ cand[c].inc = snap[c].inc
    /\ IF kind[c] \in Reserving \cup Prepared
       THEN snap[c].seq <= MaxSeq /\ cand[c].seq = snap[c].seq + 1
       ELSE cand[c].seq = snap[c].seq

\* The locals of a future, by place.
Local(c) ==
    /\ Holding(c) => canon[Owner[c]] # None /\ kind[c] \notin Loading
    /\ kind[c] \in Committing \/ pc[c] = "turn" => base[c] # None
    /\ kind[c] = "replace" => base[c].msgs # <<>>
    /\ pc[c] \in {"issue", "save", "saved", "conflicted"} =>
          snap[c] # None /\ cand[c] # None /\ CandidateOK(c)
    /\ pc[c] \in {"reload", "reloaded"} => snap[c] # None
    /\ pc[c] \in {"loaded", "reloaded", "conflicted"} => got[c] \in Record \cup {Missing}
    /\ pc[c] = "saved" => got[c] \in Record \cup {Conflict}

LocalInv == \A c \in Callers : Local(c)

\* A lease has exactly one holder.
LeaseInv ==
    /\ \A c \in Callers : Holding(c) => lease[Owner[c]]
    /\ \A c, d \in Callers : Holding(c) /\ Holding(d) /\ Owner[c] = Owner[d] => c = d
    /\ \A e \in Engines : lease[e] => \E c \in Callers : Holding(c) /\ Owner[c] = e

\* A record is none of the other answers, and its counters are numbers.
LEMMA RecordFields ==
    ASSUME NEW r \in Record
    PROVE  /\ r.inc \in Incarnations /\ r.rev \in Nat /\ r.seq \in Nat
           /\ r.seq \in 1..(MaxSeq + 1) /\ r.meta \in Callers \cup {None}
           /\ r # Missing /\ r # Conflict /\ r # None
<1>1. /\ r.inc \in Incarnations /\ r.rev \in 0..MaxRev /\ r.seq \in 1..(MaxSeq + 1)
      /\ r.meta \in Callers \cup {None}
  BY DEF Record
<1> QED BY <1>1, BoundsAssumption, AnswerAssumption

\* What the proofs use of numbers.
LEMMA Numbers ==
    /\ \A n \in Nat : n <= n /\ n >= n /\ ~(n < n) /\ (n # 0 => n > 0) /\ (~(n > 0) => n = 0)
    /\ \A n \in Nat : n + 1 > n /\ n < n + 1 /\ n + 1 > 0 /\ n + 1 # n
    /\ \A n, m, k \in Nat : n < m /\ k >= m => n < k
    /\ 0 + 1 <= 1
OBVIOUS

\* Below its bound a revision can advance.
LEMMA RevisionAdvances == \A n \in Nat : n < MaxRev => n + 1 \in 0..MaxRev
BY BoundsAssumption

\* A save over the revision it was made from publishes the next one.
LEMMA NextOfSame ==
    ASSUME NEW r, NEW d, r.rev \in Nat, r.rev = d.rev, NextRevision(r, d) <= MaxRev
    PROVE  NextRevision(r, d) = r.rev + 1 /\ NextRevision(r, d) \in 0..MaxRev
BY BoundsAssumption DEF NextRevision

-----------------------------------------------------------------------------
\* A candidate is a record that keeps what CandidateOK says (the edits of
\* update_metadata, reserve_turn_and_prompt, commit_messages, replace_message).
LEMMA CandidateType ==
    ASSUME NEW c \in Callers, NEW r \in Record, NEW m \in Callers \cup {None},
           kind[c] \in (Leased \cup Committing) \ {"check"},
           Buildable(c, r),
           kind[c] = "replace" => r.msgs # <<>>
    PROVE  /\ Candidate(c, r, m) \in Record
           /\ Candidate(c, r, m).rev = r.rev
           /\ Candidate(c, r, m).inc = r.inc
           /\ IF kind[c] \in Reserving \cup Prepared
              THEN r.seq <= MaxSeq /\ Candidate(c, r, m).seq = r.seq + 1
              ELSE Candidate(c, r, m).seq = r.seq
<1> DEFINE u == Append(r.msgs, Said(c, "user"))
           k == Append(r.msgs, Said(c, "unknown"))
           p == [r.msgs EXCEPT ![Len(r.msgs)] = Said(c, "result")]
<1>1. r.msgs \in Seq(Messages) /\ r.seq \in 1..(MaxSeq + 1)
  BY DEF Record
<1>2. \A w \in {"user", "unknown", "result"} : Said(c, w) \in Messages
  BY DEF Said, Messages
<1>3. u \in Seq(Messages) /\ k \in Seq(Messages)
  BY <1>1, <1>2
<1>4. r.msgs # <<>> => p \in Seq(Messages)
  <2>1. SUFFICES ASSUME r.msgs # <<>> PROVE p \in Seq(Messages)
    OBVIOUS
  <2>2. Len(r.msgs) \in 1..Len(r.msgs)
    BY <1>1, <2>1
  <2> QED BY <1>1, <1>2, <2>2
<1>5. CASE kind[c] = "update"
  BY <1>1, <1>5 DEF Candidate, Record, Reserving, Prepared
<1>6. CASE kind[c] \in Reserving \cup Prepared
  <2>1. r.seq <= MaxSeq /\ r.seq + 1 \in 1..(MaxSeq + 1)
    BY <1>1, <1>6, BoundsAssumption DEF Buildable
  <2>2. Reserve(c, r) = [r EXCEPT !.seq = r.seq + 1,
                                  !.msgs = IF kind[c] \in {"prompt", "prepared"} THEN u ELSE r.msgs]
    BY DEF Reserve, Record
  <2>3. /\ Reserve(c, r) \in Record
        /\ Reserve(c, r).rev = r.rev /\ Reserve(c, r).inc = r.inc
        /\ Reserve(c, r).seq = r.seq + 1
    BY Zenon, <1>1, <1>3, <2>1, <2>2 DEF Record
  <2>4. CASE kind[c] \in Prepared
    <3>1. Candidate(c, r, m) = [Reserve(c, r) EXCEPT !.meta = m]
      BY <2>4 DEF Candidate, Prepared, Reserving
    <3> QED BY <1>6, <2>1, <2>3, <3>1 DEF Record
  <2>5. CASE kind[c] \in Reserving
    <3>1. Candidate(c, r, m) = Reserve(c, r)
      BY <2>5 DEF Candidate, Prepared, Reserving
    <3> QED BY <1>6, <2>1, <2>3, <3>1
  <2> QED BY <1>6, <2>4, <2>5
<1>7. CASE kind[c] = "append"
  <2>1. Candidate(c, r, m) = [r EXCEPT !.msgs = k]
    BY <1>7 DEF Candidate, Prepared, Reserving, Record
  <2> QED BY Zenon, <1>1, <1>3, <1>7, <2>1 DEF Record, Reserving, Prepared
<1>8. CASE kind[c] = "replace"
  <2>1. Candidate(c, r, m) = [r EXCEPT !.msgs = p]
    BY <1>8 DEF Candidate, Prepared, Reserving, Record
  <2> QED BY SMTT(90), <1>1, <1>4, <1>8, <2>1 DEF Record, Reserving, Prepared
<1> QED BY <1>5, <1>6, <1>7, <1>8 DEF Leased, Committing

-----------------------------------------------------------------------------
(* Types.                                                                  *)

\* The types of the future variables alone.
OpType ==
    /\ pc \in [Callers -> Places]
    /\ kind \in [Callers -> Kinds]
    /\ snap \in [Callers -> Record \cup {None}]
    /\ was \in [Callers -> BOOLEAN]
    /\ cand \in [Callers -> Record \cup {None}]
    /\ got \in [Callers -> Answers]
    /\ base \in [Callers -> Record \cup {None}]
    /\ tries \in [Callers -> 0..MaxTries]

\* SessionRecord::empty and a record at another revision are records.
LEMMA RecordType ==
    /\ \A i \in Incarnations : empty(i) \in Record /\ empty(i).rev = 0
    /\ \A r \in Record, n \in 0..MaxRev : /\ At(r, n) \in Record
                                          /\ At(r, n).rev = n
                                          /\ At(r, n).inc = r.inc
                                          /\ At(r, n).seq = r.seq
<1>1. ASSUME NEW i \in Incarnations PROVE empty(i) \in Record /\ empty(i).rev = 0
  <2>1. 0 \in 0..MaxRev /\ 1 \in 1..(MaxSeq + 1) /\ <<>> \in Seq(Messages)
    BY BoundsAssumption
  <2> QED BY <2>1 DEF empty, Record
<1>2. ASSUME NEW r \in Record, NEW n \in 0..MaxRev
      PROVE  At(r, n) \in Record /\ At(r, n).rev = n /\ At(r, n).inc = r.inc /\ At(r, n).seq = r.seq
  BY DEF At, Record
<1> QED BY <1>1, <1>2

\* Leaving resets locals to typed values.
LEMMA LeaveType ==
    ASSUME OpType, NEW c \in Callers, Leave(c) PROVE OpType'
BY BoundsAssumption DEF OpType, Leave, Forget, Goto, Places, Kinds, Leased, Answers

\* So does an end, which gives the lease back.
LEMMA EndType ==
    ASSUME OpType, lease \in [Engines -> BOOLEAN], NEW c \in Callers, End(c)
    PROVE  OpType' /\ lease' \in [Engines -> BOOLEAN]
<1>1. OpType'
  BY LeaveType DEF End
<1> QED BY Zenon, <1>1 DEF End

\* Another pass of a conflict loop keeps the types.
LEMMA RetryType ==
    ASSUME OpType, lease \in [Engines -> BOOLEAN], NEW c \in Callers, Retry(c)
    PROVE  OpType' /\ lease' \in [Engines -> BOOLEAN]
<1>1. CASE tries[c] > 1 /\ tries' = [tries EXCEPT ![c] = @ - 1] /\ Goto(c, "snapshot")
           /\ Forget(c) /\ UNCHANGED <<kind, base, lease>>
  <2>1. tries[c] - 1 \in 0..MaxTries
    BY <1>1, BoundsAssumption DEF OpType
  <2> QED BY <1>1, <2>1 DEF OpType, Forget, Goto, Places, Answers
<1>2. CASE End(c)
  BY <1>2, EndType
<1> QED BY <1>1, <1>2 DEF Retry

\* A committed save publishes a record of the next revision, and its histories
\* stay typed (save_unix).
LEMMA SaveEffectType ==
    ASSUME TypeOK, LocalInv, NEW c \in Callers, SaveEffect(c)
    PROVE  /\ stored' \in Record
           /\ stored' = At(cand[c], NextRevision(stored, cand[c]))
           /\ stored'.inc = cand[c].inc /\ stored'.seq = cand[c].seq
           /\ stored'.rev = NextRevision(stored, cand[c])
           /\ stored'.rev > cand[c].rev
           /\ stored # Missing => stored'.rev > stored.rev
           /\ used' = used \cup {cand[c].inc} /\ used' \subseteq Incarnations
           /\ grants' \in [Incarnations -> [1..MaxSeq -> Nat]]
           /\ floor' \in [Engines -> 0..MaxRev]
<1> DEFINE n == NextRevision(stored, cand[c])
<1>1. cand[c] \in Record /\ snap[c] \in Record /\ CandidateOK(c)
  BY DEF SaveEffect, LocalInv, Local, TypeOK
<1>2. cand[c].rev \in Nat /\ cand[c].inc \in Incarnations /\ snap[c].seq \in 1..(MaxSeq + 1)
      /\ snap[c].inc \in Incarnations
  BY <1>1 DEF Record
<1>3. stored # Missing => stored.rev \in Nat
  BY DEF TypeOK, Record
<1>4. n \in 0..MaxRev /\ n > cand[c].rev /\ (stored # Missing => n > stored.rev)
  BY <1>2, <1>3, BoundsAssumption DEF SaveEffect, NextRevision
<1>5. stored' = At(cand[c], n) /\ used' = used \cup {stored'.inc}
  BY DEF SaveEffect, Publish
<1>6. stored' \in Record /\ stored'.rev = n /\ stored'.inc = cand[c].inc /\ stored'.seq = cand[c].seq
  BY <1>1, <1>4, <1>5, RecordType
<1>7. grants' \in [Incarnations -> [1..MaxSeq -> Nat]]
  <2>1. CASE kind[c] \in Reserving \cup Prepared
    <3>1. snap[c].seq \in 1..MaxSeq
      BY <1>1, <1>2, <2>1, BoundsAssumption DEF CandidateOK
    <3>2. grants' = [grants EXCEPT ![cand[c].inc][snap[c].seq] = @ + 1]
      BY <2>1 DEF SaveEffect, Grant
    <3>3. grants[cand[c].inc] \in [1..MaxSeq -> Nat]
      BY <1>2 DEF TypeOK
    <3>4. [grants[cand[c].inc] EXCEPT ![snap[c].seq] = @ + 1] \in [1..MaxSeq -> Nat]
      <4>1. \A f \in [1..MaxSeq -> Nat], x \in 1..MaxSeq : [f EXCEPT ![x] = f[x] + 1] \in [1..MaxSeq -> Nat]
        OBVIOUS
      <4> QED BY Zenon, <3>1, <3>3, <4>1
    <3> QED BY <1>2, <3>2, <3>4 DEF TypeOK
  <2>2. CASE kind[c] \notin Reserving \cup Prepared
    BY <2>2 DEF SaveEffect, Grant, TypeOK
  <2> QED BY <2>1, <2>2
<1>8. floor' \in [Engines -> 0..MaxRev]
  BY Zenon, <1>4, OwnerAssumption DEF SaveEffect, RaiseFloor, TypeOK
<1> QED BY <1>2, <1>4, <1>5, <1>6, <1>7, <1>8 DEF TypeOK

\* Every step keeps the types.
LEMMA TypeStep == TypeOK /\ LocalInv /\ [Next]_vars => TypeOK'
<1> SUFFICES ASSUME TypeOK, LocalInv, [Next]_vars PROVE TypeOK'
  OBVIOUS
<1> USE OwnerAssumption, BoundsAssumption DEF TypeOK, Places, Goto, storeVars, stateVars, opVars, Answers
<1>1. ASSUME NEW c \in Callers, Reload(c) PROVE TypeOK'
  BY <1>1 DEF Reload, LocalInv, Local, Kinds, Leased, Committing
<1>2. ASSUME NEW c \in Callers, Reconciled(c) PROVE TypeOK'
  <2>1. CASE LoadAcceptable(Owner[c], got[c]) /\ reconcile_loaded(Owner[c], got[c])
             /\ floor' = [floor EXCEPT ![Owner[c]] = 0]
    BY SMTT(90), <1>2, <2>1 DEF Reconciled, LoadAcceptable, reconcile_loaded, Forget
  <2>2. CASE UNCHANGED <<canon, persisted, floor>>
    BY <1>2, <2>2 DEF Reconciled, Forget
  <2> QED BY SMTT(90), <1>2, <2>1, <2>2 DEF Reconciled
<1>3. ASSUME NEW c \in Callers, ReconcileFailed(c) PROVE TypeOK'
  <2>1. OpType' /\ lease' \in [Engines -> BOOLEAN]
    BY ZenonT(60), <1>3, EndType DEF OpType, ReconcileFailed
  <2> QED BY ZenonT(60), <1>3, <2>1 DEF OpType, ReconcileFailed
<1>4. ASSUME NEW c \in Callers, Snapshot(c) PROVE TypeOK'
  <2> DEFINE r == canon[Owner[c]]
  <2>1. r \in Record /\ kind[c] \in (Leased \cup Committing) \ {"check"}
    BY Zenon, <1>4 DEF Snapshot, LocalInv, Local, Holding, Kinds, Buildable
  <2>2. kind[c] = "replace" => r.msgs # <<>>
    BY ZenonT(60), <1>4 DEF Snapshot, LocalInv, Local, Buildable, Committing
  <2>3. r.meta \in Callers \cup {None}
    BY ZenonT(60), <2>1 DEF Record
  <2>4. \A m \in {c, r.meta} : Candidate(c, r, m) \in Record
    BY ZenonT(60), <1>4, <2>1, <2>2, <2>3, CandidateType DEF Snapshot
  <2>5. PICK m \in {c, r.meta} : cand' = [cand EXCEPT ![c] = Candidate(c, r, m)]
    BY ZenonT(60), <1>4 DEF Snapshot
  <2> QED BY SMTT(90), <1>4, <2>1, <2>4, <2>5 DEF Snapshot
<1>5. ASSUME NEW c \in Callers, SnapshotEnds(c) PROVE TypeOK'
  <2>1. OpType' /\ lease' \in [Engines -> BOOLEAN]
    BY ZenonT(60), <1>5, EndType DEF OpType, SnapshotEnds
  <2> QED BY ZenonT(60), <1>5, <2>1 DEF OpType, SnapshotEnds
<1>6. ASSUME NEW c \in Callers, Issue(c) PROVE TypeOK'
  BY ZenonT(60), <1>6 DEF Issue, ArmDebt, LocalInv, Local, Kinds, Leased, Committing
<1>7. ASSUME NEW c \in Callers, IssueStale(c) PROVE TypeOK'
  <2>1. OpType' /\ lease' \in [Engines -> BOOLEAN]
    BY Zenon, <1>7, RetryType, LeaveType DEF OpType, IssueStale, End
  <2> QED BY Zenon, <1>7, <2>1 DEF OpType, IssueStale
<1>8. ASSUME NEW c \in Callers, SaveCommits(c) PROVE TypeOK'
  <2>1. stored' \in Record /\ used' \subseteq Incarnations /\ floor' \in [Engines -> 0..MaxRev]
        /\ grants' \in [Incarnations -> [1..MaxSeq -> Nat]]
    BY Zenon, <1>8, SaveEffectType DEF SaveCommits
  <2> QED BY SMTT(90), <1>8, <2>1 DEF SaveCommits
<1>9. ASSUME NEW c \in Callers, SaveConflicts(c) PROVE TypeOK'
  BY ZenonT(60), <1>9 DEF SaveConflicts, LocalInv, Local, Kinds, Leased, Committing
<1>10. ASSUME NEW c \in Callers, SaveAmbiguous(c) PROVE TypeOK'
  <2>1. stored' \in Record /\ used' \subseteq Incarnations /\ floor' \in [Engines -> 0..MaxRev]
        /\ grants' \in [Incarnations -> [1..MaxSeq -> Nat]]
    BY ZenonT(60), <1>10, SaveEffectType DEF SaveAmbiguous
  <2>2. OpType'
    BY SMTT(90), <1>10, LeaveType DEF SaveAmbiguous, End, OpType
  <2> QED BY Zenon, <1>10, <2>1, <2>2 DEF SaveAmbiguous, End, OpType
<1>11. ASSUME NEW c \in Callers, SaveErrors(c) PROVE TypeOK'
  BY <1>11 DEF SaveErrors, End, Leave, Forget, LocalInv, Local, Kinds, Leased, Committing
<1>12. ASSUME NEW c \in Callers, Saved(c) PROVE TypeOK'
  <2>1. canon' \in [Engines -> Record \cup {None}] /\ persisted' \in [Engines -> BOOLEAN]
    BY ZenonT(60), <1>12 DEF Saved, SaveAcceptable, reconcile_saved
  <2>2. debt' \in [Engines -> BOOLEAN]
    BY Zenon, <1>12 DEF Saved
  <2>3. CASE kind[c] = "update"
    <3>1. End(c)
      BY SMTT(90), <1>12, <2>3 DEF Saved
    <3>2. OpType'
      BY SMTT(90), <3>1, LeaveType DEF End, OpType
    <3> QED BY SMTT(90), <1>12, <2>1, <2>2, <3>1, <3>2 DEF Saved, End, OpType
  <2>4. CASE kind[c] # "update"
    <3>1. OpType' /\ UNCHANGED lease
      <4>1. "append" \in Kinds /\ "turn" \in Places /\ 0 \in 0..MaxTries
        BY DEF Kinds, Committing
      <4>2. got[c] \in Record
        BY <1>12 DEF Saved, SaveAcceptable
      <4>3. /\ base' = [base EXCEPT ![c] = got[c]]
            /\ Forget(c)
            /\ tries' = [tries EXCEPT ![c] = 0]
            /\ kind' = [kind EXCEPT ![c] = "append"]
            /\ pc' = [pc EXCEPT ![c] = "turn"]
            /\ UNCHANGED lease
        BY SMTT(90), <1>12, <2>4 DEF Saved
      <4> QED BY <4>1, <4>2, <4>3 DEF OpType, Forget
    <3> QED BY ZenonT(60), <1>12, <2>1, <2>2, <3>1 DEF Saved, OpType
  <2> QED BY Zenon, <2>3, <2>4
<1>13. ASSUME NEW c \in Callers, SaveFailed(c) PROVE TypeOK'
  <2>1. OpType' /\ lease' \in [Engines -> BOOLEAN]
    BY ZenonT(60), <1>13, EndType DEF OpType, SaveFailed
  <2> QED BY ZenonT(60), <1>13, <2>1 DEF OpType, SaveFailed
<1>14. ASSUME NEW c \in Callers, Conflicted(c) PROVE TypeOK'
  BY ZenonT(60), <1>14 DEF Conflicted, LocalInv, Local, Kinds, Leased, Committing
<1>15. ASSUME NEW c \in Callers, ConflictMissing(c) PROVE TypeOK'
  <2>1. OpType' /\ lease' \in [Engines -> BOOLEAN]
    BY ZenonT(60), <1>15, RetryType, LeaveType DEF OpType, ConflictMissing
  <2> QED BY ZenonT(60), <1>15, <2>1 DEF OpType, ConflictMissing
<1>16. ASSUME NEW c \in Callers, ConflictReloaded(c) PROVE TypeOK'
  <2>1. OpType' /\ lease' \in [Engines -> BOOLEAN]
    BY ZenonT(60), <1>16, RetryType, LeaveType DEF OpType, ConflictReloaded
  <2> QED BY ZenonT(60), <1>16, <2>1 DEF OpType, ConflictReloaded, ReloadAdoptable, LoadAcceptable, reconcile_loaded
<1>17. ASSUME NEW c \in Callers, ConflictFailed(c) PROVE TypeOK'
  <2>1. OpType' /\ lease' \in [Engines -> BOOLEAN]
    BY ZenonT(60), <1>17, EndType DEF OpType, ConflictFailed
  <2> QED BY ZenonT(60), <1>17, <2>1 DEF OpType, ConflictFailed
<1>18. ASSUME NEW c \in Callers, LoadRejected(c) PROVE TypeOK'
  <2>1. OpType' /\ lease' \in [Engines -> BOOLEAN]
    BY ZenonT(60), <1>18, LeaveType DEF OpType, LoadRejected
  <2> QED BY ZenonT(60), <1>18, <2>1 DEF OpType, LoadRejected
<1>19. ASSUME NEW c \in Callers, LoadRegistered(c) PROVE TypeOK'
  <2>1. OpType' /\ lease' \in [Engines -> BOOLEAN]
    BY ZenonT(60), <1>19, LeaveType DEF OpType, LoadRegistered
  <2>2. got[c] \in Record
    BY Zenon, <1>19 DEF LoadRegistered, LocalInv, Local
  <2>3. canon' \in [Engines -> Record \cup {None}] /\ persisted' \in [Engines -> BOOLEAN]
    BY ZenonT(60), <1>19, <2>2 DEF LoadRegistered, reconcile_loaded
  <2> QED BY ZenonT(60), <1>19, <2>1, <2>3 DEF OpType, LoadRegistered
<1>20. ASSUME NEW c \in Callers, DropFuture(c) PROVE TypeOK'
  <2>1. OpType' /\ lease' \in [Engines -> BOOLEAN]
    BY ZenonT(60), <1>20, EndType, LeaveType DEF OpType, DropFuture
  <2> QED BY ZenonT(60), <1>20, <2>1 DEF OpType, DropFuture
<1>21. ASSUME NEW c \in Callers, TurnEnds(c) PROVE TypeOK'
  <2>1. OpType' /\ lease' \in [Engines -> BOOLEAN]
    BY ZenonT(60), <1>21, EndType DEF OpType, TurnEnds
  <2> QED BY ZenonT(60), <1>21, <2>1 DEF OpType, TurnEnds
<1>22. ASSUME NEW c \in Callers, NEW k \in Operations, Admit(c, k) PROVE TypeOK'
  <2>1. snap' \in [Callers -> Record \cup {None}] /\ was' \in [Callers -> BOOLEAN]
        /\ pc' \in [Callers -> Places]
    BY ZenonT(60), <1>22 DEF Admit
  <2> QED BY <1>22, <2>1 DEF Admit, Kinds
<1>23. ASSUME NEW c \in Callers, NEW k \in Operations, LoadBegin(c, k) PROVE TypeOK'
  BY <1>23 DEF LoadBegin, Kinds
<1>24. ASSUME NEW c \in Callers, NEW k \in Operations, CommitBegin(c, k) PROVE TypeOK'
  BY <1>24 DEF CommitBegin, Kinds
<1>25. ASSUME NEW e \in Engines, DropState(e) PROVE TypeOK'
  BY SMTT(90), <1>25 DEF DropState
<1>26. ASSUME NEW e \in Engines, NEW i \in Incarnations, create_session(e, i) PROVE TypeOK'
  BY Zenon, <1>26, RecordType DEF create_session
<1>27. ASSUME NEW i \in Incarnations, publish_initial_record(i) PROVE TypeOK'
  <2>1. At(empty(i), 1) \in Record /\ At(empty(i), 1).inc = i
    BY SMTT(90), RecordType DEF empty
  <2> QED BY SMTT(90), <1>27, <2>1 DEF publish_initial_record, Publish
<1>28. ASSUME NEW i \in Incarnations, reset_record(i) PROVE TypeOK'
  <2>0. stored \in Record /\ stored.rev < MaxRev
    BY ZenonT(60), <1>28 DEF reset_record
  <2>1. stored.rev + 1 \in 0..MaxRev
    BY ZenonT(60), <2>0, RecordFields, RevisionAdvances
  <2>2. At(empty(i), stored.rev + 1) \in Record /\ At(empty(i), stored.rev + 1).inc = i
    BY ZenonT(60), <2>1, RecordType DEF empty
  <2> QED BY SMTT(90), <1>28, <2>2 DEF reset_record, Publish
<1>29. CASE LoseRecord
  BY SMTT(90), <1>29 DEF LoseRecord
<1>30. CASE UNCHANGED vars
  BY ZenonT(60), <1>30 DEF vars
<1> QED
  BY ZenonT(60), <1>1, <1>2, <1>3, <1>4, <1>5, <1>6, <1>7, <1>8, <1>9, <1>10, <1>11, <1>12, <1>13, <1>14, <1>15, <1>16, <1>17, <1>18, <1>19, <1>20, <1>21, <1>22, <1>23, <1>24, <1>25, <1>26, <1>27, <1>28, <1>29, <1>30 DEF Next, Poll, Host
-----------------------------------------------------------------------------
(* Locals.                                                                 *)

\* A step of one future leaves the others' locals alone.
LEMMA LocalFrame ==
    ASSUME TypeOK, LocalInv, NEW c \in Callers, Local(c)',
           \A e \in Engines : canon[e] # None => canon'[e] # None,
           \A d \in Callers \ {c} :
              /\ pc'[d] = pc[d] /\ kind'[d] = kind[d] /\ snap'[d] = snap[d]
              /\ cand'[d] = cand[d] /\ got'[d] = got[d] /\ base'[d] = base[d]
    PROVE  LocalInv'
<1>1. ASSUME NEW d \in Callers \ {c} PROVE Local(d)'
  <2>1. Local(d) /\ Owner[d] \in Engines
    BY SMTT(90), OwnerAssumption DEF LocalInv
  <2> QED BY ZenonT(60), <2>1 DEF Local, CandidateOK, Holding
<1> QED BY SMTT(90), <1>1 DEF LocalInv

\* A future that left has no locals.
LEMMA LeaveLocal ==
    ASSUME TypeOK, NEW c \in Callers, Leave(c) PROVE Local(c)'
BY ZenonT(60) DEF TypeOK, Leave, Forget, Goto, Local, Holding, Committing, Loading

\* A future that takes another pass keeps only its kind and base.
LEMMA RetryLocal ==
    ASSUME TypeOK, NEW c \in Callers, Local(c), Holding(c), Retry(c),
           canon'[Owner[c]] # None
    PROVE  Local(c)'
BY ZenonT(60), LeaveLocal DEF TypeOK, Retry, End, Forget, Goto, Local, Holding, Committing, Loading
\* Every step keeps the locals in line with the places.
LEMMA LocalStep == TypeOK /\ LocalInv /\ [Next]_vars => LocalInv'
<1> SUFFICES ASSUME TypeOK, LocalInv, [Next]_vars PROVE LocalInv'
  OBVIOUS
<1> USE OwnerAssumption DEF storeVars, stateVars, opVars
<1>1. ASSUME NEW c \in Callers, Reload(c) PROVE LocalInv'
  <2>1. Local(c)'
    BY ZenonT(60), <1>1 DEF Reload, LocalInv, Local, CandidateOK, Holding, Goto, TypeOK
  <2> QED BY Zenon, <1>1, <2>1, LocalFrame DEF Reload, TypeOK, Goto
<1>2. ASSUME NEW c \in Callers, Reconciled(c) PROVE LocalInv'
  <2>1. \A e \in Engines : canon[e] # None => canon'[e] # None
    BY <1>2, AnswerAssumption DEF Reconciled, LoadAcceptable, reconcile_loaded, TypeOK
  <2>2. /\ pc'[c] = "snapshot" /\ kind'[c] = kind[c] /\ base'[c] = base[c]
        /\ canon'[Owner[c]] # None /\ Local(c) /\ Holding(c)
    BY ZenonT(60), <1>2, <2>1 DEF Reconciled, Goto, Forget, TypeOK, LocalInv, Local, Holding
  <2>3. Local(c)'
    BY ZenonT(60), <2>2 DEF Local, Holding
  <2> QED BY ZenonT(60), <1>2, <2>1, <2>3, LocalFrame DEF Reconciled, TypeOK, Forget, Goto
<1>3. ASSUME NEW c \in Callers, ReconcileFailed(c) PROVE LocalInv'
  <2>1. Local(c)'
    BY ZenonT(60), <1>3, LeaveLocal DEF ReconcileFailed, End
  <2> QED BY ZenonT(60), <1>3, <2>1, LocalFrame DEF ReconcileFailed, TypeOK, End, Leave, Forget, Goto
<1>4. ASSUME NEW c \in Callers, Snapshot(c) PROVE LocalInv'
  <2> DEFINE r == canon[Owner[c]]
  <2>1. r \in Record /\ kind[c] \in (Leased \cup Committing) \ {"check"} /\ Holding(c)
    BY ZenonT(60), <1>4 DEF Snapshot, LocalInv, Local, Holding, Kinds, Buildable, TypeOK
  <2>2. kind[c] = "replace" => r.msgs # <<>>
    BY Zenon, <1>4 DEF Snapshot, LocalInv, Local, Buildable, Committing
  <2>3. r.meta \in Callers \cup {None}
    BY Zenon, <2>1 DEF Record
  <2>4. PICK m \in {c, r.meta} : cand' = [cand EXCEPT ![c] = Candidate(c, r, m)]
    BY ZenonT(60), <1>4 DEF Snapshot
  <2>5. /\ Candidate(c, r, m) \in Record
        /\ Candidate(c, r, m).rev = r.rev
        /\ Candidate(c, r, m).inc = r.inc
        /\ IF kind[c] \in Reserving \cup Prepared
           THEN r.seq <= MaxSeq /\ Candidate(c, r, m).seq = r.seq + 1
           ELSE Candidate(c, r, m).seq = r.seq
    <3>1. m \in Callers \cup {None} /\ Buildable(c, r)
      BY Zenon, <1>4, <2>3 DEF Snapshot
    <3> HIDE DEF r
    <3> QED BY Zenon, <2>1, <2>2, <3>1, CandidateType
  <2>6. snap'[c] = r /\ cand'[c] = Candidate(c, r, m) /\ pc'[c] = "issue" /\ UNCHANGED <<kind, base, canon>>
    BY ZenonT(60), <1>4, <2>4 DEF Snapshot, Goto, TypeOK
  <2>7. CandidateOK(c)'
    BY ZenonT(60), <2>5, <2>6 DEF CandidateOK
  <2>8. Local(c)'
    BY ZenonT(60), <2>1, <2>5, <2>6, <2>7, AnswerAssumption DEF LocalInv, Local, Holding
  <2> QED BY Zenon, <1>4, <2>4, <2>8, LocalFrame DEF Snapshot, TypeOK, Goto
<1>5. ASSUME NEW c \in Callers, SnapshotEnds(c) PROVE LocalInv'
  <2>1. Local(c)'
    BY ZenonT(60), <1>5, LeaveLocal DEF SnapshotEnds, End
  <2> QED BY ZenonT(60), <1>5, <2>1, LocalFrame DEF SnapshotEnds, TypeOK, End, Leave, Forget, Goto
<1>6. ASSUME NEW c \in Callers, Issue(c) PROVE LocalInv'
  <2>1. Local(c)'
    BY ZenonT(60), <1>6 DEF Issue, LocalInv, Local, CandidateOK, Holding, Goto, TypeOK
  <2> QED BY Zenon, <1>6, <2>1, LocalFrame DEF Issue, TypeOK, Goto
<1>7. ASSUME NEW c \in Callers, IssueStale(c) PROVE LocalInv'
  <2>1. \A e \in Engines : canon[e] # None => canon'[e] # None
    BY Zenon, <1>7, AnswerAssumption DEF IssueStale, TypeOK
  <2>2. canon'[Owner[c]] # None /\ Local(c) /\ Holding(c)
    BY ZenonT(60), <1>7, <2>1 DEF IssueStale, LocalInv, Local, Holding
  <2>3. Local(c)'
    BY ZenonT(60), <1>7, <2>2, RetryLocal, LeaveLocal DEF IssueStale, End
  <2>4. \A d \in Callers \ {c} :
           /\ pc'[d] = pc[d] /\ kind'[d] = kind[d] /\ snap'[d] = snap[d]
           /\ cand'[d] = cand[d] /\ got'[d] = got[d] /\ base'[d] = base[d]
    BY SMTT(90), <1>7 DEF IssueStale, TypeOK, Retry, End, Leave, Forget, Goto
  <2> QED BY Zenon, <2>1, <2>3, <2>4, LocalFrame
<1>8. ASSUME NEW c \in Callers, SaveCommits(c) PROVE LocalInv'
  <2>1. stored' \in Record
    BY Zenon, <1>8, SaveEffectType DEF SaveCommits
  <2>2. Local(c)'
    BY ZenonT(60), <1>8, <2>1 DEF SaveCommits, SaveEffect, LocalInv, Local, CandidateOK, Holding, Goto, TypeOK
  <2> QED BY ZenonT(60), <1>8, <2>2, LocalFrame DEF SaveCommits, TypeOK, Goto
<1>9. ASSUME NEW c \in Callers, SaveConflicts(c) PROVE LocalInv'
  <2>1. Local(c)'
    BY ZenonT(60), <1>9 DEF SaveConflicts, LocalInv, Local, CandidateOK, Holding, Goto, TypeOK
  <2> QED BY Zenon, <1>9, <2>1, LocalFrame DEF SaveConflicts, TypeOK, Goto
<1>10. ASSUME NEW c \in Callers, SaveAmbiguous(c) PROVE LocalInv'
  <2>1. Local(c)'
    BY SMTT(90), <1>10, LeaveLocal DEF SaveAmbiguous, End
  <2> QED BY ZenonT(60), <1>10, <2>1, LocalFrame DEF SaveAmbiguous, TypeOK, End, Leave, Forget, Goto
<1>11. ASSUME NEW c \in Callers, SaveErrors(c) PROVE LocalInv'
  <2>1. Local(c)'
    BY <1>11, LeaveLocal DEF SaveErrors, End
  <2> QED BY ZenonT(60), <1>11, <2>1, LocalFrame DEF SaveErrors, TypeOK, End, Leave, Forget, Goto
<1>12. ASSUME NEW c \in Callers, Saved(c) PROVE LocalInv'
  <2>1. got[c] \in Record /\ \A e \in Engines : canon[e] # None => canon'[e] # None
    BY ZenonT(60), <1>12, AnswerAssumption DEF Saved, SaveAcceptable, reconcile_saved, TypeOK
  <2>2. CASE kind[c] = "update"
    <3>1. End(c) /\ Local(c)'
      BY ZenonT(60), <1>12, <2>2, LeaveLocal DEF Saved, End
    <3> QED BY ZenonT(60), <2>1, <3>1, LocalFrame DEF TypeOK, End, Leave, Forget, Goto
  <2>3. CASE kind[c] # "update"
    <3>1. /\ base' = [base EXCEPT ![c] = got[c]]
          /\ Forget(c)
          /\ kind' = [kind EXCEPT ![c] = "append"]
          /\ pc' = [pc EXCEPT ![c] = "turn"]
      BY ZenonT(60), <1>12, <2>3 DEF Saved, Goto
    <3>2. base'[c] = got[c] /\ kind'[c] = "append" /\ pc'[c] = "turn" /\ canon'[Owner[c]] # None
      BY ZenonT(60), <1>12, <2>1, <3>1 DEF Saved, TypeOK, LocalInv, Local, Holding
    <3>3. Local(c)'
      BY ZenonT(60), <2>1, <3>2, AnswerAssumption DEF Local, Loading, Committing, Holding
    <3> QED BY ZenonT(60), <2>1, <3>1, <3>3, LocalFrame DEF Forget, TypeOK
  <2> QED BY SMTT(90), <2>2, <2>3
<1>13. ASSUME NEW c \in Callers, SaveFailed(c) PROVE LocalInv'
  <2>1. Local(c)'
    BY Zenon, <1>13, LeaveLocal DEF SaveFailed, End
  <2> QED BY ZenonT(60), <1>13, <2>1, LocalFrame DEF SaveFailed, TypeOK, End, Leave, Forget, Goto
<1>14. ASSUME NEW c \in Callers, Conflicted(c) PROVE LocalInv'
  <2>1. Local(c)'
    BY ZenonT(60), <1>14 DEF Conflicted, LocalInv, Local, CandidateOK, Holding, Goto, TypeOK
  <2> QED BY Zenon, <1>14, <2>1, LocalFrame DEF Conflicted, TypeOK, Goto
<1>15. ASSUME NEW c \in Callers, ConflictMissing(c) PROVE LocalInv'
  <2>1. \A e \in Engines : canon[e] # None => canon'[e] # None
    BY Zenon, <1>15, AnswerAssumption DEF ConflictMissing, TypeOK
  <2>2. canon'[Owner[c]] # None /\ Local(c) /\ Holding(c)
    BY Zenon, <1>15, <2>1 DEF ConflictMissing, LocalInv, Local, Holding
  <2>3. Local(c)'
    BY ZenonT(60), <1>15, <2>2, RetryLocal, LeaveLocal DEF ConflictMissing, End
  <2>4. \A d \in Callers \ {c} :
           /\ pc'[d] = pc[d] /\ kind'[d] = kind[d] /\ snap'[d] = snap[d]
           /\ cand'[d] = cand[d] /\ got'[d] = got[d] /\ base'[d] = base[d]
    BY ZenonT(60), <1>15 DEF ConflictMissing, TypeOK, Retry, End, Leave, Forget, Goto
  <2> QED BY Zenon, <2>1, <2>3, <2>4, LocalFrame
<1>16. ASSUME NEW c \in Callers, ConflictReloaded(c) PROVE LocalInv'
  <2>1. \A e \in Engines : canon[e] # None => canon'[e] # None
    BY Zenon, <1>16, AnswerAssumption DEF ConflictReloaded, TypeOK, ReloadAdoptable, LoadAcceptable, reconcile_loaded
  <2>2. canon'[Owner[c]] # None /\ Local(c) /\ Holding(c)
    BY ZenonT(60), <1>16, <2>1 DEF ConflictReloaded, LocalInv, Local, Holding
  <2>3. Local(c)'
    BY ZenonT(60), <1>16, <2>2, RetryLocal, LeaveLocal DEF ConflictReloaded, End
  <2>4. \A d \in Callers \ {c} :
           /\ pc'[d] = pc[d] /\ kind'[d] = kind[d] /\ snap'[d] = snap[d]
           /\ cand'[d] = cand[d] /\ got'[d] = got[d] /\ base'[d] = base[d]
    BY ZenonT(60), <1>16 DEF ConflictReloaded, TypeOK, Retry, End, Leave, Forget, Goto
  <2> QED BY Zenon, <2>1, <2>3, <2>4, LocalFrame
<1>17. ASSUME NEW c \in Callers, ConflictFailed(c) PROVE LocalInv'
  <2>1. Local(c)'
    BY Zenon, <1>17, LeaveLocal DEF ConflictFailed, End
  <2> QED BY Zenon, <1>17, <2>1, LocalFrame DEF ConflictFailed, TypeOK, End, Leave, Forget, Goto
<1>18. ASSUME NEW c \in Callers, LoadRejected(c) PROVE LocalInv'
  <2>1. Local(c)'
    BY ZenonT(60), <1>18, LeaveLocal DEF LoadRejected
  <2> QED BY Zenon, <1>18, <2>1, LocalFrame DEF LoadRejected, TypeOK, Leave, Forget, Goto
<1>19. ASSUME NEW c \in Callers, LoadRegistered(c) PROVE LocalInv'
  <2>1. Local(c)'
    BY ZenonT(60), <1>19, LeaveLocal DEF LoadRegistered
  <2> QED BY ZenonT(60), <1>19, <2>1, AnswerAssumption, LocalFrame DEF LoadRegistered, TypeOK, Leave, Forget, Goto, reconcile_loaded, LoadAcceptable, Answers, LocalInv, Local
<1>20. ASSUME NEW c \in Callers, DropFuture(c) PROVE LocalInv'
  <2>1. Local(c)'
    BY SMTT(90), <1>20, LeaveLocal DEF DropFuture, End
  <2> QED BY ZenonT(60), <1>20, <2>1, LocalFrame DEF DropFuture, TypeOK, End, Leave, Forget, Goto
<1>21. ASSUME NEW c \in Callers, TurnEnds(c) PROVE LocalInv'
  <2>1. Local(c)'
    BY Zenon, <1>21, LeaveLocal DEF TurnEnds, End
  <2> QED BY ZenonT(60), <1>21, <2>1, LocalFrame DEF TurnEnds, TypeOK, End, Leave, Forget, Goto
<1>22. ASSUME NEW c \in Callers, NEW k \in Operations, Admit(c, k) PROVE LocalInv'
  <2>1. pc'[c] \in {"reload", "snapshot"} /\ kind'[c] \in Leased /\ base'[c] = base[c]
        /\ (pc'[c] = "reload" => snap'[c] = canon[Owner[c]]) /\ UNCHANGED canon
        /\ canon[Owner[c]] # None
    BY ZenonT(60), <1>22 DEF Admit, Goto, TypeOK
  <2>2. Local(c)'
    BY ZenonT(60), <2>1 DEF Local, Holding, Leased, Loading, Committing, Reserving, Prepared
  <2>3. \A d \in Callers \ {c} :
           /\ pc'[d] = pc[d] /\ kind'[d] = kind[d] /\ snap'[d] = snap[d]
           /\ cand'[d] = cand[d] /\ got'[d] = got[d] /\ base'[d] = base[d]
    BY ZenonT(60), <1>22 DEF Admit, Goto, TypeOK
  <2> QED BY ZenonT(60), <2>1, <2>2, <2>3, LocalFrame
<1>23. ASSUME NEW c \in Callers, NEW k \in Operations, LoadBegin(c, k) PROVE LocalInv'
  <2>1. Local(c)'
    BY Zenon, <1>23 DEF LoadBegin, Local, Holding, Loading, Committing, Goto, TypeOK
  <2> QED BY Zenon, <1>23, <2>1, LocalFrame DEF LoadBegin, Goto, TypeOK
<1>24. ASSUME NEW c \in Callers, NEW k \in Operations, CommitBegin(c, k) PROVE LocalInv'
  <2>1. Local(c)'
    BY ZenonT(60), <1>24 DEF CommitBegin, LocalInv, Local, Holding, Loading, Committing, Goto, TypeOK
  <2> QED BY ZenonT(60), <1>24, <2>1, LocalFrame DEF CommitBegin, Goto, TypeOK
<1>25. ASSUME NEW e \in Engines, DropState(e) PROVE LocalInv'
  BY ZenonT(60), <1>25 DEF DropState, LocalInv, Local, CandidateOK, Holding, TypeOK
<1>26. ASSUME NEW e \in Engines, NEW i \in Incarnations, create_session(e, i) PROVE LocalInv'
  BY ZenonT(60), <1>26, RecordType DEF create_session, LocalInv, Local, CandidateOK, Holding, TypeOK
<1>27. ASSUME UNCHANGED <<stateVars, opVars>> PROVE LocalInv'
  BY ZenonT(60), <1>27 DEF LocalInv, Local, CandidateOK, Holding
<1>28. (\E i \in Incarnations : publish_initial_record(i) \/ reset_record(i)) \/ LoseRecord \/ UNCHANGED vars
          => UNCHANGED <<stateVars, opVars>>
  BY DEF publish_initial_record, reset_record, LoseRecord, vars
<1> QED
  BY ZenonT(60), <1>1, <1>2, <1>3, <1>4, <1>5, <1>6, <1>7, <1>8, <1>9, <1>10, <1>11, <1>12, <1>13, <1>14, <1>15, <1>16, <1>17, <1>18, <1>19, <1>20, <1>21, <1>22, <1>23, <1>24, <1>25, <1>26, <1>27, <1>28 DEF Next, Poll, Host

-----------------------------------------------------------------------------
(* The lease.                                                              *)

\* What a step of c may do to the lease: keep it, give it back, or take a free
\* one (compare_exchange of active_turn; Drop of TurnLease).
KeepsLease(c) == UNCHANGED lease /\ (Holding(c)' <=> Holding(c))
FreesLease(c) == Holding(c) /\ ~Holding(c)' /\ lease' = [lease EXCEPT ![Owner[c]] = FALSE]
TakesLease(c) == ~lease[Owner[c]] /\ Holding(c)' /\ lease' = [lease EXCEPT ![Owner[c]] = TRUE]

\* Each of these keeps the holder unique.
LEMMA LeaseFrame ==
    ASSUME TypeOK, LeaseInv, NEW c \in Callers,
           \A d \in Callers \ {c} : pc'[d] = pc[d],
           KeepsLease(c) \/ FreesLease(c) \/ TakesLease(c)
    PROVE  LeaseInv'
<1>1. \A d \in Callers \ {c} : Holding(d)' <=> Holding(d)
  BY DEF Holding
<1>2. CASE KeepsLease(c)
  <2>1. \A d \in Callers : Holding(d)' <=> Holding(d)
    BY Zenon, <1>1, <1>2 DEF KeepsLease
  <2>2. lease' = lease
    BY Zenon, <1>2 DEF KeepsLease
  <2> QED BY Zenon, <2>1, <2>2 DEF LeaseInv
<1>3. CASE FreesLease(c)
  BY ZenonT(60), <1>1, <1>3, OwnerAssumption DEF FreesLease, LeaseInv, TypeOK
<1>4. CASE TakesLease(c)
  BY SMTT(90), <1>1, <1>4, OwnerAssumption DEF TakesLease, LeaseInv, TypeOK
<1> QED BY <1>2, <1>3, <1>4

\* End gives the lease back.
LEMMA EndFrees ==
    ASSUME TypeOK, NEW c \in Callers, Holding(c), End(c)
    PROVE  FreesLease(c) /\ \A d \in Callers \ {c} : pc'[d] = pc[d]
BY DEF TypeOK, End, Leave, Goto, FreesLease, Holding

\* Another pass keeps it, exhaustion gives it back.
LEMMA RetryLease ==
    ASSUME TypeOK, NEW c \in Callers, Holding(c), Retry(c)
    PROVE  /\ KeepsLease(c) \/ FreesLease(c)
           /\ \A d \in Callers \ {c} : pc'[d] = pc[d]
<1>1. CASE Goto(c, "snapshot") /\ UNCHANGED lease
  BY <1>1 DEF Goto, KeepsLease, Holding, TypeOK
<1>2. CASE End(c)
  BY <1>2, EndFrees
<1> QED BY ZenonT(60), <1>1, <1>2 DEF Retry

\* Every step keeps the holder unique.
LEMMA LeaseStep == TypeOK /\ LeaseInv /\ [Next]_vars => LeaseInv'
<1> SUFFICES ASSUME TypeOK, LeaseInv, [Next]_vars PROVE LeaseInv'
  OBVIOUS
<1> USE DEF storeVars, stateVars, opVars
<1>1. ASSUME NEW c \in Callers, Reload(c) PROVE LeaseInv'
  BY Zenon, <1>1, LeaseFrame DEF Reload, KeepsLease, Holding, Goto, TypeOK
<1>2. ASSUME NEW c \in Callers, Reconciled(c) PROVE LeaseInv'
  BY ZenonT(60), <1>2, LeaseFrame DEF Reconciled, KeepsLease, Holding, Goto, TypeOK
<1>3. ASSUME NEW c \in Callers, ReconcileFailed(c) PROVE LeaseInv'
  BY ZenonT(60), <1>3, EndFrees, LeaseFrame DEF ReconcileFailed, Holding
<1>4. ASSUME NEW c \in Callers, Snapshot(c) PROVE LeaseInv'
  BY Zenon, <1>4, LeaseFrame DEF Snapshot, KeepsLease, Holding, Goto, TypeOK
<1>5. ASSUME NEW c \in Callers, SnapshotEnds(c) PROVE LeaseInv'
  BY <1>5, EndFrees, LeaseFrame DEF SnapshotEnds, Holding
<1>6. ASSUME NEW c \in Callers, Issue(c) PROVE LeaseInv'
  BY Zenon, <1>6, LeaseFrame DEF Issue, KeepsLease, Holding, Goto, TypeOK
<1>7. ASSUME NEW c \in Callers, IssueStale(c) PROVE LeaseInv'
  BY ZenonT(60), <1>7, EndFrees, RetryLease, LeaseFrame DEF IssueStale, Holding
<1>8. ASSUME NEW c \in Callers, SaveCommits(c) PROVE LeaseInv'
  BY Zenon, <1>8, LeaseFrame DEF SaveCommits, KeepsLease, Holding, Goto, TypeOK, SaveEffect
<1>9. ASSUME NEW c \in Callers, SaveConflicts(c) PROVE LeaseInv'
  BY Zenon, <1>9, LeaseFrame DEF SaveConflicts, KeepsLease, Holding, Goto, TypeOK
<1>10. ASSUME NEW c \in Callers, SaveAmbiguous(c) PROVE LeaseInv'
  BY ZenonT(60), <1>10, EndFrees, LeaseFrame DEF SaveAmbiguous, Holding, SaveEffect
<1>11. ASSUME NEW c \in Callers, SaveErrors(c) PROVE LeaseInv'
  BY ZenonT(60), <1>11, EndFrees, LeaseFrame DEF SaveErrors, Holding
<1>12. ASSUME NEW c \in Callers, Saved(c) PROVE LeaseInv'
  <2>1. CASE kind[c] = "update"
    BY ZenonT(60), <1>12, <2>1, EndFrees, LeaseFrame DEF Saved, Holding
  <2>2. CASE kind[c] # "update"
    <3>1. pc[c] = "saved" /\ pc' = [pc EXCEPT ![c] = "turn"] /\ UNCHANGED lease
      BY ZenonT(60), <1>12, <2>2 DEF Saved, Goto
    <3> QED BY Zenon, <3>1, LeaseFrame DEF KeepsLease, Holding, TypeOK
  <2> QED BY <2>1, <2>2
<1>13. ASSUME NEW c \in Callers, SaveFailed(c) PROVE LeaseInv'
  BY ZenonT(60), <1>13, EndFrees, LeaseFrame DEF SaveFailed, Holding
<1>14. ASSUME NEW c \in Callers, Conflicted(c) PROVE LeaseInv'
  BY ZenonT(60), <1>14, LeaseFrame DEF Conflicted, KeepsLease, Holding, Goto, TypeOK
<1>15. ASSUME NEW c \in Callers, ConflictMissing(c) PROVE LeaseInv'
  BY ZenonT(60), <1>15, RetryLease, LeaseFrame DEF ConflictMissing, Holding
<1>16. ASSUME NEW c \in Callers, ConflictReloaded(c) PROVE LeaseInv'
  BY ZenonT(60), <1>16, RetryLease, LeaseFrame DEF ConflictReloaded, Holding
<1>17. ASSUME NEW c \in Callers, ConflictFailed(c) PROVE LeaseInv'
  BY ZenonT(60), <1>17, EndFrees, LeaseFrame DEF ConflictFailed, Holding
<1>18. ASSUME NEW c \in Callers, LoadRejected(c) PROVE LeaseInv'
  BY ZenonT(60), <1>18, LeaseFrame DEF LoadRejected, KeepsLease, Holding, Goto, TypeOK, Leave
<1>19. ASSUME NEW c \in Callers, LoadRegistered(c) PROVE LeaseInv'
  BY ZenonT(60), <1>19, LeaseFrame DEF LoadRegistered, KeepsLease, Holding, Goto, TypeOK, Leave
<1>20. ASSUME NEW c \in Callers, DropFuture(c) PROVE LeaseInv'
  BY ZenonT(60), <1>20, EndFrees, LeaseFrame DEF DropFuture, Holding
<1>21. ASSUME NEW c \in Callers, TurnEnds(c) PROVE LeaseInv'
  BY ZenonT(60), <1>21, EndFrees, LeaseFrame DEF TurnEnds, Holding
<1>22. ASSUME NEW c \in Callers, NEW k \in Operations, Admit(c, k) PROVE LeaseInv'
  BY ZenonT(60), <1>22, LeaseFrame DEF Admit, TakesLease, Holding, Goto, TypeOK
<1>23. ASSUME NEW c \in Callers, NEW k \in Operations, LoadBegin(c, k) PROVE LeaseInv'
  BY ZenonT(60), <1>23, LeaseFrame DEF LoadBegin, KeepsLease, Holding, Goto, TypeOK
<1>24. ASSUME NEW c \in Callers, NEW k \in Operations, CommitBegin(c, k) PROVE LeaseInv'
  BY ZenonT(60), <1>24, LeaseFrame DEF CommitBegin, KeepsLease, Holding, Goto, TypeOK
<1>25. ASSUME UNCHANGED <<lease, pc>> PROVE LeaseInv'
  BY ZenonT(60), <1>25 DEF LeaseInv, Holding
<1>26. ASSUME \/ \E e \in Engines : DropState(e)
              \/ \E e \in Engines, i \in Incarnations : create_session(e, i)
              \/ \E i \in Incarnations : publish_initial_record(i) \/ reset_record(i)
              \/ LoseRecord
              \/ UNCHANGED vars
       PROVE  LeaseInv'
  BY ZenonT(60), <1>25, <1>26 DEF DropState, create_session, publish_initial_record, reset_record, LoseRecord, vars
<1> QED
  BY ZenonT(60), <1>1, <1>2, <1>3, <1>4, <1>5, <1>6, <1>7, <1>8, <1>9, <1>10, <1>11, <1>12, <1>13, <1>14, <1>15, <1>16, <1>17, <1>18, <1>19, <1>20, <1>21, <1>22, <1>23, <1>24, <1>25, <1>26 DEF Next, Poll, Host
-----------------------------------------------------------------------------
(* What engines and futures hold.                                          *)

\* Every record in memory is a member of S.
Holds(S) ==
    /\ canon \in [Engines -> S]
    /\ snap \in [Callers -> S]
    /\ got \in [Callers -> S]
    /\ base \in [Callers -> S]

\* Records enter memory only from the store or as an empty record; everything
\* else copies what is held already.
LEMMA HoldsStep ==
    ASSUME TypeOK, NEW S, None \in S, Conflict \in S, stored' \in S,
           \A i \in Incarnations : empty(i) \in S,
           Holds(S), [Next]_vars
    PROVE  Holds(S)'
<1> USE OwnerAssumption DEF storeVars, stateVars, opVars, Holds
<1>1. ASSUME NEW c \in Callers, Reload(c) PROVE Holds(S)'
  BY ZenonT(60), <1>1 DEF Reload
<1>2. ASSUME NEW c \in Callers, Reconciled(c) PROVE Holds(S)'
  BY ZenonT(60), <1>2 DEF Reconciled, Forget, reconcile_loaded
<1>3. ASSUME NEW c \in Callers, ReconcileFailed(c) PROVE Holds(S)'
  BY ZenonT(60), <1>3 DEF ReconcileFailed, End, Leave, Forget
<1>4. ASSUME NEW c \in Callers, Snapshot(c) PROVE Holds(S)'
  BY ZenonT(60), <1>4 DEF Snapshot
<1>5. ASSUME NEW c \in Callers, SnapshotEnds(c) PROVE Holds(S)'
  BY ZenonT(60), <1>5 DEF SnapshotEnds, End, Leave, Forget
<1>6. ASSUME NEW c \in Callers, Issue(c) PROVE Holds(S)'
  BY ZenonT(60), <1>6 DEF Issue
<1>7. ASSUME NEW c \in Callers, IssueStale(c) PROVE Holds(S)'
  BY ZenonT(60), <1>7 DEF IssueStale, Retry, End, Leave, Forget
<1>8. ASSUME NEW c \in Callers, SaveCommits(c) PROVE Holds(S)'
  BY SMTT(90), <1>8 DEF SaveCommits
<1>9. ASSUME NEW c \in Callers, SaveConflicts(c) PROVE Holds(S)'
  BY ZenonT(60), <1>9 DEF SaveConflicts
<1>10. ASSUME NEW c \in Callers, SaveAmbiguous(c) PROVE Holds(S)'
  BY ZenonT(60), <1>10 DEF SaveAmbiguous, End, Leave, Forget
<1>11. ASSUME NEW c \in Callers, SaveErrors(c) PROVE Holds(S)'
  BY ZenonT(60), <1>11 DEF SaveErrors, End, Leave, Forget
<1>12. ASSUME NEW c \in Callers, Saved(c) PROVE Holds(S)'
  <2>1. canon' \in [Engines -> S]
    BY ZenonT(60), <1>12 DEF Saved, reconcile_saved
  <2>2. CASE kind[c] = "update"
    BY ZenonT(60), <1>12, <2>1, <2>2 DEF Saved, End, Leave, Forget
  <2>3. CASE kind[c] # "update"
    <3>1. base' = [base EXCEPT ![c] = got[c]] /\ Forget(c)
      BY ZenonT(60), <1>12, <2>3 DEF Saved
    <3> QED BY SMTT(90), <2>1, <3>1 DEF Forget
  <2> QED BY <2>2, <2>3
<1>13. ASSUME NEW c \in Callers, SaveFailed(c) PROVE Holds(S)'
  BY ZenonT(60), <1>13 DEF SaveFailed, End, Leave, Forget
<1>14. ASSUME NEW c \in Callers, Conflicted(c) PROVE Holds(S)'
  BY ZenonT(60), <1>14 DEF Conflicted
<1>15. ASSUME NEW c \in Callers, ConflictMissing(c) PROVE Holds(S)'
  BY ZenonT(60), <1>15 DEF ConflictMissing, Retry, End, Leave, Forget
<1>16. ASSUME NEW c \in Callers, ConflictReloaded(c) PROVE Holds(S)'
  BY <1>16 DEF ConflictReloaded, Retry, End, Leave, Forget, reconcile_loaded
<1>17. ASSUME NEW c \in Callers, ConflictFailed(c) PROVE Holds(S)'
  BY ZenonT(60), <1>17 DEF ConflictFailed, End, Leave, Forget
<1>18. ASSUME NEW c \in Callers, LoadRejected(c) PROVE Holds(S)'
  BY ZenonT(60), <1>18 DEF LoadRejected, Leave, Forget, reconcile_loaded
<1>19. ASSUME NEW c \in Callers, LoadRegistered(c) PROVE Holds(S)'
  BY ZenonT(60), <1>19 DEF LoadRegistered, Leave, Forget, reconcile_loaded
<1>20. ASSUME NEW c \in Callers, DropFuture(c) PROVE Holds(S)'
  BY ZenonT(60), <1>20 DEF DropFuture, End, Leave, Forget
<1>21. ASSUME NEW c \in Callers, TurnEnds(c) PROVE Holds(S)'
  BY ZenonT(60), <1>21 DEF TurnEnds, End, Leave, Forget
<1>22. ASSUME NEW c \in Callers, NEW k \in Operations, Admit(c, k) PROVE Holds(S)'
  BY ZenonT(60), <1>22 DEF Admit
<1>23. ASSUME NEW c \in Callers, NEW k \in Operations, LoadBegin(c, k) PROVE Holds(S)'
  BY ZenonT(60), <1>23 DEF LoadBegin
<1>24. ASSUME NEW c \in Callers, NEW k \in Operations, CommitBegin(c, k) PROVE Holds(S)'
  BY ZenonT(60), <1>24 DEF CommitBegin
<1>25. ASSUME NEW e \in Engines, DropState(e) PROVE Holds(S)'
  BY ZenonT(60), <1>25 DEF DropState
<1>26. ASSUME NEW e \in Engines, NEW i \in Incarnations, create_session(e, i) PROVE Holds(S)'
  BY ZenonT(60), <1>26 DEF create_session
<1>27. ASSUME \/ \E i \in Incarnations : publish_initial_record(i) \/ reset_record(i)
              \/ LoseRecord
              \/ UNCHANGED vars
       PROVE  Holds(S)'
  BY ZenonT(60), <1>27 DEF publish_initial_record, reset_record, LoseRecord, vars
<1> QED
  BY ZenonT(60), <1>1, <1>2, <1>3, <1>4, <1>5, <1>6, <1>7, <1>8, <1>9, <1>10, <1>11, <1>12, <1>13, <1>14, <1>15, <1>16, <1>17, <1>18, <1>19, <1>20, <1>21, <1>22, <1>23, <1>24, <1>25, <1>26, <1>27 DEF Next, Poll, Host
-----------------------------------------------------------------------------
(* The store.                                                              *)

\* A record in memory that was ever saved is not ahead of the store, and at the
\* store's revision it is the stored record.
Durable(r) ==
    r.rev > 0 => /\ stored # Missing
                 /\ r.inc \in used
                 /\ r.rev <= stored.rev
                 /\ r.rev = stored.rev => r = stored
                 /\ r.inc = stored.inc => r.seq <= stored.seq

Good == {r \in Answers : r \in Record => Durable(r)}

\* The store and the history of reservations.
StoreOK ==
    /\ stored # Missing => stored.rev > 0 /\ stored.inc \in used
    /\ stored = Missing => used = {}
    /\ \A i \in Incarnations, n \in 1..MaxSeq :
          /\ grants[i][n] <= 1
          /\ grants[i][n] > 0 => i \in used /\ (stored.inc = i => n < stored.seq)

StoreInv == losses = 0 => StoreOK /\ Holds(Good)

\* What may happen to the store in one step.
LEMMA StoreMoves ==
    ASSUME [Next]_vars
    PROVE  \/ UNCHANGED storeVars
           \/ \E c \in Callers : SaveEffect(c) /\ pc[c] = "save" /\ UNCHANGED losses
           \/ \E i \in Incarnations : publish_initial_record(i) \/ reset_record(i)
           \/ LoseRecord
<1> USE DEF storeVars
<1>1. ASSUME NEW c \in Callers, Poll(c)
      PROVE  UNCHANGED storeVars \/ (SaveEffect(c) /\ pc[c] = "save" /\ UNCHANGED losses)
  BY ZenonT(60), <1>1 DEF Poll, Reload, Reconciled, ReconcileFailed, Snapshot, SnapshotEnds, Issue, IssueStale,
       SaveCommits, SaveConflicts, SaveAmbiguous, SaveErrors, Saved, SaveFailed, Conflicted,
       ConflictMissing, ConflictReloaded, ConflictFailed, LoadRejected, LoadRegistered, SaveEffect
<1>2. ASSUME NEW c \in Callers, Host(c) PROVE UNCHANGED storeVars
  BY Zenon, <1>2 DEF Host, Admit, LoadBegin, CommitBegin, DropFuture, TurnEnds
<1>3. ASSUME NEW e \in Engines, DropState(e) PROVE UNCHANGED storeVars
  BY ZenonT(60), <1>3 DEF DropState
<1>4. ASSUME NEW e \in Engines, NEW i \in Incarnations, create_session(e, i) PROVE UNCHANGED storeVars
  BY ZenonT(60), <1>4 DEF create_session
<1>5. UNCHANGED vars => UNCHANGED storeVars
  BY ZenonT(60) DEF vars
<1> QED BY Zenon, <1>1, <1>2, <1>3, <1>4, <1>5 DEF Next

\* A save that finds a record was built on exactly that record: the revision it
\* compares decides which record it is.
LEMMA SaveSeesSnapshot ==
    ASSUME TypeOK, LocalInv, StoreInv, losses = 0, NEW c \in Callers, SaveEffect(c)
    PROVE  stored # Missing => stored = snap[c]
<1> SUFFICES ASSUME stored # Missing PROVE stored = snap[c]
  BY Zenon
<1>1. snap[c] \in Record /\ cand[c].rev = snap[c].rev
  BY ZenonT(60) DEF SaveEffect, LocalInv, Local, CandidateOK, TypeOK
<1>2. stored.rev = cand[c].rev /\ stored.rev > 0
  BY Zenon DEF SaveEffect, Admits, StoreInv, StoreOK
<1>3. snap[c] \in Good
  BY DEF StoreInv, Holds
<1> QED BY ZenonT(60), <1>1, <1>2, <1>3 DEF Good, Durable

\* The store moves forward under what is held: a good record stays good, and the
\* published record is good.
LEMMA Forward ==
    ASSUME TypeOK, stored' \in Record, stored'.rev > 0, used' = used \cup {stored'.inc},
           StoreOK,
           stored # Missing => /\ stored'.rev > stored.rev
                               /\ stored'.inc = stored.inc => stored'.seq >= stored.seq
                               /\ stored'.inc # stored.inc => stored'.inc \notin used
    PROVE  Good \subseteq Good' /\ stored' \in Good'
<1>1. stored # Missing => stored \in Record /\ stored.rev \in Nat /\ stored.seq \in Nat
  BY ZenonT(60), RecordFields DEF TypeOK
<1>2. stored'.rev \in Nat /\ stored'.seq \in Nat /\ stored' # Missing
  BY ZenonT(60), RecordFields
<1>3. ASSUME NEW r \in Record, Durable(r) PROVE Durable(r)'
  <2>1. r.rev \in Nat /\ r.seq \in Nat
    BY ZenonT(60), RecordFields
  <2> QED BY <1>1, <1>2, <1>3, <2>1 DEF Durable
<1>4. Good \subseteq Good'
  BY ZenonT(60), <1>3 DEF Good
<1>5. Durable(stored)'
  BY <1>2 DEF Durable
<1> QED BY Zenon, <1>4, <1>5 DEF Good, Answers

\* A step without losses keeps the store in order and what is held good.
LEMMA StoreOKStep ==
    ASSUME TypeOK, TypeOK', LocalInv, StoreInv, losses = 0, losses' = 0, [Next]_vars
    PROVE  StoreOK' /\ Good \subseteq Good' /\ stored' \in Good'
<1>1. StoreOK
  BY DEF StoreInv
<1>2. CASE UNCHANGED storeVars
  <2>1. StoreOK' /\ Good' = Good
    BY ZenonT(60), <1>1, <1>2 DEF storeVars, StoreOK, Good, Durable
  <2>2. stored \in Record => stored.rev \in Nat /\ stored.seq \in Nat
    BY ZenonT(60), RecordFields
  <2>3. stored \in Good
    BY SMTT(90), <1>1, <2>2, AnswerAssumption DEF StoreOK, Good, Durable, TypeOK, Answers
  <2> QED BY SMTT(90), <1>2, <2>1, <2>3 DEF storeVars
<1>3. ASSUME NEW c \in Callers, SaveEffect(c) PROVE StoreOK' /\ Good \subseteq Good' /\ stored' \in Good'
  <2>1. /\ stored' \in Record
        /\ stored'.inc = cand[c].inc /\ stored'.seq = cand[c].seq
        /\ stored'.rev > cand[c].rev
        /\ stored # Missing => stored'.rev > stored.rev
        /\ used' = used \cup {cand[c].inc}
    BY ZenonT(60), <1>3, SaveEffectType
  <2>2. stored # Missing => stored = snap[c]
    BY SMTT(90), <1>3, SaveSeesSnapshot
  <2>3. /\ snap[c] \in Record /\ cand[c] \in Record /\ CandidateOK(c)
        /\ cand[c].rev \in Nat /\ snap[c].seq \in 1..(MaxSeq + 1) /\ snap[c].inc \in Incarnations
    <3>1. pc[c] = "save"
      BY ZenonT(60), <1>3 DEF SaveEffect
    <3>2. snap[c] # None /\ cand[c] # None /\ CandidateOK(c)
      BY ZenonT(60), <3>1 DEF LocalInv, Local
    <3>3. snap[c] \in Record /\ cand[c] \in Record
      BY ZenonT(60), <3>2 DEF TypeOK
    <3> QED BY ZenonT(60), <3>2, <3>3, RecordFields
  <2>4. stored'.rev > 0 /\ stored'.inc = snap[c].inc /\ stored'.seq >= snap[c].seq /\ stored' # Missing
    <3>1. stored'.rev \in Nat /\ stored' # Missing
      BY ZenonT(60), <2>1, RecordFields
    <3>2. cand[c].inc = snap[c].inc /\ cand[c].seq >= snap[c].seq
      BY SMTT(90), <2>3 DEF CandidateOK
    <3> QED BY SMTT(90), <2>1, <2>3, <3>1, <3>2
  <2>5. Good \subseteq Good' /\ stored' \in Good'
    BY ZenonT(60), <1>1, <2>1, <2>2, <2>4, Forward
  <2>6. ASSUME NEW i \in Incarnations, NEW n \in 1..MaxSeq
        PROVE  /\ grants'[i][n] <= 1
               /\ grants'[i][n] > 0 => i \in used' /\ (stored'.inc = i => n < stored'.seq)
    <3>0. grants[i][n] \in Nat /\ grants[i][n] <= 1
          /\ (grants[i][n] > 0 => i \in used /\ (stored.inc = i => n < stored.seq))
      <4>1. grants[i] \in [1..MaxSeq -> Nat]
        BY ZenonT(60) DEF TypeOK
      <4> QED BY ZenonT(60), <1>1, <4>1 DEF StoreOK
    <3>1. grants[i][n] > 0 => stored # Missing
      BY ZenonT(60), <1>1, <3>0 DEF StoreOK
    <3>2. grants[i][n] > 0 => i \in used' /\ (stored'.inc = i => n < stored'.seq)
      <4>1. grants[i][n] > 0 /\ stored'.inc = i => n < snap[c].seq
        BY ZenonT(60), <2>2, <2>4, <3>0, <3>1
      <4>2. snap[c].seq \in Nat /\ stored'.seq \in Nat /\ n \in Nat
        BY <2>1, <2>3, RecordFields
      <4> QED BY Zenon, <2>1, <2>4, <3>0, <4>1, <4>2, Numbers
    <3>3. CASE grants'[i][n] = grants[i][n]
      BY ZenonT(60), <3>0, <3>2, <3>3
    <3>4. CASE grants'[i][n] # grants[i][n]
      <4>1. kind[c] \in Reserving \cup Prepared
            /\ grants' = [grants EXCEPT ![cand[c].inc][snap[c].seq] = @ + 1]
        BY ZenonT(60), <1>3, <3>4 DEF SaveEffect, Grant
      <4>2. i = cand[c].inc /\ n = snap[c].seq /\ grants'[i][n] = grants[i][n] + 1
        BY ZenonT(60), <3>4, <4>1 DEF TypeOK
      <4>3. stored'.seq = snap[c].seq + 1
        BY ZenonT(60), <2>1, <2>3, <4>1 DEF CandidateOK
      <4>4. grants[i][n] = 0
        <5>1. ASSUME grants[i][n] > 0 PROVE FALSE
          <6>1. stored = snap[c] /\ stored.inc = i
            BY ZenonT(60), <2>2, <2>3, <3>1, <4>2, <5>1 DEF CandidateOK
          <6>2. n < stored.seq /\ n = stored.seq
            BY ZenonT(60), <3>0, <4>2, <5>1, <6>1
          <6>3. n \in Nat
            OBVIOUS
          <6> QED BY Zenon, <6>2, <6>3, Numbers
        <5> QED BY Zenon, <3>0, <5>1, Numbers
      <4>5. snap[c].seq \in Nat
        BY Zenon, <2>1, <2>3, RecordFields
      <4>6. i \in used'
        BY Zenon, <2>1, <4>2
      <4>7. grants'[i][n] <= 1
        BY Zenon, <4>2, <4>4, Numbers
      <4>8. n < stored'.seq
        BY Zenon, <4>2, <4>3, <4>5, Numbers
      <4> QED BY Zenon, <4>6, <4>7, <4>8
    <3> QED BY ZenonT(60), <3>3, <3>4
  <2> QED BY ZenonT(60), <2>1, <2>4, <2>5, <2>6 DEF StoreOK
<1>4. ASSUME NEW i \in Incarnations, publish_initial_record(i)
      PROVE  StoreOK' /\ Good \subseteq Good' /\ stored' \in Good'
  <2>1. At(empty(i), 1) \in Record /\ At(empty(i), 1).rev = 1 /\ At(empty(i), 1).inc = i
    BY SMTT(90), RecordType, BoundsAssumption DEF empty
  <2>2. stored' = At(empty(i), 1) /\ stored = Missing /\ used = {} /\ UNCHANGED grants /\ used' = {i}
    BY ZenonT(60), <1>1, <1>4, <2>1 DEF publish_initial_record, Publish, StoreOK
  <2>3. stored' # Missing
    BY SMTT(90), <2>1, <2>2, AnswerAssumption
  <2>4. StoreOK'
    BY SMTT(90), <1>1, <2>1, <2>2, <2>3 DEF StoreOK
  <2> QED BY SMTT(90), <1>1, <2>1, <2>2, <2>4, Forward
<1>5. ASSUME NEW i \in Incarnations, reset_record(i)
      PROVE  StoreOK' /\ Good \subseteq Good' /\ stored' \in Good'
  <2>1. stored.rev \in Nat /\ stored.rev + 1 \in 0..MaxRev /\ stored.inc \in used
    <3>1. stored # Missing /\ stored \in Record /\ stored.rev < MaxRev
      BY ZenonT(60), <1>5 DEF reset_record, TypeOK
    <3>2. stored.rev \in 0..MaxRev
      BY SMTT(90), <3>1 DEF Record
    <3> QED BY SMTT(90), <1>1, <3>1, <3>2, BoundsAssumption DEF StoreOK
  <2>2. /\ At(empty(i), stored.rev + 1) \in Record
        /\ At(empty(i), stored.rev + 1).rev = stored.rev + 1
        /\ At(empty(i), stored.rev + 1).inc = i
    BY ZenonT(60), <2>1, RecordType DEF empty
  <2>3. /\ stored' = At(empty(i), stored.rev + 1) /\ UNCHANGED grants /\ i \notin used
        /\ used' = used \cup {i}
    BY ZenonT(60), <1>5, <2>2 DEF reset_record, Publish, Fresh
  <2>4. stored' # Missing /\ stored'.rev > 0
    BY SMTT(90), <2>1, <2>2, <2>3, AnswerAssumption
  <2>5. \A j \in Incarnations, n \in 1..MaxSeq : grants[j][n] > 0 => j # i
    BY ZenonT(60), <1>1, <2>3 DEF StoreOK
  <2>6. StoreOK'
    BY ZenonT(60), <1>1, <2>2, <2>3, <2>4, <2>5 DEF StoreOK
  <2> QED BY SMTT(90), <1>1, <2>1, <2>2, <2>3, <2>4, <2>6, Forward
<1>6. ~LoseRecord
  BY DEF LoseRecord
<1> QED BY <1>2, <1>3, <1>4, <1>5, <1>6, StoreMoves

\* Losses are counted and never forgotten.
LEMMA LossesGrow == ASSUME TypeOK, [Next]_vars, losses' = 0 PROVE losses = 0
BY StoreMoves, BoundsAssumption
DEF TypeOK, storeVars, publish_initial_record, reset_record, LoseRecord

\* Every step keeps StoreInv.
LEMMA StoreStep ==
    TypeOK /\ TypeOK' /\ LocalInv /\ StoreInv /\ [Next]_vars => StoreInv'
<1> SUFFICES ASSUME TypeOK, TypeOK', LocalInv, StoreInv, [Next]_vars, losses' = 0
             PROVE  StoreOK' /\ Holds(Good)'
  BY SMTT(90) DEF StoreInv
<1>1. losses = 0
  BY Zenon, LossesGrow
<1>2. StoreOK' /\ Good \subseteq Good' /\ stored' \in Good'
  BY <1>1, StoreOKStep
<1>0. PICK S : S = Good'
  OBVIOUS
<1>3. None \in S /\ Conflict \in S /\ stored' \in S
  BY <1>0, <1>2, AnswerAssumption DEF Good, Answers
<1>4. \A i \in Incarnations : empty(i) \in S
  BY <1>0, RecordType DEF Good, Answers, Durable
<1>5. Holds(S)
  BY <1>0, <1>1, <1>2 DEF StoreInv, Holds
<1>6. Holds(S)'
  BY <1>3, <1>4, <1>5, HoldsStep
<1> QED BY <1>0, <1>2, <1>6 DEF Holds
-----------------------------------------------------------------------------
(* The inductive invariant and what follows from it.                       *)

IInv == TypeOK /\ LocalInv /\ LeaseInv /\ StoreInv

\* The invariant holds before the first operation.
LEMMA InitIInv == Init => IInv
<1> SUFFICES ASSUME Init PROVE IInv
  BY SMTT(90)
<1>1. TypeOK
  BY SMTT(90), BoundsAssumption DEF Init, TypeOK, Places, Kinds, Leased, Answers
<1>2. LocalInv
  BY ZenonT(60) DEF Init, LocalInv, Local, Holding, Committing
<1>3. LeaseInv
  BY DEF Init, LeaseInv, Holding
<1>4. StoreInv
  <2>1. None \in Good
    BY AnswerAssumption DEF Good, Answers
  <2>2. Holds(Good)
    BY <2>1 DEF Init, Holds
  <2>3. StoreOK
    BY DEF Init, StoreOK
  <2> QED BY <2>2, <2>3 DEF StoreInv
<1> QED BY <1>1, <1>2, <1>3, <1>4 DEF IInv

\* Every step of any engine, future or store keeps the invariant.
LEMMA StepIInv == IInv /\ [Next]_vars => IInv'
BY TypeStep, LocalStep, LeaseStep, StoreStep DEF IInv

\* The invariant holds throughout.
THEOREM Invariance == Spec => []IInv
BY InitIInv, StepIInv, PTL DEF Spec

\* The state keeps its types, whatever the number of engines and futures.
THEOREM TypeCorrect == Spec => []TypeOK
<1>1. IInv => TypeOK
  BY SMTT(90) DEF IInv
<1> QED BY <1>1, Invariance, PTL

\* The invariant has at most one holder per lease.
LEMMA LeaseFollows == IInv => LeaseExclusive
BY SMTT(90) DEF IInv, LeaseInv, LeaseExclusive, TypeOK

\* One operation at a time holds an engine's lease (TurnLease).
THEOREM LeaseIsExclusive == Spec => []LeaseExclusive
<1>1. IInv => LeaseExclusive
  BY LeaseFollows
<1> QED BY <1>1, Invariance, PTL

\* No turn sequence of an incarnation is durably reserved twice.
THEOREM TurnsAreUnique == Spec => []UniqueTurns
<1>1. IInv => UniqueTurns
  BY Zenon DEF IInv, StoreInv, StoreOK, UniqueTurns
<1> QED BY <1>1, Invariance, PTL

\* What is good is not ahead of the store.
LEMMA BeliefsFollow == IInv => BeliefsAreDurable
<1> SUFFICES ASSUME IInv PROVE BeliefsAreDurable
  BY Zenon
<1> SUFFICES ASSUME losses = 0, NEW r \in Believed
             PROVE  /\ stored # Missing
                    /\ r.rev <= stored.rev
                    /\ r.rev = stored.rev => r = stored
                    /\ r.inc = stored.inc => r.seq <= stored.seq
  BY DEF BeliefsAreDurable
<1>1. r \in Good /\ r # None /\ r.rev > 0
  BY SMTT(90) DEF IInv, StoreInv, Holds, Believed
<1>2. r \in Record
  BY <1>1 DEF IInv, TypeOK, Believed
<1> QED BY <1>1, <1>2 DEF Good, Durable

\* Canonical records and live turns' commits are never ahead of the store.
THEOREM BeliefsDurable == Spec => []BeliefsAreDurable
BY BeliefsFollow, Invariance, PTL

\* The only step that publishes for a future is its own save.
LEMMA CommitIsSave ==
    ASSUME TypeOK, [Next]_vars, NEW c \in Callers, Commits(c) PROVE SaveEffect(c)
<1> USE DEF storeVars
<1>1. ASSUME NEW d \in Callers, Poll(d) PROVE SaveEffect(c)
  <2>1. SaveCommits(d) \/ SaveAmbiguous(d)
    BY ZenonT(60), <1>1 DEF Commits, Poll, Reload, Reconciled, ReconcileFailed, Snapshot, SnapshotEnds, Issue,
         IssueStale, SaveConflicts, SaveErrors, Saved, SaveFailed, Conflicted, ConflictMissing,
         ConflictReloaded, ConflictFailed, LoadRejected, LoadRegistered
  <2>2. SaveEffect(d)
    BY <2>1 DEF SaveCommits, SaveAmbiguous
  <2>3. d # c => pc'[c] = pc[c]
    BY ZenonT(60), <2>1 DEF SaveCommits, SaveAmbiguous, End, Leave, Goto, TypeOK
  <2> QED BY Zenon, <2>2, <2>3 DEF Commits
<1>2. ASSUME NEW d \in Callers, Host(d) PROVE FALSE
  BY ZenonT(60), <1>2 DEF Commits, Host, Admit, LoadBegin, CommitBegin, DropFuture, TurnEnds
<1>3. ASSUME NEW e \in Engines, DropState(e) PROVE FALSE
  BY ZenonT(60), <1>3 DEF Commits, DropState
<1>4. ASSUME NEW e \in Engines, NEW i \in Incarnations, create_session(e, i) PROVE FALSE
  BY <1>4 DEF Commits, create_session
<1>5. ASSUME NEW i \in Incarnations, publish_initial_record(i) \/ reset_record(i) PROVE FALSE
  BY <1>5 DEF Commits, publish_initial_record, reset_record, opVars
<1>6. ~LoseRecord /\ ~UNCHANGED vars
  BY DEF Commits, LoseRecord, vars, opVars
<1> QED BY <1>1, <1>2, <1>3, <1>4, <1>5, <1>6 DEF Next

\* A save overwrites exactly the record its candidate was built from.
THEOREM NoUpdateIsLost == Spec => NoLostUpdate
<1>1. ASSUME IInv, [Next]_vars
      PROVE  [\A c \in Callers : Commits(c) /\ stored # Missing /\ losses = 0 => stored = snap[c]]_vars
  BY <1>1, CommitIsSave, SaveSeesSnapshot DEF IInv
<1> QED BY <1>1, Invariance, PTL DEF Spec, NoLostUpdate

\* What one step may do to the canonical record of a living state.
Advances(e) ==
    canon[e] # None /\ canon'[e] # None =>
        /\ canon'[e].inc = canon[e].inc
        /\ canon'[e].seq >= canon[e].seq
        /\ canon'[e].rev >= canon[e].rev
        /\ canon'[e].rev = canon[e].rev => canon'[e] = canon[e]

\* A step that leaves it alone.
LEMMA CanonKept ==
    ASSUME TypeOK, NEW e \in Engines, canon'[e] = canon[e] PROVE Advances(e)
<1>1. canon[e] \in Record \cup {None}
  BY DEF TypeOK
<1>2. canon[e] # None => canon[e].seq \in Nat /\ canon[e].rev \in Nat
  BY ZenonT(60), <1>1, RecordFields
<1> QED BY SMTT(90), <1>2 DEF Advances

\* Only reconcile_loaded and reconcile_saved replace it, and both look first.
LEMMA CanonAdvances ==
    ASSUME TypeOK, [Next]_vars, NEW e \in Engines PROVE Advances(e)
<1> USE OwnerAssumption DEF stateVars
<1>1. ASSUME canon'[e] = canon[e] PROVE Advances(e)
  BY Zenon, <1>1, CanonKept
<1>2. ASSUME NEW c \in Callers, LoadAcceptable(Owner[c], got[c]), reconcile_loaded(Owner[c], got[c])
      PROVE  Advances(e)
  <2>1. CASE e = Owner[c]
    BY ZenonT(60), <1>2, <2>1 DEF Advances, LoadAcceptable, reconcile_loaded, TypeOK
  <2>2. CASE e # Owner[c]
    BY SMTT(90), <1>1, <1>2, <2>2 DEF reconcile_loaded, TypeOK
  <2> QED BY SMTT(90), <2>1, <2>2
<1>3. ASSUME NEW c \in Callers, Saved(c) PROVE Advances(e)
  <2>1. CASE e = Owner[c] /\ canon[e].rev <= got[c].rev
    BY ZenonT(60), <1>3, <2>1 DEF Advances, Saved, SaveAcceptable, reconcile_saved, TypeOK
  <2>2. CASE ~(e = Owner[c] /\ canon[e].rev <= got[c].rev)
    <3>1. canon'[e] = canon[e]
      BY ZenonT(60), <1>3, <2>2 DEF Saved, reconcile_saved, TypeOK
    <3> QED BY SMTT(90), <1>1, <3>1
  <2> QED BY ZenonT(60), <2>1, <2>2
<1>4. ASSUME NEW c \in Callers, LoadRegistered(c) PROVE Advances(e)
  <2>1. CASE canon[Owner[c]] = None
    BY ZenonT(60), <1>1, <1>4, <2>1 DEF Advances, LoadRegistered, reconcile_loaded, TypeOK
  <2>2. CASE canon[Owner[c]] # None
    BY ZenonT(60), <1>2, <1>4, <2>2 DEF LoadRegistered
  <2> QED BY ZenonT(60), <2>1, <2>2
<1>5. ASSUME NEW c \in Callers, Reconciled(c) PROVE Advances(e)
  <2>1. CASE LoadAcceptable(Owner[c], got[c]) /\ reconcile_loaded(Owner[c], got[c])
    BY Zenon, <1>2, <2>1
  <2>2. CASE UNCHANGED canon
    BY Zenon, <1>1, <2>2
  <2> QED BY Zenon, <1>5, <2>1, <2>2 DEF Reconciled
<1>6. ASSUME NEW c \in Callers, ConflictReloaded(c) PROVE Advances(e)
  <2>1. LoadAcceptable(Owner[c], got[c]) /\ reconcile_loaded(Owner[c], got[c])
    BY Zenon, <1>6 DEF ConflictReloaded, ReloadAdoptable
  <2> QED BY Zenon, <1>2, <2>1
<1>7. ASSUME NEW c \in Callers, Poll(c) PROVE Advances(e)
  BY ZenonT(60), <1>1, <1>3, <1>4, <1>5, <1>6, <1>7
  DEF Poll, Reload, ReconcileFailed, Snapshot, SnapshotEnds, Issue, IssueStale, SaveCommits,
      SaveConflicts, SaveAmbiguous, SaveErrors, SaveFailed, Conflicted, ConflictMissing,
      ConflictFailed, LoadRejected
<1>8. ASSUME NEW c \in Callers, Host(c) PROVE Advances(e)
  BY ZenonT(60), <1>1, <1>8 DEF Host, Admit, LoadBegin, CommitBegin, DropFuture, TurnEnds
<1>9. ASSUME NEW f \in Engines, DropState(f) PROVE Advances(e)
  BY ZenonT(60), <1>1, <1>9 DEF DropState, Advances, TypeOK
<1>10. ASSUME NEW f \in Engines, NEW i \in Incarnations, create_session(f, i) PROVE Advances(e)
  BY ZenonT(60), <1>1, <1>10 DEF create_session, Advances, TypeOK
<1>11. ASSUME \/ \E i \in Incarnations : publish_initial_record(i) \/ reset_record(i)
              \/ LoseRecord
              \/ UNCHANGED vars
       PROVE  Advances(e)
  BY ZenonT(60), <1>1, <1>11 DEF publish_initial_record, reset_record, LoseRecord, vars
<1> QED BY SMTT(90), <1>7, <1>8, <1>9, <1>10, <1>11 DEF Next

\* No canonical record rewinds (reconcile_loaded, reconcile_saved).
THEOREM CanonicalNeverRewinds == Spec => CanonicalMonotone
<1>1. ASSUME TypeOK, [Next]_vars PROVE [\A e \in Engines : Advances(e)]_vars
  BY <1>1, CanonAdvances
<1>2. CanonicalMonotone <=> [][\A e \in Engines : Advances(e)]_vars
  BY DEF CanonicalMonotone, Advances
<1> QED BY <1>1, <1>2, TypeCorrect, PTL DEF Spec

-----------------------------------------------------------------------------
(***************************************************************************)
(* What holds of TurnMetadata for any number of editors besides: the       *)
(* engines keep their guarantees while editors save beside the lease, and  *)
(* an exchange replaces exactly the entry it read.                         *)
(*                                                                         *)
(* The invariant adds to IInv what the place of an editor says about its   *)
(* locals, and that the records an editor holds are good: published, and   *)
(* not ahead of the store.  The candidate of a save differs from the       *)
(* record its pass started from in the entry alone, and the revision the   *)
(* store compares decides which record that is.                            *)
(***************************************************************************)

\* The candidate is the record of this pass with another entry.
Based(x) ==
    /\ current[x] # None
    /\ current[x].rev > 0
    /\ ScopeOf(current[x]) = within[x]
    /\ current[x].meta = expected[x].meta
    /\ change[x] = [current[x] EXCEPT !.meta = change[x].meta]

\* The locals of an editor, by place.
EditLocal(x) ==
    /\ Active(x) => canon[Home[x]] # None
    /\ place[x] = "idle" => expected[x] = None
    /\ place[x] \in {"read", "pass", "issue", "save", "saved"} => expected[x] # None
    /\ place[x] \in {"pass", "issue", "save", "saved"} => change[x] # None
    /\ place[x] = "loaded" /\ expected[x] # None => change[x] # None
    /\ place[x] \in {"issue", "save", "saved"} => Based(x)
    /\ place[x] = "saved" => answer[x] \in Record \cup {Conflict}

\* The records editors hold.
EditGood == losses = 0 => current \in [Editors -> Good] /\ answer \in [Editors -> Good]

EInv == EditTypeOK /\ IInv /\ (\A x \in Editors : EditLocal(x)) /\ EditGood

\* Only editor x moves.
OthersKept(x) ==
    \A y \in Editors \ {x} :
        /\ place'[y] = place[y] /\ within'[y] = within[y] /\ expected'[y] = expected[y]
        /\ current'[y] = current[y] /\ change'[y] = change[y] /\ answer'[y] = answer[y]

\* No state dies.
StatesLive == \A e \in Engines : canon[e] # None => canon'[e] # None

-----------------------------------------------------------------------------
(* Frames.                                                                 *)

\* The locals of the editors that do not move.
LEMMA LocalsKept ==
    ASSUME NEW x \in Editors, \A y \in Editors : EditLocal(y), OthersKept(x), StatesLive,
           EditLocal(x)'
    PROVE  \A y \in Editors : EditLocal(y)'
<1> SUFFICES ASSUME NEW y \in Editors \ {x} PROVE EditLocal(y)'
  BY Zenon
<1>1. /\ place'[y] = place[y] /\ within'[y] = within[y] /\ expected'[y] = expected[y]
      /\ current'[y] = current[y] /\ change'[y] = change[y] /\ answer'[y] = answer[y]
  BY DEF OthersKept
<1>2. EditLocal(y) /\ Home[y] \in Engines
  BY EditorAssumption
<1>3. Based(y) => Based(y)'
  BY Zenon, <1>1 DEF Based
<1>4. Active(y)' => Active(y)
  BY <1>1 DEF Active
<1> QED BY ZenonT(60), <1>1, <1>2, <1>3, <1>4 DEF EditLocal, StatesLive

\* A step of an editor that publishes nothing.
LEMMA EditFrame ==
    ASSUME EInv, NEW x \in Editors, EditTypeOK', OthersKept(x), StatesLive, EditLocal(x)',
           UNCHANGED <<storeVars, lease, opVars>>,
           losses = 0 => /\ canon' \in [Engines -> Good]
                         /\ current'[x] \in Good /\ answer'[x] \in Good
    PROVE  EInv'
<1>1. \A y \in Editors : EditLocal(y)'
  BY Zenon, LocalsKept DEF EInv
<1>2. TypeOK'
  BY Zenon DEF EditTypeOK
<1>3. UNCHANGED <<stored, used, grants, losses>> /\ Good' = Good
  BY ZenonT(60) DEF storeVars, Good, Durable
<1>4. LocalInv'
  <2>1. ASSUME NEW c \in Callers PROVE Local(c)'
    <3>1. Local(c) /\ Owner[c] \in Engines
      BY ZenonT(60), OwnerAssumption DEF EInv, IInv, LocalInv
    <3>2. UNCHANGED <<pc, kind, snap, was, cand, got, base, tries>>
      BY DEF opVars
    <3>3. CandidateOK(c) => CandidateOK(c)'
      BY Zenon, <3>2 DEF CandidateOK
    <3> QED BY Zenon, <3>1, <3>2, <3>3 DEF Local, Holding, StatesLive
  <2> QED BY ZenonT(60), <2>1 DEF LocalInv
<1>5. LeaseInv'
  BY Zenon DEF EInv, IInv, LeaseInv, Holding, opVars
<1>6. StoreInv'
  <2> SUFFICES ASSUME losses = 0 PROVE StoreOK' /\ Holds(Good)'
    BY ZenonT(60), <1>3 DEF StoreInv
  <2>1. StoreOK /\ Holds(Good)
    BY DEF EInv, IInv, StoreInv
  <2>2. StoreOK'
    BY ZenonT(60), <1>3, <2>1 DEF StoreOK
  <2> QED BY ZenonT(60), <1>3, <2>1, <2>2 DEF Holds, opVars
<1>7. EditGood'
  <2> SUFFICES ASSUME losses = 0 PROVE current' \in [Editors -> Good] /\ answer' \in [Editors -> Good]
    BY <1>3 DEF EditGood
  <2>1. current \in [Editors -> Good] /\ answer \in [Editors -> Good]
    BY DEF EInv, EditGood
  <2>2. /\ current' = [y \in Editors |-> current'[y]]
        /\ answer' = [y \in Editors |-> answer'[y]]
    BY DEF EditTypeOK
  <2>3. \A y \in Editors : current'[y] \in Good /\ answer'[y] \in Good
    BY ZenonT(60), <2>1 DEF OthersKept
  <2> QED BY Zenon, <2>2, <2>3
<1> QED BY ZenonT(60), <1>1, <1>2, <1>4, <1>5, <1>6, <1>7 DEF EInv, IInv

\* What is good whatever the store holds.
LEMMA GoodAnswers ==
    ASSUME TypeOK, StoreInv, losses = 0
    PROVE  None \in Good /\ Missing \in Good /\ Conflict \in Good /\ stored \in Good
<1>1. stored # Missing => stored \in Record /\ stored.rev > 0 /\ stored.inc \in used
  BY Zenon DEF TypeOK, StoreInv, StoreOK
<1>2. stored # Missing => Durable(stored)
  BY Zenon, <1>1, RecordFields, Numbers DEF Durable
<1> QED BY Zenon, <1>1, <1>2, AnswerAssumption DEF Good, Answers

-----------------------------------------------------------------------------
(* The steps of an editor.                                                 *)

\* An operation that ends leaves typed values and nothing to say about them.
LEMMA FinishKeeps ==
    ASSUME EInv, NEW x \in Editors, Finish(x), UNCHANGED scope, TypeOK'
    PROVE  /\ EditTypeOK' /\ EditLocal(x)' /\ OthersKept(x)
           /\ current'[x] = None /\ answer'[x] = None
<1>1. EditTypeOK
  BY DEF EInv
<1>2. EditTypeOK'
  BY <1>1, BoundsAssumption DEF EditTypeOK, Finish, Move, EditPlaces, Answers
<1>3. /\ place'[x] = "idle" /\ expected'[x] = None /\ OthersKept(x)
      /\ current'[x] = None /\ answer'[x] = None
  BY <1>1 DEF EditTypeOK, Finish, Move, OthersKept
<1>4. EditLocal(x)'
  BY ZenonT(60), <1>3 DEF EditLocal, Active
<1> QED BY ZenonT(60), <1>2, <1>3, <1>4

\* The good records that an editor may be given.
LEMMA Held ==
    ASSUME EInv, losses = 0, NEW x \in Editors
    PROVE  /\ canon \in [Engines -> Good] /\ canon[Home[x]] \in Good
           /\ current[x] \in Good /\ answer[x] \in Good
           /\ None \in Good /\ Missing \in Good /\ Conflict \in Good /\ stored \in Good
<1>1. TypeOK /\ StoreInv
  BY DEF EInv, IInv
<1>2. None \in Good /\ Missing \in Good /\ Conflict \in Good /\ stored \in Good
  BY <1>1, GoodAnswers
<1>3. canon \in [Engines -> Good]
  BY <1>1 DEF StoreInv, Holds
<1> QED BY <1>2, <1>3, EditorAssumption DEF EInv, EditGood

\* A record with another entry.
LEMMA WithMeta ==
    ASSUME NEW r \in Record, NEW m \in Callers \cup {None}
    PROVE  /\ [r EXCEPT !.meta = m] \in Record /\ [r EXCEPT !.meta = m].meta = m
           /\ [r EXCEPT !.meta = m].inc = r.inc /\ [r EXCEPT !.meta = m].rev = r.rev
           /\ [r EXCEPT !.meta = m].seq = r.seq /\ [r EXCEPT !.meta = m].msgs = r.msgs
BY DEF Record

\* Open scopes are of live turns, and a live turn keeps its session's state.
LEMMA OpenLives ==
    ASSUME EInv, NEW e \in Engines, NEW s, Open(e, s)
    PROVE  canon[e] # None
BY ZenonT(60) DEF Open, EInv, IInv, LocalInv, Local

\* Nothing the engines own changes.
LEMMA QuietStep ==
    ASSUME EInv, UNCHANGED vars
    PROVE  /\ TypeOK' /\ StatesLive /\ UNCHANGED <<storeVars, lease, opVars>>
           /\ UNCHANGED <<stored, canon, debt, persisted, losses>>
           /\ losses = 0 => canon' \in [Engines -> Good]
<1>1. UNCHANGED <<storeVars, stateVars, opVars>>
  BY DEF vars
<1>2. /\ UNCHANGED <<stored, used, grants, losses>>
      /\ UNCHANGED <<canon, persisted, lease, debt, floor>>
      /\ UNCHANGED <<pc, kind, snap, was, cand, got, base, tries>>
  BY <1>1 DEF storeVars, stateVars, opVars
<1>3. TypeOK'
  BY ZenonT(60), <1>2 DEF EInv, IInv, TypeOK
<1>4. losses = 0 => canon' \in [Engines -> Good]
  BY <1>2 DEF EInv, IInv, StoreInv, Holds
<1> QED BY <1>1, <1>2, <1>3, <1>4 DEF StatesLive

\* read_entry begins.
LEMMA ReadStep ==
    ASSUME EInv, NEW x \in Editors, NEW c \in Callers, read_entry(x, c) PROVE EInv'
<1>1. EditTypeOK /\ EditLocal(x) /\ Home[x] \in Engines
  BY EditorAssumption DEF EInv
<1>2. UNCHANGED vars /\ UNCHANGED <<scope, expected, current, change, passes>>
  BY ZenonT(60) DEF read_entry
<1>3. /\ TypeOK' /\ StatesLive /\ UNCHANGED <<storeVars, lease, opVars>>
      /\ UNCHANGED <<stored, canon, debt, persisted, losses>>
      /\ losses = 0 => canon' \in [Engines -> Good]
  BY <1>2, QuietStep
<1>4. /\ within' = [within EXCEPT ![x] = scope[c]]
      /\ answer' = [answer EXCEPT ![x] = stored]
      /\ place' = [place EXCEPT ![x] = "loaded"]
  BY ZenonT(60) DEF read_entry, Move
<1>5. scope[c] \in Scopes \cup {None} /\ stored \in Answers
  BY ZenonT(60), <1>1 DEF EditTypeOK, TypeOK, Answers
<1>6. EditTypeOK'
  BY ZenonT(60), <1>1, <1>2, <1>3, <1>4, <1>5 DEF EditTypeOK, EditPlaces
<1>7. OthersKept(x) /\ place[x] = "idle" /\ place'[x] = "loaded" /\ answer'[x] = stored
  BY ZenonT(60), <1>1, <1>2, <1>4 DEF OthersKept, EditTypeOK, read_entry
<1>8. canon[Home[x]] # None
  BY ZenonT(60), <1>1, OpenLives DEF read_entry, Acquirable
<1>9. EditLocal(x)'
  BY ZenonT(60), <1>1, <1>2, <1>3, <1>7, <1>8 DEF EditLocal
<1>10. losses = 0 => current'[x] \in Good /\ answer'[x] \in Good
  BY ZenonT(60), <1>2, <1>7, Held
<1> QED BY ZenonT(60), <1>3, <1>6, <1>7, <1>9, <1>10, EditFrame

\* compare_exchange begins, with the reload of a debt or with its first pass.
LEMMA ExchangeStep ==
    ASSUME EInv, NEW x \in Editors, NEW v \in Values, compare_exchange(x, v) PROVE EInv'
<1>1. EditTypeOK /\ EditLocal(x) /\ Home[x] \in Engines
  BY EditorAssumption DEF EInv
<1>2. UNCHANGED vars /\ UNCHANGED <<scope, within, expected, current>> /\ place[x] = "read"
  BY DEF compare_exchange
<1>3. /\ TypeOK' /\ StatesLive /\ UNCHANGED <<storeVars, lease, opVars>>
      /\ UNCHANGED <<stored, canon, debt, persisted, losses>>
      /\ losses = 0 => canon' \in [Engines -> Good]
  BY <1>2, QuietStep
<1>4. /\ change' = [change EXCEPT ![x] = [expected[x] EXCEPT !.meta = v]]
      /\ passes' = [passes EXCEPT ![x] = MaxTries]
      /\ \/ answer' = [answer EXCEPT ![x] = stored] /\ place' = [place EXCEPT ![x] = "loaded"]
         \/ answer' = answer /\ place' = [place EXCEPT ![x] = "pass"]
  BY DEF compare_exchange, Move
<1>5. [expected[x] EXCEPT !.meta = v] \in Record
  <2>1. expected[x] \in Record
    BY ZenonT(60), <1>1, <1>2 DEF EditTypeOK, EditLocal
  <2>2. v \in Callers \cup {None}
    BY EditorAssumption
  <2> QED BY ZenonT(60), <2>1, <2>2, WithMeta
<1>6. stored \in Answers /\ MaxTries \in 0..MaxTries
  BY <1>1, BoundsAssumption DEF EditTypeOK, TypeOK, Answers
<1>7. EditTypeOK'
  <2>1. /\ change' \in [Editors -> Record \cup {None}]
        /\ passes' \in [Editors -> 0..MaxTries]
    BY ZenonT(60), <1>1, <1>4, <1>5, <1>6 DEF EditTypeOK
  <2>2. place' \in [Editors -> EditPlaces] /\ answer' \in [Editors -> Answers]
    BY <1>1, <1>4, <1>6 DEF EditTypeOK, EditPlaces
  <2> QED BY ZenonT(60), <1>1, <1>2, <1>3, <2>1, <2>2 DEF EditTypeOK
<1>8. /\ OthersKept(x) /\ change'[x] \in Record
      /\ place'[x] \in {"loaded", "pass"} /\ answer'[x] \in {stored, answer[x]}
  BY <1>1, <1>2, <1>4, <1>5 DEF OthersKept, EditTypeOK
<1>9. canon[Home[x]] # None
  BY ZenonT(60), <1>1, OpenLives DEF compare_exchange, Acquirable
<1>10. EditLocal(x)'
  BY ZenonT(60), <1>1, <1>2, <1>3, <1>8, <1>9, AnswerAssumption DEF EditLocal
<1>11. losses = 0 => current'[x] \in Good /\ answer'[x] \in Good
  BY ZenonT(60), <1>2, <1>8, Held
<1> QED BY ZenonT(60), <1>3, <1>7, <1>8, <1>10, <1>11, EditFrame

\* A pass makes its candidate of the newest canonical record.
LEMMA PassStep ==
    ASSUME EInv, NEW x \in Editors, EditPass(x) PROVE EInv'
<1> DEFINE r == canon[Home[x]]
<1>1. EditTypeOK /\ EditLocal(x) /\ Home[x] \in Engines /\ place[x] = "pass"
  BY EditorAssumption DEF EInv, EditPass
<1>2. UNCHANGED vars /\ UNCHANGED <<scope, within, expected, answer>>
  BY DEF EditPass
<1>3. /\ TypeOK' /\ StatesLive /\ UNCHANGED <<storeVars, lease, opVars>>
      /\ UNCHANGED <<stored, canon, debt, persisted, losses>>
      /\ losses = 0 => canon' \in [Engines -> Good]
  BY <1>2, QuietStep
<1>4. /\ current' = [current EXCEPT ![x] = r]
      /\ change' = [change EXCEPT ![x] = [r EXCEPT !.meta = change[x].meta]]
      /\ passes' = [passes EXCEPT ![x] = passes[x] - 1]
      /\ place' = [place EXCEPT ![x] = "issue"]
      /\ passes[x] > 0 /\ r.meta = expected[x].meta
      /\ ScopeOf(r) = within[x] /\ r.rev # 0
  BY DEF EditPass, Move, Usable
<1>5. r \in Record /\ change[x] \in Record
  <2>1. TypeOK /\ change \in [Editors -> Record \cup {None}]
    BY Zenon, <1>1 DEF EditTypeOK
  <2>2. r # None /\ change[x] # None
    BY ZenonT(60), <1>1 DEF EditLocal, Active
  <2>3. canon \in [Engines -> Record \cup {None}]
    BY Zenon, <2>1 DEF TypeOK
  <2> QED BY Zenon, <1>1, <2>1, <2>2, <2>3
<1>6. /\ [r EXCEPT !.meta = change[x].meta] \in Record
      /\ [r EXCEPT !.meta = change[x].meta].meta = change[x].meta
      /\ r.rev > 0
  <2>1. change[x].meta \in Callers \cup {None} /\ r.rev \in Nat
    BY ZenonT(60), <1>5, RecordFields
  <2>2. r.rev > 0
    BY Zenon, <1>4, <2>1, Numbers
  <2> QED BY Zenon, <1>5, <2>1, <2>2, WithMeta
<1>7. passes[x] - 1 \in 0..MaxTries
  BY <1>1, <1>4, BoundsAssumption DEF EditTypeOK
<1>8. EditTypeOK'
  <2>1. /\ change' \in [Editors -> Record \cup {None}]
        /\ current' \in [Editors -> Record \cup {None}]
        /\ passes' \in [Editors -> 0..MaxTries]
        /\ place' \in [Editors -> EditPlaces]
    BY ZenonT(60), <1>1, <1>4, <1>5, <1>6, <1>7 DEF EditTypeOK, EditPlaces
  <2> QED BY ZenonT(60), <1>1, <1>2, <1>3, <2>1 DEF EditTypeOK
<1>9. /\ OthersKept(x) /\ place'[x] = "issue" /\ current'[x] = r
      /\ change'[x] = [r EXCEPT !.meta = change[x].meta]
  BY ZenonT(60), <1>1, <1>2, <1>4 DEF OthersKept, EditTypeOK
<1>10. Based(x)'
  BY ZenonT(60), <1>2, <1>4, <1>5, <1>6, <1>9, AnswerAssumption DEF Based, ScopeOf
<1>11. EditLocal(x)'
  BY ZenonT(60), <1>1, <1>2, <1>3, <1>5, <1>6, <1>9, <1>10, AnswerAssumption DEF EditLocal
<1>12. losses = 0 => current'[x] \in Good /\ answer'[x] \in Good
  BY <1>2, <1>9, Held
<1> QED BY ZenonT(60), <1>3, <1>8, <1>9, <1>11, <1>12, EditFrame

\* A save is invoked, its debt armed before it.
LEMMA IssueStep ==
    ASSUME EInv, NEW x \in Editors, EditIssue(x) PROVE EInv'
<1>1. EditTypeOK /\ EditLocal(x) /\ Home[x] \in Engines /\ place[x] = "issue"
  BY ZenonT(60), EditorAssumption DEF EInv, EditIssue
<1>2. /\ UNCHANGED <<storeVars, lease, opVars>> /\ UNCHANGED <<canon, persisted, floor, scope>>
      /\ UNCHANGED <<within, expected, current, change, answer, passes>>
      /\ debt' = [debt EXCEPT ![Home[x]] = TRUE]
      /\ place' = [place EXCEPT ![x] = "save"]
  BY ZenonT(60) DEF EditIssue, Move
<1>3. TypeOK'
  BY ZenonT(60), <1>1, <1>2 DEF EditTypeOK, TypeOK, storeVars, opVars
<1>4. EditTypeOK'
  BY ZenonT(60), <1>1, <1>2, <1>3 DEF EditTypeOK, EditPlaces
<1>5. OthersKept(x) /\ place'[x] = "save" /\ StatesLive
  BY ZenonT(60), <1>1, <1>2 DEF OthersKept, EditTypeOK, StatesLive
<1>6. Based(x)'
  BY ZenonT(60), <1>1, <1>2 DEF Based, EditLocal
<1>7. EditLocal(x)'
  BY ZenonT(60), <1>1, <1>2, <1>5, <1>6 DEF EditLocal, Active
<1>8. losses = 0 => /\ canon' \in [Engines -> Good]
                    /\ current'[x] \in Good /\ answer'[x] \in Good
  BY ZenonT(60), <1>2, Held
<1> QED BY ZenonT(60), <1>2, <1>4, <1>5, <1>7, <1>8, EditFrame

\* A pass that ends over a newer canonical record; a conflict and its reload.
LEMMA QuietPasses ==
    ASSUME EInv, NEW x \in Editors, EditStale(x) \/ EditConflicts(x) \/ EditConflicted(x)
    PROVE  EInv'
<1>1. EditTypeOK /\ EditLocal(x) /\ Home[x] \in Engines
  BY EditorAssumption DEF EInv
<1>2. UNCHANGED vars /\ UNCHANGED <<scope, within, expected, change, passes>>
  BY Zenon DEF EditStale, EditConflicts, EditConflicted
<1>3. /\ TypeOK' /\ StatesLive /\ UNCHANGED <<storeVars, lease, opVars>>
      /\ UNCHANGED <<stored, canon, debt, persisted, losses>>
      /\ losses = 0 => canon' \in [Engines -> Good]
  BY <1>2, QuietStep
<1>4. \/ /\ place[x] = "issue" /\ place' = [place EXCEPT ![x] = "pass"]
         /\ current' = [current EXCEPT ![x] = None] /\ answer' = answer
      \/ /\ place[x] = "save" /\ place' = [place EXCEPT ![x] = "saved"]
         /\ current' = current /\ answer' = [answer EXCEPT ![x] = Conflict]
      \/ /\ place[x] = "saved" /\ place' = [place EXCEPT ![x] = "loaded"]
         /\ current' = current /\ answer' = [answer EXCEPT ![x] = stored]
  BY ZenonT(60) DEF EditStale, EditConflicts, EditConflicted, Move
<1>5. stored \in Answers /\ Conflict \in Answers
  BY ZenonT(60), <1>1 DEF EditTypeOK, TypeOK, Answers
<1>6. EditTypeOK'
  <2>1. place' \in [Editors -> EditPlaces] /\ answer' \in [Editors -> Answers]
        /\ current' \in [Editors -> Record \cup {None}]
    BY SMTT(90), <1>1, <1>4, <1>5 DEF EditTypeOK, EditPlaces
  <2> QED BY ZenonT(60), <1>1, <1>2, <1>3, <2>1 DEF EditTypeOK
<1>7. OthersKept(x)
  BY ZenonT(60), <1>1, <1>2, <1>4 DEF OthersKept, EditTypeOK
<1>8. \/ place[x] = "issue" /\ place'[x] = "pass" /\ current'[x] = None /\ answer'[x] = answer[x]
      \/ place[x] = "save" /\ place'[x] = "saved" /\ current'[x] = current[x] /\ answer'[x] = Conflict
      \/ place[x] = "saved" /\ place'[x] = "loaded" /\ current'[x] = current[x] /\ answer'[x] = stored
  BY ZenonT(60), <1>1, <1>4 DEF EditTypeOK
<1>9. place'[x] = "saved" => Based(x)'
  BY ZenonT(60), <1>1, <1>2, <1>8 DEF Based, EditLocal
<1>10. EditLocal(x)'
  BY ZenonT(60), <1>1, <1>2, <1>3, <1>8, <1>9 DEF EditLocal, Active
<1>11. losses = 0 => current'[x] \in Good /\ answer'[x] \in Good
  BY ZenonT(60), <1>8, Held
<1> QED BY ZenonT(60), <1>3, <1>6, <1>7, <1>10, <1>11, EditFrame

\* A confirmed save: the canonical record is the saved one, or a newer one.
LEMMA SavedStep ==
    ASSUME EInv, NEW x \in Editors, EditSaved(x) PROVE EInv'
<1>1. EditTypeOK /\ Home[x] \in Engines /\ Finish(x) /\ UNCHANGED scope
  BY ZenonT(60), EditorAssumption DEF EInv, EditSaved
<1>2. UNCHANGED <<storeVars, lease, opVars>> /\ UNCHANGED <<debt, floor>>
  BY ZenonT(60) DEF EditSaved
<1>3. answer[x] \in Record
  BY ZenonT(60) DEF EditSaved, SaveAcceptable
<1>4. \/ /\ canon' = [canon EXCEPT ![Home[x]] = answer[x]]
         /\ persisted' = [persisted EXCEPT ![Home[x]] = TRUE]
      \/ UNCHANGED <<canon, persisted>>
  BY ZenonT(60) DEF EditSaved, reconcile_saved
<1>5. TypeOK'
  <2>1. canon' \in [Engines -> Record \cup {None}] /\ persisted' \in [Engines -> BOOLEAN]
    BY ZenonT(60), <1>1, <1>3, <1>4 DEF EditTypeOK, TypeOK
  <2> QED BY ZenonT(60), <1>1, <1>2, <2>1 DEF EditTypeOK, TypeOK, storeVars, opVars
<1>6. StatesLive
  BY ZenonT(60), <1>1, <1>3, <1>4, AnswerAssumption DEF StatesLive, EditTypeOK, TypeOK
<1>7. /\ EditTypeOK' /\ EditLocal(x)' /\ OthersKept(x)
      /\ current'[x] = None /\ answer'[x] = None
  BY ZenonT(60), <1>1, <1>5, FinishKeeps
<1>8. losses = 0 => /\ canon' \in [Engines -> Good]
                    /\ current'[x] \in Good /\ answer'[x] \in Good
  BY ZenonT(60), <1>1, <1>4, <1>7, Held
<1> QED BY ZenonT(60), <1>2, <1>6, <1>7, <1>8, EditFrame

\* A failed or abandoned operation.
LEMMA FailsStep ==
    ASSUME EInv, NEW x \in Editors, EditFails(x) PROVE EInv'
<1>1. EditTypeOK /\ Home[x] \in Engines /\ Finish(x) /\ UNCHANGED scope
  BY EditorAssumption DEF EInv, EditFails
<1>2. UNCHANGED <<storeVars, lease, opVars>> /\ UNCHANGED <<canon, persisted>>
  BY DEF EditFails
<1>3. debt' \in [Engines -> BOOLEAN]
  BY ZenonT(60), <1>1 DEF EditFails, Rearm, EditTypeOK, TypeOK
<1>4. floor' \in [Engines -> 0..MaxRev]
  <2>1. answer[x] \in Record => answer[x].rev \in 0..MaxRev
    BY DEF Record
  <2> QED BY ZenonT(60), <1>1, <2>1 DEF EditFails, RaiseEditFloor, EditTypeOK, TypeOK
<1>5. TypeOK'
  BY ZenonT(60), <1>1, <1>2, <1>3, <1>4 DEF EditTypeOK, TypeOK, storeVars, opVars
<1>6. StatesLive
  BY ZenonT(60), <1>2 DEF StatesLive
<1>7. /\ EditTypeOK' /\ EditLocal(x)' /\ OthersKept(x)
      /\ current'[x] = None /\ answer'[x] = None
  BY ZenonT(60), <1>1, <1>5, FinishKeeps
<1>8. losses = 0 => /\ canon' \in [Engines -> Good]
                    /\ current'[x] \in Good /\ answer'[x] \in Good
  BY ZenonT(60), <1>2, <1>7, Held
<1> QED BY ZenonT(60), <1>2, <1>6, <1>7, <1>8, EditFrame

\* A reload: the canonical record is the loaded one, or one that overtook it.
LEMMA ReloadedStep ==
    ASSUME EInv, NEW x \in Editors, EditReloaded(x) PROVE EInv'
<1> DEFINE e == Home[x]
<1>1. EditTypeOK /\ EditLocal(x) /\ e \in Engines /\ place[x] = "loaded"
  BY ZenonT(60), EditorAssumption DEF EInv, EditReloaded
<1>2. UNCHANGED <<storeVars, lease, opVars>> /\ UNCHANGED <<floor, scope>> /\ answer[x] \in Record
  BY ZenonT(60) DEF EditReloaded, Reloadable
<1>3. \/ /\ canon' = [canon EXCEPT ![e] = answer[x]]
         /\ persisted' = [persisted EXCEPT ![e] = TRUE]
      \/ UNCHANGED <<canon, persisted>>
  BY Zenon DEF EditReloaded, reconcile_loaded
<1>4. TypeOK'
  <2>1. canon' \in [Engines -> Record \cup {None}] /\ persisted' \in [Engines -> BOOLEAN]
    BY ZenonT(60), <1>1, <1>2, <1>3 DEF EditTypeOK, TypeOK
  <2>2. debt' \in [Engines -> BOOLEAN]
    BY ZenonT(60), <1>1 DEF EditReloaded, Rearm, EditTypeOK, TypeOK
  <2> QED BY ZenonT(60), <1>1, <1>2, <2>1, <2>2 DEF EditTypeOK, TypeOK, storeVars, opVars
<1>5. StatesLive
  BY ZenonT(60), <1>1, <1>2, <1>3, AnswerAssumption DEF StatesLive, EditTypeOK, TypeOK
<1>6. losses = 0 => canon' \in [Engines -> Good]
  BY ZenonT(60), <1>1, <1>3, Held
<1>7. CASE Finish(x)
  <2>1. /\ EditTypeOK' /\ EditLocal(x)' /\ OthersKept(x)
        /\ current'[x] = None /\ answer'[x] = None
    BY ZenonT(60), <1>2, <1>4, <1>7, FinishKeeps
  <2>2. losses = 0 => current'[x] \in Good /\ answer'[x] \in Good
    BY ZenonT(60), <2>1, Held
  <2> QED BY ZenonT(60), <1>2, <1>5, <1>6, <2>1, <2>2, EditFrame
<1>8. CASE ~Finish(x)
  <2>1. /\ answer' = [answer EXCEPT ![x] = None]
        /\ current' = [current EXCEPT ![x] = None]
        /\ UNCHANGED <<within, change, passes>>
        /\ \/ /\ expected[x] = None /\ expected' = [expected EXCEPT ![x] = canon'[e]]
              /\ place' = [place EXCEPT ![x] = "read"]
           \/ /\ expected[x] # None /\ expected' = expected
              /\ place' = [place EXCEPT ![x] = "pass"]
    BY ZenonT(60), <1>8 DEF EditReloaded, Move
  <2>2. canon[e] # None /\ canon'[e] \in Record
    BY ZenonT(60), <1>1, <1>4, <1>5 DEF EditLocal, Active, StatesLive, TypeOK
  <2>3. expected' \in [Editors -> Record \cup {None}] /\ place' \in [Editors -> EditPlaces]
    BY ZenonT(60), <1>1, <2>1, <2>2 DEF EditTypeOK, EditPlaces
  <2>4. answer' \in [Editors -> Answers] /\ current' \in [Editors -> Record \cup {None}]
    BY ZenonT(60), <1>1, <2>1 DEF EditTypeOK, Answers
  <2>5. EditTypeOK'
    BY ZenonT(60), <1>1, <1>2, <1>4, <2>1, <2>3, <2>4 DEF EditTypeOK
  <2>6. OthersKept(x) /\ current'[x] = None /\ answer'[x] = None
    BY ZenonT(60), <1>1, <2>1 DEF OthersKept, EditTypeOK
  <2>7. \/ place'[x] = "read" /\ expected'[x] \in Record
        \/ place'[x] = "pass" /\ expected'[x] = expected[x] /\ expected[x] # None
    BY ZenonT(60), <1>1, <2>1, <2>2 DEF EditTypeOK
  <2>8. EditLocal(x)'
    BY ZenonT(60), <1>1, <2>1, <2>2, <2>7, AnswerAssumption DEF EditLocal
  <2>9. losses = 0 => current'[x] \in Good /\ answer'[x] \in Good
    BY ZenonT(60), <2>6, Held
  <2> QED BY ZenonT(60), <1>2, <1>5, <1>6, <2>5, <2>6, <2>8, <2>9, EditFrame
<1> QED BY ZenonT(60), <1>7, <1>8

-----------------------------------------------------------------------------
(* The publication of an edit.                                             *)

\* The store admits an edit only over the record its pass started from.
LEMMA EditOverCurrent ==
    ASSUME EInv, NEW x \in Editors, EditCommits(x)
    PROVE  /\ stored \in Record /\ current[x] \in Record /\ Based(x)
           /\ stored # Missing /\ stored.inc = change[x].inc /\ stored.rev = change[x].rev
           /\ losses = 0 => stored = current[x]
<1>1. EditTypeOK /\ EditLocal(x) /\ place[x] = "save" /\ Admits(stored, change[x], TRUE)
  BY ZenonT(60) DEF EInv, EditCommits
<1>2. stored # Missing /\ stored.inc = change[x].inc /\ stored.rev = change[x].rev
  BY ZenonT(60), <1>1 DEF Admits
<1>3. stored \in Record
  BY ZenonT(60), <1>1, <1>2 DEF EditTypeOK, TypeOK
<1>4. Based(x)
  BY ZenonT(60), <1>1 DEF EditLocal
<1>5. current[x] \in Record /\ change[x] \in Record
  BY <1>1, <1>4 DEF EditTypeOK, EditLocal, Based
<1>6. current[x].rev = stored.rev /\ current[x].rev > 0
  <2>1. change[x].meta \in Callers \cup {None}
    BY ZenonT(60), <1>5 DEF Record
  <2>2. [current[x] EXCEPT !.meta = change[x].meta].rev = current[x].rev
    BY <1>5, <2>1, WithMeta
  <2> QED BY ZenonT(60), <1>2, <1>4, <2>2 DEF Based
<1>7. losses = 0 => stored = current[x]
  <2> SUFFICES ASSUME losses = 0 PROVE stored = current[x]
    OBVIOUS
  <2>1. current[x] \in Good
    BY ZenonT(60), Held
  <2> QED BY ZenonT(60), <1>5, <1>6, <2>1 DEF Good, Durable
<1> QED BY ZenonT(60), <1>2, <1>3, <1>4, <1>5, <1>7

\* What it publishes.
LEMMA EditPublishes ==
    ASSUME EInv, NEW x \in Editors, EditCommits(x)
    PROVE  /\ stored' \in Record /\ stored'.inc = stored.inc /\ stored'.rev = stored.rev + 1
           /\ stored' = At(change[x], stored.rev + 1)
           /\ used' = used \cup {stored'.inc} /\ UNCHANGED <<grants, losses>>
           /\ losses = 0 => stored'.seq = stored.seq
<1> DEFINE n == NextRevision(stored, change[x])
<1>1. /\ stored \in Record /\ current[x] \in Record /\ Based(x)
      /\ stored # Missing /\ stored.inc = change[x].inc /\ stored.rev = change[x].rev
      /\ losses = 0 => stored = current[x]
  BY ZenonT(60), EditOverCurrent
<1>2. change[x] \in Record
  BY ZenonT(60) DEF EInv, EditLocal, EditCommits, EditTypeOK
<1>3. stored.rev \in Nat
  BY Zenon, <1>1, RecordFields
<1>4. n = stored.rev + 1 /\ n \in 0..MaxRev
  <2>1. n <= MaxRev
    BY Zenon DEF EditCommits
  <2> QED BY Zenon, <1>1, <1>3, <2>1, NextOfSame
<1>5. stored' = At(change[x], n) /\ used' = used \cup {At(change[x], n).inc} /\ UNCHANGED <<grants, losses>>
  BY ZenonT(60) DEF EditCommits, Publish
<1>6. stored' \in Record /\ stored'.inc = change[x].inc /\ stored'.rev = n /\ stored'.seq = change[x].seq
  BY ZenonT(60), <1>2, <1>4, <1>5, RecordType
<1>7. change[x].seq = current[x].seq
  <2>1. change[x].meta \in Callers \cup {None}
    BY ZenonT(60), <1>2 DEF Record
  <2>2. [current[x] EXCEPT !.meta = change[x].meta].seq = current[x].seq
    BY <1>1, <2>1, WithMeta
  <2> QED BY ZenonT(60), <1>1, <2>2 DEF Based
<1> QED BY ZenonT(60), <1>1, <1>4, <1>5, <1>6, <1>7

\* The publication keeps the invariant: the store moves forward under what
\* engines, futures and editors hold.
LEMMA CommitsStep ==
    ASSUME EInv, NEW x \in Editors, EditCommits(x) PROVE EInv'
<1>1. EditTypeOK /\ TypeOK /\ IInv /\ EditLocal(x) /\ place[x] = "save"
  BY ZenonT(60) DEF EInv, IInv, EditCommits
<1>2. /\ stored' \in Record /\ stored'.inc = stored.inc /\ stored'.rev = stored.rev + 1
      /\ used' = used \cup {stored'.inc} /\ UNCHANGED <<grants, losses>>
      /\ losses = 0 => stored'.seq = stored.seq
  BY ZenonT(60), EditPublishes
<1>3. stored \in Record /\ stored # Missing /\ Based(x)
  BY ZenonT(60), EditOverCurrent
<1>4. /\ UNCHANGED <<canon, persisted, lease, debt, floor>>
      /\ UNCHANGED <<pc, kind, snap, was, cand, got, base, tries>>
      /\ UNCHANGED <<scope, within, expected, current, change, passes>>
      /\ answer' = [answer EXCEPT ![x] = stored']
      /\ place' = [place EXCEPT ![x] = "saved"]
  BY ZenonT(60) DEF EditCommits, Move, stateVars, opVars
<1>5. TypeOK'
  <2>1. stored'.inc \in Incarnations
    BY ZenonT(60), <1>2 DEF Record
  <2>2. used' \subseteq Incarnations
    BY ZenonT(60), <1>1, <1>2, <2>1 DEF TypeOK
  <2> QED BY ZenonT(60), <1>1, <1>2, <1>4, <2>2 DEF TypeOK
<1>6. EditTypeOK'
  <2>1. stored' \in Answers
    BY ZenonT(60), <1>2 DEF Answers
  <2> QED BY ZenonT(60), <1>1, <1>4, <1>5, <2>1 DEF EditTypeOK, EditPlaces
<1>7. OthersKept(x) /\ StatesLive /\ place'[x] = "saved" /\ answer'[x] = stored'
  BY ZenonT(60), <1>1, <1>4 DEF OthersKept, StatesLive, EditTypeOK
<1>8. \A y \in Editors : EditLocal(y)'
  <2>1. Based(x)'
    BY ZenonT(60), <1>3, <1>4 DEF Based
  <2>2. EditLocal(x)'
    BY ZenonT(60), <1>1, <1>2, <1>4, <1>7, <2>1 DEF EditLocal, Active
  <2> QED BY Zenon, <1>7, <2>2, LocalsKept DEF EInv
<1>9. LocalInv'
  <2>1. ASSUME NEW c \in Callers PROVE Local(c)'
    <3>1. Local(c)
      BY <1>1 DEF IInv, LocalInv
    <3>2. CandidateOK(c) => CandidateOK(c)'
      BY Zenon, <1>4 DEF CandidateOK
    <3> QED BY ZenonT(60), <1>4, <3>1, <3>2 DEF Local, Holding
  <2> QED BY <2>1 DEF LocalInv
<1>10. LeaseInv'
  BY Zenon, <1>1, <1>4 DEF IInv, LeaseInv, Holding
<1>11. ASSUME losses = 0
       PROVE  StoreOK' /\ Good \subseteq Good' /\ stored' \in Good'
  <2>1. StoreOK
    BY <1>1, <1>11 DEF IInv, StoreInv
  <2>2. /\ stored.rev \in Nat /\ stored.seq \in Nat
        /\ stored'.rev > 0 /\ stored'.rev > stored.rev /\ stored'.seq >= stored.seq
    <3>1. stored.rev \in Nat /\ stored.seq \in Nat
      BY Zenon, <1>3, RecordFields
    <3> QED BY Zenon, <1>2, <1>11, <3>1, Numbers
  <2>3. Good \subseteq Good' /\ stored' \in Good'
    BY ZenonT(60), <1>1, <1>2, <2>1, <2>2, Forward
  <2>4. StoreOK'
    BY ZenonT(60), <1>2, <1>3, <1>11, <2>1, <2>2, AnswerAssumption DEF StoreOK
  <2> QED BY <2>3, <2>4
<1>12. StoreInv'
  BY ZenonT(60), <1>1, <1>2, <1>4, <1>11 DEF IInv, StoreInv, Holds
<1>13. EditGood'
  <2> SUFFICES ASSUME losses = 0
               PROVE  current' \in [Editors -> Good'] /\ answer' \in [Editors -> Good']
    BY ZenonT(60), <1>2 DEF EditGood
  <2>1. current \in [Editors -> Good] /\ answer \in [Editors -> Good]
    BY DEF EInv, EditGood
  <2> QED BY ZenonT(60), <1>4, <1>11, <2>1
<1> QED BY Zenon, <1>5, <1>6, <1>8, <1>9, <1>10, <1>12, <1>13 DEF EInv, IInv

-----------------------------------------------------------------------------
(* The engines' steps.                                                     *)

\* A step of the engines, the futures or the store under the editors.
LEMMA EngineKeeps ==
    ASSUME EInv, EngineStep PROVE EInv'
<1>1. EditTypeOK /\ TypeOK /\ IInv /\ [Next]_vars
  BY DEF EInv, IInv, EngineStep
<1>2. IInv' /\ TypeOK'
  BY <1>1, StepIInv DEF IInv
<1>3. UNCHANGED <<place, within, expected, current, change, answer, passes>>
  BY DEF EngineStep, editVars
<1>4. scope' \in [Callers -> Scopes \cup {None}]
  <2>1. ASSUME NEW c \in Callers, base'[c] # None PROVE ScopeOf(base'[c]) \in Scopes
    BY ZenonT(60), <1>2, <2>1 DEF TypeOK, Record, ScopeOf, Scopes
  <2>2. scope' = [c \in Callers |-> CASE base'[c] = None -> None
                                      [] base'[c] # None /\ base[c] = None -> ScopeOf(base'[c])
                                      [] OTHER -> scope[c]]
    BY DEF EngineStep, TrackScopes
  <2>3. \A c \in Callers : scope[c] \in Scopes \cup {None}
    BY <1>1 DEF EditTypeOK
  <2>4. \A c \in Callers : (CASE base'[c] = None -> None
                              [] base'[c] # None /\ base[c] = None -> ScopeOf(base'[c])
                              [] OTHER -> scope[c]) \in Scopes \cup {None}
    BY <2>1, <2>3
  <2> QED BY ZenonT(60), <2>2, <2>4
<1>5. EditTypeOK'
  BY ZenonT(60), <1>1, <1>2, <1>3, <1>4 DEF EditTypeOK
<1>6. \A x \in Editors : EditLocal(x)'
  <2>1. ASSUME NEW x \in Editors PROVE EditLocal(x)'
    <3>1. Active(x)' => canon'[Home[x]] # None
      BY <1>3 DEF Active, EngineStep, StateKept
    <3>2. EditLocal(x)
      BY DEF EInv
    <3>3. Based(x) => Based(x)'
      BY ZenonT(60), <1>3 DEF Based
    <3> QED BY ZenonT(60), <1>3, <3>1, <3>2, <3>3 DEF EditLocal
  <2> QED BY <2>1
<1>7. EditGood'
  <2> SUFFICES ASSUME losses' = 0
               PROVE  current' \in [Editors -> Good'] /\ answer' \in [Editors -> Good']
    BY ZenonT(60) DEF EditGood
  <2>1. losses = 0
    BY Zenon, <1>1, LossesGrow DEF IInv
  <2>2. Good \subseteq Good'
    BY ZenonT(60), <1>1, <1>2, <2>1, StoreOKStep DEF IInv
  <2>3. current \in [Editors -> Good] /\ answer \in [Editors -> Good]
    BY <2>1 DEF EInv, EditGood
  <2> QED BY <1>3, <2>2, <2>3
<1> QED BY ZenonT(60), <1>2, <1>5, <1>6, <1>7 DEF EInv

-----------------------------------------------------------------------------
(* The invariant and what follows from it.                                 *)

\* The invariant holds before the first edit.
LEMMA InitEInv == EditInit => EInv
<1> SUFFICES ASSUME EditInit PROVE EInv
  OBVIOUS
<1>1. IInv /\ TypeOK
  BY InitIInv DEF EditInit, IInv
<1>2. EditTypeOK
  BY SMTT(90), <1>1, BoundsAssumption DEF EditInit, EditTypeOK, EditPlaces, Answers
<1>3. \A x \in Editors : EditLocal(x)
  BY ZenonT(60) DEF EditInit, EditLocal, Active
<1>4. EditGood
  <2>1. None \in Good
    BY AnswerAssumption DEF Good, Answers
  <2> QED BY <2>1 DEF EditInit, EditGood
<1> QED BY ZenonT(60), <1>1, <1>2, <1>3, <1>4 DEF EInv

\* Every step of an editor, an engine or the store keeps the invariant.
LEMMA StepEInv == EInv /\ [EditNext]_allVars => EInv'
<1> SUFFICES ASSUME EInv, [EditNext]_allVars PROVE EInv'
  OBVIOUS
<1>1. ASSUME NEW x \in Editors, EditPoll(x) PROVE EInv'
  BY ZenonT(60), <1>1, ReloadedStep, PassStep, IssueStep, QuietPasses, CommitsStep, SavedStep, FailsStep
  DEF EditPoll
<1>2. CASE UNCHANGED allVars
  <2>1. /\ UNCHANGED <<stored, used, grants, losses, canon, persisted, lease, debt, floor>>
        /\ UNCHANGED <<pc, kind, snap, was, cand, got, base, tries>>
        /\ UNCHANGED <<scope, place, within, expected, current, change, answer, passes>>
    BY ZenonT(60), <1>2 DEF allVars, editVars, vars, storeVars, stateVars, opVars
  <2>2. UNCHANGED vars
    BY <1>2 DEF allVars
  <2>3. IInv'
    BY <2>2, StepIInv DEF EInv
  <2>4. EditTypeOK'
    BY ZenonT(60), <2>1, <2>3 DEF EInv, IInv, EditTypeOK
  <2>5. \A x \in Editors : EditLocal(x)'
    <3>1. ASSUME NEW x \in Editors PROVE EditLocal(x)'
      <4>1. Based(x) => Based(x)'
        BY ZenonT(60), <2>1 DEF Based
      <4> QED BY ZenonT(60), <2>1, <4>1 DEF EInv, EditLocal, Active
    <3> QED BY <3>1
  <2>6. EditGood'
    <3>1. Good' = Good
      BY <2>1 DEF Good, Durable
    <3> QED BY ZenonT(60), <2>1, <3>1 DEF EInv, EditGood
  <2> QED BY ZenonT(60), <2>3, <2>4, <2>5, <2>6 DEF EInv
<1> QED BY ZenonT(60), <1>1, <1>2, EngineKeeps, ReadStep, ExchangeStep DEF EditNext

\* The invariant holds throughout.
THEOREM EditInvariance == EditSpec => []EInv
BY InitEInv, StepEInv, PTL DEF EditSpec

\* Scopes, editors and the engines under them keep their types.
THEOREM EditTypeCorrect == EditSpec => []EditTypeOK
<1>1. EInv => EditTypeOK
  BY DEF EInv
<1> QED BY <1>1, EditInvariance, PTL

\* The lease stays exclusive while editors save beside it (TurnLease).
THEOREM EditLeaseIsExclusive == EditSpec => []LeaseExclusive
<1>1. EInv => LeaseExclusive
  BY Zenon, LeaseFollows DEF EInv
<1> QED BY <1>1, EditInvariance, PTL

\* No turn sequence is durably reserved twice, though an edit saves the allocator
\* position it found (TurnMetadata::compare_exchange).
THEOREM EditTurnsAreUnique == EditSpec => []UniqueTurns
<1>1. EInv => UniqueTurns
  BY Zenon DEF EInv, IInv, StoreInv, StoreOK, UniqueTurns
<1> QED BY <1>1, EditInvariance, PTL

\* Only the publication of its edit takes an editor from "save" to "saved" over
\* a changed store.
LEMMA PublishedIsCommit ==
    ASSUME EInv, [EditNext]_allVars, NEW x \in Editors, Published(x)
    PROVE  EditCommits(x)
<1>1. EditTypeOK
  BY DEF EInv
<1>2. place[x] = "save" /\ place'[x] = "saved" /\ stored' # stored
  BY ZenonT(60) DEF Published
<1>3. ASSUME NEW y \in Editors, NEW to \in EditPlaces, place' = [place EXCEPT ![y] = to]
      PROVE  y = x /\ to = "saved"
  BY ZenonT(60), <1>1, <1>2, <1>3 DEF EditTypeOK
<1>4. ~UNCHANGED allVars /\ ~EngineStep
  BY ZenonT(60), <1>2 DEF allVars, editVars, EngineStep
<1>5. ASSUME NEW y \in Editors, NEW c \in Callers, read_entry(y, c) PROVE FALSE
  <2>1. place' = [place EXCEPT ![y] = "loaded"]
    BY Zenon, <1>5 DEF read_entry, Move
  <2> QED BY ZenonT(60), <1>3, <2>1 DEF EditPlaces
<1>6. ASSUME NEW y \in Editors, NEW v \in Values, compare_exchange(y, v) PROVE FALSE
  <2>1. place' = [place EXCEPT ![y] = "loaded"] \/ place' = [place EXCEPT ![y] = "pass"]
    BY <1>6 DEF compare_exchange, Move
  <2> QED BY <1>3, <2>1 DEF EditPlaces
<1>7. ASSUME NEW y \in Editors, EditPoll(y) PROVE EditCommits(x)
  <2>1. CASE EditReloaded(y)
    <3>1. UNCHANGED storeVars
      BY ZenonT(60), <2>1 DEF EditReloaded
    <3> QED BY ZenonT(60), <1>2, <3>1 DEF storeVars
  <2>2. CASE EditIssue(y) \/ EditSaved(y) \/ EditFails(y)
    <3>1. UNCHANGED storeVars
      BY ZenonT(60), <2>2 DEF EditIssue, EditSaved, EditFails
    <3> QED BY <1>2, <3>1 DEF storeVars
  <2>3. CASE EditPass(y) \/ EditStale(y) \/ EditConflicts(y) \/ EditConflicted(y)
    <3>1. UNCHANGED vars
      BY ZenonT(60), <2>3 DEF EditPass, EditStale, EditConflicts, EditConflicted
    <3> QED BY <1>2, <3>1 DEF vars, storeVars
  <2>4. CASE EditCommits(y)
    <3>1. place' = [place EXCEPT ![y] = "saved"]
      BY <2>4 DEF EditCommits, Move
    <3> QED BY Zenon, <1>3, <2>4, <3>1 DEF EditPlaces
  <2> QED BY ZenonT(60), <1>7, <2>1, <2>2, <2>3, <2>4 DEF EditPoll
<1> QED BY ZenonT(60), <1>4, <1>5, <1>6, <1>7 DEF EditNext

\* An exchange replaces exactly the entry that was read, over the record of its
\* own turn (TurnMetadata::compare_exchange).
THEOREM EditsKeepTheirRest == EditSpec => EditsKeepTheRest
<1> DEFINE Kept(x) ==
             /\ stored # Missing
             /\ losses = 0 =>
                   /\ ScopeOf(stored) = within[x]
                   /\ stored.meta = expected[x].meta
                   /\ stored' = [stored EXCEPT !.meta = change[x].meta, !.rev = @ + 1]
<1>1. ASSUME EInv, [EditNext]_allVars, NEW x \in Editors, Published(x) PROVE Kept(x)
  <2>1. EditCommits(x)
    BY ZenonT(60), <1>1, PublishedIsCommit
  <2>2. /\ stored \in Record /\ Based(x) /\ stored # Missing
        /\ losses = 0 => stored = current[x]
    BY ZenonT(60), <1>1, <2>1, EditOverCurrent
  <2>3. stored' = At(change[x], stored.rev + 1)
    BY ZenonT(60), <1>1, <2>1, EditPublishes
  <2>4. losses = 0 => stored' = [stored EXCEPT !.meta = change[x].meta, !.rev = @ + 1]
    <3> SUFFICES ASSUME losses = 0
                 PROVE  stored' = [stored EXCEPT !.meta = change[x].meta, !.rev = @ + 1]
      OBVIOUS
    <3>1. change[x] = [stored EXCEPT !.meta = change[x].meta]
      BY <2>2 DEF Based
    <3>2. stored' = [[stored EXCEPT !.meta = change[x].meta] EXCEPT !.rev = stored.rev + 1]
      BY ZenonT(60), <2>3, <3>1 DEF At
    <3> QED BY <2>2, <3>2 DEF Record
  <2> QED BY ZenonT(60), <2>2, <2>4 DEF Based
<1>2. ASSUME EInv, [EditNext]_allVars
      PROVE  [\A x \in Editors : Published(x) => Kept(x)]_allVars
  BY ZenonT(60), <1>1, <1>2
<1>3. EditsKeepTheRest <=> [][\A x \in Editors : Published(x) => Kept(x)]_allVars
  BY DEF EditsKeepTheRest
<1> QED BY <1>2, <1>3, EditInvariance, PTL DEF EditSpec

\* Only reload and reconcile_saved replace a canonical record for an editor, and
\* both look first.
LEMMA EditAdvances ==
    ASSUME EInv, [EditNext]_allVars, NEW e \in Engines PROVE Advances(e)
<1>1. TypeOK
  BY DEF EInv, IInv
<1>2. ASSUME NEW x \in Editors, EditReloaded(x) PROVE Advances(e)
  <2>1. CASE e = Home[x] /\ LoadAcceptable(e, answer[x])
    BY ZenonT(60), <1>1, <1>2, <2>1 DEF EditReloaded, reconcile_loaded, LoadAcceptable, Advances, TypeOK
  <2>2. CASE ~(e = Home[x] /\ LoadAcceptable(e, answer[x]))
    <3>1. canon'[e] = canon[e]
      BY ZenonT(60), <1>1, <1>2, <2>2 DEF EditReloaded, reconcile_loaded, TypeOK
    <3> QED BY ZenonT(60), CanonKept, <1>1, <3>1
  <2> QED BY Zenon, <2>1, <2>2
<1>3. ASSUME NEW x \in Editors, EditSaved(x) PROVE Advances(e)
  <2>1. CASE e = Home[x] /\ canon[e].rev <= answer[x].rev
    BY ZenonT(60), <1>1, <1>3, <2>1 DEF EditSaved, reconcile_saved, SaveAcceptable, Advances, TypeOK
  <2>2. CASE ~(e = Home[x] /\ canon[e].rev <= answer[x].rev)
    <3>1. canon'[e] = canon[e]
      BY ZenonT(60), <1>1, <1>3, <2>2 DEF EditSaved, reconcile_saved, TypeOK
    <3> QED BY CanonKept, <1>1, <3>1
  <2> QED BY ZenonT(60), <2>1, <2>2
<1>4. CASE UNCHANGED canon
  BY ZenonT(60), CanonKept, <1>1, <1>4
<1>5. ASSUME NEW x \in Editors,
             \/ EditPass(x) \/ EditIssue(x) \/ EditStale(x) \/ EditCommits(x)
             \/ EditConflicts(x) \/ EditConflicted(x) \/ EditFails(x)
      PROVE  UNCHANGED canon
  BY ZenonT(60), <1>5 DEF EditPass, EditIssue, EditStale, EditCommits, EditConflicts, EditConflicted,
                     EditFails, vars, stateVars
<1>6. ASSUME NEW x \in Editors,
             \/ \E c \in Callers : read_entry(x, c)
             \/ \E v \in Values : compare_exchange(x, v)
      PROVE  UNCHANGED canon
  BY ZenonT(60), <1>6 DEF read_entry, compare_exchange, vars, stateVars
<1>7. CASE EngineStep \/ UNCHANGED allVars
  <2>1. [Next]_vars
    BY ZenonT(60), <1>7 DEF EngineStep, allVars
  <2> QED BY <1>1, <2>1, CanonAdvances
<1> QED BY Zenon, <1>2, <1>3, <1>4, <1>5, <1>6, <1>7 DEF EditNext, EditPoll

\* No canonical record rewinds when an editor reconciles it either (reload, the
\* reconcile_saved of a confirmed edit).
THEOREM EditsNeverRewind == EditSpec => CanonicalMonotone
<1>1. ASSUME EInv, [EditNext]_allVars PROVE [\A e \in Engines : Advances(e)]_vars
  BY Zenon, <1>1, EditAdvances
<1>2. CanonicalMonotone <=> [][\A e \in Engines : Advances(e)]_vars
  BY DEF CanonicalMonotone, Advances
<1> QED BY <1>1, <1>2, EditInvariance, PTL DEF EditSpec

-----------------------------------------------------------------------------
(* What a save changes, and the promise of the store.                      *)

\* What the candidate of c leaves as its snapshot has it.
Touches(c) ==
    /\ kind[c] \notin Arming => cand[c].meta = snap[c].meta
    /\ kind[c] = "update" => cand[c].msgs = snap[c].msgs
    /\ Keeps(cand[c].msgs, snap[c].msgs)

\* A future that replaces has its own placeholder last, and one that is about to
\* save touches only what is its own.
Touched(c) ==
    /\ kind[c] = "replace" => base[c].msgs[Len(base[c].msgs)] = Said(c, "unknown")
    /\ pc[c] \in {"issue", "save"} => Touches(c)

TouchInv == \A c \in Callers : Touched(c)

\* Future c does not move.
SameFuture(c) ==
    /\ pc'[c] = pc[c] /\ kind'[c] = kind[c] /\ snap'[c] = snap[c] /\ was'[c] = was[c]
    /\ cand'[c] = cand[c] /\ got'[c] = got[c] /\ base'[c] = base[c]

\* Only future c moves.
OnlyFuture(c) == \A d \in Callers \ {c} : SameFuture(d)

\* A transcript keeps itself.
LEMMA KeepsItself == ASSUME NEW s \in Seq(Messages) PROVE Keeps(s, s)
<1>1. Len(s) \in Nat /\ Len(s) >= Len(s)
  OBVIOUS
<1> QED BY Zenon, <1>1 DEF Keeps

\* A longer transcript keeps the shorter.
LEMMA KeepsLonger ==
    ASSUME NEW s \in Seq(Messages), NEW m \in Messages PROVE Keeps(Append(s, m), s)
<1>1. Len(Append(s, m)) >= Len(s) /\ \A i \in 1..Len(s) : Append(s, m)[i] = s[i]
  OBVIOUS
<1> QED BY Zenon, <1>1 DEF Keeps

\* Putting an element in its place does not change a length.
LEMMA PutLength ==
    ASSUME NEW S, NEW s \in Seq(S), NEW n \in 1..Len(s), NEW x
    PROVE  Len([s EXCEPT ![n] = x]) = Len(s) /\ Len([s EXCEPT ![n] = x]) >= Len(s)
OBVIOUS

\* A placeholder that got its result is kept.
LEMMA KeepsReplaced ==
    ASSUME NEW s \in Seq(Messages), NEW c \in Callers, s # <<>>, s[Len(s)] = Said(c, "unknown")
    PROVE  Keeps([s EXCEPT ![Len(s)] = Said(c, "result")], s)
<1> DEFINE t == [s EXCEPT ![Len(s)] = Said(c, "result")]
<1>1. Len(s) \in 1..Len(s) /\ DOMAIN s = 1..Len(s)
  OBVIOUS
<1>2. Len(t) = Len(s) /\ Len(t) >= Len(s)
  BY Zenon, <1>1, PutLength
<1>3. /\ \A i \in 1..Len(s) : i # Len(s) => t[i] = s[i]
      /\ t[Len(s)] = Said(c, "result")
  BY Zenon, <1>1
<1>4. s[Len(s)].what = "unknown" /\ s[Len(s)].by = c
  BY DEF Said
<1> HIDE DEF t
<1>5. \A i \in 1..Len(s) : t[i] = s[i] \/ (s[i].what = "unknown" /\ t[i] = Said(s[i].by, "result"))
  BY Zenon, <1>3, <1>4
<1>6. Keeps(t, s)
  BY Zenon, <1>2, <1>5 DEF Keeps
<1> QED BY Zenon, <1>6 DEF t

\* A candidate keeps the transcript it was made over, and only the operations that
\* edit metadata change it (update_metadata, reserve_turn_and_prompt, commit_messages,
\* replace_message).
LEMMA CandidateTouches ==
    ASSUME NEW c \in Callers, NEW r \in Record, NEW m,
           kind[c] \in (Leased \cup Committing) \ {"check"},
           kind[c] = "replace" => r.msgs # <<>> /\ r.msgs[Len(r.msgs)] = Said(c, "unknown")
    PROVE  /\ kind[c] \notin Arming => Candidate(c, r, m).meta = r.meta
           /\ kind[c] = "update" => Candidate(c, r, m).msgs = r.msgs
           /\ Keeps(Candidate(c, r, m).msgs, r.msgs)
<1> DEFINE u == Append(r.msgs, Said(c, "user"))
           k == Append(r.msgs, Said(c, "unknown"))
           p == [r.msgs EXCEPT ![Len(r.msgs)] = Said(c, "result")]
<1>1. r.msgs \in Seq(Messages)
  BY DEF Record
<1>2. \A w \in {"user", "unknown", "result"} : Said(c, w) \in Messages
  BY DEF Said, Messages
<1>3. /\ Keeps(r.msgs, r.msgs) /\ Keeps(u, r.msgs) /\ Keeps(k, r.msgs)
      /\ kind[c] = "replace" => Keeps(p, r.msgs)
  BY Zenon, <1>1, <1>2, KeepsItself, KeepsLonger, KeepsReplaced
<1>4. CASE kind[c] = "update"
  <2>1. Candidate(c, r, m) = [r EXCEPT !.meta = m]
    BY SMTT(30), <1>4 DEF Candidate, Prepared, Reserving
  <2>2. Candidate(c, r, m).msgs = r.msgs
    BY Zenon, <2>1 DEF Record
  <2> QED BY Zenon, <1>3, <1>4, <2>2 DEF Arming
<1>5. CASE kind[c] \in Reserving \cup Prepared
  <2>1. Reserve(c, r) = [r EXCEPT !.seq = r.seq + 1,
                                  !.msgs = IF kind[c] \in {"prompt", "prepared"} THEN u ELSE r.msgs]
    BY DEF Reserve, Record
  <2> HIDE DEF u
  <2>2. Reserve(c, r).meta = r.meta /\ Reserve(c, r).msgs \in {u, r.msgs}
    BY Zenon, <2>1 DEF Record
  <2>3. CASE kind[c] \in Prepared
    <3>1. Candidate(c, r, m) = [Reserve(c, r) EXCEPT !.meta = m]
      BY <2>3 DEF Candidate, Prepared, Reserving
    <3>2. Candidate(c, r, m).msgs = Reserve(c, r).msgs
      BY Zenon, <2>1, <3>1 DEF Record
    <3> QED BY Zenon, <1>3, <2>2, <2>3, <3>2 DEF Arming, Prepared
  <2>4. CASE kind[c] \in Reserving
    <3>1. Candidate(c, r, m) = Reserve(c, r)
      BY <2>4 DEF Candidate, Prepared, Reserving
    <3> QED BY Zenon, <1>3, <2>2, <2>4, <3>1 DEF Reserving
  <2> QED BY Zenon, <1>5, <2>3, <2>4
<1>6. CASE kind[c] = "append"
  <2>1. Candidate(c, r, m) = [r EXCEPT !.msgs = k]
    BY <1>6 DEF Candidate, Prepared, Reserving, Record
  <2> HIDE DEF k
  <2>2. Candidate(c, r, m).meta = r.meta /\ Candidate(c, r, m).msgs = k
    BY Zenon, <2>1 DEF Record
  <2> QED BY Zenon, <1>3, <1>6, <2>2
<1>7. CASE kind[c] = "replace"
  <2>1. Candidate(c, r, m) = [r EXCEPT !.msgs = p]
    BY <1>7 DEF Candidate, Prepared, Reserving, Record
  <2> HIDE DEF p
  <2>2. Candidate(c, r, m).meta = r.meta /\ Candidate(c, r, m).msgs = p
    BY Zenon, <2>1 DEF Record
  <2> QED BY Zenon, <1>3, <1>7, <2>2
<1> QED BY Zenon, <1>4, <1>5, <1>6, <1>7 DEF Leased, Committing

\* A future that leaves.
LEMMA LeaveAlone ==
    ASSUME TypeOK, NEW c \in Callers, Leave(c)
    PROVE  OnlyFuture(c) /\ pc'[c] = "idle" /\ kind'[c] = "check" /\ base'[c] = None
BY ZenonT(60) DEF TypeOK, Leave, Forget, Goto, OnlyFuture, SameFuture

\* One more pass of its loop, if it has one left.
LEMMA RetryAlone ==
    ASSUME TypeOK, NEW c \in Callers, Retry(c)
    PROVE  /\ OnlyFuture(c)
           /\ \/ pc'[c] = "snapshot" /\ kind'[c] = kind[c] /\ base'[c] = base[c] /\ UNCHANGED lease
              \/ End(c)
<1>1. CASE End(c)
  BY Zenon, <1>1, LeaveAlone DEF End
<1>2. CASE Goto(c, "snapshot") /\ Forget(c) /\ UNCHANGED <<kind, base, lease>>
  <2>1. OnlyFuture(c) /\ pc'[c] = "snapshot"
    BY ZenonT(60), <1>2 DEF TypeOK, Forget, Goto, OnlyFuture, SameFuture
  <2> QED BY Zenon, <1>2, <2>1
<1> QED BY Zenon, <1>1, <1>2 DEF Retry

\* The steps with which a future ends.
Ends(c) ==
    \/ ReconcileFailed(c) \/ SnapshotEnds(c) \/ SaveAmbiguous(c) \/ SaveErrors(c) \/ SaveFailed(c)
    \/ ConflictFailed(c) \/ LoadRejected(c) \/ LoadRegistered(c) \/ DropFuture(c) \/ TurnEnds(c)
    \/ kind[c] = "update" /\ Saved(c)
    \/ kind[c] \in Arming /\ IssueStale(c)

\* All of them leave nothing of the operation behind.
LEMMA EndsLeave == ASSUME NEW c \in Callers, Ends(c) PROVE Leave(c)
BY ZenonT(60) DEF Ends, ReconcileFailed, SnapshotEnds, SaveAmbiguous, SaveErrors, SaveFailed, ConflictFailed,
   LoadRejected, LoadRegistered, DropFuture, TurnEnds, Saved, IssueStale, End

\* The steps with which it takes another pass, or ends for want of one.
Passes(c) == ConflictMissing(c) \/ ConflictReloaded(c) \/ (kind[c] \notin Arming /\ IssueStale(c))

\* They count the pass.
LEMMA PassesRetry == ASSUME NEW c \in Callers, Passes(c) PROVE Retry(c)
BY ZenonT(60) DEF Passes, ConflictMissing, ConflictReloaded, IssueStale

\* The steps with which it goes on.
LEMMA GoesOn ==
    ASSUME TypeOK, NEW c \in Callers
    PROVE  /\ Reload(c) => OnlyFuture(c) /\ pc'[c] = "reloaded"
           /\ Reconciled(c) => OnlyFuture(c) /\ pc'[c] = "snapshot"
           /\ SaveCommits(c) => OnlyFuture(c) /\ pc'[c] = "saved" /\ got'[c] = stored'
           /\ SaveConflicts(c) => OnlyFuture(c) /\ pc'[c] = "saved" /\ got'[c] = Conflict
           /\ Conflicted(c) => OnlyFuture(c) /\ pc'[c] = "conflicted"
           /\ Issue(c) => OnlyFuture(c) /\ pc'[c] = "save"
           /\ Snapshot(c) => OnlyFuture(c) /\ pc'[c] = "issue"
<1> USE DEF TypeOK, OnlyFuture, SameFuture, Goto, Forget, opVars
<1>1. Reload(c) => OnlyFuture(c) /\ pc'[c] = "reloaded"
  BY ZenonT(60) DEF Reload
<1>2. Reconciled(c) => OnlyFuture(c) /\ pc'[c] = "snapshot"
  BY ZenonT(60) DEF Reconciled
<1>3. SaveCommits(c) => OnlyFuture(c) /\ pc'[c] = "saved" /\ got'[c] = stored'
  BY ZenonT(60) DEF SaveCommits
<1>4. SaveConflicts(c) => OnlyFuture(c) /\ pc'[c] = "saved" /\ got'[c] = Conflict
  BY ZenonT(60) DEF SaveConflicts
<1>5. Conflicted(c) => OnlyFuture(c) /\ pc'[c] = "conflicted"
  BY ZenonT(60) DEF Conflicted
<1>6. Issue(c) => OnlyFuture(c) /\ pc'[c] = "save"
  BY ZenonT(60) DEF Issue
<1>7. Snapshot(c) => OnlyFuture(c) /\ pc'[c] = "issue"
  BY ZenonT(60) DEF Snapshot
<1> QED BY Zenon, <1>1, <1>2, <1>3, <1>4, <1>5, <1>6, <1>7

\* The steps with which it begins, or becomes a live turn.
LEMMA Begins ==
    ASSUME TypeOK, NEW c \in Callers
    PROVE  /\ \A k \in Operations : Admit(c, k) => OnlyFuture(c) /\ pc'[c] \in {"reload", "snapshot"} /\ kind'[c] \in Leased
           /\ \A k \in Operations : LoadBegin(c, k) => OnlyFuture(c) /\ pc'[c] = "loaded" /\ kind'[c] \in Loading
           /\ \A k \in Operations : CommitBegin(c, k) => OnlyFuture(c) /\ pc'[c] = "snapshot" /\ kind'[c] = k
           /\ kind[c] # "update" /\ Saved(c)
                => OnlyFuture(c) /\ pc'[c] = "turn" /\ kind'[c] = "append" /\ base'[c] = got[c]
<1> USE DEF TypeOK, OnlyFuture, SameFuture, Goto, Forget
<1>1. ASSUME NEW k \in Operations, Admit(c, k)
      PROVE  OnlyFuture(c) /\ pc'[c] \in {"reload", "snapshot"} /\ kind'[c] \in Leased
  BY ZenonT(60), <1>1 DEF Admit
<1>2. ASSUME NEW k \in Operations, LoadBegin(c, k)
      PROVE  OnlyFuture(c) /\ pc'[c] = "loaded" /\ kind'[c] \in Loading
  BY ZenonT(60), <1>2 DEF LoadBegin
<1>3. ASSUME NEW k \in Operations, CommitBegin(c, k)
      PROVE  OnlyFuture(c) /\ pc'[c] = "snapshot" /\ kind'[c] = k
  BY ZenonT(60), <1>3 DEF CommitBegin
<1>4. ASSUME kind[c] # "update", Saved(c)
      PROVE  OnlyFuture(c) /\ pc'[c] = "turn" /\ kind'[c] = "append" /\ base'[c] = got[c]
  <2>1. /\ base' = [base EXCEPT ![c] = got[c]] /\ Forget(c) /\ kind' = [kind EXCEPT ![c] = "append"]
        /\ Goto(c, "turn")
    BY Zenon, <1>4 DEF Saved
  <2> QED BY ZenonT(60), <2>1
<1> QED BY Zenon, <1>1, <1>2, <1>3, <1>4

\* A step of one future keeps what the others touch.
LEMMA TouchFrame ==
    ASSUME TouchInv, NEW c \in Callers, OnlyFuture(c), Touched(c)' PROVE TouchInv'
<1>1. ASSUME NEW d \in Callers, d # c PROVE Touched(d)'
  <2>1. /\ pc'[d] = pc[d] /\ kind'[d] = kind[d] /\ snap'[d] = snap[d]
        /\ cand'[d] = cand[d] /\ base'[d] = base[d]
    BY Zenon, <1>1 DEF OnlyFuture, SameFuture
  <2>2. Touched(d)
    BY Zenon DEF TouchInv
  <2> QED BY Zenon, <2>1, <2>2 DEF Touched, Touches
<1> QED BY Zenon, <1>1 DEF TouchInv

\* A snapshot builds a candidate that touches only its own.
LEMMA SnapshotTouches ==
    ASSUME TypeOK, LocalInv, TouchInv, NEW c \in Callers, Snapshot(c) PROVE Touched(c)'
<1> DEFINE r == canon[Owner[c]]
<1>1. PICK m : cand' = [cand EXCEPT ![c] = Candidate(c, r, m)]
  BY Zenon DEF Snapshot
<1>2. kind'[c] = kind[c] /\ base'[c] = base[c] /\ snap'[c] = r /\ cand'[c] = Candidate(c, r, m)
  BY ZenonT(60), <1>1 DEF Snapshot, TypeOK
<1>3. Owner[c] \in Engines
  BY OwnerAssumption
<1>4. r \in Record /\ kind[c] \in (Leased \cup Committing) \ {"check"}
  <2>1. r # None /\ kind[c] \notin Loading
    BY Zenon DEF LocalInv, Local, Snapshot, Holding
  <2>2. kind[c] \in Kinds /\ r \in Record \cup {None}
    BY Zenon, <1>3 DEF TypeOK
  <2> QED BY Zenon, <2>1, <2>2 DEF Snapshot, Buildable, Kinds
<1>5. kind[c] = "replace" => r.msgs # <<>> /\ r.msgs[Len(r.msgs)] = Said(c, "unknown")
  <2>1. kind[c] = "replace" => r.msgs = base[c].msgs
    BY Zenon DEF Snapshot, Buildable, Committing
  <2>2. kind[c] = "replace" => base[c].msgs # <<>>
    BY Zenon DEF LocalInv, Local
  <2>3. kind[c] = "replace" => base[c].msgs[Len(base[c].msgs)] = Said(c, "unknown")
    BY Zenon DEF TouchInv, Touched
  <2> QED BY Zenon, <2>1, <2>2, <2>3
<1> HIDE DEF r
<1>6. /\ kind[c] \notin Arming => Candidate(c, r, m).meta = r.meta
      /\ kind[c] = "update" => Candidate(c, r, m).msgs = r.msgs
      /\ Keeps(Candidate(c, r, m).msgs, r.msgs)
  BY Zenon, <1>4, <1>5, CandidateTouches
<1>7. Touches(c)'
  BY Zenon, <1>2, <1>6 DEF Touches
<1>8. kind[c] = "replace" => base[c].msgs[Len(base[c].msgs)] = Said(c, "unknown")
  BY Zenon DEF TouchInv, Touched
<1> QED BY Zenon, <1>2, <1>7, <1>8 DEF Touched

\* A poll keeps it.
LEMMA PollTouches ==
    ASSUME TypeOK, LocalInv, TouchInv, NEW c \in Callers, Poll(c) PROVE TouchInv'
<1> SUFFICES OnlyFuture(c) /\ Touched(c)'
  BY Zenon, TouchFrame
<1>1. Touched(c)
  BY Zenon DEF TouchInv
<1>2. CASE Ends(c)
  BY Zenon, <1>2, EndsLeave, LeaveAlone DEF Touched
<1>3. CASE Passes(c)
  <2>1. Retry(c)
    BY Zenon, <1>3, PassesRetry
  <2>2. CASE End(c)
    BY Zenon, <2>2, LeaveAlone DEF Touched, End
  <2>3. CASE pc'[c] = "snapshot" /\ kind'[c] = kind[c] /\ base'[c] = base[c]
    <3>1. Touched(c)'
      BY Zenon, <1>1, <2>3 DEF Touched
    <3> QED BY Zenon, <2>1, <3>1, RetryAlone
  <2> QED BY Zenon, <2>1, <2>2, <2>3, RetryAlone
<1>4. CASE Reload(c) \/ Reconciled(c) \/ SaveCommits(c) \/ SaveConflicts(c) \/ Conflicted(c)
  <2>1. kind' = kind /\ base' = base
    BY ZenonT(60), <1>4 DEF Reload, Reconciled, SaveCommits, SaveConflicts, Conflicted
  <2>2. OnlyFuture(c) /\ pc'[c] \notin {"issue", "save"}
    BY ZenonT(60), <1>4, GoesOn
  <2> QED BY Zenon, <1>1, <2>1, <2>2 DEF Touched
<1>5. CASE Issue(c)
  <2>1. kind' = kind /\ base' = base /\ snap' = snap /\ cand' = cand /\ pc[c] = "issue"
    BY ZenonT(60), <1>5 DEF Issue
  <2>2. Touches(c)'
    BY Zenon, <1>1, <2>1 DEF Touched, Touches
  <2>3. OnlyFuture(c)
    BY Zenon, <1>5, GoesOn
  <2> QED BY Zenon, <1>1, <2>1, <2>2, <2>3 DEF Touched
<1>6. CASE Snapshot(c)
  BY Zenon, <1>6, GoesOn, SnapshotTouches
<1>7. CASE kind[c] # "update" /\ Saved(c)
  <2>1. OnlyFuture(c) /\ pc'[c] = "turn" /\ kind'[c] = "append"
    BY Zenon, <1>7, Begins
  <2> QED BY Zenon, <2>1 DEF Touched
<1> QED BY ZenonT(60), <1>2, <1>3, <1>4, <1>5, <1>6, <1>7 DEF Poll, Ends, Passes

\* And so does the host.
LEMMA HostTouches ==
    ASSUME TypeOK, LocalInv, TouchInv, NEW c \in Callers, Host(c) PROVE TouchInv'
<1> SUFFICES OnlyFuture(c) /\ Touched(c)'
  BY Zenon, TouchFrame
<1>1. CASE DropFuture(c) \/ TurnEnds(c)
  BY Zenon, <1>1, EndsLeave, LeaveAlone DEF Ends, Touched
<1>2. ASSUME NEW k \in Operations, Admit(c, k) PROVE OnlyFuture(c) /\ Touched(c)'
  <2>1. OnlyFuture(c) /\ pc'[c] \in {"reload", "snapshot"} /\ kind'[c] \in Leased
    BY Zenon, <1>2, Begins
  <2>2. kind'[c] # "replace"
    BY Zenon, <2>1 DEF Leased, Reserving, Prepared
  <2> QED BY Zenon, <2>1, <2>2 DEF Touched
<1>3. ASSUME NEW k \in Operations, LoadBegin(c, k) PROVE OnlyFuture(c) /\ Touched(c)'
  <2>1. OnlyFuture(c) /\ pc'[c] = "loaded" /\ kind'[c] \in Loading
    BY Zenon, <1>3, Begins
  <2> QED BY Zenon, <2>1 DEF Touched, Loading
<1>4. ASSUME NEW k \in Operations, CommitBegin(c, k) PROVE OnlyFuture(c) /\ Touched(c)'
  <2>1. OnlyFuture(c) /\ pc'[c] = "snapshot" /\ kind'[c] = k
    BY Zenon, <1>4, Begins
  <2>2. base' = base /\ (k = "replace" => base[c].msgs[Len(base[c].msgs)] = Said(c, "unknown"))
    BY Zenon, <1>4 DEF CommitBegin
  <2> QED BY Zenon, <2>1, <2>2 DEF Touched
<1> QED BY Zenon, <1>1, <1>2, <1>3, <1>4 DEF Host

\* Every step keeps what the futures touch.
LEMMA TouchStep == TypeOK /\ LocalInv /\ TouchInv /\ [Next]_vars => TouchInv'
<1> SUFFICES ASSUME TypeOK, LocalInv, TouchInv, [Next]_vars PROVE TouchInv'
  BY Zenon
<1>1. ASSUME UNCHANGED opVars PROVE TouchInv'
  <2>1. UNCHANGED <<pc, kind, snap, cand, base>>
    BY Zenon, <1>1 DEF opVars
  <2> QED BY Zenon, <2>1 DEF TouchInv, Touched, Touches
<1>2. UNCHANGED vars => UNCHANGED opVars
  BY Zenon DEF vars
<1>3. ASSUME NEW e \in Engines, DropState(e) PROVE UNCHANGED opVars
  BY Zenon, <1>3 DEF DropState
<1>4. ASSUME NEW e \in Engines, NEW i \in Incarnations, create_session(e, i) PROVE UNCHANGED opVars
  BY Zenon, <1>4 DEF create_session
<1>5. ASSUME NEW i \in Incarnations, publish_initial_record(i) \/ reset_record(i) PROVE UNCHANGED opVars
  BY Zenon, <1>5 DEF publish_initial_record, reset_record
<1>6. LoseRecord => UNCHANGED opVars
  BY Zenon DEF LoseRecord
<1> QED BY Zenon, <1>1, <1>2, <1>3, <1>4, <1>5, <1>6, PollTouches, HostTouches DEF Next

\* A save publishes its candidate under the next revision.
LEMMA SaveTouches ==
    ASSUME TypeOK, LocalInv, TouchInv, StoreInv, losses = 0, NEW c \in Callers, SaveEffect(c), stored # Missing
    PROVE  /\ kind[c] \notin Arming => stored'.meta = stored.meta
           /\ kind[c] = "update" => stored'.msgs = stored.msgs
           /\ stored'.seq = stored.seq + (IF kind[c] \in Reserving \cup Prepared THEN 1 ELSE 0)
           /\ Keeps(stored'.msgs, stored.msgs)
<1> DEFINE n == NextRevision(stored, cand[c])
<1>1. stored = snap[c]
  BY Zenon, SaveSeesSnapshot
<1>2. pc[c] = "save" /\ stored' = At(cand[c], n)
  BY Zenon DEF SaveEffect, Publish
<1>3. cand[c] \in Record /\ CandidateOK(c)
  BY Zenon, <1>2 DEF LocalInv, Local, TypeOK
<1> HIDE DEF n
<1>4. stored'.meta = cand[c].meta /\ stored'.msgs = cand[c].msgs /\ stored'.seq = cand[c].seq
  BY Zenon, <1>2, <1>3 DEF At, Record
<1>5. Touches(c)
  BY Zenon, <1>2 DEF TouchInv, Touched
<1>6. stored'.seq = stored.seq + (IF kind[c] \in Reserving \cup Prepared THEN 1 ELSE 0)
  <2>1. snap[c].seq \in Nat
    BY <1>1, RecordFields DEF TypeOK
  <2>2. /\ kind[c] \in Reserving \cup Prepared => cand[c].seq = snap[c].seq + 1
        /\ kind[c] \notin Reserving \cup Prepared => cand[c].seq = snap[c].seq
    BY Zenon, <1>3 DEF CandidateOK
  <2> QED BY <1>1, <1>4, <2>1, <2>2
<1>7. /\ kind[c] \notin Arming => stored'.meta = stored.meta
      /\ kind[c] = "update" => stored'.msgs = stored.msgs
      /\ Keeps(stored'.msgs, stored.msgs)
  BY Zenon, <1>1, <1>4, <1>5 DEF Touches
<1> QED BY Zenon, <1>6, <1>7

\* Whatever changes the record of an incarnation keeps its transcript.
LEMMA TranscriptKept ==
    ASSUME IInv, TouchInv, losses = 0, [Next]_vars,
           stored # Missing, stored' # Missing, stored'.inc = stored.inc
    PROVE  Keeps(stored'.msgs, stored.msgs)
<1>1. CASE UNCHANGED storeVars
  <2>1. stored' = stored /\ stored.msgs \in Seq(Messages)
    BY Zenon, <1>1 DEF IInv, TypeOK, storeVars, Record
  <2> QED BY Zenon, <2>1, KeepsItself
<1>2. ASSUME NEW c \in Callers, SaveEffect(c) PROVE Keeps(stored'.msgs, stored.msgs)
  BY Zenon, <1>2, SaveTouches DEF IInv
<1>3. ASSUME NEW i \in Incarnations, reset_record(i) PROVE FALSE
  <2>1. stored'.inc = i
    BY Zenon, <1>3 DEF reset_record, Publish, At, empty
  <2>2. stored.inc \in used
    BY Zenon DEF IInv, StoreInv, StoreOK
  <2> QED BY Zenon, <1>3, <2>1, <2>2 DEF reset_record, Fresh
<1>4. \A i \in Incarnations : ~publish_initial_record(i)
  BY Zenon DEF publish_initial_record
<1>5. ~LoseRecord
  BY Zenon DEF LoseRecord
<1> QED BY Zenon, <1>1, <1>2, <1>3, <1>4, <1>5, StoreMoves

\* A save changes only what its operation is about: an edit keeps transcript and
\* allocator, a transcript commit keeps metadata and allocator, a reservation
\* advances the allocator by one, and the durable transcript of an incarnation only
\* grows (update_metadata, reserve_turn_and_prompt, commit_messages).
THEOREM CommitsKeepTheRest == Spec => CommitsTouchTheirOwn
<1>1. Init => IInv /\ TouchInv
  <2>1. Init => TouchInv
    BY Zenon DEF Init, TouchInv, Touched
  <2> QED BY Zenon, <2>1, InitIInv
<1>2. IInv /\ TouchInv /\ [Next]_vars => (IInv /\ TouchInv)'
  BY Zenon, StepIInv, TouchStep DEF IInv
<1>3. ASSUME IInv, TouchInv, [Next]_vars
      PROVE  [/\ \A c \in Callers : Commits(c) /\ stored # Missing /\ losses = 0 =>
                    /\ kind[c] \notin Arming => stored'.meta = stored.meta
                    /\ kind[c] = "update" => stored'.msgs = stored.msgs
                    /\ stored'.seq = stored.seq + (IF kind[c] \in Reserving \cup Prepared THEN 1 ELSE 0)
              /\ stored # Missing /\ stored' # Missing /\ stored'.inc = stored.inc /\ losses = 0
                    => Keeps(stored'.msgs, stored.msgs)]_vars
  <2>1. TypeOK /\ LocalInv /\ StoreInv
    BY Zenon, <1>3 DEF IInv
  <2>2. ASSUME NEW c \in Callers, Commits(c), stored # Missing, losses = 0
        PROVE  /\ kind[c] \notin Arming => stored'.meta = stored.meta
               /\ kind[c] = "update" => stored'.msgs = stored.msgs
               /\ stored'.seq = stored.seq + (IF kind[c] \in Reserving \cup Prepared THEN 1 ELSE 0)
    BY Zenon, <1>3, <2>1, <2>2, CommitIsSave, SaveTouches
  <2>3. stored # Missing /\ stored' # Missing /\ stored'.inc = stored.inc /\ losses = 0
           => Keeps(stored'.msgs, stored.msgs)
    BY Zenon, <1>3, TranscriptKept
  <2> QED BY Zenon, <2>2, <2>3
<1> QED BY <1>1, <1>2, <1>3, PTL DEF Spec, CommitsTouchTheirOwn

\* Every change of the record puts the next revision in its place.
LEMMA StoreReplaces ==
    ASSUME IInv, losses = 0, losses' = 0, [Next]_vars
    PROVE  stored' = stored \/ Store!Replace
<1>0. TypeOK /\ LocalInv /\ StoreInv
  BY Zenon DEF IInv
<1>1. SUFFICES ASSUME NEW n \in Nat, stored' \in Record, stored'.rev = n + 1,
                      n = Store!Rev(stored), stored' # stored
               PROVE  Store!Replace
  <2>1. CASE UNCHANGED storeVars
    BY Zenon, <2>1 DEF storeVars
  <2>2. ASSUME NEW c \in Callers, SaveEffect(c)
        PROVE  stored' \in Record /\ Store!Rev(stored) \in Nat /\ stored'.rev = Store!Rev(stored) + 1
    <3>1. stored' \in Record /\ stored'.rev = NextRevision(stored, cand[c])
      BY Zenon, <1>0, <2>2, SaveEffectType
    <3>2. snap[c] \in Record /\ cand[c].rev = snap[c].rev /\ snap[c].rev \in Nat
      <4>1. snap[c] \in Record /\ cand[c].rev = snap[c].rev
        BY ZenonT(60), <1>0, <2>2 DEF SaveEffect, LocalInv, Local, CandidateOK, TypeOK
      <4> QED BY Zenon, <4>1, RecordFields
    <3>3. CASE stored # Missing
      <4>1. stored.rev \in Nat /\ stored.rev = cand[c].rev /\ Store!Rev(stored) = stored.rev
        <5>1. stored = snap[c]
          BY Zenon, <1>0, <2>2, <3>3, SaveSeesSnapshot
        <5> QED BY Zenon, <3>2, <3>3, <5>1 DEF Store!Rev
      <4>2. NextRevision(stored, cand[c]) <= MaxRev
        BY Zenon, <2>2 DEF SaveEffect
      <4>3. NextRevision(stored, cand[c]) = stored.rev + 1
        BY Zenon, <4>1, <4>2, NextOfSame
      <4> QED BY Zenon, <3>1, <4>1, <4>3
    <3>4. CASE stored = Missing
      <4>1. snap[c] \in Good
        BY Zenon, <1>0 DEF StoreInv, Holds
      <4>2. ~(snap[c].rev > 0)
        BY Zenon, <3>2, <3>4, <4>1 DEF Good, Durable
      <4>3. cand[c].rev = 0
        BY Zenon, <3>2, <4>2, Numbers
      <4>4. Store!Rev(stored) = 0 /\ NextRevision(stored, cand[c]) = 0 + 1
        BY Zenon, <3>4, <4>3 DEF Store!Rev, NextRevision
      <4>5. 0 \in Nat
        OBVIOUS
      <4> QED BY Zenon, <3>1, <4>4, <4>5
    <3> QED BY Zenon, <3>3, <3>4
  <2>3. ASSUME NEW i \in Incarnations, publish_initial_record(i)
        PROVE  stored' \in Record /\ Store!Rev(stored) \in Nat /\ stored'.rev = Store!Rev(stored) + 1
    <3>1. Store!Rev(stored) = 0 /\ stored' = At(empty(i), 1)
      BY Zenon, <2>3 DEF publish_initial_record, Publish, Store!Rev
    <3>2. 0 \in Nat /\ 1 = 0 + 1 /\ 1 \in 0..MaxRev
      BY BoundsAssumption
    <3>3. stored' \in Record /\ stored'.rev = 1
      BY Zenon, <3>1, <3>2, RecordType
    <3> QED BY Zenon, <3>1, <3>2, <3>3
  <2>4. ASSUME NEW i \in Incarnations, reset_record(i)
        PROVE  stored' \in Record /\ Store!Rev(stored) \in Nat /\ stored'.rev = Store!Rev(stored) + 1
    <3>1. Store!Rev(stored) = stored.rev /\ stored' = At(empty(i), stored.rev + 1) /\ stored.rev < MaxRev
      BY Zenon, <2>4 DEF reset_record, Publish, Store!Rev
    <3>2. stored.rev \in Nat /\ stored.rev + 1 \in 0..MaxRev
      <4>1. stored.rev \in Nat
        BY Zenon, <1>0, <2>4, RecordFields DEF TypeOK, reset_record
      <4> QED BY Zenon, <3>1, <4>1, RevisionAdvances
    <3>3. stored' \in Record /\ stored'.rev = stored.rev + 1
      BY Zenon, <3>1, <3>2, RecordType
    <3> QED BY Zenon, <3>1, <3>2, <3>3
  <2>5. ~LoseRecord
    BY DEF LoseRecord
  <2> QED BY Zenon, <1>1, <2>1, <2>2, <2>3, <2>4, <2>5, StoreMoves
<1>2. stored' # Missing /\ stored'.inc \in Incarnations
  BY Zenon, <1>1, RecordFields
<1> QED BY Zenon, <1>1, <1>2 DEF Store!Replace

\* While the record file is not taken away, the engines' saves and the lifecycle's
\* publications are steps the store promises: each replaces the record by one of the
\* next revision, so two engines never publish the same revision, and every
\* publication is durable as it happens (save_unix, publish_initial_record,
\* reset_record over the promise that the file protocol implements).
THEOREM EnginesImplementStore == Spec /\ [](losses = 0) => ImplementsStore
<1>1. Init => Store!StoreInit
  BY Zenon DEF Init, Store!StoreInit
<1>2. ASSUME IInv, losses = 0, (losses = 0)', [Next]_vars
      PROVE  [Store!StoreNext]_<<stored, IF stored = Missing THEN 0 ELSE stored.rev>>
  <2>1. CASE stored' = stored
    BY Zenon, <2>1
  <2>2. CASE Store!Replace
    BY Zenon, <2>2 DEF Store!StoreNext
  <2> QED BY Zenon, <1>2, <2>1, <2>2, StoreReplaces
<1> QED BY <1>1, <1>2, Invariance, PTL DEF Spec, ImplementsStore, Store!StoreSpec

-----------------------------------------------------------------------------
(***************************************************************************)
(* The debt of an uncertain edit.  While an engine owes a reload its       *)
(* canonical record may be older than the edit, so nothing may be admitted *)
(* past the reload; once it does not, the canonical record is as new as    *)
(* the edit, and so is every candidate made of it without knowing the      *)
(* record to be saved.  A turn's own commits expect their record to be     *)
(* there, so they never recreate one.                                      *)
(***************************************************************************)

\* An engine owes a reload, or its canonical record is as new as the edit.
Owes(e) ==
    /\ canon[e] = None => floor[e] = 0
    /\ floor[e] > 0 => canon[e].rev > 0
    /\ canon[e] # None => debt[e] \/ floor[e] <= canon[e].rev

\* What a future without a committed turn may build on.
Covered(c) ==
    /\ pc[c] \in {"snapshot", "issue", "save", "conflicted"} => floor[Owner[c]] <= canon[Owner[c]].rev
    /\ pc[c] = "save" => floor[Owner[c]] <= snap[c].rev /\ snap[c].rev <= canon[Owner[c]].rev
    /\ pc[c] = "saved" /\ got[c] \in Record => floor[Owner[c]] <= got[c].rev
    /\ pc[c] = "saved" /\ kind[c] \notin Arming => floor[Owner[c]] <= canon[Owner[c]].rev

\* What a future knows of the debt of its engine.
Owed(c) ==
    /\ base[c] # None => kind[c] \in Committing /\ Holding(c) /\ persisted[Owner[c]]
    /\ pc[c] \in {"issue", "save"} /\ base[c] # None => was[c]
    /\ pc[c] \in {"save", "saved"} /\ kind[c] \in Arming => debt[Owner[c]]
    /\ pc[c] \in {"save", "saved"} => persisted[Owner[c]] \/ canon[Owner[c]] = snap[c]
    /\ base[c] = None => Covered(c)

\* An editor works on a record its engine has seen.
Ahead(x) ==
    place[x] \in {"issue", "save", "saved"} => current[x].rev <= canon[Home[x]].rev

DebtInv ==
    /\ \A e \in Engines : Owes(e)
    /\ \A c \in Callers : Owed(c)
    /\ \A x \in Editors : Ahead(x)

\* Engine e is left alone.
Still(e) ==
    /\ canon'[e] = canon[e] /\ persisted'[e] = persisted[e]
    /\ debt'[e] = debt[e] /\ floor'[e] = floor[e]

OnlyEngine(e) == \A f \in Engines \ {e} : Still(f)

\* What anyone but the holder of its lease may do to a living engine.
Grows(e) ==
    /\ canon[e] # None => canon'[e] # None /\ canon[e].rev <= canon'[e].rev
    /\ persisted'[e] \/ (canon'[e] = canon[e] /\ persisted'[e] = persisted[e])
    /\ debt[e] => debt'[e]
    /\ floor'[e] = floor[e]

\* The order of revisions.
LEMMA Least == \A n \in Nat : n <= n /\ 0 <= n /\ ~(0 > 0)
OBVIOUS

\* It is transitive.
LEMMA Between == ASSUME NEW n \in Nat, NEW m \in Nat, NEW k \in Nat, n <= m, m <= k PROVE n <= k
OBVIOUS

\* What is at least a positive number is positive.
LEMMA PositiveUp == ASSUME NEW n \in Nat, NEW m \in Nat, n > 0, n <= m PROVE m > 0
OBVIOUS

\* The counters of an engine, before and after a step.
LEMMA Counters ==
    ASSUME TypeOK, TypeOK', NEW e \in Engines
    PROVE  /\ floor[e] \in Nat /\ floor'[e] \in Nat
           /\ canon[e] # None => canon[e] \in Record /\ canon[e].rev \in Nat
           /\ canon'[e] # None => canon'[e] \in Record /\ canon'[e].rev \in Nat
<1>1. \A n \in 0..MaxRev : n \in Nat
  BY BoundsAssumption
<1>2. floor[e] \in 0..MaxRev /\ floor'[e] \in 0..MaxRev
  BY Zenon DEF TypeOK
<1>3. canon[e] \in Record \cup {None} /\ canon'[e] \in Record \cup {None}
  BY Zenon DEF TypeOK
<1> QED BY Zenon, <1>1, <1>2, <1>3, RecordFields

\* An engine left alone grows.
LEMMA StillGrows ==
    ASSUME TypeOK, TypeOK', NEW e \in Engines, Still(e) PROVE Grows(e)
BY Zenon, Counters, Least DEF Still, Grows

\* An engine that grows still owes what it owed.
LEMMA OwesGrows ==
    ASSUME TypeOK, TypeOK', NEW e \in Engines, Owes(e), Grows(e) PROVE Owes(e)'
<1>1. /\ floor[e] \in Nat /\ floor'[e] = floor[e]
      /\ canon[e] # None => canon[e].rev \in Nat
      /\ canon'[e] # None => canon'[e].rev \in Nat
  BY Zenon, Counters DEF Grows
<1>2. CASE canon[e] = None
  <2>1. floor'[e] = 0
    BY Zenon, <1>1, <1>2 DEF Owes
  <2> QED BY Zenon, <1>1, <2>1, Least DEF Owes
<1>3. CASE canon[e] # None
  <2>1. canon'[e] # None /\ canon[e].rev <= canon'[e].rev
    BY Zenon, <1>3 DEF Grows
  <2>2. floor[e] > 0 => canon'[e].rev > 0
    BY Zenon, <1>1, <1>3, <2>1, PositiveUp DEF Owes
  <2>3. debt'[e] \/ floor[e] <= canon'[e].rev
    <3>1. CASE debt[e]
      BY Zenon, <3>1 DEF Grows
    <3>2. CASE floor[e] <= canon[e].rev
      BY Zenon, <1>1, <1>3, <2>1, <3>2, Between
    <3> QED BY Zenon, <1>3, <3>1, <3>2 DEF Owes
  <2> QED BY Zenon, <1>1, <2>1, <2>2, <2>3 DEF Owes
<1> QED BY Zenon, <1>2, <1>3

\* A future that holds no lease owes nothing.
LEMMA OwedIdle ==
    ASSUME NEW c \in Callers, base'[c] = None, pc'[c] \in {"idle", "loaded"} PROVE Owed(c)'
<1>1. Covered(c)'
  BY Zenon DEF Covered
<1> QED BY Zenon, <1>1 DEF Owed

\* A future that does not move, over an engine that grows.
LEMMA OwedGrows ==
    ASSUME TypeOK, TypeOK', LocalInv, NEW c \in Callers, Owed(c), SameFuture(c),
           Holding(c), Grows(Owner[c])
    PROVE  Owed(c)'
<1> DEFINE e == Owner[c]
<1>1. e \in Engines
  BY Zenon, OwnerAssumption
<1>2. /\ pc'[c] = pc[c] /\ kind'[c] = kind[c] /\ snap'[c] = snap[c] /\ was'[c] = was[c]
      /\ got'[c] = got[c] /\ base'[c] = base[c]
  BY Zenon DEF SameFuture
<1>3. canon[e] # None /\ canon'[e] # None /\ canon[e].rev <= canon'[e].rev /\ floor'[e] = floor[e]
  BY Zenon DEF LocalInv, Local, Grows
<1>4. floor[e] \in Nat /\ canon[e].rev \in Nat /\ canon'[e].rev \in Nat
  BY Zenon, <1>1, <1>3, Counters
<1>5. pc[c] = "save" => snap[c].rev \in Nat
  BY Zenon, RecordFields DEF LocalInv, Local, TypeOK
<1>6. floor[e] <= canon[e].rev => floor'[e] <= canon'[e].rev
  BY Zenon, <1>3, <1>4, Between
<1>7. pc[c] = "save" /\ snap[c].rev <= canon[e].rev => snap[c].rev <= canon'[e].rev
  BY Zenon, <1>3, <1>4, <1>5, Between
<1>8. Covered(c) => Covered(c)'
  BY Zenon, <1>2, <1>3, <1>6, <1>7 DEF Covered
<1>9. /\ persisted[e] => persisted'[e]
      /\ persisted[e] \/ canon[e] = snap[c] => persisted'[e] \/ canon'[e] = snap[c]
      /\ debt[e] => debt'[e]
  BY Zenon DEF Grows
<1>10. Holding(c)'
  BY Zenon, <1>2 DEF Holding
<1> QED BY ZenonT(30), <1>2, <1>8, <1>9, <1>10 DEF Owed

\* The same, whether or not it holds a lease.
LEMMA OwedStays ==
    ASSUME TypeOK, TypeOK', LocalInv, NEW c \in Callers, Owed(c), SameFuture(c),
           Holding(c) => Grows(Owner[c])
    PROVE  Owed(c)'
<1>1. CASE Holding(c)
  BY Zenon, <1>1, OwedGrows
<1>2. CASE ~Holding(c)
  <2>1. base'[c] = None /\ pc'[c] \in {"idle", "loaded"}
    BY Zenon, <1>2 DEF Owed, SameFuture, Holding
  <2> QED BY Zenon, <2>1, OwedIdle
<1> QED BY Zenon, <1>1, <1>2

\* A step of one future: it speaks for itself and its engine, the lease for the rest.
LEMMA CallerFrame ==
    ASSUME TypeOK, TypeOK', LocalInv, LeaseInv,
           \A e \in Engines : Owes(e), \A d \in Callers : Owed(d),
           NEW c \in Callers, OnlyFuture(c), OnlyEngine(Owner[c]),
           Holding(c) \/ ~lease[Owner[c]] \/ Grows(Owner[c]),
           Owes(Owner[c])', Owed(c)'
    PROVE  (\A e \in Engines : Owes(e)') /\ (\A d \in Callers : Owed(d)')
<1>1. ASSUME NEW e \in Engines, e # Owner[c] PROVE Grows(e) /\ Owes(e)'
  <2>1. Grows(e)
    BY Zenon, <1>1, StillGrows DEF OnlyEngine
  <2> QED BY Zenon, <2>1, OwesGrows
<1>2. ASSUME NEW d \in Callers, d # c PROVE Owed(d)'
  <2>1. SameFuture(d) /\ Owner[d] \in Engines
    BY Zenon, <1>2, OwnerAssumption DEF OnlyFuture
  <2>2. Holding(d) => Grows(Owner[d])
    <3>1. CASE Owner[d] = Owner[c]
      BY Zenon, <1>2, <3>1 DEF LeaseInv
    <3>2. CASE Owner[d] # Owner[c]
      BY Zenon, <1>1, <2>1, <3>2
    <3> QED BY Zenon, <3>1, <3>2
  <2> QED BY Zenon, <2>1, <2>2, OwedStays
<1> QED BY Zenon, <1>1, <1>2

\* What a step of future c shows for CallerFrame.
Settles(c) ==
    /\ OnlyFuture(c) /\ OnlyEngine(Owner[c])
    /\ Holding(c) \/ ~lease[Owner[c]] \/ Grows(Owner[c])
    /\ Owes(Owner[c])' /\ Owed(c)'

\* A step that leaves the engines alone.
LEMMA QuietEngines ==
    ASSUME TypeOK, TypeOK', UNCHANGED <<canon, persisted, debt, floor>>,
           NEW e \in Engines, Owes(e)
    PROVE  OnlyEngine(e) /\ Grows(e) /\ Owes(e)'
<1>1. \A f \in Engines : Still(f)
  BY Zenon DEF Still
<1> QED BY Zenon, <1>1, StillGrows, OwesGrows DEF OnlyEngine

\* A future that ends owes nothing.
LEMMA LeaveOwed ==
    ASSUME TypeOK, NEW c \in Callers, Leave(c) PROVE OnlyFuture(c) /\ Owed(c)'
BY Zenon, LeaveAlone, OwedIdle

\* A future that takes another pass, or reads the record again.
LEMMA PassOwed ==
    ASSUME NEW c \in Callers, Owed(c), pc'[c] \in {"snapshot", "reloaded"},
           kind'[c] = kind[c], base'[c] = base[c],
           base[c] # None => persisted'[Owner[c]],
           base[c] = None /\ pc'[c] = "snapshot" => floor'[Owner[c]] <= canon'[Owner[c]].rev
    PROVE  Owed(c)'
<1>1. Holding(c)'
  BY Zenon DEF Holding
<1>2. base[c] = None => Covered(c)'
  BY Zenon DEF Covered
<1>3. base[c] # None => kind[c] \in Committing
  BY Zenon DEF Owed
<1> QED BY Zenon, <1>1, <1>2, <1>3 DEF Owed

\* The steps that end a future and leave its engine alone.
LEMMA EndsSettle ==
    ASSUME TypeOK, TypeOK', NEW c \in Callers, Owes(Owner[c]), Ends(c),
           UNCHANGED <<canon, persisted, debt, floor>>
    PROVE  Settles(c)
<1>1. OnlyFuture(c) /\ Owed(c)'
  BY Zenon, EndsLeave, LeaveOwed
<1>2. OnlyEngine(Owner[c]) /\ Grows(Owner[c]) /\ Owes(Owner[c])'
  BY Zenon, OwnerAssumption, QuietEngines
<1> QED BY Zenon, <1>1, <1>2 DEF Settles

\* Which they are.
LEMMA QuietEnds ==
    ASSUME NEW c \in Callers,
           \/ ReconcileFailed(c) \/ SnapshotEnds(c) \/ SaveErrors(c) \/ SaveFailed(c)
           \/ ConflictFailed(c) \/ LoadRejected(c) \/ DropFuture(c) \/ TurnEnds(c)
           \/ (kind[c] \in Arming /\ IssueStale(c))
    PROVE  Ends(c) /\ UNCHANGED <<canon, persisted, debt, floor>>
<1>1. Ends(c)
  BY Zenon DEF Ends
<1>2. ReconcileFailed(c) \/ SnapshotEnds(c) \/ SaveErrors(c) => UNCHANGED <<canon, persisted, debt, floor>>
  BY Zenon DEF ReconcileFailed, SnapshotEnds, SaveErrors
<1>3. SaveFailed(c) \/ ConflictFailed(c) => UNCHANGED <<canon, persisted, debt, floor>>
  BY Zenon DEF SaveFailed, ConflictFailed
<1>4. LoadRejected(c) => UNCHANGED <<canon, persisted, debt, floor>>
  BY Zenon DEF LoadRejected, stateVars
<1>5. DropFuture(c) \/ TurnEnds(c) \/ IssueStale(c) => UNCHANGED <<canon, persisted, debt, floor>>
  BY Zenon DEF DropFuture, TurnEnds, IssueStale
<1> QED BY Zenon, <1>1, <1>2, <1>3, <1>4, <1>5

\* Admission past an engine without a debt finds its record as new as the edit.
LEMMA AdmitSettles ==
    ASSUME TypeOK, TypeOK', NEW c \in Callers, Owes(Owner[c]), Owed(c), NEW k \in Operations, Admit(c, k)
    PROVE  Settles(c)
<1> DEFINE e == Owner[c]
<1>1. UNCHANGED <<canon, persisted, debt, floor>> /\ base' = base /\ ~lease[e] /\ canon[e] # None /\ pc[c] = "idle"
  BY Zenon DEF Admit
<1>2. OnlyFuture(c) /\ pc'[c] \in {"reload", "snapshot"}
  BY Zenon, Begins
<1>3. pc'[c] = "snapshot" => ~debt[e]
  <2>1. debt[e] => pc' = [pc EXCEPT ![c] = "reload"]
    BY Zenon DEF Admit, Goto
  <2>2. debt[e] => pc'[c] = "reload"
    BY Zenon, <2>1 DEF TypeOK
  <2> QED BY Zenon, <2>2
<1>4. base'[c] = None
  BY Zenon, <1>1 DEF Owed, Holding
<1>5. pc'[c] = "snapshot" => floor'[e] <= canon'[e].rev
  BY Zenon, <1>1, <1>3 DEF Owes
<1>6. Owed(c)'
  <2>1. Covered(c)'
    BY Zenon, <1>2, <1>5 DEF Covered
  <2> QED BY Zenon, <1>2, <1>4, <2>1 DEF Owed
<1>7. OnlyEngine(e) /\ Owes(e)'
  BY Zenon, <1>1, OwnerAssumption, QuietEngines
<1> QED BY Zenon, <1>1, <1>2, <1>6, <1>7 DEF Settles

\* The other steps of a future that leave its engine alone.
LEMMA QuietSettle ==
    ASSUME TypeOK, TypeOK', LocalInv, NEW c \in Callers, Owes(Owner[c]), Owed(c),
           \/ Reload(c) \/ Snapshot(c) \/ SaveConflicts(c) \/ Conflicted(c)
           \/ (kind[c] \notin Arming /\ IssueStale(c))
           \/ \E k \in Operations : LoadBegin(c, k) \/ CommitBegin(c, k)
    PROVE  Settles(c)
<1> DEFINE e == Owner[c]
<1>1. UNCHANGED <<canon, persisted, debt, floor>>
  <2>1. Reload(c) \/ Snapshot(c) \/ SaveConflicts(c) => UNCHANGED stateVars
    BY Zenon DEF Reload, Snapshot, SaveConflicts
  <2>2. Conflicted(c) => UNCHANGED stateVars
    BY Zenon DEF Conflicted
  <2>3. \A k \in Operations : LoadBegin(c, k) \/ CommitBegin(c, k) => UNCHANGED stateVars
    BY Zenon DEF LoadBegin, CommitBegin
  <2>4. IssueStale(c) => UNCHANGED <<canon, persisted, debt, floor>>
    BY Zenon DEF IssueStale
  <2>5. UNCHANGED stateVars => UNCHANGED <<canon, persisted, debt, floor>>
    BY Zenon DEF stateVars
  <2> QED BY Zenon, <2>1, <2>2, <2>3, <2>4, <2>5
<1>2. OnlyEngine(e) /\ Grows(e) /\ Owes(e)'
  BY Zenon, <1>1, OwnerAssumption, QuietEngines
<1>3. SUFFICES OnlyFuture(c) /\ Owed(c)'
  BY Zenon, <1>2 DEF Settles
<1>4. CASE Reload(c)
  <2>1. OnlyFuture(c) /\ pc'[c] = "reloaded" /\ kind' = kind /\ base' = base
    BY Zenon, <1>4, GoesOn DEF Reload
  <2>2. base[c] # None => persisted'[e]
    BY Zenon, <1>1 DEF Owed
  <2> QED BY Zenon, <2>1, <2>2, PassOwed
<1>5. CASE Snapshot(c)
  <2>1. OnlyFuture(c) /\ pc'[c] = "issue" /\ kind' = kind /\ base' = base /\ pc[c] = "snapshot"
    BY Zenon, <1>5, GoesOn DEF Snapshot
  <2>2. was'[c] = persisted[e]
    BY Zenon, <1>5 DEF Snapshot, TypeOK
  <2>3. base[c] = None => Covered(c)'
    BY Zenon, <1>1, <2>1 DEF Owed, Covered
  <2>4. Holding(c)'
    BY Zenon, <2>1 DEF Holding
  <2> QED BY Zenon, <1>1, <2>1, <2>2, <2>3, <2>4 DEF Owed
<1>6. CASE SaveConflicts(c)
  <2>1. /\ OnlyFuture(c) /\ pc'[c] = "saved" /\ got'[c] = Conflict /\ kind' = kind /\ base' = base
        /\ snap' = snap /\ pc[c] = "save"
    BY Zenon, <1>6, GoesOn DEF SaveConflicts
  <2>2. base[c] = None => Covered(c)'
    BY Zenon, <1>1, <2>1, AnswerAssumption DEF Owed, Covered
  <2>3. Holding(c)'
    BY Zenon, <2>1 DEF Holding
  <2> QED BY Zenon, <1>1, <2>1, <2>2, <2>3 DEF Owed
<1>7. CASE Conflicted(c)
  <2>1. OnlyFuture(c) /\ pc'[c] = "conflicted" /\ kind' = kind /\ base' = base /\ pc[c] = "saved" /\ kind[c] \notin Arming
    BY Zenon, <1>7, GoesOn DEF Conflicted
  <2>2. base[c] = None => Covered(c)'
    BY Zenon, <1>1, <2>1 DEF Owed, Covered
  <2>3. Holding(c)'
    BY Zenon, <2>1 DEF Holding
  <2> QED BY Zenon, <1>1, <2>1, <2>2, <2>3 DEF Owed
<1>8. CASE kind[c] \notin Arming /\ IssueStale(c)
  <2>1. Retry(c) /\ pc[c] = "issue"
    BY Zenon, <1>8 DEF IssueStale
  <2>2. CASE End(c)
    BY Zenon, <2>2, LeaveOwed DEF End
  <2>3. CASE pc'[c] = "snapshot" /\ kind'[c] = kind[c] /\ base'[c] = base[c]
    <3>1. base[c] # None => persisted'[e]
      BY Zenon, <1>1 DEF Owed
    <3>2. base[c] = None => floor'[e] <= canon'[e].rev
      BY Zenon, <1>1, <2>1 DEF Owed, Covered
    <3> QED BY Zenon, <2>1, <2>3, <3>1, <3>2, PassOwed, RetryAlone
  <2> QED BY Zenon, <2>1, <2>2, <2>3, RetryAlone
<1>9. ASSUME NEW k \in Operations, LoadBegin(c, k) PROVE OnlyFuture(c) /\ Owed(c)'
  <2>1. OnlyFuture(c) /\ pc'[c] = "loaded" /\ base' = base /\ pc[c] = "idle"
    BY Zenon, <1>9, Begins DEF LoadBegin
  <2>2. base'[c] = None
    BY Zenon, <2>1 DEF Owed, Holding
  <2> QED BY Zenon, <2>1, <2>2, OwedIdle
<1>10. ASSUME NEW k \in Operations, CommitBegin(c, k) PROVE OnlyFuture(c) /\ Owed(c)'
  <2>1. OnlyFuture(c) /\ pc'[c] = "snapshot" /\ kind'[c] = k /\ base' = base /\ pc[c] = "turn" /\ k \in Committing
    BY Zenon, <1>10, Begins DEF CommitBegin
  <2>2. base[c] # None /\ Holding(c)'
    BY Zenon, <2>1 DEF LocalInv, Local, Holding
  <2> QED BY Zenon, <1>1, <2>1, <2>2 DEF Owed
<1> QED BY Zenon, <1>4, <1>5, <1>6, <1>7, <1>8, <1>9, <1>10

\* What the two reconciliations do to the engines.
LEMMA LoadMoves ==
    ASSUME TypeOK, NEW e \in Engines, NEW r, reconcile_loaded(e, r)
    PROVE  /\ canon'[e] = r /\ persisted'[e]
           /\ \A f \in Engines \ {e} : canon'[f] = canon[f] /\ persisted'[f] = persisted[f]
BY Zenon DEF TypeOK, reconcile_loaded

\* What reconcile_saved does to the engines: an older answer changes nothing.
LEMMA SaveMoves ==
    ASSUME TypeOK, NEW e \in Engines, NEW r, reconcile_saved(e, r)
    PROVE  /\ canon[e].rev <= r.rev => canon'[e] = r /\ persisted'[e]
           /\ ~(canon[e].rev <= r.rev) => canon'[e] = canon[e] /\ persisted'[e] = persisted[e]
           /\ \A f \in Engines \ {e} : canon'[f] = canon[f] /\ persisted'[f] = persisted[f]
<1>1. CASE canon[e].rev <= r.rev
  BY Zenon, <1>1 DEF TypeOK, reconcile_saved
<1>2. CASE ~(canon[e].rev <= r.rev)
  BY Zenon, <1>2 DEF reconcile_saved
<1> QED BY Zenon, <1>1, <1>2

\* An accepted record is as new as the canonical one.
LEMMA AcceptedNewer ==
    ASSUME TypeOK, NEW e \in Engines, canon[e] # None, NEW r, LoadAcceptable(e, r)
    PROVE  r \in Record /\ r # None /\ r.rev \in Nat /\ canon[e].rev <= r.rev
<1>1. r \in Record /\ r.rev >= canon[e].rev
  BY Zenon DEF LoadAcceptable
<1>2. canon[e] \in Record
  BY Zenon DEF TypeOK
<1>3. r.rev \in Nat /\ canon[e].rev \in Nat /\ r # None
  BY Zenon, <1>1, <1>2, RecordFields
<1>4. canon[e].rev <= r.rev
  <2>1. \A n, m \in Nat : n >= m => m <= n
    OBVIOUS
  <2> QED BY Zenon, <1>1, <1>3, <2>1
<1> QED BY Zenon, <1>1, <1>3, <1>4

\* A load of an engine grows it.
LEMMA LoadSettles ==
    ASSUME TypeOK, TypeOK', LocalInv, NEW c \in Callers, Owes(Owner[c]), LoadRegistered(c)
    PROVE  Settles(c)
<1> DEFINE e == Owner[c]
<1>1. e \in Engines
  BY Zenon, OwnerAssumption
<1>2. /\ pc[c] = "loaded" /\ got[c] # Missing /\ (canon[e] # None => LoadAcceptable(e, got[c]))
      /\ reconcile_loaded(e, got[c]) /\ UNCHANGED <<debt, floor>> /\ Leave(c)
  BY Zenon DEF LoadRegistered
<1>3. got[c] \in Record
  BY Zenon, <1>2 DEF LocalInv, Local
<1>4. Grows(e)
  <2>1. canon'[e] = got[c] /\ persisted'[e]
    BY Zenon, <1>1, <1>2, LoadMoves
  <2>2. canon[e] # None => canon'[e] # None /\ canon[e].rev <= canon'[e].rev
    BY Zenon, <1>1, <1>2, <2>1, AcceptedNewer
  <2> QED BY Zenon, <1>2, <2>1, <2>2 DEF Grows
<1>5. OnlyEngine(e)
  BY Zenon, <1>1, <1>2, LoadMoves DEF OnlyEngine, Still
<1>6. Owes(e)'
  BY Zenon, <1>1, <1>4, OwesGrows
<1> QED BY Zenon, <1>2, <1>4, <1>5, <1>6, LeaveOwed DEF Settles

\* The reload that settles a debt.
LEMMA ReconcileSettles ==
    ASSUME TypeOK, TypeOK', LocalInv, NEW c \in Callers, Owes(Owner[c]), Owed(c), Reconciled(c)
    PROVE  Settles(c)
<1> DEFINE e == Owner[c]
<1>1. e \in Engines
  BY Zenon, OwnerAssumption
<1>2. pc[c] = "reloaded" /\ debt' = [debt EXCEPT ![e] = FALSE] /\ kind' = kind /\ base' = base
  BY Zenon DEF Reconciled
<1>3. OnlyFuture(c) /\ pc'[c] = "snapshot" /\ Holding(c)
  BY Zenon, <1>2, GoesOn DEF Holding
<1>4. canon[e] # None /\ snap[c] # None
  BY Zenon, <1>2, <1>3 DEF LocalInv, Local
<1>5. \A f \in Engines \ {e} : debt'[f] = debt[f]
  BY Zenon, <1>2 DEF TypeOK
<1>6. ASSUME LoadAcceptable(e, got[c]), reconcile_loaded(e, got[c]), floor' = [floor EXCEPT ![e] = 0]
      PROVE  Settles(c)
  <2>1. canon'[e] = got[c] /\ persisted'[e] /\ floor'[e] = 0
    BY Zenon, <1>1, <1>6, LoadMoves DEF TypeOK
  <2>2. canon'[e].rev \in Nat /\ canon'[e] # None
    BY Zenon, <1>1, <1>4, <1>6, <2>1, AcceptedNewer
  <2>3. floor'[e] <= canon'[e].rev
    BY Zenon, <2>1, <2>2, Least
  <2>4. Owes(e)'
    BY Zenon, <2>1, <2>2, <2>3, Least DEF Owes
  <2>5. Owed(c)'
    BY Zenon, <1>2, <1>3, <2>1, <2>3, PassOwed
  <2>6. OnlyEngine(e)
    <3>1. \A f \in Engines \ {e} : floor'[f] = floor[f]
      BY Zenon, <1>6 DEF TypeOK
    <3> QED BY Zenon, <1>1, <1>5, <1>6, <3>1, LoadMoves DEF OnlyEngine, Still
  <2> QED BY Zenon, <1>3, <2>4, <2>5, <2>6 DEF Settles
<1>7. ASSUME MissingAcceptable(c), UNCHANGED <<canon, persisted, floor>>
      PROVE  Settles(c)
  <2>1. canon[e].rev = 0 /\ floor[e] \in Nat
    BY Zenon, <1>1, <1>7, Counters DEF MissingAcceptable, SnapshotIsCurrent
  <2>2. floor[e] = 0
    <3>1. ~(floor[e] > 0)
      BY Zenon, <2>1, Least DEF Owes
    <3> QED BY Zenon, <2>1, <3>1, Numbers
  <2>3. floor'[e] <= canon'[e].rev /\ floor'[e] = 0
    BY Zenon, <1>7, <2>1, <2>2, Least
  <2>4. Owes(e)'
    BY Zenon, <2>3, Least DEF Owes
  <2>5. Owed(c)'
    <3>1. base[c] # None => persisted'[e]
      BY Zenon, <1>7 DEF Owed
    <3> QED BY Zenon, <1>2, <1>3, <2>3, <3>1, PassOwed
  <2>6. OnlyEngine(e)
    BY Zenon, <1>5, <1>7 DEF OnlyEngine, Still
  <2> QED BY Zenon, <1>3, <2>4, <2>5, <2>6 DEF Settles
<1> QED BY Zenon, <1>6, <1>7 DEF Reconciled

\* The call of save: an edit arms the debt first.
LEMMA IssueSettles ==
    ASSUME TypeOK, TypeOK', LocalInv, NEW c \in Callers, Owes(Owner[c]), Owed(c), Issue(c)
    PROVE  Settles(c)
<1> DEFINE e == Owner[c]
<1>1. e \in Engines
  BY Zenon, OwnerAssumption
<1>2. /\ pc[c] = "issue" /\ canon[e] = snap[c] /\ UNCHANGED <<canon, persisted, floor>>
      /\ kind' = kind /\ base' = base /\ snap' = snap /\ was' = was
  BY Zenon DEF Issue, SnapshotIsCurrent
<1>3. OnlyFuture(c) /\ pc'[c] = "save" /\ Holding(c) /\ Holding(c)'
  BY Zenon, <1>2, GoesOn DEF Holding
<1>4. /\ \A f \in Engines \ {e} : debt'[f] = debt[f]
      /\ debt[e] => debt'[e]
      /\ kind[c] \in Arming => debt'[e]
  <2>1. CASE kind[c] \in Arming
    <3>1. debt' = [debt EXCEPT ![e] = TRUE]
      BY Zenon, <2>1 DEF Issue, ArmDebt
    <3> QED BY Zenon, <1>1, <3>1 DEF TypeOK
  <2>2. CASE kind[c] \notin Arming
    BY Zenon, <2>2 DEF Issue, ArmDebt
  <2> QED BY Zenon, <2>1, <2>2
<1>5. canon[e] # None /\ canon[e].rev \in Nat
  BY Zenon, <1>1, <1>3, Counters DEF LocalInv, Local
<1>6. Grows(e)
  BY Zenon, <1>2, <1>4, <1>5, Least DEF Grows
<1>7. base[c] = None => Covered(c)'
  <2>1. base[c] = None => floor[e] <= canon[e].rev
    BY Zenon, <1>2 DEF Owed, Covered
  <2> QED BY Zenon, <1>2, <1>3, <1>5, <2>1, Least DEF Covered
<1>8. Owed(c)'
  BY Zenon, <1>2, <1>3, <1>4, <1>7 DEF Owed
<1>9. OnlyEngine(e) /\ Owes(e)'
  BY Zenon, <1>1, <1>2, <1>4, <1>6, OwesGrows DEF OnlyEngine, Still
<1> QED BY Zenon, <1>3, <1>8, <1>9 DEF Settles

\* A publication raises the floor only under an armed debt.
LEMMA FloorRaised ==
    ASSUME TypeOK, TypeOK', LocalInv, NEW c \in Callers, Owes(Owner[c]), Owed(c),
           SaveEffect(c), UNCHANGED <<canon, persisted, debt>>
    PROVE  /\ OnlyEngine(Owner[c]) /\ Owes(Owner[c])' /\ Holding(c)
           /\ \/ floor'[Owner[c]] = floor[Owner[c]]
              \/ kind[c] \in Arming /\ floor'[Owner[c]] = NextRevision(stored, cand[c])
<1> DEFINE e == Owner[c]
           n == NextRevision(stored, cand[c])
<1>1. e \in Engines /\ pc[c] = "save" /\ Holding(c)
  BY Zenon, OwnerAssumption DEF SaveEffect, Holding
<1>2. canon[e] # None /\ snap[c] # None
  BY Zenon, <1>1 DEF LocalInv, Local
<1>3. CASE kind[c] \in Arming /\ snap[c].rev > 0
  <2>1. floor' = [floor EXCEPT ![e] = n]
    BY Zenon, <1>3 DEF SaveEffect, RaiseFloor
  <2> HIDE DEF n
  <2>2. floor'[e] = n /\ \A f \in Engines \ {e} : floor'[f] = floor[f]
    BY Zenon, <1>1, <2>1 DEF TypeOK
  <2>3. base[c] = None
    BY Zenon, <1>3 DEF Owed, Arming, Committing, Prepared
  <2>4. snap[c].rev <= canon[e].rev /\ debt[e]
    BY Zenon, <1>1, <1>3, <2>3 DEF Owed, Covered
  <2>5. snap[c].rev \in Nat /\ canon[e].rev \in Nat
    BY Zenon, <1>1, <1>2, Counters, RecordFields DEF TypeOK
  <2>6. canon[e].rev > 0
    BY Zenon, <1>3, <2>4, <2>5, PositiveUp
  <2>7. Owes(e)'
    BY Zenon, <1>2, <2>4, <2>6 DEF Owes
  <2>8. OnlyEngine(e)
    BY Zenon, <2>2 DEF OnlyEngine, Still
  <2> QED BY Zenon, <1>1, <1>3, <2>2, <2>7, <2>8 DEF n
<1>4. CASE ~(kind[c] \in Arming /\ snap[c].rev > 0)
  <2>1. floor' = floor
    BY Zenon, <1>4 DEF SaveEffect, RaiseFloor
  <2> QED BY Zenon, <1>1, <2>1, QuietEngines
<1> QED BY Zenon, <1>3, <1>4

\* A save that takes effect, seen or not.
LEMMA CommitSettles ==
    ASSUME TypeOK, TypeOK', LocalInv, NEW c \in Callers, Owes(Owner[c]), Owed(c),
           SaveCommits(c) \/ SaveAmbiguous(c)
    PROVE  Settles(c)
<1> DEFINE e == Owner[c]
<1>1. SaveEffect(c) /\ UNCHANGED <<canon, persisted, debt>>
  BY Zenon DEF SaveCommits, SaveAmbiguous
<1>2. /\ OnlyEngine(e) /\ Owes(e)' /\ Holding(c)
      /\ \/ floor'[e] = floor[e]
         \/ kind[c] \in Arming /\ floor'[e] = NextRevision(stored, cand[c])
  BY Zenon, <1>1, FloorRaised
<1>3. CASE SaveAmbiguous(c)
  BY Zenon, <1>2, <1>3, LeaveOwed DEF SaveAmbiguous, End, Settles
<1>4. CASE SaveCommits(c)
  <2>1. /\ OnlyFuture(c) /\ pc'[c] = "saved" /\ got'[c] = stored' /\ pc[c] = "save"
        /\ kind' = kind /\ snap' = snap /\ base' = base
    BY Zenon, <1>4, GoesOn DEF SaveCommits, SaveEffect
  <2>2. stored' \in Record /\ stored'.rev = NextRevision(stored, cand[c]) /\ stored'.rev > cand[c].rev
    BY Zenon, <1>1, SaveEffectType
  <2>3. stored'.rev \in Nat /\ cand[c].rev = snap[c].rev /\ snap[c].rev \in Nat /\ floor[e] \in Nat
    <3>1. snap[c] \in Record /\ cand[c].rev = snap[c].rev
      BY Zenon, <2>1 DEF LocalInv, Local, CandidateOK, TypeOK
    <3> QED BY Zenon, <2>2, <3>1, RecordFields, OwnerAssumption, Counters
  <2>4. base[c] = None => floor'[e] <= stored'.rev
    <3> SUFFICES ASSUME base[c] = None PROVE floor'[e] <= stored'.rev
      BY Zenon
    <3>1. CASE floor'[e] = floor[e]
      <4>1. floor[e] <= snap[c].rev
        BY Zenon, <2>1 DEF Owed, Covered
      <4>2. \A i, j, k \in Nat : i <= j /\ k > j => i <= k
        OBVIOUS
      <4> QED BY Zenon, <2>2, <2>3, <3>1, <4>1, <4>2
    <3>2. CASE floor'[e] = NextRevision(stored, cand[c])
      BY Zenon, <2>2, <2>3, <3>2, Least
    <3> QED BY Zenon, <1>2, <3>1, <3>2
  <2>5. base[c] = None /\ kind[c] \notin Arming => floor'[e] <= canon'[e].rev
    BY Zenon, <1>1, <1>2, <2>1 DEF Owed, Covered
  <2>6. base[c] = None => Covered(c)'
    BY Zenon, <2>1, <2>4, <2>5 DEF Covered
  <2>7. Holding(c)'
    BY Zenon, <2>1 DEF Holding
  <2>8. Owed(c)'
    BY Zenon, <1>1, <2>1, <2>6, <2>7 DEF Owed
  <2> QED BY Zenon, <1>2, <2>1, <2>8 DEF Settles
<1> QED BY Zenon, <1>3, <1>4

\* The poll that reads an accepted result and reconciles it.
LEMMA SavedSettles ==
    ASSUME TypeOK, TypeOK', LocalInv, NEW c \in Callers, Owes(Owner[c]), Owed(c), Saved(c)
    PROVE  Settles(c)
<1> DEFINE e == Owner[c]
<1>1. e \in Engines
  BY Zenon, OwnerAssumption
<1>2. /\ pc[c] = "saved" /\ got[c] \in Record /\ got[c].rev > snap[c].rev
      /\ reconcile_saved(e, got[c]) /\ floor' = floor
  BY Zenon DEF Saved, SaveAcceptable
<1>3. Holding(c) /\ canon[e] # None /\ snap[c] # None
  BY Zenon, <1>2 DEF LocalInv, Local, Holding
<1>4. canon[e].rev \in Nat /\ got[c].rev \in Nat /\ floor[e] \in Nat /\ snap[c].rev \in Nat
  <2>1. snap[c] \in Record
    BY Zenon, <1>3 DEF TypeOK
  <2> QED BY Zenon, <1>1, <1>2, <1>3, <2>1, Counters, RecordFields
<1>5. /\ canon[e].rev <= got[c].rev => canon'[e] = got[c] /\ persisted'[e]
      /\ ~(canon[e].rev <= got[c].rev) => canon'[e] = canon[e] /\ persisted'[e] = persisted[e]
      /\ \A f \in Engines \ {e} : canon'[f] = canon[f] /\ persisted'[f] = persisted[f]
  BY Zenon, <1>1, <1>2, SaveMoves
<1>6. /\ \A f \in Engines \ {e} : debt'[f] = debt[f]
      /\ kind[c] \notin Arming => debt'[e] = debt[e]
  BY Zenon, <1>1 DEF Saved, TypeOK
<1>7. canon'[e] # None /\ canon[e].rev <= canon'[e].rev /\ canon'[e].rev \in Nat
  <2>1. got[c] # None
    BY Zenon, <1>2, RecordFields
  <2> QED BY Zenon, <1>3, <1>4, <1>5, <2>1, Least
<1>8. base[c] = None => floor[e] <= canon'[e].rev
  <2> SUFFICES ASSUME base[c] = None PROVE floor[e] <= canon'[e].rev
    BY Zenon
  <2>1. floor[e] <= got[c].rev
    BY Zenon, <1>2 DEF Owed, Covered
  <2>2. CASE canon[e].rev <= got[c].rev
    BY Zenon, <1>5, <2>1, <2>2
  <2>3. CASE ~(canon[e].rev <= got[c].rev)
    <3>1. \A n, m \in Nat : ~(n <= m) => m <= n
      OBVIOUS
    <3>2. got[c].rev <= canon[e].rev
      BY Zenon, <1>4, <2>3, <3>1
    <3>3. floor[e] <= canon[e].rev
      BY Zenon, <1>4, <2>1, <3>2, Between
    <3> QED BY Zenon, <1>5, <2>3, <3>3
  <2> QED BY Zenon, <2>2, <2>3
<1>9. Owes(e)'
  <2>1. floor'[e] > 0 => canon'[e].rev > 0
    BY Zenon, <1>2, <1>3, <1>4, <1>7, PositiveUp DEF Owes
  <2>2. debt'[e] \/ floor'[e] <= canon'[e].rev
    <3>1. CASE base[c] = None
      BY Zenon, <1>2, <1>8, <3>1
    <3>2. CASE base[c] # None
      <4>1. debt'[e] = debt[e]
        BY Zenon, <1>6, <3>2 DEF Owed, Arming, Committing, Prepared
      <4>2. debt[e] \/ floor[e] <= canon[e].rev
        BY Zenon, <1>3 DEF Owes
      <4> QED BY Zenon, <1>2, <1>4, <1>7, <4>1, <4>2, Between
    <3> QED BY Zenon, <3>1, <3>2
  <2> QED BY Zenon, <1>7, <2>1, <2>2 DEF Owes
<1>10. OnlyEngine(e)
  BY Zenon, <1>2, <1>5, <1>6 DEF OnlyEngine, Still
<1>11. OnlyFuture(c) /\ Owed(c)'
  <2>1. CASE kind[c] = "update"
    BY Zenon, <2>1, LeaveOwed DEF Saved, End
  <2>2. CASE kind[c] # "update"
    <3>1. OnlyFuture(c) /\ pc'[c] = "turn" /\ kind'[c] = "append" /\ base'[c] = got[c]
      BY Zenon, <2>2, Begins
    <3>2. persisted'[e]
      <4>1. CASE canon[e].rev <= got[c].rev
        BY Zenon, <1>5, <4>1
      <4>2. CASE ~(canon[e].rev <= got[c].rev)
        <5>1. \A n, m \in Nat : n > m => m <= n
          OBVIOUS
        <5>2. canon[e] # snap[c]
          BY Zenon, <1>2, <1>4, <4>2, <5>1
        <5> QED BY Zenon, <1>2, <1>5, <4>2, <5>2 DEF Owed
      <4> QED BY Zenon, <4>1, <4>2
    <3>3. base'[c] # None
      BY Zenon, <1>2, <3>1, RecordFields
    <3>4. Holding(c)'
      BY Zenon, <3>1 DEF Holding
    <3> QED BY Zenon, <3>1, <3>2, <3>3, <3>4 DEF Owed, Committing
  <2> QED BY Zenon, <2>1, <2>2
<1> QED BY Zenon, <1>3, <1>9, <1>10, <1>11 DEF Settles

\* A reload after a conflict, of a record that is there or gone.
LEMMA ConflictSettles ==
    ASSUME TypeOK, TypeOK', LocalInv, NEW c \in Callers, Owes(Owner[c]), Owed(c),
           ConflictMissing(c) \/ ConflictReloaded(c)
    PROVE  Settles(c)
<1> DEFINE e == Owner[c]
<1>1. e \in Engines
  BY Zenon, OwnerAssumption
<1>2. pc[c] = "conflicted" /\ Retry(c) /\ UNCHANGED <<debt, floor>>
  BY Zenon DEF ConflictMissing, ConflictReloaded
<1>3. Holding(c) /\ canon[e] # None
  BY Zenon, <1>2 DEF LocalInv, Local, Holding
<1>4. canon[e].rev \in Nat /\ floor[e] \in Nat
  BY Zenon, <1>1, <1>3, Counters
<1>5. /\ canon'[e] # None /\ canon[e].rev <= canon'[e].rev /\ canon'[e].rev \in Nat
      /\ base[c] # None => persisted'[e]
      /\ \A f \in Engines \ {e} : canon'[f] = canon[f] /\ persisted'[f] = persisted[f]
  <2>1. CASE ConflictMissing(c)
    <3>1. canon' = canon /\ kind[c] \in Reserving
      BY Zenon, <2>1 DEF ConflictMissing
    <3>2. base[c] = None
      BY Zenon, <3>1 DEF Owed, Reserving, Committing
    <3>3. persisted' = [persisted EXCEPT ![e] = FALSE] \/ persisted' = persisted
      BY Zenon, <2>1 DEF ConflictMissing
    <3>4. \A f \in Engines \ {e} : persisted'[f] = persisted[f]
      BY Zenon, <3>3 DEF TypeOK
    <3> QED BY Zenon, <1>3, <1>4, <3>1, <3>2, <3>4, Least
  <2>2. CASE ConflictReloaded(c)
    <3>1. LoadAcceptable(e, got[c]) /\ reconcile_loaded(e, got[c])
      BY Zenon, <2>2 DEF ConflictReloaded, ReloadAdoptable
    <3> QED BY Zenon, <1>1, <1>3, <3>1, AcceptedNewer, LoadMoves
  <2> QED BY Zenon, <2>1, <2>2
<1>6. Owes(e)'
  <2>1. floor[e] > 0 => canon'[e].rev > 0
    BY Zenon, <1>3, <1>4, <1>5, PositiveUp DEF Owes
  <2>2. debt[e] \/ floor[e] <= canon'[e].rev
    <3>1. debt[e] \/ floor[e] <= canon[e].rev
      BY Zenon, <1>3 DEF Owes
    <3> QED BY Zenon, <1>4, <1>5, <3>1, Between
  <2> QED BY Zenon, <1>2, <1>5, <2>1, <2>2 DEF Owes
<1>7. OnlyEngine(e)
  BY Zenon, <1>2, <1>5 DEF OnlyEngine, Still
<1>8. OnlyFuture(c) /\ Owed(c)'
  <2>1. CASE End(c)
    BY Zenon, <2>1, LeaveOwed DEF End
  <2>2. CASE pc'[c] = "snapshot" /\ kind'[c] = kind[c] /\ base'[c] = base[c]
    <3>1. base[c] = None => floor'[e] <= canon'[e].rev
      <4>1. base[c] = None => floor[e] <= canon[e].rev
        BY Zenon, <1>2 DEF Owed, Covered
      <4> QED BY Zenon, <1>2, <1>4, <1>5, <4>1, Between
    <3> QED BY Zenon, <1>2, <1>5, <2>2, <3>1, PassOwed, RetryAlone
  <2> QED BY Zenon, <1>2, <2>1, <2>2, RetryAlone
<1> QED BY Zenon, <1>3, <1>6, <1>7, <1>8 DEF Settles

\* Every step of a future settles.
LEMMA FutureSettles ==
    ASSUME TypeOK, TypeOK', LocalInv, NEW c \in Callers, Owes(Owner[c]), Owed(c), Poll(c) \/ Host(c)
    PROVE  Settles(c)
<1>1. CASE Poll(c)
  <2>1. IssueStale(c) => Settles(c)
    BY Zenon, QuietEnds, EndsSettle, QuietSettle
  <2>2. ReconcileFailed(c) \/ SnapshotEnds(c) \/ SaveErrors(c) \/ SaveFailed(c) => Settles(c)
    BY Zenon, QuietEnds, EndsSettle
  <2>6. ConflictFailed(c) \/ LoadRejected(c) => Settles(c)
    BY Zenon, QuietEnds, EndsSettle
  <2>3. Reload(c) \/ Snapshot(c) \/ SaveConflicts(c) \/ Conflicted(c) => Settles(c)
    BY Zenon, QuietSettle
  <2>4. Reconciled(c) \/ Issue(c) \/ SaveCommits(c) \/ SaveAmbiguous(c) \/ Saved(c) => Settles(c)
    BY Zenon, ReconcileSettles, IssueSettles, CommitSettles, SavedSettles
  <2>5. ConflictMissing(c) \/ ConflictReloaded(c) \/ LoadRegistered(c) => Settles(c)
    BY Zenon, ConflictSettles, LoadSettles
  <2> QED BY Zenon, <1>1, <2>1, <2>2, <2>3, <2>4, <2>5, <2>6 DEF Poll
<1>2. CASE Host(c)
  <2>1. DropFuture(c) \/ TurnEnds(c) => Settles(c)
    BY Zenon, QuietEnds, EndsSettle
  <2>2. ASSUME NEW k \in Operations, Admit(c, k) \/ LoadBegin(c, k) \/ CommitBegin(c, k) PROVE Settles(c)
    BY Zenon, <2>2, AdmitSettles, QuietSettle
  <2> QED BY Zenon, <1>2, <2>1, <2>2 DEF Host
<1> QED BY Zenon, <1>1, <1>2

-----------------------------------------------------------------------------
(* The debt under every step, and what a save may recreate.                *)

\* Futures that do not move, over engines that grow.
LEMMA AllGrow ==
    ASSUME TypeOK, TypeOK', LocalInv, \A e \in Engines : Owes(e), \A d \in Callers : Owed(d),
           UNCHANGED opVars, \A e \in Engines : Grows(e)
    PROVE  (\A e \in Engines : Owes(e)') /\ (\A d \in Callers : Owed(d)')
<1>1. \A d \in Callers : SameFuture(d) /\ Owner[d] \in Engines
  BY Zenon, OwnerAssumption DEF SameFuture, opVars
<1> QED BY Zenon, <1>1, OwesGrows, OwedStays

\* Engines that do not move either.
LEMMA NoneMoves ==
    ASSUME TypeOK, TypeOK', LocalInv, \A e \in Engines : Owes(e), \A d \in Callers : Owed(d),
           UNCHANGED <<stateVars, opVars>>
    PROVE  (\A e \in Engines : Owes(e)') /\ (\A d \in Callers : Owed(d)')
<1>1. \A e \in Engines : Still(e)
  BY Zenon DEF Still, stateVars
<1> QED BY Zenon, <1>1, StillGrows, AllGrow

\* The last owner of a state takes its debt with it.
LEMMA DropOwed ==
    ASSUME TypeOK, TypeOK', LocalInv, \A e \in Engines : Owes(e), \A d \in Callers : Owed(d),
           NEW e \in Engines, DropState(e)
    PROVE  (\A f \in Engines : Owes(f)') /\ (\A d \in Callers : Owed(d)')
<1>1. /\ canon'[e] = None /\ floor'[e] = 0 /\ UNCHANGED opVars
      /\ \A f \in Engines \ {e} : Still(f)
  BY Zenon DEF DropState, Still, TypeOK
<1>2. Owes(e)'
  BY Zenon, <1>1, Least DEF Owes
<1>3. \A f \in Engines \ {e} : Grows(f) /\ Owes(f)'
  BY Zenon, <1>1, StillGrows, OwesGrows
<1>4. ASSUME NEW d \in Callers PROVE Owed(d)'
  <2>1. SameFuture(d) /\ Owner[d] \in Engines
    BY Zenon, <1>1, OwnerAssumption DEF SameFuture, opVars
  <2>2. Holding(d) => Owner[d] # e
    BY Zenon DEF DropState, Holding
  <2> QED BY Zenon, <1>3, <2>1, <2>2, OwedStays
<1> QED BY Zenon, <1>2, <1>3, <1>4

\* A new state owes nothing.
LEMMA CreateOwed ==
    ASSUME TypeOK, TypeOK', LocalInv, \A e \in Engines : Owes(e), \A d \in Callers : Owed(d),
           NEW e \in Engines, NEW i \in Incarnations, create_session(e, i)
    PROVE  (\A f \in Engines : Owes(f)') /\ (\A d \in Callers : Owed(d)')
<1>1. canon[e] = None /\ UNCHANGED <<opVars, persisted, debt, floor>> /\ canon' = [canon EXCEPT ![e] = empty(i)]
  BY Zenon DEF create_session
<1>2. floor'[e] = 0
  BY Zenon, <1>1 DEF Owes
<1>3. Owes(e)'
  <2>1. canon'[e] # None => canon'[e].rev \in Nat
    BY Zenon, Counters
  <2> QED BY Zenon, <1>2, <2>1, Least DEF Owes
<1>4. \A f \in Engines \ {e} : Grows(f) /\ Owes(f)'
  <2>1. \A f \in Engines \ {e} : Still(f)
    BY Zenon, <1>1 DEF Still, TypeOK
  <2> QED BY Zenon, <2>1, StillGrows, OwesGrows
<1>5. ASSUME NEW d \in Callers PROVE Owed(d)'
  <2>1. SameFuture(d) /\ Owner[d] \in Engines
    BY Zenon, <1>1, OwnerAssumption DEF SameFuture, opVars
  <2>2. Holding(d) => Owner[d] # e
    BY Zenon, <1>1 DEF LocalInv, Local
  <2> QED BY Zenon, <1>4, <2>1, <2>2, OwedStays
<1> QED BY Zenon, <1>3, <1>4, <1>5

\* Every step of the engines and of the store.
LEMMA EngineOwed ==
    ASSUME TypeOK, TypeOK', LocalInv, LeaseInv,
           \A e \in Engines : Owes(e), \A d \in Callers : Owed(d), [Next]_vars
    PROVE  (\A e \in Engines : Owes(e)') /\ (\A d \in Callers : Owed(d)')
<1> DEFINE Goal == (\A e \in Engines : Owes(e)') /\ (\A d \in Callers : Owed(d)')
<1>1. ASSUME NEW c \in Callers, Poll(c) \/ Host(c) PROVE Goal
  <2>1. Owner[c] \in Engines
    BY Zenon, OwnerAssumption
  <2>2. Settles(c)
    BY Zenon, <1>1, <2>1, FutureSettles
  <2> QED BY Zenon, <2>2, CallerFrame DEF Settles
<1>2. ASSUME NEW e \in Engines, DropState(e) PROVE Goal
  BY Zenon, <1>2, DropOwed
<1>3. ASSUME NEW e \in Engines, NEW i \in Incarnations, create_session(e, i) PROVE Goal
  BY Zenon, <1>3, CreateOwed
<1>4. ASSUME NEW i \in Incarnations, publish_initial_record(i) \/ reset_record(i) PROVE Goal
  <2>1. UNCHANGED <<stateVars, opVars>>
    BY Zenon, <1>4 DEF publish_initial_record, reset_record
  <2> QED BY Zenon, <2>1, NoneMoves
<1>5. CASE LoseRecord \/ UNCHANGED vars
  <2>1. UNCHANGED <<stateVars, opVars>>
    BY Zenon, <1>5 DEF LoseRecord, vars
  <2> QED BY Zenon, <2>1, NoneMoves
<1> QED BY Zenon, <1>1, <1>2, <1>3, <1>4, <1>5 DEF Next

\* An edit left unconfirmed raises the floor and arms the debt together.
LEMMA FailOwed ==
    ASSUME EInv, EInv', DebtInv, NEW x \in Editors, EditFails(x)
    PROVE  (\A e \in Engines : Owes(e)') /\ (\A d \in Callers : Owed(d)')
<1> DEFINE e == Home[x]
<1>1. TypeOK /\ TypeOK' /\ LocalInv /\ e \in Engines
  BY Zenon, EditorAssumption DEF EInv, IInv
<1>2. canon' = canon /\ persisted' = persisted /\ UNCHANGED opVars
  BY Zenon DEF EditFails
<1>3. /\ \A f \in Engines : debt[f] => debt'[f]
      /\ Owing(x) => debt'[e]
  BY Zenon, <1>1 DEF EditFails, Rearm, TypeOK
<1>4. CASE floor' = floor
  <2>1. ASSUME NEW f \in Engines PROVE Grows(f)
    <3>1. canon[f] # None => canon[f].rev \in Nat
      BY Zenon, <1>1, Counters
    <3> QED BY Zenon, <1>2, <1>3, <1>4, <3>1, Least DEF Grows
  <2> QED BY Zenon, <1>1, <1>2, <2>1, AllGrow DEF DebtInv
<1>5. CASE floor' # floor
  <2>1. /\ place[x] = "saved" /\ floor' = [floor EXCEPT ![e] = answer[x].rev]
        /\ \A c \in Callers : Owner[c] = e /\ Holding(c) => base[c] # None
    BY Zenon, <1>5 DEF EditFails, RaiseEditFloor
  <2>2. Active(x) /\ EditLocal(x) /\ Ahead(x)
    BY Zenon, <2>1 DEF EInv, DebtInv, Active
  <2>3. canon[e] # None /\ current[x] # None /\ current[x].rev > 0 /\ current[x].rev <= canon[e].rev
    BY Zenon, <2>1, <2>2 DEF EditLocal, Ahead, Based
  <2>4. current[x].rev \in Nat /\ canon[e].rev \in Nat
    BY Zenon, <1>1, <2>3, Counters, RecordFields DEF EInv, EditTypeOK
  <2>5. canon[e].rev > 0
    BY Zenon, <2>3, <2>4, PositiveUp
  <2>6. debt'[e]
    BY Zenon, <1>3, <2>1, <2>3 DEF Owing
  <2>7. Owes(e)'
    BY Zenon, <1>2, <2>3, <2>5, <2>6 DEF Owes
  <2>8. ASSUME NEW f \in Engines \ {e} PROVE Grows(f) /\ Owes(f)'
    <3>1. floor'[f] = floor[f]
      BY Zenon, <1>1, <2>1 DEF TypeOK
    <3>2. canon[f] # None => canon[f].rev \in Nat
      BY Zenon, <1>1, Counters
    <3>3. Grows(f)
      BY Zenon, <1>2, <1>3, <3>1, <3>2, Least DEF Grows
    <3> QED BY Zenon, <1>1, <3>3, OwesGrows DEF DebtInv
  <2>9. ASSUME NEW d \in Callers PROVE Owed(d)'
    <3>1. SameFuture(d) /\ Owner[d] \in Engines /\ Owed(d)
      BY Zenon, <1>2, OwnerAssumption DEF SameFuture, opVars, DebtInv
    <3>2. CASE Owner[d] = e /\ Holding(d)
      <4>1. base[d] # None
        BY Zenon, <2>1, <3>2
      <4> QED BY Zenon, <1>2, <2>6, <3>1, <3>2, <4>1 DEF Owed, SameFuture, Holding
    <3>3. CASE ~(Owner[d] = e /\ Holding(d))
      BY Zenon, <1>1, <2>8, <3>1, <3>3, OwedStays
    <3> QED BY Zenon, <3>2, <3>3
  <2> QED BY Zenon, <2>7, <2>8, <2>9
<1> QED BY Zenon, <1>4, <1>5

\* An editor that reloads, issues or sees its save makes its engine grow.
LEMMA EditorGrows ==
    ASSUME EInv, EInv', NEW x \in Editors, EditReloaded(x) \/ EditIssue(x) \/ EditSaved(x)
    PROVE  UNCHANGED opVars /\ \A f \in Engines : Grows(f)
<1> DEFINE e == Home[x]
<1>1. TypeOK /\ TypeOK' /\ e \in Engines /\ EditLocal(x)
  BY Zenon, EditorAssumption DEF EInv, IInv
<1>2. Active(x) /\ UNCHANGED <<opVars, floor>>
  BY Zenon DEF EditReloaded, EditIssue, EditSaved, Active
<1>3. canon[e] # None /\ canon[e].rev \in Nat
  BY Zenon, <1>1, <1>2, Counters DEF EditLocal
<1>4. \A f \in Engines : debt[f] => debt'[f]
  <2>1. EditReloaded(x) => Rearm(x)
    BY Zenon DEF EditReloaded
  <2>2. Rearm(x) => \A f \in Engines : debt[f] => debt'[f]
    BY Zenon, <1>1 DEF Rearm, TypeOK
  <2>3. EditIssue(x) \/ EditSaved(x) => \A f \in Engines : debt[f] => debt'[f]
    BY Zenon, <1>1 DEF EditIssue, EditSaved, TypeOK
  <2> QED BY Zenon, <2>1, <2>2, <2>3
<1>5. ASSUME canon' = canon, persisted' = persisted, NEW f \in Engines PROVE Grows(f)
  <2>1. canon[f] # None => canon[f].rev \in Nat
    BY Zenon, <1>1, Counters
  <2> QED BY Zenon, <1>2, <1>4, <1>5, <2>1, Least DEF Grows
<1>6. ASSUME NEW f \in Engines \ {e}, canon'[f] = canon[f], persisted'[f] = persisted[f] PROVE Grows(f)
  <2>1. canon[f] # None => canon[f].rev \in Nat
    BY Zenon, <1>1, Counters
  <2> QED BY Zenon, <1>2, <1>4, <1>6, <2>1, Least DEF Grows
<1>7. CASE EditReloaded(x) /\ LoadAcceptable(e, answer[x])
  <2>1. reconcile_loaded(e, answer[x])
    BY Zenon, <1>7 DEF EditReloaded
  <2>2. canon'[e] # None /\ canon[e].rev <= canon'[e].rev /\ persisted'[e]
    BY Zenon, <1>1, <1>3, <1>7, <2>1, AcceptedNewer, LoadMoves
  <2>3. \A f \in Engines \ {e} : canon'[f] = canon[f] /\ persisted'[f] = persisted[f]
    BY Zenon, <1>1, <2>1, LoadMoves
  <2>4. Grows(e)
    BY Zenon, <1>1, <1>2, <1>4, <2>2 DEF Grows
  <2> QED BY Zenon, <1>2, <1>6, <2>3, <2>4
<1>8. CASE EditReloaded(x) /\ ~LoadAcceptable(e, answer[x])
  <2>1. canon' = canon /\ persisted' = persisted
    BY Zenon, <1>8 DEF EditReloaded
  <2> QED BY Zenon, <1>2, <1>5, <2>1
<1>9. CASE EditIssue(x)
  <2>1. canon' = canon /\ persisted' = persisted
    BY Zenon, <1>9 DEF EditIssue
  <2> QED BY Zenon, <1>2, <1>5, <2>1
<1>10. CASE EditSaved(x)
  <2>1. answer[x] \in Record /\ reconcile_saved(e, answer[x])
    BY Zenon, <1>10 DEF EditSaved, SaveAcceptable
  <2>2. answer[x] # None
    BY Zenon, <2>1, RecordFields
  <2>3. /\ canon[e].rev <= answer[x].rev => canon'[e] = answer[x] /\ persisted'[e]
        /\ ~(canon[e].rev <= answer[x].rev) => canon'[e] = canon[e] /\ persisted'[e] = persisted[e]
        /\ \A f \in Engines \ {e} : canon'[f] = canon[f] /\ persisted'[f] = persisted[f]
    BY Zenon, <1>1, <2>1, SaveMoves
  <2>4. Grows(e)
    <3>1. CASE canon[e].rev <= answer[x].rev
      BY Zenon, <1>1, <1>2, <1>4, <2>2, <2>3, <3>1 DEF Grows
    <3>2. CASE ~(canon[e].rev <= answer[x].rev)
      BY Zenon, <1>1, <1>2, <1>3, <1>4, <2>3, <3>2, Least DEF Grows
    <3> QED BY Zenon, <3>1, <3>2
  <2> QED BY Zenon, <1>2, <1>6, <2>3, <2>4
<1> QED BY Zenon, <1>7, <1>8, <1>9, <1>10

\* Every step of an editor.
LEMMA EditorOwed ==
    ASSUME EInv, EInv', DebtInv, NEW x \in Editors,
           \/ EditPoll(x)
           \/ \E c \in Callers : read_entry(x, c)
           \/ \E v \in Values : compare_exchange(x, v)
    PROVE  (\A e \in Engines : Owes(e)') /\ (\A d \in Callers : Owed(d)')
<1> DEFINE Goal == (\A e \in Engines : Owes(e)') /\ (\A d \in Callers : Owed(d)')
<1>1. TypeOK /\ TypeOK' /\ LocalInv
  BY Zenon DEF EInv, IInv
<1>2. ASSUME UNCHANGED <<stateVars, opVars>> PROVE Goal
  BY Zenon, <1>1, <1>2, NoneMoves DEF DebtInv
<1>3. CASE \/ (\E c \in Callers : read_entry(x, c)) \/ (\E v \in Values : compare_exchange(x, v))
  <2>1. UNCHANGED vars
    BY Zenon, <1>3 DEF read_entry, compare_exchange
  <2> QED BY Zenon, <1>2, <2>1 DEF vars
<1>4. CASE EditPass(x) \/ EditStale(x) \/ EditConflicts(x) \/ EditConflicted(x)
  <2>1. UNCHANGED vars
    BY Zenon, <1>4 DEF EditPass, EditStale, EditConflicts, EditConflicted
  <2> QED BY Zenon, <1>2, <2>1 DEF vars
<1>5. CASE EditCommits(x)
  <2>1. UNCHANGED <<stateVars, opVars>>
    BY Zenon, <1>5 DEF EditCommits
  <2> QED BY Zenon, <1>2, <2>1
<1>6. CASE EditReloaded(x) \/ EditIssue(x) \/ EditSaved(x)
  BY Zenon, <1>1, <1>6, EditorGrows, AllGrow DEF DebtInv
<1>7. CASE EditFails(x)
  BY Zenon, <1>7, FailOwed
<1> QED BY Zenon, <1>3, <1>4, <1>5, <1>6, <1>7 DEF EditPoll

\* An editor's record stays one its engine has seen: canonical records advance.
LEMMA AheadKept ==
    ASSUME EInv, EInv', [EditNext]_allVars, NEW x \in Editors, Ahead(x),
           place'[x] \in {"issue", "save", "saved"} =>
               place[x] \in {"issue", "save", "saved"} /\ current'[x] = current[x]
    PROVE  Ahead(x)'
<1> SUFFICES ASSUME place'[x] \in {"issue", "save", "saved"}
             PROVE  current'[x].rev <= canon'[Home[x]].rev
  BY Zenon DEF Ahead
<1> DEFINE e == Home[x]
<1>1. TypeOK /\ TypeOK' /\ e \in Engines /\ EditLocal(x) /\ EditLocal(x)'
  BY Zenon, EditorAssumption DEF EInv, IInv
<1>2. Active(x) /\ Active(x)' /\ current[x] # None
  BY Zenon, <1>1 DEF Active, EditLocal, Based
<1>3. canon[e] # None /\ canon'[e] # None
  BY Zenon, <1>1, <1>2 DEF EditLocal
<1>4. current[x].rev \in Nat /\ canon[e].rev \in Nat /\ canon'[e].rev \in Nat
  BY Zenon, <1>1, <1>2, <1>3, Counters, RecordFields DEF EInv, EditTypeOK
<1>5. current[x].rev <= canon[e].rev /\ current'[x] = current[x]
  BY Zenon DEF Ahead
<1>6. canon[e].rev <= canon'[e].rev
  <2>1. canon'[e].rev >= canon[e].rev
    BY Zenon, <1>1, <1>3, EditAdvances DEF Advances
  <2>2. \A n, m \in Nat : n >= m => m <= n
    OBVIOUS
  <2> QED BY Zenon, <1>4, <2>1, <2>2
<1> QED BY Zenon, <1>4, <1>5, <1>6, Between

\* The editors that do not move.
LEMMA OthersAhead ==
    ASSUME EInv, EInv', DebtInv, [EditNext]_allVars, NEW x \in Editors, OthersKept(x), Ahead(x)'
    PROVE  \A y \in Editors : Ahead(y)'
<1> SUFFICES ASSUME NEW y \in Editors \ {x} PROVE Ahead(y)'
  BY Zenon
<1>1. place'[y] = place[y] /\ current'[y] = current[y]
  BY Zenon DEF OthersKept
<1> QED BY Zenon, <1>1, AheadKept DEF DebtInv

\* Where a step takes an editor, and which record it then works on.
LEMMA EditorMoves ==
    ASSUME EditTypeOK, NEW x \in Editors
    PROVE  /\ \A c \in Callers : read_entry(x, c) => OthersKept(x) /\ place'[x] = "loaded"
           /\ \A v \in Values : compare_exchange(x, v) => OthersKept(x) /\ place'[x] \in {"loaded", "pass"}
           /\ EditReloaded(x) => OthersKept(x) /\ place'[x] \in {"read", "pass", "idle"}
           /\ EditPass(x) => OthersKept(x) /\ current'[x] = canon[Home[x]] /\ canon' = canon
           /\ EditIssue(x) => OthersKept(x) /\ place[x] = "issue" /\ current' = current
           /\ EditStale(x) => OthersKept(x) /\ place'[x] = "pass"
           /\ EditCommits(x) \/ EditConflicts(x) => OthersKept(x) /\ place[x] = "save" /\ current' = current
           /\ EditSaved(x) \/ EditFails(x) => OthersKept(x) /\ place'[x] = "idle"
           /\ EditConflicted(x) => OthersKept(x) /\ place'[x] = "loaded"
<1> USE DEF EditTypeOK, OthersKept, Move
<1>1. \A c \in Callers : read_entry(x, c) => OthersKept(x) /\ place'[x] = "loaded"
  BY Zenon DEF read_entry
<1>2. ASSUME NEW v \in Values, compare_exchange(x, v)
      PROVE  OthersKept(x) /\ place'[x] \in {"loaded", "pass"}
  <2>1. /\ change' = [change EXCEPT ![x] = [expected[x] EXCEPT !.meta = v]]
        /\ answer' = [answer EXCEPT ![x] = stored] \/ answer' = answer
        /\ UNCHANGED <<within, expected, current>>
    BY Zenon, <1>2 DEF compare_exchange
  <2>2. place' = [place EXCEPT ![x] = "loaded"] \/ place' = [place EXCEPT ![x] = "pass"]
    BY Zenon, <1>2 DEF compare_exchange
  <2>3. place'[x] \in {"loaded", "pass"} /\ \A y \in Editors \ {x} : place'[y] = place[y]
    BY Zenon, <2>2
  <2>4. \A y \in Editors \ {x} : change'[y] = change[y] /\ answer'[y] = answer[y]
    BY Zenon, <2>1
  <2> QED BY Zenon, <2>1, <2>3, <2>4
<1>3. Finish(x) => OthersKept(x) /\ place'[x] = "idle"
  BY Zenon DEF Finish
<1>4. ASSUME EditReloaded(x) PROVE OthersKept(x) /\ place'[x] \in {"read", "pass", "idle"}
  <2>1. CASE Finish(x)
    BY Zenon, <1>3, <2>1
  <2>2. CASE ~Finish(x)
    <3>1. /\ answer' = [answer EXCEPT ![x] = None] /\ current' = [current EXCEPT ![x] = None]
          /\ UNCHANGED <<within, change>>
          /\ \/ expected' = [expected EXCEPT ![x] = canon'[Home[x]]] /\ place' = [place EXCEPT ![x] = "read"]
             \/ place' = [place EXCEPT ![x] = "pass"] /\ UNCHANGED expected
      BY Zenon, <1>4, <2>2 DEF EditReloaded
    <3> QED BY Zenon, <3>1
  <2> QED BY Zenon, <2>1, <2>2
<1>5. EditPass(x) => OthersKept(x) /\ current'[x] = canon[Home[x]] /\ canon' = canon
  BY Zenon DEF EditPass, vars, stateVars
<1>6. EditIssue(x) => OthersKept(x) /\ place[x] = "issue" /\ current' = current
  BY Zenon DEF EditIssue
<1>7. EditStale(x) => OthersKept(x) /\ place'[x] = "pass"
  BY Zenon DEF EditStale
<1>8. EditCommits(x) \/ EditConflicts(x) => OthersKept(x) /\ place[x] = "save" /\ current' = current
  BY Zenon DEF EditCommits, EditConflicts
<1>9. EditSaved(x) \/ EditFails(x) => Finish(x)
  BY Zenon DEF EditSaved, EditFails
<1>10. EditConflicted(x) => OthersKept(x) /\ place'[x] = "loaded"
  BY Zenon DEF EditConflicted
<1> QED BY Zenon, <1>1, <1>2, <1>3, <1>4, <1>5, <1>6, <1>7, <1>8, <1>9, <1>10

\* The editors stay behind their engines.
LEMMA AheadStep ==
    ASSUME EInv, EInv', DebtInv, [EditNext]_allVars PROVE \A y \in Editors : Ahead(y)'
<1> DEFINE Goal == \A y \in Editors : Ahead(y)'
<1>1. CASE EngineStep \/ UNCHANGED allVars
  <2>1. UNCHANGED <<place, current>>
    BY Zenon, <1>1 DEF EngineStep, allVars, editVars
  <2> QED BY Zenon, <2>1, AheadKept DEF DebtInv
<1>2. ASSUME NEW x \in Editors,
             \/ EditPoll(x)
             \/ \E c \in Callers : read_entry(x, c)
             \/ \E v \in Values : compare_exchange(x, v)
      PROVE  Goal
  <2>1. EditTypeOK /\ TypeOK /\ TypeOK' /\ Home[x] \in Engines /\ Ahead(x)
    BY Zenon, EditorAssumption DEF EInv, IInv, DebtInv
  <2>2. ASSUME OthersKept(x), place'[x] \notin {"issue", "save", "saved"} PROVE Goal
    <3>1. Ahead(x)'
      BY Zenon, <2>2 DEF Ahead
    <3> QED BY Zenon, <2>2, <3>1, OthersAhead
  <2>3. ASSUME OthersKept(x), place[x] \in {"issue", "save"}, current' = current PROVE Goal
    <3>1. Ahead(x)'
      BY Zenon, <2>1, <2>3, AheadKept
    <3> QED BY Zenon, <2>3, <3>1, OthersAhead
  <2>4. CASE EditPass(x)
    <3>1. OthersKept(x) /\ current'[x] = canon'[Home[x]]
      BY Zenon, <2>1, <2>4, EditorMoves
    <3>2. place'[x] \in {"issue", "save", "saved"} => canon'[Home[x]] # None
      BY Zenon DEF EInv, EditLocal, Active
    <3>3. Ahead(x)'
      BY Zenon, <2>1, <3>1, <3>2, Counters, Least DEF Ahead
    <3> QED BY Zenon, <3>1, <3>3, OthersAhead
  <2>5. CASE (\E c \in Callers : read_entry(x, c)) \/ (\E v \in Values : compare_exchange(x, v))
    BY Zenon, <2>1, <2>2, <2>5, EditorMoves
  <2>6. CASE EditIssue(x) \/ EditCommits(x) \/ EditConflicts(x)
    BY Zenon, <2>1, <2>3, <2>6, EditorMoves
  <2>7. CASE EditReloaded(x) \/ EditStale(x) \/ EditConflicted(x)
    BY Zenon, <2>1, <2>2, <2>7, EditorMoves
  <2>8. CASE EditSaved(x) \/ EditFails(x)
    BY Zenon, <2>1, <2>2, <2>8, EditorMoves
  <2> QED BY Zenon, <1>2, <2>4, <2>5, <2>6, <2>7, <2>8 DEF EditPoll
<1> QED BY Zenon, <1>1, <1>2 DEF EditNext

\* Every step keeps the account of the debts.
LEMMA DebtStep == EInv /\ EInv' /\ DebtInv /\ [EditNext]_allVars => DebtInv'
<1> SUFFICES ASSUME EInv, EInv', DebtInv, [EditNext]_allVars PROVE DebtInv'
  BY Zenon
<1>1. TypeOK /\ TypeOK' /\ LocalInv /\ LeaseInv
  BY Zenon DEF EInv, IInv
<1>2. CASE EngineStep \/ UNCHANGED allVars
  <2>1. [Next]_vars
    BY Zenon, <1>2 DEF EngineStep, allVars
  <2>2. (\A e \in Engines : Owes(e)') /\ (\A d \in Callers : Owed(d)')
    BY Zenon, <1>1, <2>1, EngineOwed DEF DebtInv
  <2> QED BY Zenon, <2>2, AheadStep DEF DebtInv
<1>3. ASSUME NEW x \in Editors,
             \/ EditPoll(x)
             \/ \E c \in Callers : read_entry(x, c)
             \/ \E v \in Values : compare_exchange(x, v)
      PROVE  DebtInv'
  <2>1. (\A e \in Engines : Owes(e)') /\ (\A d \in Callers : Owed(d)')
    BY Zenon, <1>3, EditorOwed
  <2> QED BY Zenon, <2>1, AheadStep DEF DebtInv
<1> QED BY Zenon, <1>2, <1>3 DEF EditNext

\* At first nobody owes anything.
LEMMA InitDebt == EditInit => DebtInv
<1> SUFFICES ASSUME EditInit PROVE DebtInv
  BY Zenon
<1>1. \A e \in Engines : canon[e] = None /\ floor[e] = 0
  BY Zenon DEF EditInit, Init
<1>2. \A e \in Engines : Owes(e)
  BY Zenon, <1>1, Least DEF Owes
<1>3. \A c \in Callers : pc[c] = "idle" /\ base[c] = None
  BY Zenon DEF EditInit, Init
<1>4. \A c \in Callers : Owed(c)
  BY Zenon, <1>3 DEF Owed, Covered
<1>5. \A x \in Editors : Ahead(x)
  BY Zenon DEF EditInit, Ahead
<1> QED BY Zenon, <1>2, <1>4, <1>5 DEF DebtInv

\* A save that finds no record recreates nothing older than an edit whose outcome
\* its engine never learned (reconcile_uncertain_metadata: a debt makes the next
\* operation look first, and a missing record then fails it).
LEMMA RecreatesNewer ==
    ASSUME TypeOK, TypeOK', LocalInv, NEW c \in Callers, Owed(c), SaveEffect(c), stored = Missing
    PROVE  cand[c].rev >= floor[Owner[c]]
<1>1. pc[c] = "save" /\ ~was[c]
  BY Zenon DEF SaveEffect, Admits
<1>2. base[c] = None
  BY Zenon, <1>1 DEF Owed
<1>3. floor[Owner[c]] <= snap[c].rev
  BY Zenon, <1>1, <1>2 DEF Owed, Covered
<1>4. snap[c] # None /\ cand[c].rev = snap[c].rev
  BY Zenon, <1>1 DEF LocalInv, Local, CandidateOK
<1>5. snap[c].rev \in Nat /\ floor[Owner[c]] \in Nat
  BY Zenon, <1>4, OwnerAssumption, Counters, RecordFields DEF TypeOK
<1>6. \A n, m \in Nat : n <= m => m >= n
  OBVIOUS
<1> QED BY Zenon, <1>3, <1>4, <1>5, <1>6

\* Editors leave the futures alone, and of the store all but what they publish.
LEMMA EditorsLeave ==
    ASSUME [EditNext]_allVars
    PROVE  /\ [Next]_vars \/ UNCHANGED opVars
           /\ [Next]_vars \/ UNCHANGED storeVars \/ \E x \in Editors : EditCommits(x)
<1> DEFINE Left == UNCHANGED opVars /\ UNCHANGED storeVars
<1>1. ASSUME NEW x \in Editors,
             \/ EditPoll(x)
             \/ \E d \in Callers : read_entry(x, d)
             \/ \E v \in Values : compare_exchange(x, v)
      PROVE  Left \/ (UNCHANGED opVars /\ EditCommits(x))
  <2>1. UNCHANGED vars => Left
    BY Zenon DEF vars
  <2>2. (\E d \in Callers : read_entry(x, d)) \/ (\E v \in Values : compare_exchange(x, v)) => UNCHANGED vars
    BY Zenon DEF read_entry, compare_exchange
  <2>3. EditPass(x) \/ EditStale(x) \/ EditConflicts(x) \/ EditConflicted(x) => UNCHANGED vars
    BY Zenon DEF EditPass, EditStale, EditConflicts, EditConflicted
  <2>4. EditIssue(x) \/ EditSaved(x) \/ EditFails(x) => Left
    BY Zenon DEF EditIssue, EditSaved, EditFails
  <2>5. EditReloaded(x) => Left
    BY Zenon DEF EditReloaded
  <2>6. EditCommits(x) => UNCHANGED opVars
    BY Zenon DEF EditCommits
  <2> QED BY Zenon, <1>1, <2>1, <2>2, <2>3, <2>4, <2>5, <2>6 DEF EditPoll
<1>2. EngineStep \/ UNCHANGED allVars => [Next]_vars
  BY Zenon DEF EngineStep, allVars
<1> QED BY Zenon, <1>1, <1>2 DEF EditNext

\* Only a save of an engine commits.
LEMMA CommitIsEngine ==
    ASSUME [EditNext]_allVars, NEW c \in Callers, Commits(c) PROVE [Next]_vars
<1>1. ~UNCHANGED opVars
  BY Zenon DEF Commits, opVars
<1> QED BY Zenon, <1>1, EditorsLeave

\* After an uncertain edit a vanished record is not recreated from an older one,
\* whatever turns and editors do in between (reconcile_uncertain_metadata: "A
\* missing persisted record is not permission to recreate it after an uncertain
\* edit").
THEOREM UncertainEditsSurvive == EditSpec => UncertainEditSurvives
<1> DEFINE Newer == \A c \in Callers : Commits(c) /\ stored = Missing => cand[c].rev >= floor[Owner[c]]
<1>1. EditInit => EInv /\ DebtInv
  BY Zenon, InitEInv, InitDebt
<1>2. EInv /\ DebtInv /\ [EditNext]_allVars => (EInv /\ DebtInv)'
  BY Zenon, StepEInv, DebtStep
<1>3. ASSUME EInv, DebtInv, EInv', [EditNext]_allVars PROVE [Newer]_vars
  <2>1. TypeOK /\ TypeOK' /\ LocalInv
    BY Zenon, <1>3 DEF EInv, IInv
  <2>2. ASSUME NEW c \in Callers, Commits(c), stored = Missing PROVE cand[c].rev >= floor[Owner[c]]
    <3>1. SaveEffect(c)
      BY Zenon, <1>3, <2>1, <2>2, CommitIsEngine, CommitIsSave
    <3> QED BY Zenon, <1>3, <2>1, <2>2, <3>1, RecreatesNewer DEF DebtInv
  <2> QED BY Zenon, <2>2
<1>4. UncertainEditSurvives <=> [][Newer]_vars
  BY DEF UncertainEditSurvives
<1> HIDE DEF Newer
<1> QED BY <1>1, <1>2, <1>3, <1>4, PTL DEF EditSpec

-----------------------------------------------------------------------------
(* What the engines promise they also promise beside the editors.          *)

\* Canonical records and live turns' commits are never ahead of the store, edits
\* that were confirmed or reloaded included (reload, the reconcile_saved of an edit).
THEOREM EditBeliefsDurable == EditSpec => []BeliefsAreDurable
<1>1. EInv => BeliefsAreDurable
  BY Zenon, BeliefsFollow DEF EInv
<1> QED BY <1>1, EditInvariance, PTL

\* A save of an engine overwrites exactly the record its candidate was built from,
\* though editors publish between its snapshot and its save.
THEOREM NoEditIsLost == EditSpec => NoLostUpdate
<1> DEFINE Seen == \A c \in Callers : Commits(c) /\ stored # Missing /\ losses = 0 => stored = snap[c]
<1>1. ASSUME EInv, [EditNext]_allVars PROVE [Seen]_vars
  <2>1. IInv /\ TypeOK /\ LocalInv /\ StoreInv
    BY Zenon, <1>1 DEF EInv, IInv
  <2>2. ASSUME NEW c \in Callers, Commits(c), stored # Missing, losses = 0 PROVE stored = snap[c]
    <3>1. SaveEffect(c)
      BY Zenon, <1>1, <2>1, <2>2, CommitIsEngine, CommitIsSave
    <3> QED BY Zenon, <2>1, <2>2, <3>1, SaveSeesSnapshot
  <2> QED BY Zenon, <2>2
<1>2. NoLostUpdate <=> [][Seen]_vars
  BY DEF NoLostUpdate
<1> HIDE DEF Seen
<1> QED BY <1>1, <1>2, EditInvariance, PTL DEF EditSpec

\* An exchange publishes the transcript it found.
LEMMA EditKeepsTranscript ==
    ASSUME EInv, NEW x \in Editors, EditCommits(x), losses = 0
    PROVE  Keeps(stored'.msgs, stored.msgs)
<1>1. /\ stored \in Record /\ Based(x) /\ stored = current[x]
  BY Zenon, EditOverCurrent
<1>2. stored' = At(change[x], stored.rev + 1) /\ change[x] \in Record
  <2>1. change[x] \in Record
    BY Zenon DEF EInv, EditLocal, EditCommits, EditTypeOK
  <2> QED BY Zenon, <2>1, EditPublishes
<1>3. change[x].meta \in Callers \cup {None}
  BY Zenon, <1>2, RecordFields
<1>4. change[x].msgs = stored.msgs
  <2>1. [stored EXCEPT !.meta = change[x].meta].msgs = stored.msgs
    BY Zenon, <1>1, <1>3, WithMeta
  <2> QED BY Zenon, <1>1, <2>1 DEF Based
<1>5. stored'.msgs = stored.msgs
  <2>1. At(change[x], stored.rev + 1).msgs = change[x].msgs
    BY <1>2 DEF At, Record
  <2> QED BY Zenon, <1>2, <1>4, <2>1
<1>6. stored.msgs \in Seq(Messages)
  BY Zenon, <1>1 DEF Record
<1> QED BY Zenon, <1>5, <1>6, KeepsItself

\* Every save of an engine changes only what its operation is about, and the
\* durable transcript of an incarnation only grows, edits included.
THEOREM EditsLeaveCommitsAlone == EditSpec => CommitsTouchTheirOwn
<1> DEFINE Own(c) ==
             /\ kind[c] \notin Arming => stored'.meta = stored.meta
             /\ kind[c] = "update" => stored'.msgs = stored.msgs
             /\ stored'.seq = stored.seq + (IF kind[c] \in Reserving \cup Prepared THEN 1 ELSE 0)
           Both == /\ \A c \in Callers : Commits(c) /\ stored # Missing /\ losses = 0 => Own(c)
                   /\ stored # Missing /\ stored' # Missing /\ stored'.inc = stored.inc /\ losses = 0
                         => Keeps(stored'.msgs, stored.msgs)
<1>1. EditInit => EInv /\ TouchInv
  <2>1. Init => TouchInv
    BY Zenon DEF Init, TouchInv, Touched
  <2> QED BY Zenon, <2>1, InitEInv DEF EditInit
<1>2. ASSUME EInv, TouchInv, [EditNext]_allVars PROVE EInv' /\ TouchInv'
  <2>1. TypeOK /\ LocalInv
    BY Zenon, <1>2 DEF EInv, IInv
  <2>2. ASSUME UNCHANGED opVars PROVE TouchInv'
    <3>1. UNCHANGED <<pc, kind, snap, cand, base>>
      BY Zenon, <2>2 DEF opVars
    <3> QED BY Zenon, <1>2, <3>1 DEF TouchInv, Touched, Touches
  <2>3. EInv'
    BY Zenon, <1>2, StepEInv
  <2>4. [Next]_vars \/ UNCHANGED opVars
    BY Zenon, <1>2, EditorsLeave
  <2>5. [Next]_vars => TouchInv'
    BY Zenon, <1>2, <2>1, TouchStep
  <2> QED BY Zenon, <2>2, <2>3, <2>4, <2>5
<1>3. ASSUME EInv, TouchInv, [EditNext]_allVars PROVE [Both]_vars
  <2>1. IInv /\ TypeOK /\ LocalInv /\ StoreInv
    BY Zenon, <1>3 DEF EInv, IInv
  <2>2. ASSUME NEW c \in Callers, Commits(c), stored # Missing, losses = 0 PROVE Own(c)
    <3>1. SaveEffect(c)
      BY Zenon, <1>3, <2>1, <2>2, CommitIsEngine, CommitIsSave
    <3> QED BY Zenon, <1>3, <2>1, <2>2, <3>1, SaveTouches
  <2>3. ASSUME stored # Missing, stored' # Missing, stored'.inc = stored.inc, losses = 0
        PROVE  Keeps(stored'.msgs, stored.msgs)
    <3>1. CASE [Next]_vars
      BY Zenon, <1>3, <2>1, <2>3, <3>1, TranscriptKept
    <3>2. CASE UNCHANGED storeVars
      <4>1. stored' = stored /\ stored.msgs \in Seq(Messages)
        BY Zenon, <2>1, <2>3, <3>2 DEF storeVars, TypeOK, Record
      <4> QED BY Zenon, <4>1, KeepsItself
    <3>3. CASE \E x \in Editors : EditCommits(x)
      BY Zenon, <1>3, <2>3, <3>3, EditKeepsTranscript
    <3> QED BY Zenon, <1>3, <3>1, <3>2, <3>3, EditorsLeave
  <2> QED BY Zenon, <2>2, <2>3
<1>4. CommitsTouchTheirOwn <=> [][Both]_vars
  BY DEF CommitsTouchTheirOwn
<1> HIDE DEF Own, Both
<1> QED BY <1>1, <1>2, <1>3, <1>4, PTL DEF EditSpec

\* While the record file is not taken away, the saves of engines and of editors
\* are steps the store promises: no revision is published twice, though an editor
\* saves without its engine's lease (compare_exchange).
THEOREM EditorsImplementStore == EditSpec /\ [](losses = 0) => ImplementsStore
<1>1. EditInit => Store!StoreInit
  BY Zenon DEF EditInit, Init, Store!StoreInit
<1>2. ASSUME EInv, losses = 0, (losses = 0)', [EditNext]_allVars
      PROVE  [Store!StoreNext]_<<stored, IF stored = Missing THEN 0 ELSE stored.rev>>
  <2>1. CASE stored' = stored
    BY Zenon, <2>1
  <2>2. CASE Store!Replace
    BY Zenon, <2>2 DEF Store!StoreNext
  <2>3. CASE [Next]_vars
    BY Zenon, <1>2, <2>1, <2>2, <2>3, StoreReplaces DEF EInv
  <2>4. ASSUME NEW x \in Editors, EditCommits(x) PROVE Store!Replace
    <3>1. stored' \in Record /\ stored'.rev = stored.rev + 1
      BY Zenon, <1>2, <2>4, EditPublishes
    <3>2. stored # Missing
      BY Zenon, <1>2, <2>4, EditOverCurrent
    <3>3. stored' # Missing /\ stored'.inc \in Incarnations
      BY Zenon, <3>1, RecordFields
    <3> QED BY Zenon, <3>1, <3>2, <3>3 DEF Store!Replace, Store!Rev
  <2>5. UNCHANGED storeVars => stored' = stored
    BY Zenon DEF storeVars
  <2> QED BY Zenon, <1>2, <2>1, <2>2, <2>3, <2>4, <2>5, EditorsLeave
<1> QED BY <1>1, <1>2, EditInvariance, PTL DEF EditSpec, ImplementsStore, Store!StoreSpec
=============================================================================
