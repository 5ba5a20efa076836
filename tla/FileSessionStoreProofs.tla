----------------------- MODULE FileSessionStoreProofs -----------------------
(***************************************************************************)
(* What holds of FileSessionStore for any number of workers, incarnations, *)
(* deaths, power failures and children, and any bound of the revisions.    *)
(*                                                                         *)
(* The invariant has six parts:                                            *)
(*   TypeOK       the types of the state;                                  *)
(*   Locked       a worker in its critical section holds the flock;        *)
(*   LocalInv     what the place of a worker says about its locals, above  *)
(*                all that the stored record is still the one its          *)
(*                candidate was made of, and what it was told;             *)
(*   OwnTemporary the file it writes is its own;                           *)
(*   Durable      whatever the data name may refer to after a power        *)
(*                failure is whole, not newer than the stored record and   *)
(*                not older than the acknowledged one;                     *)
(*   Remembered   what a worker loaded or saved is the stored record or    *)
(*                older, and an initial creation that is still to be       *)
(*                confirmed shares its incarnation with nothing anybody    *)
(*                else could publish.                                      *)
(***************************************************************************)
EXTENDS FileSessionStore, TLAPS

Places == {"idle", "probe", "source", "lock", "examine", "temp", "write", "rename", "dirsync",
           "confirm"}

TypeOK ==
    /\ data \in Record \cup {Missing}
    /\ maybe \subseteq Record \cup {Missing}
    /\ temp \in TempFile \cup {Missing}
    /\ staging \in [Workers -> TempFile \cup {Missing}]
    /\ residue \subseteq TempFile
    /\ lock \in Workers \cup {None}
    /\ spawned \subseteq Workers
    /\ pc \in [Workers -> Places]
    /\ DOMAIN kind = Workers
    /\ seen \in [Workers -> Record \cup {None}]
    /\ cand \in [Workers -> Record \cup {None}]
    /\ DOMAIN told = Workers
    /\ did \in [Workers -> BOOLEAN]
    /\ acked \in Record \cup {Missing}
    /\ used \subseteq Incarnations
    /\ failures \in Nat

\* Only the holder of the flock is in its critical section.
Locked == \A w \in Workers : pc[w] \in Critical => lock = w

Rev(r) == IF r = Missing THEN 0 ELSE r.rev

\* The locals of a worker, by place.
Local(w) ==
    /\ pc[w] = "probe" => kind[w] \in Loading
    /\ pc[w] = "source" => kind[w] = "migrate"
    /\ pc[w] # "idle" /\ kind[w] = "reset" => seen[w] # None
    /\ pc[w] \in {"lock", "examine"} /\ kind[w] = "migrate" => cand[w] # None
    /\ pc[w] # "idle" /\ kind[w] = "confirm" => cand[w] # None
    /\ pc[w] = "confirm" => kind[w] = "confirm" /\ data \in {Missing, cand[w]}
    /\ pc[w] \in {"temp", "write", "rename"} =>
          cand[w] # None /\ data = BasedOn(w) /\ cand[w].rev = Rev(data) + 1
    /\ pc[w] = "dirsync" => cand[w] # None /\ data = cand[w] /\ did[w]
    /\ pc[w] \in {"temp", "write", "rename", "dirsync"} => kind[w] # "confirm"
    /\ pc[w] \notin {"idle", "dirsync"} /\ kind[w] # "confirm" => ~did[w]
    /\ did[w] => data # Missing
    /\ pc[w] # "idle" /\ kind[w] # "confirm" => told[w] = None
    /\ told[w] # None => (did[w] <=> told[w] \in {"saved", "unsure"})

LocalInv == \A w \in Workers : Local(w)

\* What a power failure may leave under the data name.
Durable ==
    /\ data \in maybe
    /\ \A r \in maybe :
          /\ Rev(r) <= Rev(data)
          /\ acked # Missing =>
                r # Missing /\ r.rev >= acked.rev /\ (r.rev = acked.rev => r = acked)

\* A creation that has no receipt and did not publish.
Owed(w) ==
    cand[w] # None /\ ~did[w] /\ (pc[w] = "idle" \/ kind[w] \in {"initial", "confirm"})

Remembered ==
    /\ \A w \in Workers : seen[w] # None =>
          data # Missing /\ seen[w].rev <= data.rev /\ (seen[w].rev = data.rev => seen[w] = data)
    /\ \A r \in maybe : r # Missing => r.inc \in used
    /\ \A w \in Workers : seen[w] # None => seen[w].inc \in used
    /\ \A w \in Workers : cand[w] # None => cand[w].inc \in used
    /\ \A w \in Workers : Owed(w) =>
          /\ data # Missing => data.inc # cand[w].inc
          /\ \A v \in Workers : seen[v] # None => seen[v].inc # cand[w].inc
          /\ \A v \in Workers \ {w} : cand[v] # None => cand[v].inc # cand[w].inc

\* The inductive invariant.
IInv == TypeOK /\ Locked /\ LockOwned /\ LocalInv /\ OwnTemporary /\ Durable /\ Remembered

-----------------------------------------------------------------------------
(* Records and frames.                                                     *)

\* A record is none of the other contents, and its revision is a number.
LEMMA RecordFields ==
    ASSUME NEW r \in Record
    PROVE  /\ r.inc \in Incarnations /\ r.rev \in 1..MaxRev /\ r.rev \in Nat /\ r.rev > 0
           /\ r.by \in Workers /\ r.ver \in 1..2
           /\ r # Missing /\ r # Torn /\ r # None
<1>1. r.inc \in Incarnations /\ r.rev \in 1..MaxRev /\ r.by \in Workers /\ r.ver \in 1..2
  BY DEF Record
<1> QED
  BY <1>1, StoreAssumption

\* Rewritten by another worker, or with another revision, it stays a record.
LEMMA RecordExcept ==
    ASSUME NEW r \in Record, NEW n \in 1..MaxRev
    PROVE  /\ \A b \in Workers : [r EXCEPT !.by = b, !.rev = n] \in Record
           /\ \A v \in {1, 2} : [r EXCEPT !.ver = v, !.rev = n] \in Record
<1>1. ASSUME NEW b \in Workers PROVE [r EXCEPT !.by = b, !.rev = n] \in Record
  <2>1. [r EXCEPT !.by = b, !.rev = n] = [[r EXCEPT !.by = b] EXCEPT !.rev = n]
    BY Zenon
  <2> QED
    BY Zenon, <2>1 DEF Record
<1>2. ASSUME NEW v \in {1, 2} PROVE [r EXCEPT !.ver = v, !.rev = n] \in Record
  <2>1. [r EXCEPT !.ver = v, !.rev = n] = [[r EXCEPT !.ver = v] EXCEPT !.rev = n]
    BY Zenon
  <2>2. v \in 1..2
    OBVIOUS
  <2> QED
    BY Zenon, <2>1, <2>2 DEF Record
<1> QED
  BY Zenon, <1>1, <1>2

\* Migration makes a record of the next revision, and can be undone.
LEMMA Migration ==
    ASSUME NEW r \in Record, r.ver = 1, Migrated(r).rev <= MaxRev
    PROVE  /\ Migrated(r) \in Record /\ Migrated(r).rev = r.rev + 1 /\ Migrated(r).inc = r.inc
           /\ Unmigrated(Migrated(r)) = r
<1>0. r.rev \in 1..MaxRev
  BY RecordFields
<1>1. /\ Migrated(r).rev = r.rev + 1 /\ Migrated(r).inc = r.inc /\ Migrated(r).by = r.by
      /\ Migrated(r).ver = 2
  BY DEF Migrated, Record
<1>2. r.rev + 1 \in 1..MaxRev /\ (r.rev + 1) - 1 = r.rev
  BY <1>0, <1>1, StoreAssumption
<1>3. Migrated(r) \in Record
  <2>1. Migrated(r) = [r EXCEPT !.ver = 2, !.rev = r.rev + 1]
    BY DEF Migrated
  <2> QED
    BY Zenon, <1>2, <2>1, RecordExcept
<1>4. Unmigrated(Migrated(r)) = r
  <2> DEFINE m == Migrated(r)
  <2>1. m \in Record /\ m.rev = r.rev + 1 /\ m.inc = r.inc /\ m.by = r.by
    BY <1>1, <1>3
  <2> HIDE DEF m
  <2>2. Unmigrated(m) = [m EXCEPT !.ver = 1, !.rev = r.rev]
    BY Zenon, <1>2, <2>1 DEF Unmigrated
  <2>3. Unmigrated(m) \in Record
    BY Zenon, <1>0, <2>1, <2>2, RecordExcept
  <2>4. /\ Unmigrated(m).inc = r.inc /\ Unmigrated(m).rev = r.rev /\ Unmigrated(m).by = r.by
        /\ Unmigrated(m).ver = r.ver
    BY <2>1, <2>2 DEF Record
  <2>5. Unmigrated(m) = r
    BY <2>3, <2>4 DEF Record
  <2> QED
    BY <2>5 DEF m
<1> QED
  BY <1>1, <1>3, <1>4

\* Nothing of the operation of another worker changes.
Same(v) == /\ pc'[v] = pc[v] /\ kind'[v] = kind[v] /\ seen'[v] = seen[v] /\ cand'[v] = cand[v]
           /\ told'[v] = told[v] /\ did'[v] = did[v]
OnlyOf(w) == \A v \in Workers : v # w => Same(v)

\* OwnTemporary of one worker.
Own(w) == pc[w] \in Publishing =>
            /\ Mine(w) # Missing
            /\ Mine(w).rec = cand[w]
            /\ pc[w] = "rename" => Mine(w).full /\ Mine(w).synced

\* A worker whose operation and whose stored record stay keeps its locals.
LEMMA LocalKept ==
    ASSUME NEW v \in Workers, Local(v), Same(v), data' = data PROVE Local(v)'
<1>1. BasedOn(v)' = BasedOn(v)
  BY Zenon DEF Same, BasedOn
<1> QED
  BY Zenon, <1>1 DEF Local, Same, Rev

\* Outside its critical section it also keeps them when a record is published.
LEMMA LocalAway ==
    ASSUME NEW v \in Workers, Local(v), Same(v), pc[v] \notin Critical, data' # Missing PROVE Local(v)'
BY Zenon DEF Local, Same, Critical, Publishing

\* It keeps its file when that stays, and when the one who changes files holds the
\* flock.
LEMMA OwnKept ==
    ASSUME Locked, NEW w \in Workers, NEW v \in Workers, v # w, Own(v), Same(v),
           pc[w] \in Critical \/ (temp' = temp /\ staging'[v] = staging[v])
    PROVE  Own(v)'
<1>1. CASE pc[w] \in Critical
  <2>1. pc[v] \notin Critical
    BY Zenon, <1>1 DEF Locked
  <2>2. pc'[v] \notin Publishing
    BY Zenon, <2>1 DEF Same, Critical
  <2> QED
    BY Zenon, <2>2 DEF Own
<1>2. CASE temp' = temp /\ staging'[v] = staging[v]
  BY Zenon, <1>2 DEF Own, Same, Mine
<1> QED
  BY <1>1, <1>2

\* What w may come to remember: of records the stored one, and as its candidate one
\* it had, one of a new incarnation, or one that nobody is owed.
LEMMA RememberedKept ==
    ASSUME IInv, NEW w \in Workers, OnlyOf(w), data' = data, maybe' \subseteq maybe, used \subseteq used',
           seen'[w] \in {seen[w], None} \/ (data # Missing /\ seen'[w] = data),
           cand'[w] # None =>
              \/ cand'[w] = cand[w] /\ (Owed(w)' => Owed(w))
              \/ cand'[w].inc \notin used /\ cand'[w].inc \in used'
              \/ /\ ~Owed(w)' /\ cand'[w].inc \in used'
                 /\ \A v \in Workers : v # w /\ Owed(v) => cand'[w].inc # cand[v].inc
    PROVE  Remembered'
<1>0. TypeOK /\ data \in maybe /\ Remembered
  BY Zenon DEF IInv, Durable
<1>a. data # Missing => data.inc \in used /\ data.rev <= data.rev
  <2>1. data # Missing => data.inc \in used
    BY Zenon, <1>0 DEF Remembered
  <2>2. data # Missing => data.rev \in Nat
    BY Zenon, <1>0, RecordFields DEF TypeOK
  <2> QED
    BY <2>1, <2>2
<1>b. \A v \in Workers : seen'[v] # None => seen'[v] = seen[v] \/ (data # Missing /\ seen'[v] = data)
  BY Zenon DEF OnlyOf, Same
<1>1. \A v \in Workers : seen'[v] # None =>
        data' # Missing /\ seen'[v].rev <= data'.rev /\ (seen'[v].rev = data'.rev => seen'[v] = data')
  BY Zenon, <1>0, <1>a, <1>b DEF Remembered
<1>2. \A r \in maybe' : r # Missing => r.inc \in used'
  BY Zenon, <1>0 DEF Remembered
<1>3. \A v \in Workers : seen'[v] # None => seen'[v].inc \in used'
  BY Zenon, <1>0, <1>a, <1>b DEF Remembered
<1>4. \A v \in Workers : cand'[v] # None => cand'[v].inc \in used'
  <2>1. \A v \in Workers : cand[v] # None => cand[v].inc \in used'
    BY Zenon, <1>0 DEF Remembered
  <2> QED
    BY Zenon, <2>1 DEF OnlyOf, Same
<1>5. ASSUME NEW v \in Workers, Owed(v)'
      PROVE  /\ data' # Missing => data'.inc # cand'[v].inc
             /\ \A u \in Workers : seen'[u] # None => seen'[u].inc # cand'[v].inc
             /\ \A u \in Workers \ {v} : cand'[u] # None => cand'[u].inc # cand'[v].inc
  <2>1. CASE Owed(v) /\ cand'[v] = cand[v]
    <3>1. /\ data # Missing => data.inc # cand[v].inc
          /\ \A u \in Workers : seen[u] # None => seen[u].inc # cand[v].inc
          /\ \A u \in Workers \ {v} : cand[u] # None => cand[u].inc # cand[v].inc
          /\ cand[v].inc \in used
      BY Zenon, <1>0, <2>1 DEF Remembered, Owed
    <3>2. \A u \in Workers : seen'[u] # None => seen'[u].inc # cand[v].inc
      BY Zenon, <1>b, <3>1
    <3>3. ASSUME NEW u \in Workers \ {v}, cand'[u] # None PROVE cand'[u].inc # cand[v].inc
      <4>1. CASE u # w
        BY Zenon, <3>1, <3>3, <4>1 DEF OnlyOf, Same
      <4>2. CASE u = w
        BY Zenon, <2>1, <3>1, <3>3, <4>2
      <4> QED
        BY <4>1, <4>2
    <3> QED
      BY Zenon, <2>1, <3>1, <3>2, <3>3
  <2>2. CASE v = w /\ cand'[w].inc \notin used
    <3>1. \A u \in Workers : seen'[u] # None => seen'[u].inc \in used
      BY Zenon, <1>0, <1>a, <1>b DEF Remembered
    <3>2. \A u \in Workers \ {w} : cand'[u] # None => cand'[u].inc \in used
      BY Zenon, <1>0 DEF Remembered, OnlyOf, Same
    <3> QED
      BY Zenon, <1>a, <2>2, <3>1, <3>2
  <2>3. v # w => Owed(v) /\ cand'[v] = cand[v]
    BY Zenon, <1>5 DEF OnlyOf, Same, Owed
  <2>4. v = w => (Owed(v) /\ cand'[v] = cand[v]) \/ cand'[w].inc \notin used
    BY Zenon, <1>5 DEF Owed
  <2> QED
    BY Zenon, <2>1, <2>2, <2>3, <2>4
<1> QED
  BY Zenon, <1>1, <1>2, <1>3, <1>4, <1>5 DEF Remembered

-----------------------------------------------------------------------------
(* The shapes of steps.                                                    *)

\* The types of the files.
FilesType == /\ temp \in TempFile \cup {Missing}
             /\ staging \in [Workers -> TempFile \cup {Missing}]
             /\ residue \subseteq TempFile

\* What Finish does.
LEMMA Finished ==
    ASSUME TypeOK, NEW w \in Workers, NEW a, Finish(w, a)
    PROVE  /\ pc' \in [Workers -> Places] /\ DOMAIN kind' = Workers /\ DOMAIN told' = Workers
           /\ cand' \in [Workers -> Record \cup {None}] /\ lock' \in Workers \cup {None}
           /\ pc'[w] = "idle" /\ told'[w] = a /\ spawned' = spawned
           /\ cand'[w] # None => cand'[w] = cand[w] /\ kind[w] \in {"initial", "confirm"}
           /\ lock' = IF lock = w /\ pc[w] \in Critical THEN None ELSE lock
           /\ \A v \in Workers : v # w => /\ pc'[v] = pc[v] /\ kind'[v] = kind[v]
                                          /\ told'[v] = told[v] /\ cand'[v] = cand[v]
<1>1. pc' \in [Workers -> Places] /\ pc'[w] = "idle" /\ \A v \in Workers : v # w => pc'[v] = pc[v]
  BY Zenon DEF Finish, TypeOK, Places
<1>2. DOMAIN kind' = Workers /\ \A v \in Workers : v # w => kind'[v] = kind[v]
  BY Zenon DEF Finish, TypeOK
<1>3. DOMAIN told' = Workers /\ told'[w] = a /\ \A v \in Workers : v # w => told'[v] = told[v]
  BY Zenon DEF Finish, TypeOK
<1>4. PICK c \in {cand[w], None} : /\ cand' = [cand EXCEPT ![w] = c]
                                   /\ c # None => c = cand[w] /\ kind[w] \in {"initial", "confirm"}
  BY Zenon DEF Finish
<1>5. cand' \in [Workers -> Record \cup {None}] /\ cand'[w] = c /\ \A v \in Workers : v # w => cand'[v] = cand[v]
  BY Zenon, <1>4 DEF TypeOK
<1>6. /\ lock' = IF lock = w /\ pc[w] \in Critical THEN None ELSE lock
      /\ spawned' = spawned
  BY Zenon DEF Finish, Unlock
<1>7. lock' \in Workers \cup {None}
  BY Zenon, <1>6 DEF TypeOK
<1> QED
  BY Zenon, <1>1, <1>2, <1>3, <1>4, <1>5, <1>6, <1>7

\* What a power failure may leave keeps its bounds when the directory is synced and
\* when the stored record is acknowledged.
LEMMA DurableKept ==
    ASSUME TypeOK, Durable, data' = data, maybe' = maybe \/ maybe' = {data},
           acked' = acked \/ (acked' = data /\ data # Missing /\ maybe' = {data})
    PROVE  Durable'
<1>1. data' \in maybe' /\ maybe' \subseteq maybe
  BY Zenon DEF Durable
<1>2. \A r \in maybe' : Rev(r)' = Rev(r) /\ Rev(data)' = Rev(data) /\ Rev(r) <= Rev(data)
  BY Zenon, <1>1 DEF Durable, Rev
<1>3. CASE acked' = acked
  BY Zenon, <1>1, <1>2, <1>3 DEF Durable
<1>4. CASE acked' = data /\ data # Missing /\ maybe' = {data}
  <2>1. data.rev >= data.rev
    <3>1. data.rev \in Nat
      BY Zenon, <1>4, RecordFields DEF TypeOK
    <3> QED
      BY <3>1
  <2> QED
    BY Zenon, <1>1, <1>2, <1>4, <2>1 DEF Durable
<1> QED
  BY Zenon, <1>3, <1>4

\* A worker that keeps or leaves the critical section with its flock.
LEMMA LockKept ==
    ASSUME Locked, LockOwned, StoreAssumption, NEW w \in Workers, \A v \in Workers : v # w => pc'[v] = pc[v],
           spawned' = spawned, failures' = failures, lock \in Workers \cup {None},
           \/ lock' = lock /\ (pc'[w] \in Critical <=> pc[w] \in Critical)
           \/ /\ pc'[w] \notin Critical
              /\ lock' = IF lock = w /\ pc[w] \in Critical THEN None ELSE lock
    PROVE  Locked' /\ LockOwned'
<1>1. CASE lock' = lock /\ (pc'[w] \in Critical <=> pc[w] \in Critical)
  <2>1. Locked'
    BY Zenon, <1>1 DEF Locked
  <2>2. LockOwned'
    BY Zenon, <1>1 DEF LockOwned
  <2> QED
    BY <2>1, <2>2
<1>2. CASE /\ pc'[w] \notin Critical
           /\ lock' = IF lock = w /\ pc[w] \in Critical THEN None ELSE lock
  <2>1. Locked'
    BY Zenon, <1>2 DEF Locked
  <2>2. LockOwned'
    BY Zenon, <1>2 DEF LockOwned
  <2> QED
    BY <2>1, <2>2
<1> QED
  BY Zenon, <1>1, <1>2

\* An operation returns: files of others are as they were, the answer is true of
\* what it did.
LEMMA Returns ==
    ASSUME IInv, NEW w \in Workers, NEW a, Finish(w, a),
           a # None => (did[w] <=> a \in {"saved", "unsure"}),
           UNCHANGED <<data, used, failures, did>>,
           maybe' = maybe \/ maybe' = {data},
           acked' = acked \/ (acked' = data /\ data # Missing /\ maybe' = {data}),
           seen' = seen \/ (data # Missing /\ seen' = [seen EXCEPT ![w] = data]),
           FilesType', pc[w] \in Critical \/ UNCHANGED <<temp, staging>>
    PROVE  IInv'
<1>0. TypeOK /\ Locked /\ LockOwned /\ LocalInv /\ OwnTemporary /\ Durable
  BY Zenon DEF IInv
<1>f. /\ pc' \in [Workers -> Places] /\ DOMAIN kind' = Workers /\ DOMAIN told' = Workers
      /\ cand' \in [Workers -> Record \cup {None}] /\ lock' \in Workers \cup {None}
      /\ pc'[w] = "idle" /\ told'[w] = a /\ spawned' = spawned
      /\ cand'[w] # None => cand'[w] = cand[w] /\ kind[w] \in {"initial", "confirm"}
      /\ lock' = IF lock = w /\ pc[w] \in Critical THEN None ELSE lock
      /\ \A v \in Workers : v # w => /\ pc'[v] = pc[v] /\ kind'[v] = kind[v]
                                     /\ told'[v] = told[v] /\ cand'[v] = cand[v]
  BY Zenon, <1>0, Finished
<1>s. /\ seen' \in [Workers -> Record \cup {None}]
      /\ \A v \in Workers : v # w => seen'[v] = seen[v]
      /\ seen'[w] = seen[w] \/ (data # Missing /\ seen'[w] = data)
  BY Zenon, <1>0 DEF TypeOK
<1>1. TypeOK'
  <2>1. maybe' \subseteq Record \cup {Missing} /\ acked' \in Record \cup {Missing}
    BY Zenon, <1>0 DEF TypeOK
  <2> QED
    BY Zenon, <1>0, <1>f, <1>s, <2>1 DEF TypeOK, FilesType
<1>2. OnlyOf(w)
  BY Zenon, <1>f, <1>s DEF OnlyOf, Same
<1>3. Locked' /\ LockOwned'
  <2>1. pc'[w] \notin Critical
    BY <1>f DEF Critical, Publishing
  <2>2. lock \in Workers \cup {None}
    BY Zenon, <1>0 DEF TypeOK
  <2> QED
    BY Zenon, <1>0, <1>f, <2>1, <2>2, LockKept, StoreAssumption
<1>4. LocalInv'
  <2>1. Local(w)'
    <3>1. did[w] => data # Missing
      BY Zenon, <1>0 DEF LocalInv, Local
    <3> QED
      BY <1>f, <3>1 DEF Local
  <2>2. ASSUME NEW v \in Workers, v # w PROVE Local(v)'
    BY Zenon, <1>0, <1>2, <2>2, LocalKept DEF LocalInv, OnlyOf
  <2> QED
    BY Zenon, <2>1, <2>2 DEF LocalInv
<1>5. OwnTemporary'
  <2>1. Own(w)'
    BY <1>f DEF Own, Publishing
  <2>2. ASSUME NEW v \in Workers, v # w PROVE Own(v)'
    BY Zenon, <1>0, <1>2, <2>2, OwnKept DEF OwnTemporary, Own, OnlyOf
  <2> QED
    BY Zenon, <2>1, <2>2 DEF OwnTemporary, Own
<1>6. Durable'
  BY Zenon, <1>0, DurableKept
<1>7. Remembered'
  <2>1. maybe' \subseteq maybe
    BY Zenon, <1>0 DEF Durable
  <2>2. cand'[w] # None => cand'[w] = cand[w] /\ (Owed(w)' => Owed(w))
    BY Zenon, <1>f DEF Owed
  <2> QED
    BY Zenon, <1>2, <1>s, <2>1, <2>2, RememberedKept
<1> QED
  BY Zenon, <1>1, <1>3, <1>4, <1>5, <1>6, <1>7 DEF IInv

\* An operation goes on, with the candidate it had or another one.
LEMMA GoesOn ==
    ASSUME IInv, NEW w \in Workers, NEW place \in Places, Goto(w, place),
           UNCHANGED <<data, maybe, seen, did, acked, failures>>,
           pc[w] \in Critical <=> place \in Critical,
           used \subseteq used', used' \subseteq Incarnations,
           cand' \in [Workers -> Record \cup {None}], \A v \in Workers : v # w => cand'[v] = cand[v],
           \/ cand'[w] = cand[w]
           \/ cand'[w].inc \notin used /\ cand'[w].inc \in used'
           \/ /\ kind[w] \notin {"initial", "confirm"} /\ cand'[w].inc \in used'
              /\ \A v \in Workers : v # w /\ Owed(v) => cand'[w].inc # cand[v].inc,
           pc[w] # "idle", place # "idle", Local(w)', Own(w)',
           FilesType', pc[w] \in Critical \/ UNCHANGED <<temp, staging>>
    PROVE  IInv'
<1>0. TypeOK /\ Locked /\ LockOwned /\ LocalInv /\ OwnTemporary /\ Durable
  BY Zenon DEF IInv
<1>f. /\ pc' \in [Workers -> Places] /\ pc'[w] = place /\ UNCHANGED <<kind, told, lock, spawned>>
      /\ \A v \in Workers : v # w => pc'[v] = pc[v]
  BY Zenon, <1>0 DEF Goto, TypeOK, lockVars
<1>1. TypeOK'
  BY Zenon, <1>0, <1>f DEF TypeOK, FilesType
<1>2. OnlyOf(w)
  BY Zenon, <1>f DEF OnlyOf, Same
<1>3. Locked' /\ LockOwned'
  <2>2. lock \in Workers \cup {None}
    BY Zenon, <1>0 DEF TypeOK
  <2> QED
    BY Zenon, <1>0, <1>f, <2>2, LockKept, StoreAssumption
<1>4. LocalInv'
  <2>2. ASSUME NEW v \in Workers, v # w PROVE Local(v)'
    BY Zenon, <1>0, <1>2, <2>2, LocalKept DEF LocalInv, OnlyOf
  <2> QED
    BY Zenon, <2>2 DEF LocalInv
<1>5. OwnTemporary'
  <2>2. ASSUME NEW v \in Workers, v # w PROVE Own(v)'
    BY Zenon, <1>0, <1>2, <2>2, OwnKept DEF OwnTemporary, Own, OnlyOf
  <2> QED
    BY Zenon, <2>2 DEF OwnTemporary, Own
<1>6. Durable'
  BY Zenon, <1>0, DurableKept
<1>7. Remembered'
  <2>1. Owed(w)' => cand'[w] # None /\ ~did[w] /\ kind[w] \in {"initial", "confirm"}
    BY Zenon, <1>f DEF Owed
  <2>2. cand'[w] = cand[w] => (Owed(w)' => Owed(w))
    BY Zenon, <2>1 DEF Owed
  <2> QED
    BY Zenon, <1>2, <2>1, <2>2, RememberedKept
<1> QED
  BY Zenon, <1>1, <1>3, <1>4, <1>5, <1>6, <1>7 DEF IInv

-----------------------------------------------------------------------------
(* The steps of a worker that publish nothing.                             *)

\* An operation that touched no file returns.
LEMMA ReturnsQuietly ==
    ASSUME IInv, NEW w \in Workers, NEW a, Finish(w, a),
           a # None => (did[w] <=> a \in {"saved", "unsure"}),
           UNCHANGED <<did, fileVars, historyVars>>,
           seen' = seen \/ (data # Missing /\ seen' = [seen EXCEPT ![w] = data])
    PROVE  IInv'
<1>1. UNCHANGED <<data, used, failures, did, maybe, acked, temp, staging, residue>>
  BY Zenon DEF fileVars, historyVars
<1>2. FilesType'
  BY Zenon, <1>1 DEF IInv, TypeOK, FilesType
<1> QED
  BY Zenon, <1>1, <1>2, Returns

\* It goes on.
LEMMA GoesOnQuietly ==
    ASSUME IInv, NEW w \in Workers, NEW place \in Places, Goto(w, place),
           UNCHANGED <<seen, cand, did, fileVars, historyVars>>,
           pc[w] \in Critical <=> place \in Critical,
           pc[w] # "idle", place # "idle", place \notin Publishing, Local(w)'
    PROVE  IInv'
<1>1. UNCHANGED <<data, used, failures, maybe, acked, temp, staging, residue>>
  BY Zenon DEF fileVars, historyVars
<1>2. FilesType' /\ used' \subseteq Incarnations /\ cand' \in [Workers -> Record \cup {None}]
  BY Zenon, <1>1 DEF IInv, TypeOK, FilesType
<1>3. pc'[w] = place
  BY Zenon DEF Goto, IInv, TypeOK
<1>4. Own(w)'
  BY Zenon, <1>3 DEF Own
<1> QED
  BY Zenon, <1>1, <1>2, <1>4, GoesOn

\* What a refusal says is true.
LEMMA RefusalTrue ==
    ASSUME IInv, NEW w \in Workers, pc[w] \notin {"idle", "dirsync"}, NEW a,
           a = IF kind[w] = "confirm" THEN told[w] ELSE "unsaved"
    PROVE  a # None => (did[w] <=> a \in {"saved", "unsure"})
<1>1. Local(w)
  BY Zenon DEF IInv, LocalInv
<1>2. CASE kind[w] = "confirm"
  BY Zenon, <1>1, <1>2 DEF Local
<1>3. CASE kind[w] # "confirm"
  BY <1>1, <1>3 DEF Local
<1> QED
  BY <1>2, <1>3

\* Steps before the flock, and refusals.
LEMMA EntrySteps ==
    ASSUME IInv, NEW w \in Workers, probe_data(w) \/ read_source(w) \/ LockBusy(w) \/ ReadFails(w)
                                    \/ ExamineConflict(w)
    PROVE  IInv'
<1>0. Local(w) /\ TypeOK
  BY Zenon DEF IInv, LocalInv
<1>1. CASE probe_data(w)
  <2>0. pc[w] = "probe" /\ kind[w] \in Loading /\ UNCHANGED <<seen, did, fileVars, historyVars>>
    BY Zenon, <1>0, <1>1 DEF probe_data, Local
  <2>1. CASE data = Missing
    <3>1. Finish(w, "unsaved")
      BY Zenon, <1>1, <2>1 DEF probe_data
    <3>2. ~did[w]
      BY <1>0, <2>0 DEF Local, Loading
    <3> QED
      BY <2>0, <3>1, <3>2, ReturnsQuietly
  <2>2. CASE data # Missing
    <3>1. Goto(w, "lock") /\ UNCHANGED cand
      BY Zenon, <1>1, <2>2 DEF probe_data
    <3>2. pc'[w] = "lock" /\ kind' = kind /\ told' = told /\ data' = data
      BY Zenon, <1>0, <2>0, <3>1 DEF Goto, TypeOK, fileVars
    <3>3. Local(w)'
      BY <1>0, <2>0, <3>1, <3>2 DEF Local, Loading
    <3>4. pc[w] \notin Critical /\ "lock" \notin Critical /\ "lock" \notin Publishing /\ "lock" \in Places
      BY <2>0 DEF Critical, Publishing, Places
    <3> QED
      BY <2>0, <3>1, <3>3, <3>4, GoesOnQuietly
  <2> QED
    BY <2>1, <2>2
<1>2. CASE read_source(w)
  <2>0. pc[w] = "source" /\ kind[w] = "migrate" /\ UNCHANGED <<seen, did, fileVars, historyVars>>
    BY Zenon, <1>0, <1>2 DEF read_source, Local
  <2>1. CASE data = Missing
    <3>1. Finish(w, "unsaved")
      BY Zenon, <1>2, <2>1 DEF read_source
    <3>2. ~did[w]
      BY <1>0, <2>0 DEF Local
    <3> QED
      BY <2>0, <3>1, <3>2, ReturnsQuietly
  <2>2. CASE data # Missing
    <3>1. Goto(w, "lock") /\ cand' = [cand EXCEPT ![w] = data]
      BY Zenon, <1>2, <2>2 DEF read_source
    <3>2. pc'[w] = "lock" /\ kind' = kind /\ told' = told /\ UNCHANGED <<data, maybe, temp, staging, residue>>
          /\ UNCHANGED <<used, acked, failures>>
      BY Zenon, <1>0, <2>0, <3>1 DEF Goto, TypeOK, fileVars, historyVars
    <3>3. /\ cand' \in [Workers -> Record \cup {None}] /\ cand'[w] = data /\ data \in Record
          /\ \A v \in Workers : v # w => cand'[v] = cand[v]
      BY Zenon, <1>0, <2>2, <3>1 DEF TypeOK
    <3>4. cand'[w] # None
      BY Zenon, <3>3, RecordFields
    <3>5. Local(w)'
      BY <1>0, <2>0, <3>2, <3>4 DEF Local
    <3>6. pc[w] \notin Critical /\ "lock" \notin Critical /\ "lock" \notin Publishing /\ "lock" \in Places
      BY <2>0 DEF Critical, Publishing, Places
    <3>7. Own(w)' /\ FilesType'
      BY Zenon, <1>0, <3>2, <3>6 DEF Own, TypeOK, FilesType
    <3>8. /\ data.inc \in used
          /\ \A v \in Workers : Owed(v) => data.inc # cand[v].inc
      BY Zenon, <2>2 DEF IInv, Durable, Remembered
    <3>9. used' \subseteq Incarnations /\ used \subseteq used' /\ data.inc \in used'
      BY Zenon, <1>0, <3>2, <3>8 DEF TypeOK
    <3> QED
      BY <2>0, <3>1, <3>2, <3>3, <3>5, <3>6, <3>7, <3>8, <3>9, GoesOn
  <2> QED
    BY <2>1, <2>2
<1>3. CASE LockBusy(w) \/ ReadFails(w) \/ ExamineConflict(w)
  <2>1. PICK a : a = IF kind[w] = "confirm" THEN told[w] ELSE "unsaved"
    OBVIOUS
  <2>2. /\ pc[w] \in {"probe", "source", "lock", "examine", "confirm"} /\ Finish(w, a)
        /\ UNCHANGED <<seen, did, fileVars, historyVars>>
    BY ZenonT(60), <1>3, <2>1 DEF LockBusy, ReadFails, ExamineConflict, Refuse
  <2>3. pc[w] \notin {"idle", "dirsync"}
    BY <2>2
  <2>4. a # None => (did[w] <=> a \in {"saved", "unsure"})
    BY Zenon, <2>1, <2>3, RefusalTrue
  <2> QED
    BY Zenon, <2>2, <2>4, ReturnsQuietly
<1> QED
  BY <1>1, <1>2, <1>3

\* Under the flock, when there is nothing to publish.
LEMMA ExamineEnds ==
    ASSUME IInv, NEW w \in Workers,
           ExamineLoad(w) \/ ExamineCurrent(w) \/ ExamineExhausted(w) \/ CleanupLeaves(w) \/ cleanup_one(w)
    PROVE  IInv'
<1>0. Local(w) /\ TypeOK
  BY Zenon DEF IInv, LocalInv
<1>1. /\ pc[w] = "examine" /\ Finish(w, "unsaved") /\ did' = did
      /\ kind[w] \in Loading \cup Saving \cup {"migrate", "reset", "cleanup"}
  BY ZenonT(60) DEF ExamineLoad, ExamineCurrent, ExamineExhausted, CleanupLeaves, cleanup_one
<1>2. ~did[w]
  BY <1>0, <1>1 DEF Local, Loading, Saving
<1>3. "unsaved" # None => (did[w] <=> "unsaved" \in {"saved", "unsure"})
  BY <1>2
<1>4. CASE ExamineLoad(w)
  <2>1. /\ UNCHANGED <<fileVars, historyVars>>
        /\ seen' = [seen EXCEPT ![w] = IF Readable(data) THEN data ELSE @]
    BY Zenon, <1>4 DEF ExamineLoad
  <2>2. seen' = seen \/ (data # Missing /\ seen' = [seen EXCEPT ![w] = data])
    <3>1. CASE Readable(data)
      BY Zenon, <2>1, <3>1 DEF Readable
    <3>2. CASE ~Readable(data)
      BY Zenon, <1>0, <2>1, <3>2 DEF TypeOK
    <3> QED
      BY <3>1, <3>2
  <2> QED
    BY Zenon, <1>1, <1>3, <2>1, <2>2, ReturnsQuietly
<1>5. CASE ExamineCurrent(w) \/ ExamineExhausted(w) \/ CleanupLeaves(w)
  <2>1. UNCHANGED <<seen, fileVars, historyVars>>
    BY Zenon, <1>5 DEF ExamineCurrent, ExamineExhausted, CleanupLeaves
  <2> QED
    BY Zenon, <1>1, <1>3, <2>1, ReturnsQuietly
<1>6. CASE cleanup_one(w)
  <2>1. /\ UNCHANGED <<data, seen, used, acked, failures>> /\ maybe' \in {maybe, {data}}
        /\ \/ temp' = Missing /\ UNCHANGED <<staging, residue>>
           \/ \E f \in residue : residue' = residue \ {f} /\ UNCHANGED <<temp, staging>>
           \/ \E v \in Workers : /\ staging' = [staging EXCEPT ![v] = Missing]
                                 /\ UNCHANGED <<temp, residue>>
    BY Zenon, <1>6 DEF cleanup_one, historyVars
  <2>2. FilesType'
    BY ZenonT(60), <1>0, <2>1 DEF TypeOK, FilesType
  <2>3. pc[w] \in Critical
    BY <1>1 DEF Critical
  <2> QED
    BY Zenon, <1>1, <1>3, <2>1, <2>2, <2>3, Returns
<1> QED
  BY <1>4, <1>5, <1>6

\* confirm_initial_record finds its record or none.
LEMMA ConfirmStep == ASSUME IInv, NEW w \in Workers, ExamineConfirm(w) PROVE IInv'
<1>0. Local(w) /\ TypeOK
  BY Zenon DEF IInv, LocalInv
<1>1. /\ pc[w] = "examine" /\ kind[w] = "confirm" /\ data \in {Missing, cand[w]} /\ Goto(w, "confirm")
      /\ UNCHANGED <<seen, cand, did, fileVars, historyVars>>
  BY Zenon DEF ExamineConfirm
<1>2. pc'[w] = "confirm" /\ kind' = kind /\ told' = told /\ data' = data
  BY Zenon, <1>0, <1>1 DEF Goto, TypeOK, fileVars
<1>3. Local(w)'
  BY <1>0, <1>1, <1>2 DEF Local
<1>4. pc[w] \in Critical /\ "confirm" \in Critical /\ "confirm" \notin Publishing /\ "confirm" \in Places
  BY <1>1 DEF Critical, Publishing, Places
<1> QED
  BY <1>1, <1>3, <1>4, GoesOnQuietly

\* lock_exclusive: nobody else is in a critical section.
LEMMA LockStep == ASSUME IInv, NEW w \in Workers, lock_exclusive(w) PROVE IInv'
<1>0. Local(w) /\ TypeOK /\ Locked /\ LocalInv /\ OwnTemporary /\ Durable
  BY Zenon DEF IInv, LocalInv
<1>1. /\ pc[w] = "lock" /\ lock = None /\ lock' = w /\ pc' = [pc EXCEPT ![w] = "examine"]
      /\ UNCHANGED <<spawned, kind, seen, cand, told, did, data, maybe, temp, staging, residue,
                     acked, used, failures>>
  BY Zenon DEF lock_exclusive, fileVars, historyVars
<1>2. pc'[w] = "examine" /\ pc' \in [Workers -> Places] /\ \A v \in Workers : v # w => pc'[v] = pc[v]
  BY Zenon, <1>0, <1>1 DEF TypeOK, Places
<1>3. TypeOK'
  BY Zenon, <1>0, <1>1, <1>2 DEF TypeOK
<1>4. OnlyOf(w)
  BY Zenon, <1>1, <1>2 DEF OnlyOf, Same
<1>5. Locked' /\ LockOwned'
  <2>1. \A v \in Workers : pc[v] \notin Critical
    BY Zenon, <1>0, <1>1, StoreAssumption DEF Locked
  <2>2. pc'[w] \in Critical
    BY <1>2 DEF Critical
  <2> QED
    BY Zenon, <1>1, <1>2, <2>1, <2>2 DEF Locked, LockOwned
<1>6. LocalInv'
  <2>1. Local(w)'
    BY <1>0, <1>1, <1>2 DEF Local
  <2>2. ASSUME NEW v \in Workers, v # w PROVE Local(v)'
    BY Zenon, <1>0, <1>1, <1>4, <2>2, LocalKept DEF LocalInv, OnlyOf
  <2> QED
    BY Zenon, <2>1, <2>2 DEF LocalInv
<1>7. OwnTemporary'
  <2>1. Own(w)'
    BY <1>2 DEF Own, Publishing
  <2>2. ASSUME NEW v \in Workers, v # w PROVE Own(v)'
    BY Zenon, <1>0, <1>1, <1>4, <2>2, OwnKept DEF OwnTemporary, Own, OnlyOf
  <2> QED
    BY Zenon, <2>1, <2>2 DEF OwnTemporary, Own
<1>8. Durable'
  BY Zenon, <1>0, <1>1, DurableKept
<1>9. Remembered'
  <2>1. Owed(w)' => Owed(w)
    BY <1>1, <1>2 DEF Owed
  <2> QED
    BY Zenon, <1>1, <1>4, <2>1, RememberedKept
<1> QED
  BY Zenon, <1>3, <1>5, <1>6, <1>7, <1>8, <1>9 DEF IInv

-----------------------------------------------------------------------------
(* The steps of a worker that publish.                                     *)

\* A worker has found what its operation requires and made the next record of it.
LEMMA Prepares ==
    ASSUME IInv, NEW w \in Workers, NEW r \in Record, pc[w] = "examine", kind[w] # "confirm", Prepare(w, r),
           data = IF kind[w] = "migrate" THEN Unmigrated(r)
                  ELSE IF kind[w] \in Creating \/ seen[w] = None THEN Missing ELSE seen[w],
           r.rev = Rev(data) + 1,
           \/ r.inc \notin used
           \/ kind[w] # "initial" /\ data # Missing /\ r.inc = data.inc
    PROVE  IInv'
<1>0. Local(w) /\ TypeOK
  BY Zenon DEF IInv, LocalInv
<1>1. /\ cand' = [cand EXCEPT ![w] = r] /\ used' = used \cup {r.inc} /\ Goto(w, "temp")
      /\ UNCHANGED <<seen, did, acked, failures, data, maybe, temp, staging, residue>>
  BY Zenon DEF Prepare, fileVars
<1>2. pc'[w] = "temp" /\ kind' = kind /\ told' = told
  BY Zenon, <1>0, <1>1 DEF Goto, TypeOK
<1>3. /\ cand' \in [Workers -> Record \cup {None}] /\ cand'[w] = r /\ r # None /\ r.inc \in Incarnations
      /\ \A v \in Workers : v # w => cand'[v] = cand[v]
  BY Zenon, <1>0, <1>1, RecordFields DEF TypeOK
<1>4. Local(w)'
  <2>1. BasedOn(w)' = data
    BY Zenon, <1>1, <1>2, <1>3 DEF BasedOn
  <2>2. cand'[w].rev = Rev(data)' + 1
    BY Zenon, <1>1, <1>3 DEF Rev
  <2>3. ~did[w]
    BY <1>0 DEF Local
  <2> HIDE DEF Rev, BasedOn
  <2> QED
    BY <1>0, <1>1, <1>2, <1>3, <2>1, <2>2, <2>3 DEF Local
<1>5. pc[w] \in Critical /\ "temp" \in Critical /\ "temp" \notin Publishing /\ "temp" \in Places
  BY DEF Critical, Publishing, Places
<1>6. Own(w)' /\ FilesType'
  BY Zenon, <1>0, <1>1, <1>2, <1>5 DEF Own, TypeOK, FilesType
<1>7. used \subseteq used' /\ used' \subseteq Incarnations /\ r.inc \in used'
  BY Zenon, <1>0, <1>1, <1>3 DEF TypeOK
<1>8. CASE r.inc \notin used
  BY <1>1, <1>3, <1>4, <1>5, <1>6, <1>7, <1>8, GoesOn
<1>9. CASE kind[w] # "initial" /\ data # Missing /\ r.inc = data.inc
  <2>1. \A v \in Workers : Owed(v) => r.inc # cand[v].inc
    BY Zenon, <1>9 DEF IInv, Remembered
  <2> QED
    BY <1>1, <1>3, <1>4, <1>5, <1>6, <1>7, <1>9, <2>1, GoesOn
<1> QED
  BY <1>8, <1>9

\* What a worker remembers is the stored record when the revisions agree.
LEMMA RememberedIsStored ==
    ASSUME IInv, NEW w \in Workers, seen[w] # None, Readable(data), data.rev = seen[w].rev
    PROVE  seen[w] = data /\ data \in Record /\ data # Missing
BY Zenon DEF IInv, TypeOK, Remembered, Readable

\* A save writes the revision after the one it was given.
LEMMA SavePrepared == ASSUME IInv, NEW w \in Workers, ExamineSave(w) PROVE IInv'
<1> DEFINE r == [seen[w] EXCEPT !.by = w, !.rev = NextRevision(seen[w])]
<1>1. /\ pc[w] = "examine" /\ kind[w] \in Saving /\ Prepare(w, r)
      /\ seen[w] # None /\ Readable(data) /\ data.rev = seen[w].rev
  BY Zenon DEF ExamineSave, SaveAdmitted
<1>2. seen[w] = data /\ data \in Record /\ data # Missing
  BY Zenon, <1>1, RememberedIsStored
<1>3. data.rev \in Nat /\ data.inc \in Incarnations /\ NextRevision(seen[w]) = data.rev + 1
  <2>1. data.rev \in Nat /\ data.inc \in Incarnations
    BY Zenon, <1>2, RecordFields
  <2> QED
    BY <1>2, <2>1 DEF NextRevision
<1>4. r = [data EXCEPT !.by = w, !.rev = data.rev + 1]
  BY Zenon, <1>2, <1>3
<1>5. r.rev = data.rev + 1 /\ r.inc = data.inc
  BY Zenon, <1>2, <1>4 DEF Record
<1>6. r.rev <= MaxRev
  BY Zenon, <1>1 DEF Prepare
<1>7. data.rev + 1 \in 1..MaxRev
  BY <1>3, <1>5, <1>6, StoreAssumption
<1>8. r \in Record
  BY Zenon, <1>2, <1>4, <1>7, RecordExcept
<1>9. kind[w] \notin Creating /\ kind[w] \notin {"migrate", "confirm", "initial"}
  BY <1>1 DEF Saving, Creating
<1>10. r.rev = Rev(data) + 1
  BY Zenon, <1>2, <1>5 DEF Rev
<1> HIDE DEF r
<1> QED
  BY Zenon, <1>1, <1>2, <1>5, <1>8, <1>9, <1>10, Prepares

\* A creation draws an incarnation that no record had.
LEMMA CreatePrepared == ASSUME IInv, NEW w \in Workers, ExamineCreate(w) PROVE IInv'
<1>1. /\ pc[w] = "examine" /\ data = Missing
      /\ kind[w] \in Creating \/ (kind[w] \in Saving /\ seen[w] = None)
  BY Zenon DEF ExamineCreate
<1>2. PICK inc \in Incarnations, ver \in 1..2 :
        inc \notin used /\ Prepare(w, [inc |-> inc, rev |-> 1, by |-> w, ver |-> ver])
  BY Zenon DEF ExamineCreate, Fresh
<1> DEFINE r == [inc |-> inc, rev |-> 1, by |-> w, ver |-> ver]
<1>3. r \in Record /\ r.inc = inc /\ r.rev = 1
  BY StoreAssumption DEF Record
<1>4. kind[w] # "confirm" /\ kind[w] # "migrate"
  BY <1>1 DEF Creating, Saving
<1>5. r.rev = Rev(data) + 1
  BY <1>1, <1>3 DEF Rev
<1> HIDE DEF r
<1>6. Prepare(w, r)
  BY Zenon, <1>2 DEF r
<1> QED
  BY Zenon, <1>1, <1>2, <1>3, <1>4, <1>5, <1>6, Prepares

\* A reset replaces the incarnation it was given.
LEMMA ResetPrepared == ASSUME IInv, NEW w \in Workers, ExamineReset(w) PROVE IInv'
<1>1. pc[w] = "examine" /\ kind[w] = "reset" /\ Readable(data) /\ data.rev = seen[w].rev
  BY Zenon DEF ExamineReset
<1>2. seen[w] # None
  <2>1. Local(w)
    BY Zenon DEF IInv, LocalInv
  <2> QED
    BY <1>1, <2>1 DEF Local
<1>3. seen[w] = data /\ data \in Record /\ data # Missing
  BY Zenon, <1>1, <1>2, RememberedIsStored
<1>4. PICK inc \in Incarnations :
        inc \notin used /\ Prepare(w, [inc |-> inc, rev |-> data.rev + 1, by |-> w, ver |-> 1])
  BY Zenon DEF ExamineReset, Fresh
<1> DEFINE r == [inc |-> inc, rev |-> data.rev + 1, by |-> w, ver |-> 1]
<1>5. data.rev + 1 \in 1..MaxRev
  <2>1. data.rev \in Nat
    BY Zenon, <1>3, RecordFields
  <2>2. r.rev <= MaxRev
    BY Zenon, <1>4 DEF Prepare
  <2>3. r.rev = data.rev + 1
    OBVIOUS
  <2> QED
    BY <2>1, <2>2, <2>3, StoreAssumption
<1>6. r \in Record /\ r.inc = inc /\ r.rev = data.rev + 1
  BY <1>5 DEF Record
<1>7. kind[w] \notin Creating /\ kind[w] \notin {"migrate", "confirm"}
  BY <1>1 DEF Creating
<1>8. r.rev = Rev(data) + 1
  BY Zenon, <1>3, <1>6 DEF Rev
<1> HIDE DEF r
<1>9. Prepare(w, r)
  BY Zenon, <1>4 DEF r
<1> QED
  BY Zenon, <1>1, <1>2, <1>3, <1>4, <1>6, <1>7, <1>8, <1>9, Prepares

\* A migration rewrites the record it read, if that is still there.
LEMMA MigratePrepared == ASSUME IInv, NEW w \in Workers, ExamineMigrate(w) PROVE IInv'
<1>1. /\ pc[w] = "examine" /\ kind[w] = "migrate" /\ data = cand[w] /\ Readable(data) /\ data.ver = 1
      /\ Prepare(w, Migrated(data))
  BY Zenon DEF ExamineMigrate, SourceUnchanged
<1>2. data \in Record /\ data # Missing
  BY Zenon, <1>1 DEF IInv, TypeOK, Readable
<1>3. Migrated(data).rev <= MaxRev
  BY Zenon, <1>1 DEF Prepare
<1>4. /\ Migrated(data) \in Record /\ Migrated(data).rev = data.rev + 1 /\ Migrated(data).inc = data.inc
      /\ Unmigrated(Migrated(data)) = data
  BY Zenon, <1>1, <1>2, <1>3, Migration
<1>5. Migrated(data).rev = Rev(data) + 1
  BY Zenon, <1>2, <1>4 DEF Rev
<1>6. kind[w] # "confirm" /\ kind[w] # "initial"
  BY <1>1
<1> QED
  BY Zenon, <1>1, <1>2, <1>4, <1>5, <1>6, Prepares

\* Temporary files: a new one and a finished one.
LEMMA TempFiles ==
    /\ \A r \in Record : File(r) \in TempFile /\ File(r).rec = r /\ File(r) # Missing
    /\ \A f \in TempFile :
          /\ f # Missing /\ f.rec \in Record
          /\ [f EXCEPT !.full = TRUE] \in TempFile
          /\ [f EXCEPT !.full = FALSE] \in TempFile
          /\ [f EXCEPT !.synced = TRUE] \in TempFile
          /\ [f EXCEPT !.full = TRUE, !.synced = TRUE] \in TempFile
          /\ [f EXCEPT !.full = TRUE, !.synced = TRUE].rec = f.rec
          /\ [f EXCEPT !.full = TRUE, !.synced = TRUE].full
          /\ [f EXCEPT !.full = TRUE, !.synced = TRUE].synced
<1>1. ASSUME NEW r \in Record PROVE File(r) \in TempFile /\ File(r).rec = r /\ File(r) # Missing
  <2>1. File(r) \in TempFile /\ File(r).rec = r
    BY DEF File, TempFile
  <2> QED
    BY Zenon, <2>1, StoreAssumption
<1>2. ASSUME NEW f \in TempFile
      PROVE  /\ f # Missing /\ f.rec \in Record
             /\ [f EXCEPT !.full = TRUE] \in TempFile
             /\ [f EXCEPT !.full = FALSE] \in TempFile
             /\ [f EXCEPT !.synced = TRUE] \in TempFile
  <2>1. f # Missing
    BY Zenon, StoreAssumption
  <2>2. /\ f.rec \in Record /\ [f EXCEPT !.full = TRUE] \in TempFile
        /\ [f EXCEPT !.full = FALSE] \in TempFile /\ [f EXCEPT !.synced = TRUE] \in TempFile
    BY Zenon DEF TempFile
  <2> QED
    BY Zenon, <2>1, <2>2
<1>3. ASSUME NEW f \in TempFile
      PROVE  /\ [f EXCEPT !.full = TRUE, !.synced = TRUE] \in TempFile
             /\ [f EXCEPT !.full = TRUE, !.synced = TRUE].rec = f.rec
             /\ [f EXCEPT !.full = TRUE, !.synced = TRUE].full
             /\ [f EXCEPT !.full = TRUE, !.synced = TRUE].synced
  <2> DEFINE g == [f EXCEPT !.full = TRUE]
  <2>1. [f EXCEPT !.full = TRUE, !.synced = TRUE] = [g EXCEPT !.synced = TRUE]
    BY Zenon
  <2>2. g \in TempFile /\ g.rec = f.rec /\ g.full
    BY Zenon DEF TempFile
  <2> HIDE DEF g
  <2>3. [g EXCEPT !.synced = TRUE] \in TempFile
    BY Zenon, <1>2, <2>2
  <2>4. /\ [g EXCEPT !.synced = TRUE].rec = g.rec /\ [g EXCEPT !.synced = TRUE].full
        /\ [g EXCEPT !.synced = TRUE].synced
    BY <2>2 DEF TempFile
  <2> QED
    BY Zenon, <2>1, <2>2, <2>3, <2>4
<1> QED
  BY Zenon, <1>1, <1>2, <1>3

\* What Rewrites does to the files.
LEMMA Rewritten ==
    ASSUME TypeOK, NEW w \in Workers, NEW f \in TempFile \cup {Missing}, Rewrites(w, f),
           residue' = residue, kind'[w] = kind[w]
    PROVE  FilesType' /\ Mine(w)' = f
<1>1. CASE kind[w] \in Staged
  BY Zenon, <1>1 DEF Rewrites, TypeOK, FilesType, Mine
<1>2. CASE kind[w] \notin Staged
  BY Zenon, <1>2 DEF Rewrites, TypeOK, FilesType, Mine
<1> QED
  BY <1>1, <1>2

\* The file a worker writes is a file.
LEMMA MineTyped ==
    ASSUME TypeOK, NEW w \in Workers, Mine(w) # Missing
    PROVE  Mine(w) \in TempFile
BY Zenon DEF TypeOK, Mine

\* create_temp and write_all: the file is the worker's own.
LEMMA FileSteps == ASSUME IInv, NEW w \in Workers, create_temp(w) \/ write_all(w) PROVE IInv'
<1>0. Local(w) /\ TypeOK /\ Own(w)
  BY Zenon DEF IInv, LocalInv, OwnTemporary, Own
<1>1. PICK place \in {"write", "rename"} :
        /\ pc[w] = IF place = "write" THEN "temp" ELSE "write"
        /\ place = "write" => create_temp(w)
        /\ place = "rename" => write_all(w)
        /\ Goto(w, place)
        /\ UNCHANGED <<data, maybe, residue, seen, cand, did, historyVars>>
  <2>1. CASE create_temp(w)
    BY <2>1 DEF create_temp
  <2>2. CASE write_all(w)
    BY <2>2 DEF write_all
  <2> QED
    BY <2>1, <2>2
<1>2. pc'[w] = place /\ kind' = kind /\ told' = told /\ UNCHANGED <<acked, used, failures>>
  BY Zenon, <1>0, <1>1 DEF Goto, TypeOK, historyVars
<1>3. Local(w)'
  <2>1. BasedOn(w)' = BasedOn(w) /\ Rev(data)' = Rev(data)
    BY Zenon, <1>1, <1>2 DEF BasedOn, Rev
  <2>2. pc[w] \in {"temp", "write"}
    BY Zenon, <1>1
  <2> HIDE DEF BasedOn, Rev
  <2> QED
    BY <1>0, <1>1, <1>2, <2>1, <2>2 DEF Local
<1>4. /\ pc[w] \in Critical /\ place \in Critical /\ place \in Places /\ place # "idle" /\ pc[w] # "idle"
      /\ used \subseteq used'
  BY <1>1, <1>2 DEF Critical, Publishing, Places
<1>5. cand[w] \in Record
  <2>1. cand[w] # None
    BY <1>0, <1>1 DEF Local
  <2> QED
    BY Zenon, <1>0, <2>1 DEF TypeOK
<1>6. FilesType' /\ Own(w)'
  <2>1. CASE place = "write"
    <3>1. Rewrites(w, File(cand[w]))
      BY Zenon, <1>1, <2>1 DEF create_temp, Rewrites
    <3>2. FilesType' /\ Mine(w)' = File(cand[w])
      BY Zenon, <1>0, <1>1, <1>2, <1>5, <3>1, Rewritten, TempFiles
    <3>3. Mine(w)' # Missing /\ Mine(w)'.rec = cand'[w]
      BY Zenon, <1>1, <1>5, <3>2, TempFiles
    <3>4. pc'[w] # "rename"
      BY <1>2, <2>1
    <3> QED
      BY Zenon, <3>2, <3>3, <3>4 DEF Own
  <2>2. CASE place = "rename"
    <3>1. Mine(w) # Missing /\ Rewrites(w, [Mine(w) EXCEPT !.full = TRUE, !.synced = TRUE])
      BY Zenon, <1>1, <2>2 DEF write_all
    <3>2. Mine(w) \in TempFile
      BY Zenon, <1>0, <3>1, MineTyped
    <3>3. pc[w] \in Publishing
      BY <1>1, <2>2 DEF Publishing
    <3>4. Mine(w).rec = cand[w]
      BY Zenon, <1>0, <3>3 DEF Own
    <3>5. FilesType' /\ Mine(w)' = [Mine(w) EXCEPT !.full = TRUE, !.synced = TRUE]
      BY Zenon, <1>0, <1>1, <1>2, <3>1, <3>2, Rewritten, TempFiles
    <3>6. Mine(w)' # Missing /\ Mine(w)'.rec = cand'[w] /\ Mine(w)'.full /\ Mine(w)'.synced
      BY Zenon, <1>1, <3>2, <3>4, <3>5, TempFiles
    <3> QED
      BY Zenon, <3>5, <3>6 DEF Own
  <2> QED
    BY Zenon, <1>1, <2>1, <2>2
<1>7. used' \subseteq Incarnations /\ cand' \in [Workers -> Record \cup {None}]
  BY Zenon, <1>0, <1>1, <1>2 DEF TypeOK
<1> QED
  BY Zenon, <1>1, <1>2, <1>3, <1>4, <1>6, <1>7, GoesOn

\* What the rename publishes: the worker's own candidate, whole.
LEMMA Publishes ==
    ASSUME IInv, NEW w \in Workers, RenameTemp(w)
    PROVE  /\ cand[w] \in Record /\ cand[w].rev = Rev(data) + 1 /\ data = BasedOn(w)
           /\ data' = cand[w] /\ maybe' = maybe \cup {cand[w]}
           /\ pc[w] = "rename" /\ kind[w] # "confirm" /\ ~did[w]
<1>0. Local(w) /\ TypeOK /\ Own(w)
  BY Zenon DEF IInv, LocalInv, OwnTemporary, Own
<1>1. pc[w] = "rename" /\ data' = Mine(w).rec /\ maybe' = maybe \cup Survives(Mine(w))
  BY Zenon DEF RenameTemp
<1>2. pc[w] \in Publishing
  BY <1>1 DEF Publishing
<1>3. Mine(w).rec = cand[w] /\ Mine(w).synced
  BY Zenon, <1>0, <1>1, <1>2 DEF Own
<1>4. Survives(Mine(w)) = {cand[w]}
  BY Zenon, <1>3 DEF Survives
<1>5. cand[w] # None /\ data = BasedOn(w) /\ cand[w].rev = Rev(data) + 1 /\ kind[w] # "confirm" /\ ~did[w]
  <2> HIDE DEF BasedOn, Rev
  <2> QED
    BY <1>0, <1>1 DEF Local
<1>6. cand[w] \in Record
  BY Zenon, <1>0, <1>5 DEF TypeOK
<1> QED
  BY Zenon, <1>1, <1>3, <1>4, <1>5, <1>6

\* The revision of what a name may refer to is a number.
LEMMA RevTyped == ASSUME NEW r \in Record \cup {Missing} PROVE Rev(r) \in Nat /\ (r # Missing => Rev(r) = r.rev)
<1>1. CASE r = Missing
  BY <1>1 DEF Rev
<1>2. CASE r # Missing
  BY Zenon, <1>2, RecordFields DEF Rev
<1> QED
  BY <1>1, <1>2

\* The rename makes the prepared record the visible one.
LEMMA RenameStep == ASSUME IInv, NEW w \in Workers, RenameTemp(w) PROVE IInv'
<1>0. TypeOK /\ Locked /\ LockOwned /\ LocalInv /\ OwnTemporary /\ Durable /\ Remembered
  BY Zenon DEF IInv
<1>1. /\ cand[w] \in Record /\ cand[w].rev = Rev(data) + 1
      /\ data' = cand[w] /\ maybe' = maybe \cup {cand[w]} /\ pc[w] = "rename" /\ kind[w] # "confirm"
  BY Zenon, Publishes
<1>2. /\ Rewrites(w, Missing) /\ did' = [did EXCEPT ![w] = TRUE] /\ Goto(w, "dirsync")
      /\ UNCHANGED <<residue, seen, cand, acked, used, failures>>
  BY Zenon DEF RenameTemp, historyVars
<1>3. /\ pc' = [pc EXCEPT ![w] = "dirsync"] /\ UNCHANGED <<kind, told, lock, spawned>>
  BY Zenon, <1>2 DEF Goto, lockVars
<1>4. /\ pc' \in [Workers -> Places] /\ pc'[w] = "dirsync" /\ did' \in [Workers -> BOOLEAN] /\ did'[w]
      /\ \A v \in Workers : v # w => pc'[v] = pc[v] /\ did'[v] = did[v]
  BY Zenon, <1>0, <1>2, <1>3 DEF TypeOK, Places
<1>5. FilesType'
  BY Zenon, <1>0, <1>2, <1>3, Rewritten
<1>6. cand[w] # None /\ cand[w] # Missing
  BY Zenon, <1>1, RecordFields
<1>7. TypeOK'
  <2>1. data' \in Record \cup {Missing} /\ maybe' \subseteq Record \cup {Missing}
    BY Zenon, <1>0, <1>1 DEF TypeOK
  <2> QED
    BY Zenon, <1>0, <1>2, <1>3, <1>4, <1>5, <2>1 DEF TypeOK, FilesType
<1>8. OnlyOf(w)
  BY Zenon, <1>2, <1>3, <1>4 DEF OnlyOf, Same
<1>9. pc[w] \in Critical /\ pc'[w] \in Critical
  BY <1>1, <1>4 DEF Critical, Publishing
<1>10. Locked' /\ LockOwned'
  <2>1. lock \in Workers \cup {None}
    BY Zenon, <1>0 DEF TypeOK
  <2> QED
    BY Zenon, <1>0, <1>2, <1>3, <1>4, <1>9, <2>1, LockKept, StoreAssumption
<1>11. LocalInv'
  <2>1. Local(w)'
    <3>1. told[w] = None /\ (kind[w] = "reset" => seen[w] # None)
      <4>1. Local(w)
        BY Zenon, <1>0 DEF LocalInv
      <4> QED
        BY <1>1, <4>1 DEF Local
    <3>2. /\ pc'[w] = "dirsync" /\ kind'[w] # "confirm" /\ told'[w] = None /\ did'[w]
          /\ data' = cand'[w] /\ cand'[w] # None /\ data' # Missing
          /\ kind'[w] = "reset" => seen'[w] # None
      BY Zenon, <1>1, <1>2, <1>3, <1>4, <1>6, <3>1
    <3>3. pc'[w] \notin {"idle", "probe", "source", "lock", "examine", "temp", "write", "rename", "confirm"}
      BY <3>2
    <3> QED
      BY Zenon, <3>2, <3>3 DEF Local
  <2>2. ASSUME NEW v \in Workers, v # w PROVE Local(v)'
    <3>1. pc[v] \notin Critical
      BY Zenon, <1>0, <1>9, <2>2 DEF Locked
    <3> QED
      BY Zenon, <1>0, <1>1, <1>6, <1>8, <2>2, <3>1, LocalAway DEF LocalInv, OnlyOf
  <2> QED
    BY Zenon, <2>1, <2>2 DEF LocalInv
<1>12. OwnTemporary'
  <2>1. Own(w)'
    BY <1>4 DEF Own, Publishing
  <2>2. ASSUME NEW v \in Workers, v # w PROVE Own(v)'
    BY Zenon, <1>0, <1>8, <1>9, <2>2, OwnKept DEF OwnTemporary, Own, OnlyOf
  <2> QED
    BY Zenon, <2>1, <2>2 DEF OwnTemporary, Own
<1>13. Durable'
  <2>1. data' \in maybe'
    BY Zenon, <1>1
  <2>2. Rev(data)' = cand[w].rev /\ cand[w].rev \in Nat /\ Rev(data) \in Nat /\ Rev(cand[w]) = cand[w].rev
    <3>1. cand[w].rev \in Nat /\ Rev(data) \in Nat /\ Rev(cand[w]) = cand[w].rev
      BY Zenon, <1>0, <1>1, <1>6, RevTyped, RecordFields DEF TypeOK
    <3> QED
      BY Zenon, <1>1, <1>6, <3>1 DEF Rev
  <2>3. ASSUME NEW r \in maybe'
        PROVE  /\ Rev(r)' <= Rev(data)'
               /\ acked' # Missing =>
                     r # Missing /\ r.rev >= acked'.rev /\ (r.rev = acked'.rev => r = acked')
    <3>0. Rev(r)' = Rev(r)
      BY Zenon DEF Rev
    <3>1. CASE r \in maybe
      <4>1. /\ Rev(r) <= Rev(data)
            /\ acked # Missing => r # Missing /\ r.rev >= acked.rev /\ (r.rev = acked.rev => r = acked)
        BY Zenon, <1>0, <3>1 DEF Durable
      <4>2. Rev(r) \in Nat
        BY Zenon, <1>0, <3>1, RevTyped DEF TypeOK
      <4>3. Rev(r)' <= Rev(data)'
        <5> HIDE DEF Rev
        <5> QED
          BY <1>1, <2>2, <3>0, <4>1, <4>2
      <4> QED
        BY Zenon, <1>2, <4>1, <4>3
    <3>2. CASE r = cand[w]
      <4>1. Rev(r)' <= Rev(data)'
        <5> HIDE DEF Rev
        <5> QED
          BY <2>2, <3>0, <3>2
      <4>2. ASSUME acked # Missing PROVE cand[w].rev >= acked.rev /\ cand[w].rev # acked.rev
        <5>1. data # Missing /\ data.rev >= acked.rev
          BY Zenon, <1>0, <4>2 DEF Durable
        <5>2. Rev(data) = data.rev /\ acked.rev \in Nat
          BY Zenon, <1>0, <4>2, <5>1, RevTyped, RecordFields DEF TypeOK
        <5> HIDE DEF Rev
        <5> QED
          BY <1>1, <2>2, <5>1, <5>2
      <4> QED
        BY Zenon, <1>2, <1>6, <3>2, <4>1, <4>2
    <3> QED
      BY Zenon, <1>1, <3>1, <3>2
  <2> QED
    BY Zenon, <2>1, <2>3 DEF Durable
<1>14. Remembered'
  <2>1. ASSUME NEW v \in Workers, seen'[v] # None
        PROVE  data' # Missing /\ seen'[v].rev <= data'.rev /\ (seen'[v].rev = data'.rev => seen'[v] = data')
    <3>1. seen[v] # None /\ data # Missing /\ seen[v].rev <= data.rev
      BY Zenon, <1>0, <1>2, <2>1 DEF Remembered
    <3>2. seen[v].rev \in Nat /\ data.rev \in Nat /\ Rev(data) = data.rev
      BY Zenon, <1>0, <3>1, RecordFields, RevTyped DEF TypeOK
    <3>3. seen[v].rev <= cand[w].rev /\ seen[v].rev # cand[w].rev
      <4> HIDE DEF Rev
      <4> QED
        BY <1>1, <3>1, <3>2
    <3> QED
      BY Zenon, <1>1, <1>2, <1>6, <3>3
  <2>2. cand[w].inc \in used
    BY Zenon, <1>0, <1>6 DEF Remembered
  <2>3. \A r \in maybe' : r # Missing => r.inc \in used'
    BY Zenon, <1>0, <1>1, <1>2, <2>2 DEF Remembered
  <2>4. /\ \A v \in Workers : seen'[v] # None => seen'[v].inc \in used'
        /\ \A v \in Workers : cand'[v] # None => cand'[v].inc \in used'
    BY Zenon, <1>0, <1>2 DEF Remembered
  <2>5. ASSUME NEW v \in Workers, Owed(v)'
        PROVE  /\ data' # Missing => data'.inc # cand'[v].inc
               /\ \A u \in Workers : seen'[u] # None => seen'[u].inc # cand'[v].inc
               /\ \A u \in Workers \ {v} : cand'[u] # None => cand'[u].inc # cand'[v].inc
    <3>1. v # w
      BY Zenon, <1>4, <2>5 DEF Owed
    <3>2. Owed(v)
      BY Zenon, <1>8, <2>5, <3>1 DEF Owed, OnlyOf, Same
    <3>3. /\ \A u \in Workers : seen[u] # None => seen[u].inc # cand[v].inc
          /\ \A u \in Workers \ {v} : cand[u] # None => cand[u].inc # cand[v].inc
      BY Zenon, <1>0, <3>2 DEF Remembered
    <3> QED
      BY Zenon, <1>1, <1>2, <1>6, <3>1, <3>3
  <2> QED
    BY Zenon, <2>1, <2>3, <2>4, <2>5 DEF Remembered
<1> QED
  BY Zenon, <1>7, <1>10, <1>11, <1>12, <1>13, <1>14 DEF IInv

\* The rename is made durable, or is not.
LEMMA DirectorySteps == ASSUME IInv, NEW w \in Workers, SyncDir(w) \/ SyncDirFails(w) PROVE IInv'
<1>0. Local(w) /\ TypeOK
  BY Zenon DEF IInv, LocalInv
<1>1. pc[w] = "dirsync"
  BY Zenon DEF SyncDir, SyncDirFails
<1>2. did[w] /\ data = cand[w] /\ cand[w] # None
  BY Zenon, <1>0, <1>1 DEF Local
<1>3. data # Missing
  BY Zenon, <1>0, <1>2 DEF Local
<1>4. CASE SyncDir(w)
  <2>1. /\ Finish(w, "saved") /\ maybe' = {data} /\ seen' = [seen EXCEPT ![w] = data] /\ acked' = data
        /\ UNCHANGED <<data, temp, staging, residue, did, used, failures>>
    BY Zenon, <1>2, <1>4 DEF SyncDir
  <2>2. FilesType'
    BY Zenon, <1>0, <2>1 DEF TypeOK, FilesType
  <2>3. "saved" # None => (did[w] <=> "saved" \in {"saved", "unsure"})
    BY Zenon, <1>2
  <2> QED
    BY Zenon, <1>3, <2>1, <2>2, <2>3, Returns
<1>5. CASE SyncDirFails(w)
  <2>1. Finish(w, "unsure") /\ UNCHANGED <<seen, did, fileVars, historyVars>>
    BY Zenon, <1>5 DEF SyncDirFails
  <2>2. "unsure" # None => (did[w] <=> "unsure" \in {"saved", "unsure"})
    BY Zenon, <1>2
  <2> QED
    BY Zenon, <2>1, <2>2, ReturnsQuietly
<1> QED
  BY <1>4, <1>5

\* confirm_initial_record: what it finds under its name is what it published, for
\* nobody else can publish a record of that incarnation.
LEMMA ConfirmSyncStep == ASSUME IInv, NEW w \in Workers, ConfirmSync(w) PROVE IInv'
<1>0. Local(w) /\ TypeOK
  BY Zenon DEF IInv, LocalInv
<1>1. /\ pc[w] = "confirm" /\ maybe' = {data}
      /\ UNCHANGED <<data, temp, staging, residue, did, used, failures>>
  BY Zenon DEF ConfirmSync
<1>2. kind[w] = "confirm" /\ data \in {Missing, cand[w]} /\ cand[w] # None
  BY <1>0, <1>1 DEF Local
<1>3. FilesType'
  BY Zenon, <1>0, <1>1 DEF TypeOK, FilesType
<1>4. CASE data = Missing
  <2>1. Finish(w, "unsaved") /\ UNCHANGED <<seen, acked>>
    BY Zenon, <1>4 DEF ConfirmSync
  <2>2. ~did[w]
    BY Zenon, <1>0, <1>4 DEF Local
  <2>3. "unsaved" # None => (did[w] <=> "unsaved" \in {"saved", "unsure"})
    BY <2>2
  <2> QED
    BY Zenon, <1>1, <1>3, <2>1, <2>3, Returns
<1>5. CASE data # Missing
  <2>0. data = cand[w]
    BY Zenon, <1>2, <1>5
  <2>1. Finish(w, "saved") /\ seen' = [seen EXCEPT ![w] = data] /\ acked' = data
    BY Zenon, <1>5, <2>0 DEF ConfirmSync
  <2>2. did[w]
    <3>1. SUFFICES ASSUME ~did[w] PROVE FALSE
      OBVIOUS
    <3>2. Owed(w)
      BY Zenon, <1>2, <3>1 DEF Owed
    <3> QED
      BY Zenon, <1>5, <2>0, <3>2 DEF IInv, Remembered
  <2>3. "saved" # None => (did[w] <=> "saved" \in {"saved", "unsure"})
    BY Zenon, <2>2
  <2> QED
    BY Zenon, <1>1, <1>3, <1>5, <2>1, <2>3, Returns
<1> QED
  BY <1>4, <1>5

\* What a worker leaves behind are files.
LEMMA AbandonsFiles ==
    ASSUME IInv, NEW w \in Workers, Abandons(w)
    PROVE  FilesType' /\ \A v \in Workers : v # w => staging'[v] = staging[v]
<1>0. TypeOK /\ Own(w)
  BY Zenon DEF IInv, OwnTemporary, Own
<1>1. pc[w] = "write" => Mine(w) \in TempFile
  <2>1. pc[w] = "write" => pc[w] \in Publishing
    BY DEF Publishing
  <2> QED
    BY Zenon, <1>0, <2>1, MineTyped DEF Own
<1>2. temp' \in TempFile \cup {Missing}
  <2>1. CASE temp' = temp
    BY Zenon, <1>0, <2>1 DEF TypeOK
  <2>2. CASE pc[w] = "write" /\ kind[w] \notin Staged /\ temp' = [temp EXCEPT !.full = TRUE]
    BY Zenon, <1>1, <2>2, TempFiles DEF Mine
  <2> QED
    BY Zenon, <2>1, <2>2 DEF Abandons
<1>3. staging' \in [Workers -> TempFile \cup {Missing}] /\ \A v \in Workers : v # w => staging'[v] = staging[v]
  BY Zenon, <1>0 DEF Abandons, TypeOK
<1>4. residue' \subseteq TempFile
  <2>1. CASE residue' = residue \cup ({staging[w]} \ {Missing})
    BY Zenon, <1>0, <2>1 DEF TypeOK
  <2>2. CASE /\ pc[w] = "write" /\ kind[w] \in Staged
             /\ residue' = residue \cup {[staging[w] EXCEPT !.full = TRUE]}
    <3>1. [staging[w] EXCEPT !.full = TRUE] \in TempFile
      BY Zenon, <1>1, <2>2, TempFiles DEF Mine
    <3> QED
      BY Zenon, <1>0, <2>2, <3>1 DEF TypeOK
  <2> QED
    BY Zenon, <2>1, <2>2 DEF Abandons
<1> QED
  BY Zenon, <1>2, <1>3, <1>4 DEF FilesType

\* An error before the rename.
LEMMA PublishFailsStep == ASSUME IInv, NEW w \in Workers, PublishFails(w) PROVE IInv'
<1>0. Local(w) /\ TypeOK
  BY Zenon DEF IInv, LocalInv
<1>1. /\ pc[w] \in {"temp", "write", "rename"} /\ Finish(w, "unsaved")
      /\ UNCHANGED <<data, maybe, seen, did, acked, used, failures>>
  BY Zenon DEF PublishFails, Publishing, historyVars
<1>2. pc[w] \in Critical /\ pc[w] \notin {"idle", "dirsync"}
  BY <1>1 DEF Critical, Publishing
<1>3. ~did[w]
  BY Zenon, <1>0, <1>1, <1>2 DEF Local
<1>4. "unsaved" # None => (did[w] <=> "unsaved" \in {"saved", "unsure"})
  BY <1>3
<1>5. FilesType'
  <2>1. CASE UNCHANGED <<temp, staging, residue>>
    BY Zenon, <1>0, <2>1 DEF TypeOK, FilesType
  <2>2. CASE Rewrites(w, Missing) /\ UNCHANGED residue
    <3>1. CASE kind[w] \in Staged
      BY Zenon, <1>0, <2>2, <3>1 DEF Rewrites, TypeOK, FilesType
    <3>2. CASE kind[w] \notin Staged
      BY Zenon, <1>0, <2>2, <3>2 DEF Rewrites, TypeOK, FilesType
    <3> QED
      BY <3>1, <3>2
  <2>3. CASE Abandons(w)
    BY Zenon, <2>3, AbandonsFiles
  <2> QED
    BY Zenon, <2>1, <2>2, <2>3 DEF PublishFails
<1> QED
  BY Zenon, <1>1, <1>2, <1>4, <1>5, Returns

-----------------------------------------------------------------------------
(* Beginning and failures.                                                 *)

\* An operation begins.
LEMMA BeginStep == ASSUME IInv, NEW w \in Workers, NEW k, Begin(w, k) PROVE IInv'
<1>0. Local(w) /\ TypeOK /\ Locked /\ LockOwned /\ LocalInv /\ OwnTemporary /\ Durable
  BY Zenon DEF IInv, LocalInv
<1>1. /\ pc[w] = "idle" /\ kind' = [kind EXCEPT ![w] = k]
      /\ k = "reset" => seen[w] # None
      /\ k = "confirm" => cand[w] # None
      /\ UNCHANGED <<seen, lock, spawned, data, maybe, temp, staging, residue, acked, used, failures>>
  BY Zenon DEF Begin, fileVars, lockVars, historyVars
<1>2. PICK place \in {"probe", "source", "lock"} :
        /\ pc' = [pc EXCEPT ![w] = place]
        /\ place = "probe" => k \in Loading
        /\ place = "source" <=> k = "migrate"
  <2> DEFINE p == CASE k \in Loading -> "probe" [] k = "migrate" -> "source" [] OTHER -> "lock"
  <2>1. pc' = [pc EXCEPT ![w] = p]
    BY Zenon DEF Begin
  <2>2. CASE k \in Loading
    <3>1. k # "migrate"
      BY <2>2 DEF Loading
    <3>2. p = "probe"
      BY Zenon, <2>2, <3>1
    <3> QED
      BY <2>1, <2>2, <3>1, <3>2
  <2>3. CASE k = "migrate"
    <3>1. k \notin Loading
      BY <2>3 DEF Loading
    <3>2. p = "source"
      BY Zenon, <2>3, <3>1
    <3> QED
      BY <2>1, <2>3, <3>1, <3>2
  <2>4. CASE k \notin Loading /\ k # "migrate"
    <3>1. p = "lock"
      BY Zenon, <2>4
    <3> QED
      BY <2>1, <2>4, <3>1
  <2> QED
    BY <2>2, <2>3, <2>4
<1>3. /\ place \notin {"idle", "examine", "temp", "write", "rename", "dirsync", "confirm"}
      /\ place \in Places /\ place \notin Critical /\ pc[w] \notin Critical
  BY <1>1 DEF Places, Critical, Publishing
<1>4. /\ pc' \in [Workers -> Places] /\ pc'[w] = place /\ DOMAIN kind' = Workers /\ kind'[w] = k
      /\ \A v \in Workers : v # w => pc'[v] = pc[v] /\ kind'[v] = kind[v]
  BY Zenon, <1>0, <1>1, <1>2, <1>3 DEF TypeOK
<1>5. /\ DOMAIN told' = Workers /\ did' \in [Workers -> BOOLEAN] /\ cand' \in [Workers -> Record \cup {None}]
      /\ \A v \in Workers : v # w => told'[v] = told[v] /\ did'[v] = did[v] /\ cand'[v] = cand[v]
      /\ \/ k = "confirm" /\ told'[w] = told[w] /\ did'[w] = did[w] /\ cand'[w] = cand[w]
         \/ k # "confirm" /\ told'[w] = None /\ did'[w] = FALSE /\ cand'[w] = None
  <2>1. CASE k = "confirm"
    BY Zenon, <1>0, <2>1 DEF Begin, TypeOK
  <2>2. CASE k # "confirm"
    BY Zenon, <1>0, <2>2 DEF Begin, TypeOK
  <2> QED
    BY Zenon, <2>1, <2>2
<1>6. TypeOK'
  BY Zenon, <1>0, <1>1, <1>4, <1>5 DEF TypeOK
<1>7. OnlyOf(w)
  BY Zenon, <1>1, <1>4, <1>5 DEF OnlyOf, Same
<1>8. Locked' /\ LockOwned'
  <2>1. lock \in Workers \cup {None}
    BY Zenon, <1>0 DEF TypeOK
  <2>2. pc'[w] \in Critical <=> pc[w] \in Critical
    BY Zenon, <1>3, <1>4
  <2> QED
    BY ZenonT(60), <1>0, <1>1, <1>4, <2>1, <2>2, LockKept, StoreAssumption
<1>9. LocalInv'
  <2>1. Local(w)'
    <3>1. /\ did[w] => data # Missing
          /\ told[w] # None => (did[w] <=> told[w] \in {"saved", "unsure"})
      BY Zenon, <1>0 DEF Local
    <3>2. CASE k = "confirm"
      <4>1. k \notin {"reset", "migrate"}
        BY <3>2
      <4> QED
        BY Zenon, <1>1, <1>2, <1>3, <1>4, <1>5, <3>1, <3>2, <4>1 DEF Local
    <3>3. CASE k # "confirm"
      <4>1. place = "lock" => k # "migrate"
        BY <1>2
      <4> QED
        BY Zenon, <1>1, <1>2, <1>3, <1>4, <1>5, <3>1, <3>3, <4>1 DEF Local
    <3> QED
      BY <3>2, <3>3
  <2>2. ASSUME NEW v \in Workers, v # w PROVE Local(v)'
    BY Zenon, <1>0, <1>1, <1>7, <2>2, LocalKept DEF LocalInv, OnlyOf
  <2> QED
    BY Zenon, <2>1, <2>2 DEF LocalInv
<1>10. OwnTemporary'
  <2>1. Own(w)'
    BY Zenon, <1>3, <1>4 DEF Own, Critical
  <2>2. ASSUME NEW v \in Workers, v # w PROVE Own(v)'
    BY Zenon, <1>0, <1>1, <1>7, <2>2, OwnKept DEF OwnTemporary, Own, OnlyOf
  <2> QED
    BY Zenon, <2>1, <2>2 DEF OwnTemporary, Own
<1>11. Durable'
  BY Zenon, <1>0, <1>1, DurableKept
<1>12. Remembered'
  <2>1. cand'[w] # None => cand'[w] = cand[w] /\ (Owed(w)' => Owed(w))
    BY Zenon, <1>1, <1>5 DEF Owed
  <2> QED
    BY Zenon, <1>1, <1>7, <2>1, RememberedKept
<1> QED
  BY Zenon, <1>6, <1>8, <1>9, <1>10, <1>11, <1>12 DEF IInv

\* Only the flock changes hands.
LEMMA OnlyTheLock ==
    ASSUME IInv, UNCHANGED <<fileVars, opVars, historyVars>>,
           lock' \in Workers \cup {None}, spawned' \subseteq Workers, Locked', LockOwned'
    PROVE  IInv'
<1>0. TypeOK /\ LocalInv /\ OwnTemporary /\ Durable /\ Remembered
  BY Zenon DEF IInv
<1>1. UNCHANGED <<data, maybe, temp, staging, residue, pc, kind, seen, cand, told, did, acked, used, failures>>
  BY Zenon DEF fileVars, opVars, historyVars
<1>2. TypeOK'
  BY Zenon, <1>0, <1>1 DEF TypeOK
<1>3. LocalInv'
  BY Zenon, <1>0, <1>1, LocalKept DEF LocalInv, Same
<1>4. OwnTemporary'
  BY Zenon, <1>0, <1>1 DEF OwnTemporary, Mine
<1>5. Durable'
  BY Zenon, <1>0, <1>1, DurableKept
<1>6. Remembered'
  BY Zenon, <1>0, <1>1 DEF Remembered, Owed
<1> QED
  BY Zenon, <1>2, <1>3, <1>4, <1>5, <1>6 DEF IInv

\* A child process inherits the lock file and lets go of it.
LEMMA ChildSteps == ASSUME IInv, NEW w \in Workers, Spawn(w) \/ ChildExecs(w) PROVE IInv'
<1>0. TypeOK /\ Locked /\ LockOwned
  BY Zenon DEF IInv
<1>1. /\ UNCHANGED <<fileVars, opVars, historyVars>> /\ pc' = pc /\ failures' = failures
  BY Zenon DEF Spawn, ChildExecs, opVars, historyVars
<1>2. CASE Spawn(w)
  <2>1. lock' = lock /\ spawned' = spawned \cup {w}
    BY Zenon, <1>2 DEF Spawn
  <2>2. lock' \in Workers \cup {None} /\ spawned' \subseteq Workers
    BY Zenon, <1>0, <2>1 DEF TypeOK
  <2>3. Locked' /\ LockOwned'
    BY Zenon, <1>0, <1>1, <2>1 DEF Locked, LockOwned
  <2> QED
    BY Zenon, <1>1, <2>2, <2>3, OnlyTheLock
<1>3. CASE ChildExecs(w)
  <2>1. spawned' = spawned \ {w} /\ lock' = IF lock = w /\ pc[w] \notin Critical THEN None ELSE lock
    BY Zenon, <1>3 DEF ChildExecs
  <2>2. lock' \in Workers \cup {None} /\ spawned' \subseteq Workers
    BY Zenon, <1>0, <2>1 DEF TypeOK
  <2>3. Locked'
    BY Zenon, <1>0, <1>1, <2>1 DEF Locked
  <2>4. LockOwned'
    BY Zenon, <1>0, <1>1, <2>1 DEF LockOwned
  <2> QED
    BY Zenon, <1>1, <2>2, <2>3, <2>4, OnlyTheLock
<1> QED
  BY <1>2, <1>3

\* A process dies: what it was doing is forgotten, what it left are files.
LEMMA DieStep == ASSUME IInv, NEW w \in Workers, Die(w) PROVE IInv'
<1>0. TypeOK /\ Locked /\ LockOwned /\ LocalInv /\ OwnTemporary /\ Durable
  BY Zenon DEF IInv
<1>1. /\ failures' = failures + 1 /\ Abandons(w) /\ UNCHANGED <<data, maybe, spawned, acked, used>>
      /\ lock' = IF lock = w /\ w \notin spawned THEN None ELSE lock
  BY Zenon DEF Die
<1>2. failures' \in Nat /\ failures' > 0
  <2>1. failures \in Nat
    BY Zenon, <1>0 DEF TypeOK
  <2> QED
    BY <1>1, <2>1
<1>3. /\ pc' \in [Workers -> Places] /\ pc'[w] = "idle" /\ seen' \in [Workers -> Record \cup {None}]
      /\ cand' \in [Workers -> Record \cup {None}] /\ cand'[w] = None /\ seen'[w] = None
      /\ \A v \in Workers : v # w => pc'[v] = pc[v] /\ seen'[v] = seen[v] /\ cand'[v] = cand[v]
  BY Zenon, <1>0 DEF Die, TypeOK, Places
<1>4. /\ DOMAIN kind' = Workers /\ DOMAIN told' = Workers /\ told'[w] = None
      /\ did' \in [Workers -> BOOLEAN] /\ did'[w] = FALSE
      /\ \A v \in Workers : v # w => kind'[v] = kind[v] /\ told'[v] = told[v] /\ did'[v] = did[v]
  BY Zenon, <1>0 DEF Die, TypeOK
<1>5. FilesType' /\ \A v \in Workers : v # w => staging'[v] = staging[v]
  BY Zenon, <1>1, AbandonsFiles
<1>6. TypeOK'
  <2>1. lock' \in Workers \cup {None}
    BY Zenon, <1>0, <1>1 DEF TypeOK
  <2> QED
    BY Zenon, <1>0, <1>1, <1>2, <1>3, <1>4, <1>5, <2>1 DEF TypeOK, FilesType
<1>7. OnlyOf(w)
  BY Zenon, <1>3, <1>4 DEF OnlyOf, Same
<1>8. pc'[w] \notin Critical /\ pc'[w] \notin Publishing
  BY <1>3 DEF Critical, Publishing
<1>9. Locked'
  BY Zenon, <1>0, <1>1, <1>3, <1>8 DEF Locked
<1>10. LockOwned'
  <2>1. CASE lock = w
    BY Zenon, <1>1, <1>2, <2>1 DEF LockOwned
  <2>2. CASE lock # w
    BY Zenon, <1>0, <1>1, <1>2, <1>3, <2>2 DEF LockOwned, TypeOK
  <2> QED
    BY <2>1, <2>2
<1>11. LocalInv'
  <2>1. Local(w)'
    BY <1>3, <1>4 DEF Local
  <2>2. ASSUME NEW v \in Workers, v # w PROVE Local(v)'
    BY Zenon, <1>0, <1>1, <1>7, <2>2, LocalKept DEF LocalInv, OnlyOf
  <2> QED
    BY Zenon, <2>1, <2>2 DEF LocalInv
<1>12. OwnTemporary'
  <2>1. Own(w)'
    BY Zenon, <1>8 DEF Own
  <2>2. ASSUME NEW v \in Workers, v # w PROVE Own(v)'
    <3>1. pc[w] \in Critical \/ (temp' = temp /\ staging'[v] = staging[v])
      <4>1. pc[w] = "write" => pc[w] \in Critical
        BY DEF Critical, Publishing
      <4> QED
        BY Zenon, <1>1, <1>5, <2>2, <4>1 DEF Abandons
    <3> QED
      BY Zenon, <1>0, <1>7, <2>2, <3>1, OwnKept DEF OwnTemporary, Own, OnlyOf
  <2> QED
    BY Zenon, <2>1, <2>2 DEF OwnTemporary, Own
<1>13. Durable'
  BY Zenon, <1>0, <1>1, DurableKept
<1>14. Remembered'
  BY Zenon, <1>1, <1>3, <1>7, RememberedKept
<1> QED
  BY Zenon, <1>6, <1>9, <1>10, <1>11, <1>12, <1>13, <1>14 DEF IInv

\* The host loses power: the data name refers to something it may refer to.
LEMMA PowerFailureStep == ASSUME IInv, PowerFailure PROVE IInv'
<1>0. TypeOK /\ Durable /\ Remembered
  BY Zenon DEF IInv
<1>1. /\ failures' = failures + 1 /\ data' \in maybe /\ maybe' = {data'} /\ temp' \in Remains(temp)
      /\ residue' \in SUBSET (residue \cup ({staging[w] : w \in Workers} \ {Missing}))
      /\ lock' = None /\ spawned' = {} /\ UNCHANGED <<acked, used>>
  BY Zenon DEF PowerFailure
<1>2. \A w \in Workers : /\ pc'[w] = "idle" /\ seen'[w] = None /\ cand'[w] = None /\ told'[w] = None
                         /\ did'[w] = FALSE /\ staging'[w] = Missing
  BY Zenon DEF PowerFailure
<1>3. TypeOK'
  <2>1. /\ pc' \in [Workers -> Places] /\ seen' \in [Workers -> Record \cup {None}]
        /\ cand' \in [Workers -> Record \cup {None}] /\ did' \in [Workers -> BOOLEAN]
        /\ staging' \in [Workers -> TempFile \cup {Missing}]
        /\ DOMAIN kind' = Workers /\ DOMAIN told' = Workers
    BY Zenon DEF PowerFailure, Places
  <2>2. data' \in Record \cup {Missing} /\ maybe' \subseteq Record \cup {Missing}
    BY Zenon, <1>0, <1>1 DEF TypeOK
  <2>3. temp' \in TempFile \cup {Missing}
    <3>1. CASE temp = Missing
      BY Zenon, <1>1, <3>1 DEF Remains
    <3>2. CASE temp # Missing
      <4>1. temp \in TempFile
        BY Zenon, <1>0, <3>2 DEF TypeOK
      <4> QED
        BY Zenon, <1>1, <3>2, <4>1, TempFiles DEF Remains
    <3> QED
      BY <3>1, <3>2
  <2>4. residue' \subseteq TempFile
    <3>1. ASSUME NEW f \in residue' PROVE f \in TempFile
      <4>1. f \in residue \/ \E w \in Workers : f = staging[w] /\ f # Missing
        BY Zenon, <1>1, <3>1
      <4> QED
        BY Zenon, <1>0, <4>1 DEF TypeOK
    <3> QED
      BY Zenon, <3>1
  <2>5. failures' \in Nat
    <3>1. failures \in Nat
      BY Zenon, <1>0 DEF TypeOK
    <3> QED
      BY <1>1, <3>1
  <2>6. lock' \in Workers \cup {None} /\ spawned' \subseteq Workers
    BY Zenon, <1>1
  <2> QED
    BY Zenon, <1>0, <1>1, <2>1, <2>2, <2>3, <2>4, <2>5, <2>6 DEF TypeOK
<1>4. Locked' /\ LockOwned' /\ OwnTemporary'
  <2>1. \A w \in Workers : pc'[w] \notin Critical /\ pc'[w] \notin Publishing
    BY <1>2 DEF Critical, Publishing
  <2> QED
    BY Zenon, <1>1, <2>1 DEF Locked, LockOwned, OwnTemporary
<1>5. LocalInv'
  <2>1. ASSUME NEW w \in Workers PROVE Local(w)'
    <3>1. pc'[w] = "idle" /\ told'[w] = None /\ ~did'[w]
      BY Zenon, <1>2
    <3> QED
      BY <3>1 DEF Local
  <2> QED
    BY Zenon, <2>1 DEF LocalInv
<1>6. Durable'
  <2>1. Rev(data)' \in Nat
    BY Zenon, <1>3, RevTyped DEF TypeOK, Rev
  <2>2. Rev(data)' <= Rev(data)'
    BY <2>1
  <2>3. acked # Missing => /\ data' # Missing /\ data'.rev >= acked.rev
                           /\ data'.rev = acked.rev => data' = acked
    BY Zenon, <1>0, <1>1 DEF Durable
  <2> QED
    BY Zenon, <1>1, <2>2, <2>3 DEF Durable
<1>7. Remembered'
  <2>1. \A r \in maybe' : r # Missing => r.inc \in used'
    BY Zenon, <1>0, <1>1 DEF Remembered
  <2> QED
    BY Zenon, <1>2, <2>1 DEF Remembered, Owed
<1> QED
  BY Zenon, <1>3, <1>4, <1>5, <1>6, <1>7 DEF IInv

-----------------------------------------------------------------------------
(* The invariant.                                                          *)

\* An empty store.
LEMMA InitIInv == Init => IInv
<1> SUFFICES ASSUME Init PROVE IInv
  OBVIOUS
<1>1. /\ data = Missing /\ maybe = {Missing} /\ temp = Missing /\ residue = {} /\ lock = None /\ spawned = {}
      /\ acked = Missing /\ used = {} /\ failures = 0
      /\ \A w \in Workers : /\ pc[w] = "idle" /\ seen[w] = None /\ cand[w] = None /\ told[w] = None
                            /\ did[w] = FALSE
  BY Zenon DEF Init
<1>2. TypeOK
  <2>1. /\ pc \in [Workers -> Places] /\ seen \in [Workers -> Record \cup {None}]
        /\ cand \in [Workers -> Record \cup {None}] /\ did \in [Workers -> BOOLEAN]
        /\ staging \in [Workers -> TempFile \cup {Missing}]
        /\ DOMAIN kind = Workers /\ DOMAIN told = Workers
    BY Zenon DEF Init, Places
  <2>2. failures \in Nat
    BY <1>1
  <2> QED
    BY Zenon, <1>1, <2>1, <2>2 DEF TypeOK
<1>3. Locked /\ LockOwned /\ OwnTemporary
  <2>1. \A w \in Workers : pc[w] \notin Critical /\ pc[w] \notin Publishing
    BY <1>1 DEF Critical, Publishing
  <2> QED
    BY Zenon, <1>1, <2>1 DEF Locked, LockOwned, OwnTemporary
<1>4. LocalInv
  <2>1. ASSUME NEW w \in Workers PROVE Local(w)
    <3>1. pc[w] = "idle" /\ told[w] = None /\ ~did[w]
      BY Zenon, <1>1
    <3> QED
      BY <3>1 DEF Local
  <2> QED
    BY Zenon, <2>1 DEF LocalInv
<1>5. Durable
  BY <1>1 DEF Durable, Rev
<1>6. Remembered
  BY Zenon, <1>1 DEF Remembered, Owed
<1> QED
  BY Zenon, <1>2, <1>3, <1>4, <1>5, <1>6 DEF IInv

\* Every step keeps the invariant.
LEMMA NextIInv == IInv /\ [Next]_vars => IInv'
<1> SUFFICES ASSUME IInv, [Next]_vars PROVE IInv'
  OBVIOUS
<1>1. ASSUME NEW w \in Workers, Step(w) PROVE IInv'
  <2>1. ASSUME Examine(w) PROVE IInv'
    BY Zenon, <2>1, SavePrepared, CreatePrepared, ResetPrepared, MigratePrepared, ExamineEnds, ConfirmStep,
       EntrySteps DEF Examine
  <2> QED
    BY Zenon, <1>1, <2>1, EntrySteps, LockStep, FileSteps, RenameStep, DirectorySteps, PublishFailsStep,
       ConfirmSyncStep DEF Step
<1>2. CASE UNCHANGED vars
  <2>1. UNCHANGED <<fileVars, opVars, historyVars, lock, spawned, pc, failures>>
    BY Zenon, <1>2 DEF vars, lockVars, opVars, historyVars
  <2>2. lock' \in Workers \cup {None} /\ spawned' \subseteq Workers /\ Locked' /\ LockOwned'
    BY Zenon, <2>1 DEF IInv, TypeOK, Locked, LockOwned
  <2> QED
    BY Zenon, <2>1, <2>2, OnlyTheLock
<1>3. CASE Next
  BY Zenon, <1>1, <1>3, BeginStep, ChildSteps, DieStep, PowerFailureStep DEF Next
<1> QED
  BY <1>2, <1>3

\* The state keeps its types and the inductive invariant.
THEOREM Invariant == Spec => []IInv
BY InitIInv, NextIInv, PTL DEF Spec

\* What a caller was told to be saved is there, or what replaced it, whatever dies
\* afterwards, and no partially written record ever is (publish_record,
\* confirm_initial_record).
THEOREM AcknowledgedAlwaysSurvives == Spec => []AcknowledgedSurvives
<1>1. IInv => AcknowledgedSurvives
  <2> SUFFICES ASSUME IInv PROVE AcknowledgedSurvives
    OBVIOUS
  <2>1. data # Torn
    BY Zenon, StoreAssumption, RecordFields DEF IInv, TypeOK
  <2> QED
    BY Zenon, <2>1 DEF IInv, Durable, AcknowledgedSurvives
<1> QED
  BY <1>1, Invariant, PTL

\* The flock never outlives the operation that took it, unless its process died
\* while a child shared the descriptor (SessionLockGuard).
THEOREM LockAlwaysOwned == Spec => []LockOwned
<1>1. IInv => LockOwned
  BY Zenon DEF IInv
<1> QED
  BY <1>1, Invariant, PTL

\* The file an operation renames is the one it created and wrote (publish_record,
\* cleanup_one).
THEOREM TemporaryAlwaysOwn == Spec => []OwnTemporary
<1>1. IInv => OwnTemporary
  BY Zenon DEF IInv
<1> QED
  BY <1>1, Invariant, PTL

\* A refused, failed or cancelled operation published nothing, and one that cannot
\* tell did publish, confirmations of an initial record included.
THEOREM AnswersAlwaysTrue == Spec => []AnswersAreTrue
<1>1. IInv => AnswersAreTrue
  BY Zenon DEF IInv, LocalInv, Local, AnswersAreTrue
<1> QED
  BY <1>1, Invariant, PTL

-----------------------------------------------------------------------------
(* What a step does to the stored record.                                  *)

\* Steps other than the rename, the receipts and the power failure leave the stored
\* and the acknowledged record, and publish nothing.
LEMMA QuietSteps ==
    ASSUME IInv, NEW w \in Workers,
           \/ Step(w) /\ ~RenameTemp(w) /\ ~SyncDir(w) /\ ~ConfirmSync(w)
           \/ \E k \in Operations : Begin(w, k)
           \/ Spawn(w) \/ ChildExecs(w) \/ Die(w)
    PROVE  /\ data' = data /\ acked' = acked
           /\ did' = did \/ did' = [did EXCEPT ![w] = FALSE]
<1>1. CASE probe_data(w) \/ read_source(w) \/ lock_exclusive(w) \/ LockBusy(w) \/ ReadFails(w)
  BY Zenon, <1>1 DEF probe_data, read_source, lock_exclusive, LockBusy, ReadFails, fileVars, historyVars
<1>2. CASE ExamineSave(w) \/ ExamineCreate(w) \/ ExamineReset(w) \/ ExamineMigrate(w)
  <2>1. PICK r : Prepare(w, r)
    BY Zenon, <1>2 DEF ExamineSave, ExamineCreate, ExamineReset, ExamineMigrate
  <2> QED
    BY Zenon, <2>1 DEF Prepare, fileVars
<1>3. CASE ExamineLoad(w) \/ ExamineCurrent(w) \/ ExamineConfirm(w) \/ ExamineExhausted(w)
  BY Zenon, <1>3 DEF ExamineLoad, ExamineCurrent, ExamineConfirm, ExamineExhausted, fileVars, historyVars
<1>4. CASE ExamineConflict(w) \/ cleanup_one(w) \/ CleanupLeaves(w)
  BY Zenon, <1>4 DEF ExamineConflict, cleanup_one, CleanupLeaves, fileVars, historyVars
<1>5. CASE create_temp(w) \/ write_all(w) \/ SyncDirFails(w) \/ PublishFails(w)
  BY Zenon, <1>5 DEF create_temp, write_all, SyncDirFails, PublishFails, fileVars, historyVars
<1>6. CASE \E k \in Operations : Begin(w, k)
  BY Zenon, <1>6 DEF Begin, fileVars, historyVars
<1>7. CASE Spawn(w) \/ ChildExecs(w)
  BY Zenon, <1>7 DEF Spawn, ChildExecs, fileVars, opVars, historyVars
<1>8. CASE Die(w)
  BY Zenon, <1>8 DEF Die
<1> QED
  BY Zenon, <1>1, <1>2, <1>3, <1>4, <1>5, <1>6, <1>7, <1>8 DEF Step, Examine

\* A receipt is for the stored record.
LEMMA Receipts ==
    ASSUME IInv, NEW w \in Workers, SyncDir(w) \/ ConfirmSync(w)
    PROVE  /\ data' = data /\ did' = did
           /\ acked' = acked \/ (acked' = data /\ data # Missing)
<1>0. Local(w)
  BY Zenon DEF IInv, LocalInv
<1>1. CASE SyncDir(w)
  <2>1. pc[w] = "dirsync"
    BY Zenon, <1>1 DEF SyncDir
  <2>2. data = cand[w] /\ data # Missing
    BY Zenon, <1>0, <2>1 DEF Local
  <2> QED
    BY Zenon, <1>1, <2>2 DEF SyncDir
<1>2. CASE ConfirmSync(w)
  <2>1. pc[w] = "confirm"
    BY Zenon, <1>2 DEF ConfirmSync
  <2>2. data \in {Missing, cand[w]}
    BY Zenon, <1>0, <2>1 DEF Local
  <2> QED
    BY Zenon, <1>2, <2>2 DEF ConfirmSync
<1> QED
  BY <1>1, <1>2

\* A step of any kind.
LEMMA Kinds ==
    ASSUME IInv, [Next]_vars
    PROVE  \/ \E w \in Workers : RenameTemp(w)
           \/ \E w \in Workers : SyncDir(w) \/ ConfirmSync(w)
           \/ PowerFailure
           \/ /\ data' = data /\ acked' = acked
              /\ \A v \in Workers : did'[v] => did[v]
<1>1. CASE UNCHANGED vars
  BY Zenon, <1>1 DEF vars, fileVars, opVars, historyVars
<1>2. ASSUME NEW w \in Workers,
             \/ Step(w) /\ ~RenameTemp(w) /\ ~SyncDir(w) /\ ~ConfirmSync(w)
             \/ \E k \in Operations : Begin(w, k)
             \/ Spawn(w) \/ ChildExecs(w) \/ Die(w)
      PROVE  /\ data' = data /\ acked' = acked
             /\ \A v \in Workers : did'[v] => did[v]
  <2>1. /\ data' = data /\ acked' = acked
        /\ did' = did \/ did' = [did EXCEPT ![w] = FALSE]
    BY Zenon, <1>2, QuietSteps
  <2> QED
    BY Zenon, <2>1 DEF IInv, TypeOK
<1> QED
  BY Zenon, <1>1, <1>2 DEF Next

\* An operation replaces exactly the record it was based on, though a migration
\* read that before it took the lock and a save long before.
THEOREM AlwaysReplacesItsBase == Spec => ReplacesItsBase
<1>1. IInv /\ [Next]_vars => [\A w \in Workers : did'[w] /\ ~did[w] => data = BasedOn(w)]_vars
  <2> SUFFICES ASSUME IInv, [Next]_vars, NEW v \in Workers, did'[v], ~did[v] PROVE data = BasedOn(v)
    BY Zenon
  <2>1. ASSUME NEW w \in Workers, RenameTemp(w) PROVE data = BasedOn(v)
    <3>1. did' = [did EXCEPT ![w] = TRUE]
      BY Zenon, <2>1 DEF RenameTemp
    <3>2. v = w
      BY Zenon, <3>1 DEF IInv, TypeOK
    <3> QED
      BY Zenon, <2>1, <3>2, Publishes
  <2>2. ASSUME NEW w \in Workers, SyncDir(w) \/ ConfirmSync(w) PROVE FALSE
    BY Zenon, <2>2, Receipts
  <2>3. ASSUME PowerFailure PROVE FALSE
    BY Zenon, <2>3 DEF PowerFailure
  <2> QED
    BY Zenon, <2>1, <2>2, <2>3, Kinds
<1> QED
  BY <1>1, Invariant, PTL DEF Spec, ReplacesItsBase

Floor == IF acked = Missing THEN 0 ELSE acked.rev

\* The acknowledged revision is a number and not beyond what may be stored.
LEMMA FloorBounds ==
    ASSUME IInv, NEW r \in maybe
    PROVE  Floor \in Nat /\ Floor <= Rev(r) /\ Rev(r) <= Rev(data) /\ Rev(data) \in Nat /\ Rev(r) \in Nat
<1>1. TypeOK /\ Durable /\ data \in maybe
  BY Zenon DEF IInv, Durable
<1>2. Rev(data) \in Nat /\ Rev(r) \in Nat /\ Rev(r) <= Rev(data)
  BY Zenon, <1>1, RevTyped DEF TypeOK, Durable
<1>3. CASE acked = Missing
  <2>1. Floor = 0
    BY Zenon, <1>3 DEF Floor
  <2> QED
    BY <1>2, <2>1
<1>4. CASE acked # Missing
  <2>1. Floor = acked.rev /\ acked.rev \in Nat
    BY Zenon, <1>1, <1>4, RecordFields DEF Floor, TypeOK
  <2>2. r # Missing /\ r.rev >= acked.rev /\ Rev(r) = r.rev
    BY Zenon, <1>1, <1>4, RevTyped DEF Durable, TypeOK
  <2> QED
    BY <1>2, <2>1, <2>2
<1> QED
  BY <1>3, <1>4

\* The file protocol implements the promise of the store: renames replace the record
\* by one of the next revision, receipts acknowledge it, a power failure takes back
\* at most what nobody was told to be saved, and nothing else changes it.
THEOREM AlwaysImplementsStore == Spec => ImplementsStore
<1>1. Init => Store!StoreInit
  BY Zenon DEF Init, Store!StoreInit
<1>2. IInv /\ [Next]_vars => [Store!StoreNext]_<<data, Floor>>
  <2> SUFFICES ASSUME IInv, [Next]_vars PROVE [Store!StoreNext]_<<data, Floor>>
    OBVIOUS
  <2>0. /\ \A r : Store!Rev(r) = Rev(r)
        /\ data \in maybe /\ TypeOK
    BY Zenon DEF Store!Rev, Rev, IInv, Durable
  <2>1. ASSUME NEW w \in Workers, RenameTemp(w) PROVE Store!Replace
    <3>1. cand[w] \in Record /\ cand[w].rev = Rev(data) + 1 /\ data' = cand[w]
      BY Zenon, <2>1, Publishes
    <3>2. acked' = acked
      BY Zenon, <2>1 DEF RenameTemp, historyVars
    <3>3. data' # Missing /\ data'.inc \in Incarnations /\ data'.rev = Store!Rev(data) + 1
      BY Zenon, <2>0, <3>1, RecordFields
    <3> QED
      BY Zenon, <3>2, <3>3 DEF Store!Replace
  <2>2. ASSUME NEW w \in Workers, SyncDir(w) \/ ConfirmSync(w)
        PROVE  Store!Acknowledge \/ UNCHANGED <<data, Floor>>
    <3>1. data' = data /\ (acked' = acked \/ (acked' = data /\ data # Missing))
      BY Zenon, <2>2, Receipts
    <3>2. CASE acked' = acked
      BY Zenon, <3>1, <3>2 DEF Floor
    <3>3. CASE acked' = data /\ data # Missing
      <4>1. Floor' = Rev(data)
        BY Zenon, <3>3 DEF Floor, Rev
      <4>2. Floor = Rev(data) \/ Floor < Rev(data)
        <5>1. Floor \in Nat /\ Floor <= Rev(data) /\ Rev(data) \in Nat
          BY Zenon, <2>0, FloorBounds
        <5> QED
          BY <5>1
      <4> QED
        BY Zenon, <2>0, <3>1, <4>1, <4>2 DEF Store!Acknowledge, Floor
    <3> QED
      BY <3>1, <3>2, <3>3
  <2>3. ASSUME PowerFailure PROVE Store!TakeBack
    <3>1. data' \in maybe /\ acked' = acked
      BY Zenon, <2>3 DEF PowerFailure
    <3>2. Floor <= Rev(data') /\ Rev(data') <= Rev(data)
      BY Zenon, <3>1, FloorBounds
    <3> QED
      BY Zenon, <2>0, <3>1, <3>2 DEF Store!TakeBack, Floor
  <2>4. ASSUME data' = data, acked' = acked PROVE UNCHANGED <<data, Floor>>
    BY Zenon, <2>4 DEF Floor
  <2> QED
    BY Zenon, <2>1, <2>2, <2>3, <2>4, Kinds DEF Store!StoreNext
<1> QED
  BY <1>1, <1>2, Invariant, PTL DEF Spec, ImplementsStore, Store!StoreSpec, Floor
=============================================================================
