------------------------- MODULE BackgroundHistory -------------------------
(***************************************************************************)
(* What the background record store promises its clients, whatever files  *)
(* and locks it keeps: an identifier is handed out once, a record changes *)
(* only in the hands of its lease or after that lease is gone, and a       *)
(* terminal record is final until it is forgotten.                         *)
(***************************************************************************)
EXTENDS FiniteSets, Naturals

CONSTANTS Ids,        \* record identifiers
          Outcomes    \* what an owner may report of its process

VARIABLES
  record,   \* [Ids -> States]: the published history
  leased,   \* identifiers somebody holds the exclusive authority for
  spent     \* identifiers that can never be handed out again

histVars == <<record, leased, spent>>

Terminal == Outcomes \cup {"stale"}
States == {"absent", "running"} \cup Terminal

HistInit ==
  /\ record = [i \in Ids |-> "absent"]
  /\ leased = {}
  /\ spent = {}

\* BackgroundStore::reserve: a fresh identifier and the authority over it.
Reserve(i) ==
  /\ i \in Ids \ spent
  /\ spent' = spent \cup {i}
  /\ leased' = leased \cup {i}
  /\ UNCHANGED record

\* BackgroundRecordLease::publish_initial.
Publish(i) ==
  /\ i \in leased
  /\ record[i] = "absent"
  /\ record' = [record EXCEPT ![i] = "running"]
  /\ UNCHANGED <<leased, spent>>

\* BackgroundRecordLease::publish_completion.
Complete(i, o) ==
  /\ i \in leased
  /\ record[i] = "running"
  /\ record' = [record EXCEPT ![i] = o]
  /\ UNCHANGED <<leased, spent>>

\* Leases dropped by their owners or lost with them; an identifier may be
\* spent without ever being leased.
Release(dropped, burnt) ==
  /\ dropped \subseteq leased
  /\ burnt \subseteq Ids
  /\ leased' = leased \ dropped
  /\ spent' = spent \cup burnt
  /\ UNCHANGED record

\* Reconciliation: a running record without an owner.
Stale(i) ==
  /\ i \notin leased
  /\ record[i] = "running"
  /\ record' = [record EXCEPT ![i] = "stale"]
  /\ UNCHANGED <<leased, spent>>

\* Compaction: terminal history is dropped.
Forget(gone) ==
  /\ gone \cap leased = {}
  /\ \A i \in gone : record[i] \in Terminal
  /\ record' = [i \in Ids |-> IF i \in gone THEN "absent" ELSE record[i]]
  /\ UNCHANGED <<leased, spent>>

HistNext ==
  \/ \E i \in Ids : Reserve(i) \/ Publish(i) \/ Stale(i)
  \/ \E i \in Ids, o \in Outcomes : Complete(i, o)
  \/ \E dropped \in SUBSET leased, burnt \in SUBSET Ids : Release(dropped, burnt)
  \/ \E gone \in SUBSET Ids : Forget(gone)

HistSpec == HistInit /\ [][HistNext]_histVars
=============================================================================
