---------------------------- MODULE RecordStore ----------------------------
(***************************************************************************)
(* What a session store promises about one session id (core SessionStore   *)
(* and docs/session-store.md), whoever writes and whatever fails: the      *)
(* record changes only by being replaced with a whole one of the next      *)
(* revision, of the same incarnation or of a new one, and a failure takes  *)
(* back at most what nobody was told to be saved.                          *)
(***************************************************************************)
EXTENDS Integers

CONSTANTS
    Missing,      \* there is no record
    Incarnations  \* session incarnation ids

VARIABLES
    stored,  \* the record, or Missing
    floor    \* the newest revision somebody was told to be saved

Rev(r) == IF r = Missing THEN 0 ELSE r.rev

StoreInit == stored = Missing /\ floor = 0

Replace ==
    /\ stored' # Missing
    /\ stored'.inc \in Incarnations
    /\ stored'.rev = Rev(stored) + 1
    /\ floor' \in {floor, stored'.rev}

Acknowledge ==
    /\ floor < Rev(stored)
    /\ floor' = Rev(stored)
    /\ stored' = stored

TakeBack ==
    /\ floor <= Rev(stored')
    /\ Rev(stored') <= Rev(stored)
    /\ floor' = floor

StoreNext == Replace \/ Acknowledge \/ TakeBack

StoreSpec == StoreInit /\ [][StoreNext]_<<stored, floor>>
=============================================================================
