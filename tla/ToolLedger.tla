----------------------------- MODULE ToolLedger -----------------------------
(***************************************************************************)
(* What a turn promises about its tool calls, whatever its stream, its     *)
(* store and its canceller do: a call is durably on record before it runs, *)
(* it runs at most once and only with authority, calls run one at a time   *)
(* and each result is durable before the next call starts, a result is     *)
(* never taken back, and an ended turn does nothing any more.  TurnWorkflow*)
(* (run_turn_inner) implements this.                                       *)
(***************************************************************************)
EXTENDS Integers, FiniteSets

CONSTANT Calls

VARIABLES
    ledger,  \* what the durable transcript says of each call
    ran,     \* how often each call was executed
    granted, \* the authority each call got
    ended    \* the turn is over

ledgerVars == <<ledger, ran, granted, ended>>

LedgerInit ==
    /\ ledger = [c \in Calls |-> "absent"]
    /\ ran = [c \in Calls |-> 0]
    /\ granted = [c \in Calls |-> "none"]
    /\ ended = FALSE

\* The calls of a round go on record together.
Record(S) ==
    /\ \A c \in S : ledger[c] = "absent"
    /\ ledger' = [c \in Calls |-> IF c \in S THEN "unknown" ELSE ledger[c]]
    /\ UNCHANGED <<ran, granted, ended>>

Ask(c) ==
    /\ ledger[c] = "unknown"
    /\ granted[c] = "none"
    /\ granted' = [granted EXCEPT ![c] = "asked"]
    /\ UNCHANGED <<ledger, ran, ended>>

Decide(c) ==
    /\ ledger[c] = "unknown"
    /\ \/ granted[c] = "none" /\ granted' = [granted EXCEPT ![c] = "free"]
       \/ granted[c] = "asked" /\ \E g \in {"allowed", "denied"} : granted' = [granted EXCEPT ![c] = g]
    /\ UNCHANGED <<ledger, ran, ended>>

Run(c) ==
    /\ ledger[c] = "unknown"
    /\ granted[c] \in {"free", "allowed"}
    /\ ran[c] = 0
    /\ \A d \in Calls : ran[d] > 0 => ledger[d] = "result"
    /\ ran' = [ran EXCEPT ![c] = 1]
    /\ UNCHANGED <<ledger, granted, ended>>

\* A call settles with its result, or without having run: refused, or not prepared.
Settle(c) ==
    /\ ledger[c] = "unknown"
    /\ ran[c] = 0 => granted[c] \in {"none", "denied"}
    /\ ledger' = [ledger EXCEPT ![c] = "result"]
    /\ UNCHANGED <<ran, granted, ended>>

End ==
    /\ ended' = TRUE
    /\ UNCHANGED <<ledger, ran, granted>>

LedgerNext ==
    /\ ~ended
    /\ \/ \E S \in SUBSET Calls : Record(S)
       \/ \E c \in Calls : Ask(c) \/ Decide(c) \/ Run(c) \/ Settle(c)
       \/ End

LedgerSpec == LedgerInit /\ [][LedgerNext]_ledgerVars
=============================================================================
