--------------------------- MODULE PromptExchange ---------------------------
(***************************************************************************)
(* What the prompt inbox promises a session: a prompt is put by a live     *)
(* registration, answered at most once and only after it was shown, and    *)
(* its answer reaches its asker only while that registration still lives.  *)
(* A registration that is gone never comes back.                           *)
(***************************************************************************)
CONSTANTS Askers, Leases, Answers, None

VARIABLES
  live,     \* registrations that may ask
  gone,     \* registrations that no longer may
  stage,    \* [Askers -> "unasked" | "asked" | "shown" | "answered" | "delivered" | "withdrawn"]
  asker,    \* [Askers -> the registration that asks]
  said      \* [Askers -> the one answer given]

exchangeVars == <<live, gone, stage, asker, said>>

ExchangeInit ==
  /\ live = {} /\ gone = {}
  /\ stage = [a \in Askers |-> "unasked"]
  /\ asker = [a \in Askers |-> None] /\ said = [a \in Askers |-> None]

Appear(l) ==
  /\ l \notin live \cup gone
  /\ live' = live \cup {l}
  /\ UNCHANGED <<gone, stage, asker, said>>

\* The prompts of a lost registration are withdrawn with it, answered or not.
Vanish(ls) ==
  /\ ls \subseteq live
  /\ live' = live \ ls /\ gone' = gone \cup ls
  /\ UNCHANGED <<stage, asker, said>>

Ask(a, l) ==
  /\ stage[a] = "unasked" /\ l \in live
  /\ stage' = [stage EXCEPT ![a] = "asked"]
  /\ asker' = [asker EXCEPT ![a] = l]
  /\ UNCHANGED <<live, gone, said>>

Show(a) ==
  /\ stage[a] \in {"asked", "shown"} /\ asker[a] \in live
  /\ stage' = [stage EXCEPT ![a] = "shown"]
  /\ UNCHANGED <<live, gone, asker, said>>

Answer(a, r) ==
  /\ stage[a] = "shown" /\ asker[a] \in live
  /\ stage' = [stage EXCEPT ![a] = "answered"]
  /\ said' = [said EXCEPT ![a] = r]
  /\ UNCHANGED <<live, gone, asker>>

Deliver(a) ==
  /\ stage[a] = "answered" /\ asker[a] \in live
  /\ stage' = [stage EXCEPT ![a] = "delivered"]
  /\ UNCHANGED <<live, gone, asker, said>>

\* An asker that gives up or is refused keeps no answer.
Withdraw(a) ==
  /\ stage[a] # "delivered"
  /\ stage' = [stage EXCEPT ![a] = "withdrawn"]
  /\ said' = [said EXCEPT ![a] = None]
  /\ UNCHANGED <<live, gone, asker>>

ExchangeNext ==
  \/ \E l \in Leases : Appear(l)
  \/ \E ls \in SUBSET Leases : Vanish(ls)
  \/ \E a \in Askers :
       \/ \E l \in Leases : Ask(a, l)
       \/ Show(a) \/ Deliver(a) \/ Withdraw(a)
       \/ \E r \in Answers : Answer(a, r)

ExchangeSpec == ExchangeInit /\ [][ExchangeNext]_exchangeVars
=============================================================================
