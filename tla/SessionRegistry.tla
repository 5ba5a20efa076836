-------------------------- MODULE SessionRegistry --------------------------
(***************************************************************************)
(* Who keeps what alive in an engine (engine.rs): the registry's weak      *)
(* entry of one session id, the canonical SessionState it refers to, the   *)
(* session handles, reservations and turns that hold that state, and the   *)
(* host resource that only real handles keep open (HostLease).             *)
(*                                                                         *)
(* A step is one critical section of the registry or one look at a         *)
(* reference count.  The state of an id is an allocation: its address is   *)
(* free again once its Drop has run, for the registry's Weak keeps it until*)
(* then.  The host resource is configured (without one HostLease is always *)
(* open); what a load returns is an incarnation.                           *)
(***************************************************************************)
EXTENDS FiniteSets

CONSTANTS
    Callers,
    Addresses,    \* allocations of SessionState
    Incarnations,
    Engine,       \* the vote of the engine handles
    None

ASSUME RegistryAssumption ==
    /\ Engine \notin Callers
    /\ None \notin Callers
    /\ None \notin Addresses
    /\ None \notin Incarnations

VARIABLES
    entry,  \* the Weak that entries holds for the id, or None
    inc,    \* the incarnation of the state at each address, or None if it is free
    votes,  \* the strong references to the host resource
    pc,     \* where each caller is
    kind,   \* the operation it runs
    want,   \* the incarnation of the record it brings
    mine,   \* the state it holds a strong reference to, or whose Drop it runs
    turn    \* it owns admission to that state (TurnLease)

vars == <<entry, inc, votes, pc, kind, want, mine, turn>>

Kinds == {"engine_create", "create", "reserve", "load", "load_at"}
Loads == {"load", "load_at"}

\* Where a caller holds a strong reference to its state.
Referring == {"validate", "reconcile", "publish", "handle", "reserved", "operation"}

\* HostLease: some owner of the host resource is left.
ensure_open == votes # {}

Holders(a) == {c \in Callers : mine[c] = a /\ pc[c] \in Referring}
Alive(a) == Holders(a) # {}

-----------------------------------------------------------------------------
\* The operation of c is over.
Ended(c) ==
    /\ kind' = [kind EXCEPT ![c] = None]
    /\ want' = [want EXCEPT ![c] = None]

\* c gives its reference up; the last one runs the Drop of the state.
Release(c) ==
    /\ Ended(c)
    /\ turn' = [turn EXCEPT ![c] = FALSE]
    /\ IF Holders(mine[c]) = {c}
       THEN pc' = [pc EXCEPT ![c] = "dropping"] /\ mine' = mine
       ELSE pc' = [pc EXCEPT ![c] = "idle"] /\ mine' = [mine EXCEPT ![c] = None]

Goto(c, place) == pc' = [pc EXCEPT ![c] = place] /\ UNCHANGED <<kind, want, mine, turn>>

\* It returns with what it was called for.
Return(c, place) == pc' = [pc EXCEPT ![c] = place] /\ Ended(c) /\ UNCHANGED <<mine, turn>>

\* An operation starts.  Engine::create_session borrows an engine handle; those
\* of EngineRequester ask whether the host is open.
Begin(c, k, i) ==
    /\ pc[c] = "idle"
    /\ IF k = "engine_create" THEN Engine \in votes ELSE ensure_open
    /\ kind' = [kind EXCEPT ![c] = k]
    /\ want' = [want EXCEPT ![c] = i]
    /\ pc' = [pc EXCEPT ![c] = IF k \in Loads THEN "await" ELSE "lookup"]
    /\ UNCHANGED <<entry, inc, votes, mine, turn>>

\* The store answers a load (with a record, or it fails), or the future is dropped;
\* neither the future nor its answer keeps the host open.
Loaded(c) ==
    /\ pc[c] = "await"
    /\ \/ ensure_open /\ Goto(c, "lookup")
       \/ Return(c, "idle")
    /\ UNCHANGED <<entry, inc, votes>>

\* SessionRegistry::session_state, under the lock: the live state of the entry, or a
\* new one.
Upgrade(c) ==
    /\ pc[c] = "lookup"
    /\ entry # None
    /\ Alive(entry)
    /\ mine' = [mine EXCEPT ![c] = entry]
    /\ pc' = [pc EXCEPT ![c] = "validate"]
    /\ UNCHANGED <<entry, inc, votes, kind, want, turn>>

new_registered(c, a) ==
    /\ pc[c] = "lookup"
    /\ entry # None => ~Alive(entry)
    /\ inc[a] = None
    /\ inc' = [inc EXCEPT ![a] = want[c]]
    /\ entry' = a
    /\ mine' = [mine EXCEPT ![c] = a]
    /\ pc' = [pc EXCEPT ![c] = "reconcile"]
    /\ UNCHANGED <<votes, kind, want, turn>>

\* After the lock: the identity of the state that was found.
validate_identity(c) ==
    /\ pc[c] = "validate"
    /\ IF inc[mine[c]] = want[c] THEN Goto(c, "reconcile") ELSE Release(c)
    /\ UNCHANGED <<entry, inc, votes>>

Busy(a) == \E d \in Callers : turn[d] /\ mine[d] = a

\* A load reconciles its record, which may be refused; a guarded one is refused
\* while a turn owns admission.
Reconcile(c) ==
    /\ pc[c] = "reconcile"
    /\ \/ (kind[c] = "load_at" => ~Busy(mine[c])) /\ Goto(c, "publish")
       \/ kind[c] \in Loads /\ Release(c)
    /\ UNCHANGED <<entry, inc, votes>>

\* A mutant: the vote is taken without looking.
from_state_unchecked(c) ==
    /\ pc[c] = "publish"
    /\ votes' = votes \cup {c}
    /\ Return(c, "handle")
    /\ UNCHANGED <<entry, inc>>

\* The caller gets a session handle, with a vote, if the host is still open; a
\* reservation has none.
from_state(c) ==
    /\ pc[c] = "publish"
    /\ \/ ensure_open /\ kind[c] # "reserve" /\ votes' = votes \cup {c} /\ Return(c, "handle")
       \/ ensure_open /\ kind[c] = "reserve" /\ UNCHANGED votes /\ Return(c, "reserved")
       \/ ~ensure_open /\ UNCHANGED votes /\ Release(c)
    /\ UNCHANGED <<entry, inc>>

\* A prompt or an edit (SessionOperation) is admitted to the idle state at its first
\* poll, maybe after its session handle went, if the host is still open.
Prompt(c) ==
    /\ pc[c] \in {"handle", "operation"}
    /\ ensure_open
    /\ ~Busy(mine[c])
    /\ turn' = [turn EXCEPT ![c] = TRUE]
    /\ UNCHANGED <<entry, inc, votes, pc, kind, want, mine>>

\* Drop of TurnLease; an operation that outlived its handle gives the state up too,
\* whether or not it was admitted.
EndTurn(c) ==
    /\ turn[c] \/ pc[c] = "operation"
    /\ IF pc[c] = "operation"
       THEN Release(c)
       ELSE turn' = [turn EXCEPT ![c] = FALSE] /\ UNCHANGED <<pc, kind, want, mine>>
    /\ UNCHANGED <<entry, inc, votes>>

\* A handle or a reservation is dropped.  An operation of the handle, or its turn,
\* may live on: it keeps the state, not the host.
DropHandle(c) ==
    /\ votes' = votes \ {c}
    /\ \/ pc[c] = "handle" /\ Goto(c, "operation")
       \/ pc[c] \in {"handle", "reserved"} /\ ~turn[c] /\ Release(c)
    /\ UNCHANGED <<entry, inc>>

\* The last engine handle goes, unless a caller borrows it.
DropEngine ==
    /\ Engine \in votes
    /\ \A c \in Callers : kind[c] = "engine_create" =>
          pc[c] \notin {"lookup", "validate", "reconcile", "publish"}
    /\ votes' = votes \ {Engine}
    /\ UNCHANGED <<entry, inc, pc, kind, want, mine, turn>>

\* The allocation of c's state is free, its Drop is over.
Freed(c) ==
    /\ inc' = [inc EXCEPT ![mine[c]] = None]
    /\ mine' = [mine EXCEPT ![c] = None]
    /\ pc' = [pc EXCEPT ![c] = "idle"]
    /\ UNCHANGED <<votes, kind, want, turn>>

\* A mutant: the entry of the id is removed, whatever state it refers to.
RemoveAny(c) ==
    /\ pc[c] = "dropping"
    /\ entry' = None
    /\ Freed(c)

\* A mutant: the entry is removed only if its state can be upgraded.
RemoveIfAlive(c) ==
    /\ pc[c] = "dropping"
    /\ entry' = IF entry = mine[c] /\ Alive(entry) THEN None ELSE entry
    /\ Freed(c)

\* Drop of SessionRegistration: the entry is removed if it is still this state's,
\* for another state may have been registered since the last reference went.
remove_if_matches(c) ==
    /\ pc[c] = "dropping"
    /\ entry' = IF entry = mine[c] THEN None ELSE entry
    /\ Freed(c)

-----------------------------------------------------------------------------
Init ==
    /\ entry = None
    /\ inc = [a \in Addresses |-> None]
    /\ votes = {Engine}
    /\ pc = [c \in Callers |-> "idle"]
    /\ kind = [c \in Callers |-> None]
    /\ want = [c \in Callers |-> None]
    /\ mine = [c \in Callers |-> None]
    /\ turn = [c \in Callers |-> FALSE]

Step(c) ==
    \/ \E k \in Kinds, i \in Incarnations : Begin(c, k, i)
    \/ Loaded(c) \/ Upgrade(c) \/ (\E a \in Addresses : new_registered(c, a))
    \/ validate_identity(c) \/ Reconcile(c) \/ from_state(c) \/ Prompt(c) \/ EndTurn(c)
    \/ DropHandle(c) \/ remove_if_matches(c)

Next == DropEngine \/ \E c \in Callers : Step(c)

Spec == Init /\ [][Next]_vars

-----------------------------------------------------------------------------
(* Properties.                                                             *)

Places == {"idle", "await", "lookup", "dropping"} \cup Referring

\* The types of the registry, of the host's votes and of the callers.
TypeOK ==
    /\ entry \in Addresses \cup {None}
    /\ inc \in [Addresses -> Incarnations \cup {None}]
    /\ votes \subseteq Callers \cup {Engine}
    /\ pc \in [Callers -> Places]
    /\ kind \in [Callers -> Kinds \cup {None}]
    /\ want \in [Callers -> Incarnations \cup {None}]
    /\ mine \in [Callers -> Addresses \cup {None}]
    /\ turn \in [Callers -> BOOLEAN]

\* An engine has one canonical state of an id at a time, so its handles share one
\* lease and no two turns of it are live, whoever drops the last reference while
\* another caller registers the next state (remove_if_matches).
OneCanonicalState ==
    /\ \A c, d \in Callers :
          pc[c] \in Referring /\ pc[d] \in Referring => mine[c] = mine[d]
    /\ \A c, d \in Callers : turn[c] /\ turn[d] => c = d

\* The registry keeps no entry of a state that is gone: an entry is a live state's,
\* or that state's Drop has still to remove it (SessionRegistration).
NoStaleEntry ==
    entry # None => \E c \in Callers : mine[c] = entry

\* A closed host is never reopened, by a load that was pending, a turn that still
\* runs or a reservation ("a closed host ... can never be resurrected").
ClosedForGood == [][votes = {} => votes' = {}]_vars
=============================================================================
