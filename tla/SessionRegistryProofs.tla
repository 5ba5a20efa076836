----------------------- MODULE SessionRegistryProofs -----------------------
(***************************************************************************)
(* The theorems about SessionRegistry, for any number of callers and       *)
(* allocations: one canonical state of an id, no stale entry, and a closed *)
(* host that stays closed.                                                 *)
(***************************************************************************)
EXTENDS SessionRegistry, TLAPS

\* A caller has a state exactly while it refers to it or runs its Drop, and that
\* state is allocated; who refers to a state refers to the registered one; whoever
\* runs a Drop is the last one there.
IInv ==
    /\ TypeOK
    /\ \A c \in Callers : mine[c] # None <=> pc[c] \in Referring \cup {"dropping"}
    /\ \A c \in Callers : mine[c] # None => inc[mine[c]] # None
    /\ \A c \in Callers : pc[c] \in Referring => mine[c] = entry
    /\ \A c, d \in Callers : pc[c] = "dropping" /\ mine[d] = mine[c] => c = d
    /\ \A c \in Callers : turn[c] => pc[c] \in Referring
    /\ \A c, d \in Callers : turn[c] /\ turn[d] => c = d
    /\ NoStaleEntry
    /\ \A c \in Callers : pc[c] \in {"await", "lookup"} => want[c] # None

\* What a caller does to its own state only: it moves on with what it holds.
LEMMA Moves ==
    ASSUME IInv, NEW c \in Callers, NEW p \in Places,
           pc[c] \in Referring <=> p \in Referring,
           pc[c] # "dropping", p # "dropping",
           pc' = [pc EXCEPT ![c] = p],
           kind' \in [Callers -> Kinds \cup {None}],
           NEW w \in Incarnations \cup {None},
           want' = [want EXCEPT ![c] = w],
           p \in {"await", "lookup"} => w # None,
           votes' \subseteq Callers \cup {Engine},
           UNCHANGED <<entry, inc, mine, turn>>
    PROVE  IInv'
<1>1. TypeOK'
  BY DEF IInv, TypeOK
<1>2. \A d \in Callers : /\ pc'[d] \in Referring <=> pc[d] \in Referring
                         /\ pc'[d] = "dropping" <=> pc[d] = "dropping"
  BY DEF IInv, TypeOK
<1>3. \A d \in Callers : pc'[d] \in {"await", "lookup"} => want'[d] # None
  BY DEF IInv, TypeOK
<1>4. NoStaleEntry'
  BY DEF IInv, NoStaleEntry
<1> QED
  BY <1>1, <1>2, <1>3, <1>4 DEF IInv

\* Giving a reference up leaves the others as they are, or leaves the Drop to the
\* caller that was the last.
LEMMA Releases ==
    ASSUME IInv, NEW c \in Callers, pc[c] \in Referring, Release(c),
           votes' \subseteq Callers \cup {Engine}, UNCHANGED <<entry, inc>>
    PROVE  IInv'
<1>0. mine[c] \in Addresses /\ mine[c] = entry
  BY DEF IInv, TypeOK
<1>1. CASE Holders(mine[c]) = {c}
  <2>1. pc' = [pc EXCEPT ![c] = "dropping"] /\ mine' = mine /\ turn' = [turn EXCEPT ![c] = FALSE]
    BY <1>1 DEF Release
  <2>2. TypeOK'
    BY <2>1 DEF Release, Ended, IInv, TypeOK, Places
  <2>3. \A d \in Callers : pc[d] \in Referring => d = c
    BY <1>0, <1>1 DEF Holders, IInv
  <2>4. \A d \in Callers : mine[d] = mine[c] => d = c
    <3> SUFFICES ASSUME NEW d \in Callers, mine[d] = mine[c]
                 PROVE  d = c
      OBVIOUS
    <3>1. pc[d] \in Referring \/ pc[d] = "dropping"
      BY <1>0, RegistryAssumption DEF IInv
    <3> QED
      BY <2>3, <3>1 DEF IInv, Referring
  <2>5. \A d \in Callers : pc'[d] \in {"await", "lookup"} => want'[d] # None
    BY <2>1 DEF IInv, TypeOK, Release, Ended
  <2>6. \A d \in Callers : ~turn'[d] /\ pc'[d] \notin Referring
    BY <2>1, <2>3 DEF IInv, TypeOK, Referring
  <2>7. \A d \in Callers : pc'[d] = IF d = c THEN "dropping" ELSE pc[d]
    BY <2>1 DEF IInv, TypeOK
  <2>8. \A d \in Callers : mine'[d] # None <=> pc'[d] \in Referring \cup {"dropping"}
    BY <2>1, <2>7 DEF IInv
  <2>9. \A d, f \in Callers : pc'[d] = "dropping" /\ mine'[f] = mine'[d] => d = f
    BY <2>1, <2>4, <2>7 DEF IInv
  <2>10. NoStaleEntry' /\ \A d \in Callers : mine'[d] # None => inc'[mine'[d]] # None
    BY <2>1 DEF IInv, NoStaleEntry
  <2> QED
    BY <2>2, <2>5, <2>6, <2>8, <2>9, <2>10 DEF IInv
<1>2. CASE Holders(mine[c]) # {c}
  <2>1. /\ pc' = [pc EXCEPT ![c] = "idle"] /\ mine' = [mine EXCEPT ![c] = None]
        /\ turn' = [turn EXCEPT ![c] = FALSE]
    BY <1>2 DEF Release
  <2>2. TypeOK'
    BY <2>1 DEF Release, Ended, IInv, TypeOK, Places
  <2>3. \E d \in Callers \ {c} : mine[d] = entry
    BY <1>0, <1>2 DEF Holders
  <2>4. "idle" \notin Referring \cup {"dropping"}
    BY DEF Referring
  <2>5. \A d \in Callers : /\ pc'[d] = IF d = c THEN "idle" ELSE pc[d]
                           /\ mine'[d] = IF d = c THEN None ELSE mine[d]
                           /\ turn'[d] = IF d = c THEN FALSE ELSE turn[d]
                           /\ want'[d] = IF d = c THEN None ELSE want[d]
    BY <2>1 DEF IInv, TypeOK, Release, Ended
  <2>6. NoStaleEntry'
    BY Zenon, <2>3, <2>5 DEF NoStaleEntry
  <2>7. \A d \in Callers : mine'[d] # None <=> pc'[d] \in Referring \cup {"dropping"}
    BY Zenon, <2>4, <2>5 DEF IInv
  <2>8. /\ \A d \in Callers : mine'[d] # None => inc'[mine'[d]] # None
        /\ \A d \in Callers : pc'[d] \in Referring => mine'[d] = entry'
        /\ \A d \in Callers : turn'[d] => pc'[d] \in Referring
        /\ \A d, f \in Callers : turn'[d] /\ turn'[f] => d = f
        /\ \A d \in Callers : pc'[d] \in {"await", "lookup"} => want'[d] # None
    BY Zenon, <2>4, <2>5 DEF IInv
  <2>9. \A d, f \in Callers : pc'[d] = "dropping" /\ mine'[f] = mine'[d] => d = f
    <3> SUFFICES ASSUME NEW d \in Callers, NEW f \in Callers, pc'[d] = "dropping", mine'[f] = mine'[d]
                 PROVE  d = f
      OBVIOUS
    <3>1. d # c /\ pc[d] = "dropping" /\ mine[d] # None /\ mine'[d] = mine[d]
      BY Zenon, <2>5 DEF IInv
    <3>2. f # c /\ mine'[f] = mine[f]
      BY Zenon, <2>5, <3>1
    <3>3. mine[f] = mine[d]
      BY <3>1, <3>2
    <3> QED
      BY <3>1, <3>3 DEF IInv
  <2> QED
    BY <2>2, <2>6, <2>7, <2>8, <2>9 DEF IInv
<1> QED
  BY <1>1, <1>2

\* Every step keeps the invariant.
LEMMA StepIInv == IInv /\ [Next]_vars => IInv'
<1> SUFFICES ASSUME IInv, [Next]_vars
             PROVE  IInv'
  OBVIOUS
<1> USE RegistryAssumption
<1>1. CASE UNCHANGED vars
  BY <1>1 DEF IInv, TypeOK, NoStaleEntry, vars
<1>2. CASE DropEngine
  BY <1>2 DEF DropEngine, IInv, TypeOK, NoStaleEntry
<1>3. ASSUME NEW c \in Callers, NEW k \in Kinds, NEW i \in Incarnations, Begin(c, k, i)
      PROVE  IInv'
  <2> DEFINE p == IF k \in Loads THEN "await" ELSE "lookup"
  <2>1. p \in Places /\ p \notin Referring /\ p # "dropping"
    BY DEF Places, Referring
  <2>2. pc[c] = "idle" /\ pc[c] \notin Referring
    BY <1>3 DEF Begin, Referring
  <2> QED
    BY Zenon, <1>3, <2>1, <2>2, Moves, i # None DEF Begin, IInv, TypeOK
<1>4. ASSUME NEW c \in Callers, Loaded(c)
      PROVE  IInv'
  <2>1. pc[c] = "await" /\ "await" \notin Referring /\ "lookup" \notin Referring /\ "idle" \notin Referring
        /\ {"lookup", "idle"} \subseteq Places
    BY <1>4 DEF Loaded, Referring, Places
  <2>2. CASE Goto(c, "lookup")
    <3>1. /\ want' = [want EXCEPT ![c] = want[c]] /\ want[c] # None
          /\ want[c] \in Incarnations \cup {None}
          /\ kind' \in [Callers -> Kinds \cup {None}]
      BY <2>1, <2>2 DEF Goto, IInv, TypeOK
    <3> QED
      <4>1. votes' \subseteq Callers \cup {Engine} /\ UNCHANGED <<entry, inc>>
        BY <1>4 DEF Loaded, IInv, TypeOK
      <4> QED
        BY Zenon, <2>1, <2>2, <3>1, <4>1, Moves DEF Goto
  <2>3. CASE Return(c, "idle")
    <3>1. /\ want' = [want EXCEPT ![c] = None] /\ None \in Incarnations \cup {None}
          /\ kind' \in [Callers -> Kinds \cup {None}]
          /\ pc' = [pc EXCEPT ![c] = "idle"] /\ UNCHANGED <<mine, turn>>
      BY <2>3 DEF Return, Ended, IInv, TypeOK
    <3>2. votes' \subseteq Callers \cup {Engine} /\ UNCHANGED <<entry, inc>>
      BY <1>4 DEF Loaded, IInv, TypeOK
    <3>3. "idle" # "dropping" /\ pc[c] # "dropping" /\ "idle" \notin {"await", "lookup"}
      BY <2>1
    <3> QED
      BY Zenon, <2>1, <3>1, <3>2, <3>3, Moves
  <2> QED
    BY <1>4, <2>2, <2>3 DEF Loaded
<1>5. ASSUME NEW c \in Callers, Upgrade(c)
      PROVE  IInv'
  <2>1. /\ pc[c] = "lookup" /\ entry # None /\ Alive(entry)
        /\ mine' = [mine EXCEPT ![c] = entry]
        /\ pc' = [pc EXCEPT ![c] = "validate"]
        /\ UNCHANGED <<entry, inc, votes, kind, want, turn>>
    BY <1>5 DEF Upgrade
  <2>2. PICK d \in Callers : mine[d] = entry /\ pc[d] \in Referring
    BY <2>1 DEF Alive, Holders
  <2>3. \A b \in Callers : mine[b] = entry => pc[b] # "dropping"
    BY <2>2 DEF IInv, Referring
  <2>4. pc[c] \notin Referring /\ "validate" \in Referring
    BY <2>1 DEF Referring
  <2>5. TypeOK'
    BY <2>1 DEF IInv, TypeOK, Places, Referring
  <2> QED
    BY <2>1, <2>2, <2>3, <2>4, <2>5 DEF IInv, TypeOK, NoStaleEntry
<1>6. ASSUME NEW c \in Callers, NEW a \in Addresses, new_registered(c, a)
      PROVE  IInv'
  <2>1. /\ pc[c] = "lookup" /\ inc[a] = None
        /\ entry # None => ~Alive(entry)
        /\ inc' = [inc EXCEPT ![a] = want[c]]
        /\ entry' = a
        /\ mine' = [mine EXCEPT ![c] = a]
        /\ pc' = [pc EXCEPT ![c] = "reconcile"]
        /\ UNCHANGED <<votes, kind, want, turn>>
    BY <1>6 DEF new_registered
  <2>2. \A d \in Callers : pc[d] \notin Referring
    BY <2>1 DEF Alive, Holders, IInv
  <2>3. \A d \in Callers : mine[d] # a
    BY <2>1 DEF IInv
  <2>4. TypeOK' /\ "reconcile" \in Referring
    BY <2>1 DEF IInv, TypeOK, Places, Referring
  <2> QED
    BY <2>1, <2>2, <2>3, <2>4 DEF IInv, TypeOK, NoStaleEntry, Referring
<1>7. ASSUME NEW c \in Callers, validate_identity(c)
      PROVE  IInv'
  <2>1. pc[c] = "validate" /\ {"validate", "reconcile"} \subseteq Referring /\ "reconcile" \in Places
    BY <1>7 DEF validate_identity, Referring, Places
  <2>2. CASE Goto(c, "reconcile")
    <3>0. "reconcile" # "dropping" /\ pc[c] # "dropping" /\ "reconcile" \notin {"await", "lookup"}
      BY <2>1
    <3>1. /\ want' = [want EXCEPT ![c] = want[c]]
          /\ pc' = [pc EXCEPT ![c] = "reconcile"] /\ UNCHANGED <<mine, turn>>
          /\ want[c] \in Incarnations \cup {None}
          /\ kind' \in [Callers -> Kinds \cup {None}]
      BY <2>2 DEF Goto, IInv, TypeOK
    <3> QED
      <4>1. votes' \subseteq Callers \cup {Engine} /\ UNCHANGED <<entry, inc>>
        BY <1>7 DEF validate_identity, IInv, TypeOK
      <4> QED
        BY Zenon, <2>1, <3>0, <3>1, <4>1, Moves
  <2>3. CASE Release(c)
    BY ZenonT(60), <1>7, <2>1, <2>3, Releases DEF validate_identity, IInv, TypeOK
  <2> QED
    BY <1>7, <2>2, <2>3 DEF validate_identity
<1>8. ASSUME NEW c \in Callers, Reconcile(c)
      PROVE  IInv'
  <2>1. pc[c] = "reconcile" /\ {"publish", "reconcile"} \subseteq Referring /\ "publish" \in Places
    BY ZenonT(60), <1>8 DEF Reconcile, Referring, Places
  <2>2. CASE Goto(c, "publish")
    <3>0. "publish" # "dropping" /\ pc[c] # "dropping" /\ "publish" \notin {"await", "lookup"}
      BY <2>1
    <3>1. /\ want' = [want EXCEPT ![c] = want[c]]
          /\ pc' = [pc EXCEPT ![c] = "publish"] /\ UNCHANGED <<mine, turn>>
          /\ want[c] \in Incarnations \cup {None}
          /\ kind' \in [Callers -> Kinds \cup {None}]
      BY <2>2 DEF Goto, IInv, TypeOK
    <3> QED
      <4>1. votes' \subseteq Callers \cup {Engine} /\ UNCHANGED <<entry, inc>>
        BY <1>8 DEF Reconcile, IInv, TypeOK
      <4> QED
        BY Zenon, <2>1, <3>0, <3>1, <4>1, Moves
  <2>3. CASE Release(c)
    BY ZenonT(60), <1>8, <2>1, <2>3, Releases DEF Reconcile, IInv, TypeOK
  <2> QED
    BY ZenonT(60), <1>8, <2>2, <2>3 DEF Reconcile
<1>9. ASSUME NEW c \in Callers, from_state(c)
      PROVE  IInv'
  <2>1. /\ pc[c] = "publish" /\ {"publish", "handle", "reserved"} \subseteq Referring
        /\ {"handle", "reserved"} \subseteq Places
        /\ votes' \subseteq Callers \cup {Engine}
    BY ZenonT(60), <1>9 DEF from_state, Referring, Places, IInv, TypeOK
  <2>2. ASSUME NEW p \in {"handle", "reserved"}, Return(c, p)
        PROVE  IInv'
    BY ZenonT(60), <1>9, <2>1, <2>2, Moves DEF from_state, Return, Ended, IInv, TypeOK
  <2>3. CASE Release(c)
    BY ZenonT(60), <1>9, <2>1, <2>3, Releases DEF from_state
  <2> QED
    BY ZenonT(60), <1>9, <2>2, <2>3 DEF from_state
<1>10. ASSUME NEW c \in Callers, Prompt(c)
       PROVE  IInv'
  <2>1. pc[c] \in Referring
    BY ZenonT(60), <1>10 DEF Prompt, Referring
  <2>2. \A d \in Callers : ~turn[d]
    BY <1>10, <2>1 DEF Prompt, Busy, IInv
  <2> QED
    BY ZenonT(60), <1>10, <2>1, <2>2 DEF Prompt, IInv, TypeOK, NoStaleEntry
<1>11. ASSUME NEW c \in Callers, EndTurn(c)
       PROVE  IInv'
  <2>1. CASE pc[c] = "operation"
    BY ZenonT(60), <1>11, <2>1, Releases DEF EndTurn, IInv, TypeOK, Referring
  <2>2. CASE pc[c] # "operation"
    BY ZenonT(60), <1>11, <2>2 DEF EndTurn, IInv, TypeOK, NoStaleEntry
  <2> QED
    BY <2>1, <2>2
<1>12. ASSUME NEW c \in Callers, DropHandle(c)
       PROVE  IInv'
  <2>1. /\ pc[c] \in {"handle", "reserved"} /\ {"handle", "reserved", "operation"} \subseteq Referring
        /\ "operation" \in Places
        /\ votes' \subseteq Callers \cup {Engine}
    BY ZenonT(60), <1>12 DEF DropHandle, Referring, Places, IInv, TypeOK
  <2>2. CASE Goto(c, "operation")
    <3>0. "operation" # "dropping" /\ pc[c] # "dropping" /\ "operation" \notin {"await", "lookup"}
      BY <2>1
    <3>1. /\ want' = [want EXCEPT ![c] = want[c]]
          /\ pc' = [pc EXCEPT ![c] = "operation"] /\ UNCHANGED <<mine, turn>>
          /\ want[c] \in Incarnations \cup {None}
          /\ kind' \in [Callers -> Kinds \cup {None}]
      BY <2>2 DEF Goto, IInv, TypeOK
    <3> QED
      <4>1. votes' \subseteq Callers \cup {Engine} /\ UNCHANGED <<entry, inc>>
        BY <1>12 DEF DropHandle, IInv, TypeOK
      <4> QED
        BY ZenonT(60), <2>1, <3>0, <3>1, <4>1, Moves
  <2>3. CASE Release(c)
    BY ZenonT(60), <1>12, <2>1, <2>3, Releases DEF DropHandle
  <2> QED
    BY ZenonT(60), <1>12, <2>2, <2>3 DEF DropHandle
<1>13. ASSUME NEW c \in Callers, remove_if_matches(c)
       PROVE  IInv'
  <2>1. /\ pc[c] = "dropping"
        /\ entry' = IF entry = mine[c] THEN None ELSE entry
        /\ inc' = [inc EXCEPT ![mine[c]] = None]
        /\ mine' = [mine EXCEPT ![c] = None]
        /\ pc' = [pc EXCEPT ![c] = "idle"]
        /\ UNCHANGED <<votes, kind, want, turn>>
    BY <1>13 DEF remove_if_matches, Freed
  <2>2. mine[c] \in Addresses
    BY ZenonT(60), <2>1 DEF IInv, TypeOK
  <2>3. \A d \in Callers : mine[d] = mine[c] => d = c
    BY <2>1 DEF IInv
  <2>4. TypeOK'
    BY <2>1, <2>2 DEF IInv, TypeOK, Places
  <2>5. ~turn[c] /\ "idle" \notin Referring /\ "dropping" \notin Referring
    BY <2>1 DEF IInv, Referring
  <2> QED
    BY <2>1, <2>2, <2>3, <2>4, <2>5 DEF IInv, TypeOK, NoStaleEntry
<1> QED
  BY <1>1, <1>2, <1>3, <1>4, <1>5, <1>6, <1>7, <1>8, <1>9, <1>10, <1>11, <1>12, <1>13
  DEF Next, Step

\* The invariant holds throughout.
THEOREM Invariance == Spec => []IInv
<1>1. Init => IInv
  BY DEF Init, IInv, TypeOK, NoStaleEntry, Places, Referring
<1> QED
  BY <1>1, StepIInv, PTL DEF Spec

\* The registry, the votes and the callers keep their types.
THEOREM TypeCorrect == Spec => []TypeOK
<1>1. IInv => TypeOK
  BY DEF IInv
<1> QED
  BY <1>1, Invariance, PTL

\* All handles, reservations and turns of an id share one canonical state, and one
\* turn at a time is live (session_state, remove_if_matches, TurnLease).
THEOREM StateIsCanonical == Spec => []OneCanonicalState
<1>1. IInv => OneCanonicalState
  BY DEF IInv, OneCanonicalState
<1> QED
  BY <1>1, Invariance, PTL

\* An entry never outlives the Drop of its state (SessionRegistration).
THEOREM EntriesNeverStale == Spec => []NoStaleEntry
<1>1. IInv => NoStaleEntry
  BY DEF IInv
<1> QED
  BY <1>1, Invariance, PTL

\* No pending load, turn or reservation reopens a closed host (HostLease).
THEOREM HostStaysClosed == Spec => ClosedForGood
<1>1. ASSUME Next, votes = {}
      PROVE  votes' = {}
  BY ZenonT(60), <1>1 DEF ensure_open, Next, DropEngine, Step, Begin, Loaded, Upgrade, new_registered, validate_identity,
     Reconcile, from_state, Prompt, EndTurn, DropHandle, remove_if_matches, Freed
<1>2. [Next]_vars => [votes = {} => votes' = {}]_vars
  BY <1>1 DEF vars
<1> QED
  BY <1>2, PTL DEF Spec, ClosedForGood
=============================================================================
