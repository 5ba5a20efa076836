---------------------- MODULE BackgroundSupervisorProofs ----------------------
(***************************************************************************)
(* For any number of starts, slots and outcomes: the history the store     *)
(* keeps is true of the processes it is about, and every slot is free or   *)
(* accounted for by exactly one operation.  The invariant says what        *)
(* holds at every place of a start, that an operation handed over is with  *)
(* at most one of the channels, workers and the rescue queue, and what     *)
(* each of those may rely on.                                              *)
(***************************************************************************)
EXTENDS BackgroundSupervisor, FiniteSetTheorems, TLAPS

\* A start at each of its places.
Placed(s) ==
  /\ pc[s] \in {"new", "entering", "admitted", "reserve", "leased", "prepared"}
       => record[s] = "absent" /\ result[s] = "none"
  /\ pc[s] \in {"new", "entering", "admitted", "reserve"} => s \notin leased
  /\ pc[s] \in {"new", "entering", "admitted", "reserve", "leased"} => proc[s] = "none"
  /\ pc[s] \in {"leased", "prepared", "published", "unpublished", "releasing", "activate",
                "retain", "complete"} => s \in leased
  /\ pc[s] \in {"prepared", "published", "unpublished", "releasing"} => proc[s] = "held"
  /\ pc[s] \in {"published", "unpublished", "releasing", "activate", "retain"}
       => result[s] = "none"
  /\ pc[s] \in {"published", "releasing", "activate", "retain"} => record[s] = "running"
  /\ pc[s] \in {"unpublished", "complete"} => record[s] \in {"absent", "running"}
  /\ pc[s] \in {"activate", "retain"} => proc[s] = "running"
  /\ pc[s] = "complete" => proc[s] \in {"reaped", "unproven"} /\ outcome[s] \in {"stopped", "dead"}
  /\ pc[s] = "complete" /\ outcome[s] = "stopped" => proc[s] = "reaped"
  /\ pc[s] \in {"dropping", "dropped"} => proc[s] # "running"
  /\ pc[s] \notin {"new", "entering", "done"} => slot[s] \in Slots

\* What the owner of a retained operation may rely on, and what it knows after
\* the process has ended.
Owned(s) == pc[s] = "done" /\ result[s] = "ok" /\ record[s] = "running" /\ s \in leased
            /\ proc[s] = "running"
Ended(s) == /\ pc[s] = "done" /\ result[s] = "ok" /\ record[s] = "running" /\ s \in leased
            /\ proc[s] \in {"reaped", "unproven"} /\ outcome[s] \in Outcomes
            /\ outcome[s] # "dead" => proc[s] = "reaped"

Owners ==
  /\ \A k \in Slots : chan[k] \in Ids => Owned(chan[k])
  /\ \A s \in rescue : Owned(s)
  /\ \A k \in Workers : worker[k].at \in {"check", "wait"} => Owned(worker[k].job)
  /\ \A k \in Workers : worker[k].at = "publish" => Ended(worker[k].job)
  /\ \A k \in Workers : worker[k].at \in {"check", "wait", "publish"} <=> worker[k].job \in Ids

\* No operation is in two hands.
OneOwner ==
  /\ \A j, k \in Slots : chan[j] \in Ids /\ chan[j] = chan[k] => j = k
  /\ \A j, k \in Workers : worker[j].job \in Ids /\ worker[j].job = worker[k].job => j = k
  /\ \A j \in Slots, k \in Workers : chan[j] \in Ids => chan[j] # worker[k].job
  /\ \A j \in Slots : chan[j] \notin rescue
  /\ \A k \in Workers : worker[k].job \notin rescue

\* HistoryIsTrue of one start.
Truthful(s) ==
  /\ proc[s] = "running" => record[s] = "running" /\ s \in leased
  /\ record[s] \in {"exited", "stopped"} => proc[s] = "reaped"
  /\ result[s] = "cancelled" => proc[s] \in {"none", "reaped"}

\* The inductive invariant.
IInv == /\ TypeOK /\ Owners /\ OneOwner
        /\ \A s \in Ids : Placed(s)
        /\ \A s \in Ids : Truthful(s)

\* The pool is built with a stack of its slots.
LEMMA FreshStackType == FreshStack \in Seq(Slots)
<1>1. PICK q \in [1..Cardinality(Slots) -> Slots] : {q[i] : i \in DOMAIN q} = Slots
  <2>1. Cardinality(Slots) \in Nat
    BY SupervisorAssumption, FS_CardinalityType
  <2>2. ExistsBijection(1..Cardinality(Slots), Slots)
    BY SupervisorAssumption, FS_NatBijection, FS_CountingElements, <2>1
  <2>3. PICK q \in [1..Cardinality(Slots) -> Slots] :
          \A k \in Slots : \E i \in 1..Cardinality(Slots) : q[i] = k
    BY <2>2 DEF ExistsBijection, Bijection, Surjection
  <2>4. {q[i] : i \in DOMAIN q} = Slots
    BY <2>3
  <2> QED
    BY Zenon, <2>4
<1>2. FreshStack \in [1..Cardinality(Slots) -> Slots]
  BY Zenon, <1>1 DEF FreshStack
<1>3. Cardinality(Slots) \in Nat
  BY SupervisorAssumption, FS_CardinalityType
<1> QED
  BY <1>2, <1>3

\* The idle supervisor satisfies the invariant.
LEMMA InitIInv == Init => IInv
<1> SUFFICES ASSUME Init PROVE IInv
  OBVIOUS
<1> USE SupervisorAssumption DEF Init, HistInit
<1>1. TypeOK
  BY ZenonT(60), FreshStackType DEF TypeOK, Idle, States
<1>2. \A s \in Ids : Truthful(s)
  BY DEF Truthful
<1>3. \A s \in Ids : Placed(s)
  BY DEF Placed
<1>4. Owners
  BY DEF Owners, Idle
<1>5. OneOwner
  BY DEF OneOwner, Idle
<1> QED
  BY <1>1, <1>2, <1>3, <1>4, <1>5 DEF IInv

\* A step that changes nothing of any start but s.
OnlyOf(s) ==
  \A o \in Ids \ {s} :
    /\ pc'[o] = pc[o] /\ slot'[o] = slot[o] /\ result'[o] = result[o] /\ outcome'[o] = outcome[o]
    /\ proc'[o] = proc[o] /\ record'[o] = record[o] /\ (o \in leased' <=> o \in leased)

\* What a step leaves alone of a start keeps its place, its truth and its owner.
LEMMA Others ==
  ASSUME IInv, NEW s \in Ids, OnlyOf(s), NEW o \in Ids, o # s
  PROVE  Placed(o)' /\ Truthful(o)' /\ (Owned(o) => Owned(o)') /\ (Ended(o) => Ended(o)')
<1>0. Placed(o) /\ Truthful(o)
  BY Zenon DEF IInv
<1>1. /\ pc'[o] = pc[o] /\ slot'[o] = slot[o] /\ result'[o] = result[o] /\ outcome'[o] = outcome[o]
      /\ proc'[o] = proc[o] /\ record'[o] = record[o] /\ (o \in leased' <=> o \in leased)
  BY Zenon DEF OnlyOf
<1>2. Placed(o)'
  BY <1>0, <1>1 DEF Placed
<1>3. Truthful(o)'
  BY <1>0, <1>1 DEF Truthful
<1>4. Owned(o) => Owned(o)'
  BY <1>1 DEF Owned
<1>5. Ended(o) => Ended(o)'
  BY <1>1 DEF Ended
<1> QED
  BY <1>2, <1>3, <1>4, <1>5

\* A start that has not been handed over disturbs no other start and no owner.
LEMMA StartStep ==
  ASSUME IInv, NEW s \in Ids, pc[s] # "done", OnlyOf(s), UNCHANGED <<chan, worker, rescue>>,
         TypeOK', Placed(s)', Truthful(s)'
  PROVE  IInv'
<1>1. \A o \in Ids : Placed(o)'
  BY Zenon, Others
<1>2. \A o \in Ids : Truthful(o)'
  BY Zenon, Others
<1>3. ~Owned(s) /\ ~Ended(s)
  BY Zenon DEF Owned, Ended
<1>4. \A o \in Ids : (Owned(o) => Owned(o)') /\ (Ended(o) => Ended(o)')
  BY Zenon, <1>3, Others
<1>5. Owners'
  <2>1. rescue \subseteq Ids
    BY DEF IInv, TypeOK
  <2> QED
    BY <1>4, <2>1 DEF IInv, Owners
<1>6. OneOwner'
  BY DEF IInv, OneOwner
<1> QED
  BY Zenon, <1>1, <1>2, <1>5, <1>6 DEF IInv

\* The steps of a start up to its hand-over.
LEMMA StartSteps ==
  ASSUME IInv, NEW s \in Ids,
         Cancel(s) \/ Enter(s) \/ Pop(s) \/ Refuse(s) \/ Recheck(s) \/ ReserveId(s)
         \/ GiveUp(s) \/ Prepare(s) \/ AbortPrepared(s) \/ PublishInitial(s) \/ Cleanup(s) \/ Unpublished(s)
         \/ Commit(s) \/ ReleaseProcess(s) \/ ReleaseFails(s) \/ Activate(s) \/ CompleteFailed(s) \/ DropSlot(s)
  PROVE  IInv'
<1>0. TypeOK /\ Placed(s) /\ Truthful(s)
  BY Zenon DEF IInv
<1>d. /\ DOMAIN pc = Ids /\ DOMAIN result = Ids /\ DOMAIN outcome = Ids /\ DOMAIN proc = Ids
      /\ DOMAIN slot = Ids /\ DOMAIN record = Ids
  BY <1>0 DEF TypeOK
<1> USE SupervisorAssumption, <1>0 DEF histVars, startVars, poolVars
<1>1. CASE Cancel(s)
  <2>1. pc[s] # "done" /\ OnlyOf(s) /\ UNCHANGED <<chan, worker, rescue>>
    BY <1>1, <1>d DEF OnlyOf, Cancel
  <2>2. TypeOK'
    BY <1>1 DEF TypeOK, Placed, States, Terminal, Cancel
  <2>3. Placed(s)' /\ Truthful(s)'
    BY <1>1, <1>d DEF Placed, Truthful, Cancel
  <2> QED
    BY <2>1, <2>2, <2>3, StartStep
<1>2. CASE Enter(s)
  <2>1. pc[s] # "done" /\ OnlyOf(s) /\ UNCHANGED <<chan, worker, rescue>>
    BY <1>2, <1>d DEF OnlyOf, Enter, Scheduled, At, Goto
  <2>2. TypeOK'
    BY <1>2 DEF TypeOK, Placed, States, Terminal, Enter, Scheduled, At, Goto
  <2>3. Placed(s)' /\ Truthful(s)'
    BY <1>2, <1>d DEF Placed, Truthful, Enter, Scheduled, At, Goto
  <2> QED
    BY <2>1, <2>2, <2>3, StartStep
<1>3. CASE Pop(s)
  <2>1. pc[s] # "done" /\ OnlyOf(s) /\ UNCHANGED <<chan, worker, rescue>>
    BY <1>3, <1>d DEF OnlyOf, Pop, At, Goto
  <2>2. TypeOK'
    BY <1>3 DEF TypeOK, Placed, States, Terminal, Pop, At, Goto
  <2>3. Placed(s)' /\ Truthful(s)'
    <3>1. avail[Len(avail)] \in Slots
      BY <1>3 DEF TypeOK, Pop
    <3>2. pc'[s] = "admitted" /\ pc[s] = "entering" /\ slot'[s] \in Slots
      BY <1>3, <1>d, <3>1 DEF Pop, At, Goto
    <3>3. UNCHANGED <<record, leased, result, proc, outcome>>
      BY <1>3 DEF Pop
    <3> QED
      BY <3>2, <3>3 DEF Placed, Truthful
  <2> QED
    BY <2>1, <2>2, <2>3, StartStep
<1>4. CASE Refuse(s)
  <2>1. pc[s] # "done" /\ OnlyOf(s) /\ UNCHANGED <<chan, worker, rescue>>
    BY <1>4, <1>d DEF OnlyOf, Refuse, Scheduled, At, Finish, Goto
  <2>2. TypeOK'
    BY ZenonT(60), <1>4 DEF TypeOK, Placed, States, Terminal, Refuse, Scheduled, At, Finish, Goto
  <2>3. Placed(s)' /\ Truthful(s)'
    <3>1. /\ pc'[s] = (IF slot[s] = None THEN "done" ELSE "dropping")
          /\ result'[s] \in {"cancelled", "failed"} /\ s \notin leased'
      <4>1. Finish(s, "cancelled") \/ Finish(s, "failed")
        BY Zenon, <1>4 DEF Refuse
      <4> QED
        BY <1>d, <4>1 DEF Finish, Goto
    <3>2. pc[s] \in {"new", "entering"} /\ UNCHANGED <<record, proc, outcome, slot>>
      BY <1>4 DEF Refuse, Scheduled, At
    <3>3. slot[s] \in Slots \cup {None}
      BY DEF TypeOK
    <3> QED
      BY <3>1, <3>2, <3>3 DEF Placed, Truthful
  <2> QED
    BY <2>1, <2>2, <2>3, StartStep
<1>5. CASE Recheck(s)
  <2>1. pc[s] # "done" /\ OnlyOf(s) /\ UNCHANGED <<chan, worker, rescue>>
    BY ZenonT(60), <1>5, <1>d DEF OnlyOf, Recheck, At, Goto
  <2>2. TypeOK'
    <3>1. slot[s] \in Slots
      BY Zenon, <1>5 DEF Placed, Recheck, At
    <3>2. Append(avail, slot[s]) \in Seq(Slots)
      BY <3>1 DEF TypeOK
    <3>3. avail' \in Seq(Slots)
      BY Zenon, <1>5, <3>2 DEF TypeOK, Recheck
    <3>4. /\ pc' \in {[pc EXCEPT ![s] = "done"], [pc EXCEPT ![s] = "reserve"]}
          /\ slot' \in {[slot EXCEPT ![s] = None], slot}
          /\ result' \in {[result EXCEPT ![s] = "failed"], result}
          /\ cancelled' \in {cancelled \ {s}, cancelled}
      BY Zenon, <1>5 DEF Recheck, Goto
    <3>5. UNCHANGED <<record, leased, spent, outcome, proc, chan, worker, stopped, closing, shut, rescue>>
      BY ZenonT(60), <1>5 DEF Recheck
    <3> QED
      BY ZenonT(60), <3>3, <3>4, <3>5 DEF TypeOK
  <2>3. Placed(s)' /\ Truthful(s)'
    BY ZenonT(60), <1>5, <1>d DEF Placed, Truthful, Recheck, At, Goto
  <2> QED
    BY <2>1, <2>2, <2>3, StartStep
<1>6. CASE ReserveId(s)
  <2>1. pc[s] # "done" /\ OnlyOf(s) /\ UNCHANGED <<chan, worker, rescue>>
    BY <1>6, <1>d DEF OnlyOf, ReserveId, At, Goto, Reserve
  <2>2. TypeOK'
    BY <1>6 DEF TypeOK, Placed, States, Terminal, ReserveId, At, Goto, Reserve
  <2>3. Placed(s)' /\ Truthful(s)'
    BY <1>6, <1>d DEF Placed, Truthful, ReserveId, At, Goto, Reserve
  <2> QED
    BY <2>1, <2>2, <2>3, StartStep
<1>7. CASE GiveUp(s)
  <2>1. pc[s] # "done" /\ OnlyOf(s) /\ UNCHANGED <<chan, worker, rescue>>
    BY <1>7, <1>d DEF OnlyOf, GiveUp, At, Finish, Goto
  <2>2. TypeOK'
    BY ZenonT(60), <1>7 DEF TypeOK, Placed, States, Terminal, GiveUp, At, Finish, Goto
  <2>3. Placed(s)' /\ Truthful(s)'
    BY ZenonT(60), <1>7, <1>d DEF Placed, Truthful, GiveUp, At, Finish, Goto
  <2> QED
    BY <2>1, <2>2, <2>3, StartStep
<1>8. CASE Prepare(s)
  <2>1. pc[s] # "done" /\ OnlyOf(s) /\ UNCHANGED <<chan, worker, rescue>>
    BY <1>8, <1>d DEF OnlyOf, Prepare, At, Goto
  <2>2. TypeOK'
    BY <1>8 DEF TypeOK, Placed, States, Terminal, Prepare, At, Goto
  <2>3. Placed(s)' /\ Truthful(s)'
    BY <1>8, <1>d DEF Placed, Truthful, Prepare, At, Goto
  <2> QED
    BY <2>1, <2>2, <2>3, StartStep
<1>9. CASE AbortPrepared(s)
  <2>1. pc[s] # "done" /\ OnlyOf(s) /\ UNCHANGED <<chan, worker, rescue>>
    BY <1>9, <1>d DEF OnlyOf, AbortPrepared, At, Ends, Finish, Goto
  <2>2. TypeOK'
    BY ZenonT(60), <1>9 DEF TypeOK, Placed, States, Terminal, AbortPrepared, At, Ends, Finish, Goto
  <2>3. Placed(s)' /\ Truthful(s)'
    <3>1. PICK proven \in BOOLEAN : Ends(s, proven) /\ Finish(s, IF proven THEN "cancelled" ELSE "failed")
      BY <1>9 DEF AbortPrepared
    <3>2. proc'[s] = IF proven THEN "reaped" ELSE "unproven"
      BY <3>1 DEF TypeOK, Ends
    <3>3. /\ result'[s] = IF proven THEN "cancelled" ELSE "failed"
          /\ s \notin leased' /\ pc'[s] \in {"done", "dropping"}
          /\ pc'[s] = "dropping" => slot[s] # None
      BY <3>1 DEF TypeOK, Finish, Goto
    <3>4. record'[s] = "absent" /\ slot'[s] = slot[s]
      BY SMTT(90), <1>9 DEF Placed, AbortPrepared, At
    <3> QED
      BY <3>2, <3>3, <3>4 DEF TypeOK, Placed, Truthful
  <2> QED
    BY <2>1, <2>2, <2>3, StartStep
<1>10. CASE PublishInitial(s)
  <2>1. pc[s] # "done" /\ OnlyOf(s) /\ UNCHANGED <<chan, worker, rescue>>
    BY <1>10, <1>d DEF OnlyOf, PublishInitial, At, Goto, Publish
  <2>2. TypeOK'
    BY SMTT(90), <1>10 DEF TypeOK, Placed, States, Terminal, PublishInitial, At, Goto, Publish
  <2>3. Placed(s)' /\ Truthful(s)'
    BY ZenonT(60), <1>10, <1>d DEF Placed, Truthful, PublishInitial, At, Goto, Publish
  <2> QED
    BY <2>1, <2>2, <2>3, StartStep
<1>11. CASE Cleanup(s)
  <2>1. pc[s] # "done" /\ OnlyOf(s) /\ UNCHANGED <<chan, worker, rescue>>
    BY <1>11, <1>d DEF OnlyOf, Cleanup, At, Ends, Goto
  <2>2. TypeOK'
    BY SMTT(90), <1>11 DEF TypeOK, Placed, States, Terminal, Cleanup, At, Ends, Goto
  <2>3. Placed(s)' /\ Truthful(s)'
    BY ZenonT(60), <1>11, <1>d DEF Placed, Truthful, Cleanup, At, Ends, Goto
  <2> QED
    BY <2>1, <2>2, <2>3, StartStep
<1>12. CASE Unpublished(s)
  <2>1. pc[s] # "done" /\ OnlyOf(s) /\ UNCHANGED <<chan, worker, rescue>>
    BY <1>12, <1>d DEF OnlyOf, Unpublished, At, Ends, Finish, Goto
  <2>2. TypeOK'
    BY ZenonT(60), <1>12 DEF TypeOK, Placed, States, Terminal, Unpublished, At, Ends, Finish, Goto
  <2>3. Placed(s)' /\ Truthful(s)'
    BY <1>12, <1>d DEF Placed, Truthful, Unpublished, At, Ends, Finish, Goto
  <2> QED
    BY <2>1, <2>2, <2>3, StartStep
<1>13. CASE Commit(s)
  <2>1. pc[s] # "done" /\ OnlyOf(s) /\ UNCHANGED <<chan, worker, rescue>>
    BY <1>13, <1>d DEF OnlyOf, Commit, At, Goto
  <2>2. TypeOK'
    BY <1>13 DEF TypeOK, Placed, States, Terminal, Commit, At, Goto
  <2>3. Placed(s)' /\ Truthful(s)'
    BY <1>13, <1>d DEF Placed, Truthful, Commit, At, Goto
  <2> QED
    BY <2>1, <2>2, <2>3, StartStep
<1>14. CASE ReleaseProcess(s)
  <2>1. pc[s] # "done" /\ OnlyOf(s) /\ UNCHANGED <<chan, worker, rescue>>
    BY <1>14, <1>d DEF OnlyOf, ReleaseProcess, At, Goto
  <2>2. TypeOK'
    BY <1>14 DEF TypeOK, Placed, States, Terminal, ReleaseProcess, At, Goto
  <2>3. Placed(s)' /\ Truthful(s)'
    BY <1>14, <1>d DEF Placed, Truthful, ReleaseProcess, At, Goto
  <2> QED
    BY <2>1, <2>2, <2>3, StartStep
<1>15. CASE ReleaseFails(s)
  <2>1. pc[s] # "done" /\ OnlyOf(s) /\ UNCHANGED <<chan, worker, rescue>>
    BY <1>15, <1>d DEF OnlyOf, ReleaseFails, At, Ends, Goto
  <2>2. TypeOK'
    <3>1. /\ proc' \in [Ids -> {"none", "held", "running", "reaped", "unproven"}]
          /\ outcome' \in [Ids -> Outcomes \cup {None}]
          /\ result' \in [Ids -> {"none", "ok", "cancelled", "failed"}]
      BY SMTT(90), <1>15 DEF TypeOK, ReleaseFails, Ends
    <3> QED
      BY ZenonT(60), <1>15, <3>1 DEF TypeOK, ReleaseFails, Goto
  <2>3. Placed(s)' /\ Truthful(s)'
    BY <1>15, <1>d DEF Placed, Truthful, ReleaseFails, At, Ends, Goto
  <2> QED
    BY <2>1, <2>2, <2>3, StartStep
<1>16. CASE Activate(s)
  <2>1. pc[s] # "done" /\ OnlyOf(s) /\ UNCHANGED <<chan, worker, rescue>>
    BY <1>16, <1>d DEF OnlyOf, Activate, At, Goto
  <2>2. TypeOK'
    BY SMTT(90), <1>16 DEF TypeOK, Placed, States, Terminal, Activate, At, Goto
  <2>3. Placed(s)' /\ Truthful(s)'
    BY <1>16, <1>d DEF Placed, Truthful, Activate, At, Goto
  <2> QED
    BY <2>1, <2>2, <2>3, StartStep
<1>17. CASE CompleteFailed(s)
  <2>1. pc[s] # "done" /\ OnlyOf(s) /\ UNCHANGED <<chan, worker, rescue>>
    BY <1>17, <1>d DEF OnlyOf, CompleteFailed, At, Finish, Goto
  <2>2. TypeOK'
    BY ZenonT(60), <1>17 DEF TypeOK, Placed, States, Terminal, CompleteFailed, At, Finish, Goto
  <2>3. Placed(s)' /\ Truthful(s)'
    BY <1>17, <1>d DEF Placed, Truthful, CompleteFailed, At, Finish, Goto
  <2> QED
    BY <2>1, <2>2, <2>3, StartStep
<1>18. CASE DropSlot(s)
  <2>1. pc[s] # "done" /\ OnlyOf(s) /\ UNCHANGED <<chan, worker, rescue>>
    BY <1>18, <1>d DEF OnlyOf, DropSlot, At, Goto
  <2>2. TypeOK'
    BY SMTT(90), <1>18 DEF TypeOK, Placed, States, Terminal, DropSlot, At, Goto
  <2>3. Placed(s)' /\ Truthful(s)'
    BY <1>18, <1>d DEF Placed, Truthful, DropSlot, At, Goto
  <2> QED
    BY <2>1, <2>2, <2>3, StartStep
<1> QED
  BY SMTT(90), <1>1, <1>2, <1>3, <1>4, <1>5, <1>6, <1>7, <1>8, <1>9, <1>10, <1>11, <1>12, <1>13, <1>14, <1>15, <1>16, <1>17, <1>18

\* The hand-over: the operation is with its worker's channel, or with the rescue
\* queue, and with nobody else.
LEMMA RetainStep == ASSUME IInv, NEW s \in Ids, Retain(s) PROVE IInv'
<1>0. TypeOK /\ Placed(s) /\ Truthful(s)
  BY Zenon DEF IInv
<1> USE SupervisorAssumption, <1>0 DEF histVars
<1>1. /\ pc[s] = "retain" /\ slot[s] \in Slots /\ slot' = [slot EXCEPT ![s] = None]
      /\ pc' = [pc EXCEPT ![s] = "done"] /\ result' = [result EXCEPT ![s] = "ok"]
      /\ UNCHANGED <<record, leased, spent, outcome, proc, avail, worker, stopped, closing, shut>>
      /\ cancelled' = cancelled \ {s}
  BY SMTT(90) DEF Retain, At, Goto, Placed
<1>2. \/ chan' = [chan EXCEPT ![slot[s]] = s] /\ rescue' = rescue
      \/ chan' = chan /\ rescue' = rescue \cup {s}
  BY ZenonT(60) DEF Retain
<1>3. TypeOK'
  <2>1. chan' \in [Slots -> Ids \cup {"empty", "shutdown"}] /\ rescue' \subseteq Ids
    BY <1>1, <1>2 DEF TypeOK
  <2>2. cancelled' \subseteq Ids
    BY SMTT(90), <1>1 DEF TypeOK
  <2> QED
    BY SMTT(90), <1>1, <2>1, <2>2 DEF TypeOK
<1>4. Owned(s)' /\ Placed(s)' /\ Truthful(s)'
  BY ZenonT(60), <1>1 DEF TypeOK, Owned, Placed, Truthful
<1>5. OnlyOf(s)
  BY SMTT(90), <1>1 DEF TypeOK, OnlyOf
<1>6. \A o \in Ids : o # s => Placed(o)' /\ Truthful(o)'
  BY Zenon, <1>5, Others
<1>7. \A o \in Ids : (Owned(o) => Owned(o)') /\ (Ended(o) => Ended(o)')
  <2>1. ~Owned(s) /\ ~Ended(s)
    BY <1>1 DEF Owned, Ended
  <2> QED
    BY Zenon, <1>5, <2>1, Others
<1>8. /\ \A k \in Slots : chan[k] # s
      /\ \A k \in Workers : worker[k].job # s
      /\ s \notin rescue
  <2>1. ~Owned(s) /\ ~Ended(s)
    BY <1>1 DEF Owned, Ended
  <2> QED
    BY <2>1 DEF IInv, Owners
<1>9. Owners'
  <2>1. \A k \in Slots : chan'[k] \in Ids => chan'[k] = s \/ chan'[k] = chan[k]
    BY <1>2 DEF TypeOK
  <2>2. \A o \in rescue' : o = s \/ o \in rescue
    BY <1>2
  <2>3. rescue \subseteq Ids
    BY DEF TypeOK
  <2> QED
    BY ZenonT(60), <1>1, <1>4, <1>7, <2>1, <2>2, <2>3 DEF IInv, Owners
<1>10. OneOwner'
  <2>1. CASE chan' = [chan EXCEPT ![slot[s]] = s] /\ rescue' = rescue
    BY ZenonT(60), <1>1, <1>8, <2>1 DEF IInv, OneOwner, TypeOK
  <2>2. CASE chan' = chan /\ rescue' = rescue \cup {s}
    BY ZenonT(60), <1>1, <1>8, <2>2 DEF IInv, OneOwner, TypeOK
  <2> QED
    BY SMTT(90), <1>2, <2>1, <2>2
<1> QED
  BY Zenon, <1>3, <1>4, <1>6, <1>9, <1>10 DEF IInv

\* What owners rely on is about the starts alone.
LEMMA Kept ==
  ASSUME UNCHANGED <<record, leased, pc, result, outcome, proc>>, NEW s \in Ids
  PROVE  (Owned(s) => Owned(s)') /\ (Ended(s) => Ended(s)')
<1>1. Owned(s) => Owned(s)'
  BY Zenon DEF Owned
<1>2. Ended(s) => Ended(s)'
  BY Zenon DEF Ended
<1> QED
  BY <1>1, <1>2

\* A step of the pool that touches no start.
LEMMA PoolStep ==
  ASSUME IInv, UNCHANGED <<record, leased, pc, result, outcome, proc, slot>>,
         TypeOK', Owners', OneOwner'
  PROVE  IInv'
<1>1. ASSUME NEW s \in Ids PROVE Placed(s)' /\ Truthful(s)'
  <2>0. Placed(s) /\ Truthful(s)
    BY Zenon DEF IInv
  <2>1. Placed(s)'
    BY Zenon, <2>0 DEF Placed
  <2>2. Truthful(s)'
    BY Zenon, <2>0 DEF Truthful
  <2> QED
    BY <2>1, <2>2
<1> QED
  BY Zenon, <1>1 DEF IInv

\* A notice goes into empty channels only.
LEMMA NoticeKeeps ==
  ASSUME TypeOK, NEW ks, Notified(ks)
  PROVE  /\ chan' \in [Slots -> Ids \cup {"empty", "shutdown"}]
         /\ \A k \in Slots : chan'[k] \in Ids => chan'[k] = chan[k]
BY SMTT(90), SupervisorAssumption DEF TypeOK, Notified

\* Channels that only lose operations keep their owners apart.
LEMMA ChannelsShrink ==
  ASSUME IInv, \A k \in Slots : chan'[k] \in Ids => chan'[k] = chan[k],
         chan' \in [Slots -> Ids \cup {"empty", "shutdown"}], UNCHANGED <<worker, rescue>>
  PROVE  OneOwner'
<1>1. rescue \subseteq Ids
  BY DEF IInv, TypeOK
<1> QED
  BY ZenonT(60), <1>1 DEF IInv, OneOwner

\* The steps of a worker between two jobs.
LEMMA QuietSteps ==
  ASSUME IInv, NEW k \in Workers,
         CheckClosing(k) \/ Disconnect(k) \/ (k \in Slots /\ (Clear(k) \/ ReturnSlot(k)))
  PROVE  IInv'
<1> USE SupervisorAssumption DEF histVars, startVars
<1>0. TypeOK /\ Owners /\ OneOwner
  BY DEF IInv
<1>1. /\ UNCHANGED <<histVars, startVars, chan, closing, shut, rescue>>
      /\ \E there \in {"wait", "exited", "exiting", "return", "recv"} :
            worker' = [worker EXCEPT ![k].at = there]
      /\ worker'[k].at = "wait" => worker[k].at = "check"
      /\ worker'[k].at # "wait" => worker[k].at \in {"recv", "clear", "return"}
      /\ avail' = avail \/ (k \in Slots /\ avail' = Append(avail, k))
      /\ stopped' = stopped \/ (worker[k].at = "check" /\ stopped' = stopped \cup {worker[k].job})
  BY <1>0 DEF TypeOK, CheckClosing, Disconnect, Clear, ReturnSlot, Move
<1>2. TypeOK'
  <2>1. worker' \in [Workers -> [at : {"recv", "check", "wait", "publish", "clear", "return",
                                       "exiting", "exited"}, job : Ids \cup {None}]]
    <3>1. PICK there \in {"wait", "exited", "exiting", "return", "recv"} :
            worker' = [worker EXCEPT ![k].at = there]
      BY Zenon, <1>1
    <3> QED
      BY SMTT(90), <1>0, <3>1 DEF TypeOK
  <2>2. avail' \in Seq(Slots)
    <3>1. avail \in Seq(Slots)
      BY ZenonT(60), <1>0 DEF TypeOK
    <3>2. k \in Slots => Append(avail, k) \in Seq(Slots)
      BY <3>1
    <3> QED
      BY <1>1, <3>1, <3>2
  <2>3. stopped' \subseteq Ids
    BY <1>0, <1>1 DEF TypeOK, Owners
  <2> QED
    BY <1>0, <1>1, <2>1, <2>2, <2>3 DEF TypeOK
<1>3. /\ \A j \in Workers : worker'[j].job = worker[j].job
      /\ \A j \in Workers : worker'[j].at = worker[j].at \/ j = k
      /\ worker'[k].at \in {"wait", "exited", "exiting", "return", "recv"}
  BY <1>0, <1>1 DEF TypeOK
<1>4. Owners'
  <2>1. \A s \in Ids : (Owned(s) => Owned(s)') /\ (Ended(s) => Ended(s)')
    BY Zenon, <1>1, Kept
  <2>2. \A j \in Workers : worker'[j].at \in {"check", "wait"} => worker[j].at \in {"check", "wait"}
    BY <1>1, <1>3
  <2>3. \A j \in Workers : worker'[j].at = "publish" <=> worker[j].at = "publish"
    BY <1>1, <1>3
  <2>4. \A j \in Workers : worker'[j].at \in {"check", "wait", "publish"} <=> worker[j].job \in Ids
    BY <1>0, <1>1, <1>3 DEF Owners
  <2>5. rescue \subseteq Ids
    BY <1>0 DEF TypeOK
  <2> QED
    BY <1>0, <1>1, <1>3, <2>1, <2>2, <2>3, <2>4, <2>5 DEF Owners
<1>5. OneOwner'
  BY SMTT(90), <1>0, <1>1, <1>3 DEF OneOwner
<1> QED
  BY <1>1, <1>2, <1>4, <1>5, PoolStep

\* A worker takes an operation from its channel or from the rescue queue.
LEMMA ReceiveStep == ASSUME IInv, NEW k \in Slots, Receive(k) PROVE IInv'
<1> USE SupervisorAssumption DEF histVars, startVars
<1>0. TypeOK /\ Owners /\ OneOwner
  BY DEF IInv
<1>1. /\ k \in Workers /\ worker[k].at = "recv" /\ chan[k] \in Ids
      /\ worker' = [worker EXCEPT ![k] = [at |-> "check", job |-> chan[k]]]
      /\ chan' = [chan EXCEPT ![k] = "empty"]
      /\ UNCHANGED <<histVars, startVars, avail, stopped, closing, shut, rescue>>
  BY SMTT(90) DEF Receive, Workers
<1>2. TypeOK'
  BY ZenonT(60), <1>0, <1>1 DEF TypeOK
<1>3. Owners'
  <2>1. \A s \in Ids : (Owned(s) => Owned(s)') /\ (Ended(s) => Ended(s)')
    BY Zenon, <1>1, Kept
  <2>2. rescue \subseteq Ids
    BY SMTT(90), <1>0 DEF TypeOK
  <2>3. \A j \in Slots : chan'[j] \in Ids => chan'[j] = chan[j]
    BY ZenonT(60), <1>0, <1>1 DEF TypeOK
  <2>4. /\ worker'[k].at = "check" /\ worker'[k].job = chan[k]
        /\ \A j \in Workers : j # k => worker'[j] = worker[j]
    BY ZenonT(60), <1>0, <1>1 DEF TypeOK
  <2> QED
    BY ZenonT(60), <1>0, <1>1, <2>1, <2>2, <2>3, <2>4 DEF Owners
<1>4. OneOwner'
  <2>1. /\ chan'[k] = "empty" /\ \A j \in Slots : j # k => chan'[j] = chan[j]
        /\ worker'[k].job = chan[k]
        /\ \A j \in Workers : j # k => worker'[j] = worker[j]
    BY ZenonT(60), <1>0, <1>1 DEF TypeOK
  <2>2. "empty" \notin rescue
    BY ZenonT(60), <1>0 DEF TypeOK
  <2> QED
    BY SMTT(90), <1>0, <1>1, <2>1, <2>2 DEF OneOwner
<1> QED
  BY ZenonT(60), <1>1, <1>2, <1>3, <1>4, PoolStep

\* The rescue worker takes a session that no other worker has.
LEMMA RescueStep == ASSUME IInv, NEW s \in Ids, RescueTakes(s) PROVE IInv'
<1> USE SupervisorAssumption DEF histVars, startVars
<1>0. TypeOK /\ Owners /\ OneOwner
  BY DEF IInv
<1>1. /\ Rescue \in Workers /\ worker[Rescue].at = "recv" /\ s \in rescue
      /\ worker' = [worker EXCEPT ![Rescue] = [at |-> "wait", job |-> s]]
      /\ rescue' = rescue \ {s} /\ stopped' = stopped \cup {s}
      /\ UNCHANGED <<histVars, startVars, avail, chan, closing, shut>>
  BY SMTT(90) DEF RescueTakes, Workers
<1>2. TypeOK'
  <2>1. rescue' \subseteq Ids /\ stopped' \subseteq Ids
    BY <1>0, <1>1 DEF TypeOK
  <2>2. worker' \in [Workers -> [at : {"recv", "check", "wait", "publish", "clear", "return",
                                       "exiting", "exited"}, job : Ids \cup {None}]]
    BY SMTT(90), <1>0, <1>1 DEF TypeOK
  <2> QED
    BY SMTT(90), <1>0, <1>1, <2>1, <2>2 DEF TypeOK
<1>3. /\ worker'[Rescue].at = "wait" /\ worker'[Rescue].job = s
      /\ \A j \in Workers : j # Rescue => worker'[j] = worker[j]
  BY SMTT(90), <1>0, <1>1 DEF TypeOK
<1>4. Owners'
  <2>1. \A o \in Ids : (Owned(o) => Owned(o)') /\ (Ended(o) => Ended(o)')
    BY Zenon, <1>1, Kept
  <2>2. rescue \subseteq Ids
    BY <1>0 DEF TypeOK
  <2> QED
    BY SMTT(90), <1>0, <1>1, <1>3, <2>1, <2>2 DEF Owners
<1>5. OneOwner'
  BY SMTT(90), <1>0, <1>1, <1>3 DEF OneOwner
<1> QED
  BY <1>1, <1>2, <1>4, <1>5, PoolStep

\* Notices, and a worker that takes one.
LEMMA NoticeSteps ==
  ASSUME IInv, (\E k \in Slots : TakeShutdown(k)) \/ ShutdownBegins \/ ShutdownStops \/ ShutdownIdle
  PROVE  IInv'
<1> USE SupervisorAssumption DEF histVars, startVars
<1>0. TypeOK /\ Owners /\ OneOwner
  BY DEF IInv
<1>1. ASSUME UNCHANGED <<histVars, startVars>>
      PROVE  \A s \in Ids : (Owned(s) => Owned(s)') /\ (Ended(s) => Ended(s)')
  BY Zenon, <1>1, Kept
<1>2. rescue \subseteq Ids
  BY ZenonT(60), <1>0 DEF TypeOK
<1>3. CASE \E k \in Slots : TakeShutdown(k)
  <2>1. PICK k \in Slots : TakeShutdown(k)
    BY <1>3
  <2>2. /\ k \in Workers /\ worker[k].at = "recv" /\ chan' = [chan EXCEPT ![k] = "empty"]
        /\ worker' = [worker EXCEPT ![k].at = "exiting"]
        /\ UNCHANGED <<histVars, startVars, avail, stopped, closing, shut, rescue>>
    BY <2>1 DEF TakeShutdown, Move, Workers
  <2>3. TypeOK'
    BY SMTT(90), <1>0, <2>2 DEF TypeOK
  <2>4. /\ \A j \in Slots : chan'[j] \in Ids => chan'[j] = chan[j]
        /\ \A j \in Workers : worker'[j].job = worker[j].job
        /\ \A j \in Workers : j # k => worker'[j] = worker[j]
        /\ worker'[k].at = "exiting"
    BY <1>0, <2>2 DEF TypeOK
  <2>5. Owners'
    BY <1>0, <1>1, <1>2, <2>2, <2>4 DEF Owners
  <2>6. OneOwner'
    BY SMTT(90), <1>0, <1>2, <2>2, <2>3, <2>4 DEF OneOwner, TypeOK
  <2> QED
    BY <2>2, <2>3, <2>5, <2>6, PoolStep
<1>4. CASE ShutdownBegins \/ ShutdownStops \/ ShutdownIdle
  <2>1. UNCHANGED <<histVars, startVars, worker, rescue, avail>>
    BY ZenonT(60), <1>4 DEF ShutdownBegins, ShutdownStops, ShutdownIdle
  <2>2. /\ chan' \in [Slots -> Ids \cup {"empty", "shutdown"}]
        /\ \A k \in Slots : chan'[k] \in Ids => chan'[k] = chan[k]
    BY ZenonT(60), <1>0, <1>4, NoticeKeeps DEF ShutdownBegins, ShutdownStops, ShutdownIdle, TypeOK
  <2>3. Registered \subseteq Ids
    BY SMTT(90), <1>0 DEF Registered, TypeOK, Workers
  <2>4. stopped' \subseteq Ids /\ closing' \in BOOLEAN /\ shut' \in {"none", "stops", "idle", "done"}
    BY ZenonT(60), <1>0, <1>4, <2>3 DEF ShutdownBegins, ShutdownStops, ShutdownIdle, TypeOK
  <2>5. TypeOK'
    BY ZenonT(60), <1>0, <2>1, <2>2, <2>4 DEF TypeOK
  <2>6. Owners'
    BY Zenon, <1>0, <1>1, <1>2, <2>1, <2>2 DEF Owners
  <2>7. OneOwner'
    BY ZenonT(60), <2>1, <2>2, ChannelsShrink
  <2> QED
    BY SMTT(90), <2>1, <2>5, <2>6, <2>7, PoolStep
<1> QED
  BY ZenonT(60), <1>3, <1>4

\* A dropped permit notices a closing pool.
LEMMA DropNoticeStep == ASSUME IInv, NEW s \in Ids, DropNotice(s) PROVE IInv'
<1> USE SupervisorAssumption DEF histVars
<1>0. TypeOK /\ Owners /\ OneOwner /\ Placed(s) /\ Truthful(s)
  BY Zenon DEF IInv
<1>1. /\ pc[s] = "dropped" /\ pc' = [pc EXCEPT ![s] = "done"] /\ slot' = [slot EXCEPT ![s] = None]
      /\ UNCHANGED <<histVars, result, outcome, cancelled, proc, avail, worker, stopped,
                     closing, shut, rescue>>
  BY ZenonT(60) DEF DropNotice, At, Goto
<1>2. /\ chan' \in [Slots -> Ids \cup {"empty", "shutdown"}]
      /\ \A k \in Slots : chan'[k] \in Ids => chan'[k] = chan[k]
  BY ZenonT(60), <1>0, NoticeKeeps DEF DropNotice, TypeOK
<1>3. TypeOK'
  BY SMTT(90), <1>0, <1>1, <1>2 DEF TypeOK
<1>4. \A o \in Ids : Placed(o)' /\ Truthful(o)'
  <2>1. pc'[s] = "done" /\ \A o \in Ids : o # s => pc'[o] = pc[o] /\ slot'[o] = slot[o]
    BY <1>0, <1>1 DEF TypeOK
  <2>2. Placed(s)'
    BY ZenonT(60), <2>1 DEF Placed
  <2>3. ASSUME NEW o \in Ids, o # s PROVE Placed(o)'
    <3>1. Placed(o)
      BY Zenon DEF IInv
    <3> QED
      BY ZenonT(60), <1>1, <2>1, <2>3, <3>1 DEF Placed
  <2>4. ASSUME NEW o \in Ids PROVE Truthful(o)'
    <3>1. Truthful(o)
      BY Zenon DEF IInv
    <3> QED
      BY Zenon, <1>1, <3>1 DEF Truthful
  <2> QED
    BY <2>2, <2>3, <2>4
<1>5. ASSUME NEW o \in Ids PROVE (Owned(o) => Owned(o)') /\ (Ended(o) => Ended(o)')
  <2>1. pc[o] = "done" => pc'[o] = "done"
    BY <1>0, <1>1 DEF TypeOK
  <2>2. Owned(o) => Owned(o)'
    BY Zenon, <1>1, <2>1 DEF Owned
  <2>3. Ended(o) => Ended(o)'
    BY Zenon, <1>1, <2>1 DEF Ended
  <2> QED
    BY <2>2, <2>3
<1>6. Owners'
  <2>1. rescue \subseteq Ids
    BY <1>0 DEF TypeOK
  <2> QED
    BY ZenonT(60), <1>0, <1>1, <1>2, <1>5, <2>1 DEF Owners
<1>7. OneOwner'
  BY <1>1, <1>2, ChannelsShrink
<1> QED
  BY Zenon, <1>3, <1>4, <1>6, <1>7 DEF IInv

\* A retained operation changes in the hands of its one owner.
LEMMA OwnerStep ==
  ASSUME IInv, NEW s \in Ids, OnlyOf(s), pc'[s] = "done", result'[s] = "ok",
         TypeOK', Truthful(s)', Owners', OneOwner'
  PROVE  IInv'
<1>1. Placed(s)'
  BY ZenonT(60) DEF Placed
<1>2. \A o \in Ids : Placed(o)' /\ Truthful(o)'
  BY Zenon, <1>1, Others
<1> QED
  BY Zenon, <1>2 DEF IInv

\* The wait for a child ends, with any outcome.
LEMMA WaitStep == ASSUME IInv, NEW k \in Workers, NEW o \in Outcomes, WaitEnds(k, o) PROVE IInv'
<1> USE SupervisorAssumption DEF histVars
<1>0. TypeOK /\ Owners /\ OneOwner
  BY DEF IInv
<1>s. PICK s : s = worker[k].job
  OBVIOUS
<1>1. /\ worker[k].at = "wait"
      /\ proc' = [proc EXCEPT ![s] = IF o # "dead" THEN "reaped" ELSE "unproven"]
      /\ outcome' = [outcome EXCEPT ![s] = o]
      /\ worker' = [worker EXCEPT ![k].at = "publish"]
      /\ UNCHANGED <<histVars, pc, result, cancelled, slot, avail, chan, stopped, closing, shut,
                     rescue>>
  BY <1>s DEF WaitEnds, Ends, Move
<1>2. s \in Ids /\ Owned(s)
  BY <1>0, <1>s, <1>1 DEF Owners
<1>3. TypeOK'
  <2>1. /\ proc' \in [Ids -> {"none", "held", "running", "reaped", "unproven"}]
        /\ outcome' \in [Ids -> Outcomes \cup {None}]
    BY ZenonT(60), <1>0, <1>1 DEF TypeOK
  <2>2. worker' \in [Workers -> [at : {"recv", "check", "wait", "publish", "clear", "return",
                                       "exiting", "exited"}, job : Ids \cup {None}]]
    BY SMTT(90), <1>0, <1>1 DEF TypeOK
  <2> QED
    BY <1>0, <1>1, <2>1, <2>2 DEF TypeOK
<1>4. OnlyOf(s)
  BY <1>0, <1>1, <1>2 DEF OnlyOf, TypeOK
<1>5. Ended(s)' /\ Truthful(s)'
  BY SMTT(90), <1>0, <1>1, <1>2 DEF TypeOK, Owned, Ended, Truthful
<1>6. \A i \in Ids : i # s => (Owned(i) => Owned(i)') /\ (Ended(i) => Ended(i)')
  BY Zenon, <1>2, <1>4, Others
<1>7. /\ \A j \in Workers : worker'[j].job = worker[j].job
      /\ \A j \in Workers : j # k => worker'[j] = worker[j]
      /\ worker'[k].at = "publish"
  BY SMTT(90), <1>0, <1>1 DEF TypeOK
<1>8. /\ \A j \in Slots : chan[j] \in Ids => chan[j] # s
      /\ \A i \in rescue : i # s
      /\ \A j \in Workers : j # k => worker[j].job # s
  BY ZenonT(60), <1>0, <1>s, <1>2 DEF OneOwner
<1>9. Owners'
  <2>1. rescue \subseteq Ids
    BY <1>0 DEF TypeOK
  <2> QED
    BY SMTT(90), <1>0, <1>s, <1>1, <1>2, <1>5, <1>6, <1>7, <1>8, <2>1 DEF Owners
<1>10. OneOwner'
  BY SMTT(90), <1>0, <1>1, <1>7 DEF OneOwner
<1> QED
  BY <1>1, <1>2, <1>3, <1>4, <1>5, <1>9, <1>10, OwnerStep DEF Owned

\* The terminal record is published.
LEMMA PublishStep == ASSUME IInv, NEW k \in Workers, PublishTerminal(k) PROVE IInv'
<1> USE SupervisorAssumption
<1>0. TypeOK /\ Owners /\ OneOwner
  BY DEF IInv
<1>1. PICK s : s = worker[k].job
  BY SMTT(90)
<1>2. /\ worker[k].at = "publish"
      /\ record' = record \/ record' = [record EXCEPT ![s] = outcome[s]]
      /\ leased' = leased \ {s} /\ stopped' = stopped \ {s}
      /\ worker' = [worker EXCEPT ![k] = [at |-> IF k = Rescue THEN "recv" ELSE "clear", job |-> None]]
      /\ UNCHANGED <<spent, pc, result, outcome, cancelled, proc, slot, avail, chan, closing, shut,
                     rescue>>
  BY ZenonT(60), <1>1 DEF PublishTerminal, startVars
<1>3. s \in Ids /\ Ended(s)
  BY ZenonT(60), <1>0, <1>1, <1>2 DEF Owners
<1>4. TypeOK'
  <2>1. record' \in [Ids -> States]
    BY ZenonT(60), <1>0, <1>2, <1>3 DEF TypeOK, Ended, States, Terminal
  <2>2. leased' \subseteq Ids /\ stopped' \subseteq Ids
    BY ZenonT(60), <1>0, <1>2 DEF TypeOK
  <2>3. worker' \in [Workers -> [at : {"recv", "check", "wait", "publish", "clear", "return",
                                       "exiting", "exited"}, job : Ids \cup {None}]]
    BY ZenonT(60), <1>0, <1>2 DEF TypeOK
  <2> QED
    BY ZenonT(60), <1>0, <1>2, <2>1, <2>2, <2>3 DEF TypeOK
<1>5. OnlyOf(s)
  BY ZenonT(60), <1>0, <1>2, <1>3 DEF OnlyOf, TypeOK
<1>6. Truthful(s)'
  BY ZenonT(60), <1>0, <1>2, <1>3 DEF TypeOK, Ended, Truthful
<1>7. \A i \in Ids : i # s => (Owned(i) => Owned(i)') /\ (Ended(i) => Ended(i)')
  BY Zenon, <1>3, <1>5, Others
<1>8. /\ \A j \in Workers : j # k => worker'[j] = worker[j]
      /\ worker'[k].at \in {"recv", "clear"} /\ worker'[k].job = None
  BY ZenonT(60), <1>0, <1>2 DEF TypeOK
<1>9. /\ \A j \in Slots : chan[j] \in Ids => chan[j] # s
      /\ \A i \in rescue : i # s
      /\ \A j \in Workers : j # k => worker[j].job # s
  BY ZenonT(60), <1>0, <1>1, <1>3 DEF OneOwner
<1>10. rescue \subseteq Ids
  BY SMTT(90), <1>0 DEF TypeOK
<1>11. Owners'
  BY ZenonT(60), <1>0, <1>2, <1>7, <1>8, <1>9, <1>10 DEF Owners
<1>12. OneOwner'
  <2>1. chan' = chan /\ rescue' = rescue
    BY ZenonT(60), <1>2
  <2>2. \A j, l \in Workers : worker'[j].job \in Ids /\ worker'[j].job = worker'[l].job => j = l
    BY ZenonT(60), <1>0, <1>8 DEF OneOwner
  <2>3. \A j \in Slots, l \in Workers : chan[j] \in Ids => chan[j] # worker'[l].job
    BY ZenonT(60), <1>0, <1>8 DEF OneOwner
  <2>4. \A l \in Workers : worker'[l].job \notin rescue
    BY <1>0, <1>8, <1>10 DEF OneOwner
  <2> QED
    BY ZenonT(60), <1>0, <2>1, <2>2, <2>3, <2>4 DEF OneOwner
<1> QED
  BY ZenonT(60), <1>2, <1>3, <1>4, <1>5, <1>6, <1>11, <1>12, OwnerStep DEF Ended

\* A worker that exits takes down what its channel still holds.
LEMMA ExitStep == ASSUME IInv, NEW k \in Slots, Exit(k) PROVE IInv'
<1> USE SupervisorAssumption
<1>0. TypeOK /\ Owners /\ OneOwner
  BY DEF IInv
<1>1. /\ k \in Workers /\ worker[k].at = "exiting" /\ chan' = [chan EXCEPT ![k] = "empty"]
      /\ worker' = [worker EXCEPT ![k].at = "exited"]
      /\ UNCHANGED <<record, spent, pc, result, outcome, cancelled, slot, avail, stopped, closing,
                     shut, rescue>>
  BY DEF Exit, Move, Workers
<1>2. /\ \A j \in Slots : chan'[j] \in Ids => chan'[j] = chan[j] /\ j # k
      /\ chan' \in [Slots -> Ids \cup {"empty", "shutdown"}]
      /\ \A j \in Workers : j # k => worker'[j] = worker[j]
      /\ worker'[k].at = "exited" /\ worker'[k].job = worker[k].job
      /\ worker' \in [Workers -> [at : {"recv", "check", "wait", "publish", "clear", "return",
                                        "exiting", "exited"}, job : Ids \cup {None}]]
  BY SMTT(90), <1>0, <1>1 DEF TypeOK
<1>3. OneOwner'
  BY <1>0, <1>1, <1>2 DEF OneOwner, TypeOK
<1>4. rescue \subseteq Ids
  BY <1>0 DEF TypeOK
<1>5. CASE chan[k] \in Ids
  <2>1. PICK s \in Ids : s = chan[k]
    BY <1>5
  <2>2. /\ \E proven \in BOOLEAN : proc' = [proc EXCEPT ![s] = IF proven THEN "reaped" ELSE "unproven"]
        /\ leased' = leased \ {s}
    BY ZenonT(60), <1>5, <2>1 DEF Exit, Ends
  <2>3. Owned(s)
    BY ZenonT(60), <1>0, <2>1 DEF Owners
  <2>4. /\ proc' \in [Ids -> {"none", "held", "running", "reaped", "unproven"}]
        /\ proc'[s] \in {"reaped", "unproven"}
        /\ \A i \in Ids : i # s => proc'[i] = proc[i]
    BY ZenonT(60), <1>0, <2>2 DEF TypeOK
  <2>5. TypeOK'
    BY <1>0, <1>1, <1>2, <2>2, <2>4 DEF TypeOK
  <2>6. OnlyOf(s)
    BY <1>1, <2>2, <2>4 DEF OnlyOf
  <2>7. Truthful(s)'
    BY SMTT(90), <1>1, <2>3, <2>4 DEF Owned, Truthful
  <2>8. \A i \in Ids : i # s => (Owned(i) => Owned(i)') /\ (Ended(i) => Ended(i)')
    BY Zenon, <1>1, <2>3, <2>6, Others
  <2>9. /\ \A j \in Slots : chan[j] \in Ids /\ j # k => chan[j] # s
        /\ \A i \in rescue : i # s
        /\ \A j \in Workers : worker[j].job # s
    BY ZenonT(60), <1>0, <2>1 DEF OneOwner
  <2>10. Owners'
    BY <1>0, <1>1, <1>2, <1>4, <2>8, <2>9 DEF Owners
  <2> QED
    BY <1>1, <1>3, <2>3, <2>5, <2>6, <2>7, <2>10, OwnerStep DEF Owned
<1>6. CASE chan[k] \notin Ids
  <2>1. UNCHANGED <<proc, leased>>
    BY <1>6 DEF Exit
  <2>2. \A i \in Ids : (Owned(i) => Owned(i)') /\ (Ended(i) => Ended(i)')
    BY <1>1, <2>1 DEF Owned, Ended
  <2>3. Owners'
    BY <1>0, <1>1, <1>2, <1>4, <2>2 DEF Owners
  <2>4. TypeOK'
    BY <1>0, <1>1, <1>2, <2>1 DEF TypeOK
  <2> QED
    BY SMTT(90), <1>1, <1>3, <2>1, <2>3, <2>4, PoolStep
<1> QED
  BY Zenon, <1>5, <1>6

\* Every step keeps the invariant.
LEMMA NextIInv == IInv /\ [Next]_vars => IInv'
<1> SUFFICES ASSUME IInv, [Next]_vars PROVE IInv'
  BY SMTT(90)
<1>1. CASE \E s \in Ids : Step(s) \/ Cancel(s)
  BY SMTT(90), <1>1, StartSteps, RetainStep, DropNoticeStep DEF Step
<1>2. CASE \E k \in Workers : Work(k) \/ \E o \in Outcomes : WaitEnds(k, o)
  BY SMTT(90), <1>2, QuietSteps, ReceiveStep, RescueStep, NoticeSteps, WaitStep, PublishStep, ExitStep DEF Work
<1>3. CASE Shutdown
  BY <1>3, NoticeSteps DEF Shutdown
<1>4. CASE UNCHANGED vars
  <2>0. /\ UNCHANGED <<record, leased, spent, pc, result, outcome, cancelled, proc, slot>>
        /\ UNCHANGED <<avail, chan, worker, stopped, closing, shut, rescue>>
    BY Zenon, <1>4 DEF vars, histVars, startVars, poolVars
  <2>1. TypeOK'
    BY ZenonT(60), <2>0 DEF IInv, TypeOK
  <2>2. Owners'
    BY ZenonT(60), <2>0 DEF IInv, Owners, Owned, Ended
  <2>3. OneOwner'
    BY ZenonT(60), <2>0 DEF IInv, OneOwner
  <2> QED
    BY SMTT(90), <2>0, <2>1, <2>2, <2>3, PoolStep
<1> QED
  BY <1>1, <1>2, <1>3, <1>4 DEF Next

\* The types of starts, slots, channels and workers, for any number of them.
THEOREM TypeCorrect == Spec => []TypeOK
<1>1. IInv => TypeOK
  BY DEF IInv
<1> QED
  BY InitIInv, NextIInv, <1>1, PTL DEF Spec

\* The history is true of the processes, for any number of starts and slots: a
\* running command is recorded and leased, a record claims an end only for a
\* process that was reaped, and Cancelled is answered only when none is left
\* (start_polled, finish_job, publish_terminal).
THEOREM HistoryStaysTrue == Spec => []HistoryIsTrue
<1>1. IInv => HistoryIsTrue
  BY DEF IInv, HistoryIsTrue, Truthful
<1> QED
  BY InitIInv, NextIInv, <1>1, PTL DEF Spec

\* A retained operation is never in two hands: of all channels, workers and the
\* rescue queue at most one has it (dispatch, worker_loop, rescue_worker_loop).
THEOREM NeverTwoOwners == Spec => []OneOwner
<1>1. IInv => OneOwner
  BY DEF IInv
<1> QED
  BY InitIInv, NextIInv, <1>1, PTL DEF Spec

----------------------------------------------------------------------------
(* The slots of an open pool.                                              *)

Holds(s, k) == slot[s] = k /\ pc[s] # "dropped"
FreeAt(i, k) == i \in DOMAIN avail /\ avail[i] = k
Engaged(k) == chan[k] # "empty" \/ worker[k].at # "recv"

\* One slot: held by one permit, once on the stack, or with its worker, which has
\* at most one job, in the channel or in hand.
OnePlace(k) ==
  /\ \A s, t \in Ids : Holds(s, k) /\ Holds(t, k) => s = t
  /\ \A i, j : FreeAt(i, k) /\ FreeAt(j, k) => i = j
  /\ \A s \in Ids : Holds(s, k) => ~Engaged(k) /\ \A i : ~FreeAt(i, k)
  /\ \A i : FreeAt(i, k) => ~Engaged(k)
  /\ Engaged(k) \/ (\E s \in Ids : Holds(s, k)) \/ (\E i : FreeAt(i, k))
  /\ chan[k] = "empty" \/ worker[k].at = "recv"

\* A pool that is not closing has told no worker to stop, and a start that holds no
\* permit has none.
PoolInv ==
  /\ ~closing => shut = "none"
  /\ ~closing => \A k \in Slots : worker[k].at \notin {"exiting", "exited"} /\ chan[k] # "shutdown" /\ OnePlace(k)
  /\ \A s \in Ids : pc[s] \in {"new", "entering", "done"} => slot[s] = None

\* The stack the pool is built with has every slot once.
LEMMA FreshStackOnce ==
  /\ \A k \in Slots : \E i \in DOMAIN FreshStack : FreshStack[i] = k
  /\ \A i, j \in DOMAIN FreshStack : FreshStack[i] = FreshStack[j] => i = j
<1> DEFINE n == Cardinality(Slots)
<1> DEFINE Stacks == {q \in [1..n -> Slots] : {q[i] : i \in DOMAIN q} = Slots}
<1>1. n \in Nat /\ ExistsBijection(1..n, Slots)
  BY SupervisorAssumption, FS_CardinalityType
<1>2. PICK q \in [1..n -> Slots] : {q[i] : i \in DOMAIN q} = Slots
  <2>1. PICK q \in [1..n -> Slots] : \A k \in Slots : \E i \in 1..n : q[i] = k
    BY <1>1 DEF ExistsBijection, Bijection, Surjection
  <2>2. {q[i] : i \in DOMAIN q} = Slots
    BY <2>1
  <2> QED BY Zenon, <2>2
<1>3. FreshStack \in [1..n -> Slots] /\ {FreshStack[i] : i \in DOMAIN FreshStack} = Slots
  BY Zenon, <1>2 DEF FreshStack
<1>4. \A k \in Slots : \E i \in DOMAIN FreshStack : FreshStack[i] = k
  BY Zenon, <1>3
<1>5. FreshStack \in Surjection(1..n, Slots)
  BY Zenon, <1>3, <1>4 DEF Surjection
<1>6. IsFiniteSet(1..n) /\ Cardinality(1..n) = n
  BY <1>1, FS_Interval
<1>7. FreshStack \in Injection(1..n, Slots)
  BY Zenon, <1>5, <1>6, FS_SurjSameCardinalityImpliesInj
<1> QED BY Zenon, <1>3, <1>4, <1>7 DEF Injection, IsInjective

\* A new pool has its slots on the stack.
LEMMA InitPool == ASSUME Init PROVE PoolInv
<1>1. /\ avail = FreshStack /\ \A k \in Slots : chan[k] = "empty" /\ worker[k].at = "recv"
      /\ \A s \in Ids : slot[s] = None
      /\ closing = FALSE /\ shut = "none"
  BY Zenon DEF Init, Workers, Idle
<1>2. ASSUME NEW k \in Slots PROVE OnePlace(k)
  <2>1. \A s \in Ids : ~Holds(s, k)
    BY Zenon, <1>1, SlotAssumption DEF Holds
  <2>2. ~Engaged(k)
    BY Zenon, <1>1 DEF Engaged
  <2>3. /\ \A i, j : FreeAt(i, k) /\ FreeAt(j, k) => i = j
        /\ \E i : FreeAt(i, k)
    BY Zenon, <1>1, FreshStackOnce DEF FreeAt
  <2> QED BY Zenon, <1>1, <2>1, <2>2, <2>3 DEF OnePlace
<1>3. \A k \in Slots : worker[k].at \notin {"exiting", "exited"} /\ chan[k] # "shutdown"
  BY Zenon, <1>1
<1> QED BY Zenon, <1>1, <1>2, <1>3 DEF PoolInv

\* One start moves on.
LEMMA StartMoves ==
  ASSUME IInv, NEW s \in Ids, NEW p, pc' = [pc EXCEPT ![s] = p]
  PROVE  pc'[s] = p /\ \A o \in Ids : o # s => pc'[o] = pc[o]
BY Zenon DEF IInv, TypeOK

\* It takes or gives back a slot, and the others keep theirs.
LEMMA SlotMoves ==
  ASSUME IInv, NEW s \in Ids, NEW k, slot' = [slot EXCEPT ![s] = k]
  PROVE  slot'[s] = k /\ \A o \in Ids : o # s => slot'[o] = slot[o]
BY Zenon DEF IInv, TypeOK

\* One worker turns to something else.
LEMMA WorkerTurns ==
  ASSUME IInv, NEW k \in Workers, NEW w, worker' = [worker EXCEPT ![k] = w]
  PROVE  worker'[k] = w /\ \A d \in Workers : d # k => worker'[d] = worker[d]
BY Zenon DEF IInv, TypeOK

\* Or only moves on with what it has.
LEMMA WorkerMoves ==
  ASSUME IInv, NEW k \in Workers, NEW p, worker' = [worker EXCEPT ![k].at = p]
  PROVE  worker'[k].at = p /\ \A d \in Workers : d # k => worker'[d] = worker[d]
<1>1. worker[k] \in [at : {"recv", "check", "wait", "publish", "clear", "return",
                           "exiting", "exited"}, job : Ids \cup {None}]
  BY Zenon DEF IInv, TypeOK
<1>2. worker' = [worker EXCEPT ![k] = [worker[k] EXCEPT !.at = p]]
  OBVIOUS
<1>3. worker'[k] = [worker[k] EXCEPT !.at = p] /\ \A d \in Workers : d # k => worker'[d] = worker[d]
  BY Zenon, <1>2, WorkerTurns
<1> QED BY Zenon, <1>1, <1>3

\* A slot that a step does not touch.
LEMMA PlaceKept ==
  ASSUME NEW k, OnePlace(k), \A s \in Ids : Holds(s, k)' <=> Holds(s, k), \A i : FreeAt(i, k)' <=> FreeAt(i, k),
         chan'[k] = chan[k], worker'[k].at = worker[k].at
  PROVE  OnePlace(k)'
<1>1. Engaged(k)' <=> Engaged(k)
  BY Zenon DEF Engaged
<1> QED BY Zenon, <1>1 DEF OnePlace

\* The top of the stack is taken off it, the rest stays.
LEMMA StackPops ==
  ASSUME avail \in Seq(Slots), avail # <<>>, avail' = SubSeq(avail, 1, Len(avail) - 1)
  PROVE  /\ Len(avail) \in DOMAIN avail /\ avail[Len(avail)] \in Slots
         /\ \A k : \A i : FreeAt(i, k)' <=> FreeAt(i, k) /\ i # Len(avail)
<1>1. /\ Len(avail) \in DOMAIN avail /\ avail[Len(avail)] \in Slots
      /\ DOMAIN avail = 1..Len(avail) /\ DOMAIN avail' = 1..(Len(avail) - 1)
      /\ \A i \in 1..(Len(avail) - 1) : avail'[i] = avail[i]
      /\ \A i : i \in 1..(Len(avail) - 1) <=> i \in 1..Len(avail) /\ i # Len(avail)
  OBVIOUS
<1> QED BY Zenon, <1>1 DEF FreeAt

\* A slot is put on top, the rest stays.
LEMMA StackGrows ==
  ASSUME avail \in Seq(Slots), NEW k \in Slots, avail' = Append(avail, k)
  PROVE  /\ \A d : d # k => \A i : FreeAt(i, d)' <=> FreeAt(i, d)
         /\ \A i : FreeAt(i, k)' <=> FreeAt(i, k) \/ i = Len(avail) + 1
<1>1. /\ DOMAIN avail = 1..Len(avail) /\ DOMAIN avail' = 1..(Len(avail) + 1)
      /\ \A i \in 1..Len(avail) : avail'[i] = avail[i]
      /\ avail'[Len(avail) + 1] = k
      /\ \A i : i \in 1..(Len(avail) + 1) <=> i \in 1..Len(avail) \/ i = Len(avail) + 1
  OBVIOUS
<1> QED BY Zenon, <1>1 DEF FreeAt

\* The steps of a start that touch no slot.
LEMMA StartKeepsPool ==
  ASSUME IInv, PoolInv, NEW s \in Ids, UNCHANGED <<slot, avail, chan, worker, closing, shut>>,
         \A o \in Ids : o # s => pc'[o] = pc[o], pc[s] # "dropped", pc'[s] # "dropped",
         pc'[s] \in {"new", "entering", "done"} => slot[s] = None
  PROVE  PoolInv'
<1>1. \A o \in Ids : \A k : Holds(o, k)' <=> Holds(o, k)
  BY Zenon DEF Holds
<1>2. \A k : \A i : FreeAt(i, k)' <=> FreeAt(i, k)
  BY Zenon DEF FreeAt
<1>3. ~closing => \A k \in Slots : OnePlace(k)'
  BY Zenon, <1>1, <1>2, PlaceKept DEF PoolInv
<1>4. \A o \in Ids : pc'[o] \in {"new", "entering", "done"} => slot[o] = None
  BY Zenon DEF PoolInv
<1> QED BY Zenon, <1>3, <1>4 DEF PoolInv

\* The steps of this kind.
LEMMA StartsKeepPool ==
  ASSUME IInv, PoolInv, NEW s \in Ids,
         \/ Cancel(s) \/ Enter(s) \/ Refuse(s) \/ ReserveId(s) \/ GiveUp(s) \/ Prepare(s) \/ AbortPrepared(s)
         \/ PublishInitial(s) \/ Cleanup(s) \/ Unpublished(s) \/ Commit(s) \/ ReleaseProcess(s)
         \/ ReleaseFails(s) \/ Activate(s) \/ CompleteFailed(s)
  PROVE  PoolInv'
<1>1. \A p : pc' = [pc EXCEPT ![s] = p] => pc'[s] = p /\ \A o \in Ids : o # s => pc'[o] = pc[o]
  BY Zenon DEF IInv, TypeOK
<1>2. /\ pc \in [Ids -> {"new", "entering", "admitted", "reserve", "leased", "prepared",
                         "published", "unpublished", "releasing", "activate", "retain",
                         "complete", "dropping", "dropped", "done"}]
      /\ pc[s] \in {"new", "entering", "done"} => slot[s] = None
  BY Zenon DEF IInv, TypeOK, PoolInv
<1>3. UNCHANGED <<slot, avail, chan, worker, closing, shut>>
  BY ZenonT(30) DEF Cancel, Enter, Refuse, ReserveId, GiveUp, Prepare, AbortPrepared, PublishInitial, Cleanup,
     Unpublished, Commit, ReleaseProcess, ReleaseFails, Activate, CompleteFailed, poolVars
<1>4. CASE Cancel(s)
  <2>1. pc' = pc /\ pc[s] # "dropped"
    BY Zenon, <1>4 DEF Cancel
  <2> QED BY Zenon, <1>2, <1>3, <2>1, StartKeepsPool
<1>5. CASE Enter(s) \/ ReserveId(s) \/ Prepare(s) \/ PublishInitial(s) \/ Cleanup(s) \/ Commit(s) \/ ReleaseProcess(s)
           \/ ReleaseFails(s) \/ Activate(s)
  <2>1. PICK p \in {"entering", "leased", "prepared", "published", "unpublished", "releasing", "activate", "retain",
                    "complete"} :
          /\ pc' = [pc EXCEPT ![s] = p] /\ pc[s] # "dropped"
          /\ p = "entering" => pc[s] = "new"
    BY ZenonT(30), <1>5 DEF Enter, ReserveId, Prepare, PublishInitial, Cleanup, Commit, ReleaseProcess, ReleaseFails,
       Activate, Goto, At, Scheduled
  <2>2. pc'[s] = p /\ (\A o \in Ids : o # s => pc'[o] = pc[o]) /\ p # "dropped" /\ p # "new" /\ p # "done"
    BY Zenon, <1>1, <2>1
  <2> QED BY Zenon, <1>2, <1>3, <2>1, <2>2, StartKeepsPool
<1>6. CASE Refuse(s) \/ GiveUp(s) \/ AbortPrepared(s) \/ Unpublished(s) \/ CompleteFailed(s)
  <2>1. pc[s] # "dropped" /\ \E r : Finish(s, r)
    BY ZenonT(30), <1>6 DEF Refuse, GiveUp, AbortPrepared, Unpublished, CompleteFailed, At, Scheduled
  <2>2. PICK p \in {"done", "dropping"} : pc' = [pc EXCEPT ![s] = p] /\ (p = "done" => slot[s] = None)
    BY Zenon, <2>1 DEF Finish, Goto
  <2>3. pc'[s] = p /\ (\A o \in Ids : o # s => pc'[o] = pc[o]) /\ p # "dropped" /\ p # "new" /\ p # "entering"
    BY Zenon, <1>1, <2>2
  <2> QED BY Zenon, <1>3, <2>1, <2>2, <2>3, StartKeepsPool
<1> QED BY Zenon, <1>4, <1>5, <1>6

\* A closing pool promises nothing about its slots.
LEMMA ClosingKeepsPool ==
  ASSUME closing', \A s \in Ids : pc'[s] \in {"new", "entering", "done"} => slot'[s] = None
  PROVE  PoolInv'
BY Zenon DEF PoolInv

\* A permit takes the top of the stack, which was in no other place.
LEMMA PopKeepsPool == ASSUME IInv, PoolInv, NEW s \in Ids, Pop(s) PROVE PoolInv'
<1> DEFINE top == avail[Len(avail)]
<1>1. avail \in Seq(Slots)
  BY Zenon DEF IInv, TypeOK
<1>2. /\ pc[s] = "entering" /\ avail # <<>> /\ avail' = SubSeq(avail, 1, Len(avail) - 1)
      /\ slot' = [slot EXCEPT ![s] = top] /\ pc' = [pc EXCEPT ![s] = "admitted"]
      /\ UNCHANGED <<chan, worker, closing, shut>>
  BY Zenon DEF Pop, At, Goto
<1>3. /\ pc'[s] = "admitted" /\ slot'[s] = top
      /\ \A o \in Ids : o # s => pc'[o] = pc[o] /\ slot'[o] = slot[o]
  <2>1. pc'[s] = "admitted" /\ \A o \in Ids : o # s => pc'[o] = pc[o]
    BY Zenon, <1>2, StartMoves
  <2>2. slot'[s] = top /\ \A o \in Ids : o # s => slot'[o] = slot[o]
    BY Zenon, <1>2, SlotMoves
  <2> QED BY Zenon, <2>1, <2>2
<1>4. /\ Len(avail) \in DOMAIN avail /\ top \in Slots
      /\ \A k : \A i : FreeAt(i, k)' <=> FreeAt(i, k) /\ i # Len(avail)
  BY Zenon, <1>1, <1>2, StackPops
<1>5. slot[s] = None
  BY Zenon, <1>2 DEF PoolInv
<1>6. \A o \in Ids : pc'[o] \in {"new", "entering", "done"} => slot'[o] = None
  BY Zenon, <1>3 DEF PoolInv
<1>7. ASSUME ~closing, NEW k \in Slots, k # top PROVE OnePlace(k)'
  <2>1. \A o \in Ids : Holds(o, k)' <=> Holds(o, k)
    BY Zenon, <1>3, <1>5, <1>7, SlotAssumption DEF Holds
  <2>2. \A i : FreeAt(i, k)' <=> FreeAt(i, k)
    <3>1. ~FreeAt(Len(avail), k)
      BY Zenon, <1>7 DEF FreeAt
    <3> QED BY Zenon, <1>4, <3>1
  <2>3. OnePlace(k)
    BY Zenon, <1>7 DEF PoolInv
  <2> QED BY Zenon, <1>2, <2>1, <2>2, <2>3, PlaceKept
<1>8. ASSUME ~closing, NEW k \in Slots, k = top PROVE OnePlace(k)'
  <2>1. OnePlace(k) /\ FreeAt(Len(avail), k)
    BY Zenon, <1>4, <1>8 DEF PoolInv, FreeAt
  <2>2. ~Engaged(k) /\ (\A o \in Ids : ~Holds(o, k)) /\ (\A i : FreeAt(i, k) => i = Len(avail))
    BY Zenon, <2>1 DEF OnePlace
  <2>3. ~Engaged(k)' /\ chan'[k] = "empty"
    BY Zenon, <1>2, <2>2 DEF Engaged
  <2>4. \A i : ~FreeAt(i, k)'
    BY Zenon, <1>4, <2>2
  <2>5. Holds(s, k)' /\ \A o \in Ids : Holds(o, k)' => o = s
    BY Zenon, <1>3, <1>8, <2>2 DEF Holds
  <2> QED BY Zenon, <2>3, <2>4, <2>5 DEF OnePlace
<1> QED BY Zenon, <1>2, <1>6, <1>7, <1>8 DEF PoolInv

\* The second look at closing.
LEMMA RecheckKeepsPool == ASSUME IInv, PoolInv, NEW s \in Ids, Recheck(s) PROVE PoolInv'
<1>2. CASE closing
  <2>1. slot' = [slot EXCEPT ![s] = None] /\ pc' = [pc EXCEPT ![s] = "done"] /\ closing'
    BY Zenon, <1>2 DEF Recheck, Goto
  <2>2. slot'[s] = None /\ \A o \in Ids : o # s => pc'[o] = pc[o] /\ slot'[o] = slot[o]
    <3>1. \A o \in Ids : o # s => pc'[o] = pc[o]
      BY Zenon, <2>1, StartMoves
    <3>2. slot'[s] = None /\ \A o \in Ids : o # s => slot'[o] = slot[o]
      BY Zenon, <2>1, SlotMoves
    <3> QED BY Zenon, <3>1, <3>2
  <2>3. \A o \in Ids : pc'[o] \in {"new", "entering", "done"} => slot'[o] = None
    BY Zenon, <2>2 DEF PoolInv
  <2> QED BY Zenon, <2>1, <2>3, ClosingKeepsPool
<1>3. CASE ~closing
  <2>1. /\ pc[s] = "admitted" /\ pc' = [pc EXCEPT ![s] = "reserve"]
        /\ UNCHANGED <<slot, avail, chan, worker, closing, shut>>
    BY Zenon, <1>3 DEF Recheck, Goto, At
  <2>2. pc'[s] = "reserve" /\ \A o \in Ids : o # s => pc'[o] = pc[o]
    BY Zenon, <2>1, StartMoves
  <2> QED BY Zenon, <2>1, <2>2, StartKeepsPool
<1> QED BY Zenon, <1>2, <1>3

\* The slot of a permit that is used goes to its worker with the job.
LEMMA RetainKeepsPool == ASSUME IInv, PoolInv, NEW s \in Ids, Retain(s) PROVE PoolInv'
<1> DEFINE k == slot[s]
<1>2. /\ pc[s] = "retain" /\ slot' = [slot EXCEPT ![s] = None] /\ pc' = [pc EXCEPT ![s] = "done"]
      /\ UNCHANGED <<avail, worker, closing, shut>>
  BY Zenon DEF Retain, At, Goto
<1>3. slot'[s] = None /\ \A o \in Ids : o # s => pc'[o] = pc[o] /\ slot'[o] = slot[o]
  <2>1. \A o \in Ids : o # s => pc'[o] = pc[o]
    BY Zenon, <1>2, StartMoves
  <2>2. slot'[s] = None /\ \A o \in Ids : o # s => slot'[o] = slot[o]
    BY Zenon, <1>2, SlotMoves
  <2> QED BY Zenon, <2>1, <2>2
<1>4. \A o \in Ids : pc'[o] \in {"new", "entering", "done"} => slot'[o] = None
  BY Zenon, <1>3 DEF PoolInv
<1>5. k \in Slots
  BY Zenon, <1>2 DEF IInv, Placed
<1>6. CASE closing
  BY Zenon, <1>2, <1>4, <1>6, ClosingKeepsPool
<1>7. CASE ~closing
  <2>1. \A d \in Slots : worker[d].at \notin {"exiting", "exited"} /\ chan[d] # "shutdown" /\ OnePlace(d)
    BY Zenon, <1>7 DEF PoolInv
  <2>2. Holds(s, k)
    BY Zenon, <1>2 DEF Holds
  <2>3. ~Engaged(k) /\ (\A i : ~FreeAt(i, k)) /\ (\A o \in Ids : Holds(o, k) => o = s)
    BY Zenon, <1>5, <2>1, <2>2 DEF OnePlace
  <2>4. chan' = [chan EXCEPT ![k] = s]
    BY Zenon, <2>3 DEF Retain, Engaged
  <2>5. chan'[k] = s /\ \A d \in Slots : d # k => chan'[d] = chan[d]
    BY Zenon, <1>5, <2>4 DEF IInv, TypeOK
  <2>6. s # "empty" /\ s # "shutdown"
    BY Zenon, SupervisorAssumption
  <2>7. \A i, d : FreeAt(i, d)' <=> FreeAt(i, d)
    BY Zenon, <1>2 DEF FreeAt
  <2>8. ASSUME NEW d \in Slots, d # k PROVE OnePlace(d)'
    <3>1. \A o \in Ids : Holds(o, d)' <=> Holds(o, d)
      BY Zenon, <1>3, <2>8, SlotAssumption DEF Holds
    <3> QED BY Zenon, <1>2, <2>1, <2>5, <2>7, <2>8, <3>1, PlaceKept
  <2>9. ASSUME NEW d \in Slots, d = k PROVE OnePlace(d)'
    <3>1. \A o \in Ids : ~Holds(o, d)'
      BY Zenon, <1>3, <2>3, <2>9, SlotAssumption DEF Holds
    <3>2. chan'[d] = s /\ Engaged(d)' /\ worker'[d].at = "recv"
      BY Zenon, <1>2, <2>3, <2>5, <2>6, <2>9 DEF Engaged
    <3>3. \A i : ~FreeAt(i, d)'
      BY Zenon, <2>3, <2>7, <2>9
    <3> QED BY Zenon, <3>1, <3>2, <3>3 DEF OnePlace
  <2>10. \A d \in Slots : worker'[d].at \notin {"exiting", "exited"} /\ chan'[d] # "shutdown"
    BY Zenon, <1>2, <2>1, <2>5, <2>6
  <2> QED BY Zenon, <1>2, <1>4, <2>8, <2>9, <2>10 DEF PoolInv
<1> QED BY Zenon, <1>6, <1>7

\* The slot of an unused permit goes back on the stack, and is noticed after.
LEMMA DropsKeepPool == ASSUME IInv, PoolInv, NEW s \in Ids, DropSlot(s) \/ DropNotice(s) PROVE PoolInv'
<1>1. avail \in Seq(Slots)
  BY Zenon DEF IInv, TypeOK
<1>2. CASE DropSlot(s)
  <2> DEFINE k == slot[s]
  <2>1. /\ pc[s] = "dropping" /\ avail' = Append(avail, k) /\ pc' = [pc EXCEPT ![s] = "dropped"]
        /\ UNCHANGED <<slot, chan, worker, closing, shut>>
    BY Zenon, <1>2 DEF DropSlot, At, Goto
  <2>2. pc'[s] = "dropped" /\ \A o \in Ids : o # s => pc'[o] = pc[o]
    BY Zenon, <2>1, StartMoves
  <2>3. k \in Slots
    BY Zenon, <2>1 DEF IInv, Placed
  <2>4. \A o \in Ids : pc'[o] \in {"new", "entering", "done"} => slot'[o] = None
    BY Zenon, <2>1, <2>2 DEF PoolInv
  <2>5. /\ \A d : d # k => \A i : FreeAt(i, d)' <=> FreeAt(i, d)
        /\ \A d : d = k => \A i : FreeAt(i, d)' <=> FreeAt(i, d) \/ i = Len(avail) + 1
    BY Zenon, <1>1, <2>1, <2>3, StackGrows
  <2>6. ASSUME ~closing, NEW d \in Slots, d # k PROVE OnePlace(d)'
    <3>1. \A o \in Ids : Holds(o, d)' <=> Holds(o, d)
      BY Zenon, <2>1, <2>2, <2>6 DEF Holds
    <3>2. OnePlace(d)
      BY Zenon, <2>6 DEF PoolInv
    <3> QED BY Zenon, <2>1, <2>5, <2>6, <3>1, <3>2, PlaceKept
  <2>7. ASSUME ~closing, NEW d \in Slots, d = k PROVE OnePlace(d)'
    <3>1. OnePlace(d) /\ Holds(s, d)
      BY Zenon, <2>1, <2>7 DEF PoolInv, Holds
    <3>2. ~Engaged(d) /\ (\A i : ~FreeAt(i, d)) /\ (\A o \in Ids : Holds(o, d) => o = s)
      BY Zenon, <3>1 DEF OnePlace
    <3>3. (\E i : FreeAt(i, d)') /\ \A i, j : FreeAt(i, d)' /\ FreeAt(j, d)' => i = j
      <4>1. \A i : FreeAt(i, d)' <=> i = Len(avail) + 1
        BY Zenon, <2>5, <2>7, <3>2
      <4> QED BY <4>1
    <3>4. \A o \in Ids : ~Holds(o, d)'
      BY Zenon, <2>1, <2>2, <3>2 DEF Holds
    <3>5. ~Engaged(d)' /\ chan'[d] = "empty"
      BY Zenon, <2>1, <3>2 DEF Engaged
    <3> QED BY Zenon, <3>3, <3>4, <3>5 DEF OnePlace
  <2> QED BY Zenon, <2>1, <2>4, <2>6, <2>7 DEF PoolInv
<1>3. CASE DropNotice(s)
  <2>1. /\ pc[s] = "dropped" /\ slot' = [slot EXCEPT ![s] = None] /\ pc' = [pc EXCEPT ![s] = "done"]
        /\ UNCHANGED <<avail, worker, closing, shut>> /\ (~closing => chan' = chan)
    BY Zenon, <1>3 DEF DropNotice, At, Goto
  <2>2. slot'[s] = None /\ \A o \in Ids : o # s => pc'[o] = pc[o] /\ slot'[o] = slot[o]
    <3>1. \A o \in Ids : o # s => pc'[o] = pc[o]
      BY Zenon, <2>1, StartMoves
    <3>2. slot'[s] = None /\ \A o \in Ids : o # s => slot'[o] = slot[o]
      BY Zenon, <2>1, SlotMoves
    <3> QED BY Zenon, <3>1, <3>2
  <2>3. \A o \in Ids : pc'[o] \in {"new", "entering", "done"} => slot'[o] = None
    BY Zenon, <2>2 DEF PoolInv
  <2>4. ASSUME ~closing, NEW k \in Slots PROVE OnePlace(k)'
    <3>1. \A o \in Ids : Holds(o, k)' <=> Holds(o, k)
      BY Zenon, <2>1, <2>2, SlotAssumption DEF Holds
    <3>2. \A i : FreeAt(i, k)' <=> FreeAt(i, k)
      BY Zenon, <2>1 DEF FreeAt
    <3>3. OnePlace(k)
      BY Zenon, <2>4 DEF PoolInv
    <3> QED BY Zenon, <2>1, <2>4, <3>1, <3>2, <3>3, PlaceKept
  <2> QED BY Zenon, <2>1, <2>3, <2>4 DEF PoolInv
<1> QED BY Zenon, <1>2, <1>3

\* A worker that stays at its job, or the rescue worker.
LEMMA BusyKeepsPool ==
  ASSUME IInv, PoolInv, NEW k \in Workers, UNCHANGED <<slot, pc, avail, chan, closing, shut>>,
         \A d \in Workers : d # k => worker'[d] = worker[d],
         k \in Slots => worker[k].at # "recv" /\ worker'[k].at # "recv",
         k \in Slots /\ ~closing => worker'[k].at \notin {"exiting", "exited"}
  PROVE  PoolInv'
<1>1. \A o \in Ids : \A d : Holds(o, d)' <=> Holds(o, d)
  BY Zenon DEF Holds
<1>2. \A d : \A i : FreeAt(i, d)' <=> FreeAt(i, d)
  BY Zenon DEF FreeAt
<1>3. ASSUME ~closing, NEW d \in Slots PROVE OnePlace(d)'
  <2>1. OnePlace(d)
    BY Zenon, <1>3 DEF PoolInv
  <2>2. CASE d = k
    <3>1. Engaged(k) /\ Engaged(k)' /\ chan[k] = "empty"
      BY Zenon, <1>3, <2>1, <2>2 DEF Engaged, OnePlace
    <3> QED BY Zenon, <1>1, <1>2, <2>1, <2>2, <3>1 DEF OnePlace
  <2>3. CASE d # k
    <3>1. worker'[d] = worker[d]
      BY Zenon, <2>3 DEF Workers
    <3> QED BY Zenon, <1>1, <1>2, <2>1, <3>1, PlaceKept
  <2> QED BY Zenon, <2>2, <2>3
<1>4. ~closing => \A d \in Slots : worker'[d].at \notin {"exiting", "exited"}
  BY Zenon DEF PoolInv, Workers
<1> QED BY Zenon, <1>3, <1>4 DEF PoolInv

\* The steps of this kind.
LEMMA BusyStepsKeepPool ==
  ASSUME IInv, PoolInv, NEW k \in Workers,
         \/ CheckClosing(k) \/ PublishTerminal(k) \/ (\E o \in Outcomes : WaitEnds(k, o))
         \/ (k = Rescue /\ \E s \in Ids : RescueTakes(s)) \/ (k \in Slots /\ Clear(k))
  PROVE  PoolInv'
<1>2. CASE CheckClosing(k) \/ (\E o \in Outcomes : WaitEnds(k, o)) \/ (k \in Slots /\ Clear(k))
  <2>1. PICK p \in {"wait", "publish", "exiting", "return"} :
          /\ worker' = [worker EXCEPT ![k].at = p] /\ worker[k].at # "recv"
          /\ p = "exiting" => closing
          /\ UNCHANGED <<slot, pc, avail, chan, closing, shut>>
    BY ZenonT(30), <1>2 DEF CheckClosing, WaitEnds, Clear, Move, startVars
  <2>2. worker'[k].at = p /\ \A d \in Workers : d # k => worker'[d] = worker[d]
    BY Zenon, <2>1, WorkerMoves
  <2>3. worker'[k].at # "recv" /\ (~closing => worker'[k].at \notin {"exiting", "exited"})
    BY Zenon, <2>1, <2>2
  <2> QED BY Zenon, <2>1, <2>2, <2>3, BusyKeepsPool
<1>3. CASE PublishTerminal(k) \/ (k = Rescue /\ \E s \in Ids : RescueTakes(s))
  <2>1. PICK w : /\ worker' = [worker EXCEPT ![k] = w]
                 /\ k # Rescue => worker[k].at # "recv" /\ w = [at |-> "clear", job |-> None]
                 /\ UNCHANGED <<slot, pc, avail, chan, closing, shut>>
    BY ZenonT(30), <1>3 DEF PublishTerminal, RescueTakes, startVars
  <2>2. worker'[k] = w /\ \A d \in Workers : d # k => worker'[d] = worker[d]
    BY Zenon, <2>1, WorkerTurns
  <2>3. k \in Slots => worker[k].at # "recv" /\ worker'[k].at = "clear"
    BY <2>1, <2>2, SupervisorAssumption
  <2>4. k \in Slots => worker'[k].at # "recv" /\ worker'[k].at \notin {"exiting", "exited"}
    BY Zenon, <2>3
  <2> QED BY Zenon, <2>1, <2>2, <2>3, <2>4, BusyKeepsPool
<1> QED BY Zenon, <1>2, <1>3

\* A worker takes its job out of its channel.
LEMMA ReceiveKeepsPool == ASSUME IInv, PoolInv, NEW k \in Slots, Receive(k) PROVE PoolInv'
<1>1. chan \in [Slots -> Ids \cup {"empty", "shutdown"}]
  BY Zenon DEF IInv, TypeOK
<1>2. /\ worker[k].at = "recv" /\ chan[k] \in Ids
      /\ worker' = [worker EXCEPT ![k] = [at |-> "check", job |-> chan[k]]]
      /\ chan' = [chan EXCEPT ![k] = "empty"]
      /\ UNCHANGED <<slot, pc, avail, closing, shut>>
  BY Zenon DEF Receive, startVars
<1>3. /\ worker'[k].at = "check" /\ chan'[k] = "empty"
      /\ \A d \in Slots : d # k => worker'[d] = worker[d] /\ chan'[d] = chan[d]
  <2>1. k \in Workers /\ \A d \in Slots : d \in Workers
    BY Zenon DEF Workers
  <2>2. worker'[k] = [at |-> "check", job |-> chan[k]] /\ \A d \in Slots : d # k => worker'[d] = worker[d]
    BY Zenon, <1>2, <2>1, WorkerTurns
  <2>3. worker'[k].at = "check"
    BY <2>2
  <2>4. chan'[k] = "empty" /\ \A d \in Slots : d # k => chan'[d] = chan[d]
    BY Zenon, <1>1, <1>2
  <2> QED BY Zenon, <2>2, <2>3, <2>4
<1>4. \A o \in Ids : \A d : Holds(o, d)' <=> Holds(o, d)
  BY Zenon, <1>2 DEF Holds
<1>5. \A d : \A i : FreeAt(i, d)' <=> FreeAt(i, d)
  BY Zenon, <1>2 DEF FreeAt
<1>6. ASSUME ~closing, NEW d \in Slots PROVE OnePlace(d)'
  <2>1. OnePlace(d)
    BY Zenon, <1>6 DEF PoolInv
  <2>2. CASE d = k
    <3>1. Engaged(k) /\ Engaged(k)'
      BY Zenon, <1>2, <1>3, SupervisorAssumption DEF Engaged
    <3> QED BY Zenon, <1>3, <1>4, <1>5, <2>1, <2>2, <3>1 DEF OnePlace
  <2>3. CASE d # k
    BY Zenon, <1>3, <1>4, <1>5, <2>1, <2>3, PlaceKept
  <2> QED BY Zenon, <2>2, <2>3
<1>7. ~closing => \A d \in Slots : worker'[d].at \notin {"exiting", "exited"} /\ chan'[d] # "shutdown"
  BY Zenon, <1>3 DEF PoolInv
<1> QED BY Zenon, <1>2, <1>6, <1>7 DEF PoolInv

\* A worker that has finished puts its slot back.
LEMMA ReturnKeepsPool == ASSUME IInv, PoolInv, NEW k \in Slots, ReturnSlot(k) PROVE PoolInv'
<1>1. avail \in Seq(Slots)
  BY Zenon DEF IInv, TypeOK
<1>2. /\ worker[k].at = "return" /\ worker' = [worker EXCEPT ![k].at = "recv"] /\ avail' = Append(avail, k)
      /\ UNCHANGED <<slot, pc, chan, closing, shut>>
  BY Zenon DEF ReturnSlot, Move, startVars
<1>3. worker'[k].at = "recv" /\ \A d \in Slots : d # k => worker'[d] = worker[d]
  <2>1. k \in Workers /\ \A d \in Slots : d \in Workers
    BY Zenon DEF Workers
  <2> QED BY Zenon, <1>2, <2>1, WorkerMoves
<1>4. \A o \in Ids : \A d : Holds(o, d)' <=> Holds(o, d)
  BY Zenon, <1>2 DEF Holds
<1>5. /\ \A d : d # k => \A i : FreeAt(i, d)' <=> FreeAt(i, d)
      /\ \A i : FreeAt(i, k)' <=> FreeAt(i, k) \/ i = Len(avail) + 1
  BY Zenon, <1>1, <1>2, StackGrows
<1>6. ASSUME ~closing, NEW d \in Slots PROVE OnePlace(d)'
  <2>1. OnePlace(d)
    BY Zenon, <1>6 DEF PoolInv
  <2>2. CASE d = k
    <3>1. Engaged(k) /\ chan[k] = "empty"
      BY Zenon, <1>2, <2>1, <2>2 DEF Engaged, OnePlace
    <3>2. (\A o \in Ids : ~Holds(o, k)) /\ \A i : ~FreeAt(i, k)
      BY Zenon, <2>1, <2>2, <3>1 DEF OnePlace
    <3>3. ~Engaged(k)' /\ chan'[k] = "empty"
      BY Zenon, <1>2, <1>3, <3>1 DEF Engaged
    <3>4. \A o \in Ids : ~Holds(o, k)'
      BY Zenon, <1>4, <3>2
    <3>5. (\E i : FreeAt(i, k)') /\ \A i, j : FreeAt(i, k)' /\ FreeAt(j, k)' => i = j
      <4>1. \A i : FreeAt(i, k)' <=> i = Len(avail) + 1
        BY Zenon, <1>5, <3>2
      <4> QED BY <4>1
    <3> QED BY Zenon, <2>2, <3>3, <3>4, <3>5 DEF OnePlace
  <2>3. CASE d # k
    BY Zenon, <1>2, <1>3, <1>4, <1>5, <2>1, <2>3, PlaceKept
  <2> QED BY Zenon, <2>2, <2>3
<1>7. ~closing => \A d \in Slots : worker'[d].at \notin {"exiting", "exited"}
  BY Zenon, <1>3 DEF PoolInv
<1> QED BY Zenon, <1>2, <1>6, <1>7 DEF PoolInv

\* The steps that a worker or the shutdown takes only once the pool is closing.
LEMMA EndsKeepPool ==
  ASSUME IInv, PoolInv,
         \/ \E k \in Slots : TakeShutdown(k) \/ Exit(k)
         \/ \E k \in Workers : Disconnect(k)
         \/ Shutdown
  PROVE  PoolInv'
<1>1. UNCHANGED <<slot, pc>> /\ (closing' = closing \/ closing')
  BY ZenonT(30) DEF TakeShutdown, Exit, Disconnect, Shutdown, ShutdownBegins, ShutdownStops, ShutdownIdle, startVars
<1>2. closing'
  <2>1. CASE \E k \in Slots : TakeShutdown(k) \/ Exit(k)
    <3>1. closing
      BY Zenon, <2>1 DEF TakeShutdown, Exit, PoolInv
    <3> QED BY Zenon, <1>1, <3>1
  <2>2. CASE (\E k \in Workers : Disconnect(k)) \/ ShutdownStops \/ ShutdownIdle
    <3>1. closing
      BY Zenon, <2>2 DEF Disconnect, ShutdownStops, ShutdownIdle, PoolInv
    <3> QED BY Zenon, <1>1, <3>1
  <2>3. CASE ShutdownBegins
    BY Zenon, <2>3 DEF ShutdownBegins
  <2> QED BY Zenon, <2>1, <2>2, <2>3 DEF Shutdown
<1>3. \A s \in Ids : pc'[s] \in {"new", "entering", "done"} => slot'[s] = None
  BY Zenon, <1>1 DEF PoolInv
<1> QED BY Zenon, <1>2, <1>3, ClosingKeepsPool

\* Every step keeps the slots of an open pool.
LEMMA NextPool == ASSUME IInv, PoolInv, [Next]_vars PROVE PoolInv'
<1>1. CASE \E s \in Ids : Step(s) \/ Cancel(s)
  BY ZenonT(30), <1>1, StartsKeepPool, PopKeepsPool, RecheckKeepsPool, RetainKeepsPool, DropsKeepPool DEF Step
<1>2. CASE \E k \in Workers : Work(k) \/ \E o \in Outcomes : WaitEnds(k, o)
  BY ZenonT(30), <1>2, BusyStepsKeepPool, ReceiveKeepsPool, ReturnKeepsPool, EndsKeepPool DEF Work
<1>3. CASE Shutdown
  BY Zenon, <1>3, EndsKeepPool
<1>4. CASE UNCHANGED vars
  <2>1. UNCHANGED <<slot, pc, avail, chan, worker, closing, shut>>
    BY Zenon, <1>4 DEF vars, startVars, poolVars
  <2>2. \A k : OnePlace(k)' <=> OnePlace(k)
    BY Zenon, <2>1 DEF OnePlace, Holds, FreeAt, Engaged
  <2> QED BY Zenon, <2>1, <2>2 DEF PoolInv
<1> QED BY Zenon, <1>1, <1>2, <1>3, <1>4 DEF Next

\* One place is a count of one.
LEMMA PlaceCounts ==
  ASSUME NEW k, OnePlace(k)
  PROVE  Cardinality({s \in Ids : slot[s] = k /\ pc[s] # "dropped"}) + Cardinality({i \in DOMAIN avail : avail[i] = k})
           + (IF chan[k] # "empty" \/ worker[k].at # "recv" THEN 1 ELSE 0) = 1
<1> DEFINE held == {s \in Ids : slot[s] = k /\ pc[s] # "dropped"}
           free == {i \in DOMAIN avail : avail[i] = k}
           busy == chan[k] # "empty" \/ worker[k].at # "recv"
<1>0. /\ \A s : s \in held <=> s \in Ids /\ Holds(s, k)
      /\ \A i : i \in free <=> FreeAt(i, k)
      /\ busy <=> Engaged(k)
  BY Zenon DEF Holds, FreeAt, Engaged
<1>1. CASE Engaged(k)
  <2>1. held = {} /\ free = {} /\ busy
    BY Zenon, <1>0, <1>1 DEF OnePlace
  <2>2. Cardinality(held) = 0 /\ Cardinality(free) = 0
    BY Zenon, <2>1, FS_EmptySet
  <2> HIDE DEF held, free, busy
  <2>3. Cardinality(held) + Cardinality(free) + (IF busy THEN 1 ELSE 0) = 1
    BY <2>1, <2>2
  <2> QED BY Zenon, <2>3 DEF held, free, busy
<1>2. CASE \E s \in Ids : Holds(s, k)
  <2>1. PICK s \in Ids : Holds(s, k)
    BY Zenon, <1>2
  <2>2. held = {s} /\ free = {} /\ ~busy
    BY Zenon, <1>0, <2>1 DEF OnePlace
  <2>3. Cardinality(held) = 1 /\ Cardinality(free) = 0
    BY Zenon, <2>2, FS_EmptySet, FS_Singleton
  <2> HIDE DEF held, free, busy
  <2>4. Cardinality(held) + Cardinality(free) + (IF busy THEN 1 ELSE 0) = 1
    BY <2>2, <2>3
  <2> QED BY Zenon, <2>4 DEF held, free, busy
<1>3. CASE \E i : FreeAt(i, k)
  <2>1. PICK i : FreeAt(i, k)
    BY Zenon, <1>3
  <2>2. held = {} /\ free = {i} /\ ~busy
    BY Zenon, <1>0, <2>1 DEF OnePlace
  <2>3. Cardinality(held) = 0 /\ Cardinality(free) = 1
    BY Zenon, <2>2, FS_EmptySet, FS_Singleton
  <2> HIDE DEF held, free, busy
  <2>4. Cardinality(held) + Cardinality(free) + (IF busy THEN 1 ELSE 0) = 1
    BY <2>2, <2>3
  <2> QED BY Zenon, <2>4 DEF held, free, busy
<1> QED BY Zenon, <1>1, <1>2, <1>3 DEF OnePlace

\* For any number of starts and slots, a slot of an open pool is in exactly one
\* place: on the stack, with one permit, or with its worker or its channel; none
\* is lost or handed out twice (try_admit, dispatch, WorkerPermit's drop,
\* worker_loop).
THEOREM SlotsNeverLost == Spec => []SlotsAccounted
<1>1. Init => IInv /\ PoolInv
  BY InitIInv, InitPool
<1>2. IInv /\ PoolInv /\ [Next]_vars => IInv' /\ PoolInv'
  BY Zenon, NextIInv, NextPool
<1>3. IInv /\ PoolInv => SlotsAccounted
  BY Zenon, PlaceCounts DEF PoolInv, SlotsAccounted
<1> QED
  BY <1>1, <1>2, <1>3, PTL DEF Spec
=============================================================================
