---------------------- MODULE InteractivePromptsProofs ----------------------
(***************************************************************************)
(* For any number of askers, registrations, answers and limits: nobody     *)
(* sleeps on something that has happened, the inbox implements the         *)
(* exchange, and the byte budgets are the sums of what the entries in the  *)
(* queue were charged.                                                     *)
(***************************************************************************)
EXTENDS InteractivePrompts, FiniteSetTheorems, TLAPS

\* Where a request stands, what its entry says and what it has been given.
Consistent(a) ==
  /\ pc[a] \in {"idle", "captured", "admitting"} =>
       a \notin queue \cup displayed \cup answered /\ response[a] = None
  /\ pc[a] \in {"idle", "captured", "admitting", "polling", "waiting"} => got[a] = None
  /\ pc[a] \in {"resolved", "removed", "done"} => got[a] # None
  /\ pc[a] \in {"resolved", "removed"} /\ got[a] \in Answers => a \in answered
  /\ a \in queue => pc[a] \in {"polling", "waiting", "resolved"} /\ key[a] \in Principals
  /\ a \in Pending => pc[a] \in {"polling", "waiting"}
  /\ response[a] # None => a \in answered
  /\ a \in queue \cap answered /\ pc[a] \in {"polling", "waiting"} => response[a] # None

\* The inductive invariant.
IInv ==
  /\ TypeOK
  /\ \A a \in Askers : Consistent(a)
  /\ NoLostWakeup
  /\ ui = "replying" => draft.answer \in Answers

\* An inbox that was just opened.
LEMMA InitIInv == Init => IInv
<1> SUFFICES ASSUME Init PROVE IInv
  OBVIOUS
<1>1. TypeOK
  BY Zenon, PromptAssumption DEF Init, TypeOK, NoDraft
<1>2. \A a \in Askers : Consistent(a)
  BY DEF Init, Consistent, Pending
<1>3. NoLostWakeup
  BY DEF Init, NoLostWakeup
<1> QED
  BY <1>1, <1>2, <1>3 DEF Init, IInv

\* Every step keeps the invariant.
LEMMA NextIInv == IInv /\ [Next]_vars => IInv'
<1> SUFFICES ASSUME IInv, [Next]_vars PROVE IInv'
  OBVIOUS
<1> USE PromptAssumption DEF inboxVars, wakeVars, askVars, uiVars
<1>0. TypeOK /\ (\A a \in Askers : Consistent(a)) /\ NoLostWakeup
      /\ (ui = "replying" => draft.answer \in Answers)
  BY DEF IInv
<1>1. CASE \E l \in Leases : Register(l)
  <2>0. PICK l \in Leases : Register(l)
    BY <1>1
  <2>1. TypeOK'
    BY <1>0, <2>0 DEF TypeOK, Register, Insert
  <2>2. \A o \in Askers : Consistent(o)'
    BY <1>0, <2>0 DEF TypeOK, Consistent, NoLostWakeup, Pending, Principals, Register, Insert
  <2>4. NoLostWakeup'
    BY <1>0, <2>0 DEF TypeOK, Consistent, NoLostWakeup, Pending, Register, Insert
  <2> QED
    BY <1>0, <2>0, <2>1, <2>2, <2>4 DEF IInv, Register, Insert
<1>2. CASE \E l \in Leases : ReserveLease(l)
  <2>0. PICK l \in Leases : ReserveLease(l)
    BY <1>2
  <2>1. TypeOK'
    BY <1>0, <2>0 DEF TypeOK, ReserveLease, Insert
  <2>2. \A o \in Askers : Consistent(o)'
    BY <1>0, <2>0 DEF TypeOK, Consistent, NoLostWakeup, Pending, Principals, ReserveLease, Insert
  <2>4. NoLostWakeup'
    BY <1>0, <2>0 DEF TypeOK, Consistent, NoLostWakeup, Pending, ReserveLease, Insert
  <2> QED
    BY <1>0, <2>0, <2>1, <2>2, <2>4 DEF IInv, ReserveLease, Insert
<1>3. CASE \E l \in Leases : ActivateReserved(l)
  <2>0. PICK l \in Leases : ActivateReserved(l)
    BY <1>3
  <2>1. TypeOK'
    BY <1>0, <2>0 DEF TypeOK, ActivateReserved
  <2>2. \A o \in Askers : Consistent(o)'
    BY <1>0, <2>0 DEF TypeOK, Consistent, NoLostWakeup, Pending, Principals, ActivateReserved
  <2>4. NoLostWakeup'
    BY <1>0, <2>0 DEF TypeOK, Consistent, NoLostWakeup, Pending, ActivateReserved
  <2> QED
    BY <1>0, <2>0, <2>1, <2>2, <2>4 DEF IInv, ActivateReserved
<1>4. CASE \E l \in Leases : ReleaseReserved(l)
  <2>0. PICK l \in Leases : ReleaseReserved(l)
    BY <1>4
  <2>1. TypeOK'
    BY <1>0, <2>0 DEF TypeOK, ReleaseReserved
  <2>2. \A o \in Askers : Consistent(o)'
    BY <1>0, <2>0 DEF TypeOK, Consistent, NoLostWakeup, Pending, Principals, ReleaseReserved
  <2>4. NoLostWakeup'
    BY <1>0, <2>0 DEF TypeOK, Consistent, NoLostWakeup, Pending, ReleaseReserved
  <2> QED
    BY <1>0, <2>0, <2>1, <2>2, <2>4 DEF IInv, ReleaseReserved
<1>5. CASE \E l \in Leases : Retire(l)
  <2>0. PICK l \in Leases : Retire(l)
    BY <1>5
  <2>1. TypeOK'
    BY ZenonT(60), <1>0, <2>0 DEF TypeOK, Retire, Leave, Woken, WakeUi
  <2>2. \A o \in Askers : Consistent(o)'
    BY <1>0, <2>0 DEF TypeOK, Consistent, NoLostWakeup, Pending, Principals, Retire, Leave, Woken, WakeUi
  <2>4. NoLostWakeup'
    BY <1>0, <2>0 DEF TypeOK, Consistent, NoLostWakeup, Pending, Retire, Leave, Woken, WakeUi
  <2> QED
    BY <1>0, <2>0, <2>1, <2>2, <2>4 DEF IInv, Retire, Leave, Woken, WakeUi
<1>6. CASE Close
  <2>1. TypeOK'
    BY Zenon, <1>0, <1>6 DEF TypeOK, Close, Woken
  <2>2. \A o \in Askers : Consistent(o)'
    BY <1>0, <1>6 DEF TypeOK, Consistent, NoLostWakeup, Pending, Principals, Close, Woken
  <2>4. NoLostWakeup'
    BY <1>0, <1>6 DEF TypeOK, Consistent, NoLostWakeup, Pending, Close, Woken
  <2> QED
    BY <1>0, <1>6, <2>1, <2>2, <2>4 DEF IInv, Close, Woken
<1>7. CASE \E a \in Askers : Capture(a)
  <2>0. PICK a \in Askers : Capture(a)
    BY <1>7
  <2>1. TypeOK'
    BY <1>0, <2>0 DEF TypeOK, Principals, Capture
  <2>2. Consistent(a)'
    BY <1>0, <2>0 DEF TypeOK, Consistent, Pending, Principals, Capture
  <2>3. \A o \in Askers : o # a => Consistent(o)'
    BY <1>0, <2>0 DEF TypeOK, Consistent, Pending, Principals, Capture
  <2>4. NoLostWakeup'
    BY <1>0, <2>0 DEF TypeOK, Consistent, NoLostWakeup, Pending, Capture
  <2> QED
    BY <1>0, <2>0, <2>1, <2>2, <2>3, <2>4 DEF IInv, Capture
<1>8. CASE \E a \in Askers, b \in Sizes : Measure(a, b)
  <2>0. PICK a \in Askers, b \in Sizes : Measure(a, b)
    BY <1>8
  <2>1. TypeOK'
    BY <1>0, <2>0 DEF TypeOK, Measure
  <2>2. Consistent(a)'
    BY <1>0, <2>0 DEF TypeOK, Consistent, Pending, Principals, Measure
  <2>3. \A o \in Askers : o # a => Consistent(o)'
    BY <1>0, <2>0 DEF TypeOK, Consistent, Pending, Principals, Measure
  <2>4. NoLostWakeup'
    BY <1>0, <2>0 DEF TypeOK, Consistent, NoLostWakeup, Pending, Measure
  <2> QED
    BY <1>0, <2>0, <2>1, <2>2, <2>3, <2>4 DEF IInv, Measure
<1>9. CASE \E a \in Askers : Admit(a)
  <2>0. PICK a \in Askers : Admit(a)
    BY <1>9
  <2>1. TypeOK'
    BY ZenonT(60), <1>0, <2>0 DEF TypeOK, Admit, Active, WakeUi
  <2>2. Consistent(a)'
    BY <1>0, <2>0 DEF TypeOK, Consistent, Pending, Principals, Admit, Active, WakeUi
  <2>3. \A o \in Askers : o # a => Consistent(o)'
    BY <1>0, <2>0 DEF TypeOK, Consistent, Pending, Principals, Admit, Active, WakeUi
  <2>4. NoLostWakeup'
    BY <1>0, <2>0 DEF TypeOK, Consistent, NoLostWakeup, Pending, Admit, Active, WakeUi
  <2> QED
    BY <1>0, <2>0, <2>1, <2>2, <2>3, <2>4 DEF IInv, Admit, Active, WakeUi
<1>10. CASE \E a \in Askers : Refuse(a)
  <2>0. PICK a \in Askers : Refuse(a)
    BY <1>10
  <2>1. TypeOK'
    BY <1>0, <2>0 DEF TypeOK, Refuse
  <2>2. Consistent(a)'
    BY <1>0, <2>0 DEF TypeOK, Consistent, Pending, Principals, Refuse
  <2>3. \A o \in Askers : o # a => Consistent(o)'
    BY <1>0, <2>0 DEF TypeOK, Consistent, Pending, Principals, Refuse
  <2>4. NoLostWakeup'
    BY <1>0, <2>0 DEF TypeOK, Consistent, NoLostWakeup, Pending, Refuse
  <2> QED
    BY <1>0, <2>0, <2>1, <2>2, <2>3, <2>4 DEF IInv, Refuse
<1>11. CASE \E a \in Askers : Poll(a)
  <2>0. PICK a \in Askers : Poll(a)
    BY <1>11
  <2>1. TypeOK'
    BY <1>0, <2>0 DEF TypeOK, Poll
  <2>2. Consistent(a)'
    BY <1>0, <2>0 DEF TypeOK, Consistent, Pending, Principals, Poll
  <2>3. \A o \in Askers : o # a => Consistent(o)'
    BY <1>0, <2>0 DEF TypeOK, Consistent, Pending, Principals, Poll
  <2>4. NoLostWakeup'
    BY <1>0, <2>0 DEF TypeOK, Consistent, NoLostWakeup, Pending, Poll
  <2> QED
    BY <1>0, <2>0, <2>1, <2>2, <2>3, <2>4 DEF IInv, Poll
<1>12. CASE \E a \in Askers : Remove(a)
  <2>0. PICK a \in Askers : Remove(a)
    BY <1>12
  <2>1. TypeOK'
    BY ZenonT(60), <1>0, <2>0 DEF TypeOK, Remove, DropPending, Leave, WakeUi
  <2>2. Consistent(a)'
    BY <1>0, <2>0 DEF TypeOK, Consistent, Pending, Principals, Remove, DropPending, Leave, WakeUi
  <2>3. \A o \in Askers : o # a => Consistent(o)'
    BY <1>0, <2>0 DEF TypeOK, Consistent, Pending, Principals, Remove, DropPending, Leave, WakeUi
  <2>4. NoLostWakeup'
    BY <1>0, <2>0 DEF TypeOK, Consistent, NoLostWakeup, Pending, Remove, DropPending, Leave, WakeUi
  <2> QED
    BY <1>0, <2>0, <2>1, <2>2, <2>3, <2>4 DEF IInv, Remove, DropPending, Leave, WakeUi
<1>13. CASE \E a \in Askers : Finish(a)
  <2>0. PICK a \in Askers : Finish(a)
    BY <1>13
  <2>1. TypeOK'
    BY <1>0, <2>0 DEF TypeOK, Finish
  <2>2. Consistent(a)'
    BY <1>0, <2>0 DEF TypeOK, Consistent, Pending, Principals, Finish
  <2>3. \A o \in Askers : o # a => Consistent(o)'
    BY <1>0, <2>0 DEF TypeOK, Consistent, Pending, Principals, Finish
  <2>4. NoLostWakeup'
    BY <1>0, <2>0 DEF TypeOK, Consistent, NoLostWakeup, Pending, Finish
  <2> QED
    BY <1>0, <2>0, <2>1, <2>2, <2>3, <2>4 DEF IInv, Finish
<1>14. CASE \E a \in Askers : DropRequest(a)
  <2>0. PICK a \in Askers : DropRequest(a)
    BY <1>14
  <2>1. TypeOK'
    BY ZenonT(60), <1>0, <2>0 DEF TypeOK, DropRequest, DropPending, Leave, WakeUi
  <2>2. Consistent(a)'
    BY <1>0, <2>0 DEF TypeOK, Consistent, Pending, Principals, DropRequest, DropPending, Leave, WakeUi
  <2>3. \A o \in Askers : o # a => Consistent(o)'
    BY <1>0, <2>0 DEF TypeOK, Consistent, Pending, Principals, DropRequest, DropPending, Leave, WakeUi
  <2>4. NoLostWakeup'
    BY <1>0, <2>0 DEF TypeOK, Consistent, NoLostWakeup, Pending, DropRequest, DropPending, Leave, WakeUi
  <2> QED
    BY <1>0, <2>0, <2>1, <2>2, <2>3, <2>4 DEF IInv, DropRequest, DropPending, Leave, WakeUi
<1>15. CASE Page
  <2>1. TypeOK'
    BY <1>0, <1>15 DEF TypeOK, Page
  <2>2. \A o \in Askers : Consistent(o)'
    BY <1>0, <1>15 DEF TypeOK, Consistent, NoLostWakeup, Pending, Principals, Page
  <2>4. NoLostWakeup'
    BY <1>0, <1>15 DEF TypeOK, Consistent, NoLostWakeup, Pending, Page
  <2> QED
    BY <1>0, <1>15, <2>1, <2>2, <2>4 DEF IInv, Page
<1>16. CASE \E a \in Askers : ShowPrompt(a)
  <2>0. PICK a \in Askers : ShowPrompt(a)
    BY <1>16
  <2>1. TypeOK'
    BY <1>0, <2>0 DEF TypeOK, ShowPrompt
  <2>2. Consistent(a)'
    BY <1>0, <2>0 DEF TypeOK, Consistent, Pending, Principals, ShowPrompt
  <2>3. \A o \in Askers : o # a => Consistent(o)'
    BY <1>0, <2>0 DEF TypeOK, Consistent, Pending, Principals, ShowPrompt
  <2>4. NoLostWakeup'
    BY <1>0, <2>0 DEF TypeOK, Consistent, NoLostWakeup, Pending, ShowPrompt
  <2> QED
    BY <1>0, <2>0, <2>1, <2>2, <2>3, <2>4 DEF IInv, ShowPrompt
<1>17. CASE Sleep
  <2>1. TypeOK'
    BY <1>0, <1>17 DEF TypeOK, Sleep
  <2>2. \A o \in Askers : Consistent(o)'
    BY <1>0, <1>17 DEF TypeOK, Consistent, NoLostWakeup, Pending, Principals, Sleep
  <2>4. NoLostWakeup'
    BY <1>0, <1>17 DEF TypeOK, Consistent, NoLostWakeup, Pending, Sleep
  <2> QED
    BY <1>0, <1>17, <2>1, <2>2, <2>4 DEF IInv, Sleep
<1>18. CASE Watch
  <2>1. TypeOK'
    BY ZenonT(60), <1>0, <1>18 DEF TypeOK, Watch
  <2>2. \A o \in Askers : Consistent(o)'
    BY <1>0, <1>18 DEF TypeOK, Consistent, NoLostWakeup, Pending, Principals, Watch
  <2>4. NoLostWakeup'
    BY <1>0, <1>18 DEF TypeOK, Consistent, NoLostWakeup, Pending, Watch
  <2> QED
    BY <1>0, <1>18, <2>1, <2>2, <2>4 DEF IInv, Watch
<1>19. CASE \E r \in Answers, b \in Sizes : ReplyBegins(r, b)
  <2>0. PICK r \in Answers, b \in Sizes : ReplyBegins(r, b)
    BY <1>19
  <2>1. TypeOK'
    BY <1>0, <2>0 DEF TypeOK, ReplyBegins
  <2>2. \A o \in Askers : Consistent(o)'
    BY <1>0, <2>0 DEF TypeOK, Consistent, NoLostWakeup, Pending, Principals, ReplyBegins
  <2>4. NoLostWakeup'
    BY <1>0, <2>0 DEF TypeOK, Consistent, NoLostWakeup, Pending, ReplyBegins
  <2> QED
    BY <1>0, <2>0, <2>1, <2>2, <2>4 DEF IInv, ReplyBegins
<1>20. CASE Reply
  <2>1. TypeOK'
    BY ZenonT(60), <1>0, <1>20 DEF TypeOK, Reply, Woken, NoDraft
  <2>2. \A o \in Askers : Consistent(o)'
    BY <1>0, <1>20 DEF TypeOK, Consistent, NoLostWakeup, Pending, Principals, Reply, Woken, NoDraft
  <2>4. NoLostWakeup'
    BY <1>0, <1>20 DEF TypeOK, Consistent, NoLostWakeup, Pending, Reply, Woken, NoDraft
  <2> QED
    BY SMTT(90), <1>0, <1>20, <2>1, <2>2, <2>4 DEF IInv, Reply, Woken, NoDraft
<1>21. CASE ReplyFails
  <2>1. TypeOK'
    BY <1>0, <1>21 DEF TypeOK, ReplyFails, NoDraft
  <2>2. \A o \in Askers : Consistent(o)'
    BY ZenonT(60), <1>0, <1>21 DEF TypeOK, Consistent, NoLostWakeup, Pending, Principals, ReplyFails, NoDraft
  <2>4. NoLostWakeup'
    BY SMTT(90), <1>0, <1>21 DEF TypeOK, Consistent, NoLostWakeup, Pending, ReplyFails, NoDraft
  <2> QED
    BY <1>0, <1>21, <2>1, <2>2, <2>4 DEF IInv, ReplyFails, NoDraft
<1>22. CASE UNCHANGED vars
  BY ZenonT(60), <1>0, <1>22 DEF vars, IInv, TypeOK, Consistent, NoLostWakeup, Pending, Principals
<1> QED
  BY <1>1, <1>2, <1>3, <1>4, <1>5, <1>6, <1>7, <1>8, <1>9, <1>10, <1>11, <1>12, <1>13, <1>14, <1>15, <1>16, <1>17, <1>18, <1>19, <1>20, <1>21, <1>22 DEF Next, Asking, Answering

\* What the exchange sees of one request.
SameView(a) == Stage(a)' = Stage(a) /\ AskedBy(a)' = AskedBy(a) /\ Said(a)' = Said(a)

\* A request whose own facts stay is seen unchanged, woken or not.
LEMMA ViewKept ==
  ASSUME NEW a \in Askers, got'[a] = got[a], response'[a] = response[a], key'[a] = key[a],
         pc'[a] = pc[a] \/ (pc[a] = "waiting" /\ pc'[a] = "polling"),
         a \in displayed' <=> a \in displayed, a \in answered' <=> a \in answered
  PROVE  SameView(a)
<1>1. Stage(a)' = Stage(a)
  BY ZenonT(60) DEF Stage
<1>2. Said(a)' = Said(a)
  BY DEF Said
<1> QED
  BY ZenonT(60), <1>1, <1>2 DEF SameView, AskedBy

\* A step the exchange does not see.
LEMMA Unseen ==
  ASSUME \A a \in Askers : SameView(a), Principals' = Principals, Gone' = Gone
  PROVE  UNCHANGED Exchange!exchangeVars
BY DEF SameView, Exchange!exchangeVars

\* A step seen of one request only.
LEMMA SeenOf ==
  ASSUME NEW a \in Askers, \A o \in Askers : o # a => SameView(o)
  PROVE  /\ [o \in Askers |-> Stage(o)]' = [[o \in Askers |-> Stage(o)] EXCEPT ![a] = Stage(a)']
         /\ [o \in Askers |-> AskedBy(o)]' = [[o \in Askers |-> AskedBy(o)] EXCEPT ![a] = AskedBy(a)']
         /\ [o \in Askers |-> Said(o)]' = [[o \in Askers |-> Said(o)] EXCEPT ![a] = Said(a)']
BY Zenon DEF SameView

\* Registrations as the exchange sees them.
LEMMA RegistrationRefines ==
  ASSUME IInv, NEW l \in Leases,
         Register(l) \/ ReserveLease(l) \/ ActivateReserved(l) \/ ReleaseReserved(l) \/ Retire(l)
  PROVE  [Exchange!ExchangeNext]_(Exchange!exchangeVars)
<1> USE DEF IInv, TypeOK
<1>1. \A a \in Askers : SameView(a)
  <2>1. \A a \in Askers : pc'[a] = pc[a] \/ (pc[a] = "waiting" /\ pc'[a] = "polling")
    BY ZenonT(60) DEF Register, ReserveLease, Insert, ActivateReserved, ReleaseReserved, Retire, Woken, askVars
  <2>2. UNCHANGED <<got, response, key, displayed, answered>>
    BY ZenonT(60) DEF Register, ReserveLease, Insert, ActivateReserved, ReleaseReserved, Retire, askVars
  <2> QED
    BY <2>1, <2>2, ViewKept
<1>2. /\ [a \in Askers |-> Stage(a)]' = [a \in Askers |-> Stage(a)]
      /\ [a \in Askers |-> AskedBy(a)]' = [a \in Askers |-> AskedBy(a)]
      /\ [a \in Askers |-> Said(a)]' = [a \in Askers |-> Said(a)]
  BY <1>1 DEF SameView
<1>3. CASE Register(l) \/ ActivateReserved(l)
  <2>1. /\ Principals' = Principals \cup {l} /\ Gone' = Gone /\ l \notin Principals \cup Gone
    BY <1>3 DEF Register, Insert, ActivateReserved, Principals, Gone
  <2>2. Exchange!Appear(l)
    BY <1>2, <2>1 DEF Exchange!Appear
  <2> QED
    BY <2>2 DEF Exchange!ExchangeNext
<1>4. CASE ReserveLease(l) \/ ReleaseReserved(l)
  <2>1. Principals' = Principals /\ Gone' = Gone
    BY <1>4 DEF ReserveLease, Insert, ReleaseReserved, Principals, Gone
  <2> QED
    BY <1>1, <2>1, Unseen
<1>5. CASE Retire(l)
  <2>1. {l} \subseteq Principals /\ Principals' = Principals \ {l} /\ Gone' = Gone \cup {l}
    BY <1>5 DEF Retire, Principals, Gone
  <2>2. Exchange!Vanish({l})
    BY <1>2, <2>1 DEF Exchange!Vanish
  <2> QED
    BY <2>2 DEF Exchange!ExchangeNext
<1> QED
  BY <1>3, <1>4, <1>5

\* The close of the inbox makes every lease of the exchange vanish.
LEMMA CloseRefines == IInv /\ Close => [Exchange!ExchangeNext]_(Exchange!exchangeVars)
<1> SUFFICES ASSUME IInv, Close PROVE [Exchange!ExchangeNext]_(Exchange!exchangeVars)
  OBVIOUS
<1>1. \A a \in Askers : SameView(a)
  <2>1. \A a \in Askers : pc'[a] = pc[a] \/ (pc[a] = "waiting" /\ pc'[a] = "polling")
    BY DEF Close, Woken, IInv, TypeOK
  <2> QED
    BY <2>1, ViewKept DEF Close
<1>2. PICK ls \in SUBSET Leases : ls = Principals
  BY Zenon DEF Principals
<1>3. Principals' = Principals \ ls /\ Gone' = Gone \cup ls
  BY <1>2 DEF Close, Principals, Gone, IInv, TypeOK
<1>4. /\ [a \in Askers |-> Stage(a)]' = [a \in Askers |-> Stage(a)]
      /\ [a \in Askers |-> AskedBy(a)]' = [a \in Askers |-> AskedBy(a)]
      /\ [a \in Askers |-> Said(a)]' = [a \in Askers |-> Said(a)]
  BY <1>1 DEF SameView
<1>5. Exchange!Vanish(ls)
  BY <1>2, <1>3, <1>4 DEF Exchange!Vanish
<1> QED
  BY <1>5 DEF Exchange!ExchangeNext

\* Every way out without an answer is a withdrawal.
LEMMA GivesUp ==
  ASSUME NEW a \in Askers, \A o \in Askers : o # a => SameView(o),
         Stage(a) # "delivered", Stage(a)' = "withdrawn", Said(a)' = None, AskedBy(a)' = AskedBy(a),
         UNCHANGED lease
  PROVE  Exchange!ExchangeNext
<1>1. Exchange!Withdraw(a)
  BY Zenon, SeenOf DEF Exchange!Withdraw, Principals, Gone
<1> QED
  BY <1>1 DEF Exchange!ExchangeNext

\* What an asker does, in terms of the exchange.
LEMMA AskerRefines ==
  ASSUME IInv, NEW a \in Askers, Capture(a) \/ Asking(a) \/ DropRequest(a)
  PROVE  [Exchange!ExchangeNext]_(Exchange!exchangeVars)
<1> USE PromptAssumption DEF inboxVars, askVars
<1>0. TypeOK /\ Consistent(a)
  BY DEF IInv
<1>1. \A o \in Askers : o # a => SameView(o)
  <2>1. /\ UNCHANGED <<displayed, answered>>
        /\ \A o \in Askers : o # a => /\ pc'[o] = pc[o] /\ key'[o] = key[o] /\ got'[o] = got[o]
                                      /\ response'[o] = response[o]
    <3>1. CASE Capture(a) \/ (\E b \in Sizes : Measure(a, b)) \/ Admit(a) \/ Refuse(a)
      BY ZenonT(60), <1>0, <3>1 DEF TypeOK, Capture, Measure, Admit, Refuse
    <3>2. CASE Poll(a)
      BY <1>0, <3>2 DEF TypeOK, Poll
    <3>4. CASE Remove(a)
      BY <1>0, <3>4 DEF TypeOK, Remove, DropPending
    <3>3. CASE Finish(a) \/ DropRequest(a)
      BY ZenonT(60), <1>0, <3>3 DEF TypeOK, Finish, DropRequest, DropPending
    <3> QED
      BY ZenonT(60), <3>1, <3>2, <3>3, <3>4 DEF Asking
  <2> QED
    BY SMTT(90), <2>1, ViewKept
<1>2. UNCHANGED <<lease, displayed, answered>>
  BY ZenonT(60) DEF Capture, Asking, Measure, Admit, Refuse, Poll, Remove, Finish, DropRequest, DropPending
<1>3. Principals' = Principals /\ Gone' = Gone
  BY ZenonT(60), <1>2 DEF Principals, Gone
<1>4. CASE Capture(a) \/ \E b \in Sizes : Measure(a, b)
  <2>1. /\ pc[a] \in {"idle", "captured", "admitting"} /\ pc'[a] \in {"idle", "captured", "admitting"}
        /\ got'[a] = got[a] /\ response'[a] = response[a]
    BY ZenonT(60), <1>0, <1>4 DEF TypeOK, Capture, Measure
  <2>2. SameView(a)
    BY <2>1 DEF SameView, Stage, AskedBy, Said
  <2> QED
    BY ZenonT(60), <1>1, <1>3, <2>2, Unseen
<1>5. CASE Admit(a)
  <2>1. PICK l \in Leases : l = key[a] /\ l \in Principals
    BY <1>5 DEF Admit, Active, Principals
  <2>2. /\ pc[a] = "admitting" /\ pc'[a] = "polling"
        /\ key'[a] = l /\ got'[a] = None /\ response'[a] = None /\ got[a] = None /\ response[a] = None
        /\ a \notin displayed /\ a \notin answered
    BY SMTT(90), <1>0, <1>5, <2>1 DEF TypeOK, Consistent, Admit
  <2>3. Stage(a) = "unasked" /\ Stage(a)' = "asked"
    BY ZenonT(60), <1>2, <2>2 DEF Stage
  <2>4. AskedBy(a)' = l /\ Said(a)' = Said(a)
    BY <2>2, <2>3 DEF AskedBy, Said
  <2>5. Exchange!Ask(a, l)
    BY ZenonT(60), <1>1, <1>3, <2>1, <2>3, <2>4, SeenOf DEF Exchange!Ask
  <2> QED
    BY ZenonT(60), <2>5 DEF Exchange!ExchangeNext
<1>6. CASE Refuse(a)
  <2>1. /\ pc[a] \in {"captured", "admitting"} /\ pc'[a] = "done" /\ key'[a] = None
        /\ got'[a] = "refused"
    BY ZenonT(60), <1>0, <1>6 DEF TypeOK, Refuse
  <2>2. Stage(a) = "unasked" /\ Stage(a)' = "withdrawn"
    BY ZenonT(60), <2>1 DEF Stage
  <2>3. Said(a)' = None /\ AskedBy(a)' = AskedBy(a)
    BY <2>1, <2>2 DEF Said, AskedBy
  <2> QED
    BY Zenon, <1>1, <1>2, <2>2, <2>3, GivesUp
<1>7. CASE Poll(a)
  <2>0. pc[a] \in {"polling", "waiting"} /\ got[a] = None /\ UNCHANGED key
    BY ZenonT(60), <1>0, <1>7 DEF Poll, Consistent
  <2>1. CASE a \notin queue
    <3>1. pc'[a] = "resolved" /\ got'[a] = "gone"
      BY ZenonT(60), <1>0, <1>7, <2>1 DEF Poll, TypeOK
    <3>2. Stage(a) \in {"answered", "shown", "asked"} /\ Stage(a)' = "withdrawn"
      BY ZenonT(60), <2>0, <3>1 DEF Stage
    <3>3. Said(a)' = None /\ AskedBy(a)' = AskedBy(a)
      BY SMTT(90), <2>0, <3>1, <3>2 DEF Said, AskedBy
    <3> QED
      BY ZenonT(60), <1>1, <1>2, <3>2, <3>3, GivesUp
  <2>2. CASE a \in queue /\ response[a] # None
    <3>1. /\ pc'[a] = "resolved" /\ got'[a] = response[a] /\ response[a] \in Answers
          /\ a \in answered
      BY SMTT(90), <1>0, <1>7, <2>2 DEF Poll, TypeOK, Consistent
    <3>2. Stage(a) = "answered" /\ Stage(a)' = "answered"
      BY ZenonT(60), <1>2, <2>0, <3>1 DEF Stage
    <3>3. Said(a)' = Said(a) /\ AskedBy(a)' = AskedBy(a)
      BY SMTT(90), <2>0, <3>1, <3>2 DEF Said, AskedBy
    <3> QED
      BY ZenonT(60), <1>1, <1>3, <3>2, <3>3, Unseen DEF SameView
  <2>3. CASE a \in queue /\ response[a] = None
    <3>1. pc'[a] = "waiting" /\ got'[a] = None /\ response'[a] = None
      BY ZenonT(60), <1>0, <1>7, <2>0, <2>3 DEF Poll, TypeOK
    <3>2. Stage(a)' = Stage(a)
      BY ZenonT(60), <1>2, <2>0, <3>1 DEF Stage
    <3>3. Said(a)' = Said(a) /\ AskedBy(a)' = AskedBy(a)
      BY SMTT(90), <2>0, <2>3, <3>1, <3>2 DEF Said, AskedBy
    <3> QED
      BY ZenonT(60), <1>1, <1>3, <3>2, <3>3, Unseen DEF SameView
  <2> QED
    BY SMTT(90), <2>1, <2>2, <2>3
<1>8. CASE Remove(a)
  <2>1. /\ pc[a] = "resolved" /\ pc'[a] = "removed" /\ UNCHANGED <<key, got, response>>
    BY ZenonT(60), <1>0, <1>8 DEF Remove, DropPending, TypeOK
  <2>2. Stage(a)' = Stage(a)
    BY ZenonT(60), <1>2, <2>1 DEF Stage
  <2>3. SameView(a)
    BY <2>1, <2>2 DEF SameView, Said, AskedBy
  <2> QED
    BY <1>1, <1>3, <2>3, Unseen
<1>9. CASE Finish(a)
  <2>1. /\ pc[a] = "removed" /\ pc'[a] = "done" /\ UNCHANGED <<key, response>>
        /\ got[a] # None /\ got[a] \in Answers \cup {"refused", "gone"}
        /\ got[a] \in Answers => a \in answered
        /\ got'[a] = IF Active(a) THEN got[a] ELSE "gone"
    BY ZenonT(60), <1>0, <1>9 DEF Finish, TypeOK, Consistent
  <2>2. Stage(a) = IF got[a] \in Answers THEN "answered" ELSE "withdrawn"
    BY ZenonT(60), <2>1 DEF Stage
  <2>3. CASE got'[a] \notin Answers
    <3>1. Stage(a)' = "withdrawn"
      BY ZenonT(60), <2>1, <2>3 DEF Stage
    <3>2. Said(a)' = None /\ AskedBy(a)' = AskedBy(a)
      BY SMTT(90), <2>1, <2>2, <2>3, <3>1 DEF Said, AskedBy
    <3> QED
      BY ZenonT(60), <1>1, <1>2, <2>2, <3>1, <3>2, GivesUp
  <2>4. CASE got'[a] \in Answers
    <3>1. Active(a) /\ got'[a] = got[a]
      BY ZenonT(60), <2>1, <2>4
    <3>2. Stage(a) = "answered" /\ Stage(a)' = "delivered"
      BY ZenonT(60), <2>1, <2>2, <2>4, <3>1 DEF Stage
    <3>3. Said(a)' = Said(a) /\ AskedBy(a)' = AskedBy(a) /\ AskedBy(a) \in Principals
      BY SMTT(90), <2>1, <3>1, <3>2 DEF Said, AskedBy, Active
    <3>4. Exchange!Deliver(a)
      BY ZenonT(60), <1>1, <1>3, <3>2, <3>3, SeenOf DEF Exchange!Deliver
    <3> QED
      BY ZenonT(60), <3>4 DEF Exchange!ExchangeNext
  <2> QED
    BY SMTT(90), <2>3, <2>4
<1>10. CASE DropRequest(a)
  <2>1. /\ pc[a] \in {"polling", "waiting"} /\ got[a] = None /\ UNCHANGED key
        /\ pc'[a] = "done" /\ got'[a] = "gone"
    BY ZenonT(60), <1>0, <1>10 DEF DropRequest, TypeOK, Consistent
  <2>2. Stage(a) \in {"answered", "shown", "asked"} /\ Stage(a)' = "withdrawn"
    BY ZenonT(60), <2>1 DEF Stage
  <2>3. Said(a)' = None /\ AskedBy(a)' = AskedBy(a)
    BY <2>1, <2>2 DEF Said, AskedBy
  <2> QED
    BY ZenonT(60), <1>1, <1>2, <2>2, <2>3, GivesUp
<1> QED
  BY <1>4, <1>5, <1>6, <1>7, <1>8, <1>9, <1>10 DEF Asking

\* What the UI task does, in terms of the exchange.
LEMMA UiRefines ==
  ASSUME IInv, Answering \/ Page \/ Watch
  PROVE  [Exchange!ExchangeNext]_(Exchange!exchangeVars)
<1> USE PromptAssumption DEF inboxVars, askVars
<1>0. TypeOK /\ \A a \in Askers : Consistent(a)
  BY SMTT(90) DEF IInv
<1>1. UNCHANGED lease
  BY ZenonT(60) DEF Answering, Page, Watch, ShowPrompt, Sleep, Reply, ReplyFails, ReplyBegins
<1>2. Principals' = Principals /\ Gone' = Gone
  BY SMTT(90), <1>1 DEF Principals, Gone
<1>3. CASE \E a \in Askers : ShowPrompt(a)
  <2>1. PICK a \in Askers : ShowPrompt(a)
    BY <1>3
  <2>2. /\ a \in Pending /\ displayed' = displayed \cup {a}
        /\ UNCHANGED <<pc, key, got, response, answered>>
    BY <2>1 DEF ShowPrompt
  <2>3. /\ pc[a] \in {"polling", "waiting"} /\ got[a] = None /\ key[a] \in Principals
        /\ a \notin answered
    BY SMTT(90), <1>0, <2>2 DEF Consistent, Pending
  <2>4. \A o \in Askers : o # a => SameView(o)
    BY <2>2, ViewKept
  <2>5. Stage(a) \in {"asked", "shown"} /\ Stage(a)' = "shown"
    BY <2>2, <2>3 DEF Stage
  <2>6. AskedBy(a) \in Principals /\ AskedBy(a)' = AskedBy(a) /\ Said(a)' = Said(a)
    BY SMTT(90), <2>2, <2>3, <2>5 DEF AskedBy, Said
  <2>7. Exchange!Show(a)
    BY ZenonT(60), <1>2, <2>4, <2>5, <2>6, SeenOf DEF Exchange!Show
  <2> QED
    BY ZenonT(60), <2>7 DEF Exchange!ExchangeNext
<1>4. CASE Reply
  <2>1. PICK a \in Askers, r \in Answers : a = view /\ r = draft.answer
    BY Zenon, <1>0, <1>4 DEF IInv, Reply, Pending, TypeOK
  <2>2. /\ a \in Pending /\ a \in displayed /\ answered' = answered \cup {a}
        /\ response' = [response EXCEPT ![a] = r]
        /\ UNCHANGED <<key, got, displayed>>
        /\ \A o \in Askers : pc'[o] = pc[o] \/ (pc[o] = "waiting" /\ pc'[o] = "polling")
    BY <1>4, <2>1 DEF Reply, Woken
  <2>3. /\ pc[a] \in {"polling", "waiting"} /\ got[a] = None /\ key[a] \in Principals
        /\ a \notin answered
    BY ZenonT(60), <1>0, <2>2 DEF Consistent, Pending
  <2>4. \A o \in Askers : o # a => SameView(o)
    BY ZenonT(60), <1>0, <2>2, ViewKept DEF TypeOK
  <2>5. Stage(a) = "shown" /\ Stage(a)' = "answered"
    BY ZenonT(60), <2>2, <2>3 DEF Stage
  <2>6. AskedBy(a) \in Principals /\ AskedBy(a)' = AskedBy(a) /\ Said(a)' = r
    BY SMTT(90), <1>0, <2>2, <2>3, <2>5 DEF AskedBy, Said, TypeOK
  <2>7. Exchange!Answer(a, r)
    BY ZenonT(60), <1>2, <2>4, <2>5, <2>6, SeenOf DEF Exchange!Answer
  <2> QED
    BY ZenonT(60), <2>7 DEF Exchange!ExchangeNext
<1>5. CASE ~Reply /\ ~\E a \in Askers : ShowPrompt(a)
  <2>1. UNCHANGED <<pc, key, got, response, displayed, answered>>
    BY Zenon, <1>5 DEF Answering, Page, Watch, Sleep, ReplyFails, ReplyBegins
  <2>2. \A a \in Askers : SameView(a)
    BY <2>1, ViewKept
  <2> QED
    BY <1>2, <2>2, Unseen
<1> QED
  BY <1>3, <1>4, <1>5

\* Every step is a step of the exchange or invisible to it.
LEMMA StepRefines == IInv /\ [Next]_vars => [Exchange!ExchangeNext]_(Exchange!exchangeVars)
<1> SUFFICES ASSUME IInv, [Next]_vars PROVE [Exchange!ExchangeNext]_(Exchange!exchangeVars)
  OBVIOUS
<1>1. CASE UNCHANGED vars
  <2>1. \A a \in Askers : SameView(a)
    BY ZenonT(60), <1>1, ViewKept DEF vars, inboxVars, askVars
  <2> QED
    BY SMTT(90), <1>1, <2>1, Unseen DEF vars, inboxVars, Principals, Gone
<1>2. CASE Next
  BY <1>2, RegistrationRefines, CloseRefines, AskerRefines, UiRefines DEF Next
<1> QED
  BY <1>1, <1>2

\* The exchange begins empty.
LEMMA InitRefines == Init => Exchange!ExchangeInit
BY PromptAssumption DEF Init, Exchange!ExchangeInit, Principals, Gone, Stage, AskedBy, Said

\* The types of inbox, requests and UI task, for any number of askers.
THEOREM TypeCorrect == Spec => []TypeOK
<1>1. IInv => TypeOK
  BY DEF IInv
<1> QED
  BY InitIInv, NextIInv, <1>1, PTL DEF Spec

\* No wakeup is lost, for any number of askers and registrations: a sleeping
\* request is queued, unanswered and holds its waker, a sleeping UI task has
\* nothing to show (poll_prompt, poll_pending, Pending::poll and every removal).
THEOREM WakeupsKept == Spec => []NoLostWakeup
<1>1. IInv => NoLostWakeup
  BY DEF IInv
<1> QED
  BY InitIInv, NextIInv, <1>1, PTL DEF Spec

\* The inbox implements the exchange for any number of askers, registrations
\* and answers: what reaches an asker was accepted once, after it was shown,
\* and while its registration lived (request, reply, retire, close).
THEOREM InboxImplementsExchange == Spec => ImplementsExchange
<1>1. Init /\ [][Next]_vars => []IInv
  BY InitIInv, NextIInv, PTL
<1> QED
  BY <1>1, InitRefines, StepRefines, PTL DEF Spec, ImplementsExchange, Exchange!ExchangeSpec

-----------------------------------------------------------------------------
(* The byte budgets: a total over a set of entries is the number of bytes   *)
(* they are charged, so it is counted.                                      *)

\* What entries may be charged.
Charges == [Askers -> Sizes \cup {0}]

\* The largest charge there can be.
LEMMA ChargeBounds ==
  ASSUME NEW f \in Charges, NEW a \in Askers
  PROVE  f[a] \in Nat /\ 1..f[a] \subseteq 1..PayloadBytes
<1>1. f[a] \in Sizes \cup {0}
  BY Zenon DEF Charges
<1>2. f[a] \in Nat /\ f[a] <= PayloadBytes /\ PayloadBytes \in Nat
  <2>1. PayloadBytes \in Nat /\ \A b \in Sizes : b \in Nat /\ b <= PayloadBytes
    BY Zenon, PromptAssumption
  <2>2. 0 \in Nat /\ \A n \in Nat : 0 <= n
    OBVIOUS
  <2> QED BY Zenon, <1>1, <2>1, <2>2
<1> HIDE DEF Charges
<1>3. \A n, m \in Nat : n <= m => 1..n \subseteq 1..m
  OBVIOUS
<1> QED BY Zenon, <1>2, <1>3

\* The bytes of one entry.
Bytes(f, a) == {a} \X (1..f[a])

\* A byte is charged to one entry.
LEMMA ByteOf ==
  ASSUME NEW f, NEW as, NEW p
  PROVE  p \in Charged(f, as) <=> \E a \in as : p \in Bytes(f, a)
BY Zenon DEF Charged, Bytes

\* The entry is part of the byte.
LEMMA ByteEntry ==
  ASSUME NEW f, NEW a, NEW p \in Bytes(f, a) PROVE p[1] = a
BY DEF Bytes

\* The bytes of finitely many entries are finitely many.
LEMMA ChargedFinite ==
  ASSUME NEW f \in Charges, NEW as \in SUBSET Askers, IsFiniteSet(as)
  PROVE  IsFiniteSet(Charged(f, as)) /\ Total(f, as) \in Nat
<1>1. PayloadBytes \in Int /\ 1 \in Int
  BY PromptAssumption
<1>2. IsFiniteSet(as \X (1..PayloadBytes))
  BY Zenon, <1>1, FS_Interval, FS_Product
<1>3. Charged(f, as) \subseteq as \X (1..PayloadBytes)
  <2> SUFFICES ASSUME NEW p \in Charged(f, as) PROVE p \in as \X (1..PayloadBytes)
    BY Zenon
  <2>1. PICK a \in as : p \in Bytes(f, a)
    BY Zenon, ByteOf
  <2>2. 1..f[a] \subseteq 1..PayloadBytes
    BY Zenon, ChargeBounds
  <2> QED BY Zenon, <2>1, <2>2 DEF Bytes
<1> QED BY Zenon, <1>2, <1>3, FS_Subset, FS_CardinalityType DEF Total

\* No entry, no bytes.
LEMMA TotalNone == ASSUME NEW f PROVE Total(f, {}) = 0
<1>1. Charged(f, {}) = {}
  BY Zenon DEF Charged
<1> QED BY Zenon, <1>1, FS_EmptySet DEF Total

\* One entry is charged its charge.
LEMMA TotalOne ==
  ASSUME NEW f \in Charges, NEW a \in Askers PROVE Total(f, {a}) = f[a]
<1>1. f[a] \in Nat
  BY Zenon, ChargeBounds
<1>2. Charged(f, {a}) = Bytes(f, a)
  <2> DEFINE s == {a}
  <2>1. s = {a}
    BY Zenon
  <2> HIDE DEF s
  <2>2. ASSUME NEW p PROVE p \in Charged(f, s) <=> p \in Bytes(f, a)
    <3>1. p \in Charged(f, s) <=> \E b \in s : p \in Bytes(f, b)
      BY Zenon, ByteOf
    <3> QED BY Zenon, <2>1, <3>1
  <2> QED BY Zenon, <2>1, <2>2
<1> DEFINE n == f[a]
<1> HIDE DEF n
<1>3. n \in Nat
  BY Zenon, <1>1 DEF n
<1>4. IsFiniteSet(1..n) /\ Cardinality(1..n) = n
  <2>1. 1 \in Int /\ n \in Int
    BY <1>3
  <2>2. IsFiniteSet(1..n) /\ Cardinality(1..n) = IF 1 > n THEN 0 ELSE n - 1 + 1
    BY Zenon, <2>1, FS_Interval
  <2> QED BY <1>3, <2>2
<1>5. IsFiniteSet({a}) /\ Cardinality({a}) = 1
  BY Zenon, FS_Singleton
<1>6. Cardinality({a} \X (1..n)) = 1 * n
  BY Zenon, <1>4, <1>5, FS_Product
<1>7. 1 * n = n
  BY <1>3
<1> QED BY Zenon, <1>2, <1>6, <1>7 DEF Total, Bytes, n

\* Entries that leave take exactly their charges with them.
LEMMA TotalSplit ==
  ASSUME NEW f \in Charges, NEW as \in SUBSET Askers, IsFiniteSet(as), NEW out \in SUBSET as
  PROVE  /\ IsFiniteSet(as \ out) /\ IsFiniteSet(out)
         /\ Total(f, as \ out) \in Nat /\ Total(f, out) \in Nat
         /\ Total(f, as) = Total(f, as \ out) + Total(f, out)
<1> DEFINE L == Charged(f, as \ out)
           R == Charged(f, out)
<1>1. IsFiniteSet(as \ out) /\ IsFiniteSet(out)
  BY Zenon, FS_Subset, FS_Difference
<1>2. IsFiniteSet(L) /\ IsFiniteSet(R) /\ Total(f, as \ out) \in Nat /\ Total(f, out) \in Nat
  BY Zenon, <1>1, ChargedFinite
<1>3. Charged(f, as) = L \cup R
  <2>1. ASSUME NEW p PROVE p \in Charged(f, as) <=> p \in L \/ p \in R
    <3>1. /\ p \in Charged(f, as) <=> \E a \in as : p \in Bytes(f, a)
          /\ p \in L <=> \E a \in as \ out : p \in Bytes(f, a)
          /\ p \in R <=> \E a \in out : p \in Bytes(f, a)
      BY Zenon, ByteOf
    <3> QED BY Zenon, <3>1
  <2> QED BY Zenon, <2>1
<1>4. L \cap R = {}
  <2> SUFFICES ASSUME NEW p \in L, p \in R PROVE FALSE
    BY Zenon
  <2>1. PICK a \in as \ out : p \in Bytes(f, a)
    BY Zenon, ByteOf
  <2>2. PICK b \in out : p \in Bytes(f, b)
    BY Zenon, ByteOf
  <2> QED BY Zenon, <2>1, <2>2, ByteEntry
<1>5. Cardinality(L \cup R) = Cardinality(L) + Cardinality(R) - 0
  BY Zenon, <1>2, <1>4, FS_Union, FS_EmptySet
<1>6. \A n, m \in Nat : n + m - 0 = n + m
  OBVIOUS
<1> QED BY Zenon, <1>1, <1>2, <1>3, <1>5, <1>6 DEF Total

\* A total depends on the charges of its entries only.
LEMMA TotalSame ==
  ASSUME NEW f, NEW g, NEW as, \A a \in as : f[a] = g[a]
  PROVE  Total(f, as) = Total(g, as)
<1>1. ASSUME NEW p PROVE p \in Charged(f, as) <=> p \in Charged(g, as)
  <2>1. \A a \in as : Bytes(f, a) = Bytes(g, a)
    BY Zenon DEF Bytes
  <2>2. /\ p \in Charged(f, as) <=> \E a \in as : p \in Bytes(f, a)
        /\ p \in Charged(g, as) <=> \E a \in as : p \in Bytes(g, a)
    BY Zenon, ByteOf
  <2> QED BY Zenon, <2>1, <2>2
<1>2. Charged(f, as) = Charged(g, as)
  BY Zenon, <1>1
<1> QED BY Zenon, <1>2 DEF Total

\* One more entry.
LEMMA TotalAdd ==
  ASSUME NEW f \in Charges, NEW as \in SUBSET Askers, IsFiniteSet(as), NEW a \in Askers, a \notin as
  PROVE  IsFiniteSet(as \cup {a}) /\ Total(f, as \cup {a}) = Total(f, as) + f[a]
<1>1. as \cup {a} \in SUBSET Askers /\ IsFiniteSet(as \cup {a})
  BY Zenon, FS_AddElement
<1>2. {a} \in SUBSET (as \cup {a}) /\ (as \cup {a}) \ {a} = as
  BY Zenon
<1>3. Total(f, as \cup {a}) = Total(f, as) + Total(f, {a})
  <2> DEFINE s == as \cup {a}
             t == {a}
  <2>1. s \in SUBSET Askers /\ IsFiniteSet(s) /\ t \in SUBSET s /\ s \ t = as
    BY Zenon, <1>1, <1>2
  <2> HIDE DEF s, t
  <2>2. Total(f, s) = Total(f, s \ t) + Total(f, t)
    BY Zenon, <2>1, TotalSplit
  <2> QED BY Zenon, <2>1, <2>2 DEF s, t
<1> QED BY Zenon, <1>1, <1>3, TotalOne

\* The totals are exact, the entries finitely many, and an entry without an
\* answer is charged no response.
ChargeInv ==
  /\ IsFiniteSet(queue)
  /\ \A a \in Askers : a \notin answered => rcost[a] = 0
  /\ ChargesExact

\* A step that admits, answers and removes nothing.
LEMMA ChargesKept ==
  ASSUME ChargeInv, UNCHANGED <<queue, answered, cost, rcost, bytes, responseBytes>>
  PROVE  ChargeInv'
BY Zenon DEF ChargeInv, ChargesExact

\* What leaves a budget leaves it within its limit.
LEMMA Lower ==
  ASSUME NEW n \in Nat, NEW k \in Nat, NEW m \in Nat, NEW t, NEW u, t = k + m, u = t - m, t <= n
  PROVE  u = k /\ u <= n
OBVIOUS

\* Entries leave by retirement, by the end of their request or by its drop.
LEMMA LeaveCharges ==
  ASSUME TypeOK, ChargeInv, NEW as, Leave(as), UNCHANGED <<answered, cost, rcost>>
  PROVE  ChargeInv'
<1> DEFINE out == as \cap queue
<1>1. /\ cost \in Charges /\ rcost \in Charges /\ queue \in SUBSET Askers /\ out \in SUBSET queue
      /\ PayloadBytes \in Nat /\ ResponseBytes \in Nat
  BY Zenon, PromptAssumption DEF TypeOK, Charges
<1>2. /\ queue' = queue \ out /\ bytes' = bytes - Total(cost, out)
      /\ responseBytes' = responseBytes - Total(rcost, out)
  BY Zenon DEF Leave
<1> HIDE DEF out
<1>3. /\ IsFiniteSet(queue') /\ Total(cost, queue') \in Nat /\ Total(cost, out) \in Nat
      /\ Total(rcost, queue') \in Nat /\ Total(rcost, out) \in Nat
      /\ Total(cost, queue) = Total(cost, queue') + Total(cost, out)
      /\ Total(rcost, queue) = Total(rcost, queue') + Total(rcost, out)
  BY Zenon, <1>1, <1>2, TotalSplit DEF ChargeInv
<1>4. bytes' = Total(cost, queue') /\ bytes' <= PayloadBytes
  <2>1. PICK k \in Nat, m \in Nat : k = Total(cost, queue') /\ m = Total(cost, out)
    BY Zenon, <1>3
  <2>2. bytes = k + m /\ bytes <= PayloadBytes /\ bytes' = bytes - m
    BY Zenon, <1>2, <1>3, <2>1 DEF ChargeInv, ChargesExact
  <2>3. bytes' = k /\ bytes' <= PayloadBytes
    BY Zenon, <1>1, <2>2, Lower
  <2> QED BY Zenon, <2>1, <2>3
<1>5. responseBytes' = Total(rcost, queue') /\ responseBytes' <= ResponseBytes
  <2>1. PICK k \in Nat, m \in Nat : k = Total(rcost, queue') /\ m = Total(rcost, out)
    BY Zenon, <1>3
  <2>2. responseBytes = k + m /\ responseBytes <= ResponseBytes /\ responseBytes' = responseBytes - m
    BY Zenon, <1>2, <1>3, <2>1 DEF ChargeInv, ChargesExact
  <2>3. responseBytes' = k /\ responseBytes' <= ResponseBytes
    BY Zenon, <1>1, <2>2, Lower
  <2> QED BY Zenon, <2>1, <2>3
<1>6. \A a \in Askers : a \notin answered' => rcost'[a] = 0
  BY Zenon DEF ChargeInv
<1> QED BY Zenon, <1>3, <1>4, <1>5, <1>6 DEF ChargeInv, ChargesExact

\* A payload is measured before its entry exists.
LEMMA MeasureCharges ==
  ASSUME TypeOK, TypeOK', ChargeInv, NEW a \in Askers, Consistent(a), NEW b \in Sizes, Measure(a, b)
  PROVE  ChargeInv'
<1>1. /\ a \notin queue /\ cost' = [cost EXCEPT ![a] = b]
      /\ UNCHANGED <<queue, answered, rcost, bytes, responseBytes>>
  BY Zenon DEF Measure, Consistent
<1>2. \A o \in queue : cost'[o] = cost[o]
  BY Zenon, <1>1 DEF TypeOK
<1>3. Total(cost', queue) = Total(cost, queue)
  BY Zenon, <1>2, TotalSame
<1> QED BY Zenon, <1>1, <1>3 DEF ChargeInv, ChargesExact

\* The admission decides again, on the totals of its own section.
LEMMA AdmitCharges ==
  ASSUME TypeOK, ChargeInv, NEW a \in Askers, Consistent(a), Admit(a) PROVE ChargeInv'
<1>1. /\ a \notin queue /\ a \notin answered /\ queue' = queue \cup {a}
      /\ bytes' = bytes + cost[a] /\ bytes + cost[a] <= PayloadBytes
      /\ UNCHANGED <<answered, cost, rcost, responseBytes>>
  BY Zenon DEF Admit, Consistent
<1>2. cost \in Charges /\ rcost \in Charges /\ queue \in SUBSET Askers
  BY Zenon DEF TypeOK, Charges
<1>3. IsFiniteSet(queue') /\ Total(cost, queue') = Total(cost, queue) + cost[a]
  BY Zenon, <1>1, <1>2, TotalAdd DEF ChargeInv
<1>4. Total(rcost, queue') = Total(rcost, queue)
  <2>1. Total(rcost, queue') = Total(rcost, queue) + 0
    BY Zenon, <1>1, <1>2, TotalAdd DEF ChargeInv
  <2>2. Total(rcost, queue) \in Nat
    BY Zenon, <1>2, ChargedFinite DEF ChargeInv
  <2>3. \A n \in Nat : n + 0 = n
    OBVIOUS
  <2> QED BY Zenon, <2>1, <2>2, <2>3
<1> QED BY Zenon, <1>1, <1>3, <1>4 DEF ChargeInv, ChargesExact

\* A reply charges an entry that was charged none.
LEMMA ReplyCharges ==
  ASSUME TypeOK, TypeOK', ChargeInv, Reply PROVE ChargeInv'
<1> DEFINE n == draft.size
<1>1. /\ view \in queue /\ view \notin answered /\ rcost' = [rcost EXCEPT ![view] = n]
      /\ responseBytes' = responseBytes + n /\ responseBytes + n <= ResponseBytes
      /\ answered' = answered \cup {view} /\ UNCHANGED <<queue, cost, bytes>>
  BY Zenon DEF Reply, Pending
<1> HIDE DEF n
<1>2. /\ rcost \in Charges /\ rcost' \in Charges /\ queue \in SUBSET Askers /\ view \in Askers
      /\ {view} \in SUBSET queue
  BY Zenon, <1>1 DEF TypeOK, Charges
<1>3. rcost'[view] = n /\ rcost[view] = 0 /\ \A o \in Askers \ {view} : rcost'[o] = rcost[o]
  BY Zenon, <1>1, <1>2 DEF ChargeInv, Charges
<1>4. Total(rcost, queue) = Total(rcost, queue \ {view}) + 0
  BY Zenon, <1>2, <1>3, TotalSplit, TotalOne DEF ChargeInv
<1>5. Total(rcost', queue) = Total(rcost', queue \ {view}) + n
  BY Zenon, <1>2, <1>3, TotalSplit, TotalOne DEF ChargeInv
<1>6. Total(rcost', queue \ {view}) = Total(rcost, queue \ {view})
  <2>1. \A o \in queue \ {view} : rcost'[o] = rcost[o]
    BY Zenon, <1>2, <1>3
  <2> QED BY Zenon, <2>1, TotalSame
<1>7. Total(rcost, queue \ {view}) \in Nat
  BY Zenon, <1>2, TotalSplit DEF ChargeInv
<1>8. Total(rcost', queue) = Total(rcost, queue) + n
  <2>1. \A k \in Nat : k + 0 = k
    OBVIOUS
  <2> QED BY Zenon, <1>4, <1>5, <1>6, <1>7, <2>1
<1>9. responseBytes' = Total(rcost', queue') /\ responseBytes' <= ResponseBytes
  BY Zenon, <1>1, <1>8 DEF ChargeInv, ChargesExact
<1>10. \A a \in Askers : a \notin answered' => rcost'[a] = 0
  BY Zenon, <1>1, <1>3 DEF ChargeInv
<1> QED BY Zenon, <1>1, <1>9, <1>10 DEF ChargeInv, ChargesExact

\* A closed inbox holds nothing.
LEMMA CloseCharges == ASSUME ChargeInv, Close PROVE ChargeInv'
<1>1. queue' = {} /\ bytes' = 0 /\ responseBytes' = 0 /\ UNCHANGED <<answered, cost, rcost>>
  BY Zenon DEF Close
<1>2. 0 <= PayloadBytes /\ 0 <= ResponseBytes
  BY PromptAssumption
<1> QED BY Zenon, <1>1, <1>2, TotalNone, FS_EmptySet DEF ChargeInv, ChargesExact

\* Every step keeps the accounts.
LEMMA ChargeStep == IInv /\ IInv' /\ ChargeInv /\ [Next]_vars => ChargeInv'
<1> SUFFICES ASSUME IInv, IInv', ChargeInv, [Next]_vars PROVE ChargeInv'
  BY Zenon
<1>1. TypeOK /\ TypeOK' /\ \A a \in Askers : Consistent(a)
  BY Zenon DEF IInv
<1>2. ASSUME UNCHANGED inboxVars PROVE ChargeInv'
  BY Zenon, <1>2, ChargesKept DEF inboxVars
<1>3. ASSUME NEW l \in Leases, Register(l) \/ ReserveLease(l) \/ ActivateReserved(l) \/ ReleaseReserved(l)
      PROVE  ChargeInv'
  BY Zenon, <1>3, ChargesKept DEF Register, ReserveLease, Insert, ActivateReserved, ReleaseReserved
<1>4. ASSUME NEW l \in Leases, Retire(l) PROVE ChargeInv'
  BY Zenon, <1>1, <1>4, LeaveCharges DEF Retire
<1>5. ASSUME NEW a \in Askers, Remove(a) \/ DropRequest(a) PROVE ChargeInv'
  BY Zenon, <1>1, <1>5, LeaveCharges DEF Remove, DropRequest, DropPending
<1>6. ASSUME NEW a \in Askers, Capture(a) \/ Refuse(a) \/ Finish(a) PROVE ChargeInv'
  BY Zenon, <1>2, <1>6 DEF Capture, Refuse, Finish
<1>7. ASSUME NEW a \in Askers, Poll(a) PROVE ChargeInv'
  BY Zenon, <1>7, ChargesKept DEF Poll
<1>8. ASSUME NEW a \in Askers, NEW b \in Sizes, Measure(a, b) PROVE ChargeInv'
  BY Zenon, <1>1, <1>8, MeasureCharges
<1>9. ASSUME NEW a \in Askers, Admit(a) PROVE ChargeInv'
  BY Zenon, <1>1, <1>9, AdmitCharges
<1>10. ASSUME NEW a \in Askers, ShowPrompt(a) PROVE ChargeInv'
  BY Zenon, <1>10, ChargesKept DEF ShowPrompt
<1>11. CASE Sleep \/ Page \/ Watch \/ ReplyFails
  BY Zenon, <1>2, <1>11 DEF Sleep, Page, Watch, ReplyFails
<1>12. ASSUME NEW r \in Answers, NEW b \in Sizes, ReplyBegins(r, b) PROVE ChargeInv'
  BY Zenon, <1>2, <1>12 DEF ReplyBegins
<1>13. CASE Reply
  BY Zenon, <1>1, <1>13, ReplyCharges
<1>14. CASE Close
  BY Zenon, <1>14, CloseCharges
<1>15. CASE UNCHANGED vars
  BY Zenon, <1>2, <1>15 DEF vars
<1> QED
  BY Zenon, <1>3, <1>4, <1>5, <1>6, <1>7, <1>8, <1>9, <1>10, <1>11, <1>12, <1>13, <1>14, <1>15
  DEF Next, Asking, Answering

\* An empty inbox has charged nothing.
LEMMA InitCharges == Init => ChargeInv
<1> SUFFICES ASSUME Init PROVE ChargeInv
  BY Zenon
<1>1. queue = {} /\ bytes = 0 /\ responseBytes = 0 /\ \A a \in Askers : rcost[a] = 0
  BY Zenon DEF Init
<1>2. 0 <= PayloadBytes /\ 0 <= ResponseBytes
  BY PromptAssumption
<1> QED BY Zenon, <1>1, <1>2, TotalNone, FS_EmptySet DEF ChargeInv, ChargesExact

\* The totals are exactly the charges of the queued entries and within their
\* limits, for any number of askers and any sizes, so no subtraction wraps and
\* no budget leaks (request, reply, remove, retire, close).
THEOREM ChargesStayExact == Spec => []ChargesExact
<1>1. Init => IInv /\ ChargeInv
  BY Zenon, InitIInv, InitCharges
<1>2. IInv /\ ChargeInv /\ [Next]_vars => (IInv /\ ChargeInv)'
  BY Zenon, NextIInv, ChargeStep
<1>3. ChargeInv => ChargesExact
  BY Zenon DEF ChargeInv
<1> QED
  BY <1>1, <1>2, <1>3, PTL DEF Spec
=============================================================================
