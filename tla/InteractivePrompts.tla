------------------------ MODULE InteractivePrompts ------------------------
(***************************************************************************)
(* The native inbox for human prompts: registrations come and go, askers   *)
(* on other threads queue prompts against shared byte budgets and sleep,   *)
(* and one UI task shows prompts, answers them and sleeps on one waker.    *)
(* Every action is one critical section of the inbox mutex, with the wakes *)
(* it sends.  An asker asks once, so it stands for its prompt's token too. *)
(***************************************************************************)
EXTENDS Integers, FiniteSets

CONSTANTS Askers, Leases, Answers, None,
          Owner,           \* [Leases -> the durable owner it registers]
          Sizes,           \* byte charges of payloads and of responses
          MaxPrincipals, MaxPending, PayloadBytes, ResponseBytes

ASSUME PromptAssumption ==
  /\ Sizes \subseteq Nat \ {0} /\ \A b \in Sizes : b <= PayloadBytes /\ b <= ResponseBytes
  /\ PayloadBytes \in Nat /\ ResponseBytes \in Nat
  /\ MaxPending \in Nat /\ MaxPrincipals \in Nat
  /\ None \notin Leases \cup Answers \cup Askers
  /\ (Answers \cup {None}) \cap {"refused", "gone"} = {}

VARIABLES
  closed,     \* the inbox is closed for good
  lease,      \* [Leases -> "fresh" | "reserved" | "live" | "gone" | "lapsed"]
  queue,      \* the entries; select_prompt may take any, so their order is left out
  displayed, answered,          \* the flags of an entry
  response,   \* [Askers -> the accepted answer not yet taken]
  cost, rcost,                  \* [Askers -> the charges of an entry]
  bytes, responseBytes,         \* the two totals kept under the mutex
  wakers,     \* askers whose entry holds a waker
  uiWake,     \* a UI waker is stored
  pc,         \* where each request future stands
  key,        \* [Askers -> the registration captured when the future was made]
  got,        \* [Askers -> what the request resolved to]
  ui,         \* the UI task: "awake", "asleep", "viewing", "watching", "replying", "ended"
  view,       \* the prompt it shows
  draft       \* the response being validated between reply's two sections

inboxVars == <<closed, lease, queue, displayed, answered, response, cost, rcost,
               bytes, responseBytes>>
wakeVars == <<wakers, uiWake>>
askVars == <<pc, key, got>>
uiVars == <<ui, view, draft>>
vars == <<inboxVars, wakeVars, askVars, uiVars>>

NoDraft == [answer |-> None, size |-> 0]
Principals == {l \in Leases : lease[l] = "live"}
Reservations == {l \in Leases : lease[l] = "reserved"}
Pending == queue \ answered
Active(a) == ~closed /\ key[a] \in Principals

\* The two byte totals are what ChargesExact says of them.
TypeOK ==
  /\ closed \in BOOLEAN
  /\ lease \in [Leases -> {"fresh", "reserved", "live", "gone", "lapsed"}]
  /\ queue \subseteq Askers /\ displayed \subseteq Askers /\ answered \subseteq Askers
  /\ response \in [Askers -> Answers \cup {None}]
  /\ cost \in [Askers -> Sizes \cup {0}] /\ rcost \in [Askers -> Sizes \cup {0}]
  /\ wakers \subseteq Askers /\ uiWake \in BOOLEAN
  /\ pc \in [Askers -> {"idle", "captured", "admitting", "polling", "waiting", "resolved",
                        "removed", "done"}]
  /\ key \in [Askers -> Leases \cup {None}]
  /\ got \in [Askers -> Answers \cup {None, "refused", "gone"}]
  /\ ui \in {"awake", "asleep", "viewing", "watching", "replying", "ended"}
  /\ view \in Askers \cup {None}
  /\ draft \in [answer : Answers \cup {None}, size : Sizes \cup {0}]

Init ==
  /\ closed = FALSE /\ lease = [l \in Leases |-> "fresh"]
  /\ queue = {} /\ displayed = {} /\ answered = {}
  /\ response = [a \in Askers |-> None]
  /\ cost = [a \in Askers |-> 0] /\ rcost = [a \in Askers |-> 0]
  /\ bytes = 0 /\ responseBytes = 0 /\ wakers = {} /\ uiWake = FALSE
  /\ pc = [a \in Askers |-> "idle"] /\ key = [a \in Askers |-> None]
  /\ got = [a \in Askers |-> None]
  /\ ui = "awake" /\ view = None /\ draft = NoDraft

(***************************************************************************)
(* Wakers and removal.                                                     *)
(***************************************************************************)
\* Entries give up their wakers: a sleeping asker is scheduled again.
Woken(as) == [a \in Askers |-> IF a \in as \cap wakers /\ pc[a] = "waiting" THEN "polling" ELSE pc[a]]

\* The stored UI waker is taken and woken.
WakeUi ==
  /\ uiWake' = FALSE
  /\ ui' = IF uiWake /\ ui = "asleep" THEN "awake"
           ELSE IF uiWake /\ ui = "watching" THEN "viewing" ELSE ui

\* What entries are charged together, counted byte by byte.
Charged(charge, as) == UNION {{a} \X (1..charge[a]) : a \in as}
Total(charge, as) == Cardinality(Charged(charge, as))

\* A mutant: the response's charge stays behind.
LeaveKeepsResponse(as) ==
  LET out == as \cap queue IN
  /\ queue' = queue \ out
  /\ bytes' = bytes - Total(cost, out)
  /\ wakers' = wakers \ out
  /\ UNCHANGED responseBytes

\* Entries leave the queue with their charges; their wakers are dropped or woken.
Leave(as) ==
  LET out == as \cap queue IN
  /\ queue' = queue \ out
  /\ bytes' = bytes - Total(cost, out)
  /\ responseBytes' = responseBytes - Total(rcost, out)
  /\ wakers' = wakers \ out

(***************************************************************************)
(* Registrations.                                                          *)
(***************************************************************************)
\* insert_principal: a successor may reserve while its owner is live, never register.
Insert(l, state) ==
  /\ ~closed /\ lease[l] = "fresh"
  /\ Cardinality(Principals \cup Reservations) < MaxPrincipals
  /\ state = "live" => \A p \in Principals : Owner[p] # Owner[l]
  /\ \A r \in Reservations : Owner[r] # Owner[l]
  /\ lease' = [lease EXCEPT ![l] = state]
  /\ UNCHANGED <<closed, queue, displayed, answered, response, cost, rcost, bytes,
                 responseBytes, wakeVars, askVars, uiVars>>

Register(l) == Insert(l, "live")
ReserveLease(l) == Insert(l, "reserved")

ActivateReserved(l) ==
  /\ ~closed /\ lease[l] = "reserved"
  /\ \A p \in Principals : Owner[p] # Owner[l]
  /\ lease' = [lease EXCEPT ![l] = "live"]
  /\ UNCHANGED <<closed, queue, displayed, answered, response, cost, rcost, bytes,
                 responseBytes, wakeVars, askVars, uiVars>>

ReleaseReserved(l) ==
  /\ lease[l] = "reserved"
  /\ lease' = [lease EXCEPT ![l] = "lapsed"]
  /\ UNCHANGED <<closed, queue, displayed, answered, response, cost, rcost, bytes,
                 responseBytes, wakeVars, askVars, uiVars>>

\* Retirement takes the registration's prompts with it, answers included.
Retire(l) ==
  LET own == {a \in queue : key[a] = l} IN
  /\ lease[l] = "live"
  /\ lease' = [lease EXCEPT ![l] = "gone"]
  /\ Leave(own) /\ pc' = Woken(own) /\ WakeUi
  /\ UNCHANGED <<closed, displayed, answered, response, cost, rcost, key, got, view, draft>>

\* The inbox is closed, or dropped, by the UI task that owns it.
Close ==
  /\ ui \notin {"ended", "replying"}
  /\ closed' = TRUE
  /\ lease' = [l \in Leases |-> CASE lease[l] = "live" -> "gone"
                                  [] lease[l] = "reserved" -> "lapsed"
                                  [] OTHER -> lease[l]]
  /\ queue' = {} /\ bytes' = 0 /\ responseBytes' = 0
  /\ wakers' = wakers \ queue /\ pc' = Woken(queue)
  /\ uiWake' = FALSE /\ ui' = "ended" /\ view' = None
  /\ UNCHANGED <<displayed, answered, response, cost, rcost, key, got, draft>>

(***************************************************************************)
(* Askers: Bridge::prompt and Shared::request.                             *)
(***************************************************************************)
\* capture: the live registration of the asker's owner when the future is made;
\* an asker whose owner has none gets none, now or later.
Capture(a) ==
  /\ pc[a] = "idle"
  /\ \E l \in Principals \cup {None} : key' = [key EXCEPT ![a] = l]
  /\ pc' = [pc EXCEPT ![a] = "captured"]
  /\ UNCHANGED <<inboxVars, wakeVars, got, uiVars>>

\* The first section finds room, and the payload is measured against it.
Measure(a, b) ==
  /\ pc[a] = "captured" /\ Active(a)
  /\ Cardinality(queue) < MaxPending
  /\ b <= PayloadBytes - bytes
  /\ cost' = [cost EXCEPT ![a] = b]
  /\ pc' = [pc EXCEPT ![a] = "admitting"]
  /\ UNCHANGED <<closed, lease, queue, displayed, answered, response, rcost, bytes,
                 responseBytes, wakeVars, key, got, uiVars>>

\* A mutant: the prompt is queued and the UI is not told.
AdmitSilently(a) ==
  /\ pc[a] = "admitting" /\ Active(a)
  /\ Cardinality(queue) < MaxPending
  /\ bytes + cost[a] <= PayloadBytes
  /\ queue' = queue \cup {a} /\ bytes' = bytes + cost[a]
  /\ pc' = [pc EXCEPT ![a] = "polling"]
  /\ UNCHANGED <<closed, lease, displayed, answered, response, cost, rcost, responseBytes,
                 wakeVars, key, got, uiVars>>

\* The second section decides again and queues the prompt.
Admit(a) ==
  /\ pc[a] = "admitting" /\ Active(a)
  /\ Cardinality(queue) < MaxPending
  /\ bytes + cost[a] <= PayloadBytes
  /\ queue' = queue \cup {a} /\ bytes' = bytes + cost[a]
  /\ pc' = [pc EXCEPT ![a] = "polling"]
  /\ WakeUi
  /\ UNCHANGED <<closed, lease, displayed, answered, response, cost, rcost, responseBytes,
                 wakers, key, got, view, draft>>

\* Either section refuses.
Refuse(a) ==
  /\ \/ /\ pc[a] = "captured"
        /\ \/ ~Active(a) \/ Cardinality(queue) >= MaxPending
           \/ \E b \in Sizes : b > PayloadBytes - bytes
     \/ /\ pc[a] = "admitting"
        /\ \/ ~Active(a) \/ Cardinality(queue) >= MaxPending
           \/ bytes + cost[a] > PayloadBytes
  /\ pc' = [pc EXCEPT ![a] = "done"] /\ key' = [key EXCEPT ![a] = None]
  /\ got' = [got EXCEPT ![a] = "refused"]
  /\ UNCHANGED <<inboxVars, wakeVars, uiVars>>

\* Pending::poll, scheduled by a wake or spurious.
Poll(a) ==
  /\ pc[a] \in {"polling", "waiting"}
  /\ IF a \notin queue
       THEN /\ got' = [got EXCEPT ![a] = "gone"]
            /\ pc' = [pc EXCEPT ![a] = "resolved"]
            /\ UNCHANGED <<response, wakers>>
     ELSE IF response[a] # None
       THEN /\ got' = [got EXCEPT ![a] = response[a]]
            /\ response' = [response EXCEPT ![a] = None]
            /\ pc' = [pc EXCEPT ![a] = "resolved"]
            /\ UNCHANGED wakers
     ELSE /\ wakers' = wakers \cup {a}
          /\ pc' = [pc EXCEPT ![a] = "waiting"]
          /\ UNCHANGED <<got, response>>
  /\ UNCHANGED <<closed, lease, queue, displayed, answered, cost, rcost, bytes,
                 responseBytes, uiWake, key, uiVars>>

\* Pending::drop: the entry is removed and the UI told, if it was still there.
DropPending(a) ==
  /\ Leave({a})
  /\ IF a \in queue THEN WakeUi ELSE UNCHANGED <<uiWake, ui>>
  /\ UNCHANGED <<closed, lease, displayed, answered, response, cost, rcost, view, draft>>

Remove(a) ==
  /\ pc[a] = "resolved"
  /\ DropPending(a)
  /\ pc' = [pc EXCEPT ![a] = "removed"]
  /\ UNCHANGED <<key, got>>

\* A mutant: the answer taken is returned as it is.
FinishUnchecked(a) ==
  /\ pc[a] = "removed"
  /\ pc' = [pc EXCEPT ![a] = "done"]
  /\ UNCHANGED <<inboxVars, wakeVars, key, got, uiVars>>

\* The last look: an answer is discarded when the registration is gone by now.
Finish(a) ==
  /\ pc[a] = "removed"
  /\ got' = IF Active(a) THEN got ELSE [got EXCEPT ![a] = "gone"]
  /\ pc' = [pc EXCEPT ![a] = "done"]
  /\ UNCHANGED <<inboxVars, wakeVars, key, uiVars>>

\* The future is dropped between two polls.
DropRequest(a) ==
  /\ pc[a] \in {"polling", "waiting"}
  /\ DropPending(a)
  /\ pc' = [pc EXCEPT ![a] = "done"] /\ got' = [got EXCEPT ![a] = "gone"]
  /\ UNCHANGED key

(***************************************************************************)
(* The UI task, sole user of the inbox.                                    *)
(***************************************************************************)
\* page stores the UI waker and changes nothing else.
Page ==
  /\ ui = "awake" /\ ~closed
  /\ uiWake' = TRUE
  /\ UNCHANGED <<inboxVars, wakers, askVars, uiVars>>

\* poll_prompt or select_prompt shows an unanswered prompt.
ShowPrompt(a) ==
  /\ ui = "awake" /\ a \in Pending
  /\ displayed' = displayed \cup {a}
  /\ ui' = "viewing" /\ view' = a
  /\ UNCHANGED <<closed, lease, queue, answered, response, cost, rcost, bytes,
                 responseBytes, wakeVars, askVars, draft>>

\* poll_prompt finds none and sleeps.
Sleep ==
  /\ ui = "awake" /\ ~closed /\ Pending = {}
  /\ uiWake' = TRUE /\ ui' = "asleep"
  /\ UNCHANGED <<inboxVars, wakers, askVars, view, draft>>

\* poll_pending: wait while the prompt shown is pending, else take it down.
Watch ==
  /\ ui = "viewing"
  /\ IF view \in Pending
       THEN uiWake' = TRUE /\ ui' = "watching" /\ UNCHANGED view
       ELSE ui' = "awake" /\ view' = None /\ UNCHANGED uiWake
  /\ UNCHANGED <<inboxVars, wakers, askVars, draft>>

\* reply and cancel, first section: the prompt is looked up, the response validated.
ReplyBegins(r, b) ==
  /\ ui \in {"viewing", "watching"}
  /\ IF view \in Pending \cap displayed
       THEN ui' = "replying" /\ draft' = [answer |-> r, size |-> b] /\ UNCHANGED view
       ELSE ui' = "awake" /\ view' = None /\ UNCHANGED draft
  /\ UNCHANGED <<inboxVars, wakeVars, askVars>>

\* A mutant: the answer is stored and its asker is not woken.
ReplySilently ==
  /\ ui = "replying"
  /\ view \in Pending \cap displayed
  /\ responseBytes + draft.size <= ResponseBytes
  /\ response' = [response EXCEPT ![view] = draft.answer]
  /\ answered' = answered \cup {view}
  /\ rcost' = [rcost EXCEPT ![view] = draft.size]
  /\ responseBytes' = responseBytes + draft.size
  /\ wakers' = wakers \ {view}
  /\ uiWake' = FALSE /\ ui' = "awake" /\ view' = None /\ draft' = NoDraft
  /\ UNCHANGED <<closed, lease, queue, displayed, cost, bytes, askVars>>

\* Second section: everything is checked again before the answer is accepted.
Reply ==
  /\ ui = "replying"
  /\ view \in Pending \cap displayed
  /\ responseBytes + draft.size <= ResponseBytes
  /\ response' = [response EXCEPT ![view] = draft.answer]
  /\ answered' = answered \cup {view}
  /\ rcost' = [rcost EXCEPT ![view] = draft.size]
  /\ responseBytes' = responseBytes + draft.size
  /\ pc' = Woken({view}) /\ wakers' = wakers \ {view}
  /\ uiWake' = FALSE /\ ui' = "awake" /\ view' = None /\ draft' = NoDraft
  /\ UNCHANGED <<closed, lease, queue, displayed, cost, bytes, key, got>>

ReplyFails ==
  /\ ui = "replying"
  /\ \/ view \notin Pending /\ ui' = "awake" /\ view' = None
     \/ view \in Pending /\ responseBytes + draft.size > ResponseBytes
        /\ ui' = "viewing" /\ UNCHANGED view
  /\ draft' = NoDraft
  /\ UNCHANGED <<inboxVars, wakeVars, askVars>>
----------------------------------------------------------------------------
Asking(a) ==
  \/ (\E b \in Sizes : Measure(a, b)) \/ Admit(a) \/ Refuse(a)
  \/ Poll(a) \/ Remove(a) \/ Finish(a)

Answering ==
  \/ (\E a \in Askers : ShowPrompt(a)) \/ Sleep \/ Reply \/ ReplyFails
  \/ \E r \in Answers, b \in Sizes : ReplyBegins(r, b)

Next ==
  \/ \E l \in Leases : Register(l) \/ ReserveLease(l) \/ ActivateReserved(l)
                       \/ ReleaseReserved(l) \/ Retire(l)
  \/ \E a \in Askers : Capture(a) \/ Asking(a) \/ DropRequest(a)
  \/ Answering \/ Page \/ Watch \/ Close

Spec == Init /\ [][Next]_vars

\* An executor polls a future that was woken, and the UI task goes on when it
\* is awake: the person at the prompt answers or cancels in the end.
FairSpec ==
  /\ Spec
  /\ \A a \in Askers : WF_vars(pc[a] \notin {"captured", "waiting"} /\ Asking(a))
  /\ WF_vars(Answering)
----------------------------------------------------------------------------
(***************************************************************************)
(* Properties                                                              *)
(***************************************************************************)
\* The two totals are exactly what the queued entries are charged, and stay
\* within their limits, whatever path an entry leaves by; so the unchecked
\* subtractions never wrap and the budgets never leak.
ChargesExact ==
  /\ bytes = Total(cost, queue) /\ bytes <= PayloadBytes
  /\ responseBytes = Total(rcost, queue)
  /\ responseBytes <= ResponseBytes

\* Nobody sleeps on something that has happened: a sleeping asker's entry is
\* queued, unanswered and holds its waker; a sleeping UI has no prompt to show
\* and one that watches a prompt still has that prompt pending.
NoLostWakeup ==
  /\ \A a \in Askers : pc[a] = "waiting" => a \in Pending \cap wakers
  /\ ui = "asleep" => uiWake /\ Pending = {}
  /\ ui = "watching" => uiWake /\ view \in Pending

\* A request as the exchange sees it.
Stage(a) ==
  IF pc[a] \in {"idle", "captured", "admitting"} THEN "unasked"
  ELSE IF got[a] \in {"gone", "refused"} THEN "withdrawn"
  ELSE IF pc[a] = "done" THEN "delivered"
  ELSE IF a \in answered THEN "answered"
  ELSE IF a \in displayed THEN "shown" ELSE "asked"

Gone == {l \in Leases : lease[l] = "gone"}
AskedBy(a) == IF Stage(a) = "unasked" THEN None ELSE key[a]
Said(a) == CASE got[a] = None -> response[a] [] got[a] \in Answers -> got[a] [] OTHER -> None

Exchange == INSTANCE PromptExchange WITH
  live <- Principals, gone <- Gone, stage <- [a \in Askers |-> Stage(a)],
  asker <- [a \in Askers |-> AskedBy(a)], said <- [a \in Askers |-> Said(a)]

\* The inbox implements the exchange it promises its sessions (PromptExchange):
\* an answer is accepted once, for a prompt that was shown, and reaches its
\* asker only while the registration that asked still lives.
ImplementsExchange == Exchange!ExchangeSpec

\* Every admitted prompt is answered or withdrawn in the end: no order of
\* showing, answering, retiring and sleeping strands an asker.
PromptsResolve == \A a \in Askers : a \in queue ~> pc[a] = "done"
=============================================================================
