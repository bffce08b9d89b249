--------------------------- MODULE MailboxPointer ---------------------------
(***************************************************************************)
(* How a coordinator at its prompt is told of mail: the runtime types a    *)
(* pointer, "you have mail, run check", into its terminal                  *)
(* (mailbox-pointer-delivery.ts, -state.ts, -submit.ts).                   *)
(*                                                                         *)
(* The text is written, half a second later the runtime looks again and    *)
(* presses Enter.  Between these steps mail arrives, a check reads what    *)
(* was announced, the agent goes to work, the Run moves to another pane,   *)
(* the terminal exits and comes back under the same id.  A flight is one   *)
(* such attempt; a terminal has one at a time.  The watermark of a mailbox *)
(* is the flight that announces its mail.                                  *)
(*                                                                         *)
(* A Faulty... operator is the definition below it with a mistake in it.   *)
(***************************************************************************)
EXTENDS Naturals, FiniteSets

CONSTANTS
  Run,
  Pane,         \* terminal panes; a pane that respawns keeps its terminal id
  Type,         \* message types
  NoRun, NoPane,
  Bound,        \* the pane each Run is bound to at first
  BatchLimit,   \* ORCHESTRATION_DELIVERY_BATCH_LIMIT
  MaxMessages,  \* bound: messages
  MaxFlights,   \* bound: flights whose callbacks are pending at once
  MaxFaults,    \* bound: exits of terminals and restarts of the runtime
  MaxMoves,     \* bound: times a Run is bound to a pane
  Ops           \* the optional events that occur

Msg == 1 .. MaxMessages
Slot == 1 .. MaxFlights

ASSUME MailboxPointerAssumption ==
  /\ NoRun \notin Run /\ NoPane \notin Pane /\ "none" \notin Type
  /\ Bound \in [Run -> Pane \cup {NoPane}]
  /\ \A q, r \in Run : Bound[q] = Bound[r] => q = r \/ Bound[q] = NoPane
  /\ {BatchLimit, MaxMessages, MaxFlights} \subseteq Nat \ {0}
  /\ {MaxFaults, MaxMoves} \subseteq Nat
  /\ Ops \subseteq { "cursor",        \* a pane shows the title of a Cursor agent,
                     "reject",        \* a live terminal refuses a write,
                     "late_mail",     \* mail reaches a mailbox out of sequence,
                     "idle_call",     \* agents call while their pane looks idle,
                     "overtake",      \* a Run moves while a write or probe is out
                     "late_answer" } \* an answer for a terminal that exited counts

VARIABLES
  msgRun, msgType,  \* messages in the mailboxes of Runs, by sequence number
  read,             \* ... read
  delivered,        \* ... with delivered_at
  lease,            \* the mail of each Run's outstanding Delivery
  waiter,           \* the types each Run's waiting check asks for; {} is no check
  owner,            \* the pane each Run is bound to
  alive,            \* panes whose process runs
  writable,         \* ... as far as the runtime knows
  idle,             \* lastAgentStatus is idle, and was observed live
  flight,           \* flightsByPtyId; 0 is none
  act,              \* the callbacks pending of each flight
  mark,             \* watermarkByMailbox
  parked,           \* parkedDeliveriesByPtyId: {} or {reserved types}
  redelivery,       \* parkedTypesByMailbox: {} or {reserved types}
  probing,          \* the mailbox whose delivery waits for the probe of the pane
  repoint,          \* Runs with a timer in MailPointerRepointScheduler
  todo,             \* deliveries this segment still has to make
  typed,            \* pointers in the prompt of each pane, not submitted
  told,             \* messages for whose pointer Enter was pressed in its process
  faults, moves     \* counters for the bounds

mailVars == <<msgRun, msgType, read, lease, waiter>>
paneVars == <<alive, writable, idle>>
stateVars == <<flight, act, mark, parked, redelivery>>
shown == <<typed, told>>
bounds == <<faults, moves>>
vars == <<mailVars, delivered, owner, paneVars, stateVars, probing, repoint, todo, shown, bounds>>

Phase == {"writing", "staged", "probing", "entering"}
Flight == [phase : Phase, pane : Pane, run : Run, msgs : (SUBSET Msg) \ {{}}, ok : BOOLEAN]
Done == [phase |-> "done", pane |-> NoPane, run |-> NoRun, msgs |-> {}, ok |-> FALSE]

Mark == [pane : Pane, seq : Msg, active : BOOLEAN]
NoMark == [pane |-> NoPane, seq |-> 0, active |-> FALSE]

\* A delivery to make: into a pane, or into whatever pane the Run has then.
Job == [run : Run, pane : Pane \cup {NoPane}, reserved : SUBSET Type, probed : BOOLEAN]
JobFor(r, p, R) == [run |-> r, pane |-> p, reserved |-> R, probed |-> FALSE]

TypeOK ==
  /\ msgRun \in [Msg -> Run \cup {NoRun}]
  /\ msgType \in [Msg -> Type \cup {"none"}]
  /\ {read, delivered} \subseteq SUBSET Msg
  /\ lease \in [Run -> SUBSET Msg]
  /\ waiter \in [Run -> SUBSET Type]
  /\ owner \in [Run -> Pane \cup {NoPane}]
  /\ {alive, writable, idle} \subseteq SUBSET Pane
  /\ flight \in [Pane -> Slot \cup {0}]
  /\ act \in [Slot -> Flight \cup {Done}]
  /\ mark \in [Run -> Mark \cup {NoMark}]
  /\ parked \in [Pane -> [Run -> SUBSET SUBSET Type]]
  /\ redelivery \in [Run -> SUBSET SUBSET Type]
  /\ probing \in [Pane -> Run \cup {NoRun}]
  /\ repoint \in SUBSET Run
  /\ todo \in SUBSET Job
  /\ typed \in [Pane -> SUBSET Msg]
  /\ told \in [Pane -> SUBSET Msg]
  /\ faults \in Nat /\ moves \in Nat

Init ==
  /\ msgRun = [m \in Msg |-> NoRun] /\ msgType = [m \in Msg |-> "none"]
  /\ read = {} /\ delivered = {}
  /\ lease = [r \in Run |-> {}] /\ waiter = [r \in Run |-> {}]
  /\ owner = Bound
  /\ alive = Pane /\ writable = Pane /\ idle = {}
  /\ flight = [p \in Pane |-> 0]
  /\ act = [k \in Slot |-> Done]
  /\ mark = [r \in Run |-> NoMark]
  /\ parked = [p \in Pane |-> [r \in Run |-> {}]]
  /\ redelivery = [r \in Run |-> {}]
  /\ probing = [p \in Pane |-> NoRun]
  /\ repoint = {} /\ todo = {}
  /\ typed = [p \in Pane |-> {}] /\ told = [p \in Pane |-> {}]
  /\ faults = 0 /\ moves = 0

-----------------------------------------------------------------------------
(***************************************************************************)
(* Helpers.                                                                *)
(***************************************************************************)
Unread(r) == { m \in Msg : msgRun[m] = r /\ m \notin read }
OfTypes(S, T) == { m \in S : msgType[m] \in T }
Oldest(S) == { m \in S : Cardinality({ n \in S : n < m }) < BatchLimit }
Newest(S) == CHOOSE m \in S : \A n \in S : n <= m

\* Announces what was announced already.
FaultyBatch(r, R) == Oldest(Unread(r) \ OfTypes(Unread(r), R \cup waiter[r]))

\* What getUndeliveredUnreadMessages returns, less what waiting checks ask for.
Batch(r, R) == Oldest((Unread(r) \ delivered) \ OfTypes(Unread(r), R \cup waiter[r]))

\* Any flight of the terminal will do.
FaultyCurrent(k) == flight[act[k].pane] # 0

Current(k) == flight[act[k].pane] = k

\* Two deliveries parked for one mailbox are one: with the reservations of both,
\* or with none if one has none.
Merge(P, S) == { IF Q = {} \/ R = {} THEN {} ELSE Q \cup R : Q \in IF P = {} THEN S ELSE P, R \in S }

\* The handlers run to the end of their microtasks before anything else.
Quiet == todo = {}

\* redrive: the mailbox is delivered again if anything was parked, or by force.
Redrive(re, r, force) ==
  [ redelivery |-> [re EXCEPT ![r] = {}],
    jobs |-> { JobFor(r, NoPane, R) : R \in IF re[r] = {} /\ force THEN {{}} ELSE re[r] } ]

\* Drops what was parked.
FaultySettle(re, k) == [redelivery |-> re, jobs |-> {}]

\* settle: what was parked behind the flight k is delivered, here or, if its
\* Run has moved, there.  A flight that was retired has nothing behind it.
Settle(re, k) ==
  LET p == act[k].pane
      behind == IF Current(k) THEN { r \in Run : parked[p][r] # {} } ELSE {}
      moved == { r \in behind : owner[r] # p }
  IN [ redelivery |-> [r \in Run |-> IF r \in moved THEN {} ELSE re[r]],
       jobs |-> UNION { IF r \in moved
                        THEN { JobFor(r, NoPane, R) : R \in Merge(re[r], parked[p][r]) }
                        ELSE { JobFor(r, p, R) : R \in parked[p][r] } : r \in behind } ]

\* Leaves what was parked behind.
FaultyEndFlight(k) ==
  /\ act' = [act EXCEPT ![k] = Done]
  /\ flight' = [flight EXCEPT ![act[k].pane] = IF @ = k THEN 0 ELSE @]
  /\ UNCHANGED parked

\* The flight k has no callback left.
EndFlight(k) ==
  LET p == act[k].pane
  IN /\ act' = [act EXCEPT ![k] = Done]
     /\ flight' = [flight EXCEPT ![p] = IF @ = k THEN 0 ELSE @]
     /\ parked' = [parked EXCEPT ![p] = IF Current(k) THEN [r \in Run |-> {}] ELSE @]

-----------------------------------------------------------------------------
(***************************************************************************)
(* Delivery.  A delivery that cannot be made is parked where the end of    *)
(* what is in its way finds it, or dropped for a later idle edge.          *)
(***************************************************************************)
Clear(r, p) == lease[r] = {} /\ flight[p] = 0 /\ ~mark[r].active

\* releaseSupersededWatermark: the prompt of p may still show the pointer to n.
Superseded(r, p, n) == n > mark[r].seq \/ mark[r].pane # p

Release(r, n) == mark' = IF n > mark[r].seq THEN mark ELSE [mark EXCEPT ![r] = NoMark]

\* stagePointer: a new flight, and its text on the way to the terminal.
Stage(r, p, B) ==
  \E k \in Slot, ok \in BOOLEAN :
    /\ act[k].phase = "done" /\ \A j \in Slot : act[j].phase = "done" => k <= j
    /\ ok \/ "reject" \in Ops
    /\ act' = [act EXCEPT ![k] =
         [phase |-> "writing", pane |-> p, run |-> r, msgs |-> B, ok |-> ok]]
    /\ flight' = [flight EXCEPT ![p] = k]
    /\ typed' = [typed EXCEPT ![p] = IF ok /\ p \in alive THEN @ \cup B ELSE @]
    /\ UNCHANGED <<parked, redelivery, probing, told>>

\* OrchestrationMailboxPointerDelivery.deliver.
Deliver(r, p, R, probed) ==
  LET B == Batch(r, R)
      n == Newest(B)
      ready == Clear(r, p) /\ B # {} /\ p \in writable /\ Superseded(r, p, n)
  IN \/ /\ ~ready
        /\ lease[r] # {} \/ (flight[p] = 0 /\ ~mark[r].active)
        /\ UNCHANGED <<stateVars, probing, shown>>
     \/ /\ lease[r] = {} /\ flight[p] # 0
        /\ parked' = [parked EXCEPT ![p][r] = Merge(@, {R})]
        /\ UNCHANGED <<flight, act, mark, redelivery, probing, shown>>
     \/ /\ lease[r] = {} /\ flight[p] = 0 /\ mark[r].active
        /\ redelivery' = [redelivery EXCEPT ![r] = Merge(@, {R})]
        /\ UNCHANGED <<flight, act, mark, parked, probing, shown>>
     \/ /\ ready /\ ~probed
        /\ Release(r, n)
        /\ probing' = [probing EXCEPT ![p] = IF @ = NoRun THEN r ELSE @]
        /\ UNCHANGED <<flight, act, parked, redelivery, shown>>
     \/ /\ ready
        /\ Release(r, n)
        /\ Stage(r, p, B)

\* A delivery of this segment: deliverForHandle finds the Run's pane, which has
\* to be idle; what was parked behind a flight goes where it was parked.
Drive(j) ==
  LET p == IF j.pane = NoPane THEN owner[j.run] ELSE j.pane
  IN /\ j \in todo
     /\ todo' = todo \ {j}
     /\ IF j.pane = NoPane /\ p \notin idle
        THEN UNCHANGED <<stateVars, probing, shown>>
        ELSE Deliver(j.run, p, j.reserved, j.probed)
     /\ UNCHANGED <<mailVars, delivered, owner, paneVars, repoint, bounds>>

\* Looks up the mailbox when it is forgotten.
FaultyProbed(p) == {[JobFor(probing'[p], p, {}) EXCEPT !.probed = TRUE]}

\* redeliverAfterProbe: the mailbox that waited is delivered.
Probed(p) == {[JobFor(probing[p], p, {}) EXCEPT !.probed = TRUE]}

\* The probe of a terminal the controller does not know has its answer.
ProbeAnswers(p, absent) ==
  /\ Quiet
  /\ probing[p] # NoRun
  /\ absent => p \notin alive
  /\ probing' = [probing EXCEPT ![p] = NoRun]
  /\ todo' = IF absent \/ p \notin idle THEN {} ELSE Probed(p)
  /\ UNCHANGED <<mailVars, delivered, owner, paneVars, stateVars, repoint, shown, bounds>>

\* MailPointerRepointScheduler: two seconds after mail arrived.
RepointFires(r) ==
  /\ Quiet
  /\ r \in repoint
  /\ repoint' = repoint \ {r}
  /\ todo' = {JobFor(r, NoPane, {})}
  /\ UNCHANGED <<mailVars, delivered, owner, paneVars, stateVars, probing, shown, bounds>>

-----------------------------------------------------------------------------
(***************************************************************************)
(* A flight.                                                               *)
(***************************************************************************)
\* shouldReleaseOrchestrationPointer: somebody has the mail already, or will.
Taken(k) ==
  LET r == act[k].run
  IN \/ lease[r] # {}
     \/ OfTypes(act[k].msgs, waiter[r]) # {}
     \/ ~(act[k].msgs \subseteq Unread(r))

\* finishPointerWrite: the terminal has the text, or has not; mail that was
\* announced counts as delivered.  A Cursor agent takes the text without Enter.
WriteDone(k) ==
  LET f == act[k]
      keep == f.ok /\ Current(k) /\ ~Taken(k)
  IN /\ Quiet
     /\ f.phase = "writing"
     /\ \/ LET s == Settle(redelivery, k)
           IN /\ ~keep
              /\ redelivery' = s.redelivery /\ todo' = s.jobs
              /\ EndFlight(k)
              /\ UNCHANGED <<delivered, mark>>
        \/ LET d == Redrive(redelivery, f.run, FALSE)
               s == Settle(d.redelivery, k)
           IN /\ keep /\ "cursor" \in Ops
              /\ delivered' = delivered \cup f.msgs
              /\ mark' = [mark EXCEPT ![f.run] = NoMark]
              /\ redelivery' = s.redelivery /\ todo' = d.jobs \cup s.jobs
              /\ EndFlight(k)
        \/ /\ keep
           /\ delivered' = delivered \cup f.msgs
           /\ mark' = [mark EXCEPT ![f.run] =
                [pane |-> f.pane, seq |-> Newest(f.msgs), active |-> TRUE]]
           /\ act' = [act EXCEPT ![k].phase = "staged"]
           /\ UNCHANGED <<flight, parked, redelivery, todo>>
     /\ UNCHANGED <<mailVars, owner, paneVars, probing, repoint, shown, bounds>>

\* Half a second later: is the terminal still there?
EnterTimer(k) ==
  /\ Quiet
  /\ act[k].phase = "staged"
  /\ act' = [act EXCEPT ![k].phase = "probing"]
  /\ UNCHANGED <<mailVars, delivered, owner, paneVars, flight, mark, parked, redelivery,
                 probing, repoint, todo, shown, bounds>>

\* The end of submitOrchestrationMailboxPointer: the pointer was submitted, is
\* withdrawn, is dropped because its mail is taken, or stays in the prompt.
Finalize(k, outcome) ==
  LET f == act[k]
      s == Settle(redelivery, k)
      mine == mark[f.run].pane = f.pane /\ mark[f.run].seq = Newest(f.msgs)
      d == Redrive(s.redelivery, f.run, outcome = "withdrawn")
      redriven == mine /\ outcome # "taken"
  IN /\ delivered' = IF outcome = "withdrawn" THEN delivered \ (f.msgs \ read) ELSE delivered
     /\ mark' = IF ~mine THEN mark
                ELSE IF outcome = "left" THEN [mark EXCEPT ![f.run].active = FALSE]
                ELSE [mark EXCEPT ![f.run] = NoMark]
     /\ redelivery' = IF redriven THEN d.redelivery ELSE s.redelivery
     /\ todo' = s.jobs \cup IF redriven THEN d.jobs ELSE {}
     /\ EndFlight(k)
     /\ UNCHANGED shown

\* A retired flight finds its terminal there, and touches nothing.
Retired(k) ==
  /\ act' = [act EXCEPT ![k] = Done]
  /\ UNCHANGED <<delivered, flight, mark, parked, redelivery, todo, shown>>

PressEnter(k) ==
  LET p == act[k].pane
  IN \E ok \in BOOLEAN :
       /\ ok \/ "reject" \in Ops
       /\ act' = [act EXCEPT ![k].phase = "entering", ![k].ok = ok]
       /\ IF ok /\ p \in alive
          THEN /\ told' = [told EXCEPT ![p] = @ \cup act[k].msgs]
               /\ typed' = [typed EXCEPT ![p] = {}]
          ELSE UNCHANGED shown
       /\ UNCHANGED <<delivered, flight, mark, parked, redelivery, todo>>

\* submitOrchestrationMailboxPointer, once it knows whether the terminal is gone.
Submit(k, absent) ==
  LET f == act[k]
      here == f.pane \in writable /\ owner[f.run] = f.pane
  IN /\ Quiet
     /\ f.phase = "probing"
     /\ absent => f.pane \notin alive /\ (Current(k) \/ "late_answer" \in Ops)
     /\ \/ absent /\ Finalize(k, "withdrawn")
        \/ ~absent /\ ~Current(k) /\ Retired(k)
        \/ ~absent /\ Current(k) /\ ~here /\ Finalize(k, "withdrawn")
        \/ ~absent /\ Current(k) /\ here /\ f.pane \notin idle /\ Finalize(k, "left")
        \/ ~absent /\ Current(k) /\ here /\ f.pane \in idle /\ Taken(k) /\ Finalize(k, "taken")
        \/ ~absent /\ Current(k) /\ here /\ f.pane \in idle /\ ~Taken(k) /\ PressEnter(k)
     /\ UNCHANGED <<mailVars, owner, paneVars, probing, repoint, bounds>>

EnterDone(k) ==
  /\ Quiet
  /\ act[k].phase = "entering"
  /\ Finalize(k, IF act[k].ok THEN "submitted" ELSE "left")
  /\ UNCHANGED <<mailVars, owner, paneVars, probing, repoint, bounds>>

-----------------------------------------------------------------------------
(***************************************************************************)
(* Terminals.                                                              *)
(***************************************************************************)
\* The title says the agent came to rest: deliverForLeaf.
GoesIdle(p) ==
  /\ Quiet
  /\ p \in (alive \cap writable) \ idle
  /\ idle' = idle \cup {p}
  /\ todo' = { JobFor(r, p, {}) : r \in { q \in Run : owner[q] = p } }
  /\ UNCHANGED <<mailVars, delivered, owner, alive, writable, stateVars, probing, repoint,
                 shown, bounds>>

GoesBusy(p) ==
  /\ Quiet
  /\ p \in alive \cap idle
  /\ idle' = idle \ {p}
  /\ UNCHANGED <<mailVars, delivered, owner, alive, writable, stateVars, probing, repoint,
                 todo, shown, bounds>>

Die(p) ==
  /\ Quiet
  /\ p \in alive /\ p \in writable
  /\ faults < MaxFaults
  /\ faults' = faults + 1
  /\ alive' = alive \ {p}
  /\ typed' = [typed EXCEPT ![p] = {}]
  /\ told' = [told EXCEPT ![p] = {}]
  /\ UNCHANGED <<mailVars, delivered, owner, writable, idle, stateVars, probing, repoint,
                 todo, moves>>

\* onPtyExit, with retirePty: the flight is forgotten, its timer cleared, and
\* what it announced is undelivered again.
Exit(p) ==
  LET k == flight[p]
      staged == IF k # 0 /\ act[k].phase # "writing" THEN act[k].msgs ELSE {}
      released == { r \in Run : mark[r].pane = p }
  IN /\ Quiet
     /\ p \in writable \ alive
     /\ writable' = writable \ {p}
     /\ idle' = idle \ {p}
     /\ flight' = [flight EXCEPT ![p] = 0]
     /\ act' = IF k # 0 /\ act[k].phase = "staged" THEN [act EXCEPT ![k] = Done] ELSE act
     /\ delivered' = delivered \ (staged \ read)
     /\ parked' = [parked EXCEPT ![p] = [r \in Run |-> {}]]
     /\ mark' = [r \in Run |-> IF r \in released THEN NoMark ELSE mark[r]]
     /\ redelivery' = [r \in Run |-> IF r \in released THEN {} ELSE redelivery[r]]
     /\ todo' = UNION { Redrive(redelivery, r, TRUE).jobs : r \in released }
     /\ repoint' = repoint \cup { r \in Run : owner[r] = p }
     /\ UNCHANGED <<mailVars, owner, alive, probing, shown, bounds>>

\* A restored terminal gets the same id.
Respawn(p) ==
  /\ Quiet
  /\ p \notin writable
  /\ "late_answer" \in Ops \/ ~ \E k \in Slot : act[k].phase = "entering" /\ act[k].pane = p
  /\ alive' = alive \cup {p}
  /\ writable' = writable \cup {p}
  /\ UNCHANGED <<mailVars, delivered, owner, idle, stateVars, probing, repoint, todo, shown, bounds>>

\* The runtime restarts; terminals outlive it.  Undelivered mail is pointed at
\* later (scheduleRestoredMessageRepoints).
Restart ==
  /\ Quiet
  /\ faults < MaxFaults
  /\ faults' = faults + 1
  /\ idle' = {}
  /\ waiter' = [r \in Run |-> {}]
  /\ flight' = [p \in Pane |-> 0]
  /\ act' = [k \in Slot |-> Done]
  /\ mark' = [r \in Run |-> NoMark]
  /\ parked' = [p \in Pane |-> [r \in Run |-> {}]]
  /\ redelivery' = [r \in Run |-> {}]
  /\ probing' = [p \in Pane |-> NoRun]
  /\ repoint' = { r \in Run : ~(Unread(r) \subseteq delivered) }
  /\ UNCHANGED <<msgRun, msgType, read, lease, delivered, owner, alive, writable, todo, shown, moves>>

-----------------------------------------------------------------------------
(***************************************************************************)
(* Mail and its readers, as far as pointers depend on them: module         *)
(* RunMailbox has the whole.                                               *)
(***************************************************************************)
\* Agents call from panes that show them at work.
Calls(p) == p \in alive /\ (p \notin idle \/ "idle_call" \in Ops)

\* insertMessage and notifyMessageArrived.  The check that waits for the type
\* takes the mail, or wakes to find its client gone.
Send(m, r, ty) ==
  /\ Quiet
  /\ msgRun[m] = NoRun
  /\ "late_mail" \in Ops \/ \A n \in Msg : n < m => msgRun[n] # NoRun
  /\ msgRun' = [msgRun EXCEPT ![m] = r]
  /\ msgType' = [msgType EXCEPT ![m] = ty]
  /\ repoint' = repoint \cup {r}
  /\ \/ /\ ty \in waiter[r]
        /\ waiter' = [waiter EXCEPT ![r] = {}]
        /\ lease' \in {lease, [lease EXCEPT ![r] = {m}]}
        /\ UNCHANGED todo
     \/ /\ ty \notin waiter[r]
        /\ todo' = {JobFor(r, NoPane, waiter[r])}
        /\ UNCHANGED <<waiter, lease>>
  /\ UNCHANGED <<read, delivered, owner, paneVars, stateVars, probing, shown, bounds>>

\* orchestration.check: acknowledges the Delivery it holds, leases the next.
Check(r, T) ==
  LET rd == read \cup lease[r]
  IN /\ Quiet
     /\ owner[r] # NoPane /\ Calls(owner[r])
     /\ read' = rd
     /\ lease' = [lease EXCEPT ![r] = Oldest(OfTypes(Unread(r) \ rd, T))]
     /\ UNCHANGED <<msgRun, msgType, waiter, delivered, owner, paneVars, stateVars, probing,
                    repoint, todo, shown, bounds>>

\* ... and waits if there is no such mail.
Wait(r, T) ==
  /\ Quiet
  /\ owner[r] # NoPane /\ Calls(owner[r])
  /\ waiter[r] = {} /\ lease[r] = {}
  /\ OfTypes(Unread(r), T) = {}
  /\ waiter' = [waiter EXCEPT ![r] = T]
  /\ UNCHANGED <<msgRun, msgType, read, lease, delivered, owner, paneVars, stateVars, probing,
                 repoint, todo, shown, bounds>>

WaitEnds(r) ==
  /\ Quiet
  /\ waiter[r] # {}
  /\ waiter' = [waiter EXCEPT ![r] = {}]
  /\ UNCHANGED <<msgRun, msgType, read, lease, delivered, owner, paneVars, stateVars, probing,
                 repoint, todo, shown, bounds>>

\* orchestration.runUse: the pane's other Run is unbound, their Deliveries are
\* fenced and their checks cancelled.
Bind(r, p) ==
  LET fenced == { q \in Run : q = r \/ owner[q] = p }
  IN /\ Quiet
     /\ Calls(p) /\ owner[r] # p
     /\ moves < MaxMoves
     /\ moves' = moves + 1
     /\ \/ "overtake" \in Ops
        \/ /\ probing[p] = NoRun /\ \A q \in Pane : probing[q] # r
           /\ ~ \E k \in Slot : act[k].phase = "writing" /\ act[k].run \in fenced
     /\ owner' = [q \in Run |-> IF q = r THEN p ELSE IF q \in fenced THEN NoPane ELSE owner[q]]
     /\ lease' = [q \in Run |-> IF q \in fenced THEN {} ELSE lease[q]]
     /\ waiter' = [q \in Run |-> IF q \in fenced THEN {} ELSE waiter[q]]
     /\ UNCHANGED <<msgRun, msgType, read, delivered, paneVars, stateVars, probing, repoint,
                    todo, shown, faults>>

-----------------------------------------------------------------------------
RuntimeStep ==
  \/ \E j \in todo : Drive(j)
  \/ \E p \in Pane, absent \in BOOLEAN : ProbeAnswers(p, absent)
  \/ \E r \in Run : RepointFires(r)
  \/ \E k \in Slot : WriteDone(k) \/ EnterTimer(k) \/ EnterDone(k)
  \/ \E k \in Slot, absent \in BOOLEAN : Submit(k, absent)

PaneStep ==
  \/ \E p \in Pane : GoesIdle(p) \/ GoesBusy(p) \/ Die(p) \/ Exit(p) \/ Respawn(p)
  \/ Restart

MailStep ==
  \/ \E m \in Msg, r \in Run, ty \in Type : Send(m, r, ty)
  \/ \E r \in Run, T \in (SUBSET Type) \ {{}} : Check(r, T) \/ Wait(r, T)
  \/ \E r \in Run : WaitEnds(r)
  \/ \E r \in Run, p \in Pane : Bind(r, p)

Next == RuntimeStep \/ PaneStep \/ MailStep

Spec == Init /\ [][Next]_vars

\* The event loop runs what is due: the deliveries of a segment, then timers and
\* answers.  A coordinator at work comes to rest again and again, and a probe of
\* its terminal sometimes answers while it rests.  Terminals need not exit when
\* their process has died, nor come back; agents need not call.
FlightGoesOn(k) ==
  WriteDone(k) \/ EnterTimer(k) \/ EnterDone(k) \/ \E absent \in BOOLEAN : Submit(k, absent)
Due == (\E k \in Slot : FlightGoesOn(k)) \/ (\E r \in Run : RepointFires(r))
Rests(r) == owner[r] # NoPane /\ GoesIdle(owner[r])
ProbedAtRest(r) == owner[r] \in idle /\ ProbeAnswers(owner[r], FALSE)

Fairness ==
  /\ WF_vars(\E j \in todo : Drive(j))
  /\ SF_vars(Due)
  /\ \A r \in Run : SF_vars(Rests(r)) /\ SF_vars(ProbedAtRest(r))

FairSpec == Spec /\ Fairness

-----------------------------------------------------------------------------
(***************************************************************************)
(* Properties.                                                             *)
(***************************************************************************)
\* Nothing parked waits for nothing: an active watermark is that of a flight
\* whose Enter is still to come, and a delivery is parked only behind a flight.
PointerInv ==
  /\ \A r \in Run : mark[r].active =>
       LET k == flight[mark[r].pane]
       IN /\ mark[r].pane # NoPane /\ k # 0
          /\ act[k].run = r /\ act[k].phase \in {"staged", "probing", "entering"}
          /\ Newest(act[k].msgs) = mark[r].seq
  /\ \A p \in Pane, r \in Run : parked[p][r] # {} => flight[p] # 0

\* Enter is pressed only on the text it belongs to: the process that gets it was
\* given the pointer, and not the process before it.
EnterHitsItsText ==
  [][\A k \in Slot :
       /\ act[k].phase = "probing" /\ act'[k].phase = "entering"
       /\ act[k].pane \in alive
       => act[k].msgs \subseteq typed[act[k].pane]]_vars

\* Enter is not pressed twice in one process for the pointer to one message: mail
\* that was announced counts as delivered until its pointer is taken back.
ToldOnce ==
  [][\A k \in Slot :
       act[k].phase = "probing" /\ act'[k].phase = "entering"
       => act[k].msgs \cap told[act[k].pane] = {}]_vars

\* Mail does not wait in silence: if the Run comes to be bound to a pane that
\* lives on, and is not forever at work on an outstanding Delivery, its oldest
\* mail is announced or read, again and again.
Attended(r) == owner[r] \in alive \cap writable

MailIsPointed ==
  \A r \in Run :
    <>[]Attended(r) /\ []<>(lease[r] = {}) => []<>(Oldest(Unread(r)) \subseteq delivered)
=============================================================================
