------------------------ MODULE MailboxPointerProofs ------------------------
(***************************************************************************)
(* Theorems about MailboxPointer for any Runs, panes, messages and bounds, *)
(* with every optional event but in the last.                              *)
(***************************************************************************)
EXTENDS MailboxPointer, WellFoundedInduction, TLAPS

-----------------------------------------------------------------------------
(***************************************************************************)
(* A mailbox holds finitely many messages, so the newest of a batch is one *)
(* of them.                                                                *)
(***************************************************************************)
LEMMA Bounds ==
  /\ BatchLimit \in Nat /\ MaxMessages \in Nat /\ MaxFlights \in Nat
  /\ Msg \subseteq Nat \ {0} /\ Slot \subseteq Nat \ {0} /\ 0 \notin Slot
  BY MailboxPointerAssumption DEF Msg, Slot

LEMMA NewestType ==
  ASSUME NEW S \in SUBSET Msg, S # {}
  PROVE  Newest(S) \in S
<1> DEFINE Left == { MaxMessages - m : m \in S }
           Less == OpToRel(<, Nat)
<1>0. \A m \in S : m \in Nat /\ MaxMessages - m \in Nat
  BY Bounds DEF Msg
<1>1. Left \subseteq Nat /\ Left # {}
  BY <1>0
<1>2. \E x \in Left : \A y \in Left : ~ (<<y, x>> \in Less)
  BY <1>1, NatLessThanWellFounded, WFMin
<1>3. PICK x \in Left : \A y \in Left : ~ (y < x)
  BY <1>1, <1>2 DEF OpToRel
<1>4. PICK m \in S : x = MaxMessages - m
  BY <1>3
<1>5. ASSUME NEW n \in S
      PROVE  n <= m
  <2>1. ~ (MaxMessages - n < MaxMessages - m)
    BY <1>3, <1>4
  <2> QED BY <2>1, <1>0, Bounds
<1> QED BY <1>4, <1>5 DEF Newest


-----------------------------------------------------------------------------
(***************************************************************************)
(* Type correctness.                                                       *)
(***************************************************************************)
LEMMA NilFacts == NoRun \notin Run /\ NoPane \notin Pane /\ "none" \notin Type
  BY MailboxPointerAssumption

LEMMA FlightType ==
  ASSUME NEW f \in Flight
  PROVE  /\ f.phase \in Phase /\ f.pane \in Pane /\ f.run \in Run /\ f.ok \in BOOLEAN
         /\ f.msgs \subseteq Msg /\ f.msgs # {}
  BY DEF Flight

\* A flight that has a callback pending has its fields.
LEMMA FlightFields ==
  ASSUME TypeOK, NEW k \in Slot
  PROVE  /\ act[k].phase # "done" => act[k] \in Flight
         /\ act[k] \in Flight => /\ act[k].phase \in Phase /\ act[k].pane \in Pane
                                 /\ act[k].run \in Run /\ act[k].ok \in BOOLEAN
                                 /\ act[k].msgs \subseteq Msg /\ act[k].msgs # {}
                                 /\ Newest(act[k].msgs) \in Msg
<1>1. act[k].phase # "done" => act[k] \in Flight
  BY DEF TypeOK, Done
<1>2. ASSUME act[k] \in Flight
      PROVE  /\ act[k].phase \in Phase /\ act[k].pane \in Pane
             /\ act[k].run \in Run /\ act[k].ok \in BOOLEAN
             /\ act[k].msgs \subseteq Msg /\ act[k].msgs # {}
  BY <1>2, FlightType
<1>3. ASSUME act[k] \in Flight
      PROVE  Newest(act[k].msgs) \in Msg
  BY <1>2, <1>3, NewestType
<1> QED BY <1>1, <1>2, <1>3

LEMMA JobTypes ==
  ASSUME NEW r \in Run, NEW p \in Pane \cup {NoPane}, NEW R \in SUBSET Type
  PROVE  /\ JobFor(r, p, R) \in Job
         /\ [JobFor(r, p, R) EXCEPT !.probed = TRUE] \in Job
  BY DEF JobFor, Job

LEMMA JobFields ==
  ASSUME TypeOK, NEW j \in todo
  PROVE  /\ j \in Job /\ j.run \in Run /\ j.pane \in Pane \cup {NoPane}
         /\ j.reserved \in SUBSET Type /\ j.probed \in BOOLEAN
  BY DEF TypeOK, Job

LEMMA BatchType ==
  ASSUME NEW r \in Run, NEW R
  PROVE  Batch(r, R) \subseteq Msg
  BY DEF Batch, Oldest, Unread

LEMMA MergeType ==
  ASSUME NEW P \in SUBSET SUBSET Type, NEW S \in SUBSET SUBSET Type
  PROVE  Merge(P, S) \in SUBSET SUBSET Type
  BY DEF Merge

LEMMA RedriveType ==
  ASSUME NEW re \in [Run -> SUBSET SUBSET Type], NEW r \in Run, NEW force \in BOOLEAN
  PROVE  /\ Redrive(re, r, force).redelivery \in [Run -> SUBSET SUBSET Type]
         /\ Redrive(re, r, force).jobs \subseteq Job
<1>1. re[r] \subseteq SUBSET Type
  OBVIOUS
<1>2. \A R \in re[r] \cup {{}} : JobFor(r, NoPane, R) \in Job
  BY <1>1, JobTypes
<1> QED BY <1>2 DEF Redrive

LEMMA SettleType ==
  ASSUME TypeOK, NEW k \in Slot, act[k] \in Flight,
         NEW re \in [Run -> SUBSET SUBSET Type]
  PROVE  /\ Settle(re, k).redelivery \in [Run -> SUBSET SUBSET Type]
         /\ Settle(re, k).jobs \subseteq Job
<1> DEFINE p == act[k].pane
           behind == IF Current(k) THEN { r \in Run : parked[p][r] # {} } ELSE {}
           moved == { r \in behind : owner[r] # p }
           of(r) == IF r \in moved THEN { JobFor(r, NoPane, R) : R \in Merge(re[r], parked[p][r]) }
                    ELSE { JobFor(r, p, R) : R \in parked[p][r] }
<1>1. p \in Pane /\ \A r \in Run : parked[p][r] \subseteq SUBSET Type
  BY FlightFields DEF TypeOK
<1>2. ASSUME NEW r \in behind
      PROVE  of(r) \subseteq Job
  <2>1. r \in Run
    OBVIOUS
  <2>2. Merge(re[r], parked[p][r]) \subseteq SUBSET Type
    BY <1>1, <2>1, MergeType
  <2>3. \A R \in SUBSET Type : JobFor(r, NoPane, R) \in Job /\ JobFor(r, p, R) \in Job
    BY <1>1, <2>1, JobTypes
  <2> QED BY <1>1, <2>1, <2>2, <2>3
<1>3. Settle(re, k).jobs = UNION { of(r) : r \in behind }
  BY DEF Settle
<1>4. UNION { of(r) : r \in behind } \subseteq Job
  <2> HIDE DEF of, behind
  <2> QED BY <1>2
<1>5. Settle(re, k).redelivery \in [Run -> SUBSET SUBSET Type]
  BY DEF Settle
<1> QED BY <1>3, <1>4, <1>5

LEMMA EndFlightType ==
  ASSUME TypeOK, NEW k \in Slot, EndFlight(k)
  PROVE  /\ act' \in [Slot -> Flight \cup {Done}]
         /\ flight' \in [Pane -> Slot \cup {0}]
         /\ parked' \in [Pane -> [Run -> SUBSET SUBSET Type]]
  BY DEF EndFlight, TypeOK

LEMMA DeliverType ==
  ASSUME TypeOK, NEW r \in Run, NEW p \in Pane, NEW R \in SUBSET Type, NEW probed \in BOOLEAN,
         Deliver(r, p, R, probed)
  PROVE  /\ act' \in [Slot -> Flight \cup {Done}]
         /\ flight' \in [Pane -> Slot \cup {0}]
         /\ mark' \in [Run -> Mark \cup {NoMark}]
         /\ parked' \in [Pane -> [Run -> SUBSET SUBSET Type]]
         /\ redelivery' \in [Run -> SUBSET SUBSET Type]
         /\ probing' \in [Pane -> Run \cup {NoRun}]
         /\ typed' \in [Pane -> SUBSET Msg] /\ told' \in [Pane -> SUBSET Msg]
<1> DEFINE B == Batch(r, R)
           n == Newest(B)
<1>1. B \subseteq Msg
  BY BatchType
<1>2. Merge(parked[p][r], {R}) \in SUBSET SUBSET Type /\ Merge(redelivery[r], {R}) \in SUBSET SUBSET Type
  <2>1. /\ parked[p][r] \in SUBSET SUBSET Type /\ redelivery[r] \in SUBSET SUBSET Type
        /\ {R} \in SUBSET SUBSET Type
    BY DEF TypeOK
  <2> QED BY <2>1, MergeType
<1>3. mark' \in [Run -> Mark \cup {NoMark}]
  BY DEF Deliver, Release, TypeOK, stateVars
<1>4. CASE UNCHANGED <<stateVars, probing, shown>>
  BY <1>4 DEF TypeOK, stateVars, shown
<1>5. CASE /\ parked' = [parked EXCEPT ![p][r] = Merge(@, {R})]
           /\ UNCHANGED <<flight, act, mark, redelivery, probing, shown>>
  BY <1>2, <1>5 DEF TypeOK, shown
<1>6. CASE /\ redelivery' = [redelivery EXCEPT ![r] = Merge(@, {R})]
           /\ UNCHANGED <<flight, act, mark, parked, probing, shown>>
  BY <1>2, <1>6 DEF TypeOK, shown
<1>7. CASE /\ probing' = [probing EXCEPT ![p] = IF @ = NoRun THEN r ELSE @]
           /\ UNCHANGED <<flight, act, parked, redelivery, shown>>
  BY <1>3, <1>7 DEF TypeOK, shown
<1>8. CASE B # {} /\ Stage(r, p, B)
  <2>1. PICK k \in Slot, ok \in BOOLEAN :
          /\ act' = [act EXCEPT ![k] = [phase |-> "writing", pane |-> p, run |-> r, msgs |-> B, ok |-> ok]]
          /\ flight' = [flight EXCEPT ![p] = k]
          /\ typed' = [typed EXCEPT ![p] = IF ok /\ p \in alive THEN @ \cup B ELSE @]
          /\ UNCHANGED <<parked, redelivery, probing, told>>
    BY <1>8 DEF Stage
  <2>2. [phase |-> "writing", pane |-> p, run |-> r, msgs |-> B, ok |-> ok] \in Flight
    BY <1>1, <1>8 DEF Flight, Phase
  <2> QED BY <1>1, <1>3, <2>1, <2>2 DEF TypeOK
<1> QED BY <1>4, <1>5, <1>6, <1>7, <1>8 DEF Deliver

\* What a delivery of this segment does.
LEMMA DriveCases ==
  ASSUME TypeOK, NEW j \in todo, Drive(j)
  PROVE  \/ UNCHANGED <<stateVars, probing, shown>>
         \/ \E r \in Run, p \in Pane, R \in SUBSET Type, probed \in BOOLEAN : Deliver(r, p, R, probed)
<1> DEFINE p == IF j.pane = NoPane THEN owner[j.run] ELSE j.pane
<1>1. CASE j.pane = NoPane /\ p \notin idle
  BY <1>1 DEF Drive
<1>2. CASE ~(j.pane = NoPane /\ p \notin idle)
  <2>1. p \in Pane
    BY <1>2, JobFields DEF TypeOK
  <2>2. Deliver(j.run, p, j.reserved, j.probed)
    BY <1>2 DEF Drive
  <2> QED BY <2>1, <2>2, JobFields
<1> QED BY <1>1, <1>2

LEMMA DriveType ==
  ASSUME TypeOK, NEW j \in todo, Drive(j)
  PROVE  TypeOK'
<1>1. todo' \subseteq Job
  BY DEF Drive, TypeOK
<1>2. UNCHANGED <<mailVars, delivered, owner, paneVars, repoint, bounds>>
  BY DEF Drive
<1>3. CASE UNCHANGED <<stateVars, probing, shown>>
  BY <1>1, <1>2, <1>3 DEF TypeOK, mailVars, paneVars, stateVars, shown, bounds
<1>4. CASE \E r \in Run, p \in Pane, R \in SUBSET Type, probed \in BOOLEAN : Deliver(r, p, R, probed)
  <2>1. PICK r \in Run, p \in Pane, R \in SUBSET Type, probed \in BOOLEAN : Deliver(r, p, R, probed)
    BY <1>4
  <2>2. /\ act' \in [Slot -> Flight \cup {Done}] /\ flight' \in [Pane -> Slot \cup {0}]
        /\ mark' \in [Run -> Mark \cup {NoMark}]
        /\ parked' \in [Pane -> [Run -> SUBSET SUBSET Type]]
        /\ redelivery' \in [Run -> SUBSET SUBSET Type]
        /\ probing' \in [Pane -> Run \cup {NoRun}]
        /\ typed' \in [Pane -> SUBSET Msg] /\ told' \in [Pane -> SUBSET Msg]
    BY <2>1, DeliverType
  <2> QED BY <1>1, <1>2, <2>2 DEF TypeOK, mailVars, paneVars, bounds
<1> QED BY <1>3, <1>4, DriveCases

LEMMA FinalizeType ==
  ASSUME TypeOK, NEW k \in Slot, act[k] \in Flight,
         NEW outcome \in {"submitted", "withdrawn", "taken", "left"}, Finalize(k, outcome)
  PROVE  /\ act' \in [Slot -> Flight \cup {Done}]
         /\ flight' \in [Pane -> Slot \cup {0}]
         /\ mark' \in [Run -> Mark \cup {NoMark}]
         /\ parked' \in [Pane -> [Run -> SUBSET SUBSET Type]]
         /\ redelivery' \in [Run -> SUBSET SUBSET Type]
         /\ delivered' \subseteq Msg /\ todo' \subseteq Job
         /\ UNCHANGED shown
<1> DEFINE f == act[k]
           s == Settle(redelivery, k)
           d == Redrive(s.redelivery, f.run, outcome = "withdrawn")
<1>1. f.run \in Run /\ redelivery \in [Run -> SUBSET SUBSET Type]
  BY FlightFields DEF TypeOK
<1>2. s.redelivery \in [Run -> SUBSET SUBSET Type] /\ s.jobs \subseteq Job
  BY <1>1, SettleType
<1>3. d.redelivery \in [Run -> SUBSET SUBSET Type] /\ d.jobs \subseteq Job
  BY <1>1, <1>2, RedriveType
<1>4. redelivery' \in [Run -> SUBSET SUBSET Type] /\ todo' \subseteq Job
  <2> HIDE DEF s, d
  <2>1. redelivery' \in {s.redelivery, d.redelivery} /\ todo' \subseteq s.jobs \cup d.jobs
    BY DEF Finalize, s, d
  <2> QED BY <1>2, <1>3, <2>1
<1>5. mark' \in [Run -> Mark \cup {NoMark}]
  <2>1. mark[f.run].pane \in Pane /\ mark[f.run].pane = f.pane => mark[f.run] \in Mark
    BY <1>1, NilFacts DEF TypeOK, NoMark
  <2>2. mark[f.run].pane = f.pane => [mark[f.run] EXCEPT !.active = FALSE] \in Mark
    BY <1>1, <2>1, FlightFields DEF Mark
  <2> QED BY <1>1, <2>2 DEF Finalize, TypeOK
<1>6. delivered' \subseteq Msg /\ UNCHANGED shown /\ EndFlight(k)
  BY DEF Finalize, TypeOK
<1> QED BY <1>4, <1>5, <1>6, EndFlightType

LEMMA WriteDoneType ==
  ASSUME TypeOK, NEW k \in Slot, WriteDone(k)
  PROVE  TypeOK'
<1> DEFINE f == act[k]
           s == Settle(redelivery, k)
           d == Redrive(redelivery, f.run, FALSE)
           t == Settle(d.redelivery, k)
<1>1. f \in Flight /\ f.run \in Run /\ f.pane \in Pane /\ f.msgs \subseteq Msg
      /\ Newest(f.msgs) \in Msg /\ redelivery \in [Run -> SUBSET SUBSET Type]
  BY FlightFields DEF WriteDone, TypeOK
<1>2. UNCHANGED <<mailVars, owner, paneVars, probing, repoint, shown, bounds>>
  BY DEF WriteDone
<1>3. CASE redelivery' = s.redelivery /\ todo' = s.jobs /\ EndFlight(k) /\ UNCHANGED <<delivered, mark>>
  <2>1. s.redelivery \in [Run -> SUBSET SUBSET Type] /\ s.jobs \subseteq Job
    BY <1>1, SettleType
  <2> HIDE DEF s
  <2> QED BY <1>2, <1>3, <2>1, EndFlightType DEF TypeOK, mailVars, paneVars, shown, bounds
<1>4. CASE /\ delivered' = delivered \cup f.msgs
           /\ mark' = [mark EXCEPT ![f.run] = NoMark]
           /\ redelivery' = t.redelivery /\ todo' = d.jobs \cup t.jobs
           /\ EndFlight(k)
  <2>1. d.redelivery \in [Run -> SUBSET SUBSET Type] /\ d.jobs \subseteq Job
    BY <1>1, RedriveType
  <2>2. t.redelivery \in [Run -> SUBSET SUBSET Type] /\ t.jobs \subseteq Job
    BY <1>1, <2>1, SettleType
  <2> HIDE DEF d, t
  <2> QED BY <1>1, <1>2, <1>4, <2>1, <2>2, EndFlightType DEF TypeOK, mailVars, paneVars, shown, bounds
<1>5. CASE /\ delivered' = delivered \cup f.msgs
           /\ mark' = [mark EXCEPT ![f.run] = [pane |-> f.pane, seq |-> Newest(f.msgs), active |-> TRUE]]
           /\ act' = [act EXCEPT ![k].phase = "staged"]
           /\ UNCHANGED <<flight, parked, redelivery, todo>>
  <2>1. [f EXCEPT !.phase = "staged"] \in Flight
    BY <1>1 DEF Flight, Phase
  <2>2. [pane |-> f.pane, seq |-> Newest(f.msgs), active |-> TRUE] \in Mark
    BY <1>1 DEF Mark
  <2>3. act' \in [Slot -> Flight \cup {Done}] /\ mark' \in [Run -> Mark \cup {NoMark}]
    BY <1>5, <2>1, <2>2 DEF TypeOK
  <2> QED BY <1>1, <1>2, <1>5, <2>3 DEF TypeOK, mailVars, paneVars, shown, bounds
<1> QED BY <1>3, <1>4, <1>5 DEF WriteDone

LEMMA EnterTimerType ==
  ASSUME TypeOK, NEW k \in Slot, EnterTimer(k)
  PROVE  TypeOK'
<1>1. act[k] \in Flight
  BY FlightFields DEF EnterTimer
<1>2. [act[k] EXCEPT !.phase = "probing"] \in Flight
  BY <1>1 DEF Flight, Phase
<1>3. act' \in [Slot -> Flight \cup {Done}]
  BY <1>2 DEF EnterTimer, TypeOK
<1> QED BY <1>3 DEF EnterTimer, TypeOK, mailVars, paneVars, shown, bounds

\* What comes of the look at a terminal.
LEMMA SubmitCases ==
  ASSUME NEW k \in Slot, NEW absent \in BOOLEAN, Submit(k, absent)
  PROVE  /\ act[k].phase = "probing"
         /\ UNCHANGED <<mailVars, owner, paneVars, probing, repoint, bounds>>
         /\ \/ \E outcome \in {"withdrawn", "taken", "left"} : Finalize(k, outcome)
            \/ Retired(k)
            \/ Current(k) /\ act[k].pane \in writable /\ PressEnter(k)
  BY DEF Submit

LEMMA SubmitType ==
  ASSUME TypeOK, NEW k \in Slot, NEW absent \in BOOLEAN, Submit(k, absent)
  PROVE  TypeOK'
<1>1. act[k] \in Flight /\ act[k].pane \in Pane
  BY SubmitCases, FlightFields
<1>2. UNCHANGED <<mailVars, owner, paneVars, probing, repoint, bounds>>
  BY SubmitCases
<1>3. ASSUME NEW outcome \in {"withdrawn", "taken", "left"}, Finalize(k, outcome)
      PROVE  TypeOK'
  BY <1>1, <1>2, <1>3, FinalizeType DEF TypeOK, mailVars, paneVars, shown, bounds
<1>4. CASE Retired(k)
  BY <1>2, <1>4 DEF Retired, TypeOK, mailVars, paneVars, shown, bounds
<1>5. CASE PressEnter(k)
  <2>1. PICK ok \in BOOLEAN :
          /\ act' = [act EXCEPT ![k].phase = "entering", ![k].ok = ok]
          /\ \/ /\ told' = [told EXCEPT ![act[k].pane] = @ \cup act[k].msgs]
                /\ typed' = [typed EXCEPT ![act[k].pane] = {}]
             \/ UNCHANGED shown
          /\ UNCHANGED <<delivered, flight, mark, parked, redelivery, todo>>
    BY <1>5 DEF PressEnter
  <2>2. [act[k] EXCEPT !.phase = "entering", !.ok = ok] \in Flight
    BY <1>1 DEF Flight, Phase
  <2>3. act' \in [Slot -> Flight \cup {Done}]
    BY <2>1, <2>2 DEF TypeOK
  <2>4. typed' \in [Pane -> SUBSET Msg] /\ told' \in [Pane -> SUBSET Msg]
    <3>1. /\ act[k].pane \in Pane /\ act[k].msgs \subseteq Msg
          /\ typed \in [Pane -> SUBSET Msg] /\ told \in [Pane -> SUBSET Msg]
      BY <1>1, FlightType DEF TypeOK
    <3>2. CASE UNCHANGED shown
      BY <3>1, <3>2 DEF shown
    <3>3. CASE /\ told' = [told EXCEPT ![act[k].pane] = @ \cup act[k].msgs]
               /\ typed' = [typed EXCEPT ![act[k].pane] = {}]
      BY <3>1, <3>3
    <3> QED BY <2>1, <3>2, <3>3
  <2> QED BY <1>2, <2>1, <2>3, <2>4 DEF TypeOK, mailVars, paneVars, bounds
<1> QED BY <1>3, <1>4, <1>5, SubmitCases

LEMMA EnterDoneType ==
  ASSUME TypeOK, NEW k \in Slot, EnterDone(k)
  PROVE  TypeOK'
<1>1. act[k] \in Flight
  BY FlightFields DEF EnterDone
<1>2. PICK outcome \in {"submitted", "left"} : Finalize(k, outcome)
  BY DEF EnterDone
<1> QED BY <1>1, <1>2, FinalizeType DEF EnterDone, TypeOK, mailVars, paneVars, shown, bounds

LEMMA PaneType ==
  ASSUME TypeOK, NEW p \in Pane, GoesIdle(p) \/ GoesBusy(p) \/ Die(p) \/ Respawn(p)
  PROVE  TypeOK'
<1>1. ASSUME GoesIdle(p)
      PROVE  TypeOK'
  <2>1. \A r \in Run : JobFor(r, p, {}) \in Job
    BY JobTypes
  <2> QED BY <1>1, <2>1 DEF GoesIdle, TypeOK, mailVars, stateVars, shown, bounds
<1>2. ASSUME GoesBusy(p)
      PROVE  TypeOK'
  BY <1>2 DEF GoesBusy, TypeOK, mailVars, stateVars, shown, bounds
<1>3. ASSUME Die(p)
      PROVE  TypeOK'
  BY <1>3 DEF Die, TypeOK, mailVars, stateVars
<1>4. ASSUME Respawn(p)
      PROVE  TypeOK'
  BY <1>4 DEF Respawn, TypeOK, mailVars, stateVars, shown, bounds
<1> QED BY <1>1, <1>2, <1>3, <1>4

LEMMA ExitType ==
  ASSUME TypeOK, NEW p \in Pane, Exit(p)
  PROVE  TypeOK'
<1>1. act' \in [Slot -> Flight \cup {Done}] /\ flight' \in [Pane -> Slot \cup {0}]
  BY DEF Exit, TypeOK
<1>2. parked' \in [Pane -> [Run -> SUBSET SUBSET Type]] /\ redelivery' \in [Run -> SUBSET SUBSET Type]
      /\ mark' \in [Run -> Mark \cup {NoMark}]
  BY DEF Exit, TypeOK
<1>3. todo' \subseteq Job
  <2>1. \A r \in Run : Redrive(redelivery, r, TRUE).jobs \subseteq Job
    BY RedriveType DEF TypeOK
  <2>2. PICK S \in SUBSET Run : todo' = UNION { Redrive(redelivery, r, TRUE).jobs : r \in S }
    BY DEF Exit
  <2> QED BY <2>1, <2>2
<1>4. delivered' \subseteq Msg /\ repoint' \subseteq Run /\ writable' \subseteq Pane /\ idle' \subseteq Pane
  BY DEF Exit, TypeOK
<1>5. UNCHANGED <<mailVars, owner, alive, probing, shown, bounds>>
  BY DEF Exit
<1> QED BY <1>1, <1>2, <1>3, <1>4, <1>5 DEF TypeOK, mailVars, shown, bounds

LEMMA RestartType ==
  ASSUME TypeOK, Restart
  PROVE  TypeOK'
  BY Bounds DEF Restart, TypeOK, shown

LEMMA TimerType ==
  ASSUME TypeOK,
         (\E p \in Pane, absent \in BOOLEAN : ProbeAnswers(p, absent)) \/ (\E r \in Run : RepointFires(r))
  PROVE  TypeOK'
<1>1. ASSUME NEW p \in Pane, NEW absent \in BOOLEAN, ProbeAnswers(p, absent)
      PROVE  TypeOK'
  <2>1. probing[p] \in Run
    BY <1>1 DEF ProbeAnswers, TypeOK
  <2>2. Probed(p) \subseteq Job
    BY <2>1, JobTypes DEF Probed
  <2> QED BY <1>1, <2>2 DEF ProbeAnswers, TypeOK, mailVars, paneVars, stateVars, shown, bounds
<1>2. ASSUME NEW r \in Run, RepointFires(r)
      PROVE  TypeOK'
  <2>1. JobFor(r, NoPane, {}) \in Job
    BY JobTypes
  <2> QED BY <1>2, <2>1 DEF RepointFires, TypeOK, mailVars, paneVars, stateVars, shown, bounds
<1> QED BY <1>1, <1>2

LEMMA MailType ==
  ASSUME TypeOK, MailStep
  PROVE  TypeOK'
<1>1. ASSUME NEW m \in Msg, NEW r \in Run, NEW ty \in Type, Send(m, r, ty)
      PROVE  TypeOK'
  <2>1. JobFor(r, NoPane, waiter[r]) \in Job
    BY JobTypes DEF TypeOK
  <2>2. msgRun' \in [Msg -> Run \cup {NoRun}] /\ msgType' \in [Msg -> Type \cup {"none"}]
        /\ repoint' \subseteq Run
    BY <1>1 DEF Send, TypeOK
  <2>3. todo' \subseteq Job
    BY <1>1, <2>1 DEF Send, TypeOK
  <2>5. lease' \in {lease, [lease EXCEPT ![r] = {m}]} /\ waiter' \in {waiter, [waiter EXCEPT ![r] = {}]}
    BY <1>1 DEF Send
  <2>6. lease' \in [Run -> SUBSET Msg] /\ waiter' \in [Run -> SUBSET Type]
    <3>1. lease \in [Run -> SUBSET Msg] /\ waiter \in [Run -> SUBSET Type] /\ {m} \in SUBSET Msg
      BY DEF TypeOK
    <3>2. [lease EXCEPT ![r] = {m}] \in [Run -> SUBSET Msg] /\ [waiter EXCEPT ![r] = {}] \in [Run -> SUBSET Type]
      BY <3>1
    <3> QED BY <2>5, <3>1, <3>2
  <2>4. UNCHANGED <<read, delivered, owner, paneVars, stateVars, probing, shown, bounds>>
    BY <1>1 DEF Send
  <2> QED BY <2>2, <2>3, <2>4, <2>6 DEF TypeOK, paneVars, stateVars, shown, bounds
<1>2. ASSUME NEW r \in Run, NEW T \in SUBSET Type, Check(r, T)
      PROVE  TypeOK'
  BY <1>2 DEF Check, Oldest, OfTypes, TypeOK, paneVars, stateVars, shown, bounds, Unread
<1>3. ASSUME NEW r \in Run, NEW T \in SUBSET Type, Wait(r, T)
      PROVE  TypeOK'
  BY <1>3 DEF Wait, TypeOK, paneVars, stateVars, shown, bounds
<1>4. ASSUME NEW r \in Run, WaitEnds(r)
      PROVE  TypeOK'
  BY <1>4 DEF WaitEnds, TypeOK, paneVars, stateVars, shown, bounds
<1>5. ASSUME NEW r \in Run, NEW p \in Pane, Bind(r, p)
      PROVE  TypeOK'
  BY <1>5 DEF Bind, TypeOK, paneVars, stateVars, shown
<1> QED BY <1>1, <1>2, <1>3, <1>4, <1>5 DEF MailStep

LEMMA TypeStep ==
  ASSUME TypeOK, [Next]_vars
  PROVE  TypeOK'
<1>1. CASE RuntimeStep
  BY <1>1, DriveType, TimerType, WriteDoneType, EnterTimerType, EnterDoneType, SubmitType DEF RuntimeStep
<1>2. CASE PaneStep
  BY <1>2, PaneType, ExitType, RestartType DEF PaneStep
<1>3. CASE MailStep
  BY <1>3, MailType
<1>4. CASE UNCHANGED vars
  BY <1>4 DEF TypeOK, vars, mailVars, paneVars, stateVars, shown, bounds
<1> QED BY <1>1, <1>2, <1>3, <1>4 DEF Next

\* Every variable keeps its type: the runtime never points for a Run, a pane or a
\* message it does not have, and no flight goes on without its fields.
THEOREM TypeCorrect == Spec => []TypeOK
<1>1. Init => TypeOK
  BY MailboxPointerAssumption DEF Init, TypeOK
<1> QED BY <1>1, TypeStep, PTL DEF Spec

-----------------------------------------------------------------------------
(***************************************************************************)
(* Nothing parked waits for nothing, and Enter hits its text.              *)
(*                                                                         *)
(* PointerInv is inductive with FlightInv, that the flight of a terminal   *)
(* the runtime can write to is one of that terminal, and PromptInv, that   *)
(* the prompt holds the pointer of the flight while its process lives.     *)
(***************************************************************************)
FlightInv ==
  \A p \in Pane : flight[p] # 0 =>
    p \in writable /\ act[flight[p]].pane = p /\ act[flight[p]].phase # "done"

Written(k) == act[k].phase \in {"staged", "probing"} \/ (act[k].phase = "writing" /\ act[k].ok)

PromptInv ==
  /\ alive \subseteq writable
  /\ \A p \in alive : flight[p] # 0 /\ Written(flight[p]) => act[flight[p]].msgs \subseteq typed[p]

EnterStep ==
  \A k \in Slot :
    /\ act[k].phase = "probing" /\ act'[k].phase = "entering"
    /\ act[k].pane \in alive
    => act[k].msgs \subseteq typed[act[k].pane]

Held == TypeOK /\ FlightInv /\ PromptInv /\ PointerInv
Goal == FlightInv' /\ PromptInv' /\ PointerInv' /\ EnterStep

\* Most steps do not touch a flight.
LEMMA Untouched ==
  ASSUME Held, UNCHANGED <<flight, act, mark, parked, typed, alive, writable>>
  PROVE  Goal
  BY DEF Held, Goal, FlightInv, PromptInv, PointerInv, EnterStep, Written

\* The end of a flight leaves the others as they are.
LEMMA EndFacts ==
  ASSUME Held, NEW k \in Slot, act[k] \in Flight, EndFlight(k)
  PROVE  /\ \A p \in Pane : flight'[p] # 0 =>
              flight'[p] = flight[p] /\ flight[p] # k /\ act'[flight[p]] = act[flight[p]]
         /\ \A p \in Pane : flight[p] # 0 => flight[p] = k \/ flight'[p] = flight[p]
         /\ \A p \in Pane, r \in Run : parked'[p][r] # {} => flight'[p] # 0
         /\ \A j \in Slot : act'[j].phase # "entering" \/ act'[j] = act[j]
<1>1. act[k].pane \in Pane /\ k # 0
  BY FlightFields, Bounds DEF Held
<1>2. \A p \in Pane : flight[p] \in Slot \cup {0} /\ (flight[p] = k => p = act[k].pane)
  BY Bounds DEF Held, TypeOK, FlightInv
<1>3. \A p \in Pane : flight'[p] = IF flight[p] = k THEN 0 ELSE flight[p]
  BY <1>1, <1>2 DEF EndFlight, Held, TypeOK
<1>4. \A p \in Pane, r \in Run : parked'[p][r] = IF flight[p] = k THEN {} ELSE parked[p][r]
  BY <1>1, <1>2 DEF EndFlight, Current, Held, TypeOK
<1>5. \A j \in Slot : act'[j] = IF j = k THEN Done ELSE act[j]
  BY DEF EndFlight, Held, TypeOK
<1>6. \A p \in Pane, r \in Run : parked'[p][r] # {} => flight'[p] # 0
  BY <1>1, <1>3, <1>4 DEF Held, PointerInv
<1> QED BY <1>1, <1>2, <1>3, <1>5, <1>6 DEF Done

LEMMA EndHolds ==
  ASSUME Held, NEW k \in Slot, act[k] \in Flight, EndFlight(k),
         UNCHANGED <<typed, alive, writable>>,
         \A r \in Run : mark'[r].active => mark'[r] = mark[r] /\ flight[mark[r].pane] # k
  PROVE  Goal
<1>1. FlightInv' /\ PromptInv' /\ EnterStep
  <2>1. FlightInv'
    BY EndFacts DEF Held, FlightInv
  <2>2. PromptInv'
    <3>1. alive \subseteq Pane
      BY DEF Held, TypeOK
    <3> QED BY <3>1, EndFacts DEF Held, PromptInv, Written
  <2>3. EnterStep
    BY EndFacts DEF EnterStep
  <2> QED BY <2>1, <2>2, <2>3
<1>2. ASSUME NEW r \in Run, mark'[r].active
      PROVE  LET j == flight'[mark'[r].pane]
             IN /\ mark'[r].pane # NoPane /\ j # 0
                /\ act'[j].run = r /\ act'[j].phase \in {"staged", "probing", "entering"}
                /\ Newest(act'[j].msgs) = mark'[r].seq
  <2>1. mark'[r] = mark[r] /\ mark[r].active /\ flight[mark[r].pane] # k
    BY <1>2
  <2>2. mark[r].pane \in Pane
    BY <2>1 DEF Held, TypeOK, PointerInv, Mark, NoMark
  <2>3. flight[mark[r].pane] # 0
    BY <2>1 DEF Held, PointerInv
  <2>4. flight'[mark[r].pane] = flight[mark[r].pane]
    BY <2>1, <2>2, <2>3, EndFacts
  <2>5. act'[flight[mark[r].pane]] = act[flight[mark[r].pane]]
    BY <2>2, <2>3, <2>4, EndFacts
  <2> QED BY <2>1, <2>4, <2>5 DEF Held, PointerInv
<1>3. PointerInv'
  BY <1>2, EndFacts DEF PointerInv
<1> QED BY <1>1, <1>3 DEF Goal

LEMMA FinalizeHolds ==
  ASSUME Held, NEW k \in Slot, act[k] \in Flight, act[k].phase # "writing",
         NEW outcome, Finalize(k, outcome), UNCHANGED <<alive, writable>>
  PROVE  Goal
<1> DEFINE f == act[k]
           mine == mark[f.run].pane = f.pane /\ mark[f.run].seq = Newest(f.msgs)
<1>1. \A r \in Run : mark'[r].active => mark'[r] = mark[r] /\ ~(mine /\ r = f.run)
  BY FlightFields DEF Held, TypeOK, Finalize, NoMark, Mark
<1>2. ASSUME NEW r \in Run, mark'[r].active
      PROVE  mark'[r] = mark[r] /\ flight[mark[r].pane] # k
  <2>1. mark'[r] = mark[r] /\ mark[r].active /\ ~(mine /\ r = f.run)
    BY <1>1, <1>2
  <2>2. mark[r].pane \in Pane
    BY <2>1 DEF Held, TypeOK, PointerInv, Mark, NoMark
  <2>3. SUFFICES ASSUME flight[mark[r].pane] = k
                 PROVE  FALSE
    BY <2>1
  <2>4. f.pane = mark[r].pane /\ f.run = r /\ Newest(f.msgs) = mark[r].seq
    BY <2>1, <2>2, <2>3, Bounds DEF Held, FlightInv, PointerInv
  <2> QED BY <2>1, <2>4
<1>3. EndFlight(k) /\ UNCHANGED typed
  BY DEF Finalize, shown
<1> QED BY <1>2, <1>3, EndHolds

LEMMA WriteDoneHolds ==
  ASSUME Held, NEW k \in Slot, WriteDone(k)
  PROVE  Goal
<1> DEFINE f == act[k]
<1>1. f \in Flight /\ f.phase = "writing" /\ f.run \in Run /\ f.pane \in Pane
  BY FlightFields DEF WriteDone, Held
<1>2. UNCHANGED <<typed, alive, writable>>
  BY DEF WriteDone, shown, paneVars
<1>3. CASE EndFlight(k) /\ (UNCHANGED mark \/ mark' = [mark EXCEPT ![f.run] = NoMark])
  <2>1. ASSUME NEW r \in Run, mark'[r].active
        PROVE  mark'[r] = mark[r] /\ flight[mark[r].pane] # k
    <3>1. mark'[r] = mark[r] /\ mark[r].active
      <4>1. mark'[r] = mark[r] \/ mark'[r] = NoMark
        BY <1>3 DEF Held, TypeOK
      <4> QED BY <2>1, <4>1 DEF NoMark
    <3> QED BY <1>1, <3>1 DEF Held, PointerInv
  <2> QED BY <1>1, <1>2, <1>3, <2>1, EndHolds
<1>4. CASE /\ f.ok /\ Current(k)
           /\ mark' = [mark EXCEPT ![f.run] = [pane |-> f.pane, seq |-> Newest(f.msgs), active |-> TRUE]]
           /\ act' = [act EXCEPT ![k].phase = "staged"]
           /\ UNCHANGED <<flight, parked>>
  <2>1. flight[f.pane] = k /\ k # 0
    BY <1>4, Bounds DEF Current
  <2>2. /\ act'[k] = [f EXCEPT !.phase = "staged"]
        /\ \A j \in Slot : j # k => act'[j] = act[j]
    BY <1>4 DEF Held, TypeOK
  <2>3. /\ act'[k].pane = f.pane /\ act'[k].phase = "staged" /\ act'[k].msgs = f.msgs
        /\ act'[k].run = f.run
    BY <1>1, <2>2 DEF Flight
  <2>4. \A p \in Pane : flight[p] \in Slot \cup {0}
    BY DEF Held, TypeOK
  <2>5. FlightInv'
    BY <1>2, <1>4, <2>2, <2>3, <2>4 DEF Held, FlightInv
  <2>6. PromptInv'
    <3>1. alive \subseteq Pane
      BY DEF Held, TypeOK
    <3>2. Written(k)
      BY <1>1, <1>4 DEF Written
    <3> QED BY <1>2, <1>4, <2>2, <2>3, <2>4, <3>1, <3>2 DEF Held, PromptInv, Written
  <2>7. EnterStep
    BY <2>2, <2>3 DEF EnterStep
  <2>8. ASSUME NEW r \in Run, mark'[r].active
        PROVE  LET j == flight'[mark'[r].pane]
               IN /\ mark'[r].pane # NoPane /\ j # 0
                  /\ act'[j].run = r /\ act'[j].phase \in {"staged", "probing", "entering"}
                  /\ Newest(act'[j].msgs) = mark'[r].seq
    <3>1. CASE r = f.run
      <4>1. mark'[r] = [pane |-> f.pane, seq |-> Newest(f.msgs), active |-> TRUE]
        BY <1>1, <1>4, <3>1 DEF Held, TypeOK
      <4> QED BY <1>1, <1>4, <2>1, <2>3, <3>1, <4>1, NilFacts
    <3>2. CASE r # f.run
      <4>1. mark'[r] = mark[r] /\ mark[r].active
        BY <1>1, <1>4, <2>8, <3>2 DEF Held, TypeOK
      <4>2. mark[r].pane \in Pane
        BY <4>1 DEF Held, TypeOK, Mark, NoMark
      <4>3. flight[mark[r].pane] # k /\ flight[mark[r].pane] \in Slot
        BY <1>1, <2>4, <4>1, <4>2 DEF Held, PointerInv
      <4> QED BY <1>4, <2>2, <4>1, <4>3 DEF Held, PointerInv
    <3> QED BY <3>1, <3>2
  <2>9. PointerInv'
    BY <1>4, <2>8 DEF Held, PointerInv
  <2> QED BY <2>5, <2>6, <2>7, <2>9 DEF Goal
<1>5. \/ EndFlight(k) /\ (UNCHANGED mark \/ mark' = [mark EXCEPT ![f.run] = NoMark])
      \/ /\ f.ok /\ Current(k)
         /\ mark' = [mark EXCEPT ![f.run] = [pane |-> f.pane, seq |-> Newest(f.msgs), active |-> TRUE]]
         /\ act' = [act EXCEPT ![k].phase = "staged"]
         /\ UNCHANGED <<flight, parked>>
  BY DEF WriteDone
<1> QED BY <1>3, <1>4, <1>5

LEMMA FlightExcept ==
  ASSUME NEW f \in Flight, NEW phase, NEW ok
  PROVE  LET g == [f EXCEPT !.phase = phase, !.ok = ok]
         IN g.phase = phase /\ g.pane = f.pane /\ g.run = f.run /\ g.msgs = f.msgs
  BY DEF Flight

\* A flight that only changes phase.
LEMMA PhaseHolds ==
  ASSUME Held, NEW k \in Slot, NEW phase \in Phase, NEW ok \in BOOLEAN,
         act[k] \in Flight,
         act' = [act EXCEPT ![k] = [@ EXCEPT !.phase = phase, !.ok = ok]],
         UNCHANGED <<flight, mark, parked, alive, writable>>,
         phase # "writing",
         act[k].phase \in {"staged", "probing", "entering"},
         \/ phase = "probing" /\ act[k].phase # "entering" /\ UNCHANGED typed
         \/ phase = "entering" /\ Current(k) /\ \A p \in Pane \ {act[k].pane} : typed'[p] = typed[p]
  PROVE  Goal
<1>1. /\ act'[k] = [act[k] EXCEPT !.phase = phase, !.ok = ok]
      /\ \A j \in Slot : j # k => act'[j] = act[j]
  BY DEF Held, TypeOK
<1>2. /\ act'[k].pane = act[k].pane /\ act'[k].phase = phase /\ act'[k].msgs = act[k].msgs
      /\ act'[k].run = act[k].run /\ act[k].pane \in Pane
  <2>1. act[k].pane \in Pane
    BY FlightFields DEF Held
  <2>2. LET g == [act[k] EXCEPT !.phase = phase, !.ok = ok]
        IN g.phase = phase /\ g.pane = act[k].pane /\ g.run = act[k].run /\ g.msgs = act[k].msgs
    BY FlightExcept
  <2> QED BY <1>1, <2>1, <2>2
<1>3. \A p \in Pane : flight[p] \in Slot \cup {0}
  BY DEF Held, TypeOK
<1>4. FlightInv'
  BY <1>1, <1>2, <1>3 DEF Held, FlightInv, Phase
<1>5. PromptInv'
  <2>1. alive \subseteq Pane
    BY DEF Held, TypeOK
  <2>2. ASSUME NEW p \in alive, flight[p] # 0, Written(flight[p])'
        PROVE  act'[flight[p]].msgs \subseteq typed'[p]
    <3>1. p \in Pane /\ act[flight[p]].pane = p
      BY <2>1, <2>2 DEF Held, FlightInv
    <3>2. CASE flight[p] = k
      <4>1. phase = "probing" /\ act[k].phase # "entering" /\ UNCHANGED typed
        BY <1>2, <2>2, <3>2 DEF Written
      <4>2. Written(k)
        BY <4>1 DEF Written
      <4> QED BY <1>2, <2>2, <3>2, <4>1, <4>2 DEF Held, PromptInv
    <3>3. CASE flight[p] # k
      <4>1. act'[flight[p]] = act[flight[p]]
        BY <1>1, <1>3, <2>2, <3>1, <3>3
      <4>2. typed'[p] = typed[p]
        BY <3>1, <3>3 DEF Current
      <4> QED BY <2>2, <4>1, <4>2 DEF Held, PromptInv, Written
    <3> QED BY <3>2, <3>3
  <2> QED BY <2>2 DEF Held, PromptInv
<1>6. EnterStep
  <2>1. SUFFICES ASSUME act[k].phase = "probing", phase = "entering", act[k].pane \in alive
                 PROVE  act[k].msgs \subseteq typed[act[k].pane]
    BY <1>1, <1>2 DEF EnterStep
  <2>2. flight[act[k].pane] = k /\ k # 0 /\ Written(k)
    BY <2>1, Bounds DEF Current, Written
  <2> QED BY <2>1, <2>2 DEF Held, PromptInv
<1>7. PointerInv'
  BY <1>1, <1>2, <1>3 DEF Held, PointerInv
<1> QED BY <1>4, <1>5, <1>6, <1>7 DEF Goal

LEMMA EnterTimerHolds ==
  ASSUME Held, NEW k \in Slot, EnterTimer(k)
  PROVE  Goal
<1>1. act[k] \in Flight /\ act[k].phase = "staged" /\ act[k].ok \in BOOLEAN
  BY FlightFields DEF EnterTimer, Held
<1>2. [act[k] EXCEPT !.phase = "probing", !.ok = act[k].ok] = [act[k] EXCEPT !.phase = "probing"]
  BY <1>1 DEF Flight
<1>3. act' = [act EXCEPT ![k] = [act[k] EXCEPT !.phase = "probing", !.ok = act[k].ok]]
  BY <1>2 DEF EnterTimer
<1>4. "probing" \in Phase /\ UNCHANGED <<flight, mark, parked, alive, writable, typed>>
  BY DEF Phase, EnterTimer, paneVars, shown
<1> QED BY <1>1, <1>3, <1>4, PhaseHolds

LEMMA SubmitHolds ==
  ASSUME Held, NEW k \in Slot, NEW absent \in BOOLEAN, Submit(k, absent)
  PROVE  Goal
<1>1. /\ act[k] \in Flight /\ act[k].phase = "probing" /\ act[k].pane \in Pane
      /\ UNCHANGED <<alive, writable>>
  BY SubmitCases, FlightFields DEF Held, paneVars
<1>2. ASSUME NEW outcome \in {"withdrawn", "taken", "left"}, Finalize(k, outcome)
      PROVE  Goal
  BY <1>1, <1>2, FinalizeHolds
<1>3. ASSUME Retired(k), act[k].phase = "probing", ~Current(k)
      PROVE  Goal
  <2>1. \A j \in Slot : act'[j] = IF j = k THEN Done ELSE act[j]
    BY <1>3 DEF Retired, Held, TypeOK
  <2>2. UNCHANGED <<flight, mark, parked, typed, alive, writable>>
    BY <1>1, <1>3 DEF Retired, shown
  <2>3. \A p \in Pane : flight[p] # 0 => flight[p] # k /\ act'[flight[p]] = act[flight[p]]
    BY <1>3, <2>1 DEF Held, TypeOK, FlightInv, Current
  <2>4. FlightInv' /\ PromptInv'
    <3>1. alive \subseteq Pane
      BY DEF Held, TypeOK
    <3> QED BY <2>2, <2>3, <3>1 DEF Held, FlightInv, PromptInv, Written
  <2>5. PointerInv'
    <3>1. ASSUME NEW r \in Run, mark[r].active
          PROVE  mark[r].pane \in Pane /\ flight[mark[r].pane] # 0
      BY <3>1 DEF Held, TypeOK, PointerInv, Mark, NoMark
    <3> QED BY <2>2, <2>3, <3>1 DEF Held, PointerInv
  <2>6. EnterStep
    BY <2>1 DEF EnterStep, Done
  <2> QED BY <2>4, <2>5, <2>6 DEF Goal
<1>4. ASSUME Current(k), PressEnter(k)
      PROVE  Goal
  <2>1. PICK ok \in BOOLEAN :
          /\ act' = [act EXCEPT ![k].phase = "entering", ![k].ok = ok]
          /\ typed' \in {typed, [typed EXCEPT ![act[k].pane] = {}]}
          /\ UNCHANGED <<flight, mark, parked>>
    BY <1>4 DEF PressEnter, shown
  <2>2. \A p \in Pane \ {act[k].pane} : typed'[p] = typed[p]
    BY <2>1 DEF Held, TypeOK
  <2>3. act' = [act EXCEPT ![k] = [act[k] EXCEPT !.phase = "entering", !.ok = ok]]
    BY <2>1 DEF Held, TypeOK
  <2>4. "entering" \in Phase
    BY DEF Phase
  <2> QED BY <1>1, <1>4, <2>1, <2>2, <2>3, <2>4, PhaseHolds
<1>5. \/ \E outcome \in {"withdrawn", "taken", "left"} : Finalize(k, outcome)
      \/ Retired(k) /\ ~Current(k)
      \/ Current(k) /\ PressEnter(k)
  BY DEF Submit
<1> QED BY <1>1, <1>2, <1>3, <1>4, <1>5

LEMMA EnterDoneHolds ==
  ASSUME Held, NEW k \in Slot, EnterDone(k)
  PROVE  Goal
<1>1. act[k] \in Flight /\ act[k].phase = "entering" /\ UNCHANGED <<alive, writable>>
  BY FlightFields DEF EnterDone, Held, paneVars
<1>2. PICK outcome : Finalize(k, outcome)
  BY DEF EnterDone
<1> QED BY <1>1, <1>2, FinalizeHolds

\* A new flight begins where none is.
LEMMA StageHolds ==
  ASSUME Held, NEW r \in Run, NEW p \in Pane, NEW B \in SUBSET Msg, B # {},
         flight[p] = 0, p \in writable,
         UNCHANGED <<alive, writable>>, Release(r, Newest(B)) /\ ~mark[r].active, Stage(r, p, B)
  PROVE  Goal
<1>1. PICK k \in Slot, ok \in BOOLEAN :
        /\ act[k].phase = "done"
        /\ act' = [act EXCEPT ![k] = [phase |-> "writing", pane |-> p, run |-> r, msgs |-> B, ok |-> ok]]
        /\ flight' = [flight EXCEPT ![p] = k]
        /\ typed' = [typed EXCEPT ![p] = IF ok /\ p \in alive THEN @ \cup B ELSE @]
        /\ UNCHANGED parked
  BY DEF Stage
<1>2. /\ act'[k] = [phase |-> "writing", pane |-> p, run |-> r, msgs |-> B, ok |-> ok]
      /\ \A j \in Slot : j # k => act'[j] = act[j]
      /\ flight'[p] = k /\ k # 0
      /\ \A q \in Pane : q # p => flight'[q] = flight[q] /\ typed'[q] = typed[q]
  BY <1>1, Bounds DEF Held, TypeOK
<1>3. \A q \in Pane : flight[q] # 0 => flight[q] \in Slot /\ flight[q] # k /\ q # p
  BY <1>1 DEF Held, TypeOK, FlightInv
<1>4. FlightInv'
  BY <1>2, <1>3 DEF Held, FlightInv
<1>5. PromptInv'
  <2>1. ok /\ p \in alive => B \subseteq typed'[p]
    BY <1>1 DEF Held, TypeOK
  <2>2. alive \subseteq Pane
    BY DEF Held, TypeOK
  <2> QED BY <1>2, <1>3, <2>1, <2>2 DEF Held, PromptInv, Written
<1>6. EnterStep
  BY <1>2 DEF EnterStep
<1>7. PointerInv'
  <2>1. \A q \in Run : mark'[q].active => mark'[q] = mark[q]
    BY DEF Release, Held, TypeOK, NoMark
  <2>2. ASSUME NEW q \in Run, mark'[q].active
        PROVE  /\ flight'[mark'[q].pane] = flight[mark[q].pane]
               /\ act'[flight[mark[q].pane]] = act[flight[mark[q].pane]]
    <3>1. mark'[q] = mark[q] /\ mark[q].pane \in Pane /\ flight[mark[q].pane] # 0
      BY <2>1, <2>2 DEF Held, TypeOK, PointerInv, Mark, NoMark
    <3> QED BY <1>2, <1>3, <3>1
  <2>3. \A q \in Pane, s \in Run : parked'[q][s] # {} => flight'[q] # 0
    BY <1>1, <1>2 DEF Held, PointerInv
  <2> QED BY <2>1, <2>2, <2>3 DEF Held, PointerInv
<1> QED BY <1>4, <1>5, <1>6, <1>7 DEF Goal

LEMMA DeliverHolds ==
  ASSUME Held, NEW r \in Run, NEW p \in Pane, NEW R \in SUBSET Type, NEW probed \in BOOLEAN,
         Deliver(r, p, R, probed), UNCHANGED <<alive, writable>>
  PROVE  Goal
<1> DEFINE B == Batch(r, R)
           n == Newest(B)
<1>1. CASE UNCHANGED <<stateVars, probing, shown>>
  BY <1>1, Untouched DEF stateVars, shown
<1>2. CASE /\ flight[p] # 0
           /\ parked' = [parked EXCEPT ![p][r] = Merge(@, {R})]
           /\ UNCHANGED <<flight, act, mark, redelivery, probing, shown>>
  <2>1. \A q \in Pane, s \in Run : parked'[q][s] = parked[q][s] \/ q = p
    BY <1>2 DEF Held, TypeOK
  <2>2. UNCHANGED <<flight, act, mark, typed>>
    BY <1>2 DEF shown
  <2>3. FlightInv' /\ PromptInv' /\ EnterStep
    BY <2>2 DEF Held, FlightInv, PromptInv, EnterStep, Written
  <2>4. PointerInv'
    BY <1>2, <2>1, <2>2 DEF Held, PointerInv
  <2> QED BY <2>3, <2>4 DEF Goal
<1>3. CASE UNCHANGED <<flight, act, mark, parked, probing, shown>>
  BY <1>3, Untouched DEF shown
<1>4. CASE /\ flight[p] = 0 /\ ~mark[r].active
           /\ Release(r, n)
           /\ UNCHANGED <<flight, act, parked, redelivery, shown>>
  <2>1. UNCHANGED <<flight, act, parked, typed>>
    BY <1>4 DEF shown
  <2>2. \A q \in Run : mark'[q].active => mark'[q] = mark[q]
    BY <1>4 DEF Release, Held, TypeOK, NoMark
  <2>3. FlightInv' /\ PromptInv' /\ EnterStep
    BY <2>1 DEF Held, FlightInv, PromptInv, EnterStep, Written
  <2>4. PointerInv'
    BY <2>1, <2>2 DEF Held, PointerInv
  <2> QED BY <2>3, <2>4 DEF Goal
<1>5. CASE /\ flight[p] = 0 /\ ~mark[r].active /\ B # {} /\ p \in writable
           /\ Release(r, n) /\ Stage(r, p, B)
  <2>1. B \in SUBSET Msg
    BY BatchType
  <2> QED BY <1>5, <2>1, StageHolds
<1> QED BY <1>1, <1>2, <1>3, <1>4, <1>5 DEF Deliver, Clear

LEMMA DriveHolds ==
  ASSUME Held, NEW j \in todo, Drive(j)
  PROVE  Goal
<1>1. UNCHANGED <<alive, writable>>
  BY DEF Drive, paneVars
<1>2. CASE UNCHANGED <<stateVars, probing, shown>>
  BY <1>1, <1>2, Untouched DEF stateVars, shown
<1>3. CASE \E r \in Run, p \in Pane, R \in SUBSET Type, probed \in BOOLEAN : Deliver(r, p, R, probed)
  BY <1>1, <1>3, DeliverHolds
<1> QED BY <1>2, <1>3, DriveCases DEF Held

LEMMA DieHolds ==
  ASSUME Held, NEW p \in Pane, Die(p)
  PROVE  Goal
<1>1. /\ alive' = alive \ {p} /\ UNCHANGED <<flight, act, mark, parked, writable>>
      /\ \A q \in Pane : q # p => typed'[q] = typed[q]
  BY DEF Die, Held, TypeOK, stateVars
<1>2. alive \subseteq Pane
  BY DEF Held, TypeOK
<1> QED BY <1>1, <1>2 DEF Held, Goal, FlightInv, PromptInv, PointerInv, EnterStep, Written

\* The runtime has forgotten the flight of a terminal that comes back.
LEMMA RespawnHolds ==
  ASSUME Held, NEW p \in Pane, Respawn(p)
  PROVE  Goal
<1>1. /\ alive' = alive \cup {p} /\ writable' = writable \cup {p} /\ p \notin writable
      /\ UNCHANGED <<flight, act, mark, parked, typed>>
  BY DEF Respawn, stateVars, shown
<1>2. flight[p] = 0
  BY <1>1 DEF Held, FlightInv
<1> QED BY <1>1, <1>2 DEF Held, Goal, FlightInv, PromptInv, PointerInv, EnterStep, Written

LEMMA ExitHolds ==
  ASSUME Held, NEW p \in Pane, Exit(p)
  PROVE  Goal
<1>1. /\ p \notin alive /\ writable' = writable \ {p}
      /\ flight' = [flight EXCEPT ![p] = 0]
      /\ parked' = [parked EXCEPT ![p] = [r \in Run |-> {}]]
      /\ act' = IF flight[p] # 0 /\ act[flight[p]].phase = "staged"
                THEN [act EXCEPT ![flight[p]] = Done] ELSE act
      /\ \A r \in Run : mark'[r] = IF mark[r].pane = p THEN NoMark ELSE mark[r]
      /\ UNCHANGED <<alive, typed>>
  BY DEF Exit, shown
<1>2. /\ flight'[p] = 0 /\ \A q \in Pane : q # p => flight'[q] = flight[q]
      /\ \A r \in Run : parked'[p][r] = {} /\ \A q \in Pane : q # p => parked'[q][r] = parked[q][r]
  BY <1>1 DEF Held, TypeOK
<1>3. \A q \in Pane : q # p /\ flight[q] # 0 => act'[flight[q]] = act[flight[q]]
  BY <1>1 DEF Held, TypeOK, FlightInv
<1>4. \A j \in Slot : act'[j] = act[j] \/ act'[j] = Done
  BY <1>1 DEF Held, TypeOK
<1>5. FlightInv' /\ PromptInv'
  <2>1. alive \subseteq Pane
    BY DEF Held, TypeOK
  <2> QED BY <1>1, <1>2, <1>3, <2>1 DEF Held, FlightInv, PromptInv, Written
<1>6. PointerInv'
  <2>1. ASSUME NEW r \in Run, mark'[r].active
        PROVE  /\ mark'[r] = mark[r] /\ mark[r].pane \in Pane /\ mark[r].pane # p
               /\ flight[mark[r].pane] # 0
    <3>1. mark'[r] = mark[r] /\ mark[r].pane # p
      BY <1>1, <2>1 DEF NoMark
    <3> QED BY <2>1, <3>1 DEF Held, TypeOK, PointerInv, Mark, NoMark
  <2>2. \A q \in Pane, r \in Run : parked'[q][r] # {} => flight'[q] # 0
    BY <1>2 DEF Held, PointerInv
  <2> QED BY <1>2, <1>3, <2>1, <2>2 DEF Held, PointerInv
<1>7. EnterStep
  BY <1>4 DEF EnterStep, Done
<1> QED BY <1>5, <1>6, <1>7 DEF Goal

LEMMA RestartHolds ==
  ASSUME Held, Restart
  PROVE  Goal
<1>1. /\ flight' = [p \in Pane |-> 0] /\ act' = [k \in Slot |-> Done]
      /\ mark' = [r \in Run |-> NoMark]
      /\ parked' = [p \in Pane |-> [r \in Run |-> {}]]
      /\ UNCHANGED <<alive, writable, typed>>
  BY DEF Restart, shown
<1>2. alive \subseteq Pane
  BY DEF Held, TypeOK
<1>3. FlightInv'
  BY <1>1, <1>2 DEF Held, FlightInv
<1>4. PromptInv'
  BY <1>1, <1>2 DEF Held, PromptInv, Written
<1>5. PointerInv'
  BY <1>1 DEF PointerInv, NoMark
<1>6. EnterStep
  BY <1>1 DEF EnterStep, Done
<1> QED BY <1>3, <1>4, <1>5, <1>6 DEF Goal

LEMMA PointerStep ==
  ASSUME Held, [Next]_vars
  PROVE  Goal
<1>1. CASE RuntimeStep
  <2>1. ASSUME \/ \E p \in Pane, absent \in BOOLEAN : ProbeAnswers(p, absent)
               \/ \E r \in Run : RepointFires(r)
        PROVE  Goal
    <3>1. UNCHANGED <<stateVars, paneVars, shown>>
      BY <2>1 DEF ProbeAnswers, RepointFires
    <3> QED BY <3>1, Untouched DEF stateVars, paneVars, shown
  <2> QED BY <1>1, <2>1, DriveHolds, WriteDoneHolds, EnterTimerHolds, EnterDoneHolds, SubmitHolds
          DEF RuntimeStep
<1>2. CASE PaneStep
  <2>1. ASSUME NEW p \in Pane, GoesIdle(p) \/ GoesBusy(p)
        PROVE  Goal
    <3>1. UNCHANGED <<stateVars, alive, writable, shown>>
      BY <2>1 DEF GoesIdle, GoesBusy
    <3> QED BY <3>1, Untouched DEF stateVars, shown
  <2> QED BY <1>2, <2>1, DieHolds, ExitHolds, RespawnHolds, RestartHolds DEF PaneStep
<1>3. CASE MailStep
  <2>1. UNCHANGED <<stateVars, paneVars, shown>>
    BY <1>3 DEF MailStep, Send, Check, Wait, WaitEnds, Bind
  <2> QED BY <2>1, Untouched DEF stateVars, paneVars, shown
<1>4. CASE UNCHANGED vars
  BY <1>4, Untouched DEF vars, stateVars, paneVars, shown
<1> QED BY <1>1, <1>2, <1>3, <1>4 DEF Next

LEMMA AlwaysHeld == Spec => []Held
<1>1. Init => FlightInv /\ PromptInv /\ PointerInv
  BY DEF Init, FlightInv, PromptInv, PointerInv, NoMark
<1>2. TypeOK /\ FlightInv /\ PromptInv /\ PointerInv /\ [Next]_vars => (FlightInv /\ PromptInv /\ PointerInv)'
  BY PointerStep DEF Held, Goal
<1>3. Spec => [](FlightInv /\ PromptInv /\ PointerInv)
  BY <1>1, <1>2, TypeCorrect, PTL DEF Spec
<1> QED BY <1>3, TypeCorrect, PTL DEF Held

\* Nothing parked waits for nothing, whatever is late, refused or overtaken: the
\* watermark that holds a mailbox back belongs to a flight that is still to be
\* finalized, and what waits for a terminal waits for its flight.
THEOREM NothingWaitsForNothing == Spec => []PointerInv
<1>1. Held => PointerInv
  BY DEF Held
<1> QED BY <1>1, AlwaysHeld, PTL

\* Enter is never pressed in a process that was not given the text, through exits,
\* respawns under the same id, restarts and late answers.
THEOREM EnterIsNotMisplaced == Spec => EnterHitsItsText
<1>1. Held /\ [Next]_vars => [EnterStep]_vars
  BY PointerStep DEF Goal
<1>2. Spec => [][EnterStep]_vars
  BY <1>1, AlwaysHeld, PTL DEF Spec
<1> QED BY <1>2, PTL DEF EnterHitsItsText, EnterStep

-----------------------------------------------------------------------------
(***************************************************************************)
(* Enter is pressed once for a message, unless a Run overtakes its own     *)
(* flight or a late answer is taken for the terminal's next process.       *)
(*                                                                         *)
(* ToldInv is what matters: what a process was told counts as delivered or *)
(* read, and no flight but one whose Enter was pressed carries it.  It is  *)
(* kept because a Run has one flight at a time (LoneInv): the text is      *)
(* written into the pane the Run has (HomeInv), then the watermark holds   *)
(* the mailbox, and a flight that was retired cannot release it (LateInv). *)
(***************************************************************************)
OnTime == "overtake" \notin Ops /\ "late_answer" \notin Ops

Announces(p) == flight[p] # 0 /\ act[flight[p]].phase \in {"staged", "probing", "entering"}

HomeInv ==
  /\ \A j \in todo : j.pane # NoPane => owner[j.run] = j.pane
  /\ \A p \in Pane : probing[p] # NoRun => owner[probing[p]] = p
  /\ \A k \in Slot : act[k].phase = "writing" => owner[act[k].run] = act[k].pane

LateInv ==
  /\ \A k \in Slot : act[k].phase = "entering" => Current(k) \/ act[k].pane \notin writable
  /\ \A r \in Run : mark[r].pane # NoPane => mark[r].pane \in writable

LoneInv ==
  /\ \A p, q \in Pane :
       flight[p] # 0 /\ flight[q] # 0 /\ act[flight[p]].run = act[flight[q]].run => p = q
  /\ \A p \in Pane : Announces(p) =>
       mark[act[flight[p]].run] = [pane |-> p, seq |-> Newest(act[flight[p]].msgs), active |-> TRUE]

MailInv ==
  \A p \in Pane : flight[p] # 0 =>
    /\ \A m \in act[flight[p]].msgs : msgRun[m] = act[flight[p]].run
    /\ Announces(p) => act[flight[p]].msgs \subseteq delivered \cup read

ToldInv ==
  /\ \A p \in Pane : told[p] \subseteq delivered \cup read
  /\ \A p \in Pane : p \notin alive => told[p] = {}
  /\ \A p, q \in Pane : flight[p] # 0 /\ (q # p \/ act[flight[p]].phase # "entering")
       => act[flight[p]].msgs \cap told[q] = {}

ToldStep ==
  \A k \in Slot :
    act[k].phase = "probing" /\ act'[k].phase = "entering"
    => act[k].msgs \cap told[act[k].pane] = {}

Kept == Held /\ HomeInv /\ LateInv /\ LoneInv /\ MailInv /\ ToldInv
Keeps == LateInv' /\ LoneInv' /\ MailInv' /\ ToldInv' /\ ToldStep

\* Where the jobs of a segment go.
LEMMA JobHomes ==
  ASSUME TypeOK
  PROVE  /\ \A re, r, force : \A j \in Redrive(re, r, force).jobs : j.pane = NoPane
         /\ \A re : \A k \in Slot : \A j \in Settle(re, k).jobs :
              j.pane # NoPane => owner[j.run] = j.pane
<1>1. ASSUME NEW re, NEW r, NEW force, NEW j \in Redrive(re, r, force).jobs
      PROVE  j.pane = NoPane
  BY DEF Redrive, JobFor
<1>2. ASSUME NEW re, NEW k \in Slot, NEW j \in Settle(re, k).jobs, j.pane # NoPane
      PROVE  owner[j.run] = j.pane
  <2> DEFINE p == act[k].pane
             behind == IF Current(k) THEN { r \in Run : parked[p][r] # {} } ELSE {}
             moved == { r \in behind : owner[r] # p }
  <2>1. PICK r \in behind :
          j \in IF r \in moved THEN { JobFor(r, NoPane, R) : R \in Merge(re[r], parked[p][r]) }
                ELSE { JobFor(r, p, R) : R \in parked[p][r] }
    BY DEF Settle
  <2>2. r \notin moved /\ \E R \in parked[p][r] : j = JobFor(r, p, R)
    BY <1>2, <2>1 DEF JobFor
  <2>3. j.run = r /\ j.pane = p
    BY <2>2 DEF JobFor
  <2> QED BY <2>1, <2>2, <2>3
<1> QED BY <1>1, <1>2

\* The live flights of other panes are of other Runs, with other mail.
LEMMA Apart ==
  ASSUME Kept, NEW p \in Pane, NEW q \in Pane, p # q, flight[p] # 0, flight[q] # 0
  PROVE  /\ act[flight[p]].run # act[flight[q]].run
         /\ act[flight[p]].msgs \cap act[flight[q]].msgs = {}
  BY DEF Kept, LoneInv, MailInv

\* Steps that touch no flight, and forget no delivery.
LEMMA StillKeeps ==
  ASSUME Kept, UNCHANGED <<flight, act, mark, told>>,
         delivered \cup read \subseteq delivered' \cup read',
         alive' \subseteq Pane, \A p \in Pane : told[p] # {} => p \in alive',
         writable \subseteq writable',
         \A k \in Slot : act[k].phase = "entering" /\ act[k].pane \notin writable
                         => act[k].pane \notin writable',
         \A m \in Msg : msgRun[m] # NoRun => msgRun'[m] = msgRun[m]
  PROVE  Keeps
<1>1. LateInv'
  BY DEF Kept, LateInv, Current
<1>2. LoneInv'
  BY DEF Kept, LoneInv, Announces
<1>3. MailInv'
  <2>1. ASSUME NEW p \in Pane, flight[p] # 0, NEW m \in act[flight[p]].msgs
        PROVE  msgRun'[m] = act[flight[p]].run
    <3>1. flight[p] \in Slot /\ act[flight[p]] \in Flight
      BY <2>1, FlightFields DEF Kept, Held, TypeOK, FlightInv
    <3>2. act[flight[p]].run \in Run /\ m \in Msg
      BY <3>1, FlightType
    <3> QED BY <2>1, <3>2, NilFacts DEF Kept, MailInv
  <2> QED BY <2>1 DEF Kept, MailInv, Announces
<1>4. ToldInv'
  BY DEF Kept, ToldInv
<1>5. ToldStep
  BY DEF ToldStep
<1> QED BY <1>1, <1>2, <1>3, <1>4, <1>5 DEF Keeps

\* The end of a flight: its mail is undelivered only if no process was told of it.
LEMMA EndKeeps ==
  ASSUME Kept, NEW k \in Slot, act[k] \in Flight, EndFlight(k),
         UNCHANGED <<alive, writable, msgRun, read, told>>,
         \/ delivered \subseteq delivered'
         \/ /\ Current(k) /\ act[k].phase = "probing"
            /\ delivered' = delivered \ (act[k].msgs \ read),
         \A r \in Run : mark'[r] # mark[r] =>
            r = act[k].run /\ Current(k) /\ mark'[r].pane \in {mark[r].pane, NoPane}
  PROVE  Keeps
<1>1. Held
  BY DEF Kept
<1>2. /\ act[k].pane \in Pane /\ act[k].run \in Run /\ k # 0
      /\ Current(k) => flight[act[k].pane] = k
  BY <1>1, FlightFields, Bounds DEF Held, Current
<1>3. ASSUME NEW p \in Pane, flight'[p] # 0
      PROVE  /\ flight'[p] = flight[p] /\ flight[p] # 0 /\ flight[p] # k
             /\ act'[flight'[p]] = act[flight[p]] /\ act[flight[p]].run \in Run
             /\ Current(k) => /\ p # act[k].pane /\ act[flight[p]].run # act[k].run
                              /\ act[flight[p]].msgs \cap act[k].msgs = {}
  <2>1. flight'[p] = flight[p] /\ flight[p] # k /\ act'[flight[p]] = act[flight[p]]
    BY <1>1, <1>3, EndFacts
  <2>2. act[flight[p]].run \in Run
    <3>1. flight[p] \in Slot /\ act[flight[p]].phase # "done"
      BY <1>1, <1>3, <2>1 DEF Held, TypeOK, FlightInv
    <3> QED BY <1>1, <3>1, FlightFields DEF Held
  <2>3. Current(k) => p # act[k].pane
    BY <1>2, <2>1
  <2> QED BY <1>2, <1>3, <2>1, <2>2, <2>3, Apart
<1>4. LateInv'
  <2>1. ASSUME NEW j \in Slot, act'[j].phase = "entering"
        PROVE  (flight'[act'[j].pane] = j) \/ act'[j].pane \notin writable
    <3>1. act'[j] = act[j] /\ j # k
      <4>1. act'[k] = Done
        BY <1>1 DEF EndFlight, Held, TypeOK
      <4> QED BY <1>1, <2>1, <4>1, EndFacts DEF Done
    <3>2. act[j].pane \in Pane
      BY <1>1, <2>1, <3>1, FlightFields DEF Held
    <3>3. CASE flight[act[j].pane] = j
      BY <1>1, <3>1, <3>2, <3>3, EndFacts, Bounds
    <3>4. CASE act[j].pane \notin writable
      BY <3>1, <3>4
    <3> QED BY <2>1, <3>1, <3>3, <3>4 DEF Kept, LateInv, Current
  <2>2. ASSUME NEW r \in Run, mark'[r].pane # NoPane
        PROVE  mark'[r].pane \in writable
    BY <2>2 DEF Kept, LateInv
  <2> QED BY <2>1, <2>2 DEF LateInv, Current
<1>5. LoneInv'
  <2>1. ASSUME NEW p \in Pane, NEW q \in Pane, flight'[p] # 0, flight'[q] # 0,
               act'[flight'[p]].run = act'[flight'[q]].run
        PROVE  p = q
    BY <1>3, <2>1 DEF Kept, LoneInv
  <2>2. ASSUME NEW p \in Pane, flight'[p] # 0,
               act'[flight'[p]].phase \in {"staged", "probing", "entering"}
        PROVE  mark'[act'[flight'[p]].run]
                 = [pane |-> p, seq |-> Newest(act'[flight'[p]].msgs), active |-> TRUE]
    <3>1. mark'[act[flight[p]].run] = mark[act[flight[p]].run]
      BY <1>3, <2>2
    <3> QED BY <1>3, <2>2, <3>1 DEF Kept, LoneInv, Announces
  <2> QED BY <2>1, <2>2 DEF LoneInv, Announces
<1>6. MailInv'
  <2>1. ASSUME NEW p \in Pane, flight'[p] # 0
        PROVE  /\ \A m \in act'[flight'[p]].msgs : msgRun'[m] = act'[flight'[p]].run
               /\ act'[flight'[p]].phase \in {"staged", "probing", "entering"} =>
                    act'[flight'[p]].msgs \subseteq delivered' \cup read'
    BY <1>3, <2>1 DEF Kept, MailInv, Announces
  <2> QED BY <2>1 DEF MailInv, Announces
<1>7. ToldInv'
  <2>1. ASSUME NEW p \in Pane
        PROVE  told[p] \subseteq delivered' \cup read
    <3>1. CASE delivered \subseteq delivered'
      BY <3>1 DEF Kept, ToldInv
    <3>2. CASE /\ Current(k) /\ act[k].phase = "probing"
               /\ delivered' = delivered \ (act[k].msgs \ read)
      <4>1. act[k].msgs \cap told[p] = {}
        BY <1>2, <3>2 DEF Kept, ToldInv
      <4> QED BY <3>2, <4>1 DEF Kept, ToldInv
    <3> QED BY <3>1, <3>2
  <2>2. ASSUME NEW p \in Pane, NEW q \in Pane, flight'[p] # 0,
               q # p \/ act'[flight'[p]].phase # "entering"
        PROVE  act'[flight'[p]].msgs \cap told[q] = {}
    BY <1>3, <2>2 DEF Kept, ToldInv
  <2> QED BY <2>1, <2>2 DEF Kept, ToldInv
<1>8. ToldStep
  BY <1>1, EndFacts DEF ToldStep
<1> QED BY <1>4, <1>5, <1>6, <1>7, <1>8 DEF Keeps

\* A retired flight cannot release the watermark of another.
LEMMA FinalizeKeeps ==
  ASSUME Kept, NEW k \in Slot, act[k] \in Flight, NEW outcome, Finalize(k, outcome),
         act[k].phase = "entering" \/ (act[k].phase = "probing" /\ Current(k)),
         outcome = "withdrawn" => act[k].phase = "probing",
         UNCHANGED <<alive, writable, msgRun, read>>
  PROVE  Keeps
<1> DEFINE f == act[k]
           mine == mark[f.run].pane = f.pane /\ mark[f.run].seq = Newest(f.msgs)
<1>1. f.pane \in Pane /\ f.run \in Run /\ f.pane # NoPane
  BY FlightFields, NilFacts DEF Kept, Held
<1>2. mine => Current(k)
  BY <1>1 DEF Kept, LateInv
<1>3. ASSUME NEW r \in Run, mark'[r] # mark[r]
      PROVE  r = f.run /\ mine /\ mark'[r].pane \in {mark[r].pane, NoPane}
  <2>1. mark' \in {mark, [mark EXCEPT ![f.run].active = FALSE], [mark EXCEPT ![f.run] = NoMark]}
        /\ (mark' # mark => mine)
    BY DEF Finalize
  <2>2. r = f.run /\ mine
    BY <1>3, <2>1 DEF Kept, Held, TypeOK
  <2>3. CASE mark' = [mark EXCEPT ![f.run] = NoMark]
    BY <1>1, <2>2, <2>3 DEF Kept, Held, TypeOK, NoMark
  <2>4. CASE mark' = [mark EXCEPT ![f.run].active = FALSE]
    <3>1. mark[f.run] \in Mark
      BY <1>1, <2>2 DEF Kept, Held, TypeOK, NoMark
    <3>2. [mark[f.run] EXCEPT !.active = FALSE].pane = mark[f.run].pane
      BY <3>1 DEF Mark
    <3>3. mark'[f.run] = [mark[f.run] EXCEPT !.active = FALSE]
      BY <1>1, <2>4 DEF Kept, Held, TypeOK
    <3> QED BY <2>2, <3>2, <3>3
  <2> QED BY <1>3, <2>1, <2>2, <2>3, <2>4
<1>4. EndFlight(k) /\ UNCHANGED told
  BY DEF Finalize, shown
<1>5. CASE outcome = "withdrawn"
  <2>1. delivered' = delivered \ (f.msgs \ read)
    BY <1>5 DEF Finalize
  <2>2. f.phase = "probing" /\ Current(k)
    BY <1>5
  <2> QED BY <1>2, <1>3, <1>4, <2>1, <2>2, EndKeeps
<1>6. CASE outcome # "withdrawn"
  <2>1. delivered' = delivered
    BY <1>6 DEF Finalize
  <2> QED BY <1>2, <1>3, <1>4, <2>1, EndKeeps
<1> QED BY <1>5, <1>6

\* A current flight goes on: its text was written, or its Enter is pressed.
LEMMA OnKeeps ==
  ASSUME Kept, NEW k \in Slot, act[k] \in Flight, Current(k), NEW phase,
         act[k].phase # "entering",
         act'[k].phase = phase, act'[k].pane = act[k].pane, act'[k].run = act[k].run,
         act'[k].msgs = act[k].msgs, \A j \in Slot : j # k => act'[j] = act[j],
         UNCHANGED <<flight, alive, writable, msgRun, read>>,
         \/ /\ act[k].phase \in {"writing", "staged"} /\ phase \in {"staged", "probing"}
            /\ act[k].phase = "writing" => act[k].msgs \subseteq delivered'
            /\ delivered \subseteq delivered' /\ UNCHANGED told
         \/ /\ act[k].phase = "probing" /\ phase = "entering"
            /\ UNCHANGED delivered
            /\ told' \in {told, [told EXCEPT ![act[k].pane] = @ \cup act[k].msgs]}
            /\ told' # told => act[k].pane \in alive,
         \/ UNCHANGED mark /\ act[k].phase # "writing"
         \/ mark' = [mark EXCEPT ![act[k].run] =
                       [pane |-> act[k].pane, seq |-> Newest(act[k].msgs), active |-> TRUE]]
  PROVE  Keeps
<1> DEFINE f == act[k]
<1>1. Held
  BY DEF Kept
<1>2. /\ f.pane \in Pane /\ f.run \in Run /\ f.pane # NoPane /\ k # 0
      /\ flight[f.pane] = k /\ f.pane \in writable
  BY <1>1, FlightFields, NilFacts, Bounds DEF Held, FlightInv, Current
<1>3. ASSUME NEW p \in Pane, flight[p] # 0, p # f.pane
      PROVE  /\ flight[p] # k /\ act'[flight[p]] = act[flight[p]]
             /\ act[flight[p]].run # f.run /\ act[flight[p]].msgs \cap f.msgs = {}
             /\ act[flight[p]].run \in Run
  <2>1. flight[p] \in Slot /\ flight[p] # k /\ act[flight[p]].phase # "done"
    BY <1>1, <1>2, <1>3 DEF Held, TypeOK, FlightInv
  <2> QED BY <1>1, <1>2, <1>3, <2>1, Apart, FlightFields DEF Held
<1>4. LateInv'
  <2>1. \A j \in Slot : act'[j].phase = "entering" => flight[act'[j].pane] = j \/ act'[j].pane \notin writable
    BY <1>2 DEF Kept, LateInv, Current
  <2>2. ASSUME NEW r \in Run, mark'[r].pane # NoPane
        PROVE  mark'[r].pane \in writable
    <3>1. mark'[r] = mark[r] \/ mark'[r].pane = f.pane
      BY <1>1 DEF Held, TypeOK
    <3> QED BY <1>2, <2>2, <3>1 DEF Kept, LateInv
  <2> QED BY <2>1, <2>2 DEF LateInv, Current
<1>5. LoneInv'
  <2>1. \A p, q \in Pane :
          flight[p] # 0 /\ flight[q] # 0 /\ act'[flight[p]].run = act'[flight[q]].run => p = q
    BY <1>2, <1>3 DEF Kept, LoneInv
  <2>2. ASSUME NEW p \in Pane, flight[p] # 0,
               act'[flight[p]].phase \in {"staged", "probing", "entering"}
        PROVE  mark'[act'[flight[p]].run]
                 = [pane |-> p, seq |-> Newest(act'[flight[p]].msgs), active |-> TRUE]
    <3>1. CASE p = f.pane /\ UNCHANGED mark /\ f.phase # "writing"
      <4>1. f.phase \in {"staged", "probing"}
        BY <3>1
      <4> QED BY <1>2, <3>1, <4>1 DEF Kept, LoneInv, Announces
    <3>2. CASE /\ p = f.pane
               /\ mark' = [mark EXCEPT ![f.run] =
                            [pane |-> f.pane, seq |-> Newest(f.msgs), active |-> TRUE]]
      BY <1>1, <1>2, <3>2 DEF Held, TypeOK
    <3>3. CASE p # f.pane
      <4>1. mark'[act[flight[p]].run] = mark[act[flight[p]].run]
        BY <1>1, <1>3, <2>2, <3>3 DEF Held, TypeOK
      <4> QED BY <1>3, <2>2, <3>3, <4>1 DEF Kept, LoneInv, Announces
    <3> QED BY <3>1, <3>2, <3>3
  <2> QED BY <2>1, <2>2 DEF LoneInv, Announces
<1>6. MailInv'
  <2>1. ASSUME NEW p \in Pane, flight[p] # 0
        PROVE  /\ \A m \in act'[flight[p]].msgs : msgRun[m] = act'[flight[p]].run
               /\ act'[flight[p]].phase \in {"staged", "probing", "entering"} =>
                    act'[flight[p]].msgs \subseteq delivered' \cup read
    <3>1. CASE p = f.pane
      BY <1>2, <2>1, <3>1 DEF Kept, MailInv, Announces
    <3>2. CASE p # f.pane
      BY <1>3, <2>1, <3>2 DEF Kept, MailInv, Announces
    <3> QED BY <3>1, <3>2
  <2> QED BY <2>1 DEF MailInv, Announces
<1>7. \A q \in Pane : told'[q] = told[q] \/ (/\ q = f.pane /\ phase = "entering" /\ f.phase = "probing"
                                             /\ q \in alive /\ told'[q] = told[q] \cup f.msgs)
  BY <1>1 DEF Held, TypeOK
<1>8. ToldInv'
  <2>1. \A p \in Pane : told'[p] \subseteq delivered' \cup read
    <3>1. f.phase = "probing" => f.msgs \subseteq delivered \cup read
      BY <1>2 DEF Kept, MailInv, Announces
    <3> QED BY <1>7, <3>1 DEF Kept, ToldInv
  <2>2. \A p \in Pane : p \notin alive => told'[p] = {}
    BY <1>7 DEF Kept, ToldInv
  <2>3. ASSUME NEW p \in Pane, NEW q \in Pane, flight[p] # 0,
               q # p \/ act'[flight[p]].phase # "entering"
        PROVE  act'[flight[p]].msgs \cap told'[q] = {}
    <3>1. CASE p = f.pane
      BY <1>2, <1>7, <2>3, <3>1 DEF Kept, ToldInv
    <3>2. CASE p # f.pane
      BY <1>3, <1>7, <2>3, <3>2 DEF Kept, ToldInv
    <3> QED BY <3>1, <3>2
  <2> QED BY <2>1, <2>2, <2>3 DEF ToldInv
<1>9. ToldStep
  <2>1. ASSUME NEW j \in Slot, act[j].phase = "probing", act'[j].phase = "entering"
        PROVE  act[j].msgs \cap told[act[j].pane] = {}
    BY <1>2, <2>1 DEF Kept, ToldInv
  <2> QED BY <2>1 DEF ToldStep
<1> QED BY <1>4, <1>5, <1>6, <1>8, <1>9 DEF Keeps

LEMMA WriteDoneKeeps ==
  ASSUME Kept, NEW k \in Slot, WriteDone(k)
  PROVE  Keeps
<1> DEFINE f == act[k]
<1>1. f \in Flight /\ f.phase = "writing" /\ f.run \in Run
  BY FlightFields DEF WriteDone, Kept, Held
<1>2. UNCHANGED <<alive, writable, msgRun, read, told>>
  BY DEF WriteDone, shown, paneVars, mailVars
<1>3. CASE EndFlight(k) /\ UNCHANGED <<delivered, mark>>
  BY <1>1, <1>2, <1>3, EndKeeps
<1>4. CASE /\ EndFlight(k) /\ Current(k)
           /\ delivered' = delivered \cup f.msgs /\ mark' = [mark EXCEPT ![f.run] = NoMark]
  <2>1. \A r \in Run : mark'[r] # mark[r] => r = f.run /\ mark'[r].pane = NoPane
    BY <1>1, <1>4 DEF Kept, Held, TypeOK, NoMark
  <2> QED BY <1>1, <1>2, <1>4, <2>1, EndKeeps
<1>5. CASE /\ Current(k) /\ delivered' = delivered \cup f.msgs
           /\ mark' = [mark EXCEPT ![f.run] = [pane |-> f.pane, seq |-> Newest(f.msgs), active |-> TRUE]]
           /\ act' = [act EXCEPT ![k].phase = "staged"]
           /\ UNCHANGED flight
  <2>1. /\ act'[k] = [f EXCEPT !.phase = "staged"]
        /\ \A j \in Slot : j # k => act'[j] = act[j]
    BY <1>5 DEF Kept, Held, TypeOK
  <2>2. /\ act'[k].pane = f.pane /\ act'[k].phase = "staged" /\ act'[k].msgs = f.msgs
        /\ act'[k].run = f.run
    BY <1>1, <2>1 DEF Flight
  <2> QED BY <1>1, <1>2, <1>5, <2>1, <2>2, OnKeeps
<1> QED BY <1>3, <1>4, <1>5 DEF WriteDone

\* What a retired flight does on its way concerns nobody.
LEMMA RetiredKeeps ==
  ASSUME Kept, NEW k \in Slot, act[k] \in Flight, ~Current(k), act'[k].phase # "entering",
         \A j \in Slot : j # k => act'[j] = act[j],
         UNCHANGED <<flight, mark, alive, writable, msgRun, read, delivered, told>>
  PROVE  Keeps
<1>1. \A p \in Pane : flight[p] # 0 => flight[p] # k /\ act'[flight[p]] = act[flight[p]]
  BY DEF Kept, Held, TypeOK, FlightInv, Current
<1>2. LateInv'
  BY DEF Kept, LateInv, Current
<1>3. LoneInv'
  BY <1>1 DEF Kept, LoneInv, Announces
<1>4. MailInv'
  BY <1>1 DEF Kept, MailInv, Announces
<1>5. ToldInv'
  BY <1>1 DEF Kept, ToldInv
<1>6. ToldStep
  BY DEF ToldStep
<1> QED BY <1>2, <1>3, <1>4, <1>5, <1>6 DEF Keeps

LEMMA EnterTimerKeeps ==
  ASSUME Kept, NEW k \in Slot, EnterTimer(k)
  PROVE  Keeps
<1>1. act[k] \in Flight /\ act[k].phase = "staged"
  BY FlightFields DEF EnterTimer, Kept, Held
<1>2. /\ act'[k] = [act[k] EXCEPT !.phase = "probing"]
      /\ \A j \in Slot : j # k => act'[j] = act[j]
  BY DEF EnterTimer, Kept, Held, TypeOK
<1>3. /\ act'[k].pane = act[k].pane /\ act'[k].phase = "probing" /\ act'[k].msgs = act[k].msgs
      /\ act'[k].run = act[k].run
  BY <1>1, <1>2 DEF Flight
<1>4. UNCHANGED <<flight, mark, alive, writable, msgRun, read, delivered, told>>
  BY DEF EnterTimer, paneVars, mailVars, shown
<1>5. CASE Current(k)
  BY <1>1, <1>2, <1>3, <1>4, <1>5, OnKeeps
<1>6. CASE ~Current(k)
  BY <1>1, <1>2, <1>3, <1>4, <1>6, RetiredKeeps
<1> QED BY <1>5, <1>6

LEMMA SubmitKeeps ==
  ASSUME OnTime, Kept, NEW k \in Slot, NEW absent \in BOOLEAN, Submit(k, absent)
  PROVE  Keeps
<1>1. /\ act[k] \in Flight /\ act[k].phase = "probing"
      /\ UNCHANGED <<alive, writable, msgRun, read>>
  BY SubmitCases, FlightFields DEF Kept, Held, paneVars, mailVars
<1>2. ASSUME Current(k), NEW outcome \in {"withdrawn", "taken", "left"}, Finalize(k, outcome)
      PROVE  Keeps
  BY <1>1, <1>2, FinalizeKeeps
<1>3. ASSUME Retired(k), ~Current(k)
      PROVE  Keeps
  <2>1. act'[k] = Done /\ \A j \in Slot : j # k => act'[j] = act[j]
    BY <1>3 DEF Retired, Kept, Held, TypeOK
  <2> QED BY <1>1, <1>3, <2>1, RetiredKeeps DEF Retired, Done, shown
<1>4. ASSUME Current(k), PressEnter(k)
      PROVE  Keeps
  <2>1. PICK ok \in BOOLEAN :
          /\ act' = [act EXCEPT ![k].phase = "entering", ![k].ok = ok]
          /\ told' \in {told, [told EXCEPT ![act[k].pane] = @ \cup act[k].msgs]}
          /\ told' # told => act[k].pane \in alive
          /\ UNCHANGED <<delivered, flight, mark>>
    BY <1>4 DEF PressEnter, shown
  <2>2. /\ act'[k] = [act[k] EXCEPT !.phase = "entering", !.ok = ok]
        /\ \A j \in Slot : j # k => act'[j] = act[j]
    BY <2>1 DEF Kept, Held, TypeOK
  <2>3. /\ act'[k].pane = act[k].pane /\ act'[k].phase = "entering" /\ act'[k].msgs = act[k].msgs
        /\ act'[k].run = act[k].run
    BY <1>1, <2>2 DEF Flight
  <2> QED BY <1>1, <1>4, <2>1, <2>2, <2>3, OnKeeps
<1>5. \/ Current(k) /\ \E outcome \in {"withdrawn", "taken", "left"} : Finalize(k, outcome)
      \/ Retired(k) /\ ~Current(k)
      \/ Current(k) /\ PressEnter(k)
  BY DEF Submit, OnTime
<1> QED BY <1>2, <1>3, <1>4, <1>5

LEMMA EnterDoneKeeps ==
  ASSUME Kept, NEW k \in Slot, EnterDone(k)
  PROVE  Keeps
<1>1. /\ act[k] \in Flight /\ act[k].phase = "entering"
      /\ UNCHANGED <<alive, writable, msgRun, read>>
  BY FlightFields DEF EnterDone, Kept, Held, paneVars, mailVars
<1>2. PICK outcome \in {"submitted", "left"} : Finalize(k, outcome)
  BY DEF EnterDone
<1> QED BY <1>1, <1>2, FinalizeKeeps

\* A Run whose mailbox is free has no flight elsewhere, and mail that is announced
\* now was not announced before.
LEMMA StageKeeps ==
  ASSUME Kept, NEW r \in Run, NEW p \in Pane, owner[r] = p, NEW B \in SUBSET Msg, B # {},
         flight[p] = 0, p \in writable, ~mark[r].active,
         \A m \in B : msgRun[m] = r /\ m \notin delivered /\ m \notin read,
         UNCHANGED <<alive, writable, msgRun, read, delivered>>,
         Release(r, Newest(B)), Stage(r, p, B)
  PROVE  Keeps
<1>1. PICK k \in Slot, ok \in BOOLEAN :
        /\ act[k].phase = "done"
        /\ act' = [act EXCEPT ![k] = [phase |-> "writing", pane |-> p, run |-> r, msgs |-> B, ok |-> ok]]
        /\ flight' = [flight EXCEPT ![p] = k]
        /\ UNCHANGED told
  BY DEF Stage
<1>2. /\ act'[k] = [phase |-> "writing", pane |-> p, run |-> r, msgs |-> B, ok |-> ok]
      /\ \A j \in Slot : j # k => act'[j] = act[j]
      /\ flight'[p] = k /\ k # 0
      /\ \A q \in Pane : q # p => flight'[q] = flight[q]
  BY <1>1, Bounds DEF Kept, Held, TypeOK
<1>3. \A q \in Pane : flight[q] # 0 => /\ flight[q] \in Slot /\ flight[q] # k /\ q # p
                                       /\ act'[flight[q]] = act[flight[q]]
                                       /\ act[flight[q]] \in Flight
  BY <1>1, <1>2, FlightFields DEF Kept, Held, TypeOK, FlightInv
<1>4. \A q \in Run : mark'[q] = mark[q] \/ (q = r /\ mark'[q] = NoMark)
  BY DEF Release, Kept, Held, TypeOK
<1>5. ASSUME NEW q \in Pane, flight[q] # 0
      PROVE  act[flight[q]].run # r
  <2>1. SUFFICES ASSUME act[flight[q]].run = r
                 PROVE  FALSE
    OBVIOUS
  <2>2. CASE act[flight[q]].phase = "writing"
    <3>1. owner[act[flight[q]].run] = act[flight[q]].pane
      BY <1>3, <1>5, <2>2 DEF Kept, HomeInv
    <3>2. act[flight[q]].pane = q
      BY <1>5 DEF Kept, Held, FlightInv
    <3> QED BY <1>3, <1>5, <2>1, <3>1, <3>2
  <2>3. CASE act[flight[q]].phase # "writing"
    <3>1. Announces(q)
      BY <1>3, <1>5, <2>3, FlightType DEF Kept, Held, FlightInv, Announces, Phase
    <3>2. mark[act[flight[q]].run] = [pane |-> q, seq |-> Newest(act[flight[q]].msgs), active |-> TRUE]
      BY <3>1 DEF Kept, LoneInv
    <3>3. mark[act[flight[q]].run].active
      BY <3>2
    <3> QED BY <2>1, <3>3
  <2> QED BY <2>2, <2>3
<1>6. LateInv'
  <2>1. \A j \in Slot : act'[j].phase = "entering" => flight'[act'[j].pane] = j \/ act'[j].pane \notin writable
    <3>1. ASSUME NEW j \in Slot, act'[j].phase = "entering", act'[j].pane \in writable
          PROVE  flight'[act'[j].pane] = j
      <4>1. j # k /\ act'[j] = act[j]
        BY <1>2, <3>1
      <4>2. flight[act[j].pane] = j /\ act[j].pane \in Pane
        BY <3>1, <4>1, FlightFields DEF Kept, Held, LateInv, Current
      <4>3. act[j].pane # p
        BY <4>2, Bounds
      <4> QED BY <1>2, <4>1, <4>2, <4>3
    <3> QED BY <3>1
  <2>2. \A q \in Run : mark'[q].pane # NoPane => mark'[q].pane \in writable
    BY <1>4 DEF Kept, LateInv, NoMark
  <2> QED BY <2>1, <2>2 DEF LateInv, Current
<1>7. LoneInv'
  <2>1. ASSUME NEW q \in Pane, NEW s \in Pane, flight'[q] # 0, flight'[s] # 0,
               act'[flight'[q]].run = act'[flight'[s]].run
        PROVE  q = s
    BY <1>2, <1>3, <1>5, <2>1 DEF Kept, LoneInv
  <2>2. ASSUME NEW q \in Pane, flight'[q] # 0,
               act'[flight'[q]].phase \in {"staged", "probing", "entering"}
        PROVE  mark'[act'[flight'[q]].run]
                 = [pane |-> q, seq |-> Newest(act'[flight'[q]].msgs), active |-> TRUE]
    <3>1. q # p /\ flight'[q] = flight[q] /\ act'[flight[q]] = act[flight[q]] /\ flight[q] # 0
      BY <1>2, <1>3, <2>2
    <3>2. act[flight[q]].run \in Run
      BY <1>3, <3>1, FlightType
    <3>3. mark'[act[flight[q]].run] = mark[act[flight[q]].run]
      BY <1>4, <1>5, <3>1, <3>2
    <3> QED BY <2>2, <3>1, <3>3 DEF Kept, LoneInv, Announces
  <2> QED BY <2>1, <2>2 DEF LoneInv, Announces
<1>8. MailInv'
  <2>1. ASSUME NEW q \in Pane, flight'[q] # 0
        PROVE  /\ \A m \in act'[flight'[q]].msgs : msgRun[m] = act'[flight'[q]].run
               /\ act'[flight'[q]].phase \in {"staged", "probing", "entering"} =>
                    act'[flight'[q]].msgs \subseteq delivered \cup read
    <3>1. CASE q = p
      BY <1>2, <3>1
    <3>2. CASE q # p
      BY <1>2, <1>3, <2>1, <3>2 DEF Kept, MailInv, Announces
    <3> QED BY <3>1, <3>2
  <2> QED BY <2>1 DEF MailInv, Announces
<1>9. ToldInv'
  <2>1. \A q \in Pane : B \cap told[q] = {}
    BY DEF Kept, ToldInv
  <2>2. ASSUME NEW q \in Pane, NEW s \in Pane, flight'[q] # 0,
               s # q \/ act'[flight'[q]].phase # "entering"
        PROVE  act'[flight'[q]].msgs \cap told[s] = {}
    <3>1. CASE q = p
      BY <1>2, <2>1, <3>1
    <3>2. CASE q # p
      BY <1>2, <1>3, <2>2, <3>2 DEF Kept, ToldInv
    <3> QED BY <3>1, <3>2
  <2> QED BY <1>1, <2>2 DEF Kept, ToldInv
<1>10. ToldStep
  BY <1>2 DEF ToldStep
<1> QED BY <1>6, <1>7, <1>8, <1>9, <1>10 DEF Keeps

LEMMA DeliverKeeps ==
  ASSUME Kept, NEW r \in Run, NEW p \in Pane, owner[r] = p,
         NEW R \in SUBSET Type, NEW probed \in BOOLEAN,
         Deliver(r, p, R, probed), UNCHANGED <<alive, writable, msgRun, read, delivered>>
  PROVE  Keeps
<1> DEFINE B == Batch(r, R)
           n == Newest(B)
<1>1. CASE UNCHANGED <<flight, act, mark, told>>
  BY <1>1, StillKeeps DEF Kept, Held, TypeOK, ToldInv
<1>2. CASE ~mark[r].active /\ Release(r, n) /\ UNCHANGED <<flight, act, told>>
  <2>1. \A q \in Run : mark'[q] = mark[q] \/ (q = r /\ mark'[q] = NoMark)
    BY <1>2 DEF Release, Kept, Held, TypeOK
  <2>2. LateInv'
    BY <1>2, <2>1 DEF Kept, LateInv, Current, NoMark
  <2>3. LoneInv'
    <3>1. ASSUME NEW q \in Pane, Announces(q)
          PROVE  mark'[act[flight[q]].run] = mark[act[flight[q]].run]
      <4>1. act[flight[q]].run \in Run
        BY <3>1, FlightFields DEF Kept, Held, TypeOK, Announces
      <4>2. mark[act[flight[q]].run] = [pane |-> q, seq |-> Newest(act[flight[q]].msgs), active |-> TRUE]
        BY <3>1 DEF Kept, LoneInv
      <4>3. mark[act[flight[q]].run].active
        BY <4>2
      <4> QED BY <1>2, <2>1, <4>1, <4>3
    <3> QED BY <1>2, <3>1 DEF Kept, LoneInv, Announces
  <2>4. MailInv'
    BY <1>2 DEF Kept, MailInv, Announces
  <2>5. ToldInv' /\ ToldStep
    BY <1>2 DEF Kept, ToldInv, ToldStep
  <2> QED BY <2>2, <2>3, <2>4, <2>5 DEF Keeps
<1>3. CASE /\ flight[p] = 0 /\ ~mark[r].active /\ B # {} /\ p \in writable
           /\ Release(r, n) /\ Stage(r, p, B)
  <2>1. B \in SUBSET Msg /\ \A m \in B : msgRun[m] = r /\ m \notin delivered /\ m \notin read
    BY DEF Batch, Oldest, Unread
  <2> QED BY <1>3, <2>1, StageKeeps
<1> QED BY <1>1, <1>2, <1>3 DEF Deliver, Clear, stateVars, shown

LEMMA DriveKeeps ==
  ASSUME Kept, NEW j \in todo, Drive(j)
  PROVE  Keeps
<1> DEFINE p == IF j.pane = NoPane THEN owner[j.run] ELSE j.pane
<1>1. UNCHANGED <<alive, writable, msgRun, read, delivered>>
  BY DEF Drive, paneVars, mailVars
<1>2. CASE j.pane = NoPane /\ p \notin idle
  <2>1. UNCHANGED <<flight, act, mark, told>>
    BY <1>2 DEF Drive, stateVars, shown
  <2> QED BY <1>1, <2>1, StillKeeps DEF Kept, Held, TypeOK, ToldInv
<1>3. CASE ~(j.pane = NoPane /\ p \notin idle)
  <2>1. /\ j.run \in Run /\ j.pane \in Pane \cup {NoPane}
        /\ j.reserved \in SUBSET Type /\ j.probed \in BOOLEAN
    BY JobFields DEF Kept, Held
  <2>2. p \in Pane /\ owner[j.run] = p
    BY <1>3, <2>1 DEF Kept, Held, TypeOK, HomeInv
  <2>3. Deliver(j.run, p, j.reserved, j.probed)
    BY <1>3 DEF Drive
  <2> QED BY <1>1, <2>1, <2>2, <2>3, DeliverKeeps
<1> QED BY <1>2, <1>3

LEMMA DieKeeps ==
  ASSUME Kept, NEW p \in Pane, Die(p)
  PROVE  Keeps
<1>1. /\ alive' = alive \ {p} /\ told'[p] = {}
      /\ \A q \in Pane : q # p => told'[q] = told[q]
      /\ UNCHANGED <<flight, act, mark, writable, msgRun, read, delivered>>
  BY DEF Die, Kept, Held, TypeOK, stateVars, mailVars
<1>2. LateInv' /\ LoneInv' /\ MailInv' /\ ToldStep
  BY <1>1 DEF Kept, LateInv, LoneInv, MailInv, ToldStep, Announces, Current
<1>3. ToldInv'
  BY <1>1 DEF Kept, ToldInv
<1> QED BY <1>2, <1>3 DEF Keeps

\* Without late answers a terminal comes back when nothing of it is pending.
LEMMA RespawnKeeps ==
  ASSUME OnTime, Kept, NEW p \in Pane, Respawn(p)
  PROVE  Keeps
<1>1. /\ alive' = alive \cup {p} /\ writable' = writable \cup {p}
      /\ UNCHANGED <<flight, act, mark, told, delivered, read, msgRun>>
      /\ ~ \E k \in Slot : act[k].phase = "entering" /\ act[k].pane = p
  BY DEF Respawn, OnTime, stateVars, shown, mailVars
<1> QED BY <1>1, StillKeeps DEF Kept, Held, TypeOK, ToldInv

\* What the retired flight of a terminal announced was told to nobody else.
LEMMA ExitKeeps ==
  ASSUME Kept, NEW p \in Pane, Exit(p)
  PROVE  Keeps
<1> DEFINE k == flight[p]
<1>1. /\ p \notin alive /\ writable' = writable \ {p}
      /\ flight' = [flight EXCEPT ![p] = 0]
      /\ act' = IF k # 0 /\ act[k].phase = "staged" THEN [act EXCEPT ![k] = Done] ELSE act
      /\ delivered' = delivered \ ((IF k # 0 /\ act[k].phase # "writing" THEN act[k].msgs ELSE {}) \ read)
      /\ \A r \in Run : mark'[r] = IF mark[r].pane = p THEN NoMark ELSE mark[r]
      /\ UNCHANGED <<alive, told, msgRun, read>>
  BY DEF Exit, shown, mailVars
<1>2. /\ flight'[p] = 0 /\ \A q \in Pane : q # p => flight'[q] = flight[q]
      /\ \A j \in Slot : act'[j] = act[j] \/ act'[j] = Done
      /\ \A q \in Pane : flight[q] \in Slot \cup {0}
  BY <1>1 DEF Kept, Held, TypeOK
<1>3. ASSUME NEW q \in Pane, flight'[q] # 0
      PROVE  /\ q # p /\ flight'[q] = flight[q] /\ act'[flight[q]] = act[flight[q]]
             /\ act[flight[q]].run \in Run /\ act[flight[q]].pane = q
             /\ k # 0 => act[flight[q]].msgs \cap act[k].msgs = {}
  <2>1. q # p /\ flight'[q] = flight[q] /\ act[flight[q]].pane = q /\ act[flight[q]] \in Flight
    BY <1>2, <1>3, FlightFields DEF Kept, Held, FlightInv
  <2>2. k # 0 => act[k].pane = p
    BY DEF Kept, Held, FlightInv
  <2>3. act'[flight[q]] = act[flight[q]]
    BY <1>1, <1>2, <1>3, <2>1, <2>2 DEF Kept, Held, TypeOK
  <2> QED BY <1>3, <2>1, <2>3, FlightType, Apart
<1>4. LateInv'
  <2>1. ASSUME NEW j \in Slot, act'[j].phase = "entering", act'[j].pane \in writable'
        PROVE  flight'[act'[j].pane] = j
    <3>1. act'[j] = act[j]
      BY <1>2, <2>1 DEF Done
    <3>2. act[j].pane \in Pane /\ act[j].pane # p
      BY <1>1, <2>1, <3>1, FlightFields DEF Kept, Held
    <3> QED BY <1>1, <1>2, <2>1, <3>1, <3>2 DEF Kept, LateInv, Current
  <2>2. \A r \in Run : mark'[r].pane # NoPane => mark'[r].pane \in writable'
    BY <1>1 DEF Kept, LateInv, NoMark
  <2> QED BY <2>1, <2>2 DEF LateInv, Current
<1>5. LoneInv'
  <2>1. ASSUME NEW q \in Pane, NEW s \in Pane, flight'[q] # 0, flight'[s] # 0,
               act'[flight'[q]].run = act'[flight'[s]].run
        PROVE  q = s
    BY <1>3, <2>1 DEF Kept, LoneInv
  <2>2. ASSUME NEW q \in Pane, flight'[q] # 0,
               act'[flight'[q]].phase \in {"staged", "probing", "entering"}
        PROVE  mark'[act'[flight'[q]].run]
                 = [pane |-> q, seq |-> Newest(act'[flight'[q]].msgs), active |-> TRUE]
    <3>1. mark[act[flight[q]].run] = [pane |-> q, seq |-> Newest(act[flight[q]].msgs), active |-> TRUE]
      BY <1>3, <2>2 DEF Kept, LoneInv, Announces
    <3>2. mark[act[flight[q]].run].pane = q
      BY <3>1
    <3>3. mark'[act[flight[q]].run] = mark[act[flight[q]].run]
      BY <1>1, <1>3, <2>2, <3>2
    <3> QED BY <1>3, <2>2, <3>1, <3>3
  <2> QED BY <2>1, <2>2 DEF LoneInv, Announces
<1>6. MailInv'
  <2>1. ASSUME NEW q \in Pane, flight'[q] # 0
        PROVE  /\ \A m \in act'[flight'[q]].msgs : msgRun[m] = act'[flight'[q]].run
               /\ act'[flight'[q]].phase \in {"staged", "probing", "entering"} =>
                    act'[flight'[q]].msgs \subseteq delivered' \cup read
    BY <1>1, <1>3, <2>1 DEF Kept, MailInv, Announces
  <2> QED BY <1>1, <2>1 DEF MailInv, Announces
<1>7. ToldInv'
  <2>1. ASSUME NEW q \in Pane
        PROVE  told[q] \subseteq delivered' \cup read
    <3>1. told[p] = {}
      BY <1>1 DEF Kept, ToldInv
    <3>2. k # 0 /\ q # p => act[k].msgs \cap told[q] = {}
      BY DEF Kept, ToldInv
    <3> QED BY <1>1, <3>1, <3>2 DEF Kept, ToldInv
  <2>2. ASSUME NEW q \in Pane, NEW s \in Pane, flight'[q] # 0,
               s # q \/ act'[flight'[q]].phase # "entering"
        PROVE  act'[flight'[q]].msgs \cap told[s] = {}
    BY <1>3, <2>2 DEF Kept, ToldInv
  <2> QED BY <1>1, <2>1, <2>2 DEF Kept, ToldInv
<1>8. ToldStep
  BY <1>2 DEF ToldStep, Done
<1> QED BY <1>4, <1>5, <1>6, <1>7, <1>8 DEF Keeps

LEMMA RestartKeeps ==
  ASSUME Kept, Restart
  PROVE  Keeps
<1>1. /\ flight' = [p \in Pane |-> 0] /\ act' = [k \in Slot |-> Done]
      /\ mark' = [r \in Run |-> NoMark]
      /\ UNCHANGED <<alive, writable, told, delivered, read>>
  BY DEF Restart, shown
<1>2. LateInv' /\ LoneInv' /\ MailInv'
  BY <1>1 DEF LateInv, LoneInv, MailInv, Announces, Done, NoMark
<1>3. ToldInv' /\ ToldStep
  BY <1>1 DEF Kept, ToldInv, ToldStep, Done
<1> QED BY <1>2, <1>3 DEF Keeps

LEMMA MailKeeps ==
  ASSUME Kept, MailStep
  PROVE  Keeps
<1>1. UNCHANGED <<flight, act, mark, told, delivered, alive, writable>>
  BY DEF MailStep, Send, Check, Wait, WaitEnds, Bind, stateVars, paneVars, shown
<1>2. read \subseteq read'
  BY DEF MailStep, Send, Check, Wait, WaitEnds, Bind
<1>3. \A m \in Msg : msgRun[m] # NoRun => msgRun'[m] = msgRun[m]
  BY DEF MailStep, Send, Check, Wait, WaitEnds, Bind, Kept, Held, TypeOK
<1> QED BY <1>1, <1>2, <1>3, StillKeeps DEF Kept, Held, TypeOK, ToldInv

LEMMA KeepStep ==
  ASSUME OnTime, Kept, [Next]_vars
  PROVE  Keeps
<1>1. ASSUME UNCHANGED <<flight, act, mark, told, delivered, alive, writable, read, msgRun>>
      PROVE  Keeps
  BY <1>1, StillKeeps DEF Kept, Held, TypeOK, ToldInv
<1>2. CASE RuntimeStep
  <2>1. ASSUME \/ \E p \in Pane, absent \in BOOLEAN : ProbeAnswers(p, absent)
               \/ \E r \in Run : RepointFires(r)
        PROVE  Keeps
    BY <1>1, <2>1 DEF ProbeAnswers, RepointFires, stateVars, paneVars, shown, mailVars
  <2> QED BY <1>2, <2>1, DriveKeeps, WriteDoneKeeps, EnterTimerKeeps, EnterDoneKeeps, SubmitKeeps
          DEF RuntimeStep
<1>3. CASE PaneStep
  <2>1. ASSUME NEW p \in Pane, GoesIdle(p) \/ GoesBusy(p)
        PROVE  Keeps
    BY <1>1, <2>1 DEF GoesIdle, GoesBusy, stateVars, shown, mailVars
  <2> QED BY <1>3, <2>1, DieKeeps, ExitKeeps, RespawnKeeps, RestartKeeps DEF PaneStep
<1>4. CASE UNCHANGED vars
  BY <1>1, <1>4 DEF vars, stateVars, paneVars, shown, mailVars
<1> QED BY <1>2, <1>3, <1>4, MailKeeps DEF Next

LEMMA HomeStep ==
  ASSUME OnTime, Kept, [Next]_vars
  PROVE  HomeInv'
<1>1. ASSUME UNCHANGED owner, todo' \subseteq todo, UNCHANGED probing,
             \A k \in Slot : act'[k].phase = "writing" => act'[k] = act[k]
      PROVE  HomeInv'
  BY <1>1 DEF Kept, HomeInv
<1>2. ASSUME NEW k \in Slot, EndFlight(k), NEW re, NEW R, UNCHANGED <<owner, probing>>,
             todo' \subseteq R \cup Settle(re, k).jobs, \A j \in R : j.pane = NoPane
      PROVE  HomeInv'
  <2>1. \A j \in todo' : j.pane # NoPane => owner[j.run] = j.pane
    BY <1>2, JobHomes DEF Kept, Held
  <2>2. \A j \in Slot : act'[j].phase = "writing" => act'[j] = act[j]
    BY <1>2 DEF EndFlight, Done, Kept, Held, TypeOK
  <2> QED BY <1>2, <2>1, <2>2 DEF Kept, HomeInv
<1>3. ASSUME NEW k \in Slot, NEW outcome, Finalize(k, outcome), UNCHANGED <<owner, probing>>
      PROVE  HomeInv'
  <2> DEFINE s == Settle(redelivery, k)
             d == Redrive(s.redelivery, act[k].run, outcome = "withdrawn")
  <2>1. EndFlight(k) /\ todo' \subseteq d.jobs \cup s.jobs
    BY <1>3 DEF Finalize
  <2>2. \A j \in d.jobs : j.pane = NoPane
    BY JobHomes DEF Kept, Held
  <2> HIDE DEF d
  <2> QED BY <1>2, <1>3, <2>1, <2>2
<1>4. ASSUME NEW j \in todo, Drive(j)
      PROVE  HomeInv'
  <2> DEFINE p == IF j.pane = NoPane THEN owner[j.run] ELSE j.pane
  <2>1. todo' \subseteq todo /\ UNCHANGED owner
    BY <1>4 DEF Drive
  <2>2. /\ j.run \in Run /\ owner[j.run] = p
        /\ j.reserved \in SUBSET Type /\ j.probed \in BOOLEAN
    BY JobFields DEF Kept, Held, HomeInv
  <2>3. \A k \in Slot : act'[k].phase = "writing" =>
          act'[k] = act[k] \/ (act'[k].run = j.run /\ act'[k].pane = p)
    <3>1. CASE UNCHANGED act
      BY <3>1
    <3>2. CASE Stage(j.run, p, Batch(j.run, j.reserved))
      BY <3>2 DEF Stage, Kept, Held, TypeOK
    <3> QED BY <1>4, <3>1, <3>2 DEF Drive, Deliver, stateVars
  <2>4. \A q \in Pane : probing'[q] = probing[q] \/ (q = p /\ probing'[q] = j.run)
    <3>1. \/ UNCHANGED probing
          \/ probing' = [probing EXCEPT ![p] = IF @ = NoRun THEN j.run ELSE @]
      BY <1>4 DEF Drive, Deliver, Stage
    <3> QED BY <3>1 DEF Kept, Held, TypeOK
  <2> QED BY <2>1, <2>2, <2>3, <2>4 DEF Kept, HomeInv
<1>5. ASSUME NEW k \in Slot, WriteDone(k)
      PROVE  HomeInv'
  <2> DEFINE s == Settle(redelivery, k)
             d == Redrive(redelivery, act[k].run, FALSE)
             t == Settle(d.redelivery, k)
  <2>1. UNCHANGED <<owner, probing>>
    BY <1>5 DEF WriteDone
  <2>2. CASE EndFlight(k) /\ todo' = s.jobs
    <3> DEFINE none == {}
    <3>1. (\A j \in none : j.pane = NoPane) /\ todo' \subseteq none \cup s.jobs
      BY <2>2
    <3> HIDE DEF none, s
    <3> QED BY <1>2, <2>1, <2>2, <3>1 DEF s
  <2>3. CASE EndFlight(k) /\ todo' = d.jobs \cup t.jobs
    <3>1. \A j \in d.jobs : j.pane = NoPane
      BY JobHomes DEF Kept, Held
    <3> HIDE DEF d
    <3> QED BY <1>2, <2>1, <2>3, <3>1
  <2>4. CASE act' = [act EXCEPT ![k].phase = "staged"] /\ UNCHANGED todo
    <3>1. act[k] \in Flight
      BY <1>5, FlightFields DEF WriteDone, Kept, Held
    <3>2. \A j \in Slot : act'[j].phase = "writing" => act'[j] = act[j]
      BY <2>4, <3>1 DEF Kept, Held, TypeOK, Flight
    <3> QED BY <1>1, <2>1, <2>4, <3>2
  <2> QED BY <1>5, <2>2, <2>3, <2>4 DEF WriteDone
<1>6. ASSUME NEW k \in Slot, EnterTimer(k)
      PROVE  HomeInv'
  <2>1. act[k] \in Flight
    BY <1>6, FlightFields DEF EnterTimer, Kept, Held
  <2>2. \A j \in Slot : act'[j].phase = "writing" => act'[j] = act[j]
    BY <1>6, <2>1 DEF EnterTimer, Kept, Held, TypeOK, Flight
  <2> QED BY <1>1, <1>6, <2>2 DEF EnterTimer
<1>7. ASSUME NEW k \in Slot, NEW absent \in BOOLEAN, Submit(k, absent)
      PROVE  HomeInv'
  <2>1. act[k] \in Flight /\ UNCHANGED <<owner, probing>>
    BY <1>7, SubmitCases, FlightFields DEF Kept, Held
  <2>2. CASE Retired(k)
    <3>1. \A j \in Slot : act'[j].phase = "writing" => act'[j] = act[j]
      BY <2>2 DEF Retired, Done, Kept, Held, TypeOK
    <3> QED BY <1>1, <2>1, <2>2, <3>1 DEF Retired
  <2>3. CASE PressEnter(k)
    <3>1. PICK ok \in BOOLEAN : act' = [act EXCEPT ![k].phase = "entering", ![k].ok = ok]
      BY <2>3 DEF PressEnter
    <3>2. \A j \in Slot : act'[j].phase = "writing" => act'[j] = act[j]
      BY <2>1, <3>1 DEF Kept, Held, TypeOK, Flight
    <3> QED BY <1>1, <2>1, <2>3, <3>2 DEF PressEnter
  <2> QED BY <1>3, <1>7, <2>1, <2>2, <2>3, SubmitCases
<1>8. ASSUME NEW k \in Slot, EnterDone(k)
      PROVE  HomeInv'
  BY <1>3, <1>8 DEF EnterDone
<1>9. ASSUME NEW p \in Pane, NEW absent \in BOOLEAN, ProbeAnswers(p, absent)
      PROVE  HomeInv'
  <2>1. owner[probing[p]] = p /\ UNCHANGED <<owner, act>>
    BY <1>9 DEF ProbeAnswers, Kept, HomeInv, stateVars
  <2>2. \A j \in todo' : j.run = probing[p] /\ j.pane = p
    BY <1>9 DEF ProbeAnswers, Probed, JobFor
  <2>3. \A q \in Pane : probing'[q] = probing[q] \/ probing'[q] = NoRun
    BY <1>9 DEF ProbeAnswers, Kept, Held, TypeOK
  <2> QED BY <2>1, <2>2, <2>3 DEF Kept, HomeInv
<1>10. ASSUME NEW r \in Run, RepointFires(r)
       PROVE  HomeInv'
  BY <1>10 DEF RepointFires, JobFor, Kept, HomeInv, stateVars
<1>11. ASSUME NEW p \in Pane, GoesIdle(p) \/ GoesBusy(p) \/ Die(p) \/ Respawn(p)
       PROVE  HomeInv'
  BY <1>11 DEF GoesIdle, GoesBusy, Die, Respawn, JobFor, Kept, HomeInv, stateVars
<1>12. ASSUME NEW p \in Pane, Exit(p)
       PROVE  HomeInv'
  <2>1. \A j \in todo' : \E r \in Run : j \in Redrive(redelivery, r, TRUE).jobs
    BY <1>12 DEF Exit
  <2>2. \A k \in Slot : act'[k].phase = "writing" => act'[k] = act[k]
    BY <1>12 DEF Exit, Done, Kept, Held, TypeOK
  <2>3. UNCHANGED <<owner, probing>>
    BY <1>12 DEF Exit
  <2>4. \A j \in todo' : j.pane = NoPane
    BY <2>1, JobHomes DEF Kept, Held
  <2> QED BY <2>2, <2>3, <2>4 DEF Kept, HomeInv
<1>13. ASSUME Restart
       PROVE  HomeInv'
  BY <1>13 DEF Restart, Quiet, Done, HomeInv
<1>14. ASSUME MailStep
       PROVE  HomeInv'
  <2>1. ASSUME NEW m \in Msg, NEW r \in Run, NEW ty \in Type, Send(m, r, ty)
        PROVE  HomeInv'
    BY <2>1 DEF Send, Quiet, JobFor, Kept, HomeInv, stateVars
  <2>2. ASSUME UNCHANGED <<owner, todo, probing, stateVars>>
        PROVE  HomeInv'
    BY <1>1, <2>2 DEF stateVars
  <2>3. ASSUME NEW r \in Run, NEW p \in Pane, Bind(r, p)
        PROVE  HomeInv'
    <3>1. /\ todo' = {} /\ UNCHANGED <<probing, act>>
          /\ probing[p] = NoRun /\ \A q \in Pane : probing[q] # r
          /\ \A k \in Slot : act[k].phase = "writing" => act[k].run # r /\ owner[act[k].run] # p
      <4>1. \A k \in Slot : act[k].phase = "writing" => act[k].run \in Run
        BY FlightFields DEF Kept, Held
      <4> QED BY <2>3, <4>1 DEF Bind, Quiet, stateVars, OnTime
    <3>2. \A q \in Run : q # r /\ owner[q] # p => owner'[q] = owner[q]
      BY <2>3 DEF Bind
    <3>3. ASSUME NEW q \in Pane, probing[q] # NoRun
          PROVE  owner'[probing[q]] = q
      BY <3>1, <3>2, <3>3 DEF Kept, Held, TypeOK, HomeInv
    <3>4. ASSUME NEW k \in Slot, act[k].phase = "writing"
          PROVE  owner'[act[k].run] = act[k].pane
      BY <3>1, <3>2, <3>4, FlightFields DEF Kept, Held, HomeInv
    <3> QED BY <3>1, <3>3, <3>4 DEF HomeInv
  <2> QED BY <1>14, <2>1, <2>2, <2>3 DEF MailStep, Check, Wait, WaitEnds
<1>15. CASE UNCHANGED vars
  BY <1>1, <1>15 DEF vars, stateVars
<1> QED BY <1>4, <1>5, <1>6, <1>7, <1>8, <1>9, <1>10, <1>11, <1>12, <1>13, <1>14, <1>15
        DEF Next, RuntimeStep, PaneStep

\* No process is asked twice to look at the same mail: once Enter was pressed for
\* the pointer to it, no later attempt announces it there, be it lost, parked,
\* withdrawn or repeated, if no Run overtakes its flight and no answer is late.
THEOREM ToldOnlyOnce ==
  ASSUME OnTime
  PROVE  Spec => ToldOnce
<1> DEFINE Once == HomeInv /\ LateInv /\ LoneInv /\ MailInv /\ ToldInv
<1>1. Init => Once
  BY DEF Init, HomeInv, LateInv, LoneInv, MailInv, ToldInv, Announces, Done, NoMark
<1>2. Held /\ Once /\ [Next]_vars => Once' /\ [ToldStep]_vars
  BY KeepStep, HomeStep DEF Kept, Keeps
<1>3. Spec => [](Held /\ Once)
  BY <1>1, <1>2, AlwaysHeld, PTL DEF Spec
<1>4. Spec => [][ToldStep]_vars
  BY <1>2, <1>3, PTL DEF Spec
<1> QED BY <1>4, PTL DEF ToldOnce, ToldStep
=============================================================================
