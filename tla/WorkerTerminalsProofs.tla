------------------------ MODULE WorkerTerminalsProofs ------------------------
(***************************************************************************)
(* Proofs of the safety properties of WorkerTerminals.                     *)
(*                                                                         *)
(* No step asks for all of "the terminal is mine, its worker is done, its  *)
(* output is saved and nobody works in it": each fact is established by a  *)
(* step of its own and has to outlive the awaits in between.  IInv is the  *)
(* list of those facts.                                                    *)
(***************************************************************************)
EXTENDS WorkerTerminals, TLAPS

\* What is known of a terminal is true of its process.
TerminalsFit ==
  \A t \in Terminal : /\ t \in alive => now[t] >= 1
                      /\ view[t] = "connected" => t \in alive

\* A worker was attached to a process that has been.
WorkersFit ==
  \A d \in Dispatch : state[d] # "none" =>
    at[d] \in Terminal /\ born[d] >= 1 /\ born[d] <= now[at[d]]

\* A row is of the process of the dispatch that originated it, and so is
\* whoever owns it.
RowsFit ==
  \A o \in Dispatch :
    /\ owner[o] = NoDispatch => release[o] = "none"
    /\ owner[o] # NoDispatch =>
         state[o] # "none" /\ state[owner[o]] # "none" /\ Same(o, owner[o])

OneRow == \A o, p \in Rows : owner[o] = owner[p] => o = p

OneOwned ==
  \A o, p \in Rows : ownership[o] = "owned" /\ ownership[p] = "owned" /\ Same(o, p) => o = p

\* A worker at work owns a row, and nothing was asked for it yet.
ActiveHasRow == \A d \in Dispatch : state[d] = "active" => \E o \in Rows : owner[o] = d

CommittedFits ==
  \A o \in Dispatch :
    /\ release[o] \in Committed => ownership[o] = "owned" /\ state[owner[o]] \in Releasable
    /\ release[o] = "releasing" => owner[o] \in archived
    /\ release[o] = "released" => state[owner[o]] \in Settled

\* A dispatch that a completion or a pass acts for was in the same process.
ActsFor(o, d) == o \in Rows /\ d \in Dispatch /\ state[d] # "none" /\ Same(o, d)

CallsFit == \A o \in Dispatch : call[o].phase # "idle" => ActsFor(o, call[o].dispatch)

PassFits == \A e \in pass.queue : ActsFor(e.row, e.dispatch)

\* Where a close is under way no other row is left, and none is added.
ClosingFits ==
  \A o \in Dispatch : call[o].phase = "close" => release[o] = "releasing" /\ ~Conflict(o)

IInv ==
  /\ TypeOK
  /\ TerminalsFit /\ WorkersFit /\ RowsFit /\ OneRow /\ OneOwned /\ ActiveHasRow
  /\ CommittedFits /\ CallsFit /\ PassFits /\ ClosingFits

-----------------------------------------------------------------------------
(***************************************************************************)
(* Type correctness.                                                       *)
(***************************************************************************)
LEMMA NilFacts ==
  /\ NoDispatch \notin Dispatch /\ NoTerminal \notin Terminal
  /\ MaxProcess \in Nat /\ MaxProcess >= 1
  BY WorkerTerminalsAssumption

LEMMA RowFacts ==
  ASSUME TypeOK
  PROVE  /\ Rows \subseteq Dispatch
         /\ \A o \in Rows : owner[o] \in Dispatch
         /\ Backlog \subseteq Entry
  BY DEF TypeOK, Rows, Backlog, Entry

LEMMA CallTypes ==
  ASSUME TypeOK
  PROVE  /\ Idle \in Call
         /\ \A o \in Dispatch : /\ call[o].phase \in {"idle", "look", "capture", "close"}
                                /\ call[o].dispatch \in Dispatch \cup {NoDispatch}
                                /\ call[o].recovery \in BOOLEAN
         /\ \A o \in Dispatch, ph \in {"capture", "close"} :
              [call EXCEPT ![o].phase = ph] \in [Dispatch -> Call]
         /\ \A o \in Dispatch, d \in Dispatch \cup {NoDispatch}, b \in BOOLEAN :
              [phase |-> "look", dispatch |-> d, recovery |-> b] \in Call
  BY DEF TypeOK, Call, Idle

LEMMA PassTypes ==
  ASSUME TypeOK
  PROVE  /\ NoPass \in Pass
         /\ pass.queue \subseteq Entry /\ pass.rerun \in BOOLEAN
         /\ [pass EXCEPT !.rerun = TRUE] \in Pass
         /\ [pass EXCEPT !.row = NoDispatch] \in Pass
  BY DEF TypeOK, Pass, NoPass

LEMMA BeginType ==
  ASSUME TypeOK, NEW o \in Dispatch, NEW d \in Dispatch, NEW b \in BOOLEAN, Begin(o, d, b)
  PROVE  call' \in [Dispatch -> Call]
<1>1. call \in [Dispatch -> Call]
  BY DEF TypeOK
<1>2. [phase |-> "look", dispatch |-> d, recovery |-> b] \in Call
  BY CallTypes
<1> QED BY <1>1, <1>2 DEF Begin

LEMMA EndType ==
  ASSUME TypeOK, NEW o \in Dispatch, End(o)
  PROVE  call' \in [Dispatch -> Call] /\ pass' \in Pass
<1>1. call \in [Dispatch -> Call] /\ pass \in Pass
  BY DEF TypeOK
<1> QED BY <1>1, CallTypes, PassTypes DEF End

LEMMA GoOnType ==
  ASSUME TypeOK, NEW Q \in SUBSET Entry, NEW again \in BOOLEAN, GoOn(Q, again)
  PROVE  call' \in [Dispatch -> Call] /\ pass' \in Pass
<1>1. CASE Q = {} /\ pass' = NoPass /\ UNCHANGED call
  BY <1>1, PassTypes DEF TypeOK
<1>2. ASSUME NEW e \in Q, Begin(e.row, e.dispatch, TRUE),
             pass' = [on |-> TRUE, rerun |-> again, queue |-> Q \ {e}, row |-> e.row]
      PROVE  call' \in [Dispatch -> Call] /\ pass' \in Pass
  <2>1. e.row \in Dispatch /\ e.dispatch \in Dispatch
    BY DEF Entry
  <2>2. call' \in [Dispatch -> Call]
    BY <1>2, <2>1, BeginType
  <2>3. pass' \in Pass
    BY <1>2, <2>1 DEF Pass
  <2> QED BY <2>2, <2>3
<1> QED BY <1>1, <1>2 DEF GoOn

\* The columns of the rows and what else a completion writes.
RowTypes ==
  /\ release \in [Dispatch -> {"none", "released"} \cup Free \cup Committed]
  /\ ownership \in [Dispatch -> {"none", "owned", "external", "user_owned", "released"}]
  /\ reason \in [Dispatch -> {"none", "external_terminal", "user_takeover",
                              "user_requested", "identity_unproven"}]
  /\ owner \in [Dispatch -> Dispatch \cup {NoDispatch}]
  /\ prior \in [Dispatch -> SUBSET Dispatch]
  /\ \A o \in Dispatch : ownership[o] = "released" <=> release[o] = "released"

LEMMA RowTypesHold == ASSUME TypeOK PROVE RowTypes
  BY DEF TypeOK, RowTypes

LEMMA WriteTypes ==
  ASSUME TypeOK, NEW o \in Dispatch
  PROVE  /\ UNCHANGED rows => RowTypes'
         /\ Revert(o) => RowTypes'
         /\ MarkUnknown(o) => RowTypes'
         /\ Released(o) /\ UNCHANGED <<owner, prior>> /\ reason' \in {reason, [reason EXCEPT ![o] = "none"]}
              => RowTypes'
<1> USE RowTypesHold DEF RowTypes, Free, Committed, Pending
<1>1. UNCHANGED rows => RowTypes'
  BY DEF rows
<1>2. Revert(o) => RowTypes'
  BY DEF Revert
<1>3. MarkUnknown(o) => RowTypes'
  BY DEF MarkUnknown
<1>4. Released(o) /\ UNCHANGED <<owner, prior>> /\ reason' \in {reason, [reason EXCEPT ![o] = "none"]}
        => RowTypes'
  BY DEF Released
<1> QED BY <1>1, <1>2, <1>3, <1>4

LEMMA CommitAndCloseType ==
  ASSUME TypeOK, NEW o \in Dispatch, NEW d \in Dispatch, CommitAndClose(o, d)
  PROVE  /\ RowTypes' /\ archived' \in SUBSET Dispatch
         /\ call' \in [Dispatch -> Call] /\ pass' \in Pass
<1> DEFINE committed == Commits(o, d) \/ (ownership[o] = "owned" /\ release[o] = "releasing")
<1>1. archived' \in SUBSET Dispatch
  BY DEF CommitAndClose, TypeOK
<1>2. CASE /\ committed /\ release' = [release EXCEPT ![o] = "releasing"]
           /\ call' = [call EXCEPT ![o].phase = "close"]
           /\ UNCHANGED <<owner, prior, ownership, reason, pass>>
  <2>1. ownership[o] = "owned"
    BY <1>2 DEF Commits
  <2>2. RowTypes'
    BY <1>2, <2>1, RowTypesHold DEF RowTypes, Free, Committed, Pending
  <2>3. call' \in [Dispatch -> Call] /\ pass' \in Pass
    BY <1>2, CallTypes DEF TypeOK
  <2> QED BY <1>1, <2>2, <2>3
<1>3. CASE /\ committed /\ release' = [release EXCEPT ![o] = "retained"]
           /\ reason' = [reason EXCEPT ![o] = "identity_unproven"]
           /\ UNCHANGED <<owner, prior, ownership>> /\ End(o)
  <2>1. ownership[o] = "owned"
    BY <1>3 DEF Commits
  <2>2. RowTypes'
    BY <1>3, <2>1, RowTypesHold DEF RowTypes, Free, Committed, Pending
  <2> QED BY <1>1, <1>3, <2>2, EndType
<1>4. CASE UNCHANGED rows /\ End(o)
  BY <1>1, <1>4, WriteTypes, EndType
<1> QED BY <1>2, <1>3, <1>4 DEF CommitAndClose

\* A completion in progress is one for a dispatch: CallsFit is needed.
LEMMA TypeStep ==
  ASSUME TypeOK, CallsFit, [Next]_vars
  PROVE  TypeOK'
<1> DEFINE WorkerTypes == /\ state \in [Dispatch -> Settled \cup {"none", "active"}]
                          /\ at \in [Dispatch -> Terminal \cup {NoTerminal}]
                          /\ born \in [Dispatch -> 0 .. MaxProcess]
           TerminalTypes == /\ now \in [Terminal -> 0 .. MaxProcess]
                            /\ alive \in SUBSET Terminal
                            /\ view \in [Terminal -> {"connected", "disconnected", "missing"}]
           MemoryTypes == /\ call \in [Dispatch -> Call]
                          /\ probe \in [Dispatch -> Dispatch \cup {NoDispatch}]
                          /\ pass \in Pass
           BookTypes == /\ archived \in SUBSET Dispatch
                           /\ faults \in Nat
<1>a. TypeOK <=> WorkerTypes /\ RowTypes /\ TerminalTypes /\ MemoryTypes /\ BookTypes
  BY DEF TypeOK, RowTypes
<1>b. TypeOK' <=> WorkerTypes' /\ RowTypes' /\ TerminalTypes' /\ MemoryTypes' /\ BookTypes'
  BY DEF TypeOK, RowTypes
<1>w. UNCHANGED workers => WorkerTypes'
  BY <1>a DEF workers
<1>r. UNCHANGED rows => RowTypes'
  BY WriteTypes, <1>a DEF rows, RowTypes
<1>t. UNCHANGED terminals => TerminalTypes'
  BY <1>a DEF terminals
<1>m. UNCHANGED memory => MemoryTypes'
  BY <1>a DEF memory
<1>h. UNCHANGED <<archived, faults>> => BookTypes'
  BY <1>a
<1>f. Fault => faults' \in Nat
  BY <1>a DEF Fault
<1>n. ASSUME NEW d \in Dispatch, NEW owns \in {"owned", "external"},
             NEW why \in {"none", "external_terminal"}, NewRow(d, owns, why)
      PROVE  RowTypes'
  BY <1>n, <1>a DEF NewRow, RowTypes, Free, Committed, Pending
<1>x. ASSUME NEW d \in Dispatch, NEW t \in Terminal, NEW o \in Transferable(t), Transfer(o, d)
      PROVE  RowTypes'
  <2>1. o \in Dispatch /\ owner[o] \in Dispatch /\ ownership[o] = "owned"
    BY <1>a DEF Transferable, Exact, Rows, RowTypes
  <2> QED BY <1>x, <2>1, <1>a DEF Transfer, RowTypes, Free, Committed, Pending
<1>c. ASSUME NEW d \in Dispatch, NEW t \in Terminal, NEW k \in 0 .. MaxProcess, Attached(d, t, k)
      PROVE  WorkerTypes' /\ MemoryTypes' /\ BookTypes'
  BY <1>c, <1>a, <1>m, <1>h DEF Attached
<1> HIDE DEF WorkerTypes, TerminalTypes, MemoryTypes, BookTypes
<1>1. ASSUME NEW d \in Dispatch, NEW t \in Terminal, StartFresh(d, t)
      PROVE  TypeOK'
  <2>1. 1 \in 0 .. MaxProcess
    BY NilFacts
  <2>2. TerminalTypes'
    BY <1>1, <1>a, <2>1 DEF StartFresh, TerminalTypes
  <2> QED BY <1>1, <2>1, <2>2, <1>b, <1>c, <1>n DEF StartFresh
<1>2. ASSUME NEW d \in Dispatch, NEW t \in Terminal, StartOn(d, t)
      PROVE  TypeOK'
  <2>1. now[t] \in 0 .. MaxProcess
    BY <1>a DEF TerminalTypes
  <2>2. RowTypes'
    BY <1>2, <1>n, <1>x DEF StartOn
  <2> QED BY <1>2, <2>1, <2>2, <1>b, <1>c, <1>t DEF StartOn
<1>3. ASSUME NEW d \in Dispatch, NEW s \in Settled, Settle(d, s)
      PROVE  TypeOK'
  <2>1. WorkerTypes'
    BY <1>3, <1>a DEF Settle, WorkerTypes
  <2> QED BY <1>3, <2>1, <1>b, <1>r, <1>t, <1>m, <1>h DEF Settle
<1>4. ASSUME NEW o \in Dispatch, NEW d \in Dispatch, RequestRelease(o, d)
      PROVE  TypeOK'
  <2>1. RowTypes'
    BY <1>4, <1>a DEF RequestRelease, RowTypes, Free, Committed, Pending
  <2>2. MemoryTypes'
    BY <1>4, <1>a, BeginType DEF RequestRelease, MemoryTypes
  <2>3. BookTypes'
    BY <1>4, <1>a DEF RequestRelease, BookTypes
  <2> QED BY <1>4, <2>1, <2>2, <2>3, <1>b, <1>w, <1>t DEF RequestRelease
<1>5. ASSUME NEW o \in Dispatch, NEW d \in Dispatch, AskLiveness(o, d)
      PROVE  TypeOK'
  <2>1. MemoryTypes'
    BY <1>5, <1>a DEF AskLiveness, MemoryTypes
  <2> QED BY <1>5, <2>1, <1>b, <1>w, <1>r, <1>t, <1>h DEF AskLiveness
<1>6. ASSUME NEW d \in Dispatch, AnswerLiveness(d)
      PROVE  TypeOK'
  <2>1. MemoryTypes'
    BY <1>6, <1>a DEF AnswerLiveness, MemoryTypes
  <2>2. probe[d] \in Dispatch
    BY <1>6, <1>a DEF AnswerLiveness, MemoryTypes
  <2>3. RowTypes'
    BY <1>6, <2>2, WriteTypes DEF AnswerLiveness
  <2> QED BY <1>6, <2>1, <2>3, <1>b, <1>w, <1>t, <1>h DEF AnswerLiveness
<1>7. ASSUME NEW o \in Dispatch, Retain(o)
      PROVE  TypeOK'
  <2>1. RowTypes'
    BY <1>7, <1>a DEF Retain, RowTypes, Free, Committed, Pending
  <2>2. BookTypes'
    BY <1>7, <1>a DEF Retain, BookTypes
  <2> QED BY <1>7, <2>1, <2>2, <1>b, <1>w, <1>t, <1>m DEF Retain
<1>8. ASSUME NEW t \in Terminal, UserTypes(t)
      PROVE  TypeOK'
  <2>1. RowTypes'
    BY <1>8, <1>a DEF UserTypes, Taken, Rows, RowTypes, Free, Committed, Pending
  <2>2. BookTypes'
    BY <1>8, <1>a DEF UserTypes, BookTypes, Exact, Rows
  <2> QED BY <1>8, <2>1, <2>2, <1>b, <1>w, <1>t, <1>m DEF UserTypes
<1>9. ASSUME NEW o \in Dispatch, Look(o)
      PROVE  TypeOK'
  <2> DEFINE d == call[o].dispatch
  <2>1. faults' \in Nat
    BY <1>9, <1>a, <1>f DEF Look, BookTypes
  <2>2. /\ RowTypes' /\ archived' \in SUBSET Dispatch
        /\ call' \in [Dispatch -> Call] /\ pass' \in Pass
    <3>1. archived \in SUBSET Dispatch /\ call \in [Dispatch -> Call] /\ pass \in Pass
      BY <1>a DEF BookTypes, MemoryTypes
    <3>2. CASE Revert(o) /\ End(o) /\ UNCHANGED archived
      BY <3>1, <3>2, WriteTypes, EndType
    <3>3. CASE Missing(o, call[o]) /\ End(o) /\ UNCHANGED archived
      BY <3>1, <3>3, WriteTypes, EndType DEF Missing
    <3>4. CASE d \in archived /\ CommitAndClose(o, d)
      BY <3>1, <3>4, CommitAndCloseType
    <3>5. CASE call' = [call EXCEPT ![o].phase = "capture"] /\ UNCHANGED <<rows, archived, pass>>
      BY <3>1, <3>5, WriteTypes, CallTypes
    <3> QED BY <1>9, <3>2, <3>3, <3>4, <3>5 DEF Look
  <2>3. MemoryTypes' /\ BookTypes'
    BY <1>9, <2>1, <2>2, <1>a DEF Look, MemoryTypes, BookTypes
  <2> QED BY <1>9, <2>2, <2>3, <1>b, <1>w, <1>t DEF Look
<1>10. ASSUME NEW o \in Dispatch, Capture(o)
       PROVE  TypeOK'
  <2>1. faults' \in Nat
    BY <1>10, <1>a, <1>f DEF Capture, BookTypes
  <2>2. call[o].dispatch \in Dispatch
    BY <1>10 DEF Capture, CallsFit, ActsFor
  <2>3. /\ RowTypes' /\ archived' \in SUBSET Dispatch
        /\ call' \in [Dispatch -> Call] /\ pass' \in Pass
    <3>1. CASE CommitAndClose(o, call[o].dispatch)
      BY <3>1, <2>2, CommitAndCloseType
    <3>2. CASE End(o) /\ UNCHANGED <<rows, archived>>
      BY <3>2, <1>a, WriteTypes, EndType DEF BookTypes
    <3> QED BY <1>10, <3>1, <3>2 DEF Capture
  <2>4. MemoryTypes' /\ BookTypes'
    BY <1>10, <2>1, <2>3, <1>a DEF Capture, MemoryTypes, BookTypes
  <2> QED BY <1>10, <2>3, <2>4, <1>b, <1>w, <1>t DEF Capture
<1>11. ASSUME NEW o \in Dispatch, Close(o)
       PROVE  TypeOK'
  <2>0. PICK ends \in BOOLEAN : Closes(o, ends) /\ Answer(o, ends)
    BY <1>11 DEF Close
  <2>1. RowTypes' /\ faults' \in Nat
    <3>1. CASE Released(o) /\ UNCHANGED <<owner, prior, reason>> /\ (IF ends THEN UNCHANGED faults ELSE Fault)
      BY <3>1, <1>a, <1>f, WriteTypes DEF BookTypes
    <3>2. CASE Fault /\ UNCHANGED rows
      BY <3>2, <1>f, WriteTypes
    <3>3. CASE Fault /\ MarkUnknown(o)
      BY <3>3, <1>f, WriteTypes
    <3> QED BY <2>0, <3>1, <3>2, <3>3 DEF Answer
  <2>2. TerminalTypes'
    <3>1. CASE ends /\ Runs(o)
      BY <1>11, <2>0, <3>1, <1>a DEF Close, Closes, TerminalTypes
    <3>2. CASE ~(ends /\ Runs(o))
      BY <1>11, <2>0, <3>2, <1>a DEF Close, Closes, TerminalTypes
    <3> QED BY <3>1, <3>2
  <2>3. MemoryTypes'
    BY <1>11, <1>a, EndType DEF Close, MemoryTypes
  <2>4. BookTypes'
    BY <1>11, <2>1, <2>2, <1>a DEF Close, BookTypes
  <2> QED BY <1>11, <2>1, <2>2, <2>3, <2>4, <1>b, <1>w DEF Close
<1>12. ASSUME Reconcile \/ NextOfPass
       PROVE  TypeOK'
  <2>1. /\ pass.queue \in SUBSET Entry /\ Backlog \in SUBSET Entry /\ {} \in SUBSET Entry
        /\ pass.rerun \in BOOLEAN /\ call \in [Dispatch -> Call]
    BY RowFacts, PassTypes, <1>a DEF MemoryTypes
  <2>2. call' \in [Dispatch -> Call] /\ pass' \in Pass
    <3>1. CASE Reconcile
      BY <3>1, <2>1, GoOnType, PassTypes DEF Reconcile
    <3>2. CASE NextOfPass
      BY <3>2, <2>1, GoOnType DEF NextOfPass
    <3> QED BY <1>12, <3>1, <3>2
  <2>3. UNCHANGED <<workers, rows, archived, terminals, probe, faults>>
    BY <1>12 DEF Reconcile, NextOfPass
  <2>4. MemoryTypes'
    BY <2>2, <2>3, <1>a DEF MemoryTypes
  <2> QED BY <2>3, <2>4, <1>b, <1>w, <1>r, <1>t, <1>h
<1>13. ASSUME NEW t \in Terminal, Spawn(t) \/ Exit(t) \/ Find(t)
       PROVE  TypeOK'
  <2>1. TerminalTypes'
    BY <1>13, <1>a, NilFacts DEF Spawn, Exit, Find, TerminalTypes
  <2> QED BY <1>13, <2>1, <1>b, <1>w, <1>r, <1>m, <1>h DEF Spawn, Exit, Find
<1>14. ASSUME NEW t \in Terminal, Drop(t)
       PROVE  TypeOK'
  <2>1. TerminalTypes' /\ BookTypes'
    BY <1>14, <1>a, <1>f DEF Drop, TerminalTypes, BookTypes
  <2> QED BY <1>14, <2>1, <1>b, <1>w, <1>r, <1>m DEF Drop
<1>15. ASSUME Restart
       PROVE  TypeOK'
  <2>1. TerminalTypes' /\ BookTypes'
    BY <1>15, <1>a, <1>f DEF Restart, TerminalTypes, BookTypes
  <2>2. MemoryTypes'
    BY <1>15, CallTypes, PassTypes DEF Restart, MemoryTypes
  <2> QED BY <1>15, <2>1, <2>2, <1>b, <1>w, <1>r DEF Restart
<1>16. CASE UNCHANGED vars
  BY <1>16, <1>b, <1>w, <1>r, <1>t, <1>m, <1>h DEF vars
<1> QED BY <1>1, <1>2, <1>3, <1>4, <1>5, <1>6, <1>7, <1>8, <1>9, <1>10, <1>11, <1>12,
           <1>13, <1>14, <1>15, <1>16 DEF Next

-----------------------------------------------------------------------------
(***************************************************************************)
(* What a step may do to a row, to the archive and to a completion.        *)
(***************************************************************************)
Starts == \E d \in Dispatch, t \in Terminal : StartFresh(d, t) \/ StartOn(d, t)

\* The six things that may happen to a row when no worker is started.
Untouched(o) == release'[o] = release[o] /\ ownership'[o] = ownership[o]
Asked(o) ==
  /\ release[o] # "releasing" /\ release'[o] = "requested"
  /\ ownership[o] = "owned" /\ ownership'[o] = "owned" /\ state[owner[o]] \in Releasable
Kept(o) ==
  /\ release[o] \in Free \cup Pending /\ release'[o] = "retained"
  /\ ownership'[o] \in {ownership[o], "user_owned"}
  /\ release[o] = "releasing" => call[o].phase # "idle" /\ call'[o] = Idle
LeftOpen(o) ==
  /\ release[o] \in Pending /\ release'[o] = "unknown" /\ ownership'[o] = ownership[o]
  /\ call[o].phase # "idle" /\ call'[o] = Idle
Begun(o) ==
  /\ release[o] = "requested" /\ release'[o] = "releasing"
  /\ ownership[o] = "owned" /\ ownership'[o] = "owned" /\ owner[o] \in archived'
Ended(o) ==
  /\ release'[o] = "released" /\ ownership'[o] = "released"
  /\ \/ call[o].phase = "close" /\ call'[o] = Idle
     \/ ~Runs(o) /\ state[owner[o]] \in Settled /\ release[o] \in Free \cup {"unknown"}

RowStep(o) ==
  \/ Untouched(o)
  \/ o \in Rows /\ (Asked(o) \/ Kept(o) \/ LeftOpen(o) \/ Begun(o) \/ Ended(o))

LEMMA EndCall ==
  ASSUME TypeOK, NEW o \in Dispatch, End(o)
  PROVE  call'[o] = Idle
  BY DEF End, TypeOK

LEMMA CommitRowStep ==
  ASSUME TypeOK, NEW o \in Rows, NEW d \in Dispatch, CommitAndClose(o, d),
         call[o].phase # "idle"
  PROVE  \A p \in Dispatch : RowStep(p)
<1>0. o \in Dispatch /\ TypeOK
  BY RowFacts
<1>1. CASE Commits(o, d) /\ release' = [release EXCEPT ![o] = "releasing"] /\ UNCHANGED ownership
  <2>1. owner[o] \in archived'
    BY <1>1 DEF CommitAndClose, Commits
  <2> QED BY <1>0, <1>1, <2>1 DEF Commits, RowStep, Untouched, Begun, TypeOK
<1>2. CASE release[o] = "releasing" /\ release' = [release EXCEPT ![o] = "releasing"] /\ UNCHANGED ownership
  BY <1>0, <1>2 DEF RowStep, Untouched, TypeOK
<1>3. CASE /\ Commits(o, d) \/ release[o] = "releasing"
           /\ release' = [release EXCEPT ![o] = "retained"] /\ UNCHANGED ownership /\ End(o)
  BY <1>0, <1>3, EndCall DEF Commits, RowStep, Untouched, Kept, Pending, TypeOK
<1>4. CASE UNCHANGED rows
  BY <1>4 DEF RowStep, Untouched, rows
<1> QED BY <1>1, <1>2, <1>3, <1>4 DEF CommitAndClose

\* A step that starts no worker leaves the owners and where the workers are,
\* and moves a worker at most from active to settled.
LEMMA Stays ==
  ASSUME TypeOK, [Next]_vars, ~Starts
  PROVE  /\ UNCHANGED <<at, born, owner, prior>>
         /\ \A d \in Dispatch : \/ state'[d] = state[d]
                                \/ state[d] = "active" /\ state'[d] \in Settled
<1> DEFINE Goal == /\ UNCHANGED <<at, born, owner, prior>>
                   /\ \A d \in Dispatch : \/ state'[d] = state[d]
                                          \/ state[d] = "active" /\ state'[d] \in Settled
<1>1. ASSUME NEW d \in Dispatch, NEW s \in Settled, Settle(d, s)
      PROVE  Goal
  BY <1>1 DEF Settle, rows, TypeOK
<1>2. ASSUME UNCHANGED workers, UNCHANGED <<owner, prior>>
      PROVE  Goal
  BY <1>2 DEF workers
<1> HIDE DEF Goal
<1>3. ASSUME NEW o \in Dispatch, NEW d \in Dispatch, RequestRelease(o, d) \/ AskLiveness(o, d)
      PROVE  Goal
  BY <1>2, <1>3 DEF RequestRelease, AskLiveness, rows
<1>4. ASSUME NEW d \in Dispatch, AnswerLiveness(d)
      PROVE  Goal
  BY <1>2, <1>4 DEF AnswerLiveness, rows
<1>5. ASSUME NEW o \in Dispatch, Retain(o) \/ Look(o) \/ Capture(o) \/ Close(o)
      PROVE  Goal
  <2>1. CASE Retain(o)
    BY <1>2, <2>1 DEF Retain
  <2>2. CASE Look(o)
    BY <1>2, <2>2 DEF Look, Missing, MarkUnknown, Revert, CommitAndClose, rows
  <2>3. CASE Capture(o)
    BY <1>2, <2>3 DEF Capture, CommitAndClose, rows
  <2>4. CASE Close(o)
    <3>1. UNCHANGED <<owner, prior>>
      BY <2>4 DEF Close, Answer, MarkUnknown, rows
    <3> QED BY <1>2, <2>4, <3>1 DEF Close
  <2> QED BY <1>5, <2>1, <2>2, <2>3, <2>4
<1>6. ASSUME NEW t \in Terminal, UserTypes(t) \/ Spawn(t) \/ Exit(t) \/ Drop(t) \/ Find(t)
      PROVE  Goal
  BY <1>2, <1>6 DEF UserTypes, Spawn, Exit, Drop, Find, rows
<1>7. ASSUME Reconcile \/ NextOfPass \/ Restart \/ UNCHANGED vars
      PROVE  Goal
  BY <1>2, <1>7 DEF Reconcile, NextOfPass, Restart, vars, rows
<1>8. Goal
  BY <1>1, <1>3, <1>4, <1>5, <1>6, <1>7 DEF Next, Starts
<1> QED BY <1>8 DEF Goal

LEMMA RowSteps ==
  ASSUME TypeOK, RowsFit, CallsFit, [Next]_vars, ~Starts
  PROVE  \A o \in Dispatch : RowStep(o)
<1> DEFINE Goal == \A o \in Dispatch : RowStep(o)
<1>1. ASSUME UNCHANGED rows
      PROVE  Goal
  BY <1>1 DEF rows, RowStep, Untouched
<1>2. ASSUME NEW o \in Rows, o \in Dispatch, call[o].phase # "idle", End(o),
             UNCHANGED rows \/ Revert(o) \/ MarkUnknown(o)
      PROVE  Goal
  <2>1. call'[o] = Idle
    BY <1>2, EndCall
  <2>2. CASE Revert(o)
    BY <1>2, <2>1, <2>2 DEF Revert, RowStep, Untouched, Kept, Pending, TypeOK
  <2>3. CASE MarkUnknown(o)
    BY <1>2, <2>1, <2>3 DEF MarkUnknown, RowStep, Untouched, LeftOpen, Pending, TypeOK
  <2> QED BY <1>1, <1>2, <2>2, <2>3
<1>3. ASSUME NEW o \in Dispatch, call[o].phase # "idle"
      PROVE  o \in Rows /\ call[o].dispatch \in Dispatch
  BY <1>3 DEF CallsFit, ActsFor
<1> HIDE DEF Goal
<1>4. ASSUME NEW o \in Dispatch, NEW d \in Dispatch, RequestRelease(o, d)
      PROVE  Goal
  <2>1. o \in Rows
    BY <1>4, NilFacts DEF RequestRelease, Rows
  <2> QED BY <1>4, <2>1 DEF RequestRelease, RowStep, Untouched, Asked, TypeOK, Goal
<1>5. ASSUME NEW d \in Dispatch, AnswerLiveness(d)
      PROVE  Goal
  <2>1. CASE ~Runs(probe[d]) /\ SettlesDead(probe[d], d) /\ Released(probe[d])
    <3>1. probe[d] \in Dispatch
      BY <1>5 DEF AnswerLiveness, TypeOK
    <3>2. probe[d] \in Rows
      BY <2>1, <3>1 DEF SettlesDead, Rows, RowsFit, Free
    <3> QED BY <2>1, <3>1, <3>2 DEF SettlesDead, Released, RowStep, Untouched, Ended, TypeOK, Goal
  <2> QED BY <1>1, <1>5, <2>1 DEF AnswerLiveness
<1>6. ASSUME NEW o \in Dispatch, Retain(o)
      PROVE  Goal
  BY <1>6 DEF Retain, Rows, RowStep, Untouched, Kept, Free, Pending, TypeOK, Goal
<1>7. ASSUME NEW t \in Terminal, UserTypes(t)
      PROVE  Goal
  BY <1>7 DEF UserTypes, Taken, Rows, RowStep, Untouched, Kept, Free, Pending, TypeOK, Goal
<1>8. ASSUME NEW o \in Dispatch, Look(o)
      PROVE  Goal
  <2>1. call[o].phase # "idle"
    BY <1>8 DEF Look
  <2>2. CASE CommitAndClose(o, call[o].dispatch)
    BY <2>1, <2>2, <1>3, CommitRowStep DEF Goal
  <2>3. CASE Revert(o) /\ End(o)
    BY <2>1, <2>3, <1>2, <1>3
  <2>4. CASE Missing(o, call[o]) /\ End(o)
    BY <2>1, <2>4, <1>2, <1>3 DEF Missing
  <2>5. CASE UNCHANGED rows
    BY <2>5, <1>1
  <2> QED BY <1>8, <2>2, <2>3, <2>4, <2>5 DEF Look
<1>9. ASSUME NEW o \in Dispatch, Capture(o)
      PROVE  Goal
  <2>1. CASE CommitAndClose(o, call[o].dispatch)
    BY <1>9, <2>1, <1>3, CommitRowStep DEF Capture, Goal
  <2> QED BY <1>1, <1>9, <2>1 DEF Capture
<1>10. ASSUME NEW o \in Dispatch, Close(o)
       PROVE  Goal
  <2>1. call[o].phase = "close" /\ call'[o] = Idle /\ o \in Rows
    BY <1>3, <1>10, EndCall DEF Close
  <2>2. CASE Released(o)
    BY <2>1, <2>2 DEF Released, RowStep, Untouched, Ended, TypeOK, Goal
  <2> QED BY <1>1, <1>2, <1>10, <2>1, <2>2 DEF Close, Answer
<1>11. ASSUME NEW d \in Dispatch, NEW s \in Settled, Settle(d, s)
       PROVE  Goal
  BY <1>1, <1>11 DEF Settle
<1>12. ASSUME NEW o \in Dispatch, NEW d \in Dispatch, AskLiveness(o, d)
       PROVE  Goal
  BY <1>1, <1>12 DEF AskLiveness
<1>13. ASSUME NEW t \in Terminal, Spawn(t) \/ Exit(t) \/ Drop(t) \/ Find(t)
       PROVE  Goal
  BY <1>1, <1>13 DEF Spawn, Exit, Drop, Find
<1>14. ASSUME Reconcile \/ NextOfPass \/ Restart \/ UNCHANGED vars
       PROVE  Goal
  BY <1>1, <1>14 DEF Reconcile, NextOfPass, Restart, vars
<1>15. Goal
  BY <1>4, <1>5, <1>6, <1>7, <1>8, <1>9, <1>10, <1>11, <1>12, <1>13, <1>14 DEF Next, Starts
<1> QED BY <1>15 DEF Goal

\* Output that a release in progress needs is not thrown away.
LEMMA ArchiveStep ==
  ASSUME TypeOK, OneRow, [Next]_vars, NEW p \in Rows, release[p] = "releasing",
         owner[p] \in archived
  PROVE  owner[p] \in archived'
<1>0. p \in Dispatch /\ owner[p] # NoDispatch
  BY DEF Rows
<1>1. ASSUME NEW o \in Dispatch, NEW d \in Dispatch, RequestRelease(o, d)
      PROVE  owner[p] \in archived'
  <2>1. o \in Rows
    BY <1>1, NilFacts DEF RequestRelease, Rows
  <2>2. Discarded(o) => o # p
    BY DEF Discarded
  <2>3. Discarded(o) => owner[p] # d
    BY <1>1, <2>1, <2>2 DEF RequestRelease, OneRow
  <2> QED BY <1>1, <2>3 DEF RequestRelease
<1>2. ASSUME NEW o \in Dispatch, Retain(o)
      PROVE  owner[p] \in archived'
  <2>1. o \in Rows /\ o # p
    BY <1>2 DEF Retain, Rows, Free
  <2>2. owner[p] # owner[o]
    BY <2>1 DEF OneRow
  <2> QED BY <1>2, <2>2 DEF Retain
<1>3. ASSUME NEW t \in Terminal, UserTypes(t)
      PROVE  owner[p] \in archived'
  <2>1. ASSUME NEW o \in Taken(t)
        PROVE  owner[p] # owner[o]
    BY <2>1 DEF Taken, Free, OneRow
  <2> QED BY <1>3, <2>1 DEF UserTypes
<1>4. ASSUME NEW o \in Dispatch, Look(o) \/ Capture(o) \/ Close(o)
      PROVE  owner[p] \in archived'
  BY <1>4 DEF Look, Capture, Close, CommitAndClose
<1>5. ASSUME UNCHANGED archived
      PROVE  owner[p] \in archived'
  BY <1>5
<1>6. ASSUME NEW d \in Dispatch, NEW t \in Terminal, StartFresh(d, t) \/ StartOn(d, t)
      PROVE  UNCHANGED archived
  BY <1>6 DEF StartFresh, StartOn, Attached
<1>7. ASSUME NEW d \in Dispatch, NEW s \in Settled, Settle(d, s)
      PROVE  UNCHANGED archived
  BY <1>7 DEF Settle
<1>8. ASSUME NEW o \in Dispatch, NEW d \in Dispatch, AskLiveness(o, d) \/ AnswerLiveness(d)
      PROVE  UNCHANGED archived
  BY <1>8 DEF AskLiveness, AnswerLiveness
<1>9. ASSUME NEW t \in Terminal, Spawn(t) \/ Exit(t) \/ Drop(t) \/ Find(t)
      PROVE  UNCHANGED archived
  BY <1>9 DEF Spawn, Exit, Drop, Find
<1>10. ASSUME Reconcile \/ NextOfPass \/ Restart \/ UNCHANGED vars
       PROVE  UNCHANGED archived
  BY <1>10 DEF Reconcile, NextOfPass, Restart, vars
<1> QED BY <1>1, <1>2, <1>3, <1>4, <1>5, <1>6, <1>7, <1>8, <1>9, <1>10 DEF Next

-----------------------------------------------------------------------------
(***************************************************************************)
(* Starting a worker.                                                      *)
(***************************************************************************)
\* A dispatch that starts has no row and owns none.
LEMMA Starting ==
  ASSUME TypeOK, TerminalsFit, WorkersFit, RowsFit,
         NEW d \in Dispatch, NEW t \in Terminal, StartFresh(d, t) \/ StartOn(d, t)
  PROVE  \E k \in Nat :
           /\ Attached(d, t, k) /\ k >= 1 /\ k = now'[t] /\ state[d] = "none"
           /\ \A p \in Rows : p # d /\ owner[p] # d /\ p \in Dispatch
           /\ \/ now[t] = 0 /\ NewRow(d, "owned", "none")
              \/ now[t] = k /\ Reusable(t) /\ NewRow(d, "external", "external_terminal")
              \/ now[t] = k /\ Reusable(t) /\ \E o \in Transferable(t) : Transfer(o, d)
<1>0. state[d] = "none"
  BY DEF StartFresh, StartOn, Attached
<1>1. \A p \in Rows : p # d /\ owner[p] # d /\ p \in Dispatch
  BY <1>0 DEF RowsFit, Rows
<1>2. CASE StartFresh(d, t)
  <2>1. now'[t] = 1
    BY <1>2 DEF StartFresh, TypeOK
  <2> QED BY <1>0, <1>1, <1>2, <2>1 DEF StartFresh
<1>3. CASE StartOn(d, t)
  <2>1. now'[t] = now[t] /\ now[t] \in Nat /\ now[t] >= 1
    BY <1>3, NilFacts DEF StartOn, terminals, TerminalsFit, TypeOK
  <2> QED BY <1>0, <1>1, <1>3, <2>1 DEF StartOn
<1> QED BY <1>2, <1>3

LEMMA NowGrows ==
  ASSUME TypeOK, [Next]_vars
  PROVE  \A t \in Terminal : now'[t] >= now[t] /\ now[t] \in Nat /\ now'[t] \in Nat
<1>0. now \in [Terminal -> Nat]
  BY NilFacts DEF TypeOK
<1>1. ASSUME NEW u \in Terminal, NEW k \in Nat, k >= now[u], now' = [now EXCEPT ![u] = k]
      PROVE  \A t \in Terminal : now'[t] >= now[t] /\ now[t] \in Nat /\ now'[t] \in Nat
  BY <1>0, <1>1
<1>2. ASSUME UNCHANGED now
      PROVE  \A t \in Terminal : now'[t] >= now[t] /\ now[t] \in Nat /\ now'[t] \in Nat
  BY <1>0, <1>2
<1>3. ASSUME NEW d \in Dispatch, NEW t \in Terminal, StartFresh(d, t)
      PROVE  \E u \in Terminal, k \in Nat : k >= now[u] /\ now' = [now EXCEPT ![u] = k]
  <2>1. 1 \in Nat /\ 1 >= now[t] /\ now' = [now EXCEPT ![t] = 1]
    BY <1>3 DEF StartFresh
  <2> QED BY <2>1
<1>4. ASSUME NEW t \in Terminal, Spawn(t)
      PROVE  \E u \in Terminal, k \in Nat : k >= now[u] /\ now' = [now EXCEPT ![u] = k]
  <2>1. now[t] + 1 \in Nat /\ now[t] + 1 >= now[t]
    BY <1>0
  <2> QED BY <1>4, <2>1 DEF Spawn
<1>5. ASSUME NEW d \in Dispatch, NEW t \in Terminal, StartOn(d, t)
      PROVE  UNCHANGED now
  BY <1>5 DEF StartOn, terminals
<1>6. ASSUME NEW d \in Dispatch, NEW s \in Settled, Settle(d, s)
      PROVE  UNCHANGED now
  BY <1>6 DEF Settle, terminals
<1>7. ASSUME NEW o \in Dispatch, NEW d \in Dispatch,
             RequestRelease(o, d) \/ AskLiveness(o, d) \/ AnswerLiveness(d)
      PROVE  UNCHANGED now
  BY <1>7 DEF RequestRelease, AskLiveness, AnswerLiveness, terminals
<1>8. ASSUME NEW o \in Dispatch, Retain(o) \/ Look(o) \/ Capture(o) \/ Close(o)
      PROVE  UNCHANGED now
  BY <1>8 DEF Retain, Look, Capture, Close, terminals
<1>9. ASSUME NEW t \in Terminal, UserTypes(t) \/ Exit(t) \/ Drop(t) \/ Find(t)
      PROVE  UNCHANGED now
  BY <1>9 DEF UserTypes, Exit, Drop, Find, terminals
<1>10. ASSUME Reconcile \/ NextOfPass \/ Restart \/ UNCHANGED vars
       PROVE  UNCHANGED now
  BY <1>10 DEF Reconcile, NextOfPass, Restart, vars, terminals
<1>a. (\E u \in Terminal, k \in Nat : k >= now[u] /\ now' = [now EXCEPT ![u] = k]) \/ UNCHANGED now
  BY <1>3, <1>4, <1>5, <1>6, <1>7, <1>8, <1>9, <1>10 DEF Next
<1> QED BY <1>a, <1>1, <1>2

-----------------------------------------------------------------------------
(***************************************************************************)
(* Each part of the invariant is kept.                                     *)
(***************************************************************************)
LEMMA TerminalsStay ==
  ASSUME TypeOK, TerminalsFit, [Next]_vars
  PROVE  TerminalsFit'
<1> DEFINE Goal == \A t \in Terminal : /\ t \in alive' => now'[t] >= 1
                                       /\ view'[t] = "connected" => t \in alive'
<1>1. ASSUME UNCHANGED terminals
      PROVE  Goal
  BY <1>1 DEF terminals, TerminalsFit
<1>2. ASSUME NEW d \in Dispatch, NEW t \in Terminal, StartFresh(d, t)
      PROVE  Goal
  BY <1>2 DEF StartFresh, TerminalsFit, TypeOK
<1>3. ASSUME NEW t \in Terminal, Spawn(t)
      PROVE  Goal
  <2>1. now[t] \in Nat /\ now[t] + 1 >= 1
    BY NilFacts DEF TypeOK
  <2> QED BY <1>3, <2>1 DEF Spawn, TerminalsFit, TypeOK
<1>4. ASSUME NEW t \in Terminal, Exit(t) \/ Drop(t) \/ Find(t)
      PROVE  Goal
  BY <1>4 DEF Exit, Drop, Find, TerminalsFit, TypeOK
<1>5. ASSUME NEW o \in Dispatch, Close(o)
      PROVE  Goal
  <2>1. PICK ends \in BOOLEAN : Closes(o, ends)
    BY <1>5 DEF Close
  <2>2. UNCHANGED now
    BY <1>5 DEF Close
  <2>3. CASE ends /\ Runs(o)
    BY <2>1, <2>2, <2>3 DEF Closes, TerminalsFit, TypeOK
  <2>4. CASE ~(ends /\ Runs(o))
    BY <2>1, <2>2, <2>4 DEF Closes, TerminalsFit
  <2> QED BY <2>3, <2>4
<1>6. ASSUME Restart
      PROVE  Goal
  BY <1>6 DEF Restart, TerminalsFit
<1> HIDE DEF Goal
<1>7. ASSUME NEW d \in Dispatch, NEW t \in Terminal, StartOn(d, t)
      PROVE  Goal
  BY <1>1, <1>7 DEF StartOn
<1>8. ASSUME NEW d \in Dispatch, NEW s \in Settled, Settle(d, s)
      PROVE  Goal
  BY <1>1, <1>8 DEF Settle
<1>9. ASSUME NEW o \in Dispatch, NEW d \in Dispatch,
             RequestRelease(o, d) \/ AskLiveness(o, d) \/ AnswerLiveness(d)
      PROVE  Goal
  BY <1>1, <1>9 DEF RequestRelease, AskLiveness, AnswerLiveness
<1>10. ASSUME NEW o \in Dispatch, Retain(o) \/ Look(o) \/ Capture(o)
       PROVE  Goal
  BY <1>1, <1>10 DEF Retain, Look, Capture
<1>11. ASSUME NEW t \in Terminal, UserTypes(t)
       PROVE  Goal
  BY <1>1, <1>11 DEF UserTypes, terminals
<1>12. ASSUME Reconcile \/ NextOfPass \/ UNCHANGED vars
       PROVE  Goal
  BY <1>1, <1>12 DEF Reconcile, NextOfPass, vars
<1>13. Goal
  BY <1>2, <1>3, <1>4, <1>5, <1>6, <1>7, <1>8, <1>9, <1>10, <1>11, <1>12 DEF Next
<1> QED BY <1>13 DEF Goal, TerminalsFit

LEMMA WorkersStay ==
  ASSUME TypeOK, TerminalsFit, WorkersFit, RowsFit, [Next]_vars
  PROVE  WorkersFit'
<1>0. \A t \in Terminal : now'[t] >= now[t] /\ now[t] \in Nat /\ now'[t] \in Nat
  BY NowGrows
<1>n. \A e \in Dispatch : born[e] \in Nat
  BY NilFacts DEF TypeOK
<1>1. ASSUME NEW d \in Dispatch, NEW t \in Terminal, StartFresh(d, t) \/ StartOn(d, t)
      PROVE  WorkersFit'
  <2>1. PICK k \in Nat : Attached(d, t, k) /\ k >= 1 /\ k = now'[t]
    BY <1>1, Starting
  <2>2. ASSUME NEW e \in Dispatch, state'[e] # "none"
        PROVE  at'[e] \in Terminal /\ born'[e] >= 1 /\ born'[e] <= now'[at'[e]]
    <3>1. CASE e = d
      <4>1. at'[e] = t /\ born'[e] = k
        BY <2>1, <3>1 DEF Attached, TypeOK
      <4> QED BY <2>1, <4>1
    <3>2. CASE e # d
      <4>1. at'[e] = at[e] /\ born'[e] = born[e] /\ state[e] # "none"
        BY <2>1, <2>2, <3>2 DEF Attached, TypeOK
      <4>2. at[e] \in Terminal /\ born[e] >= 1 /\ born[e] <= now[at[e]]
        BY <4>1 DEF WorkersFit
      <4> QED BY <4>1, <4>2, <1>0, <1>n
    <3> QED BY <3>1, <3>2
  <2> QED BY <2>2 DEF WorkersFit
<1>2. CASE ~Starts
  <2>1. UNCHANGED <<at, born>> /\ \A e \in Dispatch : state'[e] # "none" => state[e] # "none"
    BY <1>2, Stays
  <2> QED BY <2>1, <1>0, <1>n DEF WorkersFit
<1> QED BY <1>1, <1>2 DEF Starts

\* The rows of the step that starts a worker.
LEMMA StartedRows ==
  ASSUME TypeOK, TerminalsFit, WorkersFit, RowsFit, OneRow, ActiveHasRow,
         NEW d \in Dispatch, NEW t \in Terminal, StartFresh(d, t) \/ StartOn(d, t)
  PROVE  /\ RowsFit' /\ OneRow' /\ ActiveHasRow'
         /\ \A p \in Dispatch \ {d} : at'[p] = at[p] /\ born'[p] = born[p] /\ state'[p] = state[p]
         /\ at'[d] = t /\ state'[d] = "active"
         /\ Rows \subseteq Rows' /\ Rows' \subseteq Rows \cup {d}
<1>0. PICK k \in Nat :
        /\ Attached(d, t, k) /\ k >= 1 /\ k = now'[t] /\ state[d] = "none"
        /\ \A p \in Rows : p # d /\ owner[p] # d /\ p \in Dispatch
        /\ \/ NewRow(d, "owned", "none")
           \/ NewRow(d, "external", "external_terminal")
           \/ \E o \in Transferable(t) : Transfer(o, d)
  BY Starting
<1>1. /\ \A p \in Dispatch \ {d} : at'[p] = at[p] /\ born'[p] = born[p] /\ state'[p] = state[p]
      /\ at'[d] = t /\ born'[d] = k /\ state'[d] = "active"
  BY <1>0 DEF Attached, TypeOK
<1>2. \A p \in Rows : /\ p \in Dispatch \ {d} /\ owner[p] \in Dispatch \ {d}
                      /\ state[p] # "none" /\ state[owner[p]] # "none" /\ Same(p, owner[p])
  BY <1>0, RowFacts DEF RowsFit, Rows
<1>3. CASE \E owns, why : NewRow(d, owns, why)
  <2>0. /\ owner' = [owner EXCEPT ![d] = d]
        /\ release' = [release EXCEPT ![d] = "not_requested"]
    BY <1>3 DEF NewRow
  <2>1. \A p \in Dispatch \ {d} : owner'[p] = owner[p] /\ release'[p] = release[p]
    BY <2>0 DEF TypeOK
  <2>2. owner'[d] = d /\ d # NoDispatch
    BY <2>0, NilFacts DEF TypeOK
  <2>3. Rows' = Rows \cup {d}
    BY <2>1, <2>2, <1>2 DEF Rows
  <2>4. RowsFit'
    <3>1. ASSUME NEW p \in Dispatch, owner'[p] = NoDispatch
          PROVE  release'[p] = "none"
      BY <3>1, <2>1, <2>2 DEF RowsFit
    <3>2. ASSUME NEW p \in Dispatch, owner'[p] # NoDispatch
          PROVE  /\ state'[p] # "none" /\ state'[owner'[p]] # "none"
                 /\ at'[p] = at'[owner'[p]] /\ born'[p] = born'[owner'[p]]
      <4>1. CASE p = d
        BY <4>1, <2>2, <1>1
      <4>2. CASE p # d
        <5>1. p \in Rows /\ owner'[p] = owner[p]
          BY <3>2, <4>2, <2>1 DEF Rows
        <5> QED BY <5>1, <1>1, <1>2 DEF Same
      <4> QED BY <4>1, <4>2
    <3> QED BY <3>1, <3>2 DEF RowsFit, Same
  <2>5. OneRow'
    <3>1. ASSUME NEW p \in Rows', NEW q \in Rows', owner'[p] = owner'[q]
          PROVE  p = q
      <4>1. CASE p = d \/ q = d
        BY <3>1, <4>1, <2>1, <2>2, <2>3, <1>2
      <4>2. CASE p # d /\ q # d
        BY <3>1, <4>2, <2>1, <2>3, <1>2 DEF OneRow
      <4> QED BY <4>1, <4>2
    <3> QED BY <3>1 DEF OneRow
  <2>6. ActiveHasRow'
    <3>1. ASSUME NEW e \in Dispatch, state'[e] = "active"
          PROVE  \E p \in Rows' : owner'[p] = e
      <4>1. CASE e = d
        BY <4>1, <2>2, <2>3
      <4>2. CASE e # d
        <5>1. PICK p \in Rows : owner[p] = e
          BY <3>1, <4>2, <1>1 DEF ActiveHasRow
        <5> QED BY <5>1, <1>2, <2>1, <2>3
      <4> QED BY <4>1, <4>2
    <3> QED BY <3>1 DEF ActiveHasRow
  <2> QED BY <1>1, <2>3, <2>4, <2>5, <2>6
<1>4. ASSUME NEW o \in Transferable(t), Transfer(o, d)
      PROVE  RowsFit' /\ OneRow' /\ ActiveHasRow' /\ Rows' = Rows
  <2>1. o \in Rows /\ at[o] = t /\ born[o] = now[t] /\ state[owner[o]] \in Settled
    BY DEF Transferable, Exact
  <2>2. /\ owner'[o] = d /\ d # NoDispatch
        /\ release'[o] = "not_requested"
        /\ \A p \in Dispatch \ {o} : owner'[p] = owner[p] /\ release'[p] = release[p]
    BY <1>4, <2>1, <1>2, NilFacts DEF Transfer, TypeOK
  <2>3. Rows' = Rows
    BY <2>1, <2>2, <1>2 DEF Rows
  <2>4. now'[t] = now[t]
    <3>1. now[t] # 0
      BY <2>1, <1>2 DEF WorkersFit
    <3> QED BY <3>1 DEF StartFresh, StartOn, terminals
  <2>5. RowsFit'
    <3>1. ASSUME NEW p \in Dispatch, owner'[p] = NoDispatch
          PROVE  release'[p] = "none"
      BY <3>1, <2>2 DEF RowsFit
    <3>2. ASSUME NEW p \in Dispatch, owner'[p] # NoDispatch
          PROVE  /\ state'[p] # "none" /\ state'[owner'[p]] # "none"
                 /\ at'[p] = at'[owner'[p]] /\ born'[p] = born'[owner'[p]]
      <4>1. CASE p = o
        BY <4>1, <2>1, <2>2, <2>4, <1>0, <1>1, <1>2
      <4>2. CASE p # o
        <5>1. p \in Rows /\ owner'[p] = owner[p]
          BY <3>2, <4>2, <2>2 DEF Rows
        <5> QED BY <5>1, <1>1, <1>2 DEF Same
      <4> QED BY <4>1, <4>2
    <3> QED BY <3>1, <3>2 DEF RowsFit, Same
  <2>6. OneRow'
    <3>1. ASSUME NEW p \in Rows', NEW q \in Rows', owner'[p] = owner'[q]
          PROVE  p = q
      BY <3>1, <2>1, <2>2, <2>3, <1>2 DEF OneRow
    <3> QED BY <3>1 DEF OneRow
  <2>7. ActiveHasRow'
    <3>1. ASSUME NEW e \in Dispatch, state'[e] = "active"
          PROVE  \E p \in Rows' : owner'[p] = e
      <4>1. CASE e = d
        BY <4>1, <2>1, <2>2, <2>3
      <4>2. CASE e # d
        <5>1. PICK p \in Rows : owner[p] = e
          BY <3>1, <4>2, <1>1 DEF ActiveHasRow
        <5>2. p # o
          BY <3>1, <4>2, <5>1, <2>1, <1>1, <1>2 DEF Settled
        <5> QED BY <5>1, <5>2, <1>2, <2>2, <2>3
      <4> QED BY <4>1, <4>2
    <3> QED BY <3>1 DEF ActiveHasRow
  <2> QED BY <2>3, <2>5, <2>6, <2>7
<1> QED BY <1>0, <1>1, <1>3, <1>4

\* A row of the process of the terminal in which a worker is started is not
\* committed to a release; the worker adds an external row, or has the
\* row of a settled one, or is the first in that process.
LEMMA StartedOwnership ==
  ASSUME TypeOK, TerminalsFit, WorkersFit, RowsFit, OneRow, OneOwned, ActiveHasRow,
         CommittedFits, ClosingFits,
         NEW d \in Dispatch, NEW t \in Terminal, StartFresh(d, t) \/ StartOn(d, t)
  PROVE  OneOwned' /\ CommittedFits' /\ ClosingFits'
<1>0. PICK k \in Nat :
        /\ Attached(d, t, k) /\ k >= 1 /\ k = now'[t] /\ state[d] = "none"
        /\ \A p \in Rows : p # d /\ owner[p] # d /\ p \in Dispatch
        /\ \/ now[t] = 0 /\ NewRow(d, "owned", "none")
           \/ now[t] = k /\ Reusable(t) /\ NewRow(d, "external", "external_terminal")
           \/ now[t] = k /\ Reusable(t) /\ \E o \in Transferable(t) : Transfer(o, d)
  BY Starting
<1>1. /\ \A p \in Dispatch \ {d} : at'[p] = at[p] /\ born'[p] = born[p] /\ state'[p] = state[p]
      /\ at'[d] = t /\ state'[d] = "active" /\ UNCHANGED <<archived, call>>
      /\ Rows \subseteq Rows' /\ Rows' \subseteq Rows \cup {d}
  BY <1>0, StartedRows DEF Attached, memory
<1>2. born'[d] = k
  BY <1>0 DEF Attached, TypeOK
<1>3. \A p \in Rows : /\ p \in Dispatch \ {d} /\ owner[p] \in Dispatch \ {d}
                      /\ state[p] # "none" /\ at[p] \in Terminal
                      /\ born[p] >= 1 /\ born[p] <= now[at[p]] /\ born[p] \in Nat
  BY <1>0, RowFacts, NilFacts DEF RowsFit, WorkersFit, Rows, TypeOK
<1>4. \A p \in Dispatch : release[p] # "none" => p \in Rows
  BY DEF RowsFit, Rows
\* What is left of a row that is not the new one, nor handed on.
<1>5. ASSUME NEW p \in Rows, owner'[p] = owner[p], release'[p] = release[p], ownership'[p] = ownership[p]
      PROVE  /\ release'[p] \in Committed => ownership'[p] = "owned" /\ state'[owner'[p]] \in Releasable
             /\ release'[p] = "releasing" => owner'[p] \in archived'
             /\ release'[p] = "released" => state'[owner'[p]] \in Settled
  BY <1>5, <1>1, <1>3 DEF CommittedFits
\* A terminal that is being closed has no row more.
<1>6. ASSUME NEW p \in Rows, call[p].phase = "close", at[p] = t, born[p] = k, now[t] = k, Reusable(t)
      PROVE  FALSE
  <2>1. release[p] = "releasing" /\ ownership[p] = "owned"
    BY <1>6, <1>3 DEF ClosingFits, CommittedFits, Committed, Pending
  <2>2. p \in Exact(t)
    BY <1>6, <2>1 DEF Exact
  <2> QED BY <1>6, <2>1, <2>2 DEF Reusable, Committed, Pending
<1>7. \A p \in Dispatch : call[p].phase = "close" => p \in Rows /\ release[p] = "releasing"
  BY <1>4 DEF ClosingFits
<1>8. CASE \E owns, why : NewRow(d, owns, why)
  <2>1. PICK owns, why : NewRow(d, owns, why)
    BY <1>8
  <2>2. /\ owner'[d] = d /\ ownership'[d] = owns /\ release'[d] = "not_requested"
        /\ \A p \in Dispatch \ {d} : owner'[p] = owner[p] /\ release'[p] = release[p]
                                     /\ ownership'[p] = ownership[p]
    BY <2>1 DEF NewRow, TypeOK
  <2>3. /\ now[t] = 0 \/ (now[t] = k /\ Reusable(t))
        /\ owns = "owned" => now[t] = 0
    <3>1. \A x, y : NewRow(d, x, y) => x = owns
      BY <2>2 DEF NewRow, TypeOK
    <3>2. ASSUME NEW o \in Transferable(t), Transfer(o, d)
          PROVE  FALSE
      <4>1. o # d /\ UNCHANGED ownership /\ owner'[d] = owner[d]
        BY <3>2, <1>3 DEF Transferable, Exact, Transfer, TypeOK
      <4>2. d \in Rows
        BY <4>1, <2>2, NilFacts DEF Rows
      <4> QED BY <4>2, <1>0
    <3> QED BY <1>0, <3>1, <3>2
  <2>4. ASSUME NEW p \in Rows, at[p] = t, born[p] = k
        PROVE  now[t] = k /\ Reusable(t)
    <3>1. now[t] # 0
      BY <2>4, <1>3
    <3> QED BY <3>1, <2>3
  <2>5. OneOwned'
    <3>1. ASSUME NEW p \in Rows', NEW q \in Rows', p # q,
                 ownership'[p] = "owned", ownership'[q] = "owned",
                 at'[p] = at'[q], born'[p] = born'[q]
          PROVE  FALSE
      <4>1. ASSUME NEW r \in Rows, ownership'[d] = "owned", at'[r] = t
            PROVE  FALSE
        <5>1. at[r] = t
          BY <4>1, <1>1, <1>3
        <5>2. now[t] = 0
          BY <4>1, <2>2, <2>3
        <5> QED BY <5>1, <5>2, <1>3
      <4>2. CASE p = d \/ q = d
        BY <3>1, <4>1, <4>2, <1>1
      <4>3. CASE p # d /\ q # d
        <5>1. p \in Rows /\ q \in Rows /\ Same(p, q)
          BY <3>1, <4>3, <1>1, <1>3 DEF Same
        <5> QED BY <3>1, <5>1, <2>2, <1>3 DEF OneOwned
      <4> QED BY <4>2, <4>3
    <3> QED BY <3>1 DEF OneOwned, Same
  <2>6. CommittedFits'
    <3>1. ASSUME NEW p \in Dispatch, release'[p] # "none"
          PROVE  /\ release'[p] \in Committed => ownership'[p] = "owned" /\ state'[owner'[p]] \in Releasable
                 /\ release'[p] = "releasing" => owner'[p] \in archived'
                 /\ release'[p] = "released" => state'[owner'[p]] \in Settled
      <4>1. CASE p = d
        BY <4>1, <2>2 DEF Committed, Pending
      <4>2. CASE p # d
        BY <3>1, <4>2, <2>2, <1>4, <1>5
      <4> QED BY <4>1, <4>2
    <3> QED BY <3>1 DEF CommittedFits, Committed, Pending
  <2>7. ClosingFits'
    <3>1. ASSUME NEW p \in Dispatch, call'[p].phase = "close"
          PROVE  release'[p] = "releasing" /\ ~Conflict(p)'
      <4>1. p \in Rows /\ p # d /\ release[p] = "releasing" /\ ~Conflict(p) /\ call[p].phase = "close"
        BY <3>1, <1>1, <1>3, <1>7 DEF ClosingFits
      <4>2. ASSUME NEW q \in Rows' \ {p}, at'[p] = at'[q], born'[p] = born'[q],
                   ownership'[q] # "released"
            PROVE  FALSE
        <5>1. CASE q = d
          <6>1. at[p] = t /\ born[p] = k
            BY <4>1, <4>2, <5>1, <1>1, <1>2, <1>3
          <6> QED BY <6>1, <4>1, <2>4, <1>6
        <5>2. CASE q # d
          <6>1. q \in Rows \ {p} /\ Same(p, q) /\ ownership[q] # "released"
            BY <4>1, <4>2, <5>2, <2>2, <1>1, <1>3 DEF Same
          <6> QED BY <4>1, <6>1 DEF Conflict
        <5> QED BY <5>1, <5>2
      <4>3. release'[p] = "releasing"
        BY <4>1, <2>2, <1>3
      <4> QED BY <4>2, <4>3 DEF Conflict, Same
    <3> QED BY <3>1 DEF ClosingFits
  <2> QED BY <2>5, <2>6, <2>7
<1>9. ASSUME NEW o \in Transferable(t), Transfer(o, d)
      PROVE  OneOwned' /\ CommittedFits' /\ ClosingFits'
  <2>1. o \in Rows /\ at[o] = t /\ release[o] \in Free
    BY DEF Transferable, Exact
  <2>2. /\ owner'[o] = d /\ release'[o] = "not_requested" /\ UNCHANGED ownership
        /\ \A p \in Dispatch \ {o} : owner'[p] = owner[p] /\ release'[p] = release[p]
    BY <1>9, <2>1, <1>3 DEF Transfer, TypeOK
  <2>3. Rows' = Rows
    <3>1. d \notin Rows /\ d # o /\ owner'[d] = owner[d]
      BY <1>3, <2>1, <2>2
    <3> QED BY <3>1, <1>1 DEF Rows
  <2>4. \A p, q \in Rows : (at'[p] = at'[q] /\ born'[p] = born'[q]) => Same(p, q)
    BY <1>1, <1>3 DEF Same
  <2>5. OneOwned'
    BY <2>2, <2>3, <2>4 DEF OneOwned, Same
  <2>6. CommittedFits'
    <3>1. ASSUME NEW p \in Dispatch, release'[p] # "none"
          PROVE  /\ release'[p] \in Committed => ownership'[p] = "owned" /\ state'[owner'[p]] \in Releasable
                 /\ release'[p] = "releasing" => owner'[p] \in archived'
                 /\ release'[p] = "released" => state'[owner'[p]] \in Settled
      <4>1. CASE p = o
        BY <4>1, <2>2 DEF Committed, Pending
      <4>2. CASE p # o
        BY <3>1, <4>2, <2>2, <1>4, <1>5
      <4> QED BY <4>1, <4>2
    <3> QED BY <3>1 DEF CommittedFits, Committed, Pending
  <2>7. ClosingFits'
    <3>1. ASSUME NEW p \in Dispatch, call'[p].phase = "close"
          PROVE  release'[p] = "releasing" /\ ~Conflict(p)'
      <4>1. p \in Rows /\ release[p] = "releasing" /\ ~Conflict(p)
        BY <3>1, <1>1, <1>7 DEF ClosingFits
      <4>2. release'[p] = "releasing"
        BY <4>1, <2>1, <2>2, <1>3 DEF Free
      <4>3. \A q \in Rows \ {p} : ~((at'[p] = at'[q] /\ born'[p] = born'[q]) /\ ownership'[q] # "released")
        BY <4>1, <2>2, <2>4 DEF Conflict
      <4> QED BY <4>2, <4>3, <2>3 DEF Conflict, Same
    <3> QED BY <3>1 DEF ClosingFits
  <2> QED BY <2>5, <2>6, <2>7
<1> QED BY <1>0, <1>8, <1>9

-----------------------------------------------------------------------------
(***************************************************************************)
(* The steps that start no worker.                                         *)
(***************************************************************************)
LEMMA RowsStay ==
  ASSUME TypeOK, RowsFit, OneRow, ActiveHasRow, OneOwned, CommittedFits, CallsFit,
         ClosingFits, [Next]_vars, ~Starts
  PROVE  RowsFit' /\ OneRow' /\ ActiveHasRow' /\ OneOwned' /\ CommittedFits'
<1>1. /\ UNCHANGED <<at, born, owner>> /\ Rows' = Rows
      /\ \A d \in Dispatch : \/ state'[d] = state[d]
                             \/ state[d] = "active" /\ state'[d] \in Settled
  BY Stays DEF Rows
<1>2. \A o \in Dispatch : RowStep(o)
  BY RowSteps
<1>3. \A o \in Rows : owner[o] \in Dispatch /\ o \in Dispatch
  BY RowFacts
<1>4. \A o \in Dispatch : owner[o] # NoDispatch => owner[o] \in Dispatch
  BY DEF TypeOK
<1>5. RowsFit'
  <2>1. ASSUME NEW o \in Dispatch, owner'[o] = NoDispatch
        PROVE  release'[o] = "none"
    <3>1. o \notin Rows /\ release[o] = "none"
      BY <1>1, <2>1 DEF Rows, RowsFit
    <3> QED BY <3>1, <1>2 DEF RowStep, Untouched
  <2>2. ASSUME NEW o \in Dispatch, owner'[o] # NoDispatch
        PROVE  state'[o] # "none" /\ state'[owner'[o]] # "none" /\ Same(o, owner'[o])
    <3>1. state[o] # "none" /\ state[owner[o]] # "none" /\ Same(o, owner[o]) /\ owner[o] \in Dispatch
      BY <1>1, <1>4, <2>2 DEF RowsFit
    <3> QED BY <1>1, <3>1 DEF Settled
  <2> QED BY <1>1, <2>1, <2>2 DEF RowsFit, Same
<1>6. OneRow'
  BY <1>1 DEF OneRow
<1>7. ActiveHasRow'
  BY <1>1 DEF ActiveHasRow, Settled
<1>8. OneOwned'
  <2>1. \A o \in Dispatch : ownership'[o] = "owned" => ownership[o] = "owned"
    BY <1>2 DEF RowStep, Untouched, Asked, Kept, LeftOpen, Begun, Ended
  <2> QED BY <1>1, <1>3, <2>1 DEF OneOwned, Same
<1>9. CommittedFits'
  <2>1. ASSUME NEW o \in Dispatch
        PROVE  /\ release'[o] \in Committed => ownership'[o] = "owned" /\ state'[owner'[o]] \in Releasable
               /\ release'[o] = "releasing" => owner'[o] \in archived'
               /\ release'[o] = "released" => state'[owner'[o]] \in Settled
    <3>0. release[o] \in Committed \cup {"released"} => o \in Rows
      BY DEF RowsFit, Rows, Committed, Pending
    <3>1. o \in Rows =>
            /\ state[owner[o]] \in Releasable => state'[owner'[o]] \in Releasable
            /\ state[owner[o]] \in Settled => state'[owner'[o]] \in Settled
      BY <1>1, <1>3 DEF Releasable, Settled
    <3>2. CASE Untouched(o)
      <4>1. release'[o] = "releasing" => owner'[o] \in archived'
        BY <1>1, <3>0, <3>2, ArchiveStep DEF Untouched, CommittedFits, Committed, Pending
      <4> QED BY <3>0, <3>1, <3>2, <4>1 DEF Untouched, CommittedFits, Committed, Pending
    <3>3. CASE o \in Rows /\ Asked(o)
      BY <3>1, <3>3 DEF Asked
    <3>4. CASE o \in Rows /\ Kept(o)
      BY <3>4 DEF Kept, Committed, Pending
    <3>5. CASE o \in Rows /\ LeftOpen(o)
      BY <3>1, <3>5 DEF LeftOpen, CommittedFits, Committed, Pending
    <3>6. CASE o \in Rows /\ Begun(o)
      BY <1>1, <3>1, <3>6 DEF Begun, CommittedFits, Committed, Pending
    <3>7. CASE o \in Rows /\ Ended(o)
      <4>1. state[owner[o]] \in Settled
        <5>1. CASE call[o].phase = "close"
          BY <5>1, <3>7 DEF CommittedFits, ClosingFits, Committed, Pending, Releasable, Settled
        <5> QED BY <5>1, <3>7 DEF Ended
      <4> QED BY <3>1, <3>7, <4>1 DEF Ended, Committed, Pending
    <3> QED BY <1>2, <3>2, <3>3, <3>4, <3>5, <3>6, <3>7 DEF RowStep
  <2> QED BY <2>1 DEF CommittedFits
<1> QED BY <1>5, <1>6, <1>7, <1>8, <1>9

\* What is acted for stays what it is.
LEMMA ActsForStays ==
  ASSUME TypeOK, TerminalsFit, WorkersFit, RowsFit, OneRow, ActiveHasRow, [Next]_vars
  PROVE  \A o, d : ActsFor(o, d) => ActsFor(o, d)'
<1>1. CASE ~Starts
  BY <1>1, Stays DEF ActsFor, Rows, Same, Settled
<1>2. ASSUME NEW e \in Dispatch, NEW t \in Terminal, StartFresh(e, t) \/ StartOn(e, t),
             NEW o, NEW d, ActsFor(o, d)
      PROVE  ActsFor(o, d)'
  <2>1. o \in Rows /\ d \in Dispatch /\ state[d] # "none" /\ Same(o, d)
    BY <1>2 DEF ActsFor
  <2>2. o \in Dispatch /\ state[o] # "none"
    BY <2>1 DEF Rows, RowsFit
  <2>3. state[e] = "none"
    BY <1>2 DEF StartFresh, StartOn, Attached
  <2>4. /\ \A p \in Dispatch \ {e} : at'[p] = at[p] /\ born'[p] = born[p] /\ state'[p] = state[p]
        /\ Rows \subseteq Rows'
    BY <1>2, StartedRows
  <2> QED BY <2>1, <2>2, <2>3, <2>4 DEF ActsFor, Same
<1> QED BY <1>1, <1>2 DEF Starts

\* A close begins: what is true in that step.
Opens(o) ==
  /\ call[o].phase \in {"look", "capture"} /\ call'[o].phase = "close"
  /\ release[o] \in Pending /\ release'[o] = "releasing"
  /\ ownership[o] = "owned" /\ owner[o] \in archived'
  /\ Lease(o, call[o].dispatch)
  /\ UNCHANGED <<workers, owner, ownership>>

CallStep(o) ==
  \/ call'[o] = call[o]
  \/ call'[o].phase = "idle"
  \/ call'[o].phase = "look" /\ ActsFor(o, call'[o].dispatch)
  \/ /\ call[o].phase # "idle" /\ call'[o].dispatch = call[o].dispatch
     /\ call'[o].phase = "capture" \/ Opens(o)

LEMMA CommitCallStep ==
  ASSUME TypeOK, CallsFit, CommittedFits, UNCHANGED workers,
         NEW o \in Dispatch, call[o].phase \in {"look", "capture"},
         CommitAndClose(o, call[o].dispatch)
  PROVE  \A p \in Dispatch : CallStep(p)
<1>0. o \in Rows /\ call[o].dispatch \in Dispatch /\ call \in [Dispatch -> Call]
  BY DEF CallsFit, ActsFor, TypeOK
<1>1. CASE End(o)
  BY <1>0, <1>1 DEF End, CallStep, Idle
<1>2. ASSUME Commits(o, call[o].dispatch) \/ (ownership[o] = "owned" /\ release[o] = "releasing"),
             Lease(o, call[o].dispatch), release' = [release EXCEPT ![o] = "releasing"],
             call' = [call EXCEPT ![o].phase = "close"],
             UNCHANGED <<owner, ownership>>
      PROVE  \A p \in Dispatch : CallStep(p)
  <2>1. call'[o].phase = "close" /\ call'[o].dispatch = call[o].dispatch
        /\ \A p \in Dispatch \ {o} : call'[p] = call[p]
    BY <1>0, <1>2 DEF Call
  <2>2. release[o] \in Pending /\ ownership[o] = "owned" /\ release'[o] = "releasing"
    BY <1>2 DEF Commits, Pending, TypeOK
  <2>3. owner[o] \in archived'
    <3>1. CASE Commits(o, call[o].dispatch)
      BY <3>1 DEF CommitAndClose, Commits
    <3>2. CASE ~Commits(o, call[o].dispatch)
      BY <1>2, <3>2 DEF CommitAndClose, CommittedFits
    <3> QED BY <3>1, <3>2
  <2>4. Opens(o)
    BY <1>2, <2>1, <2>2, <2>3 DEF Opens
  <2> QED BY <2>1, <2>4 DEF CallStep
<1> QED BY <1>1, <1>2 DEF CommitAndClose

LEMMA GoOnCallStep ==
  ASSUME TypeOK, NEW Q \in SUBSET Entry, NEW again, GoOn(Q, again),
         \A e \in Q : ActsFor(e.row, e.dispatch)
  PROVE  /\ \A p \in Dispatch : CallStep(p)
         /\ \A e \in pass'.queue : ActsFor(e.row, e.dispatch)
<1>1. CASE Q = {} /\ pass' = NoPass /\ UNCHANGED call
  BY <1>1 DEF NoPass, CallStep
<1>2. ASSUME NEW e \in Q, Begin(e.row, e.dispatch, TRUE),
             pass' = [on |-> TRUE, rerun |-> again, queue |-> Q \ {e}, row |-> e.row]
      PROVE  /\ \A p \in Dispatch : CallStep(p)
             /\ \A f \in pass'.queue : ActsFor(f.row, f.dispatch)
  <2>1. e.row \in Dispatch /\ ActsFor(e.row, e.dispatch)
    BY DEF Entry
  <2>2. \A p \in Dispatch : CallStep(p)
    BY <1>2, <2>1 DEF Begin, CallStep, TypeOK
  <2> QED BY <1>2, <2>2
<1> QED BY <1>1, <1>2 DEF GoOn

LEMMA CallSteps ==
  ASSUME TypeOK, RowsFit, CommittedFits, CallsFit, PassFits, [Next]_vars
  PROVE  /\ \A o \in Dispatch : CallStep(o)
         /\ \A e \in pass'.queue : ActsFor(e.row, e.dispatch)
<1> DEFINE Goal == /\ \A o \in Dispatch : CallStep(o)
                   /\ \A e \in pass'.queue : ActsFor(e.row, e.dispatch)
<1>0. call \in [Dispatch -> Call] /\ pass \in Pass
  BY DEF TypeOK
<1>1. ASSUME UNCHANGED <<call, pass>>
      PROVE  Goal
  BY <1>1 DEF CallStep, PassFits
<1>2. ASSUME NEW o \in Dispatch, End(o), \A p \in Dispatch : CallStep(p)
      PROVE  Goal
  <2>1. pass'.queue = pass.queue
    BY <1>0, <1>2 DEF End, Pass
  <2> QED BY <1>2, <2>1 DEF PassFits
<1>3. ASSUME NEW o \in Dispatch, End(o)
      PROVE  Goal
  <2>1. \A p \in Dispatch : CallStep(p)
    BY <1>0, <1>3 DEF End, CallStep, Idle
  <2> QED BY <1>2, <1>3, <2>1
<1>4. ASSUME NEW o \in Dispatch, call[o].phase \in {"look", "capture"}, UNCHANGED workers,
             CommitAndClose(o, call[o].dispatch)
      PROVE  Goal
  <2>1. \A p \in Dispatch : CallStep(p)
    BY <1>4, CommitCallStep
  <2>2. UNCHANGED pass \/ End(o)
    BY <1>4 DEF CommitAndClose
  <2> QED BY <1>2, <2>1, <2>2 DEF PassFits
<1>5. ASSUME NEW o \in Dispatch, NEW d \in Dispatch, RequestRelease(o, d)
      PROVE  Goal
  <2>1. ActsFor(o, d)
    BY <1>5, NilFacts DEF RequestRelease, ActsFor, Rows, RowsFit
  <2>2. \A p \in Dispatch : CallStep(p)
    BY <1>0, <1>5, <2>1 DEF RequestRelease, Begin, CallStep
  <2> QED BY <1>5, <2>2 DEF RequestRelease, PassFits
<1>6. ASSUME Reconcile \/ NextOfPass
      PROVE  Goal
  <2>1. /\ Backlog \in SUBSET Entry /\ \A e \in Backlog : ActsFor(e.row, e.dispatch)
    <3>1. ASSUME NEW o \in Rows
          PROVE  ActsFor(o, owner[o])
      BY RowFacts DEF ActsFor, RowsFit, Rows
    <3> QED BY <3>1, RowFacts DEF Backlog
  <2>2. pass.queue \in SUBSET Entry /\ \A e \in pass.queue : ActsFor(e.row, e.dispatch)
    BY PassTypes DEF PassFits
  <2>3. CASE Reconcile
    <3>1. CASE pass.on /\ pass' = [pass EXCEPT !.rerun = TRUE] /\ UNCHANGED call
      <4>1. pass'.queue = pass.queue
        BY <1>0, <3>1 DEF Pass
      <4> QED BY <2>2, <3>1, <4>1 DEF CallStep
    <3> QED BY <2>1, <2>3, <3>1, GoOnCallStep DEF Reconcile
  <2>4. CASE NextOfPass
    BY <2>1, <2>2, <2>4, GoOnCallStep DEF NextOfPass
  <2> QED BY <1>6, <2>3, <2>4
<1>7. ASSUME Restart
      PROVE  Goal
  BY <1>7 DEF Restart, CallStep, Idle, NoPass
<1> HIDE DEF Goal
<1>8. ASSUME NEW o \in Dispatch, Look(o)
      PROVE  Goal
  <2>1. CASE call' = [call EXCEPT ![o].phase = "capture"] /\ UNCHANGED pass
    <3>1. \A p \in Dispatch : CallStep(p)
      BY <1>0, <1>8, <2>1 DEF Look, CallStep, Call
    <3> QED BY <2>1, <3>1 DEF Goal, PassFits
  <2> QED BY <1>3, <1>4, <1>8, <2>1 DEF Look
<1>9. ASSUME NEW o \in Dispatch, Capture(o) \/ Close(o)
      PROVE  Goal
  BY <1>3, <1>4, <1>9 DEF Capture, Close
<1>10. ASSUME NEW d \in Dispatch, NEW t \in Terminal, StartFresh(d, t) \/ StartOn(d, t)
       PROVE  Goal
  BY <1>1, <1>10 DEF StartFresh, StartOn, Attached, memory
<1>11. ASSUME NEW d \in Dispatch, NEW s \in Settled, Settle(d, s)
       PROVE  Goal
  BY <1>1, <1>11 DEF Settle, memory
<1>12. ASSUME NEW o \in Dispatch, NEW d \in Dispatch, AskLiveness(o, d) \/ AnswerLiveness(d)
       PROVE  Goal
  BY <1>1, <1>12 DEF AskLiveness, AnswerLiveness
<1>13. ASSUME NEW o \in Dispatch, Retain(o)
       PROVE  Goal
  BY <1>1, <1>13 DEF Retain, memory
<1>14. ASSUME NEW t \in Terminal, UserTypes(t) \/ Spawn(t) \/ Exit(t) \/ Drop(t) \/ Find(t)
       PROVE  Goal
  BY <1>1, <1>14 DEF UserTypes, Spawn, Exit, Drop, Find, memory
<1>15. ASSUME UNCHANGED vars
       PROVE  Goal
  BY <1>1, <1>15 DEF vars, memory
<1>16. Goal
  BY <1>5, <1>6, <1>7, <1>8, <1>9, <1>10, <1>11, <1>12, <1>13, <1>14, <1>15 DEF Next
<1> QED BY <1>16 DEF Goal

LEMMA ClosingStays ==
  ASSUME TypeOK, RowsFit, CommittedFits, CallsFit, PassFits, ClosingFits, [Next]_vars, ~Starts
  PROVE  ClosingFits'
<1>1. UNCHANGED <<at, born, owner>> /\ Rows' = Rows
  BY Stays DEF Rows
<1>2. \A o \in Dispatch : RowStep(o) /\ CallStep(o)
  BY RowSteps, CallSteps
<1>3. \A q \in Rows : ownership[q] = "released" => ownership'[q] = "released"
  <2>1. ASSUME NEW q \in Rows, ownership[q] = "released"
        PROVE  ownership'[q] = "released"
    <3>1. q \in Dispatch /\ release[q] = "released"
      BY <2>1, RowFacts DEF TypeOK
    <3> QED BY <1>2, <2>1, <3>1 DEF RowStep, Untouched, Asked, Kept, LeftOpen, Begun, Ended, Free, Pending
  <2> QED BY <2>1
<1>4. ASSUME NEW o \in Dispatch, call'[o].phase = "close"
      PROVE  release'[o] = "releasing" /\ ~Conflict(o)
  <2>1. CASE call'[o] = call[o]
    <3>1. release[o] = "releasing" /\ ~Conflict(o) /\ call'[o] # Idle
      BY <1>4, <2>1 DEF ClosingFits, Idle
    <3>2. Untouched(o)
      BY <1>2, <3>1 DEF RowStep, Asked, Kept, LeftOpen, Begun, Ended, Free
    <3> QED BY <3>1, <3>2 DEF Untouched
  <2>2. CASE Opens(o)
    BY <2>2 DEF Opens, Lease
  <2> QED BY <1>2, <1>4, <2>1, <2>2 DEF CallStep
<1> QED BY <1>1, <1>3, <1>4 DEF ClosingFits, Conflict, Same

-----------------------------------------------------------------------------
(***************************************************************************)
(* The theorems.                                                           *)
(***************************************************************************)
LEMMA IInvInit == Init => IInv
<1> SUFFICES ASSUME Init PROVE IInv
  OBVIOUS
<1>1. TypeOK
  BY NilFacts DEF Init, TypeOK, Call, Idle, Pass, NoPass, Free, Committed, Pending
<1>2. /\ TerminalsFit /\ WorkersFit /\ RowsFit /\ OneRow /\ OneOwned /\ ActiveHasRow
  BY DEF Init, TerminalsFit, WorkersFit, RowsFit, OneRow, OneOwned, ActiveHasRow, Rows
<1>3. CommittedFits /\ CallsFit /\ PassFits /\ ClosingFits
  BY DEF Init, CommittedFits, CallsFit, PassFits, ClosingFits, Idle, NoPass, Committed, Pending
<1> QED BY <1>1, <1>2, <1>3 DEF IInv

LEMMA IInvStep ==
  ASSUME IInv, [Next]_vars
  PROVE  IInv'
<1> USE DEF IInv
<1>1. TypeOK' /\ TerminalsFit' /\ WorkersFit'
  BY TypeStep, TerminalsStay, WorkersStay
<1>2. CallsFit' /\ PassFits'
  <2>1. \A o, d : ActsFor(o, d) => ActsFor(o, d)'
    BY ActsForStays
  <2>2. ASSUME NEW o \in Dispatch, call'[o].phase # "idle"
        PROVE  ActsFor(o, call'[o].dispatch)
    BY <2>2, CallSteps DEF CallStep, CallsFit
  <2>3. \A e \in pass'.queue : ActsFor(e.row, e.dispatch)
    BY CallSteps
  <2>4. \A o, d : ActsFor(o, d) => o \in Rows' /\ d \in Dispatch /\ state'[d] # "none"
                                   /\ at'[o] = at'[d] /\ born'[o] = born'[d]
    BY <2>1 DEF ActsFor, Same
  <2> HIDE DEF IInv
  <2>5. CallsFit'
    <3>1. ASSUME NEW o \in Dispatch, call'[o].phase # "idle"
          PROVE  /\ o \in Rows' /\ call'[o].dispatch \in Dispatch /\ state'[call'[o].dispatch] # "none"
                 /\ at'[o] = at'[call'[o].dispatch] /\ born'[o] = born'[call'[o].dispatch]
      BY <3>1, <2>2, <2>4
    <3> QED BY <3>1 DEF CallsFit, ActsFor, Same
  <2>6. PassFits'
    BY <2>3, <2>4 DEF PassFits, ActsFor, Same
  <2> QED BY <2>5, <2>6
<1>3. CASE ~Starts
  BY <1>1, <1>2, <1>3, RowsStay, ClosingStays
<1>4. ASSUME NEW d \in Dispatch, NEW t \in Terminal, StartFresh(d, t) \/ StartOn(d, t)
      PROVE  IInv'
  BY <1>1, <1>2, <1>4, StartedRows, StartedOwnership
<1> QED BY <1>3, <1>4 DEF Starts

LEMMA IInvHolds == Spec => []IInv
<1>1. IInv /\ [Next]_vars => IInv'
  BY IInvStep
<1> QED BY <1>1, IInvInit, PTL DEF Spec

\* Type correctness.
THEOREM TypeCorrect == Spec => []TypeOK
<1>1. IInv => TypeOK
  BY DEF IInv
<1> QED BY <1>1, IInvHolds, PTL

\* A release that is about to close a terminal is of a dispatch that owns it,
\* is done and has its output saved (worker_terminal_resources in 'releasing').
THEOREM ReleasingCommitted == Spec => []ReleasingIsCommitted
<1>1. IInv => ReleasingIsCommitted
  BY RowFacts DEF IInv, ReleasingIsCommitted, CommittedFits, Committed, Pending
<1> QED BY <1>1, IInvHolds, PTL

LEMMA NoneAtWork ==
  ASSUME IInv, NEW o \in Rows, release[o] \in Committed, ~Conflict(o)
  PROVE  \A d \in Dispatch : state[d] = "active" => ~Same(o, d)
<1> SUFFICES ASSUME NEW d \in Dispatch, state[d] = "active", Same(o, d)
             PROVE  FALSE
  OBVIOUS
<1>1. PICK p \in Rows : owner[p] = d
  BY DEF IInv, ActiveHasRow
<1>2. o \in Dispatch /\ p \in Dispatch /\ owner[p] # NoDispatch /\ TypeOK
  BY DEF Rows, IInv
<1>3. Same(p, d)
  BY <1>1, <1>2 DEF IInv, RowsFit
<1>4. p # o
  BY <1>1, <1>2 DEF IInv, CommittedFits, Releasable
<1>5. ownership[p] # "released"
  BY <1>1, <1>2 DEF IInv, CommittedFits, TypeOK, Settled
<1> QED BY <1>1, <1>3, <1>4, <1>5 DEF Conflict, Same

\* While a terminal is closed nobody works in it, whoever was started since.
THEOREM ClosingSparesTheWorkers == Spec => []ClosingSparesWorkers
<1>1. IInv => ClosingSparesWorkers
  <2> SUFFICES ASSUME IInv, NEW o \in Dispatch, NEW d \in Dispatch,
                      call[o].phase = "close", state[d] = "active"
               PROVE  ~Same(o, d)
    BY DEF ClosingSparesWorkers
  <2>1. release[o] = "releasing" /\ ~Conflict(o) /\ o \in Rows
    BY DEF IInv, ClosingFits, CallsFit, ActsFor
  <2> QED BY <2>1, NoneAtWork DEF Committed, Pending
<1> QED BY <1>1, IInvHolds, PTL

\* No dispatch owns two terminals, no process has two owners.
THEOREM OneOwnerEach == Spec => []OneOwner
<1>1. IInv => OneOwner
  BY DEF IInv, OneRow, OneOwned, OneOwner
<1> QED BY <1>1, IInvHolds, PTL

\* A close begins only for a release still wanted, of the worker's own process.
THEOREM ClosesAreEarned == Spec => CloseIsEarned
<1> DEFINE Earned == \A o \in Dispatch : StartsToClose(o) =>
       /\ release[o] \in Pending /\ ownership[o] = "owned" /\ Runs(o)
       /\ state[owner[o]] \in Releasable /\ owner[o] \in archived'
       /\ \A d \in Dispatch : state[d] = "active" => ~Same(o, d)
<1>1. IInv /\ [Next]_vars => [Earned]_vars
  <2> SUFFICES ASSUME IInv, [Next]_vars, NEW o \in Dispatch, StartsToClose(o)
               PROVE  /\ release[o] \in Pending /\ ownership[o] = "owned" /\ Runs(o)
                      /\ state[owner[o]] \in Releasable /\ owner[o] \in archived'
                      /\ \A d \in Dispatch : state[d] = "active" => ~Same(o, d)
    OBVIOUS
  <2>1. Opens(o)
    BY CallSteps DEF IInv, StartsToClose, CallStep
  <2>2. o \in Rows /\ Same(o, call[o].dispatch) /\ at[o] \in Terminal
    BY <2>1 DEF Opens, IInv, CallsFit, ActsFor, RowsFit, WorkersFit, Rows
  <2>3. Runs(o)
    BY <2>1, <2>2 DEF Opens, Lease, Current, Runs, Same, IInv, TerminalsFit
  <2>4. state[owner[o]] \in Releasable
    BY <2>1 DEF Opens, IInv, CommittedFits, Committed
  <2>5. \A d \in Dispatch : state[d] = "active" => ~Same(o, d)
    BY <2>1, <2>2, NoneAtWork DEF Opens, Lease, Committed
  <2> QED BY <2>1, <2>3, <2>4, <2>5 DEF Opens
<1> QED BY <1>1, IInvHolds, PTL DEF Spec, CloseIsEarned

\* A start neither settles a row nor takes one that is settled.
LEMMA StartedRelease ==
  ASSUME TypeOK, TerminalsFit, WorkersFit, RowsFit,
         NEW d \in Dispatch, NEW t \in Terminal, StartFresh(d, t) \/ StartOn(d, t)
  PROVE  \A o \in Dispatch :
           /\ release'[o] = "released" => release[o] = "released"
           /\ release[o] = "released" => release'[o] = "released" /\ owner'[o] = owner[o]
<1>1. /\ \A p \in Rows : p # d
      /\ (\E owns, why : NewRow(d, owns, why)) \/ \E o \in Transferable(t) : Transfer(o, d)
  BY Starting
<1>2. release[d] # "released"
  BY <1>1 DEF RowsFit, Rows
<1>3. CASE \E owns, why : NewRow(d, owns, why)
  BY <1>2, <1>3 DEF NewRow, TypeOK
<1>4. ASSUME NEW o \in Transferable(t), Transfer(o, d)
      PROVE  \A p \in Dispatch :
               /\ release'[p] = "released" => release[p] = "released"
               /\ release[p] = "released" => release'[p] = "released" /\ owner'[p] = owner[p]
  <2>1. o \in Dispatch /\ release[o] \in Free
    BY DEF Transferable, Exact, Rows
  <2> QED BY <1>4, <2>1 DEF Transfer, Free, TypeOK
<1> QED BY <1>1, <1>3, <1>4

\* A row is settled without a close only over a dead process, and not under
\* a worker that has it by then.
THEOREM DeadAreSettled == Spec => DeadSettlement
<1> DEFINE Dead == \A o \in Dispatch :
       release[o] # "released" /\ release'[o] = "released" /\ call[o].phase # "close" =>
         ~Runs(o) /\ state[owner[o]] \in Settled
<1>1. IInv /\ [Next]_vars => [Dead]_vars
  <2> SUFFICES ASSUME IInv, [Next]_vars, NEW o \in Dispatch,
                      release[o] # "released", release'[o] = "released", call[o].phase # "close"
               PROVE  ~Runs(o) /\ state[owner[o]] \in Settled
    OBVIOUS
  <2>1. ~Starts
    BY StartedRelease DEF Starts, IInv
  <2>2. RowStep(o)
    BY <2>1, RowSteps DEF IInv
  <2> QED BY <2>2 DEF RowStep, Untouched, Asked, Kept, LeftOpen, Begun, Ended
<1> QED BY <1>1, IInvHolds, PTL DEF Spec, DeadSettlement

\* A released terminal is not asked for again, nor handed to another worker.
THEOREM ReleasedStays == Spec => ReleasedIsFinal
<1> DEFINE Final == \A o \in Dispatch :
       release[o] = "released" => release'[o] = "released" /\ owner'[o] = owner[o]
<1>1. IInv /\ [Next]_vars => [Final]_vars
  <2> SUFFICES ASSUME IInv, [Next]_vars, NEW o \in Dispatch, release[o] = "released"
               PROVE  release'[o] = "released" /\ owner'[o] = owner[o]
    OBVIOUS
  <2>1. CASE Starts
    BY <2>1, StartedRelease DEF Starts, IInv
  <2>2. CASE ~Starts
    <3>1. RowStep(o) /\ owner'[o] = owner[o] /\ ownership[o] = "released"
      BY <2>2, RowSteps, Stays DEF IInv, TypeOK
    <3> QED BY <3>1 DEF RowStep, Untouched, Asked, Kept, LeftOpen, Begun, Ended, Free, Pending
  <2> QED BY <2>1, <2>2
<1> QED BY <1>1, IInvHolds, PTL DEF Spec, ReleasedIsFinal
=============================================================================
