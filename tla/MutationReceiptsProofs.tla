----------------------- MODULE MutationReceiptsProofs -----------------------
(***************************************************************************)
(* Theorems about MutationReceipts for any calls, requests and capacity.   *)
(***************************************************************************)
EXTENDS MutationReceipts, TLAPS

-----------------------------------------------------------------------------
(***************************************************************************)
(* Type correctness.                                                       *)
(***************************************************************************)
LEMMA NilFacts == Nil \notin Call /\ Nil \notin Input /\ Nil \notin Effect
  BY ReceiptsAssumption

\* A call that waits has all its fields; a handler's own call waits for itself.
LEMMA WaitFields ==
  ASSUME TypeOK, NEW c \in Call
  PROVE  /\ Runs(c) => Waits(c)
         /\ Waits(c) => /\ call[c] \in Wait
                        /\ call[c].on \in Call /\ call[c].request \in Request
                        /\ call[c].input \in Input /\ call[c].result \in Nat
         /\ ~Waits(c) => call[c] = NoWait
  BY NilFacts DEF TypeOK, Runs, Waits, Wait, NoWait

LEMMA WaitType ==
  ASSUME NEW w \in Wait, NEW n \in Nat
  PROVE  [w EXCEPT !.result = n] \in Wait
  BY DEF Wait

LEMMA RowTypes ==
  /\ NoRow \in Row
  /\ \A i \in Input : [state |-> "pending", input |-> i, result |-> 0] \in Row
  /\ \A i \in Input, n \in Nat : Done(i, n) \in Row
  BY DEF NoRow, Row, Done

\* What the insertion of a receipt leaves typed.
LEMMA InsertType ==
  ASSUME TypeOK, NEW gone \in SUBSET Prunable, NEW r \in Request, NEW i \in Input,
         Insert(gone, r, i)
  PROVE  /\ row' \in [Request -> Row]
         /\ Forgotten(gone) \in [Request -> Effect \cup {Nil}]
<1>1. \A q \in Request : row[q] \in Row
  BY DEF TypeOK
<1>2. row' \in [Request -> Row]
  BY <1>1, RowTypes DEF Insert
<1>3. Forgotten(gone) \in [Request -> Effect \cup {Nil}]
  BY DEF Forgotten, TypeOK
<1> QED BY <1>2, <1>3

LEMMA StartType ==
  ASSUME TypeOK, NEW c \in Call, NEW r \in Request, NEW i \in Input, Start(c, r, i)
  PROVE  call' \in [Call -> Wait \cup {NoWait}] /\ inFlight' \in [Request -> Call \cup {Nil}]
<1>1. [on |-> c, request |-> r, input |-> i, result |-> 0] \in Wait
  BY DEF Wait
<1> QED BY <1>1 DEF Start, TypeOK

LEMMA EndType ==
  ASSUME TypeOK, NEW c \in Call, Runs(c), End(c)
  PROVE  call' \in [Call -> Wait \cup {NoWait}] /\ inFlight' \in [Request -> Call \cup {Nil}]
  BY WaitFields DEF End, TypeOK

LEMMA ResultType ==
  ASSUME TypeOK, NEW c \in Call, Runs(c), NEW n \in Nat,
         call' = [call EXCEPT ![c].result = n]
  PROVE  call' \in [Call -> Wait \cup {NoWait}]
<1>1. [call[c] EXCEPT !.result = n] \in Wait
  BY WaitFields, WaitType
<1>2. call' = [call EXCEPT ![c] = [call[c] EXCEPT !.result = n]]
  OBVIOUS
<1> QED BY <1>1, <1>2 DEF TypeOK

\* The effect of a handler.
LEMMA EffectType ==
  ASSUME TypeOK, NEW t \in [Request -> Effect \cup {Nil}],
         NEW r \in Request, NEW i \in Input
  PROVE  [t EXCEPT ![r] = <<i, effects + 1>>] \in [Request -> Effect \cup {Nil}]
<1>1. <<i, effects + 1>> \in Effect
  BY DEF TypeOK, Effect
<1> QED BY <1>1

LEMMA TypeStep == TypeOK /\ [Next]_vars => TypeOK'
<1> SUFFICES ASSUME TypeOK, [Next]_vars PROVE TypeOK'
  OBVIOUS
<1>1. ASSUME NEW c \in Call, NEW r \in Request, NEW i \in Input,
             NEW gone \in SUBSET Prunable, Begin(c, r, i, gone)
      PROVE  TypeOK'
  <2>1. row' \in [Request -> Row] /\ taken' \in [Request -> Effect \cup {Nil}]
    BY <1>1, InsertType DEF Begin
  <2>2. call' \in [Call -> Wait \cup {NoWait}] /\ inFlight' \in [Request -> Call \cup {Nil}]
    BY <1>1, StartType DEF Begin
  <2> QED BY <1>1, <2>1, <2>2 DEF Begin, TypeOK
<1>2. ASSUME NEW c \in Call, NEW r \in Request, NEW i \in Input,
             BeginStart(c, r, i) \/ Resume(c, r, i)
      PROVE  TypeOK'
  <2>1. call' \in [Call -> Wait \cup {NoWait}] /\ inFlight' \in [Request -> Call \cup {Nil}]
    BY <1>2, StartType DEF BeginStart, Resume
  <2> QED BY <1>2, <2>1 DEF BeginStart, Resume, TypeOK
<1>3. ASSUME NEW c \in Call, NEW r \in Request, NEW i \in Input, Join(c, r, i)
      PROVE  TypeOK'
  <2>1. [on |-> inFlight[r], request |-> r, input |-> i, result |-> 0] \in Wait
    BY <1>3 DEF Join, TypeOK, Wait
  <2> QED BY <1>3, <2>1 DEF Join, TypeOK
<1>4. ASSUME NEW c \in Call, NEW r \in Request, NEW i \in Input, Replay(c, r, i)
      PROVE  TypeOK'
  <2>1. row[r].result \in Nat
    BY DEF TypeOK, Row
  <2>2. <<i, row[r].result>> \in Effect
    BY <2>1 DEF Effect
  <2> QED BY <1>4, <2>2 DEF Replay, TypeOK
<1>5. ASSUME NEW c \in Call, TakeEffect(c)
      PROVE  TypeOK'
  <2> DEFINE r == call[c].request
  <2>1. Runs(c) /\ r \in Request /\ call[c].input \in Input
    BY <1>5, WaitFields DEF TakeEffect
  <2>2. CASE Kind[r] = "release" /\ taken[r] # Nil
    <3>1. taken[r] \in Effect
      BY <2>1, <2>2 DEF TypeOK
    <3>2. taken[r][2] \in Nat
      BY <3>1 DEF Effect
    <3>3. call' = [call EXCEPT ![c].result = taken[r][2]]
      BY <1>5, <2>2 DEF TakeEffect
    <3>4. call' \in [Call -> Wait \cup {NoWait}]
      BY <2>1, <3>2, <3>3, ResultType
    <3> QED BY <1>5, <2>2, <3>4 DEF TakeEffect, TypeOK
  <2>3. CASE ~(Kind[r] = "release" /\ taken[r] # Nil)
    <3>1. /\ call' = [call EXCEPT ![c].result = effects + 1] /\ effects' = effects + 1
          /\ taken' = [taken EXCEPT ![r] = <<call[c].input, effects + 1>>]
      BY <1>5, <2>3 DEF TakeEffect
    <3>2. effects + 1 \in Nat /\ taken \in [Request -> Effect \cup {Nil}]
      BY DEF TypeOK
    <3>3. call' \in [Call -> Wait \cup {NoWait}]
      BY <2>1, <3>1, <3>2, ResultType
    <3>4. taken' \in [Request -> Effect \cup {Nil}]
      BY <2>1, <3>1, <3>2, EffectType
    <3> QED BY <1>5, <3>1, <3>2, <3>3, <3>4 DEF TakeEffect, TypeOK
  <2> QED BY <2>2, <2>3
<1>6. ASSUME NEW c \in Call, NEW gone \in SUBSET Prunable, Accept(c, gone)
      PROVE  TypeOK'
  <2> DEFINE r == call[c].request
  <2>1. Runs(c) /\ r \in Request /\ call[c].input \in Input
    BY <1>6, WaitFields DEF Accept
  <2>2. row' \in [Request -> Row] /\ Forgotten(gone) \in [Request -> Effect \cup {Nil}]
    BY <1>6, <2>1, InsertType DEF Accept
  <2>3. taken' \in [Request -> Effect \cup {Nil}]
    BY <1>6, <2>1, <2>2, EffectType DEF Accept
  <2>4. effects + 1 \in Nat
    BY DEF TypeOK
  <2>5. call' \in [Call -> Wait \cup {NoWait}]
    BY <1>6, <2>1, <2>4, ResultType DEF Accept
  <2> QED BY <1>6, <2>2, <2>3, <2>4, <2>5 DEF Accept, TypeOK
<1>7. ASSUME NEW c \in Call, RecordEarly(c)
      PROVE  TypeOK'
  <2>1. call[c].request \in Request /\ call[c].input \in Input /\ call[c].result \in Nat
    BY <1>7, WaitFields DEF RecordEarly
  <2>2. Done(call[c].input, call[c].result) \in Row
    BY <2>1, RowTypes
  <2> QED BY <1>7, <2>1, <2>2 DEF RecordEarly, TypeOK
<1>8. ASSUME NEW c \in Call, Complete(c)
      PROVE  TypeOK'
  <2>1. /\ Runs(c) /\ End(c)
        /\ call[c].request \in Request /\ call[c].input \in Input /\ call[c].result \in Nat
    BY <1>8, WaitFields DEF Complete
  <2>2. Done(call[c].input, call[c].result) \in Row
    BY <2>1, RowTypes
  <2>3. row' \in [Request -> Row]
    BY <1>8, <2>1, <2>2 DEF Complete, TypeOK
  <2>4. \A d \in Joined(c) : <<call[d].input, call[c].result>> \in Effect
    <3> SUFFICES ASSUME NEW d \in Joined(c) PROVE <<call[d].input, call[c].result>> \in Effect
      OBVIOUS
    <3>1. d \in Call /\ Waits(d)
      BY NilFacts DEF Joined, Waits
    <3>2. call[d].input \in Input
      BY <3>1, WaitFields
    <3> QED BY <2>1, <3>2 DEF Effect
  <2>5. answers' \in SUBSET (Request \X Effect)
    BY <1>8, <2>1, <2>4 DEF Complete, TypeOK
  <2> QED BY <1>8, <2>1, <2>3, <2>5, EndType DEF Complete, TypeOK
<1>9. ASSUME NEW c \in Call, Fail(c) \/ FailUnknown(c)
      PROVE  TypeOK'
  <2>1. Runs(c) /\ End(c)
    BY <1>9 DEF Fail, FailUnknown
  <2>2. row' \in [Request -> Row]
    BY <1>9, RowTypes DEF Fail, FailUnknown, Discard, TypeOK
  <2> QED BY <1>9, <2>1, <2>2, EndType DEF Fail, FailUnknown, TypeOK
<1>10. CASE Crash
  BY <1>10 DEF Crash, TypeOK
<1>11. CASE UNCHANGED vars
  BY <1>11 DEF vars, TypeOK
<1> QED
  BY <1>1, <1>2, <1>3, <1>4, <1>5, <1>6, <1>7, <1>8, <1>9, <1>10, <1>11
  DEF Next, Arrive, Handle

LEMMA TypeInit == Init => TypeOK
  BY RowTypes DEF Init, TypeOK

\* Every variable of the receipts keeps its type.
THEOREM TypeCorrect == Spec => []TypeOK
<1> QED BY TypeInit, TypeStep, PTL DEF Spec

-----------------------------------------------------------------------------
(***************************************************************************)
(* The receipts, the running handlers and their effects agree, unless a    *)
(* receipt is pruned under its handler, a handler fails after its effect,  *)
(* or two equal starts run at once.                                        *)
(***************************************************************************)
Careful == Ops \cap {"prune_running", "late_failure", "double_start"} = {}

CallsInv == InFlightInv /\ JoinInv

\* Two running handlers have different requests.
LEMMA OneHandler ==
  ASSUME CallsInv, NEW c \in Call, NEW d \in Call, Runs(c), Runs(d),
         call[c].request = call[d].request
  PROVE  c = d
  BY DEF CallsInv, InFlightInv

\* The receipts that are pruned are complete, and no handler of theirs runs.
LEMMA GoneFacts ==
  ASSUME Careful, NEW gone \in SUBSET Prunable, NEW q \in gone
  PROVE  q \in Request /\ row[q].state = "completed" /\ ~Running(q)
  BY DEF Careful, Prunable, Completed

\* A call starts a handler of a request that has none.
LEMMA CallsStart ==
  ASSUME TypeOK, CallsInv, NEW c \in Call, NEW r \in Request, NEW i \in Input,
         ~Waits(c), inFlight[r] = Nil, Start(c, r, i)
  PROVE  /\ CallsInv'
         /\ \A d \in Call : d # c => call'[d] = call[d]
         /\ call'[c] = [on |-> c, request |-> r, input |-> i, result |-> 0]
<1>1. /\ \A d \in Call : d # c => call'[d] = call[d]
      /\ call'[c] = [on |-> c, request |-> r, input |-> i, result |-> 0]
      /\ inFlight'[r] = c /\ \A q \in Request : q # r => inFlight'[q] = inFlight[q]
  BY DEF Start, TypeOK
<1>2. ~Runs(c) /\ \A d \in Call : Runs(d) => call[d].request # r
  BY NilFacts DEF CallsInv, InFlightInv, Runs, Waits
<1>3. InFlightInv'
  <2>1. ASSUME NEW q \in Request, inFlight'[q] # Nil
        PROVE  Runs(inFlight[q])' /\ call'[inFlight'[q]].request = q
    <3>1. CASE q = r
      BY <1>1, <3>1 DEF Runs
    <3>2. CASE q # r
      <4>1. inFlight'[q] = inFlight[q] /\ inFlight[q] \in Call /\ inFlight[q] # c
        BY <1>1, <1>2, <2>1, <3>2 DEF CallsInv, InFlightInv, TypeOK
      <4> QED BY <1>1, <2>1, <4>1 DEF CallsInv, InFlightInv, Runs
    <3> QED BY <3>1, <3>2
  <2>2. ASSUME NEW d \in Call, Runs(d)'
        PROVE  inFlight'[call'[d].request] = d
    <3>1. CASE d = c
      BY <1>1, <3>1
    <3>2. CASE d # c
      <4>1. Runs(d) /\ call'[d] = call[d]
        BY <1>1, <2>2, <3>2 DEF Runs
      <4>2. call[d].request \in Request /\ call[d].request # r
        BY <1>2, <4>1, WaitFields
      <4> QED BY <1>1, <4>1, <4>2 DEF CallsInv, InFlightInv
    <3> QED BY <3>1, <3>2
  <2> QED BY <2>1, <2>2 DEF InFlightInv
<1>4. JoinInv'
  <2> SUFFICES ASSUME NEW d \in Call, Waits(d)'
               PROVE  /\ Runs(call[d].on)'
                      /\ call'[call'[d].on].request = call'[d].request
                      /\ call'[call'[d].on].input = call'[d].input
    BY DEF JoinInv
  <2>1. CASE d = c
    BY <1>1, <2>1 DEF Runs
  <2>2. CASE d # c
    <3>1. Waits(d) /\ call'[d] = call[d]
      BY <1>1, <2>2 DEF Waits
    <3>2. Runs(call[d].on) /\ call[d].on \in Call /\ call[d].on # c
      BY <1>2, <3>1, WaitFields DEF CallsInv, JoinInv
    <3> QED BY <1>1, <3>1, <3>2 DEF CallsInv, JoinInv, Runs
  <2> QED BY <2>1, <2>2
<1> QED BY <1>1, <1>3, <1>4 DEF CallsInv

\* A call joins the handler of another.
LEMMA CallsJoin ==
  ASSUME TypeOK, CallsInv, HandlerInv, NEW c \in Call, NEW r \in Request, NEW i \in Input,
         Join(c, r, i)
  PROVE  /\ CallsInv'
         /\ \A d \in Call : Runs(d)' => Runs(d) /\ call'[d] = call[d]
<1> DEFINE o == inFlight[r]
<1>1. /\ o \in Call /\ Runs(o) /\ call[o].request = r /\ ~Waits(c) /\ UNCHANGED inFlight
      /\ row[r].state # "none" /\ row[r].input = i
  BY DEF Join, TypeOK, CallsInv, InFlightInv
<1>2. /\ \A d \in Call : d # c => call'[d] = call[d]
      /\ call'[c] = [on |-> o, request |-> r, input |-> i, result |-> 0]
  BY DEF Join, TypeOK
<1>3. ~Runs(c) /\ o # c
  BY <1>1, WaitFields
<1>4. call[o].input = i
  BY <1>1 DEF HandlerInv, NoRow
<1> HIDE DEF o
<1>5. \A d \in Call : Runs(d)' <=> Runs(d)
  BY <1>2, <1>3 DEF Runs
<1>6. \A d \in Call : Runs(d)' => Runs(d) /\ call'[d] = call[d]
  BY <1>2, <1>3, <1>5
<1>7. InFlightInv'
  BY <1>1, <1>2, <1>3, <1>5, <1>6 DEF CallsInv, InFlightInv, TypeOK
<1>8. JoinInv'
  <2> SUFFICES ASSUME NEW d \in Call, Waits(d)'
               PROVE  /\ Runs(call[d].on)'
                      /\ call'[call'[d].on].request = call'[d].request
                      /\ call'[call'[d].on].input = call'[d].input
    BY DEF JoinInv
  <2>1. CASE d = c
    BY <1>1, <1>2, <1>3, <1>4, <1>5, <2>1
  <2>2. CASE d # c
    <3>1. Waits(d) /\ call'[d] = call[d]
      BY <1>2, <2>2 DEF Waits
    <3>2. Runs(call[d].on) /\ call[d].on \in Call /\ call[d].on # c
      BY <1>3, <3>1, WaitFields DEF CallsInv, JoinInv
    <3> QED BY <1>2, <1>5, <3>1, <3>2 DEF CallsInv, JoinInv
  <2> QED BY <2>1, <2>2
<1> QED BY <1>6, <1>7, <1>8 DEF CallsInv

\* A handler has its result.
LEMMA CallsResult ==
  ASSUME TypeOK, CallsInv, NEW c \in Call, Runs(c), NEW n \in Nat,
         call' = [call EXCEPT ![c].result = n], UNCHANGED inFlight
  PROVE  /\ CallsInv'
         /\ call'[c].result = n
         /\ \A d \in Call : Runs(d)' =>
              /\ Runs(d)
              /\ call'[d].request = call[d].request /\ call'[d].input = call[d].input
              /\ d # c => call'[d] = call[d]
<1>1. \A d \in Call :
        /\ call'[d].on = call[d].on
        /\ call'[d].request = call[d].request /\ call'[d].input = call[d].input
        /\ d # c => call'[d] = call[d]
  BY WaitFields DEF TypeOK, Wait
<1>2. call'[c].result = n
  BY WaitFields DEF TypeOK, Wait
<1>3. \A d \in Call : (Runs(d)' <=> Runs(d)) /\ (Waits(d)' <=> Waits(d))
  BY <1>1 DEF Runs, Waits
<1>4. InFlightInv'
  BY <1>1, <1>3 DEF CallsInv, InFlightInv, TypeOK
<1>5. JoinInv'
  BY <1>1, <1>3, WaitFields DEF CallsInv, JoinInv
<1> QED BY <1>1, <1>2, <1>3, <1>4, <1>5 DEF CallsInv

\* A handler ends, and the calls that have joined it.
LEMMA CallsFinish ==
  ASSUME TypeOK, CallsInv, NEW c \in Call, Runs(c), End(c)
  PROVE  /\ CallsInv'
         /\ \A d \in Call : Runs(d)' =>
              Runs(d) /\ call'[d] = call[d] /\ call[d].request # call[c].request
<1> DEFINE r == call[c].request
<1>1. r \in Request /\ c \in Joined(c)
  BY WaitFields DEF Joined, Runs
<1>2. \A d \in Call : call'[d] = IF d \in Joined(c) THEN NoWait ELSE call[d]
  BY DEF End
<1>3. \A d \in Call : Waits(d)' => call'[d] = call[d] /\ Waits(d) /\ call[d].on # c
  BY <1>2 DEF Waits, NoWait, Joined
<1>4. \A d \in Call : Runs(d)' => Waits(d)'
  BY NilFacts DEF Runs, Waits
<1>5. \A d \in Call : Runs(d)' => Runs(d) /\ call'[d] = call[d] /\ d # c
  BY <1>1, <1>2, <1>3, <1>4 DEF Runs
<1>6. \A d \in Call : Runs(d)' => call[d].request # r
  BY <1>5, OneHandler
<1>7. \A d \in Call : Runs(d) /\ d # c => Runs(d)' /\ call'[d] = call[d]
  BY <1>2 DEF Joined, Runs
<1>8. inFlight'[r] = Nil /\ \A q \in Request : q # r => inFlight'[q] = inFlight[q]
  BY <1>1 DEF End, TypeOK
<1> HIDE DEF r
<1>9. InFlightInv'
  <2>1. ASSUME NEW q \in Request, inFlight'[q] # Nil
        PROVE  Runs(inFlight[q])' /\ call'[inFlight'[q]].request = q
    <3>1. q # r /\ inFlight'[q] = inFlight[q] /\ inFlight[q] \in Call
      BY <1>8, <2>1 DEF TypeOK
    <3>2. Runs(inFlight[q]) /\ call[inFlight[q]].request = q
      BY <2>1, <3>1 DEF CallsInv, InFlightInv
    <3>3. inFlight[q] # c
      BY <3>1, <3>2 DEF r
    <3> QED BY <1>7, <3>1, <3>2, <3>3
  <2>2. ASSUME NEW d \in Call, Runs(d)'
        PROVE  inFlight'[call'[d].request] = d
    <3>1. Runs(d) /\ call'[d] = call[d] /\ call[d].request # r
      BY <1>5, <1>6, <2>2
    <3>2. call[d].request \in Request
      BY <3>1, WaitFields
    <3> QED BY <1>8, <3>1, <3>2 DEF CallsInv, InFlightInv
  <2> QED BY <2>1, <2>2 DEF InFlightInv
<1>10. JoinInv'
  <2> SUFFICES ASSUME NEW d \in Call, Waits(d)'
               PROVE  /\ Runs(call[d].on)'
                      /\ call'[call'[d].on].request = call'[d].request
                      /\ call'[call'[d].on].input = call'[d].input
    BY DEF JoinInv
  <2>1. call'[d] = call[d] /\ Waits(d) /\ call[d].on # c /\ call[d].on \in Call
    BY <1>3, WaitFields
  <2>2. Runs(call[d].on)
    BY <2>1 DEF CallsInv, JoinInv
  <2> QED BY <1>7, <2>1, <2>2 DEF CallsInv, JoinInv
<1> QED BY <1>5, <1>6, <1>9, <1>10 DEF CallsInv, r

\* A handler that is let alone, with its receipt and its effect, is in order.
LEMMA HandlerKept ==
  ASSUME TypeOK, HandlerInv, NEW d \in Call, Runs(d), call'[d] = call[d],
         row'[call[d].request] = row[call[d].request],
         taken'[call[d].request] = taken[call[d].request]
  PROVE  LET r == call'[d].request IN
         /\ call'[d].result # 0 => taken'[r] = <<call'[d].input, call'[d].result>>
         /\ IF Kind[r] = "start" /\ call'[d].result = 0 THEN row'[r] = NoRow
            ELSE row'[r].state # "none" /\ row'[r].input = call'[d].input
         /\ call'[d].result = 0 => row'[r].state # "completed"
         /\ call'[d].result = 0 /\ Kind[r] # "release" => taken'[r] = Nil
  BY DEF HandlerInv

\* A receipt is inserted, and others are pruned.
LEMMA InsertFacts ==
  ASSUME TypeOK, Careful, NEW gone \in SUBSET Prunable, NEW r \in Request,
         NEW i \in Input, row[r] = NoRow, Insert(gone, r, i)
  PROVE  /\ row'[r] = [state |-> "pending", input |-> i, result |-> 0]
         /\ Forgotten(gone)[r] = taken[r] /\ r \notin gone
         /\ \A q \in Request : q # r =>
              IF q \in gone THEN row'[q] = NoRow /\ Forgotten(gone)[q] = Nil
              ELSE row'[q] = row[q] /\ Forgotten(gone)[q] = taken[q]
         /\ \A d \in Call : Runs(d) => call[d].request \notin gone
<1>1. r \notin gone
  BY GoneFacts DEF NoRow
<1>2. \A d \in Call : Runs(d) => call[d].request \notin gone
  BY GoneFacts DEF Running
<1> QED BY <1>1, <1>2 DEF Insert, Forgotten

LEMMA BeginStep ==
  ASSUME TypeOK, ReceiptInv, Careful, NEW c \in Call, NEW r \in Request, NEW i \in Input,
         NEW gone \in SUBSET Prunable, Begin(c, r, i, gone)
  PROVE  ReceiptInv'
<1>1. /\ ~Waits(c) /\ Kind[r] # "start" /\ row[r] = NoRow
      /\ Insert(gone, r, i) /\ taken' = Forgotten(gone) /\ Start(c, r, i)
  BY DEF Begin
<1>2. CallsInv
  BY DEF ReceiptInv, CallsInv
<1>3. inFlight[r] = Nil
  <2> SUFFICES ASSUME inFlight[r] # Nil PROVE FALSE
    OBVIOUS
  <2>1. inFlight[r] \in Call /\ Runs(inFlight[r]) /\ call[inFlight[r]].request = r
    BY DEF ReceiptInv, InFlightInv, TypeOK
  <2> QED BY <1>1, <2>1 DEF ReceiptInv, HandlerInv, NoRow
<1>4. /\ CallsInv'
      /\ \A d \in Call : d # c => call'[d] = call[d]
      /\ call'[c] = [on |-> c, request |-> r, input |-> i, result |-> 0]
  BY <1>1, <1>2, <1>3, CallsStart
<1>5. /\ row'[r] = [state |-> "pending", input |-> i, result |-> 0]
      /\ taken'[r] = taken[r] /\ r \notin gone
      /\ \A q \in Request : q # r =>
           IF q \in gone THEN row'[q] = NoRow /\ taken'[q] = Nil
           ELSE row'[q] = row[q] /\ taken'[q] = taken[q]
      /\ \A d \in Call : Runs(d) => call[d].request \notin gone
  BY <1>1, InsertFacts
<1>6. taken[r] = Nil
  BY <1>1 DEF ReceiptInv, EffectInv, NoRow
<1>7. HandlerInv'
  <2> SUFFICES ASSUME NEW d \in Call, Runs(d)'
               PROVE  LET q == call'[d].request IN
                 /\ call'[d].result # 0 => taken'[q] = <<call'[d].input, call'[d].result>>
                 /\ IF Kind[q] = "start" /\ call'[d].result = 0 THEN row'[q] = NoRow
                    ELSE row'[q].state # "none" /\ row'[q].input = call'[d].input
                 /\ call'[d].result = 0 => row'[q].state # "completed"
                 /\ call'[d].result = 0 /\ Kind[q] # "release" => taken'[q] = Nil
    BY DEF HandlerInv
  <2>1. CASE d = c
    BY <1>1, <1>4, <1>5, <1>6, <2>1
  <2>2. CASE d # c
    <3>1. Runs(d) /\ call'[d] = call[d]
      BY <1>4, <2>2 DEF Runs
    <3>2. call[d].request \in Request /\ call[d].request # r
      BY <1>3, <3>1, WaitFields, NilFacts DEF ReceiptInv, InFlightInv
    <3>3. /\ row'[call[d].request] = row[call[d].request]
          /\ taken'[call[d].request] = taken[call[d].request]
      BY <1>5, <3>1, <3>2
    <3> QED BY <3>1, <3>3, HandlerKept DEF ReceiptInv
  <2> QED BY <2>1, <2>2
<1>8. EffectInv'
  BY <1>5, <1>6 DEF ReceiptInv, EffectInv, NoRow
<1> QED BY <1>4, <1>7, <1>8 DEF ReceiptInv, CallsInv

\* A start that has no receipt, or a release with a pending one, gets a handler.
LEMMA StartStep ==
  ASSUME TypeOK, ReceiptInv, Careful, NEW c \in Call, NEW r \in Request, NEW i \in Input,
         BeginStart(c, r, i) \/ Resume(c, r, i)
  PROVE  ReceiptInv'
<1>1. /\ ~Waits(c) /\ inFlight[r] = Nil /\ Start(c, r, i)
      /\ \/ Kind[r] = "start" /\ row[r] = NoRow
         \/ Kind[r] = "release" /\ row[r].state = "pending" /\ row[r].input = i
      /\ UNCHANGED <<row, taken>>
  BY DEF BeginStart, Resume, Resumable, Careful
<1>2. CallsInv
  BY DEF ReceiptInv, CallsInv
<1>3. /\ CallsInv'
      /\ \A d \in Call : d # c => call'[d] = call[d]
      /\ call'[c] = [on |-> c, request |-> r, input |-> i, result |-> 0]
  BY <1>1, <1>2, CallsStart
<1>4. row[r] = NoRow => taken[r] = Nil
  BY DEF ReceiptInv, EffectInv, NoRow
<1>5. HandlerInv'
  <2> SUFFICES ASSUME NEW d \in Call, Runs(d)'
               PROVE  LET q == call'[d].request IN
                 /\ call'[d].result # 0 => taken'[q] = <<call'[d].input, call'[d].result>>
                 /\ IF Kind[q] = "start" /\ call'[d].result = 0 THEN row'[q] = NoRow
                    ELSE row'[q].state # "none" /\ row'[q].input = call'[d].input
                 /\ call'[d].result = 0 => row'[q].state # "completed"
                 /\ call'[d].result = 0 /\ Kind[q] # "release" => taken'[q] = Nil
    BY DEF HandlerInv
  <2>1. CASE d = c
    <3>1. NoRow.state = "none"
      BY DEF NoRow
    <3> QED BY <1>1, <1>3, <1>4, <2>1, <3>1
  <2>2. CASE d # c
    <3>1. Runs(d) /\ call'[d] = call[d]
      BY <1>3, <2>2 DEF Runs
    <3> QED BY <1>1, <3>1, HandlerKept DEF ReceiptInv
  <2> QED BY <2>1, <2>2
<1>6. EffectInv'
  BY <1>1 DEF ReceiptInv, EffectInv
<1> QED BY <1>3, <1>5, <1>6 DEF ReceiptInv, CallsInv

LEMMA JoinStep ==
  ASSUME TypeOK, ReceiptInv, NEW c \in Call, NEW r \in Request, NEW i \in Input,
         Join(c, r, i)
  PROVE  ReceiptInv'
<1>1. CallsInv /\ HandlerInv
  BY DEF ReceiptInv, CallsInv
<1>2. CallsInv' /\ \A d \in Call : Runs(d)' => Runs(d) /\ call'[d] = call[d]
  BY <1>1, CallsJoin
<1>3. UNCHANGED <<row, taken>>
  BY DEF Join
<1>4. HandlerInv'
  BY <1>1, <1>2, <1>3 DEF HandlerInv
<1>5. EffectInv'
  BY <1>3 DEF ReceiptInv, EffectInv
<1> QED BY <1>2, <1>4, <1>5 DEF ReceiptInv, CallsInv

\* The handler of c has an effect or finds its own: its result is recorded as
\* the effect of its request, for which there is a pending receipt.
LEMMA EffectStep ==
  ASSUME TypeOK, ReceiptInv, Careful, NEW c \in Call, TakeEffect(c)
  PROVE  ReceiptInv'
<1> DEFINE r == call[c].request
<1>1. /\ Runs(c) /\ call[c].result = 0 /\ Kind[r] # "start" /\ UNCHANGED <<row, inFlight>>
      /\ r \in Request /\ call[c].input \in Input
  BY WaitFields DEF TakeEffect
<1>2. row[r].state = "pending" /\ row[r].input = call[c].input
  BY <1>1 DEF ReceiptInv, HandlerInv, TypeOK, Row
<1>3. PICK n \in Nat : /\ call' = [call EXCEPT ![c].result = n]
                       /\ taken' = [taken EXCEPT ![r] = <<call[c].input, n>>]
                       /\ n = 0 => Kind[r] = "release" /\ taken[r] = <<call[c].input, 0>>
  <2>1. CASE Kind[r] = "release" /\ taken[r] # Nil
    <3>1. taken[r] \in Effect /\ taken[r][1] = call[c].input
      BY <1>1, <1>2, <2>1 DEF TypeOK, ReceiptInv, EffectInv
    <3>2. taken[r] = <<call[c].input, taken[r][2]>> /\ taken[r][2] \in Nat
      BY <3>1 DEF Effect
    <3>3. call' = [call EXCEPT ![c].result = taken[r][2]] /\ taken' = taken
      BY <2>1 DEF TakeEffect
    <3>4. taken' = [taken EXCEPT ![r] = <<call[c].input, taken[r][2]>>]
      BY <1>1, <3>2, <3>3 DEF TypeOK
    <3> QED BY <2>1, <3>2, <3>3, <3>4
  <2>2. CASE ~(Kind[r] = "release" /\ taken[r] # Nil)
    <3>1. effects + 1 \in Nat /\ effects + 1 # 0
      BY DEF TypeOK
    <3> QED BY <2>2, <3>1 DEF TakeEffect
  <2> QED BY <2>1, <2>2
<1> HIDE DEF r
<1>4. CallsInv' /\ call'[c].result = n
      /\ \A d \in Call : Runs(d)' =>
           /\ Runs(d)
           /\ call'[d].request = call[d].request /\ call'[d].input = call[d].input
           /\ d # c => call'[d] = call[d]
  <2>1. CallsInv
    BY DEF ReceiptInv, CallsInv
  <2> QED BY <1>1, <1>3, <2>1, CallsResult
<1>5. /\ taken'[r] = <<call[c].input, n>>
      /\ \A q \in Request : q # r => taken'[q] = taken[q]
  BY <1>1, <1>3 DEF TypeOK
<1>6. HandlerInv'
  <2> SUFFICES ASSUME NEW d \in Call, Runs(d)'
               PROVE  LET q == call'[d].request IN
                 /\ call'[d].result # 0 => taken'[q] = <<call'[d].input, call'[d].result>>
                 /\ IF Kind[q] = "start" /\ call'[d].result = 0 THEN row'[q] = NoRow
                    ELSE row'[q].state # "none" /\ row'[q].input = call'[d].input
                 /\ call'[d].result = 0 => row'[q].state # "completed"
                 /\ call'[d].result = 0 /\ Kind[q] # "release" => taken'[q] = Nil
    BY DEF HandlerInv
  <2>1. CASE d = c
    BY <1>1, <1>2, <1>3, <1>4, <1>5, <2>1 DEF r
  <2>2. CASE d # c
    <3>1. Runs(d) /\ call'[d] = call[d] /\ call[d].request \in Request
      BY <1>4, <2>2, WaitFields
    <3>2. call[d].request # r
      BY <1>1, <2>2, <3>1, OneHandler DEF r, ReceiptInv, CallsInv
    <3> QED BY <1>1, <1>5, <3>1, <3>2, HandlerKept DEF ReceiptInv
  <2> QED BY <2>1, <2>2
<1>7. EffectInv'
  BY <1>1, <1>2, <1>5 DEF ReceiptInv, EffectInv, r
<1> QED BY <1>4, <1>6, <1>7 DEF ReceiptInv, CallsInv


LEMMA AcceptStep ==
  ASSUME TypeOK, ReceiptInv, Careful, NEW c \in Call, NEW gone \in SUBSET Prunable,
         Accept(c, gone)
  PROVE  ReceiptInv'
<1> DEFINE r == call[c].request
           n == effects + 1
<1>1. /\ Runs(c) /\ UNCHANGED inFlight /\ row[r] = NoRow /\ Insert(gone, r, call[c].input)
      /\ taken' = [Forgotten(gone) EXCEPT ![r] = <<call[c].input, n>>]
      /\ call' = [call EXCEPT ![c].result = n]
      /\ r \in Request /\ call[c].input \in Input
  BY WaitFields DEF Accept
<1>2. n \in Nat /\ n # 0
  BY DEF TypeOK
<1> HIDE DEF r, n
<1>3. CallsInv' /\ call'[c].result = n
      /\ \A d \in Call : Runs(d)' =>
           /\ Runs(d)
           /\ call'[d].request = call[d].request /\ call'[d].input = call[d].input
           /\ d # c => call'[d] = call[d]
  <2>1. CallsInv
    BY DEF ReceiptInv, CallsInv
  <2> QED BY <1>1, <1>2, <2>1, CallsResult
<1>4. /\ row'[r] = [state |-> "pending", input |-> call[c].input, result |-> 0]
      /\ \A q \in Request : q # r =>
           IF q \in gone THEN row'[q] = NoRow /\ Forgotten(gone)[q] = Nil
           ELSE row'[q] = row[q] /\ Forgotten(gone)[q] = taken[q]
      /\ \A d \in Call : Runs(d) => call[d].request \notin gone
  BY <1>1, InsertFacts
<1>5. /\ taken'[r] = <<call[c].input, n>>
      /\ \A q \in Request : q # r => taken'[q] = Forgotten(gone)[q]
  BY <1>1 DEF Forgotten
<1>6. HandlerInv'
  <2> SUFFICES ASSUME NEW d \in Call, Runs(d)'
               PROVE  LET q == call'[d].request IN
                 /\ call'[d].result # 0 => taken'[q] = <<call'[d].input, call'[d].result>>
                 /\ IF Kind[q] = "start" /\ call'[d].result = 0 THEN row'[q] = NoRow
                    ELSE row'[q].state # "none" /\ row'[q].input = call'[d].input
                 /\ call'[d].result = 0 => row'[q].state # "completed"
                 /\ call'[d].result = 0 /\ Kind[q] # "release" => taken'[q] = Nil
    BY DEF HandlerInv
  <2>1. CASE d = c
    BY <1>2, <1>3, <1>4, <1>5, <2>1 DEF r
  <2>2. CASE d # c
    <3>1. Runs(d) /\ call'[d] = call[d] /\ call[d].request \in Request
      BY <1>3, <2>2, WaitFields
    <3>2. call[d].request # r
      BY <1>1, <2>2, <3>1, OneHandler DEF r, ReceiptInv, CallsInv
    <3> QED BY <1>4, <1>5, <3>1, <3>2, HandlerKept DEF ReceiptInv
  <2> QED BY <2>1, <2>2
<1>7. EffectInv'
  BY <1>4, <1>5 DEF ReceiptInv, EffectInv, NoRow
<1> QED BY <1>3, <1>6, <1>7 DEF ReceiptInv, CallsInv

LEMMA RecordStep ==
  ASSUME TypeOK, ReceiptInv, NEW c \in Call, RecordEarly(c)
  PROVE  ReceiptInv'
<1> DEFINE r == call[c].request
<1>1. /\ Runs(c) /\ call[c].result # 0 /\ r \in Request /\ UNCHANGED <<call, inFlight, taken>>
      /\ row' = [row EXCEPT ![r] = Done(call[c].input, call[c].result)]
  BY WaitFields DEF RecordEarly
<1>2. taken[r] = <<call[c].input, call[c].result>>
  BY <1>1 DEF ReceiptInv, HandlerInv
<1> HIDE DEF r
<1>3. /\ row'[r].state = "completed" /\ row'[r].input = call[c].input
      /\ row'[r].result = call[c].result
      /\ \A q \in Request : q # r => row'[q] = row[q]
  BY <1>1 DEF Done, TypeOK
<1>4. InFlightInv' /\ JoinInv'
  BY <1>1 DEF ReceiptInv, InFlightInv, JoinInv, Runs, Waits
<1>5. HandlerInv'
  <2> SUFFICES ASSUME NEW d \in Call, Runs(d)'
               PROVE  LET q == call'[d].request IN
                 /\ call'[d].result # 0 => taken'[q] = <<call'[d].input, call'[d].result>>
                 /\ IF Kind[q] = "start" /\ call'[d].result = 0 THEN row'[q] = NoRow
                    ELSE row'[q].state # "none" /\ row'[q].input = call'[d].input
                 /\ call'[d].result = 0 => row'[q].state # "completed"
                 /\ call'[d].result = 0 /\ Kind[q] # "release" => taken'[q] = Nil
    BY DEF HandlerInv
  <2>1. Runs(d) /\ call'[d] = call[d] /\ call[d].request \in Request
    BY <1>1, WaitFields DEF Runs
  <2>2. CASE d = c
    BY <1>1, <1>2, <1>3, <2>2 DEF r
  <2>3. CASE d # c
    <3>1. call[d].request # r
      BY <1>1, <2>1, <2>3, OneHandler DEF r, ReceiptInv, CallsInv
    <3> QED BY <1>1, <1>3, <2>1, <3>1, HandlerKept DEF ReceiptInv
  <2> QED BY <2>2, <2>3
<1>6. EffectInv'
  BY <1>1, <1>2, <1>3 DEF ReceiptInv, EffectInv, NoRow
<1> QED BY <1>4, <1>5, <1>6 DEF ReceiptInv

\* A handler ends: its receipt is complete, or is discarded without an effect,
\* or is left pending.
LEMMA EndStep ==
  ASSUME TypeOK, ReceiptInv, Careful, NEW c \in Call,
         Complete(c) \/ Fail(c) \/ FailUnknown(c)
  PROVE  ReceiptInv'
<1> DEFINE r == call[c].request
<1>1. Runs(c) /\ End(c) /\ UNCHANGED taken /\ r \in Request
  BY WaitFields DEF Complete, Fail, FailUnknown
<1>2. \/ row' = row
      \/ row' = [row EXCEPT ![r] = NoRow] /\ taken[r] = Nil
      \/ /\ row' = [row EXCEPT ![r] = Done(call[c].input, call[c].result)]
         /\ taken[r] = <<call[c].input, call[c].result>>
  <2>1. CASE Complete(c)
    BY <2>1 DEF Complete, ReceiptInv, HandlerInv
  <2>2. CASE Fail(c)
    <3>1. CASE Kept(r)
      BY <2>2, <3>1 DEF Fail, Discard
    <3>2. CASE ~Kept(r)
      <4>1. row' = [row EXCEPT ![r] = NoRow]
        BY <2>2, <3>2 DEF Fail, Discard
      <4>2. taken[r] = Nil
        BY <1>1, <2>2, <3>2
        DEF Fail, Kept, Careful, Completable, ReceiptInv, HandlerInv
      <4> QED BY <4>1, <4>2
    <3> QED BY <3>1, <3>2
  <2>3. CASE FailUnknown(c)
    BY <2>3 DEF FailUnknown
  <2> QED BY <2>1, <2>2, <2>3
<1> HIDE DEF r
<1>3. /\ CallsInv'
      /\ \A d \in Call : Runs(d)' => Runs(d) /\ call'[d] = call[d] /\ call[d].request # r
  <2>1. CallsInv
    BY DEF ReceiptInv, CallsInv
  <2> QED BY <1>1, <2>1, CallsFinish DEF r
<1>4. \A q \in Request : q # r => row'[q] = row[q]
  BY <1>2 DEF TypeOK
<1>5. \/ row'[r] = row[r]
      \/ row'[r] = NoRow /\ taken[r] = Nil
      \/ /\ row'[r].state = "completed" /\ taken[r] = <<row'[r].input, row'[r].result>>
         /\ row'[r].input = call[c].input
  BY <1>1, <1>2 DEF TypeOK, Done
<1>6. HandlerInv'
  <2> SUFFICES ASSUME NEW d \in Call, Runs(d)'
               PROVE  LET q == call'[d].request IN
                 /\ call'[d].result # 0 => taken'[q] = <<call'[d].input, call'[d].result>>
                 /\ IF Kind[q] = "start" /\ call'[d].result = 0 THEN row'[q] = NoRow
                    ELSE row'[q].state # "none" /\ row'[q].input = call'[d].input
                 /\ call'[d].result = 0 => row'[q].state # "completed"
                 /\ call'[d].result = 0 /\ Kind[q] # "release" => taken'[q] = Nil
    BY DEF HandlerInv
  <2>1. Runs(d) /\ call'[d] = call[d] /\ call[d].request # r /\ call[d].request \in Request
    BY <1>3, WaitFields
  <2> QED BY <1>1, <1>4, <2>1, HandlerKept DEF ReceiptInv
<1>7. EffectInv'
  <2> SUFFICES ASSUME NEW q \in Request
               PROVE  /\ row'[q].state = "none" => row'[q] = NoRow
                      /\ taken'[q] # Nil => row'[q].state # "none" /\ row'[q].input = taken'[q][1]
                      /\ row'[q].state = "completed" => taken'[q] = <<row'[q].input, row'[q].result>>
    BY DEF EffectInv
  <2>1. taken'[q] = taken[q]
    BY <1>1
  <2> QED BY <1>4, <1>5, <2>1 DEF ReceiptInv, EffectInv, NoRow
<1> QED BY <1>3, <1>6, <1>7 DEF ReceiptInv, CallsInv

LEMMA CrashStep == TypeOK /\ ReceiptInv /\ Crash => ReceiptInv'
<1> SUFFICES ASSUME TypeOK, ReceiptInv, Crash PROVE ReceiptInv'
  OBVIOUS
<1>1. \A c \in Call : call'[c] = NoWait
  BY DEF Crash
<1>2. \A c \in Call : ~Runs(c)' /\ ~Waits(c)'
  BY <1>1, NilFacts DEF Runs, Waits, NoWait
<1>3. \A r \in Request : inFlight'[r] = Nil
  BY DEF Crash
<1>4. EffectInv'
  BY DEF Crash, ReceiptInv, EffectInv
<1> QED BY <1>2, <1>3, <1>4 DEF ReceiptInv, InFlightInv, JoinInv, HandlerInv

LEMMA StutterStep ==
  ASSUME ReceiptInv, UNCHANGED <<row, inFlight, call, taken>>
  PROVE  ReceiptInv'
  BY DEF ReceiptInv, InFlightInv, JoinInv, HandlerInv, EffectInv, Runs, Waits

LEMMA ReceiptInit == Init => ReceiptInv
<1> SUFFICES ASSUME Init PROVE ReceiptInv
  OBVIOUS
<1>1. \A c \in Call : ~Runs(c) /\ ~Waits(c)
  BY NilFacts DEF Init, Runs, Waits, NoWait
<1> QED
  BY <1>1 DEF Init, ReceiptInv, InFlightInv, JoinInv, HandlerInv, EffectInv, NoRow

LEMMA ReceiptStep == TypeOK /\ ReceiptInv /\ Careful /\ [Next]_vars => ReceiptInv'
<1> SUFFICES ASSUME TypeOK, ReceiptInv, Careful, [Next]_vars PROVE ReceiptInv'
  OBVIOUS
<1>1. ASSUME NEW c \in Call, NEW r \in Request, NEW i \in Input, Arrive(c, r, i)
      PROVE  ReceiptInv'
  <2>1. CASE Replay(c, r, i)
    BY <2>1, StutterStep DEF Replay
  <2> QED BY <1>1, <2>1, BeginStep, StartStep, JoinStep DEF Arrive
<1>2. ASSUME NEW c \in Call, Handle(c)
      PROVE  ReceiptInv'
  BY <1>2, EffectStep, AcceptStep, RecordStep, EndStep DEF Handle
<1>3. CASE UNCHANGED vars
  BY <1>3, StutterStep DEF vars
<1> QED BY <1>1, <1>2, <1>3, CrashStep DEF Next

\* The receipts, the running handlers, the waiting calls and the effects agree.
THEOREM ReceiptInvariant == ASSUME Careful PROVE Spec => []ReceiptInv
<1>1. TypeOK /\ ReceiptInv /\ [Next]_vars => ReceiptInv'
  BY ReceiptStep
<1> QED BY <1>1, TypeCorrect, ReceiptInit, PTL DEF Spec

-----------------------------------------------------------------------------
(***************************************************************************)
(* The receipts implement requests that take effect once.                  *)
(***************************************************************************)
\* The completed receipts after an insertion are those that are not pruned.
LEMMA KeptAfterInsert ==
  ASSUME TypeOK, Careful, NEW gone \in SUBSET Prunable, NEW r \in Request,
         NEW i \in Input, row[r] = NoRow, Insert(gone, r, i)
  PROVE  Completed' = Completed \ gone /\ gone \subseteq Completed /\ r \notin gone
<1>1. gone \subseteq Completed
  BY GoneFacts DEF Completed
<1>2. /\ row'[r] = [state |-> "pending", input |-> i, result |-> 0] /\ r \notin gone
      /\ \A q \in Request : q # r => row'[q] = IF q \in gone THEN NoRow ELSE row[q]
  BY InsertFacts
<1>3. NoRow.state = "none"
  BY DEF NoRow
<1>4. \A q \in Request : row'[q].state = "completed" <=> row[q].state = "completed" /\ q \notin gone
  BY <1>2, <1>3
<1>5. Completed' = { q \in Request : row'[q].state = "completed" }
  BY DEF Completed
<1> QED BY <1>1, <1>2, <1>4, <1>5 DEF Completed

LEMMA WithoutIsForgotten ==
  ASSUME NEW gone PROVE Once!Without(gone) = Forgotten(gone)
  BY DEF Once!Without, Forgotten

LEMMA OnceStep ==
  TypeOK /\ ReceiptInv /\ Careful /\ [Next]_vars => [Once!Next]_(Once!once)
<1> SUFFICES ASSUME TypeOK, ReceiptInv, Careful, [Next]_vars
             PROVE  [Once!Next]_(Once!once)
  OBVIOUS
<1>1. ASSUME UNCHANGED <<row, effects, taken, answers>>
      PROVE  UNCHANGED Once!once
  BY <1>1 DEF Once!once, Completed
<1>2. ASSUME NEW c \in Call, NEW r \in Request, NEW i \in Input,
             NEW gone \in SUBSET Prunable, Begin(c, r, i, gone)
      PROVE  Once!Next
  <2>1. /\ Completed' = Completed \ gone /\ gone \subseteq Completed
        /\ taken' = Once!Without(gone) /\ UNCHANGED <<effects, answers>>
    BY <1>2, KeptAfterInsert, WithoutIsForgotten DEF Begin
  <2>2. gone \in SUBSET Request
    BY <2>1 DEF Completed
  <2> QED BY <2>1, <2>2 DEF Once!Next, Once!Forget
<1>3. ASSUME NEW c \in Call, NEW r \in Request, NEW i \in Input, Replay(c, r, i)
      PROVE  Once!Next
  <2>1. taken[r] = <<i, row[r].result>> /\ r \in Completed /\ taken[r] # Nil
    <3>1. taken[r] = <<i, row[r].result>> /\ r \in Completed
      BY <1>3 DEF Replay, Matches, Completed, ReceiptInv, EffectInv
    <3>2. <<i, row[r].result>> \in Effect
      BY DEF TypeOK, Row, Effect
    <3> QED BY <3>1, <3>2, NilFacts
  <2>2. UNCHANGED <<effects, taken>> /\ Completed' = Completed
        /\ answers' = answers \cup {<<r, taken[r]>>}
    BY <1>3, <2>1 DEF Replay, Completed
  <2> QED BY <2>1, <2>2 DEF Once!Next, Once!Keep
<1>4. ASSUME NEW c \in Call, TakeEffect(c)
      PROVE  [Once!Next]_(Once!once)
  <2> DEFINE r == call[c].request
  <2>1. Runs(c) /\ r \in Request /\ call[c].input \in Input /\ UNCHANGED <<row, answers>>
        /\ call[c].result = 0
    BY <1>4, WaitFields DEF TakeEffect
  <2>2. CASE Kind[r] = "release" /\ taken[r] # Nil
    BY <1>1, <1>4, <2>1, <2>2 DEF TakeEffect
  <2>3. CASE ~(Kind[r] = "release" /\ taken[r] # Nil)
    <3>1. /\ effects' = effects + 1
          /\ taken' = [taken EXCEPT ![r] = <<call[c].input, effects + 1>>]
      BY <1>4, <2>3 DEF TakeEffect
    <3>2. taken[r] = Nil
      BY <2>1, <2>3 DEF ReceiptInv, HandlerInv
    <3>3. Once!Without({}) = taken
      BY DEF Once!Without, TypeOK
    <3>4. Completed' = Completed \ {}
      BY <2>1 DEF Completed
    <3>5. Once!TakeEffect(r, call[c].input, {})
      BY <2>1, <3>1, <3>2, <3>3, <3>4 DEF Once!TakeEffect
    <3> QED BY <2>1, <3>5 DEF Once!Next
  <2> QED BY <2>2, <2>3
<1>5. ASSUME NEW c \in Call, NEW gone \in SUBSET Prunable, Accept(c, gone)
      PROVE  Once!Next
  <2> DEFINE r == call[c].request
  <2>1. /\ r \in Request /\ call[c].input \in Input /\ UNCHANGED answers
        /\ row[r] = NoRow /\ taken[r] = Nil /\ Insert(gone, r, call[c].input)
        /\ effects' = effects + 1
        /\ taken' = [Once!Without(gone) EXCEPT ![r] = <<call[c].input, effects + 1>>]
    BY <1>5, WaitFields, WithoutIsForgotten DEF Accept
  <2>2. Completed' = Completed \ gone /\ gone \subseteq Completed
    BY <2>1, KeptAfterInsert
  <2>3. gone \in SUBSET Request
    BY <2>2 DEF Completed
  <2>4. Once!TakeEffect(r, call[c].input, gone)
    BY <2>1, <2>2 DEF Once!TakeEffect
  <2> QED BY <2>1, <2>3, <2>4 DEF Once!Next
<1>6. ASSUME NEW c \in Call, RecordEarly(c) \/ Complete(c)
      PROVE  Once!Next
  <2> DEFINE r == call[c].request
  <2>1. /\ Runs(c) /\ r \in Request /\ call[c].input \in Input
        /\ row' = [row EXCEPT ![r] = Done(call[c].input, call[c].result)]
        /\ UNCHANGED <<effects, taken>>
        /\ taken[r] = <<call[c].input, call[c].result>>
    BY <1>6, WaitFields DEF RecordEarly, Complete, ReceiptInv, HandlerInv
  <2>2. taken[r] # Nil
    <3>1. <<call[c].input, call[c].result>> \in Effect
      BY <2>1, WaitFields DEF Effect
    <3> QED BY <2>1, <3>1, NilFacts
  <2>3. Completed' = Completed \cup {r}
    <3>1. \A q \in Request : row'[q] = IF q = r THEN Done(call[c].input, call[c].result) ELSE row[q]
      BY <2>1 DEF TypeOK
    <3>2. Completed' = { q \in Request : row'[q].state = "completed" }
      BY DEF Completed
    <3>3. Done(call[c].input, call[c].result).state = "completed"
      BY DEF Done
    <3> QED BY <2>1, <3>1, <3>2, <3>3 DEF Completed
  <2>4. answers' \in {answers, answers \cup {<<r, taken[r]>>}}
    <3>1. CASE RecordEarly(c)
      BY <3>1 DEF RecordEarly
    <3>2. CASE Complete(c)
      <4>1. \A d \in Joined(c) : call[d].input = call[c].input
        <5> SUFFICES ASSUME NEW d \in Joined(c) PROVE call[d].input = call[c].input
          OBVIOUS
        <5>1. d \in Call /\ call[d].on = c /\ Waits(d)
          BY NilFacts DEF Joined, Waits
        <5> QED BY <5>1 DEF ReceiptInv, JoinInv
      <4>2. c \in Joined(c)
        BY <2>1 DEF Joined, Runs
      <4>3. { <<r, <<call[d].input, call[c].result>>>> : d \in Joined(c) } = {<<r, taken[r]>>}
        BY <2>1, <4>1, <4>2
      <4>4. answers' = answers \cup { <<r, <<call[d].input, call[c].result>>>> : d \in Joined(c) }
        BY <3>2 DEF Complete
      <4> QED BY <4>3, <4>4
    <3> QED BY <1>6, <3>1, <3>2
  <2>5. Once!Keep(r)
    BY <2>1, <2>2, <2>3, <2>4 DEF Once!Keep
  <2> QED BY <2>1, <2>5 DEF Once!Next
<1>7. ASSUME NEW c \in Call, Fail(c) \/ FailUnknown(c)
      PROVE  UNCHANGED Once!once
  <2>1. UNCHANGED <<effects, taken, answers>>
    BY <1>7 DEF Fail, FailUnknown
  <2>2. \A r \in Request : row'[r].state = "completed" <=> row[r].state = "completed"
    BY <1>7, WaitFields DEF Fail, FailUnknown, Discard, Kept, NoRow, TypeOK
  <2>3. Completed' = { r \in Request : row'[r].state = "completed" }
    BY DEF Completed
  <2> QED BY <2>1, <2>2, <2>3 DEF Once!once, Completed
<1>8. ASSUME NEW c \in Call, NEW r \in Request, NEW i \in Input,
             BeginStart(c, r, i) \/ Resume(c, r, i) \/ Join(c, r, i)
      PROVE  UNCHANGED Once!once
  BY <1>1, <1>8 DEF BeginStart, Resume, Join
<1>9. CASE Crash \/ UNCHANGED vars
  BY <1>1, <1>9 DEF Crash, vars
<1> QED
  BY <1>2, <1>3, <1>4, <1>5, <1>6, <1>7, <1>8, <1>9 DEF Next, Arrive, Handle

\* A request takes effect once until its result is pruned, and every answer is
\* the result of that effect, for a call that made the same request.
THEOREM OnceRefined == ASSUME Careful PROVE Spec => OnceSpec
<1>1. Init => Once!Init
  BY DEF Init, Once!Init, Completed, NoRow
<1>2. TypeOK /\ ReceiptInv /\ [Next]_vars => [Once!Next]_(Once!once)
  BY OnceStep
<1> QED BY <1>1, <1>2, TypeCorrect, ReceiptInvariant, PTL DEF Spec, OnceSpec, Once!Spec
=============================================================================
