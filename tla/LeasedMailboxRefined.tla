------------------------ MODULE LeasedMailboxRefined ------------------------
(***************************************************************************)
(* RunMailbox implements LeasedMailbox for each of its Runs, with every    *)
(* optional call and event.  To the Run it is about, a step is one of the  *)
(* four actions of the mailbox; to every other Run it is an Arrive, which  *)
(* may bring nothing.  The lemmas of the first part say when a step is     *)
(* which action; those of the second part find the case for each step.     *)
(***************************************************************************)
EXTENDS RunMailboxProofs, FiniteSetTheorems, WellFoundedInduction

USE RunMailboxAssumption

Boxed == { m \in Msg : m <= sent /\ box[m] = "run" }

\* What was leased, and what was shown, is in the mailbox of a Run.
BoxInv ==
  /\ seen \subseteq Boxed
  /\ \A d \in Delivery : dStatus[d] # "absent" => dMsgs[d] \subseteq Boxed

RefineInv == TypeOK /\ LeaseInv /\ MessageInv /\ CheckInv /\ BoxInv

\* A stored message keeps its Run and its type, and does not leave a mailbox.
Stays ==
  \A m \in Msg : m <= sent =>
    /\ msgRun'[m] = msgRun[m]
    /\ msgType'[m] = msgType[m]
    /\ box[m] = "run" => box'[m] = "run"

-----------------------------------------------------------------------------
(***************************************************************************)
(* The actions of the mailbox of a Run.                                    *)
(***************************************************************************)
LEMMA MailIsStored ==
  ASSUME TypeOK, MessageInv, NEW r \in Run
  PROVE  \A m \in MailOf(r) : m \in Msg /\ m <= sent
  BY DEF MailOf, MessageInv, TypeOK, Msg

LEMMA GainStep ==
  ASSUME TypeOK, MessageInv, Stays, NEW r \in Run
  PROVE  Mailbox(r)!Gain
  BY MailIsStored DEF Stays, MailOf, Mailbox!Gain

\* The lease of a Run is what its outstanding Delivery holds.
LEMMA LeaseKept ==
  ASSUME NEW r \in Run, UNCHANGED <<dRun, dGen, dMsgs>>,
         \A d \in Delivery : dRun[d] = r =>
           (dStatus'[d] = "outstanding" <=> dStatus[d] = "outstanding")
  PROVE  LeaseOf(r)' = LeaseOf(r)
<1>1. Outstanding(r)' = Outstanding(r)
  BY DEF Outstanding
<1> QED BY <1>1 DEF LeaseOf

\* The consumer and the lease stay, nothing is shown, and what is read besides
\* are heartbeats.
LEMMA ArriveStep ==
  ASSUME RefineInv, Stays, NEW r \in Run,
         generation'[r] = generation[r], LeaseOf(r)' = LeaseOf(r), read \subseteq read',
         \A m \in seen' \ seen : m \in Msg /\ msgRun'[m] # r,
         \A m \in seen : m \in seen',
         \A m \in Msg : msgRun'[m] = r /\ box'[m] = "run" /\ m \in read' =>
           (box[m] = "run" /\ m \in read) \/ msgType'[m] = "heartbeat"
  PROVE  Mailbox(r)!Arrive
<1>0. TypeOK /\ MessageInv
  BY DEF RefineInv
<1>1. Mailbox(r)!Gain
  BY <1>0, GainStep
<1>2. MailOf(r) \subseteq MailOf(r)'
  BY <1>1 DEF Mailbox!Gain
<1>3. MailOf(r)' \cap seen' = MailOf(r) \cap seen
  <2>1. ASSUME NEW m \in MailOf(r)', m \in seen PROVE m \in MailOf(r)
    <3>1. m \in Msg /\ box[m] = "run" /\ m <= sent
      BY <2>1 DEF RefineInv, BoxInv, Boxed, MessageInv, TypeOK, Msg
    <3> QED BY <2>1, <3>1 DEF MailOf, Stays
  <2> QED BY <1>2, <2>1 DEF MailOf
<1>4. ASSUME NEW m \in MailOf(r)', m \in read', m \notin MailOf(r) \cap read
      PROVE  msgType'[m] = "heartbeat"
  <2>1. m \in Msg /\ msgRun'[m] = r /\ box'[m] = "run"
    BY <1>4 DEF MailOf
  <2>2. CASE box[m] = "run" /\ m \in read
    <3>1. m <= sent
      BY <1>0, <2>1, <2>2 DEF MessageInv, TypeOK, Msg
    <3> QED BY <1>4, <2>1, <2>2, <3>1 DEF Stays, MailOf
  <2> QED BY <1>4, <2>1, <2>2
<1> QED BY <1>1, <1>2, <1>3, <1>4 DEF Mailbox!Arrive

\* A step that leaves the consumer, the lease and what is shown of every Run.
LEMMA AllArrive ==
  ASSUME RefineInv, Stays, read \subseteq read',
         UNCHANGED <<generation, seen, dRun, dGen, dMsgs, dStatus>>,
         \A m \in Msg : box'[m] = "run" /\ m \in read' =>
           (box[m] = "run" /\ m \in read) \/ msgType'[m] = "heartbeat"
  PROVE  \A r \in Run : Mailbox(r)!Arrive
<1>1. \A r \in Run : LeaseOf(r)' = LeaseOf(r)
  BY LeaseKept
<1> QED BY <1>1, ArriveStep

\* The generation rises by one and the outstanding Delivery is fenced.
LEMMA TakeOverStep ==
  ASSUME RefineInv, Stays, NEW r \in Run, generation'[r] = generation[r] + 1,
         UNCHANGED <<read, seen, dRun>>,
         \A d \in Delivery : dRun[d] = r => dStatus'[d] # "outstanding",
         \A m \in Msg : box'[m] = "run" /\ m \in read => box[m] = "run"
  PROVE  Mailbox(r)!TakeOver
<1>0. TypeOK /\ MessageInv
  BY DEF RefineInv
<1>1. Mailbox(r)!Gain
  BY <1>0, GainStep
<1>2. Outstanding(r)' = {}
  BY DEF Outstanding
<1>3. LeaseOf(r)' = {}
  BY <1>2 DEF LeaseOf
<1>4. ASSUME NEW m \in MailOf(r)', m \in read \cup seen PROVE m \in MailOf(r)
  <2>1. m \in Msg /\ box[m] = "run" /\ m <= sent
    BY <1>0, <1>4 DEF RefineInv, BoxInv, Boxed, MailOf, MessageInv, TypeOK, Msg
  <2> QED BY <1>4, <2>1 DEF MailOf, Stays
<1>5. MailOf(r) \subseteq MailOf(r)'
  BY <1>1 DEF Mailbox!Gain
<1>6. MailOf(r)' \cap read' = MailOf(r) \cap read /\ MailOf(r)' \cap seen' = MailOf(r) \cap seen
  BY <1>4, <1>5
<1> QED BY <1>1, <1>3, <1>6 DEF Mailbox!TakeOver

-----------------------------------------------------------------------------
(***************************************************************************)
(* A check of the consumer of a Run is its Check.                          *)
(***************************************************************************)
\* The check of h is the consumer's, and acknowledges A.
Checking(h, r, A) ==
  /\ check[h].run = r /\ check[h].gen = generation[r]
  /\ \A a \in A : Acceptable(h, a)
  /\ UNCHANGED <<generation, mailVars, box>>

LeasedBy(A) ==
  { [term |-> dGen[a], mail |-> dMsgs[a]] : a \in { b \in A : dStatus[b] = "outstanding" } }

\* What an acknowledged Delivery holds is mail of the Run that was shown.
LEMMA AckFacts ==
  ASSUME RefineInv, NEW h \in Handle, NEW r \in Run, NEW A \in Ack(h), Checking(h, r, A),
         NEW a \in A
  PROVE  /\ a \in Delivery /\ dRun[a] = r /\ dGen[a] = generation[r]
         /\ dStatus[a] \in {"outstanding", "acknowledged"}
         /\ dMsgs[a] \subseteq MailOf(r) \cap seen
<1>0. TypeOK
  BY DEF RefineInv
<1>1. a \in Delivery /\ a \in received[h]
  <2>1. A # {}
    OBVIOUS
  <2>2. PICK d \in received[h] : A = {d}
    BY <2>1 DEF Ack
  <2>3. a = d /\ received[h] \subseteq Delivery
    BY <1>0, <2>2 DEF TypeOK
  <2> QED BY <2>2, <2>3
<1>2. dRun[a] = r /\ dGen[a] = generation[r] /\ dStatus[a] # "fenced"
  BY DEF Checking, Acceptable
<1>3. a <= created /\ dMsgs[a] \subseteq seen
  BY <1>1 DEF RefineInv, LeaseInv, HandedInv
<1>4. dStatus[a] # "absent" /\ \A m \in dMsgs[a] : m \in Msg /\ msgRun[m] = r
  BY <1>1, <1>2, <1>3 DEF RefineInv, LeaseInv, DeliveryInv, TypeOK
<1>5. dMsgs[a] \subseteq Boxed
  BY <1>1, <1>4 DEF RefineInv, BoxInv
<1>6. dStatus[a] \in {"absent", "outstanding", "acknowledged", "fenced"}
  BY <1>1 DEF RefineInv, TypeOK
<1> QED BY <1>1, <1>2, <1>3, <1>4, <1>5, <1>6 DEF Boxed, MailOf

LEMMA AcknowledgeStep ==
  ASSUME RefineInv, NEW h \in Handle, NEW r \in Run, NEW A \in Ack(h), Checking(h, r, A),
         read' = ReadWith(A)
  PROVE  LeasedBy(A) \in SUBSET LeaseOf(r) /\ Mailbox(r)!Acknowledge(LeasedBy(A))
<1>1. \A a \in A : dStatus[a] = "outstanding" => a \in Outstanding(r)
  BY AckFacts DEF Outstanding
<1>2. LeasedBy(A) \in SUBSET LeaseOf(r)
  BY <1>1 DEF LeasedBy, LeaseOf
<1>3. \A l \in LeasedBy(A) : l.term = generation[r] /\ l.mail \subseteq MailOf(r) \cap seen
  BY AckFacts DEF LeasedBy
<1>4. MailOf(r)' = MailOf(r)
  BY DEF Checking, mailVars, MailOf
<1>5. ReadWith(A) = read \cup UNION { l.mail : l \in LeasedBy(A) }
  <2>1. \A m : (\E a \in { b \in A : dStatus[b] = "outstanding" } : m \in dMsgs[a])
                 <=> \E l \in LeasedBy(A) : m \in l.mail
    <3>1. ASSUME NEW m, NEW a \in { b \in A : dStatus[b] = "outstanding" }, m \in dMsgs[a]
          PROVE  \E l \in LeasedBy(A) : m \in l.mail
      <4>1. [term |-> dGen[a], mail |-> dMsgs[a]] \in LeasedBy(A)
        BY DEF LeasedBy
      <4> QED BY <3>1, <4>1
    <3>2. ASSUME NEW m, NEW l \in LeasedBy(A), m \in l.mail
          PROVE  \E a \in { b \in A : dStatus[b] = "outstanding" } : m \in dMsgs[a]
      BY <3>2 DEF LeasedBy
    <3> QED BY <3>1, <3>2
  <2>2. \A m : m \in ReadWith(A) <=>
          m \in read \/ \E a \in { b \in A : dStatus[b] = "outstanding" } : m \in dMsgs[a]
    BY DEF ReadWith
  <2> QED BY <2>1, <2>2
<1>6. MailOf(r)' \cap read' = (MailOf(r) \cap read) \cup UNION { l.mail : l \in LeasedBy(A) }
  BY <1>3, <1>4, <1>5
<1> QED BY <1>2, <1>3, <1>6 DEF Mailbox!Acknowledge

\* What is left of the lease of the Run when A is acknowledged.
LEMMA LeaseLeft ==
  ASSUME RefineInv, NEW h \in Handle, NEW r \in Run, NEW A \in Ack(h), Checking(h, r, A)
  PROVE  LeaseOf(r) \ LeasedBy(A) =
           { [term |-> dGen[d], mail |-> dMsgs[d]] :
               d \in { e \in Delivery : dRun[e] = r /\ StatusWith(A)[e] = "outstanding" } }
<1>1. \A d \in Delivery : StatusWith(A)[d] = "outstanding" <=>
                            dStatus[d] = "outstanding" /\ d \notin A
  BY DEF StatusWith
<1>2. \A d, e \in Outstanding(r) : d = e
  BY DEF Outstanding, RefineInv, LeaseInv, LeaseIsCurrent
<1>3. \A a \in A : dStatus[a] = "outstanding" => a \in Outstanding(r)
  BY AckFacts DEF Outstanding
<1>4. { e \in Delivery : dRun[e] = r /\ StatusWith(A)[e] = "outstanding" } = Outstanding(r) \ A
  BY <1>1 DEF Outstanding
<1>5. CASE Outstanding(r) \subseteq A
  <2>1. LeaseOf(r) = LeasedBy(A)
    BY <1>3, <1>5 DEF LeaseOf, LeasedBy, Outstanding
  <2> QED BY <1>4, <1>5, <2>1
<1>6. CASE \E d \in Outstanding(r) : d \notin A
  <2>1. LeasedBy(A) = {}
    BY <1>2, <1>3, <1>6 DEF LeasedBy
  <2>2. Outstanding(r) \ A = Outstanding(r)
    BY <1>2, <1>6
  <2> QED BY <1>4, <2>1, <2>2 DEF LeaseOf
<1> QED BY <1>5, <1>6

\* A check that hands out nothing, or shows mail without a lease.
LEMMA CheckKeeps ==
  ASSUME RefineInv, NEW h \in Handle, NEW r \in Run, NEW A \in Ack(h), Checking(h, r, A),
         read' = ReadWith(A), dStatus' = StatusWith(A), UNCHANGED <<dRun, dGen, dMsgs>>,
         seen' = seen \/ seen' = seen \cup (Unread(r) \ ReadWith(A))
  PROVE  Mailbox(r)!Check
<1>1. LeasedBy(A) \in SUBSET LeaseOf(r) /\ Mailbox(r)!Acknowledge(LeasedBy(A))
  BY AcknowledgeStep
<1>2. LeaseOf(r)' = LeaseOf(r) \ LeasedBy(A)
  BY LeaseLeft DEF LeaseOf, Outstanding
<1>3. Mailbox(r)!Grant(LeasedBy(A))
  BY <1>2 DEF Mailbox!Grant
<1>4. MailOf(r)' = MailOf(r) /\ UNCHANGED <<msgType, generation>>
  BY DEF Checking, mailVars, MailOf
<1>5. Unread(r) \ ReadWith(A) = MailOf(r) \ (MailOf(r)' \cap read')
  BY <1>4 DEF Unread, MailOf, ReadWith
<1>6. Mailbox(r)!Show
  BY <1>4, <1>5 DEF Mailbox!Show
<1> QED BY <1>1, <1>3, <1>4, <1>6 DEF Mailbox!Check

\* Some messages are not many, and a batch takes the oldest of them.
LEMMA BatchOfSome ==
  ASSUME NEW S \in SUBSET Msg, S # {}
  PROVE  /\ Batch(S) \subseteq S /\ Batch(S) # {}
         /\ \A m \in S, b \in Batch(S) : m < b => m \in Batch(S)
<1> DEFINE Below(x) == { n \in S : n < x }
           Less == OpToRel(<, Nat)
<1>0. S \subseteq Nat /\ BatchLimit \in Nat \ {0}
  BY DEF Msg
<1>1. \A x \in S : IsFiniteSet(Below(x))
  <2>1. IsFiniteSet(Msg)
    BY FS_Interval DEF Msg
  <2> QED BY <2>1, FS_Subset
<1>2. Batch(S) # {}
  <2>1. \E x \in S : \A y \in S : ~ (<<y, x>> \in Less)
    BY <1>0, NatLessThanWellFounded, WFMin
  <2>2. PICK x \in S : \A y \in S : ~ (y < x)
    BY <1>0, <2>1 DEF OpToRel
  <2>3. Below(x) = {}
    BY <2>2
  <2>4. Cardinality(Below(x)) < BatchLimit
    BY <1>0, <2>3, FS_EmptySet
  <2> QED BY <2>4 DEF Batch
<1>3. ASSUME NEW m \in S, NEW b \in Batch(S), m < b PROVE m \in Batch(S)
  <2>1. b \in S /\ Cardinality(Below(b)) < BatchLimit
    BY DEF Batch
  <2>2. Below(m) \subseteq Below(b)
    <3>1. ASSUME NEW n \in S, n < m PROVE n < b
      <4>1. n \in Nat /\ m \in Nat /\ b \in Nat
        BY <1>0, <2>1
      <4> QED BY <1>3, <3>1, <4>1
    <3> QED BY <3>1
  <2>3. Cardinality(Below(m)) <= Cardinality(Below(b))
    BY <1>1, <2>1, <2>2, FS_Subset
  <2>4. Cardinality(Below(m)) \in Nat /\ Cardinality(Below(b)) \in Nat
    BY <1>1, <2>1, FS_CardinalityType
  <2>5. Cardinality(Below(m)) < BatchLimit
    BY <1>0, <2>1, <2>3, <2>4
  <2> QED BY <2>5 DEF Batch
<1> QED BY <1>2, <1>3 DEF Batch

\* A check that returns the Delivery d, the outstanding one or a new one.
LEMMA CheckReturns ==
  ASSUME RefineInv, LeaseInv', NEW h \in Handle, NEW r \in Run, NEW A \in Ack(h),
         Checking(h, r, A), NEW d \in Delivery, NEW wanted,
         \/ Replay(h, d, r, ReadWith(A), StatusWith(A))
         \/ Lease(h, d, r, ReadWith(A), StatusWith(A), wanted),
         Respond(h, d)
  PROVE  Mailbox(r)!Check
<1>0. TypeOK /\ read' = ReadWith(A)
  BY DEF RefineInv, Replay, Lease
<1>1. LeasedBy(A) \in SUBSET LeaseOf(r) /\ Mailbox(r)!Acknowledge(LeasedBy(A))
  BY <1>0, AcknowledgeStep
<1>2. MailOf(r)' = MailOf(r) /\ UNCHANGED <<msgType, generation>>
  BY DEF Checking, mailVars, MailOf
<1>3. d \in Outstanding(r)' /\ (Mailbox(r)!Grant(LeasedBy(A)))
  <2>1. CASE Replay(h, d, r, ReadWith(A), StatusWith(A))
    <3>1. dStatus' = StatusWith(A) /\ UNCHANGED <<dRun, dGen, dMsgs>>
          /\ dRun[d] = r /\ dStatus'[d] = "outstanding"
      BY <2>1 DEF Replay
    <3>2. LeaseOf(r)' = LeaseOf(r) \ LeasedBy(A)
      BY <3>1, LeaseLeft DEF LeaseOf, Outstanding
    <3> QED BY <3>1, <3>2 DEF Outstanding, Mailbox!Grant
  <2>2. CASE Lease(h, d, r, ReadWith(A), StatusWith(A), wanted)
    <3> DEFINE left == Unread(r) \ ReadWith(A)
    <3>1. /\ \A e \in Delivery : dRun[e] = r => StatusWith(A)[e] # "outstanding"
          /\ left # {}
          /\ dRun'[d] = r /\ dGen'[d] = generation[r] /\ dMsgs'[d] = Batch(left)
          /\ dStatus'[d] = "outstanding"
      <4>1. /\ \A e \in Delivery : dRun[e] = r => StatusWith(A)[e] # "outstanding"
            /\ \E m \in left : msgType[m] \in wanted
            /\ dRun' = [dRun EXCEPT ![d] = r]
            /\ dGen' = [dGen EXCEPT ![d] = check[h].gen]
            /\ dMsgs' = [dMsgs EXCEPT ![d] = Batch(left)]
            /\ dStatus' = [StatusWith(A) EXCEPT ![d] = "outstanding"]
        BY <2>2 DEF Lease
      <4> QED BY <1>0, <4>1 DEF TypeOK, StatusWith, Checking
    <3>2. LeaseOf(r) \ LeasedBy(A) = {}
      BY <3>1, LeaseLeft
    <3>3. d \in Outstanding(r)' /\ \A e \in Outstanding(r)' : e = d
      BY <3>1 DEF Outstanding, LeaseInv, LeaseIsCurrent
    <3>4. LeaseOf(r)' = {[term |-> generation[r], mail |-> Batch(left)]}
      BY <3>1, <3>3 DEF LeaseOf
    <3>5. left = MailOf(r) \ (MailOf(r)' \cap read')
      BY <1>0, <1>2 DEF Unread, MailOf, ReadWith
    <3>6. /\ Batch(left) \in SUBSET left /\ Batch(left) # {}
          /\ \A m \in left, b \in Batch(left) : m < b => m \in Batch(left)
      BY <3>1, BatchOfSome DEF Unread
    <3> QED BY <3>2, <3>3, <3>4, <3>5, <3>6 DEF Mailbox!Grant
  <2> QED BY <2>1, <2>2
<1>4. Mailbox(r)!Show
  <2>1. CASE UNCHANGED seen
    BY <1>2, <2>1 DEF Mailbox!Show
  <2>2. CASE seen' = seen \cup dMsgs'[d]
    <3>1. \A e \in Outstanding(r)' : e = d
      BY <1>3 DEF Outstanding, LeaseInv, LeaseIsCurrent
    <3>2. LeaseOf(r)' = {[term |-> dGen'[d], mail |-> dMsgs'[d]]}
      BY <1>3, <3>1 DEF LeaseOf
    <3>3. UNION { l.mail : l \in LeaseOf(r)' } = dMsgs'[d]
      BY <3>2
    <3>4. dMsgs'[d] \subseteq MailOf(r)
      <4>1. CASE Replay(h, d, r, ReadWith(A), StatusWith(A))
        <5>1. dMsgs' = dMsgs /\ dRun[d] = r /\ dStatus[d] # "absent" /\ d <= created
          BY <4>1 DEF Replay, StatusWith, RefineInv, LeaseInv, DeliveryInv
        <5> QED BY <1>0, <5>1 DEF RefineInv, LeaseInv, DeliveryInv, BoxInv, Boxed, MailOf, TypeOK
      <4>2. CASE Lease(h, d, r, ReadWith(A), StatusWith(A), wanted)
        <5>1. dMsgs'[d] = Batch(Unread(r) \ ReadWith(A))
          BY <1>0, <4>2 DEF Lease, TypeOK
        <5> QED BY <5>1 DEF Batch, Unread, MailOf
      <4> QED BY <4>1, <4>2
    <3> QED BY <1>2, <2>2, <3>3, <3>4 DEF Mailbox!Show
  <2> QED BY <2>1, <2>2 DEF Respond
<1> QED BY <1>1, <1>2, <1>3, <1>4 DEF Mailbox!Check

\* To the other Runs, a check is nothing.
LEMMA OthersArrive ==
  ASSUME RefineInv, NEW h \in Handle, NEW r \in Run, NEW A \in Ack(h), Checking(h, r, A),
         read' = ReadWith(A), seen \subseteq seen',
         \A m \in seen' \ seen : m \in Msg /\ msgRun[m] = r,
         NEW d, \A e \in Delivery \ {d} : /\ dRun'[e] = dRun[e] /\ dGen'[e] = dGen[e]
                                         /\ dMsgs'[e] = dMsgs[e]
                                         /\ dStatus'[e] = StatusWith(A)[e],
         d \in Delivery => dRun[d] \notin Run \ {r} /\ dRun'[d] \notin Run \ {r},
         NEW q \in Run \ {r}
  PROVE  Mailbox(q)!Arrive
<1>1. \A e \in Delivery : dRun[e] = q => StatusWith(A)[e] = dStatus[e]
  BY AckFacts DEF StatusWith
<1>2. Outstanding(q)' = Outstanding(q)
  BY <1>1 DEF Outstanding
<1>3. \A e \in Outstanding(q) : e \in Delivery \ {d}
  BY DEF Outstanding
<1>4. LeaseOf(q)' = LeaseOf(q)
  BY <1>2, <1>3 DEF LeaseOf
<1>5. Stays
  BY DEF Checking, mailVars, Stays
<1>6. \A m \in read' : m \in read \/ msgRun[m] = r
  BY AckFacts DEF ReadWith, MailOf
<1>7. read \subseteq read'
  BY DEF ReadWith
<1> QED BY <1>4, <1>5, <1>6, <1>7, ArriveStep DEF Checking, mailVars

\* A check of the consumer of r, as the mailboxes see it.
Checked(r) == (Mailbox(r)!Check) /\ \A q \in Run \ {r} : Mailbox(q)!Arrive

LEMMA CheckKept ==
  ASSUME RefineInv, NEW h \in Handle, NEW r \in Run, NEW A \in Ack(h), Checking(h, r, A),
         read' = ReadWith(A), dStatus' = StatusWith(A), UNCHANGED <<dRun, dGen, dMsgs>>,
         seen' = seen \/ seen' = seen \cup (Unread(r) \ ReadWith(A))
  PROVE  Checked(r)
<1>1. seen \subseteq seen' /\ \A m \in seen' \ seen : m \in Msg /\ msgRun[m] = r
  BY DEF Unread
<1>2. 0 \notin Delivery
  BY DEF Delivery
<1>3. \A q \in Run \ {r} : Mailbox(q)!Arrive
  BY <1>1, <1>2, OthersArrive
<1> QED BY <1>3, CheckKeeps DEF Checked

LEMMA CheckReturned ==
  ASSUME RefineInv, LeaseInv', NEW h \in Handle, NEW r \in Run, NEW A \in Ack(h),
         Checking(h, r, A), NEW d \in Delivery, NEW wanted,
         \/ Replay(h, d, r, ReadWith(A), StatusWith(A))
         \/ Lease(h, d, r, ReadWith(A), StatusWith(A), wanted),
         Respond(h, d)
  PROVE  Checked(r)
<1>1. TypeOK /\ read' = ReadWith(A)
  BY DEF RefineInv, Replay, Lease
<1>2. /\ \A e \in Delivery \ {d} : /\ dRun'[e] = dRun[e] /\ dGen'[e] = dGen[e]
                                   /\ dMsgs'[e] = dMsgs[e] /\ dStatus'[e] = StatusWith(A)[e]
      /\ dRun[d] \notin Run \ {r} /\ dRun'[d] = r
      /\ \A m \in dMsgs'[d] : m \in Msg /\ msgRun[m] = r
  <2>1. CASE Replay(h, d, r, ReadWith(A), StatusWith(A))
    <3>1. /\ dStatus' = StatusWith(A) /\ UNCHANGED <<dRun, dGen, dMsgs>> /\ dRun[d] = r
          /\ dStatus[d] # "absent"
      BY <2>1 DEF Replay, StatusWith, RefineInv, LeaseInv, DeliveryInv
    <3> QED BY <1>1, <3>1 DEF RefineInv, LeaseInv, DeliveryInv, TypeOK
  <2>2. CASE Lease(h, d, r, ReadWith(A), StatusWith(A), wanted)
    <3>1. /\ d = created + 1
          /\ dRun' = [dRun EXCEPT ![d] = r]
          /\ dGen' = [dGen EXCEPT ![d] = check[h].gen]
          /\ dMsgs' = [dMsgs EXCEPT ![d] = Batch(Unread(r) \ ReadWith(A))]
          /\ dStatus' = [StatusWith(A) EXCEPT ![d] = "outstanding"]
      BY <2>2 DEF Lease
    <3>2. dRun[d] = NoRun
      <4>1. ~(d <= created)
        BY <1>1, <3>1 DEF TypeOK
      <4> QED BY <4>1 DEF RefineInv, LeaseInv, DeliveryInv
    <3>3. Batch(Unread(r) \ ReadWith(A)) \subseteq { m \in Msg : msgRun[m] = r }
      BY DEF Batch, Unread
    <3> QED BY <1>1, <3>1, <3>2, <3>3 DEF TypeOK, StatusWith
  <2> QED BY <2>1, <2>2
<1>3. seen \subseteq seen' /\ \A m \in seen' \ seen : m \in Msg /\ msgRun[m] = r
  BY <1>2 DEF Respond
<1>4. \A q \in Run \ {r} : Mailbox(q)!Arrive
  BY <1>1, <1>2, <1>3, OthersArrive
<1> QED BY <1>4, CheckReturns DEF Checked

-----------------------------------------------------------------------------
(***************************************************************************)
(* The steps of RunMailbox.                                                *)
(***************************************************************************)
LEMMA Inserted ==
  ASSUME TypeOK, MessageInv, NEW m, NEW r \in Run, NEW ty, Insert(m, r, ty)
  PROVE  /\ m \in Msg /\ m \notin read /\ sent <= sent'
         /\ msgType' = [msgType EXCEPT ![m] = ty]
         /\ \A k \in Msg : k <= sent =>
              k # m /\ msgRun'[k] = msgRun[k] /\ msgType'[k] = msgType[k]
  BY DEF Insert, MessageInv, TypeOK, Msg

\* Mail stays where it is, or is moved to the mailbox of its Run.
LEMMA StaysStep == TypeOK /\ MessageInv /\ [Next]_vars => Stays /\ sent <= sent'
<1> SUFFICES ASSUME TypeOK, MessageInv, [Next]_vars PROVE Stays /\ sent <= sent'
  OBVIOUS
<1>1. ASSUME UNCHANGED <<mailVars, box>> PROVE Stays /\ sent <= sent'
  BY <1>1 DEF Stays, mailVars, TypeOK
<1>2. ASSUME NEW S, Route(S), UNCHANGED mailVars PROVE Stays /\ sent <= sent'
  BY <1>2 DEF Stays, Route, mailVars, TypeOK
<1>3. CASE RunStep
  BY <1>1, <1>2, <1>3 DEF RunStep, CreateRun, BindRun, Assign
<1>4. CASE MailStep
  <2>1. ASSUME NEW r \in Run, NEW a \in Handle \cup {"run"}, NEW ty \in Type, Send(r, a, ty)
        PROVE  Stays /\ sent <= sent'
    <3>1. Insert(sent + 1, r, ty) /\ \A k \in Msg \ {sent + 1} : box[k] = "run" => box'[k] = "run"
      BY <2>1 DEF Send
    <3> QED BY <3>1, Inserted DEF Stays
  <2>2. ASSUME NEW r \in Run, NEW a, SendLateHeartbeat(r, a) PROVE Stays /\ sent <= sent'
    <3>1. Insert(sent + 1, r, "heartbeat") /\ \A k \in Msg \ {sent + 1} : box'[k] = box[k]
      BY <2>2 DEF SendLateHeartbeat, TypeOK
    <3> QED BY <3>1, Inserted DEF Stays
  <2>3. ASSUME NEW h \in Handle, Forward(h) PROVE Stays /\ sent <= sent'
    BY <1>2, <2>3 DEF Forward
  <2>4. ASSUME NEW h, CheckDirect(h) \/ Reply(h) PROVE Stays /\ sent <= sent'
    BY <1>1, <2>4 DEF CheckDirect, Reply
  <2> QED BY <1>4, <2>1, <2>2, <2>3, <2>4 DEF MailStep
<1>5. ASSUME NEW h \in Handle, CheckStep(h) PROVE Stays /\ sent <= sent'
  <2>1. ASSUME NEW r \in Run, CheckBegin(h, r) PROVE Stays /\ sent <= sent'
    BY <1>2, <2>1 DEF CheckBegin
  <2> QED BY <1>1, <1>5, <2>1 DEF CheckStep, CheckRead, CheckShow, CheckNothing, CheckWoken,
                                  CheckEnds
<1>6. CASE Crash \/ UNCHANGED vars
  BY <1>1, <1>6 DEF Crash, vars, mailVars
<1> QED BY <1>3, <1>4, <1>5, <1>6 DEF Next

\* What is shown, or leased anew, was in the mailbox.
LEMMA BoxStep == RefineInv /\ [Next]_vars => BoxInv'
<1> SUFFICES ASSUME RefineInv, [Next]_vars PROVE BoxInv'
  OBVIOUS
<1>0. TypeOK /\ TypeOK' /\ MessageInv /\ Stays /\ sent <= sent'
  BY TypeStep, StaysStep DEF RefineInv
<1>1. Boxed \subseteq Boxed'
  BY <1>0 DEF Boxed, Stays, TypeOK, Msg
<1>2. ASSUME seen' \subseteq seen \cup Boxed,
             \A d \in Delivery : dStatus'[d] # "absent" =>
               (dStatus[d] # "absent" /\ dMsgs'[d] = dMsgs[d]) \/ dMsgs'[d] \subseteq Boxed
      PROVE  BoxInv'
  BY <1>1, <1>2 DEF RefineInv, BoxInv
<1>3. \A r \in Run : Unread(r) \subseteq Boxed
  BY <1>0, MailIsStored DEF Unread, MailOf, Boxed
<1>4. ASSUME UNCHANGED <<seen, dMsgs>>,
             \A d \in Delivery : dStatus'[d] # "absent" => dStatus[d] # "absent"
      PROVE  BoxInv'
  BY <1>2, <1>4
<1>5. ASSUME NEW h \in Handle, NEW A \in Ack(h), \A a \in A : Acceptable(h, a), check[h].run \in Run
      PROVE  \A d \in Delivery : StatusWith(A)[d] # "absent" => dStatus[d] # "absent"
  BY <1>0, <1>5, AckSound DEF RefineInv, Sound
<1>6. ASSUME NEW h \in Handle, NEW d \in Delivery, NEW r \in Run, NEW rd, NEW wanted,
             NEW st \in [Delivery -> {"absent", "outstanding", "acknowledged", "fenced"}],
             \A e \in Delivery : st[e] # "absent" => dStatus[e] # "absent",
             Replay(h, d, r, rd, st) \/ Lease(h, d, r, rd, st, wanted), Respond(h, d)
      PROVE  BoxInv'
  <2>1. CASE Replay(h, d, r, rd, st)
    <3>1. dMsgs' = dMsgs /\ dStatus' = st /\ st[d] # "absent"
      BY <2>1 DEF Replay
    <3>2. dMsgs'[d] \subseteq Boxed
      BY <1>6, <3>1 DEF RefineInv, BoxInv
    <3> QED BY <1>2, <1>6, <3>1, <3>2 DEF Respond
  <2>2. CASE Lease(h, d, r, rd, st, wanted)
    <3>1. /\ dMsgs' = [dMsgs EXCEPT ![d] = Batch(Unread(r) \ rd)]
          /\ dStatus' = [st EXCEPT ![d] = "outstanding"]
      BY <2>2 DEF Lease
    <3>2. dMsgs'[d] \subseteq Boxed
      BY <1>0, <1>3, <3>1 DEF Batch, TypeOK
    <3>3. \A e \in Delivery \ {d} : dMsgs'[e] = dMsgs[e] /\ dStatus'[e] = st[e]
      BY <1>0, <3>1 DEF TypeOK
    <3> QED BY <1>2, <1>6, <3>2, <3>3 DEF Respond
  <2> QED BY <1>6, <2>1, <2>2
<1>7. CASE RunStep
  BY <1>4, <1>7 DEF RunStep, CreateRun, BindRun, Assign, Fence, deliveryVars
<1>8. CASE MailStep
  BY <1>4, <1>8 DEF MailStep, Send, SendLateHeartbeat, Forward, CheckDirect, Reply, deliveryVars
<1>9. ASSUME NEW h \in Handle, CheckStep(h) PROVE BoxInv'
  <2>1. check[h].phase # "idle" => check[h].run \in Run
    BY DEF RefineInv, CheckInv
  <2>2. CASE (\E r \in Run : CheckBegin(h, r)) \/ CheckEnds(h)
    BY <1>4, <2>2 DEF CheckBegin, CheckEnds, deliveryVars
  <2>3. ASSUME NEW A \in Ack(h), CheckRead(h, A) PROVE BoxInv'
    BY <1>0, <1>5, <1>6, <2>1, <2>3, AckType DEF CheckRead
  <2>4. ASSUME NEW A \in Ack(h), CheckShow(h, A) PROVE BoxInv'
    BY <1>2, <1>3, <1>5, <2>1, <2>4 DEF CheckShow
  <2>5. ASSUME NEW A \in Ack(h), NEW wanted, CheckNothing(h, A, wanted) PROVE BoxInv'
    BY <1>4, <1>5, <2>1, <2>5 DEF CheckNothing
  <2>6. CASE CheckWoken(h)
    <3>1. CASE UNCHANGED <<read, deliveryVars, received, seen>>
      BY <1>4, <3>1 DEF deliveryVars
    <3>2. ASSUME NEW d \in Delivery,
                 \/ Replay(h, d, check[h].run, read, dStatus)
                 \/ Lease(h, d, check[h].run, read, dStatus, check[h].types),
                 Respond(h, d)
          PROVE  BoxInv'
      BY <1>0, <1>6, <2>1, <2>6, <3>2 DEF CheckWoken, TypeOK
    <3> QED BY <2>6, <3>1, <3>2 DEF CheckWoken
  <2> QED BY <1>9, <2>2, <2>3, <2>4, <2>5, <2>6 DEF CheckStep
<1>10. CASE Crash \/ UNCHANGED vars
  BY <1>4, <1>10 DEF Crash, vars, deliveryVars
<1> QED BY <1>7, <1>8, <1>9, <1>10 DEF Next

\* Another consumer for the Runs R, and forwarded mail.
LEMMA ConsumersChange ==
  ASSUME RefineInv, Stays, NEW R \in SUBSET Run, Fence(R), NEW S, Route(S), S \cap read = {},
         UNCHANGED <<read, seen, dRun, dGen, dMsgs>>,
         \A q \in Run : generation'[q] = IF q \in R THEN generation[q] + 1 ELSE generation[q],
         NEW r \in Run
  PROVE  Mailbox(r)!Next
<1>1. \A m \in Msg : box'[m] = "run" /\ m \in read => box[m] = "run"
  BY DEF Route
<1>2. CASE r \in R
  <2>1. \A d \in Delivery : dRun[d] = r => dStatus'[d] # "outstanding"
    BY <1>2 DEF Fence
  <2>2. Mailbox(r)!TakeOver
    BY <1>1, <1>2, <2>1, TakeOverStep
  <2> QED BY <2>2 DEF Mailbox!Next
<1>3. CASE r \notin R
  <2>1. \A d \in Delivery : dRun[d] = r =>
          (dStatus'[d] = "outstanding" <=> dStatus[d] = "outstanding")
    BY <1>3 DEF Fence
  <2>2. LeaseOf(r)' = LeaseOf(r)
    BY <2>1, LeaseKept
  <2>3. Mailbox(r)!Arrive
    BY <1>1, <1>3, <2>2, ArriveStep
  <2> QED BY <2>3 DEF Mailbox!Next
<1> QED BY <1>2, <1>3

LEMMA RunStepRefines ==
  ASSUME RefineInv, Stays, RunStep, NEW q \in Run
  PROVE  Mailbox(q)!Next
<1>0. TypeOK /\ CheckInv
  BY DEF RefineInv
<1>1. \A r, H : Direct(r, H) \cap read = {}
  BY DEF Direct
<1>2. \A h, r : Forsaken(h, r) \cap read = {}
  BY <1>1 DEF Forsaken
<1>3. ASSUME NEW r \in Run, NEW h \in Handle, CreateRun(r, h) PROVE Mailbox(q)!Next
  <2>1. \A d \in Delivery : dRun[d] = r => dStatus[d] # "outstanding"
    BY <1>0, <1>3 DEF CreateRun, Exists, RefineInv, LeaseInv, LeaseIsCurrent, CheckInv
  <2>2. Fence(Others(h, r) \cup {r})
    BY <1>3, <2>1 DEF CreateRun, Fence
  <2>3. \A p \in Run : generation'[p] =
          IF p \in Others(h, r) \cup {r} THEN generation[p] + 1 ELSE generation[p]
    BY <1>0, <1>3 DEF CreateRun, Exists, TypeOK
  <2>4. Others(h, r) \cup {r} \in SUBSET Run
    BY DEF Others
  <2>5. Route(Forsaken(h, r)) /\ UNCHANGED <<read, seen, dRun, dGen, dMsgs>>
    BY <1>3 DEF CreateRun
  <2> QED BY <1>2, <2>2, <2>3, <2>4, <2>5, ConsumersChange
<1>4. ASSUME NEW r \in Run, NEW h \in Handle, BindRun(r, h) PROVE Mailbox(q)!Next
  <2>1. PICK R : R = Others(h, r) \cup (IF coordinator[r] = h THEN {} ELSE {r})
    OBVIOUS
  <2>2. Fence(R) /\ R \in SUBSET Run
    BY <1>4, <2>1 DEF BindRun, Others
  <2>3. \A p \in Run : generation'[p] = IF p \in R THEN generation[p] + 1 ELSE generation[p]
    BY <1>4, <2>1 DEF BindRun
  <2>4. PICK S : S = Forsaken(h, r) \cup Direct(r, {coordinator[r], h})
    OBVIOUS
  <2>5. Route(S) /\ S \cap read = {} /\ UNCHANGED <<read, seen, dRun, dGen, dMsgs>>
    BY <1>1, <1>2, <1>4, <2>4 DEF BindRun
  <2> QED BY <2>2, <2>3, <2>5, ConsumersChange
<1>5. ASSUME NEW r \in Run, NEW h \in Handle, Assign(r, h) PROVE Mailbox(q)!Next
  <2>1. Mailbox(q)!Arrive
    BY <1>5, AllArrive DEF Assign, runVars, deliveryVars
  <2> QED BY <2>1 DEF Mailbox!Next
<1> QED BY <1>3, <1>4, <1>5 DEF RunStep

LEMMA MailStepRefines ==
  ASSUME "unsolicited" \notin Ops, RefineInv, Stays, MailStep, NEW q \in Run
  PROVE  Mailbox(q)!Next
<1>0. TypeOK /\ MessageInv
  BY DEF RefineInv
<1>1. ASSUME NEW r \in Run, NEW a \in Handle \cup {"run"}, NEW ty \in Type, Send(r, a, ty)
      PROVE  Mailbox(q)!Arrive
  <2>1. PICK H \in SUBSET Heartbeats(r, Entry(r, a)) :
          /\ read' = read \cup H
          /\ \A k \in Msg \ {sent + 1} : box'[k] = "run" =>
               box[k] = "run" \/ k \in Forwardable(a) \ H
    BY <1>1 DEF Send
  <2>2. Insert(sent + 1, r, ty)
    BY <1>1 DEF Send
  <2>3. \A k \in read : k \in Msg \ {sent + 1} /\ k \notin Forwardable(a)
    BY <1>0, <2>2, Inserted DEF Forwardable, Direct, TypeOK
  <2>4. \A k \in H : msgType'[k] = "heartbeat"
    <3>1. \A k \in H : k \in Msg /\ msgRun[k] = r /\ msgType[k] = "heartbeat"
      BY <2>1 DEF Heartbeats
    <3>2. \A k \in H : k <= sent
      BY <1>0, <3>1 DEF MessageInv, TypeOK, Msg
    <3> QED BY <1>0, <2>2, <3>1, <3>2, Inserted
  <2> QED BY <1>1, <2>1, <2>3, <2>4, AllArrive DEF Send, runVars, deliveryVars
<1>2. ASSUME NEW r \in Run, NEW a, SendLateHeartbeat(r, a) PROVE Mailbox(q)!Arrive
  <2>1. Insert(sent + 1, r, "heartbeat")
    BY <1>2 DEF SendLateHeartbeat
  <2>2. sent + 1 \in Msg /\ sent + 1 \notin read /\ msgType'[sent + 1] = "heartbeat"
    <3>1. /\ sent + 1 \in Msg /\ sent + 1 \notin read
          /\ msgType' = [msgType EXCEPT ![sent + 1] = "heartbeat"]
      BY <1>0, <2>1, Inserted
    <3> QED BY <1>0, <3>1 DEF TypeOK
  <2>3. \A k \in read : box'[k] = box[k]
    BY <1>0, <1>2, <2>2 DEF SendLateHeartbeat, TypeOK
  <2> QED BY <1>2, <2>2, <2>3, AllArrive DEF SendLateHeartbeat, runVars, deliveryVars
<1>3. ASSUME NEW h \in Handle, Forward(h) PROVE Mailbox(q)!Arrive
  <2>1. \A k \in read : k \notin Forwardable(h)
    BY DEF Forwardable, Direct
  <2> QED BY <1>0, <1>3, <2>1, AllArrive DEF Forward, Route, runVars, deliveryVars
<1>4. ASSUME NEW h \in Handle, CheckDirect(h) PROVE Mailbox(q)!Arrive
  <2>1. \A k \in read' : k \in read \/ box[k] = h
    BY <1>4 DEF CheckDirect
  <2>2. read \subseteq read' /\ h # "run"
    BY <1>4 DEF CheckDirect
  <2> QED BY <1>4, <2>1, <2>2, AllArrive DEF CheckDirect, runVars, deliveryVars
<1>5. ASSUME NEW m \in Msg, Reply(m) PROVE (Mailbox(q)!Reply) \/ (Mailbox(q)!Arrive)
  <2>0. UNCHANGED <<generation, seen, dRun, dGen, dMsgs, dStatus, msgRun, msgType, box>>
        /\ read' = read \cup {m} /\ m \in seen
    BY <1>5 DEF Reply, runVars, mailVars, deliveryVars
  <2>1. LeaseOf(q)' = LeaseOf(q)
    BY <2>0, LeaseKept
  <2>2. CASE msgRun[m] = q
    <3>1. m \in MailOf(q) \cap seen
      BY <2>0, <2>2 DEF RefineInv, BoxInv, Boxed, MailOf
    <3>2. MailOf(q)' = MailOf(q)
      BY <2>0 DEF MailOf
    <3>3. MailOf(q)' \cap read' = (MailOf(q) \cap read) \cup {m}
      BY <2>0, <3>1, <3>2
    <3> QED BY <2>0, <2>1, <3>1, <3>2, <3>3 DEF Mailbox!Reply
  <2>3. CASE msgRun[m] # q
    BY <2>0, <2>1, <2>3, ArriveStep
  <2> QED BY <2>2, <2>3
<1> QED BY <1>1, <1>2, <1>3, <1>4, <1>5 DEF MailStep, Mailbox!Next

LEMMA CheckStepRefines ==
  ASSUME RefineInv, LeaseInv', Stays, NEW h \in Handle, CheckStep(h), NEW q \in Run
  PROVE  Mailbox(q)!Next
<1>0. TypeOK
  BY DEF RefineInv
<1>1. ASSUME NEW r \in Run, Checked(r) PROVE Mailbox(q)!Next
  BY <1>1 DEF Checked, Mailbox!Next
<1>2. check[h].phase # "idle" =>
        check[h].run \in Run /\ check[h].gen <= generation[check[h].run]
  BY DEF RefineInv, CheckInv
<1>3. ASSUME NEW r \in Run, CheckBegin(h, r) PROVE Mailbox(q)!Arrive
  <2>1. \A k \in read : k \notin Direct(r, {h, coordinator[r]})
    BY DEF Direct
  <2> QED BY <1>0, <1>3, <2>1, AllArrive DEF CheckBegin, Route, runVars, deliveryVars
<1>4. ASSUME UNCHANGED <<runVars, mailVars, box, read, deliveryVars, seen>>
      PROVE  Mailbox(q)!Arrive
  BY <1>4, AllArrive DEF runVars, deliveryVars
<1>5. ASSUME NEW A \in Ack(h), CheckRead(h, A) PROVE Mailbox(q)!Next
  <2>1. check[h].run \in Run /\ Checking(h, check[h].run, A)
    BY <1>2, <1>5 DEF CheckRead, Current, Checking, runVars
  <2>2. PICK d \in Delivery :
          /\ \/ Replay(h, d, check[h].run, ReadWith(A), StatusWith(A))
             \/ Lease(h, d, check[h].run, ReadWith(A), StatusWith(A), Type)
          /\ Respond(h, d)
    BY <1>5 DEF CheckRead
  <2> QED BY <1>1, <2>1, <2>2, CheckReturned
<1>6. ASSUME NEW A \in Ack(h), CheckShow(h, A) \/ \E wanted : CheckNothing(h, A, wanted)
      PROVE  Mailbox(q)!Next
  <2>1. check[h].run \in Run /\ Checking(h, check[h].run, A)
    BY <1>2, <1>6 DEF CheckShow, CheckNothing, Current, Checking, runVars
  <2>2. /\ read' = ReadWith(A) /\ dStatus' = StatusWith(A) /\ UNCHANGED <<dRun, dGen, dMsgs>>
        /\ seen' = seen \/ seen' = seen \cup (Unread(check[h].run) \ ReadWith(A))
    BY <1>6 DEF CheckShow, CheckNothing
  <2> QED BY <1>1, <2>1, <2>2, CheckKept
<1>7. CASE CheckWoken(h)
  <2>1. UNCHANGED <<runVars, mailVars, box>> /\ check[h].run \in Run
        /\ check[h].gen = generation[check[h].run]
    BY <1>2, <1>7 DEF CheckWoken
  <2>2. CASE UNCHANGED <<read, deliveryVars, received, seen>>
    BY <1>4, <2>1, <2>2 DEF Mailbox!Next
  <2>3. ASSUME NEW d \in Delivery,
               \/ Replay(h, d, check[h].run, read, dStatus)
               \/ Lease(h, d, check[h].run, read, dStatus, check[h].types),
               Respond(h, d)
        PROVE  Mailbox(q)!Next
    <3>1. {} \in Ack(h) /\ ReadWith({}) = read
      BY DEF Ack, ReadWith
    <3>2. StatusWith({}) = dStatus
      BY <1>0 DEF StatusWith, TypeOK
    <3>3. Checking(h, check[h].run, {})
      BY <2>1 DEF Checking, runVars
    <3> QED BY <1>1, <2>1, <2>3, <3>1, <3>2, <3>3, CheckReturned
  <2> QED BY <1>7, <2>2, <2>3 DEF CheckWoken
<1>8. CASE CheckEnds(h)
  BY <1>4, <1>8 DEF CheckEnds, Mailbox!Next
<1> QED BY <1>3, <1>5, <1>6, <1>7, <1>8 DEF CheckStep, Mailbox!Next

LEMMA InitRefines == Init => BoxInv /\ \A r \in Run : Mailbox(r)!Init
<1>1. Init => BoxInv
  BY DEF Init, BoxInv
<1>2. ASSUME Init, NEW r \in Run PROVE Mailbox(r)!Init
  <2>1. MailOf(r) = {} /\ LeaseOf(r) = {}
    BY <1>2 DEF Init, MailOf, LeaseOf, Outstanding
  <2> QED BY <1>2, <2>1 DEF Init, Mailbox!Init
<1> QED BY <1>1, <1>2

LEMMA StepRefines ==
  ASSUME "unsolicited" \notin Ops
  PROVE  RefineInv /\ [Next]_vars => [\A r \in Run : [Mailbox(r)!Next]_(Mailbox(r)!mailbox)]_vars
<1> SUFFICES ASSUME RefineInv, Next
             PROVE  \A r \in Run : Mailbox(r)!Next
  OBVIOUS
<1>1. LeaseInv' /\ Stays
  BY LeaseStep, StaysStep DEF RefineInv
<1>2. CASE Crash
  BY <1>1, <1>2, AllArrive DEF Crash, runVars, deliveryVars, Mailbox!Next
<1> QED BY <1>1, <1>2, RunStepRefines, MailStepRefines, CheckStepRefines DEF Next

\* The tables and handlers keep the promise of LeasedMailbox to the consumers
\* of every Run: whatever calls, takeovers, lost responses and crashes come,
\* mail leaves a consumer's duty only as the promise says, as long as agents
\* reply only to mail that was shown.
THEOREM RunMailboxIsLeased ==
  ASSUME "unsolicited" \notin Ops
  PROVE  Spec => MailboxSpec
<1>1. Init => BoxInv /\ \A r \in Run : Mailbox(r)!Init
  BY InitRefines
<1>2. RefineInv /\ [Next]_vars => BoxInv'
  BY BoxStep
<1>3. RefineInv /\ [Next]_vars => [\A r \in Run : [Mailbox(r)!Next]_(Mailbox(r)!mailbox)]_vars
  BY StepRefines
<1> QED BY <1>1, <1>2, <1>3, DeliveriesAreSound, PTL DEF Spec, MailboxSpec, RefineInv
=============================================================================
