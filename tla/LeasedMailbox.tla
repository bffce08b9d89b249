--------------------------- MODULE LeasedMailbox ---------------------------
(***************************************************************************)
(* What the mailbox of one Run promises its consumers, who take turns:     *)
(* mail stays until it is done; the oldest mail is leased, one batch at a  *)
(* time, to the consumer of the present term, and a new consumer starts a  *)
(* new term and ends the lease; mail is done when the consumer it is       *)
(* leased to has been shown it and acknowledges all of it, or when         *)
(* somebody who was shown a message answers it.  Only a heartbeat may be   *)
(* done unseen.                                                            *)
(***************************************************************************)
EXTENDS Naturals

VARIABLES
  mail,   \* the messages that have reached the mailbox, numbered by age
  beats,  \* those of them that are heartbeats
  done,   \* those nobody has to look at any more
  shown,  \* those somebody was shown
  term,   \* number of the consumer
  lease   \* what is leased and in which term: one record or none

mailbox == <<mail, beats, done, shown, term, lease>>

Init ==
  /\ mail = {} /\ beats = {} /\ done = {} /\ shown = {}
  /\ term = 0
  /\ lease = {}

\* Mail stays, and so does what is a heartbeat.
Gain ==
  /\ mail \subseteq mail'
  /\ beats' \cap mail = beats

\* Mail arrives, some of it in place of heartbeats.
Arrive ==
  /\ Gain
  /\ done \subseteq done' /\ done' \subseteq done \cup beats'
  /\ UNCHANGED <<shown, term, lease>>

\* Another consumer takes over, or nobody; mail may be forwarded to the mailbox.
TakeOver ==
  /\ Gain
  /\ term' = term + 1
  /\ lease' = {}
  /\ UNCHANGED <<done, shown>>

\* The consumer acknowledges what it was leased and shown, ...
Acknowledge(L) ==
  /\ \A l \in L : l.term = term /\ l.mail \subseteq shown
  /\ done' = done \cup UNION { l.mail : l \in L }

\* ... may be leased the oldest mail, if nothing is left of the old lease, ...
Grant(L) ==
  \/ lease' = lease \ L
  \/ /\ lease \ L = {}
     /\ \E B \in SUBSET (mail \ done') :
          /\ B # {}
          /\ \A m \in mail \ done', b \in B : m < b => m \in B
          /\ lease' = {[term |-> term, mail |-> B]}

\* ... and is shown what is leased, or all there is, or the response is lost.
Show ==
  \/ shown' = shown \cup UNION { l.mail : l \in lease' }
  \/ shown' = shown \cup (mail \ done')
  \/ shown' = shown

Check ==
  /\ \E L \in SUBSET lease : Acknowledge(L) /\ Grant(L)
  /\ Show
  /\ UNCHANGED <<mail, beats, term>>

\* Somebody answers a message.
Reply ==
  /\ \E m \in shown : done' = done \cup {m}
  /\ UNCHANGED <<mail, beats, shown, term, lease>>

Next == Arrive \/ TakeOver \/ Check \/ Reply

Spec == Init /\ [][Next]_mailbox
=============================================================================
