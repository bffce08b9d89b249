---------------------------- MODULE RelayChannel ----------------------------
(***************************************************************************)
(* What one direction of the federation relay promises: messages are       *)
(* queued in order, and each is delivered to the other server once, in     *)
(* that order, whatever happens to the calls that carry it.  Until it is   *)
(* delivered, a queued message may give its place to a new one.            *)
(***************************************************************************)
EXTENDS Naturals, Sequences

CONSTANT Message

VARIABLES sent, delivered

channel == <<sent, delivered>>

Used == { sent[i] : i \in DOMAIN sent } \cup { delivered[i] : i \in DOMAIN delivered }

Init == sent = << >> /\ delivered = << >>

Send(m) ==
  /\ m \notin Used
  /\ sent' = Append(sent, m)
  /\ UNCHANGED delivered

Supersede(i, m) ==
  /\ i > Len(delivered)
  /\ m \notin Used
  /\ sent' = [sent EXCEPT ![i] = m]
  /\ UNCHANGED delivered

Deliver ==
  /\ Len(delivered) < Len(sent)
  /\ delivered' = Append(delivered, sent[Len(delivered) + 1])
  /\ UNCHANGED sent

Next ==
  \/ \E m \in Message : Send(m) \/ \E i \in DOMAIN sent : Supersede(i, m)
  \/ Deliver

Spec == Init /\ [][Next]_channel
=============================================================================
