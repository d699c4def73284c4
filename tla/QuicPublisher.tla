--------------------------- MODULE QuicPublisher ---------------------------
(***************************************************************************)
(* quic/publisher_quic.cpp: one process that publishes the events of one   *)
(* match in order, each with stop-and-wait retransmission.                 *)
(***************************************************************************)
EXTENDS QuicProtocol

VARIABLES
  pub,    \* pub[p]: where publish_with_ack is: pc, event number, attempt
  acked,  \* acked[p]: events whose "ACK recibido" line was printed
  lost    \* lost[p]: events whose "perdido tras ... intentos" line was printed

pubVars == <<pub, acked, lost>>

PubInit ==
  /\ pub = [p \in Publishers |-> [pc |-> "send", seq |-> 1, attempt |-> 0]]
  /\ acked = [p \in Publishers |-> {}]
  /\ lost = [p \in Publishers |-> {}]

PubTypeOK ==
  /\ pub \in [Publishers -> [pc : {"send", "wait", "done"},
                             seq : 1..(NumEvents + 1),
                             attempt : 0..SendRetries]]
  /\ \A p \in Publishers : pub[p].pc # "done" => pub[p].seq \in Seqs
  /\ acked \in [Publishers -> SUBSET Seqs]
  /\ lost \in [Publishers -> SUBSET Seqs]

---------------------------------------------------------------------------

(* Operators named X_<defect> are wrong variants of the X below them, each  *)
(* a bug this code could have: the runs must tell them from X.             *)

\* The loop of publish_events moves to its next event, or ends.
NextEvent(p) ==
  pub' = [pub EXCEPT ![p] =
            [pc |-> IF pub[p].seq = NumEvents THEN "done" ELSE "send",
             seq |-> pub[p].seq + 1, attempt |-> 0]]


Retry_OneMore(p) ==
  \/ /\ pub[p].attempt <= SendRetries
     /\ pub' = [pub EXCEPT ![p].pc = "send", ![p].attempt = @ + 1]
     /\ UNCHANGED lost
  \/ /\ pub[p].attempt > SendRetries
     /\ lost' = [lost EXCEPT ![p] = @ \cup {pub[p].seq}]
     /\ NextEvent(p)

\* "continue": the next attempt, or the end of publish_with_ack with false.
Retry(p) ==
  \/ /\ pub[p].attempt < SendRetries
     /\ pub' = [pub EXCEPT ![p].pc = "send", ![p].attempt = @ + 1]
     /\ UNCHANGED lost
  \/ /\ pub[p].attempt = SendRetries
     /\ lost' = [lost EXCEPT ![p] = @ \cup {pub[p].seq}]
     /\ NextEvent(p)

PubSend(p) ==
  /\ pub[p].pc = "send"
  /\ Transmit({Publish(p, pub[p].seq)})
  /\ pub' = [pub EXCEPT ![p].pc = "wait"]
  /\ UNCHANGED <<acked, lost>>

\* SO_RCVTIMEO expired: recvfrom returned -1.
PubTimeout(p) ==
  /\ pub[p].pc = "wait"
  /\ Retry(p)
  /\ UNCHANGED <<acked, net>>

\* recvfrom returned a packet.  Only the ACK of the current event ends the
\* wait; anything else, an ACK of an earlier event, costs an attempt.
PubReceive(p, pkt) ==
  /\ pub[p].pc = "wait"
  /\ pkt.type = "ACK" /\ pkt.peer = p
  /\ Exchange(pkt, {})
  /\ \/ /\ pkt.num = pub[p].seq
        /\ acked' = [acked EXCEPT ![p] = @ \cup {pkt.num}]
        /\ NextEvent(p)
        /\ UNCHANGED lost
     \/ /\ pkt.num # pub[p].seq
        /\ Retry(p)
        /\ UNCHANGED acked

PubStep(p) ==
  \/ PubTimeout(p)
  \/ \E pkt \in net : PubReceive(p, pkt)
===========================================================================
