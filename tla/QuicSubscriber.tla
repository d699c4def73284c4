-------------------------- MODULE QuicSubscriber --------------------------
(***************************************************************************)
(* quic/subscriber_quic.cpp: one process that subscribes to its matches    *)
(* one after the other and then listens, reordering what it receives.      *)
(* drain_buffer is read from its call and its body: its header line is     *)
(* missing from the file.                                                  *)
(***************************************************************************)
EXTENDS QuicProtocol

VARIABLES
  sub,            \* sub[s]: pc, position in Wants[s], attempt
  subscriptions,  \* the matches reported "Suscrito a"
  recv_buffer,    \* partial function from seq to the line to show
  delivered,      \* seqs already shown
  next_seq,       \* next seq to show
  shown           \* the "ACTUALIZACION" lines printed, in order

subVars == <<sub, subscriptions, recv_buffer, delivered, next_seq, shown>>

Lines == [topic : Topics, body : Events]
Line(pkt) == [topic |-> pkt.topic, body |-> pkt.body]

SubInit ==
  /\ sub = [s \in Subscribers |->
              [pc |-> IF Wants[s] = <<>> THEN "listen" ELSE "send",
               idx |-> 1, attempt |-> 0]]
  /\ subscriptions = [s \in Subscribers |-> <<>>]
  /\ recv_buffer = [s \in Subscribers |-> [k \in {} |-> <<>>]]
  /\ delivered = [s \in Subscribers |-> {}]
  /\ next_seq = [s \in Subscribers |-> 1]
  /\ shown = [s \in Subscribers |-> <<>>]

SubTypeOK ==
  /\ sub \in [Subscribers -> [pc : {"send", "wait", "listen", "down"},
                              idx : Nat \ {0}, attempt : 0..SendRetries]]
  /\ \A s \in Subscribers :
       /\ sub[s].pc \in {"send", "wait"} => sub[s].idx \in DOMAIN Wants[s]
       /\ DOMAIN recv_buffer[s] \subseteq Seqs
       /\ \A k \in DOMAIN recv_buffer[s] : recv_buffer[s][k] \in Lines
  /\ DOMAIN recv_buffer = Subscribers
  /\ subscriptions \in [Subscribers -> Seq(Topics)]
  /\ delivered \in [Subscribers -> SUBSET Seqs]
  /\ next_seq \in [Subscribers -> 1..(NumEvents + 1)]
  /\ shown \in [Subscribers -> Seq(Lines)]

\* The datagrams that reach the socket of s: the broker addresses ACKs to
\* the source it saw and DELIVERs to the address s announced.
For(s, pkt) ==
  \/ pkt.type = "ACK" /\ pkt.peer = SeenAs[s]
  \/ pkt.type = "DELIVER" /\ pkt.peer = s

---------------------------------------------------------------------------
(* subscribe_to_match *)

NextTopic(s) ==
  sub' = [sub EXCEPT ![s] =
            [pc |-> IF sub[s].idx = Len(Wants[s]) THEN "listen" ELSE "send",
             idx |-> sub[s].idx + 1, attempt |-> 0]]

SubRetry(s) ==
  \/ /\ sub[s].attempt < SendRetries
     /\ sub' = [sub EXCEPT ![s].pc = "send", ![s].attempt = @ + 1]
  \/ /\ sub[s].attempt = SendRetries
     /\ NextTopic(s)

SubSend(s) ==
  /\ sub[s].pc = "send"
  /\ Transmit({Subscribe(s, Wants[s][sub[s].idx])})
  /\ sub' = [sub EXCEPT ![s].pc = "wait"]
  /\ UNCHANGED <<subscriptions, recv_buffer, delivered, next_seq, shown>>

(* Operators named X_<defect> are wrong variants of the X below them, each  *)
(* a bug this code could have: the runs must tell them from X.             *)

SubTimeout_AssumeDone(s) ==
  /\ sub[s].pc = "wait"
  /\ SubRetry(s)
  /\ subscriptions' =
       [subscriptions EXCEPT ![s] = IF sub[s].attempt = SendRetries
                                    THEN Append(@, Wants[s][sub[s].idx]) ELSE @]
  /\ UNCHANGED <<net, recv_buffer, delivered, next_seq, shown>>

SubTimeout(s) ==
  /\ sub[s].pc = "wait"
  /\ SubRetry(s)
  /\ UNCHANGED <<net, subscriptions, recv_buffer, delivered, next_seq, shown>>

SubReceive_AcksDeliver(s, pkt) ==
  /\ sub[s].pc = "wait"
  /\ For(s, pkt)
  /\ \/ /\ pkt.type = "ACK"
        /\ Exchange(pkt, {})
        /\ subscriptions' =
             [subscriptions EXCEPT ![s] = Append(@, Wants[s][sub[s].idx])]
        /\ NextTopic(s)
     \/ /\ pkt.type # "ACK"
        /\ Exchange(pkt, {SubAck(s, pkt.num, pkt.topic)})
        /\ SubRetry(s)
        /\ UNCHANGED subscriptions
  /\ UNCHANGED <<recv_buffer, delivered, next_seq, shown>>

\* Any ACK confirms the current match: neither its topic nor its ack_num is
\* looked at.  Any other packet is dropped and costs an attempt.
SubReceive(s, pkt) ==
  /\ sub[s].pc = "wait"
  /\ For(s, pkt)
  /\ Exchange(pkt, {})
  /\ \/ /\ pkt.type = "ACK"
        /\ subscriptions' =
             [subscriptions EXCEPT ![s] = Append(@, Wants[s][sub[s].idx])]
        /\ NextTopic(s)
     \/ /\ pkt.type # "ACK"
        /\ SubRetry(s)
        /\ UNCHANGED subscriptions
  /\ UNCHANGED <<recv_buffer, delivered, next_seq, shown>>

---------------------------------------------------------------------------
(* receive_messages, drain_buffer, close_connection *)

\* recv_buffer[seq] = line
Stored(buf, seq, line) ==
  [k \in DOMAIN buf \cup {seq} |-> IF k = seq THEN line ELSE buf[k]]

\* The first seq from n on that the buffer lacks: where drain_buffer stops.
DrainEnd(buf, n) ==
  CHOOSE m \in n..(NumEvents + 1) :
    m \notin DOMAIN buf /\ n..(m - 1) \subseteq DOMAIN buf

Drain_FromLowest(s, buf) ==
  LET first == CHOOSE k \in DOMAIN buf : \A j \in DOMAIN buf : k <= j
      end == DrainEnd(buf, first)
  IN  /\ shown' = [shown EXCEPT
                     ![s] = @ \o [i \in 1..(end - first) |-> buf[first + i - 1]]]
      /\ delivered' = [delivered EXCEPT ![s] = @ \cup first..(end - 1)]
      /\ recv_buffer' = [recv_buffer EXCEPT
                           ![s] = [k \in DOMAIN buf \ (first..(end - 1)) |-> buf[k]]]
      /\ next_seq' = [next_seq EXCEPT ![s] = end]

Drain_MarksNext(s, buf) ==
  LET first == next_seq[s]
      end == DrainEnd(buf, first)
  IN  /\ shown' = [shown EXCEPT
                     ![s] = @ \o [i \in 1..(end - first) |-> buf[first + i - 1]]]
      /\ delivered' = [delivered EXCEPT ![s] = @ \cup (first..end \cap Seqs)]
      /\ recv_buffer' = [recv_buffer EXCEPT
                           ![s] = [k \in DOMAIN buf \ (first..(end - 1)) |-> buf[k]]]
      /\ next_seq' = [next_seq EXCEPT ![s] = end]

Drain_Once(s, buf) ==
  LET first == next_seq[s]
      end == IF first \in DOMAIN buf THEN first + 1 ELSE first
  IN  /\ shown' = [shown EXCEPT
                     ![s] = @ \o [i \in 1..(end - first) |-> buf[first + i - 1]]]
      /\ delivered' = [delivered EXCEPT ![s] = @ \cup first..(end - 1)]
      /\ recv_buffer' = [recv_buffer EXCEPT
                           ![s] = [k \in DOMAIN buf \ (first..(end - 1)) |-> buf[k]]]
      /\ next_seq' = [next_seq EXCEPT ![s] = end]

Drain(s, buf) ==
  LET first == next_seq[s]
      end == DrainEnd(buf, first)
  IN  /\ shown' = [shown EXCEPT
                     ![s] = @ \o [i \in 1..(end - first) |-> buf[first + i - 1]]]
      /\ delivered' = [delivered EXCEPT ![s] = @ \cup first..(end - 1)]
      /\ recv_buffer' = [recv_buffer EXCEPT
                           ![s] = [k \in DOMAIN buf \ (first..(end - 1)) |-> buf[k]]]
      /\ next_seq' = [next_seq EXCEPT ![s] = end]

RecvDeliver_Unordered(s, pkt) ==
  /\ sub[s].pc = "listen"
  /\ For(s, pkt) /\ pkt.type = "DELIVER"
  /\ Exchange(pkt, {SubAck(s, pkt.num, pkt.topic)})
  /\ \/ /\ pkt.num \in delivered[s]
        /\ UNCHANGED <<delivered, shown>>
     \/ /\ pkt.num \notin delivered[s]
        /\ delivered' = [delivered EXCEPT ![s] = @ \cup {pkt.num}]
        /\ shown' = [shown EXCEPT ![s] = Append(@, Line(pkt))]
  /\ UNCHANGED <<sub, subscriptions, recv_buffer, next_seq>>

\* A DELIVER: SUB_ACK at once, then drop a duplicate or store and drain.
RecvDeliver(s, pkt) ==
  /\ sub[s].pc = "listen"
  /\ For(s, pkt) /\ pkt.type = "DELIVER"
  /\ Exchange(pkt, {SubAck(s, pkt.num, pkt.topic)})
  /\ \/ /\ pkt.num \in delivered[s]
        /\ UNCHANGED <<recv_buffer, delivered, next_seq, shown>>
     \/ /\ pkt.num \notin delivered[s]
        /\ Drain(s, Stored(recv_buffer[s], pkt.num, Line(pkt)))
  /\ UNCHANGED <<sub, subscriptions>>

\* Any other packet, such as a late ACK, is read and ignored.
RecvOther(s, pkt) ==
  /\ sub[s].pc = "listen"
  /\ For(s, pkt) /\ pkt.type # "DELIVER"
  /\ Exchange(pkt, {})
  /\ UNCHANGED subVars

\* Ctrl+C: the socket is closed and the broker is told nothing.
Close(s) ==
  /\ sub[s].pc = "listen"
  /\ sub' = [sub EXCEPT ![s].pc = "down"]
  /\ UNCHANGED <<net, subscriptions, recv_buffer, delivered, next_seq, shown>>

SubStep(s) ==
  \/ SubTimeout(s)
  \/ \E pkt \in net : SubReceive(s, pkt)

ListenStep(s) == \E pkt \in net : RecvDeliver(s, pkt) \/ RecvOther(s, pkt)
===========================================================================
