----------------------------- MODULE UdpClients -----------------------------
(***************************************************************************)
(* udp/publisher_udp.cpp and udp/subscriber_udp.cpp.  A publisher sends    *)
(* each event once and waits for nothing.  A subscriber sends each         *)
(* SUBSCRIBE once, waits a second for one datagram, and then prints what   *)
(* arrives.                                                                *)
(* The vector subscriptions is left out: it is written and never read.     *)
(***************************************************************************)
EXTENDS UdpProtocol

VARIABLES
  pub,        \* pub[p]: pc and number of the next event
  sub,        \* sub[s]: pc, position in Wants[s], and ~running
  announced,  \* announced[s]: the "Suscrito a" lines s printed
  shown       \* shown[s]: the bag of the events s printed

clientVars == <<pub, sub, announced, shown>>

\* "Suscrito a <match>", the reply of the broker, and "Suscrito a: <match>
\* (sin confirmacion)", the line of a wait that ended without a datagram.
Announcements == [topic : Topics, confirmed : BOOLEAN]
Confirmed(t) == [topic |-> t, confirmed |-> TRUE]
Unconfirmed(t) == [topic |-> t, confirmed |-> FALSE]

ClientInit ==
  /\ pub = [p \in Publishers |-> [pc |-> "send", seq |-> 1]]
  /\ sub = [s \in Subscribers |-> [pc |-> "start", idx |-> 1, stop |-> FALSE]]
  /\ announced = [s \in Subscribers |-> {}]
  /\ shown = [s \in Subscribers |-> EmptyBag]

ClientTypeOK ==
  /\ pub \in [Publishers -> [pc : {"send", "done"}, seq : 1..(NumEvents + 1)]]
  /\ \A p \in Publishers : pub[p].pc = "send" => pub[p].seq \in 1..NumEvents
  /\ sub \in [Subscribers -> [pc : {"start", "subscribe", "wait", "listen", "end", "down"},
                              idx : Nat \ {0}, stop : BOOLEAN]]
  /\ \A s \in Subscribers :
       /\ sub[s].pc \in {"start", "subscribe", "wait"} => sub[s].idx \in DOMAIN Wants[s]
       /\ IsABag(shown[s])
       /\ BagToSet(shown[s]) \subseteq Events
  /\ announced \in [Subscribers -> SUBSET Announcements]
  /\ DOMAIN shown = Subscribers

---------------------------------------------------------------------------
(* Publisher *)

PubSend(p) ==
  /\ pub[p].pc = "send"
  /\ Transmit(SetToBag({Publish(p, pub[p].seq)}))
  /\ pub' = [pub EXCEPT ![p] = [pc |-> IF @.seq = NumEvents THEN "done" ELSE "send",
                                seq |-> @.seq + 1]]
  /\ UNCHANGED <<sub, announced, shown>>

\* sendto fails: the loop breaks, the remaining events are never sent.
PubBreak(p) ==
  /\ Lossy
  /\ pub[p].pc = "send"
  /\ pub' = [pub EXCEPT ![p].pc = "done"]
  /\ UNCHANGED <<netVars, sub, announced, shown>>

---------------------------------------------------------------------------
(* Subscriber: connect_to_broker and subscribe_to_match *)

HasSocket(s) == sub[s].pc \notin {"start", "down"}

\* bind to a port nobody holds.  Datagrams for that port that came before are
\* gone, those still on their way will be received.
SubBind(s) ==
  /\ sub[s].pc = "start"
  /\ \A r \in Subscribers : AddrOf[r] = AddrOf[s] => ~HasSocket(r)
  /\ \E gone \in SUBSET {d \in BagToSet(net) : ToClient(AddrOf[s], d)} : Refuse(gone)
  /\ sub' = [sub EXCEPT ![s].pc = "subscribe"]
  /\ UNCHANGED <<pub, announced, shown>>

(* Operators named X_<defect> are wrong variants of the X below them, each  *)
(* a bug this code could have: the runs must tell them from X.             *)

NextMatch_OneTooMany(s) ==
  sub' = [sub EXCEPT ![s].idx = @ + 1,
                     ![s].pc = IF sub[s].idx <= Len(Wants[s]) THEN "subscribe"
                               ELSE IF sub[s].stop THEN "end" ELSE "listen"]

\* After the last match the listening thread is started; it looks at running
\* before it reads.
NextMatch(s) ==
  sub' = [sub EXCEPT ![s].idx = @ + 1,
                     ![s].pc = IF sub[s].idx < Len(Wants[s]) THEN "subscribe"
                               ELSE IF sub[s].stop THEN "end" ELSE "listen"]

SubSend(s) ==
  /\ sub[s].pc = "subscribe"
  /\ Transmit(SetToBag({Subscribe(s, Wants[s][sub[s].idx])}))
  /\ sub' = [sub EXCEPT ![s].pc = "wait"]
  /\ UNCHANGED <<pub, announced, shown>>

\* sendto fails: on to the next match without waiting.
SubSendFails(s) ==
  /\ Lossy
  /\ sub[s].pc = "subscribe"
  /\ NextMatch(s)
  /\ UNCHANGED <<netVars, pub, announced, shown>>

\* What s prints of a datagram, whatever it was waiting for.
Printed(s, d) ==
  \/ /\ d.type = "suscrito"
     /\ announced' = [announced EXCEPT ![s] = @ \cup {Confirmed(d.topic)}]
     /\ UNCHANGED shown
  \/ /\ d.type = "update"
     /\ shown' = [shown EXCEPT ![s] = @ (+) SetToBag({d.body})]
     /\ UNCHANGED announced

SubReply_DropsUpdate(s, d) ==
  /\ sub[s].pc = "wait"
  /\ ToClient(AddrOf[s], d)
  /\ Exchange(d, EmptyBag)
  /\ IF d.type = "suscrito" THEN Printed(s, d) ELSE UNCHANGED <<announced, shown>>
  /\ NextMatch(s)
  /\ UNCHANGED pub

\* The first datagram to arrive is printed and ends the wait, be it the
\* confirmation of this match, of an earlier one, or an event.
SubReply(s, d) ==
  /\ sub[s].pc = "wait"
  /\ ToClient(AddrOf[s], d)
  /\ Exchange(d, EmptyBag)
  /\ Printed(s, d)
  /\ NextMatch(s)
  /\ UNCHANGED pub

SubTimeout_NoReservation(s) ==
  /\ sub[s].pc = "wait"
  /\ NextMatch(s)
  /\ announced' = [announced EXCEPT ![s] = @ \cup {Confirmed(Wants[s][sub[s].idx])}]
  /\ UNCHANGED <<netVars, pub, shown>>

SubTimeout_SkipsTheRest(s) ==
  /\ sub[s].pc = "wait"
  /\ sub' = [sub EXCEPT ![s].pc = IF sub[s].stop THEN "end" ELSE "listen"]
  /\ announced' = [announced EXCEPT ![s] = @ \cup {Unconfirmed(Wants[s][sub[s].idx])}]
  /\ UNCHANGED <<netVars, pub, shown>>

\* A second without a datagram, or a signal: the match is announced with the
\* reservation, whatever became of the SUBSCRIBE.
SubTimeout(s) ==
  /\ sub[s].pc = "wait"
  /\ NextMatch(s)
  /\ announced' = [announced EXCEPT ![s] = @ \cup {Unconfirmed(Wants[s][sub[s].idx])}]
  /\ UNCHANGED <<netVars, pub, shown>>

---------------------------------------------------------------------------
(* receive_messages, signal_handler, close_connection *)

\* A turn of the listening thread; after a signal it is the last one.
SubRead(s, d) ==
  /\ sub[s].pc = "listen"
  /\ ToClient(AddrOf[s], d)
  /\ Exchange(d, EmptyBag)
  /\ Printed(s, d)
  /\ sub' = [sub EXCEPT ![s].pc = IF sub[s].stop THEN "end" ELSE "listen"]
  /\ UNCHANGED pub

\* Ctrl+C: the handler clears running; SUBSCRIBEs still to come go out.
SubSignal(s) ==
  /\ HasSocket(s)
  /\ ~sub[s].stop
  /\ sub' = [sub EXCEPT ![s].stop = TRUE]
  /\ UNCHANGED <<netVars, pub, announced, shown>>

\* main closes the socket; the broker is told nothing.
SubClose(s) ==
  /\ sub[s].pc \in {"listen", "end"}
  /\ sub[s].stop
  /\ sub' = [sub EXCEPT ![s].pc = "down"]
  /\ UNCHANGED <<netVars, pub, announced, shown>>

SubStep(s) ==
  \/ SubSend(s)
  \/ SubSendFails(s)
  \/ SubTimeout(s)
  \/ SubClose(s)
  \/ \E d \in BagToSet(net) : SubReply(s, d) \/ SubRead(s, d)
=============================================================================
