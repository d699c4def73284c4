----------------------------- MODULE TcpClients -----------------------------
(***************************************************************************)
(* tcp/publisher.cpp and tcp/subscriber.cpp.  Neither waits for an answer: *)
(* a publisher sends its events and closes; a subscriber sends all of its  *)
(* SUBSCRIBEs and then prints what arrives until its user kills it.        *)
(***************************************************************************)
EXTENDS TcpProtocol

VARIABLES
  pub,    \* pub[p]: pc and number of the next event
  sub,    \* sub[s]: pc and position in Wants[s]
  shown   \* shown[s]: the "ACTUALIZACION" lines printed, in order

clientVars == <<pub, sub, shown>>

ClientInit ==
  /\ pub = [p \in Publishers |-> [pc |-> "connect", seq |-> 1]]
  /\ sub = [s \in Subscribers |-> [pc |-> "connect", idx |-> 1]]
  /\ shown = [s \in Subscribers |-> <<>>]

ClientTypeOK ==
  /\ pub \in [Publishers -> [pc : {"connect", "send", "close", "done"},
                             seq : 1..(NumEvents + 1)]]
  /\ sub \in [Subscribers -> [pc : {"connect", "subscribe", "listen", "down"},
                              idx : Nat \ {0}]]
  /\ shown \in [Subscribers -> Seq(Lines)]

---------------------------------------------------------------------------
(* Publisher *)

PubConnect(p) ==
  /\ pub[p].pc = "connect"
  /\ Connect(p)
  /\ pub' = [pub EXCEPT ![p].pc = "send"]
  /\ UNCHANGED <<sub, shown>>

(* Operators named X_<defect> are wrong variants of the X below them, each  *)
(* a bug this code could have: the runs must tell them from X.             *)

PubSend_OneTooMany(p) ==
  /\ pub[p].pc = "send"
  /\ alive
  /\ SendUp(p, PublishIn(TopicOf[p], <<Event(p, pub[p].seq)>>))
  /\ pub' = [pub EXCEPT ![p] = [pc |-> IF @.seq > NumEvents THEN "close" ELSE "send",
                                seq |-> @.seq + 1]]
  /\ UNCHANGED <<sub, shown>>

PubSend(p) ==
  /\ pub[p].pc = "send"
  /\ alive
  /\ SendUp(p, PublishIn(TopicOf[p], <<Event(p, pub[p].seq)>>))
  /\ pub' = [pub EXCEPT ![p] = [pc |-> IF @.seq = NumEvents THEN "close" ELSE "send",
                                seq |-> @.seq + 1]]
  /\ UNCHANGED <<sub, shown>>

\* The broker has gone: send fails and the loop breaks, or SIGPIPE ends the
\* process; its socket is closed next either way.
PubBreak(p) ==
  /\ pub[p].pc = "send"
  /\ ~alive
  /\ pub' = [pub EXCEPT ![p].pc = "close"]
  /\ UNCHANGED <<netVars, sub, shown>>

PubClose(p) ==
  /\ pub[p].pc = "close"
  /\ Shut(p)
  /\ pub' = [pub EXCEPT ![p].pc = "done"]
  /\ UNCHANGED <<sub, shown>>

---------------------------------------------------------------------------
(* Subscriber *)

NextMatch(s, i) == IF i > Len(Wants[s]) THEN "listen" ELSE "subscribe"

SubConnect(s) ==
  /\ sub[s].pc = "connect"
  /\ Connect(s)
  /\ sub' = [sub EXCEPT ![s].pc = NextMatch(s, 1)]
  /\ UNCHANGED <<pub, shown>>

\* subscribe_to_match: on to the next match at once, also when send fails.
SubSend(s) ==
  /\ sub[s].pc = "subscribe"
  /\ IF alive THEN SendUp(s, SubscribeTo(Wants[s][sub[s].idx]))
              ELSE UNCHANGED netVars
  /\ sub' = [sub EXCEPT ![s] = [pc |-> NextMatch(s, @.idx + 1), idx |-> @.idx + 1]]
  /\ UNCHANGED <<pub, shown>>

\* receive_messages prints one or more lines at a time; a line feed ends
\* each, so lines received together are still told apart.
SubRead(s) ==
  /\ sub[s].pc = "listen"
  /\ \E n \in 1..Len(down[s]) :
       /\ shown' = [shown EXCEPT ![s] = @ \o SubSeq(down[s], 1, n)]
       /\ down' = [down EXCEPT ![s] = SubSeq(@, n + 1, Len(@))]
  /\ UNCHANGED <<alive, backlog, open, sock, up, reset, pub, sub>>

\* Ctrl+C: there is no handler, the process dies where it is.
SubLeave(s) ==
  /\ sub[s].pc \in {"subscribe", "listen"}
  /\ Shut(s)
  /\ sub' = [sub EXCEPT ![s].pc = "down"]
  /\ UNCHANGED <<pub, shown>>
=============================================================================
