---------------------------- MODULE TcpProtocol ----------------------------
(***************************************************************************)
(* The text protocol of the tcp/ programs and the stream sockets under it. *)
(* A request or a line keeps what the programs read of it: its kind, its   *)
(* match and its events.  A request goes out in one send and is well below *)
(* a segment, so a recv returns whole requests; but nothing separates      *)
(* them, and one recv may return several as if they were one.              *)
(***************************************************************************)
EXTENDS Integers, Sequences, FiniteSets

CONSTANTS
  Publishers,   \* publisher processes, one connection each
  Subscribers,  \* subscriber processes, one connection each
  Topics,       \* matches
  Garbled,      \* a topic string that is no match, such as "aSUBSCRIBE:b"
  TopicOf,      \* TopicOf[p]: the match publisher p reports (argv[1])
  Wants,        \* Wants[s]: the matches of subscriber s, in argv order
  NumEvents,    \* length of the publisher's vector "events" (14 in the code)
  RecvMax,      \* requests one recv may return together
  SendBuf       \* lines that fit in the socket buffers towards a client

Clients == Publishers \cup Subscribers

ASSUME TcpAssumption ==
  /\ Publishers \cap Subscribers = {}
  /\ IsFiniteSet(Clients)
  /\ Garbled \notin Topics
  /\ TopicOf \in [Publishers -> Topics]
  /\ Wants \in [Subscribers -> Seq(Topics)]
  /\ NumEvents \in Nat \ {0}
  /\ RecvMax \in Nat \ {0}
  /\ SendBuf \in Nat \ {0}

VARIABLES
  alive,    \* the broker process exists: it listens and its sockets are open
  backlog,  \* clients connected and not accepted yet, in order
  open,     \* clients whose own end of the connection is open
  sock,     \* the broker's descriptors: partial function from fd to client
  up,       \* up[c]: requests sent by c and not received yet
  down,     \* down[c]: lines sent to c and not received yet
  reset     \* clients whose end was closed with lines unread, or written to

netVars == <<alive, backlog, open, sock, up, down, reset>>

Fds == 1..Cardinality(Clients)
Names == Topics \cup {Garbled}

Event(p, n) == <<p, n>>
Events == Publishers \X (1..NumEvents)

SubscribeTo(t) == [op |-> "SUBSCRIBE", topic |-> t, body |-> <<>>]
PublishIn(t, evs) == [op |-> "PUBLISH", topic |-> t, body |-> evs]
Requests == [op : {"SUBSCRIBE", "PUBLISH"}, topic : Names, body : Seq(Events)]

Confirmation(t) == [kind |-> "suscrito", topic |-> t, body |-> <<>>]
Update(t, evs) == [kind |-> "update", topic |-> t, body |-> evs]
Lines == [kind : {"suscrito", "update"}, topic : Names, body : Seq(Events)]

NetInit ==
  /\ alive = TRUE
  /\ backlog = <<>>
  /\ open = {}
  /\ sock = [f \in {} |-> f]
  /\ up = [c \in Clients |-> <<>>]
  /\ down = [c \in Clients |-> <<>>]
  /\ reset = {}

NetTypeOK ==
  /\ alive \in BOOLEAN
  /\ backlog \in Seq(Clients)
  /\ open \subseteq Clients
  /\ DOMAIN sock \subseteq Fds
  /\ \A f \in DOMAIN sock : sock[f] \in Clients
  /\ up \in [Clients -> Seq(Requests)]
  /\ down \in [Clients -> Seq(Lines)]
  /\ reset \subseteq Clients

---------------------------------------------------------------------------
(* What the client programs ask of their sockets. *)

Connect(c) ==
  /\ alive
  /\ backlog' = Append(backlog, c)
  /\ open' = open \cup {c}
  /\ UNCHANGED <<alive, sock, up, down, reset>>

SendUp(c, req) ==
  /\ up' = [up EXCEPT ![c] = Append(@, req)]
  /\ UNCHANGED <<alive, backlog, open, sock, down, reset>>

\* The end of c is closed; what was on its way to c is gone.  With lines
\* unread that resets the connection, and so does a line that comes later.
Shut(c) ==
  /\ open' = open \ {c}
  /\ down' = [down EXCEPT ![c] = <<>>]
  /\ reset' = IF down[c] = <<>> THEN reset ELSE reset \cup {c}
  /\ UNCHANGED <<alive, backlog, sock, up>>

(* What the broker asks of its sockets. *)

\* accept: the lowest free descriptor for the first client in the backlog.
FreeFd == CHOOSE f \in Fds \ DOMAIN sock : \A g \in Fds \ DOMAIN sock : f <= g

\* send, blocking, on descriptor f.  A closed descriptor or a closed peer is
\* an error the caller only logs; a full buffer is waited for.
Blocked(f) ==
  /\ f \in DOMAIN sock
  /\ sock[f] \in open
  /\ Len(down[sock[f]]) = SendBuf

SendDown(f, line) ==
  /\ ~Blocked(f)
  /\ IF f \in DOMAIN sock
     THEN LET c == sock[f]
          IN  IF c \in open
              THEN down' = [down EXCEPT ![c] = Append(@, line)] /\ UNCHANGED reset
              ELSE reset' = reset \cup {c} /\ UNCHANGED down
     ELSE UNCHANGED <<down, reset>>
===========================================================================
