----------------------------- MODULE TcpBroker -----------------------------
(***************************************************************************)
(* tcp/broker.cpp: the main thread accepts, one detached thread per client *)
(* reads its requests.  topics_mutex is held over the whole of a           *)
(* publication or subscription, the blocking sends included.               *)
(* The vector clients is left out: only the destructor reads it, when the  *)
(* process ends and its sockets are closed anyway.                         *)
(***************************************************************************)
EXTENDS TcpProtocol

VARIABLES
  server_running,     \* cleared by the signal handler
  topic_subscribers,  \* topic -> sequence of descriptors
  topics_mutex,       \* the set of threads that hold it: at most one
  thread              \* thread[c]: handle_client of client c

brokerVars == <<server_running, topic_subscribers, topics_mutex, thread>>

NoRequest == [op |-> "none", topic |-> Garbled, body |-> <<>>]

BrokerInit ==
  /\ server_running = TRUE
  /\ topic_subscribers = [t \in Names |-> <<>>]
  /\ topics_mutex = {}
  /\ thread = [c \in Clients |-> [pc |-> "none", fd |-> 0, req |-> NoRequest, i |-> 0]]

BrokerTypeOK ==
  /\ server_running \in BOOLEAN
  /\ topic_subscribers \in [Names -> Seq(Fds)]
  /\ topics_mutex \subseteq Clients
  /\ thread \in [Clients -> [pc : {"none", "recv", "handle", "fanout", "confirm",
                                   "unregister", "gone", "quit"},
                             fd : Fds \cup {0}, req : Requests \cup {NoRequest},
                             i : Nat]]

Elems(q) == {q[i] : i \in DOMAIN q}

---------------------------------------------------------------------------
(* run and signal_handler *)

(* Operators named X_<defect> are wrong variants of the X below them, each  *)
(* a bug this code could have: the runs must tell them from X.             *)

Accept_ForEver ==
  /\ alive
  /\ backlog # <<>>
  /\ LET c == Head(backlog)
     IN  /\ sock' = [f \in DOMAIN sock \cup {FreeFd} |->
                       IF f = FreeFd THEN c ELSE sock[f]]
         /\ thread' = [thread EXCEPT ![c].pc = "recv", ![c].fd = FreeFd]
  /\ backlog' = Tail(backlog)
  /\ UNCHANGED <<alive, open, up, down, reset, server_running, topic_subscribers,
                 topics_mutex>>

\* accept returns: a thread is started, and only then is server_running
\* looked at again.  signal() installs the handler with restart, so that a
\* signal alone does not bring accept back.  (A signal that falls between
\* accept and that test is an outcome of Signal.)
Accept ==
  /\ alive
  /\ backlog # <<>>
  /\ LET c == Head(backlog)
     IN  /\ sock' = IF server_running
                    THEN [f \in DOMAIN sock \cup {FreeFd} |->
                            IF f = FreeFd THEN c ELSE sock[f]]
                    ELSE [f \in {} |-> f]
         /\ thread' = [thread EXCEPT ![c].pc = "recv", ![c].fd = FreeFd]
  /\ backlog' = Tail(backlog)
  /\ alive' = server_running
  /\ UNCHANGED <<open, up, down, reset, server_running, topic_subscribers, topics_mutex>>

\* The handler only clears server_running.  The main thread waits in accept,
\* or it has yet to look and ends the process.  A client thread that has yet
\* to look ends; that is not told apart from one in recv that never runs again.
Signal ==
  /\ alive
  /\ server_running
  /\ server_running' = FALSE
  /\ \/ UNCHANGED <<alive, sock>>
     \/ alive' = FALSE /\ sock' = [f \in {} |-> f]
  /\ UNCHANGED <<backlog, open, up, down, reset, topic_subscribers, topics_mutex, thread>>

---------------------------------------------------------------------------
(* handle_client *)

\* The head of the loop: on to recv, or out of the thread.
AtLoop == IF server_running THEN "recv" ELSE "quit"

Lock(c) == topics_mutex = {} /\ topics_mutex' = {c}
Unlock(c) == topics_mutex' = topics_mutex \ {c}

\* What the parser makes of the bytes of chunk: the first request tells the
\* kind and the rest of the bytes belong to it.
Parse(chunk) ==
  LET req == Head(chunk)
  IN  IF Len(chunk) = 1 THEN req
      ELSE IF req.op = "SUBSCRIBE" THEN SubscribeTo(Garbled)
      ELSE PublishIn(req.topic, [i \in 1..Len(chunk) |-> chunk[i].body[1]])

RecvRequest(c) ==
  /\ alive /\ thread[c].pc = "recv"
  /\ \E n \in 1..RecvMax :
       /\ n <= Len(up[c])
       /\ thread' = [thread EXCEPT ![c].pc = "handle",
                                   ![c].req = Parse(SubSeq(up[c], 1, n))]
       /\ up' = [up EXCEPT ![c] = SubSeq(@, n + 1, Len(@))]
  /\ UNCHANGED <<alive, backlog, open, sock, down, reset,
                 server_running, topic_subscribers, topics_mutex>>

RecvEnd_NotUnregistered(c) ==
  /\ alive /\ thread[c].pc = "recv"
  /\ c \notin open
  /\ up[c] = <<>> \/ c \in reset
  /\ sock' = [f \in DOMAIN sock \ {thread[c].fd} |-> sock[f]]
  /\ thread' = [thread EXCEPT ![c].pc = "gone"]
  /\ UNCHANGED <<alive, backlog, open, up, down, reset,
                 server_running, topic_subscribers, topics_mutex>>

\* recv returns 0 once all has been read, or -1 on a reset connection: the
\* descriptor is closed first, unregister_client comes after.
RecvEnd(c) ==
  /\ alive /\ thread[c].pc = "recv"
  /\ c \notin open
  /\ up[c] = <<>> \/ c \in reset
  /\ sock' = [f \in DOMAIN sock \ {thread[c].fd} |-> sock[f]]
  /\ thread' = [thread EXCEPT ![c].pc = "unregister"]
  /\ UNCHANGED <<alive, backlog, open, up, down, reset,
                 server_running, topic_subscribers, topics_mutex>>

LockPublish_NoMutex(c) ==
  /\ alive /\ thread[c].pc = "handle" /\ thread[c].req.op = "PUBLISH"
  /\ thread' = [thread EXCEPT ![c].pc = "fanout", ![c].i = 1]
  /\ UNCHANGED <<netVars, server_running, topic_subscribers, topics_mutex>>

\* publish_message takes the mutex and goes through the list it finds.
LockPublish(c) ==
  /\ alive /\ thread[c].pc = "handle" /\ thread[c].req.op = "PUBLISH"
  /\ Lock(c)
  /\ thread' = [thread EXCEPT ![c].pc = "fanout", ![c].i = 1]
  /\ UNCHANGED <<netVars, server_running, topic_subscribers>>

Targets(c) == topic_subscribers[thread[c].req.topic]

SendLine_DropWhenFull(c) ==
  /\ alive /\ thread[c].pc = "fanout" /\ thread[c].i <= Len(Targets(c))
  /\ LET f == Targets(c)[thread[c].i]
         line == Update(thread[c].req.topic, thread[c].req.body)
     IN  IF f # thread[c].fd /\ ~Blocked(f) THEN SendDown(f, line)
         ELSE UNCHANGED <<down, reset>>
  /\ thread' = [thread EXCEPT ![c].i = @ + 1]
  /\ UNCHANGED <<alive, backlog, open, sock, up,
                 server_running, topic_subscribers, topics_mutex>>

SendLine_StopAtError(c) ==
  /\ alive /\ thread[c].pc = "fanout" /\ thread[c].i <= Len(Targets(c))
  /\ LET f == Targets(c)[thread[c].i]
         line == Update(thread[c].req.topic, thread[c].req.body)
     IN  IF f \in DOMAIN sock
         THEN /\ IF f # thread[c].fd THEN SendDown(f, line)
                 ELSE UNCHANGED <<down, reset>>
              /\ thread' = [thread EXCEPT ![c].i = @ + 1]
         ELSE /\ thread' = [thread EXCEPT ![c].i = Len(Targets(c)) + 1]
              /\ UNCHANGED <<down, reset>>
  /\ UNCHANGED <<alive, backlog, open, sock, up,
                 server_running, topic_subscribers, topics_mutex>>

\* One turn of the loop of publish_message: the list cannot change meanwhile.
SendLine(c) ==
  /\ alive /\ thread[c].pc = "fanout" /\ thread[c].i <= Len(Targets(c))
  /\ LET f == Targets(c)[thread[c].i]
         line == Update(thread[c].req.topic, thread[c].req.body)
     IN  IF f # thread[c].fd THEN SendDown(f, line)
         ELSE UNCHANGED <<down, reset>>
  /\ thread' = [thread EXCEPT ![c].i = @ + 1]
  /\ UNCHANGED <<alive, backlog, open, sock, up,
                 server_running, topic_subscribers, topics_mutex>>

EndPublish(c) ==
  /\ alive /\ thread[c].pc = "fanout" /\ thread[c].i > Len(Targets(c))
  /\ Unlock(c)
  /\ thread' = [thread EXCEPT ![c] = [pc |-> AtLoop, fd |-> @.fd,
                                      req |-> NoRequest, i |-> 0]]
  /\ UNCHANGED <<netVars, server_running, topic_subscribers>>

LockSubscribe_Replaces(c) ==
  /\ alive /\ thread[c].pc = "handle" /\ thread[c].req.op = "SUBSCRIBE"
  /\ Lock(c)
  /\ topic_subscribers' =
       [topic_subscribers EXCEPT ![thread[c].req.topic] = <<thread[c].fd>>]
  /\ thread' = [thread EXCEPT ![c].pc = "confirm"]
  /\ UNCHANGED <<netVars, server_running>>

\* subscribe_client: the descriptor is listed, then the confirmation sent,
\* all under the mutex.
LockSubscribe(c) ==
  /\ alive /\ thread[c].pc = "handle" /\ thread[c].req.op = "SUBSCRIBE"
  /\ Lock(c)
  /\ topic_subscribers' =
       [topic_subscribers EXCEPT ![thread[c].req.topic] = Append(@, thread[c].fd)]
  /\ thread' = [thread EXCEPT ![c].pc = "confirm"]
  /\ UNCHANGED <<netVars, server_running>>

Confirm(c) ==
  /\ alive /\ thread[c].pc = "confirm"
  /\ SendDown(thread[c].fd, Confirmation(thread[c].req.topic))
  /\ Unlock(c)
  /\ thread' = [thread EXCEPT ![c].pc = AtLoop, ![c].req = NoRequest]
  /\ UNCHANGED <<alive, backlog, open, sock, up, server_running, topic_subscribers>>

\* std::remove and erase: q without its occurrences of descriptor f.
Without(q, f) ==
  LET kept[i \in 0..Len(q)] ==
        IF i = 0 THEN <<>>
        ELSE IF q[i] = f THEN kept[i - 1] ELSE Append(kept[i - 1], q[i])
  IN  kept[Len(q)]

\* unregister_client: every occurrence of the descriptor goes.
Unregister(c) ==
  /\ alive /\ thread[c].pc = "unregister"
  /\ topics_mutex = {}
  /\ topic_subscribers' =
       [t \in Names |-> Without(topic_subscribers[t], thread[c].fd)]
  /\ thread' = [thread EXCEPT ![c].pc = "gone"]
  /\ UNCHANGED <<netVars, server_running, topics_mutex>>

ThreadStep(c) ==
  \/ RecvRequest(c) \/ RecvEnd(c)
  \/ LockPublish(c) \/ SendLine(c) \/ EndPublish(c)
  \/ LockSubscribe(c) \/ Confirm(c)
  \/ Unregister(c)
===========================================================================
