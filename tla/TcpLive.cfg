\* All clients start together; one subscriber may leave; the broker may be signalled
\* while a client is still to be accepted.
SPECIFICATION FairSpec
CONSTANTS
  p1 = p1  p2 = p2  s1 = s1  s2 = s2  t1 = t1  t2 = t2  garbled = garbled
  Publishers = {p1}
  Subscribers = {s1, s2}
  Topics = {t1}
  Garbled = garbled
  TopicOf <- OneMatch
  Wants <- WantIt
  NumEvents = 3
  RecvMax = 2
  SendBuf = 1
  Leavers = {s1}
  Churn = FALSE
  Signals = "early"
INVARIANTS
  SubscribedIsListed
  NoGap
PROPERTIES
  EventuallyReceived
  DepartureNoticed
  NextClientEnds
\* The programs end or wait: publishers stop after their last event.
CHECK_DEADLOCK FALSE
