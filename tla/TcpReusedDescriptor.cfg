\* A descriptor closed before it is unregistered, and accepted anew in between.
SPECIFICATION Spec
CONSTANTS
  p1 = p1  p2 = p2  s1 = s1  s2 = s2  t1 = t1  t2 = t2  garbled = garbled
  Publishers = {p1}
  Subscribers = {s1, s2}
  Topics = {t1}
  Garbled = garbled
  TopicOf <- OneMatch
  Wants <- WantIt
  NumEvents = 1
  RecvMax = 1
  SendBuf = 2
  Leavers = {s1}
  Churn = TRUE
  Signals = "never"
INVARIANTS
  SubscribedIsListed
\* The programs end or wait: publishers stop after their last event.
CHECK_DEADLOCK FALSE
