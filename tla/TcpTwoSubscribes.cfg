\* Two SUBSCRIBEs the broker receives together.
SPECIFICATION Spec
CONSTANTS
  p1 = p1  p2 = p2  s1 = s1  s2 = s2  t1 = t1  t2 = t2  garbled = garbled
  Publishers = {p1}
  Subscribers = {s1}
  Topics = {t1, t2}
  Garbled = garbled
  TopicOf <- OneMatch
  Wants <- WantBoth
  NumEvents = 1
  RecvMax = 2
  SendBuf = 2
  Leavers = {}
  Churn = FALSE
  Signals = "never"
INVARIANTS
  SubscribedIsListed
\* The programs end or wait: publishers stop after their last event.
CHECK_DEADLOCK FALSE
