\* Publishers and subscribers of two matches; one subscriber may leave at any moment;
\* requests may arrive together.
SPECIFICATION Spec
CONSTANTS
  p1 = p1  p2 = p2  s1 = s1  s2 = s2  t1 = t1  t2 = t2  garbled = garbled
  Publishers = {p1, p2}
  Subscribers = {s1, s2}
  Topics = {t1, t2}
  Garbled = garbled
  TopicOf <- OneMatch
  Wants <- BothAndFirst
  NumEvents = 1
  RecvMax = 2
  SendBuf = 1
  Leavers = {s1}
  Churn = TRUE
  Signals = "never"
INVARIANTS
  TypeOK
  NoneLeftBehind
  SameOrder
\* The programs end or wait: publishers stop after their last event.
CHECK_DEADLOCK FALSE
