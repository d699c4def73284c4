\* A network that loses, repeats and reorders; a port that changes hands; a broker
\* started again.
SPECIFICATION Spec
CONSTANTS
  p1 = p1  p2 = p2  s1 = s1  s2 = s2  a1 = a1  a2 = a2  b1 = b1  t1 = t1  t2 = t2
  Publishers = {p1, p2}
  Subscribers = {s1, s2}
  Addresses = {a1, a2, b1}
  Topics = {t1, t2}
  TopicOf <- OneEach
  Wants <- BothAndFirst
  PubAddr <- SameSource
  AddrOf <- OnePort
  NumEvents = 1
  Lossy = TRUE
  MaxCopies = 1
  MaxRestarts = 1
  Leavers = {s1}
  Signals = TRUE
INVARIANTS
  TypeOK
  ConfirmedIsRegistered
PROPERTIES
  RefinesBestEffort
\* The programs end or wait: publishers stop after their last event.
CHECK_DEADLOCK FALSE
