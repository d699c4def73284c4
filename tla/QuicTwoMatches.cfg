\* Two publishers that both count from 1; a subscriber of one of the two matches, which
\* the broker sees under another address than it announces; two events each; any
\* network; publishers start last; a broker started again.
SPECIFICATION Spec
CONSTANTS
  p1 = p1  p2 = p2  s1 = s1  s2 = s2  n1 = n1  t1 = t1  t2 = t2
  Publishers = {p1, p2}
  Subscribers = {s1}
  Addresses = {s1, n1}
  Topics = {t1, t2}
  TopicOf <- OneEach
  Wants <- WantApart
  SeenAs <- AllTranslated
  NumEvents = 2
  SendRetries = 0
  MaxRetries = 1
  Lossy = FALSE
  Duplicating = TRUE
  OrderedStart = TRUE
  MaxRestarts = 1
INVARIANTS
  ShownInOrder
  AckedIsForwarded
\* The programs end: publishers after their last event, subscribers when closed.
CHECK_DEADLOCK FALSE
