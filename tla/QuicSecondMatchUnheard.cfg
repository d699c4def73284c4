\* A late ACK of the first match confirms the second.
SPECIFICATION Spec
CONSTANTS
  p1 = p1  p2 = p2  s1 = s1  s2 = s2  n1 = n1  t1 = t1  t2 = t2
  Publishers = {p1}
  Subscribers = {s1}
  Addresses = {s1}
  Topics = {t1, t2}
  TopicOf <- OneMatch
  Wants <- WantBoth
  SeenAs <- SeenAsIs
  NumEvents = 1
  SendRetries = 1
  MaxRetries = 1
  Lossy = FALSE
  Duplicating = FALSE
  OrderedStart = FALSE
  MaxRestarts = 0
INVARIANTS
  ConfirmedIsRegistered
\* The programs end: publishers after their last event, subscribers when closed.
CHECK_DEADLOCK FALSE
