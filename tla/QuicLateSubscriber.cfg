\* A subscriber that misses the first event.
SPECIFICATION FairSpec
CONSTANTS
  p1 = p1  p2 = p2  s1 = s1  s2 = s2  n1 = n1  t1 = t1  t2 = t2
  Publishers = {p1}
  Subscribers = {s1}
  Addresses = {s1}
  Topics = {t1}
  TopicOf <- OneMatch
  Wants <- WantIt
  SeenAs <- SeenAsIs
  NumEvents = 2
  SendRetries = 0
  MaxRetries = 0
  Lossy = FALSE
  Duplicating = FALSE
  OrderedStart = FALSE
  MaxRestarts = 0
PROPERTIES
  BufferDrains
\* The programs end: publishers after their last event, subscribers when closed.
CHECK_DEADLOCK FALSE
