\* A network that loses and reorders, two events: the publisher finishes, late ACKs of
\* the first event included; the broker's retransmissions come to an end; an event is
\* shown unless it or one before it is reported discarded.
SPECIFICATION FairSpec
CONSTANTS
  p1 = p1  p2 = p2  s1 = s1  s2 = s2  n1 = n1  t1 = t1  t2 = t2
  Publishers = {p1}
  Subscribers = {s1}
  Addresses = {s1}
  Topics = {t1}
  TopicOf <- OneMatch
  Wants <- WantIt
  SeenAs <- SeenAsIs
  NumEvents = 2
  SendRetries = 0
  MaxRetries = 2
  Lossy = TRUE
  Duplicating = FALSE
  OrderedStart = FALSE
  MaxRestarts = 0
PROPERTIES
  
  PendingDrains
  EventuallyShown
\* The programs end: publishers after their last event, subscribers when closed.
CHECK_DEADLOCK FALSE
