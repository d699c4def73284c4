\* One publisher, one subscriber, a network that may lose, repeat and reorder, a broker
\* started again.
SPECIFICATION Spec
CONSTANTS
  p1 = p1  p2 = p2  s1 = s1  s2 = s2  n1 = n1  t1 = t1  t2 = t2
  Publishers = {p1}
  Subscribers = {s1}
  Addresses = {s1}
  Topics = {t1}
  TopicOf <- OneMatch
  Wants <- WantIt
  SeenAs <- SeenAsIs
  NumEvents = 2
  SendRetries = 2
  MaxRetries = 2
  Lossy = FALSE
  Duplicating = TRUE
  OrderedStart = FALSE
  MaxRestarts = 1
INVARIANTS
  TypeOK
  NoSilentLoss
  ConfirmedIsRegistered
  RegisteredOnce
PROPERTIES
  DropsOnlyDuplicates
  RefinesPubSub
\* The programs end: publishers after their last event, subscribers when closed.
CHECK_DEADLOCK FALSE
