\* The bridge: four notifications, three failures of Redis, three retries in a
\* row.  The manager: two clients, three events, one filter message.  The
\* listener: two exchanges; two changes of a node's states and a lost connection,
\* or one change through the API.
CONSTANTS
  MaxEvents = 4
  MaxRetries = 3
  MaxOutages = 3
  Clients = {"c1", "c2"}
  Events <- SomeEvents
  Updates <- SomeFilters
  Exchanges = {"ironic", "nova"}
  Fields <- SomeFields
  MaxChanges <- ChangesOf
  MaxLosses <- LossesOf
SPECIFICATION FairNotificationsSpec
CHECK_DEADLOCK FALSE
INVARIANTS
  InOrder
  GapsAreOutages
  ExactDelivery
  SyncSettles
PROPERTIES
  ShutdownEnds
  GoneClientsAreDropped
  EventsFlow
  
