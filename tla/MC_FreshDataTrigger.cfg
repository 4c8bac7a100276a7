CONSTANTS
  Deliveries <- Four
  Bad = {2}
  Limit = 4
  MaxAborts = 2
SPECIFICATION FairPollerSpec
INVARIANTS PollerTypeOK InOrder
PROPERTY EveryDeliveryIsTriggered
