CONSTANTS
  Adds = {a1, a2}
  Orders = {o1, o2}
  Overload = 1
  ChannelSize = 1
  NoMessage = NoMessage
SPECIFICATION MCSpec
SYMMETRY Requests
INVARIANTS
  TypeOK
  PaidThenShipped
  AddedItemsAreKept
  BoughtItemsLeave
  PipelineTypeOK
  ResultsBalance
  RecordedOnce
  PublishedIsRecorded
PROPERTIES
  ImplementsCheckout
