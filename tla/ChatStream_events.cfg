\* Bodies of up to four lines with one event name.
SPECIFICATION FairSpec
CONSTANTS
  Names = {"delta"}
  NoName = NoName
  Failure = Failure
  MaxLines = 4
INVARIANT DeliveredInFull
PROPERTY ChannelCloses
CHECK_DEADLOCK FALSE
