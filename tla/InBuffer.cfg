\* A text longer than the buffer, with characters of one and two bytes.
SPECIFICATION FairSpec
CONSTANTS
  Capacity = 3
  Grow = FALSE
  Reserve = 2
  Leads = {2, 5}
  MsgErrs = {"Internal", "Http", "Custom"}
  MaxBytes = 9
INVARIANTS TypeOK NothingLost WholeCharacters
PROPERTIES ChannelSpec EmptyStreamEnds AllAtEnd
