\* A text that fills the buffer.
SPECIFICATION FairSpec
CONSTANTS
  Capacity = 3
  Grow = TRUE
  Reserve = 2
  Leads = {}
  MsgErrs = {}
  MaxBytes = 3
PROPERTIES AllDelivered
