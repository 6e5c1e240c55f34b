\* A peer that sends and closes.
SPECIFICATION Spec
CONSTANTS
  Capacity = 3
  Grow = TRUE
  Reserve = 2
  Leads = {}
  MsgErrs = {}
  MaxBytes = 2
INVARIANTS NoEmptyMessage
