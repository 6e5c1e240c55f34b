\* Messages of one to three bytes through small buffers and a small window.
SPECIFICATION FairSpec
CONSTANTS
  OutCapacity = 3
  OutGrow = FALSE
  InCapacity = 3
  InGrow = TRUE
  Reserve = 1
  Sizes = {1, 2, 3}
  Leads = {2, 5}
  MsgErrs = {"Internal"}
  Window = 3
  MaxBytes = 6
INVARIANTS Conserved
PROPERTIES EndToEndSpec Arrives WrittenArrives
