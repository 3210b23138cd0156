\* Two fingers, a page and an overlay bar, one request: eight steps to a case that cannot be saved.
SPECIFICATION TouchSpec
CONSTANTS
  Slots = {0, 1}
  Places = {"page", "bar"}
  Overlay = {"bar"}
  Requests = {"q1"}
  LongTicks = 1
  DoubleTicks = 0
  MaxTicks = 1
  MaxInputs = 3
  MaxRecordings = 2
INVARIANT RecordedCaseIsValid
CHECK_DEADLOCK FALSE
