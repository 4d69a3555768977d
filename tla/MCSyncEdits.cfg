SPECIFICATION Spec
CONSTANTS
  Devices = {d1, d2}
  None = None
  Choices = {}
  MaxEdits = 3
  MaxVersion = 4
  MaxChoices = 0
  MaxFaults = 1
  MaxEvents = 3
SYMMETRY Interchangeable
CHECK_DEADLOCK FALSE
INVARIANTS TypeOK OthersShown
PROPERTIES OthersEditsKept
