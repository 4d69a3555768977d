SPECIFICATION SpecInUse
CONSTANTS
  Devices = {d1}
  None = None
  Choices = {}
  MaxEdits = 2
  MaxVersion = 4
  MaxChoices = 0
  MaxFaults = 0
  MaxEvents = 2
CHECK_DEADLOCK FALSE
PROPERTIES UnsyncedWorkKept
