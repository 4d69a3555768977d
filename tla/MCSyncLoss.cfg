SPECIFICATION SpecInUse
CONSTANTS
  Devices = {d1}
  None = None
  Choices = {}
  MaxEdits = 3
  MaxVersion = 5
  MaxChoices = 0
  MaxFaults = 0
  MaxEvents = 3
CHECK_DEADLOCK FALSE
PROPERTIES AcceptedEditsKept
