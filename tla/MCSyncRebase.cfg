SPECIFICATION SpecInUse
CONSTANTS
  Devices = {d1}
  None = None
  Choices = {"keepDevice"}
  MaxEdits = 2
  MaxVersion = 4
  MaxChoices = 1
  MaxFaults = 0
  MaxEvents = 2
CHECK_DEADLOCK FALSE
PROPERTIES RebasedDescends
