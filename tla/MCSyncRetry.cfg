SPECIFICATION SpecInUse
CONSTANTS
  Devices = {d1}
  None = None
  Choices = {}
  MaxEdits = 2
  MaxVersion = 4
  MaxChoices = 0
  MaxFaults = 1
  MaxEvents = 3
CHECK_DEADLOCK FALSE
PROPERTIES LatestStaysQueued
