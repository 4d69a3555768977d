SPECIFICATION FairSpec
CONSTANTS
  Devices = {d1}
  None = None
  Choices = {}
  MaxEdits = 1
  MaxVersion = 3
  MaxChoices = 0
  MaxFaults = 1
  MaxEvents = 2
CHECK_DEADLOCK FALSE
PROPERTIES SeedArrives
