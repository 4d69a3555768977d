SPECIFICATION FairSpec
CONSTANTS
  Devices = {d1, d2}
  None = None
  Choices = {}
  MaxEdits = 2
  MaxVersion = 3
  MaxChoices = 0
  MaxFaults = 0
  MaxEvents = 2
CHECK_DEADLOCK FALSE
PROPERTIES QueueDrains CatchesUpOrReseeds
