SPECIFICATION Spec
CONSTANTS
  Devices = {d1, d2}
  None = None
  Choices = {"keepDevice", "keepBackup", "useServer"}
  MaxEdits = 2
  MaxVersion = 3
  MaxChoices = 1
  MaxFaults = 0
  MaxEvents = 2
SYMMETRY Interchangeable
CHECK_DEADLOCK FALSE
PROPERTIES OthersEditsKept
