SPECIFICATION Spec
CONSTANTS
  Devices = {d1, d2}
  None = None
  Choices = {"keepBackup"}
  MaxEdits = 2
  MaxVersion = 4
  MaxChoices = 1
  MaxFaults = 0
  MaxEvents = 2
CHECK_DEADLOCK FALSE
PROPERTIES AcceptedEditsKept
