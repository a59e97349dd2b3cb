\* An item in the game, its ratings, and plans carried out on it.
SPECIFICATION Spec
CONSTANTS
  Pool <- MCPool
  Bases <- MCBases
  Levels = {82}
  Equipment <- MCEquipment
  ClassFamily = "none"
CHECK_DEADLOCK FALSE
INVARIANTS CountsAreTrue StepsPossible ExportReadsBack
PROPERTIES FillerNeverHelps
