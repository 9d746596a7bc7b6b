CONSTANTS
  Platform = "windows"
  LastVersion = 3
  Overlaps = FALSE
SPECIFICATION MCSpec
INVARIANTS  CoreRunsValidConfig 
 
