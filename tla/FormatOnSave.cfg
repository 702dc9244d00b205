CONSTANTS
  MaxEdits = 3
  MaxSaves = 3
SPECIFICATION RequestsSpec
INVARIANTS
  
  
  SavedStays
PROPERTIES
  
  OwnSpecStays
CHECK_DEADLOCK FALSE
