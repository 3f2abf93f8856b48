SPECIFICATION RestoreSpec
CONSTANTS
  SavedRoutes <- MultiHop
  MaxDeletions = 1
INVARIANTS
  RestoredInOrder
CHECK_DEADLOCK FALSE
