SPECIFICATION StampsSpec
CHECK_DEADLOCK FALSE
CONSTANTS
  Editor = {e1, e2}
  Other = {o1}
  Name = {ann, bob}
  First = ann
  MaxClock = 3
  MaxReads = 3
SYMMETRY StampsSymmetry
PROPERTY EveryStaleUpdateIsRefused
