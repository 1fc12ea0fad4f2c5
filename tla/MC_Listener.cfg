SPECIFICATION Spec
CONSTANTS
  StartBlock = 0
  MaxLogs = 3
  MaxBlock = 1
  MaxReorgs = 1
  MaxStops = 2
 
PROPERTIES DeliveredIsKept DeliveredIsQueued
CHECK_DEADLOCK FALSE
