SPECIFICATION FairSpec
CONSTANTS
  Trips <- MCTrips
  Moved <- MCMoved
  Reference <- MCReference
  DrillMonths <- MCDrillMonths
  Predicted <- MCPredicted
  Patience <- MCPatience
  Deployments <- MCDeployments
  MaxEvents = 3
INVARIANT DrillIsSound
PROPERTY LossIsPaged
CHECK_DEADLOCK FALSE
