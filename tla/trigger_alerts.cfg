SPECIFICATION FairSpec
CONSTANTS
  NumRules = 2
  Nodes = {n1}
  Cooldown = 1
  Page = 2
  MaxPending = 1
  MaxTrouble = 1
  MaxSlips = 1
  n1 = n1
INVARIANT RepeatsAreExcused
PROPERTY AllOrNobody
PROPERTY FirstRunsInOrder
PROPERTY AlertsArrive
