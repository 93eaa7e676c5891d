SPECIFICATION Spec
CONSTANTS
  Width = 20
  EntryCounts <- SqSizes
  CqCounts <- CqSizes
  Excess <- Spare
  Lengths = {0, 7, 16, 40, 41, 72}
  DataLengths = {0, 1, 4, 8}
  MaxMessages = 4
CHECK_DEADLOCK FALSE
INVARIANTS CountsAgree AreasFit WalkFindsAll
