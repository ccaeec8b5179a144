CONSTANTS
  Targets = {1, 2, 3}
  numSuccessfulToWaitFor = 1
  Answers <- MCAnswers
  Counts = {0, 1}
  Quorums = {0, 1}
  NumKeys = 2
  Servers = {1, 2}
  bucketSize = 2
  TableSizes = {0, 2, 8}
  BulkWorkers = {w1, w2}
  SuccessesEnough = 1
SPECIFICATION Spec
INVARIANTS Inv SuccessDelivered BulkComplete
PROPERTIES OperationEnds
CHECK_DEADLOCK FALSE
