SPECIFICATION FairSpec
CONSTANTS
  MaxJobs = 6
  Works = {1, 2}
  WorkPerThread = 2
  ThreadChoices = {0, 1, 2}
  Throwing = {6}
INVARIANTS TypeOK CommitsInOrder NoUseAfterReset CleanExitIsComplete ErrorsAreFatal
PROPERTIES RefinesOrderedCommit CallsReturn
