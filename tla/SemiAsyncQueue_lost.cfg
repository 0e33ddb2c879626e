SPECIFICATION Spec
CONSTANTS
  MaxJobs = 3
  Works = {1, 2}
  WorkPerThread = 2
  ThreadChoices = {2}
  Throwing = {}
INVARIANT CompleteCommitsAll
