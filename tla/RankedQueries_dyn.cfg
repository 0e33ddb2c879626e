SPECIFICATION FairSpec
CONSTANTS
  num_docs = 4
  Queries = {"maxscore_dyn"}
  index <- MCDynIndex
  long = {0}
  ListCounts = {2, 3}
  Repetitions <- Distinct
  max_weights_vectors <- MCVectors
  Sizes = {1}
  Cursors = {"block", "sequence"}
PROPERTY MaxscoreDynAnswers
CHECK_DEADLOCK FALSE
