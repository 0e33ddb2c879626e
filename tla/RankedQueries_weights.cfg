SPECIFICATION Spec
CONSTANTS
  num_docs = 4
  Queries = {"maxscore"}
  index <- MCIndex
  long = {0}
  ListCounts = {2}
  Repetitions <- Repeated
  max_weights_vectors <- MCVectors
  Sizes = {1}
  Cursors = {"block", "sequence"}
INVARIANTS TopkIsBestSoFar
CHECK_DEADLOCK FALSE
