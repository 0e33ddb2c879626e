SPECIFICATION FairSpec
CONSTANTS
  num_docs = 4
  Queries = {"ranked_or", "ranked_and", "wand", "maxscore", "maxscore_dyn"}
  index <- MCIndex
  long = {0}
  ListCounts = {2, 3}
  Repetitions <- Distinct
  max_weights_vectors <- MCVectors
  Sizes = {1, 2}
  Cursors = {"block", "sequence"}
INVARIANTS TypeOK TopkIsBestSoFar OrderedByDocid
PROPERTIES Terminates
CHECK_DEADLOCK FALSE
