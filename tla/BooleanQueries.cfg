SPECIFICATION FairSpec
CONSTANTS
  num_docs = 4
  ListCounts = {0, 1, 2, 3}
INVARIANTS TypeOK CountedBeforeCandidate CursorsKeepUp MatchIsOnAllLists
PROPERTIES Terminates
CHECK_DEADLOCK FALSE
