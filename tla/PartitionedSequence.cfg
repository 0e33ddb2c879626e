SPECIFICATION Spec
CONSTANTS
  params <- MCparams
  fix_cost = 2
  eps1 = 10
  eps2 = 50
  Lengths = {1, 2, 5}
  Universes = {7}
  PartitionSizes = {2}
  IntLimit = 16
  WordLimit = 256
  Beyond = 2
INVARIANTS TypeOK OpenedAsWritten EnumeratorsInStep PrevValueIsPredecessor UpperBoundsOnElement NextGeqSettles ChosenIsACut ChosenCutIsNearCheapest
PROPERTIES RefinesSequenceEnumerator
