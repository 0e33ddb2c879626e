SPECIFICATION Spec
CONSTANTS
  params <- MCparams
  fix_cost = 2
  eps1 = 10
  eps2 = 50
  Lengths = {1, 2}
  Universes = {6}
  PartitionSizes = {2}
  IntLimit = 2
  WordLimit = 16
  Beyond = 0
INVARIANTS NextGeqFindsValue
