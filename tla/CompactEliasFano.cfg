SPECIFICATION Spec
CONSTANTS
  Lengths = {1, 3, 4}
  Universes = {3, 7}
  Samplings = {0, 2}
  linear_scan_threshold = 1
  Beyond = 0
INVARIANTS TypeOK EnumeratorInSync PrevValueIsPredecessor SamplesLeadHome
PROPERTIES RefinesSequenceEnumerator
