SPECIFICATION Spec
CONSTANTS
  block_size = 2
  Lengths = {1, 4, 5}
  Universes = {6}
  Frequencies = {1, 3}
INVARIANTS TypeOK DocidIsOfPosition FreqIsOfPosition
PROPERTIES RefinesSequenceEnumerator
