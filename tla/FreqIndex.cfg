SPECIFICATION Spec
CONSTANTS
  linear_scan_threshold = 1
  params <- MCparams
  num_docs = 8
  Inputs <- MCInputs
  NotOpen = NotOpen
  NoFreq = NoFreq
INVARIANTS FreqIsOfPosition PrevValueIsPredecessor
PROPERTIES RefinesSequenceEnumerator
CHECK_DEADLOCK FALSE
