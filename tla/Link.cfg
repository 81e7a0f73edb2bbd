\* The thresholds of morse_process_test_thread; jud scaled down to 11 words.
SPECIFICATION LinkSpec
CONSTANTS
  Texts <- MCTexts
  DotRuns = {3, 9}
  DashRuns = {10, 19}
  IntraRuns = {1, 8}
  CharRuns = {9, 60}
  WordRuns = {61}
  Signals <- MCSignals
  DotMin = 3
  DashMin = 10
  DashMax = 20
  CharGap = 8
  WordGap = 60
  JudSize = 11
  Q = 3
INVARIANTS DecoderTypeOK EdgesOrdered JudgeRate JudFits JudgesTheRuns StartBeforeFirstMark
  Understood
CHECK_DEADLOCK FALSE
