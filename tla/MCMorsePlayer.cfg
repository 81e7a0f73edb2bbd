\* Short lines over characters whose arrays are padded, all kinds of speed.
SPECIFICATION Spec
CONSTANTS
  Texts <- MCTexts
  Freqs = {0, 3499, 3500}
  Speeds <- MCSpeeds
  Align = 4
  CodeSize = 200
INVARIANTS TypeOK PlaysTheText
PROPERTY Returns
CHECK_DEADLOCK FALSE
