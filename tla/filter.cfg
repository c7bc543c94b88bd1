SPECIFICATION Spec
CONSTANTS
  Chars = {"=", "h", "e"}
  Star = "*"
  Words <- MCWords
  MessageMax = 6
INVARIANTS NothingForbiddenLeft OnlyForbiddenMasked
CHECK_DEADLOCK FALSE
