SPECIFICATION Spec
CONSTANTS
  NULL = NULL
  Char <- MCChar
  Digit <- MCDigit
  Pid <- MCPid
  Dec <- MCDec
  Name <- MCName
  Size <- MCSize
  Root <- MCRoot
  FILENAME_MAX = 11
INVARIANTS
  FitsExactly
  NamesIdentify
