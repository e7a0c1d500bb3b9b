SPECIFICATION ShellSpec
CONSTANTS
  Base <- BaseTree
  App <- AppTree
  Table <- Names
  Default <- Defaults
  Offered <- Values
  Accepted <- Valid
  Width <- Widths
  Hints <- Hinted
  Uid = "U"
  Random = {"A"}
  RespCap = 4
  MaxTokens = 3
  Paths <- Tried
  Unset = Unset
INVARIANTS WholeIfSo  
