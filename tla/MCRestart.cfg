SPECIFICATION ProcessesSpec
CONSTANTS
  Names = {"a", "b"}
  PrefixOf <- PrefixFree
  Passwords = {"p"}
  Empty = ""
  None = "none"
  MaxFd = 2
  Faults = {}
  MaxNodes = 2
  MaxPlays = 2
  Types <- SharedName
  NewNames = {}
  NewPasswords = {}
  Uses <- MCUses
  Chances = 1
  MaxQueue = 1
VIEW WithoutOutput
CHECK_DEADLOCK FALSE
INVARIANTS
  RestartsAtOnce
