SPECIFICATION MyQQSpec
CONSTANTS
  Names = {"a", "b"}
  PrefixOf <- PrefixFree
  Passwords = {"p"}
  Empty = ""
  None = "none"
  MaxFd = 2
  Faults = {}
  MaxNodes = 2
  MaxPlays = 2
  Types <- AllNames
  NewNames = {"b"}
  NewPasswords = {}
  Uses <- OnlyRename
  Chances = 1
  MaxQueue = 1
CHECK_DEADLOCK FALSE
PROPERTIES
  RenamedInTable
