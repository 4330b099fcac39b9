SPECIFICATION MyQQSpec
CONSTANTS
  Names = {"an", "ann"}
  PrefixOf <- Prefixed
  Passwords = {"p"}
  Empty = ""
  None = "none"
  MaxFd = 2
  Faults = {}
  MaxNodes = 2
  MaxPlays = 2
  Types <- AllNames
  NewNames = {}
  NewPasswords = {}
  Uses <- LogoutUses
  Chances = 1
  MaxQueue = 1
CHECK_DEADLOCK FALSE
PROPERTIES
  LoginChecksName
