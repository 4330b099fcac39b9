SPECIFICATION FairSpec
CONSTANTS
  Names = {"a", "b"}
  PrefixOf <- PrefixFree
  Passwords = {"p"}
  Empty = ""
  None = "none"
  MaxFd = 2
  Faults = {"attach"}
  MaxNodes = 2
  MaxPlays = 1
  Types <- OwnName
  NewNames = {"b"}
  NewPasswords = {}
  Uses <- LiveUses
  Chances = 1
  MaxQueue = 1
PROPERTIES
  LoginAnswered
