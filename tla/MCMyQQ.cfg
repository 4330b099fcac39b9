SPECIFICATION MyQQSpec
CONSTANTS
  Names = {"a", "b"}
  PrefixOf <- PrefixFree
  Passwords = {"p", "q"}
  Empty = ""
  None = "none"
  MaxFd = 2
  Faults = {"exec"}
  MaxNodes = 2
  MaxPlays = 2
  Types <- TwoAndOne
  NewNames = {}
  NewPasswords = {"q"}
  Uses <- AccountUses
  Chances = 1
  MaxQueue = 1
VIEW WithoutOutput
INVARIANTS
  MyQQTypeOK
  OnlineIsServed
  ListIsTable
  TalksLoggedIn
  NeverHung
