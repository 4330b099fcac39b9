SPECIFICATION Spec
CONSTANTS
  Names <- MCNames
  PrefixOf <- MCPrefixOf
  Passwords = {"p", "q"}
  Empty = ""
  None = "none"
  MaxFd = 2
  Faults = {"step", "prepare", "exec", "fork", "accept"}
  MaxNodes = 2
  MaxPlays = 2
VIEW WithoutOutput
INVARIANTS
  TypeOK
  UniqueNames
  MediaCounted
  OnlineConnected
  GhostsWereShared
PROPERTIES
  ImplementsAccounts
