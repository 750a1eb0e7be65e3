SPECIFICATION Spec
CONSTANTS
  Names = {"PWD"}
  UserNames = {"PWD"}
  Values = {"", "/a", "/b"}
  Empty = ""
  Dirs = {"/a", "/b"}
  PWD = "PWD"
  ArgLists <- OneArg
  Overrides <- PwdOnce
  Unset = Unset
  Through = Through
  MaxDepth = 2
  MaxDirs = 1
INVARIANTS TypeOK
PROPERTIES ImplementsScopes
