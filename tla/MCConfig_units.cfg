SPECIFICATION Spec
CONSTANTS
  Pieces <- MCPieces
  stoi <- MCstoi
  stod <- MCstod
  strtoul <- MCstrtoul
  Argvs <- MCArgvs
  Files <- MCFiles
  NoFile = NoFile
  None = None
INVARIANTS
  CommandLineWins
CHECK_DEADLOCK FALSE
