SPECIFICATION PartsSpec
CONSTANTS
  Options <- MCOptions
  Start = "home"
  Dirs <- MCDirs
  Below <- MCBelow
  Files <- MCFiles
  Taken <- MCTaken
  FdLimit = 8
  Args <- MCArgs
  Word = "word"
  MaxArgs = 5
  Environ = 2
INVARIANTS FilesReadInPlace NamesOfSockets ArgumentsUsedOnce
PROPERTY StartupReads
