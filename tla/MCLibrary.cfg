SPECIFICATION PartsSpec
CONSTANTS
  Strings <- NumStrings
  Afters <- AnyAfter
  IntMod = 256
  Kilo = 4
  Tails <- SomeTails
  MaxNumber = 4
  MaxWord = 3
  MaxAddr = 6
  MaxItems = 5
  Word = 4
  SizeLimit = 1024
  Configs <- SomeConfigs
  Items = {a, b}
  BufLen = 4
  Files <- MCFiles
  SizeMod = 32
  MaxBytes = 7
  Junk = Junk
  Outside = Outside
  Refused = Refused
  NoValue = NoValue
  Values = {a, b}
  Keys <- SomeKeys
  Octet <- SomeOctets
INVARIANT ReadAsWritten
PROPERTIES IsStack IsMap IsQueue
