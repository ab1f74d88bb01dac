SPECIFICATION PartsSpec
CONSTANTS
  RxLen = 7
  MaxBytes = 10
  MaxLines = 3
  Token <- Tokens
  RequestLines <- SomeRequestLines
  HeaderLines <- SomeHeaderLines
  LastLines <- OneCharacter
  Behind <- Following
  SizeMod = 8
  Numbers <- MCNumbers
  Sizes <- MCSizes
  Paths <- SomePaths
  Char <- PathChars
  MaxHeaders = 2
  MaxPath = 5
  MaxDots = 8
INVARIANTS
  TypeOK NoneUnseen SplitAtFirstEnd
  HeaderUnderstood DecodesInPlace StaysBelowRoot RangeServed
