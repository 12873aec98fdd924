SPECIFICATION MCSpec
CONSTANTS
  ShortOptions <- ShortOpts
  Words <- AllWords
  ArgLists <- SomeArgLists
  MaxDialogs = 2
  Proc = p1
  Inodes = {f1, f2}
  InitDocs <- SomeDocs
  UserRates = {1, 100}
  HaveXml = TRUE
  WritesMayFail = FALSE
  NoValue = NoValue
  Torn = Torn
  NoFile = NoFile
INVARIANT ExchangeKeepsOrder
INVARIANT Sorted
INVARIANT OutcomeAsDeclared
INVARIANT OperandsLast
INVARIANT RestoresWhatWasSaved
INVARIANT SavedAtTheEnd
PROPERTY ReplacedAsAWhole
PROPERTY LaunchSettles
PROPERTY QuitEnds
