SPECIFICATION Spec
CONSTANTS
  Procs = {p1, p2}
  Inodes = {f1, f2, f3}
  InitDocs <- SharedDocs
  UserRates = {1}
  HaveXml = TRUE
  WritesMayFail = TRUE
  NoValue = NoValue
  Torn = Torn
  Nothing = Nothing
PROPERTY BadFileIsForEver
PROPERTY OnlyEditorsWrite
