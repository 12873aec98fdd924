SPECIFICATION Spec
CONSTANTS
  Procs = {p1}
  Inodes = {f1, f2}
  InitDocs <- LegalDocs
  UserRates = {1, 100}
  HaveXml = TRUE
  WritesMayFail = TRUE
  NoValue = NoValue
  Torn = Torn
  Nothing = Nothing
PROPERTY StaysReadable
