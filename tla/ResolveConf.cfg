SPECIFICATION Spec
CONSTANTS
  w1 = w1
  w2 = w2
  long = long
  x1 = x1
  x2 = x2
  Slices <- MCSlices
  Hash <- MCHash
  Names <- MCNames
  Texts <- MCTexts
  NetAddrs <- MCNetAddrs
  ToNet <- MCToNet
  ToText <- MCToText
  Missing = Missing
  Null = Null
  MaxServers = 2
  MaxNodes = 2
INVARIANTS
  TypeOK
  TablesAgree
  AcceptsWellFormed
  LoadedAsWritten
  ClientsFoundAtNode
CHECK_DEADLOCK FALSE
