SPECIFICATION Spec
CONSTANTS
  A = A
  B = B
  rel = rel
  body = body
  img = img
  k1 = k1
  k2 = k2
  i1 = i1
  i2 = i2
  o1 = o1
  o2 = o2
  NoValue = NoValue
  Idents = {A, B}
  FieldIdents = {rel, body, img}
  Keys = {k1}
  Images = {i1, i2}
  Worlds <- MCWorlds
  Files <- MCFiles
  NewTypes <- MCNewTypes
  NewData <- MCNewData
  Exports <- MCExports
  Imports <- MCImports
  Starter <- Foreign
  Ops = {o1}
  MaxTx = 4
INVARIANTS
  TypeOK
PROPERTIES
  ImportMatchesBundle
  ImportedEntriesAreWhole
  ReplacedContentIsAnnounced
CHECK_DEADLOCK FALSE
