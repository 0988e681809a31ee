SPECIFICATION Spec
CONSTANTS
  A = A
  B = B
  title = title
  x = x
  c = c
  d = d
  n1 = n1
  n2 = n2
  n3 = n3
  Idents = {A, B}
  FieldIdents = {title, x}
  Names = {n1, n2, n3}
  Choices = {c, d}
  NoValue = NoValue
  Appliers = {p1}
  ReadOnly = FALSE
  Handlers = {h1}
  MaxTx = 2
  InitTypes <- MCInitTypes
  InitFields <- MCInitFields
  InitEntries <- MCInitEntries
  Bundles <- MCBundles
  BootDir <- MCBootDir
  NewTypes <- MCNewTypes
  NewFields <- MCNewFields
  FieldEdits <- MCFieldEdits
INVARIANTS
  RowsHaveTypes
  
PROPERTIES
  
  FieldChangesAreAnnounced
