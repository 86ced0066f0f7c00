CONSTANTS
  Paths = {a, b}
  Contents = {x, y}
  ProjectNames = {P, Q}
  TagNames = {T}
  Angles = {0, 1}
  NoContent = NoContent
  MaxIds = 2
SPECIFICATION StoreSpec
SYMMETRY StoreSymmetry
INVARIANT StoreTypeOK
INVARIANT Integrity
INVARIANT QueriesTellTheLibrary
PROPERTY ImplementsLibrary
