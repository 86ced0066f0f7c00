CONSTANTS
  PhotoIds <- ThreeIds
  FilePath <- MCFilePath
  ProjectNames = {P, Q}
  NoProject = NoProject
  NRETRIES = 2
  UpdateRate = 2
  MaxSubmits = 2
  MaxFaults = 3
SPECIFICATION Spec
SYMMETRY ProjectSymmetry
CHECK_DEADLOCK FALSE
INVARIANT TypeOK
INVARIANT NamesAreOfLastIds
INVARIANT AcceptsWholeResult
PROPERTY AcceptIsAtomic
