CONSTANTS
  PhotoIds <- ThreeIds
  FilePath <- MCFilePath
  ProjectNames = {P, Q}
  NoProject = NoProject
  NRETRIES = 2
  UpdateRate = 2
  MaxSubmits = 2
  MaxFaults = 2
SPECIFICATION Spec
CHECK_DEADLOCK FALSE
PROPERTY AddsWhatItShows
