CONSTANTS
  Paths <- MCPaths
  Contents <- MCContents
  ProjectNames = {"trip"}
  TagNames = {"sea"}
  Angles <- QuarterTurns
  NoContent = NoContent
  PhotoLists <- TwoPages
  Project = "trip"
  FirstContent <- WithCopies
  Missing = Missing
  MaxWrites = 1
  MaxFaults <- FailingOnTheSmall
  FirstAngle = 3
  Delivered <- JustTheFirst
SPECIFICATION PageSpec
INVARIANT PageTypeOK
INVARIANT CountsPredictClicks
INVARIANT SelectionIsShown
INVARIANT ShownRotationIsStored
CHECK_DEADLOCK FALSE
