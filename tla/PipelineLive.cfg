CONSTANTS
  Pages = {p1}
  Tickets <- OneTicket
  Indices <- TwoIndices
  Rotations <- MCRotations
  Priorities <- MCPriorities
  Workers = {w1, w2}
  NoItem = NoItem
  NoPage = NoPage
  FirstTicket = 1
  MaxInsertions = 3
  PhotoSets <- JustTwo
  BadJpegs <- Nothing
  QueueLimit = 1
  StraySources <- Nothing
SPECIFICATION FairSpec
PROPERTY EveryThumbnailShown
PROPERTY ClosingEnds
PROPERTY QuittingEnds
