CONSTANTS
  Pages = {p1, p2}
  Tickets <- TwoTickets
  Indices <- OneIndex
  Rotations <- MCRotations
  Priorities <- MCPriorities
  Workers = {w1, w2}
  NoItem = NoItem
  NoPage = NoPage
  FirstTicket = 1
  MaxInsertions = 2
  PhotoSets <- JustOne
  BadJpegs <- Nothing
  QueueLimit = 1
  StraySources <- Nothing
SPECIFICATION Spec
INVARIANT NoCallIntoDestroyedPage
