CONSTANTS
  Pages = {p1, p2}
  Tickets <- TwoTickets
  Indices <- ThreeIndices
  Rotations <- MCRotations
  Priorities <- MCPriorities
  Workers = {w1, w2}
  NoItem = NoItem
  NoPage = NoPage
  FirstTicket = 1
  MaxInsertions = 3
  PhotoSets <- OneToThree
  BadJpegs <- Nothing
  QueueLimit = 2
  StraySources <- Nothing
SPECIFICATION Spec
SYMMETRY Symmetry
INVARIANT TypeOK
INVARIANT DeliveryInsideLifetime
INVARIANT CountIsExact
INVARIANT TicketsTellPagesApart
INVARIANT IdleSourceMatchesQueue
INVARIANT WorkIsAccountedFor
INVARIANT MapsAgree
PROPERTY ImplementsLifetime
PROPERTY ImplementsPool
