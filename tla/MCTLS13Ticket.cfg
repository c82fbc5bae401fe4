CONSTANTS
  Width = 2
  MaxTime = 3
  MaxTickets = 2
  Lifetimes = {0, 1, 2, 3}
  ExtBlocks <- MCExtBlocks
  EarlyDataInfoType = 0
SPECIFICATION Spec
INVARIANT TicketTypeOK
INVARIANT TicketLifetimeCapped
INVARIANT EarlyDataLimitFromOwnTicket
INVARIANT SessionOwnership
INVARIANT TicketUnknownExtensionsTolerated
