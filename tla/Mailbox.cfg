CONSTANTS
  Requests <- MCRequests
  Size = 12
  Known = {3, 4}
  Capacity = 3
  MaxOthers = 4
  MaxCalls = 3
SPECIFICATION MailboxSpec
INVARIANTS MailboxTypeOK CallbackSeesTheAnswer
PROPERTIES RequestReturns
CHECK_DEADLOCK FALSE
