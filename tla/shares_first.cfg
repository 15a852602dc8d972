SPECIFICATION Spec
CONSTANTS
  limited = limited
  open = open
  Share = {limited, open}
  Request = {r1}
  ExpiresAt <- MCExpiresAt
  MaxViews <- MCMaxViews
  Protected = {limited}
  None = None
  MaxTime = 1
  ClientRetries = 0
CHECK_DEADLOCK FALSE
INVARIANT FirstSharesBothCreated
