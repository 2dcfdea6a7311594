SPECIFICATION MessageSpec
CONSTANTS
  ScmMaxFd = 2
  MaxFds = 2
  MaxCap = 2
  MaxSend = 1
  Extras = {"pidfd"}
INVARIANT NothingLeaks
CHECK_DEADLOCK FALSE
