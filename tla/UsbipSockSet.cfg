CONSTANTS
  Fds = {1, 2, 3}
  ServerFd = 0
  MaxBacklog = 1
  MaxInbox = 1
SPECIFICATION Spec
INVARIANT ClientsWatched
