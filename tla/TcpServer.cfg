SPECIFICATION FairSpec
CONSTANTS
  Addrs = {a1}
  NoFiber = noFiber
  Fds = {3, 4, 5}
  InitSize = 3
  MaxClients = 2
  MaxTurns = 1
INVARIANTS OneOwner FreshContext NeverBlocksThread
PROPERTIES ClientEnds StopsAccepting
