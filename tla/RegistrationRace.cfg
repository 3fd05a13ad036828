SPECIFICATION RegSpec
CONSTANTS
  Threads = {t1, t2, t3}
  Conns = {c1, c2}
  NoConn = noConn
  Names = {"ann", "bob"}
  Passwords = {"x"}
  NoThread = noThread
  MaxCalls = 2
  MaxCrashes = 1
INVARIANT UniqueNames
