CONSTANTS
  Writers = {w1}
  Readers = {r1}
  c1 = c1
  c2 = c2
  svc = svc
  odd = odd
  raw = raw
  Conns = {c1}
  Services = {svc, odd, raw}
  Methods <- MCMethods
  Files <- MCFiles
  FileMethods <- MCFileMethods
  Offers <- MCOffersOne
  ServiceMethods <- MCServiceMethods
  Described = {svc, odd, "Get"}
  Implementing = {svc, odd}
  ImplicitPath <- MCImplicitPath
  Rules <- MCRules
  Verbs = {"GET", "PUT"}
  HTTPRequests <- MCRequests
  MaxCalls = 3
  NoWriter = NoWriter
  NoOwner = NoOwner
  NoMethod = NoMethod
  NoConn = NoConn
SPECIFICATION Spec
INVARIANT DroppedConnIsGone
CHECK_DEADLOCK FALSE
