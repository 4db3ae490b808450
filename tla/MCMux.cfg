CONSTANTS
  Writers = {w1, w2}
  Readers = {r1}
  c1 = c1
  c2 = c2
  svc = svc
  odd = odd
  raw = raw
  Conns = {c1, c2}
  Services = {svc, odd, raw}
  Methods <- MCMethods
  Files <- MCFiles
  FileMethods <- MCFileMethods
  Offers <- MCOffers
  ServiceMethods <- MCServiceMethods
  Described = {svc, odd, "Get"}
  Implementing = {svc, odd}
  ImplicitPath <- MCImplicitPath
  Rules <- MCRules
  Verbs = {"GET", "PUT"}
  HTTPRequests <- MCRequests
  MaxCalls = 3
  NoWriter = NoWriter
  NoOwner = NoOwner
  NoMethod = NoMethod
  NoConn = NoConn
SPECIFICATION FairSpec
INVARIANTS TypeOK ConnTablesAgree NoLostUpdate CloneIsCurrent RulesUnambiguous OneStatePerRequest
PROPERTIES RefinesRegistry RequestsFinish RegistrationsFinish
CHECK_DEADLOCK FALSE
