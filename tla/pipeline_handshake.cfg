SPECIFICATION FairSpec
CONSTANTS
  d1 = d1
  d2 = d2
  p1 = p1
  c1 = c1
  n1 = n1
  n2 = n2
  NoPipeline = NoPipeline
  Docs = {d1}
  Pipelines = {p1}
  Clients = {c1}
  Menu <- HandshakeMenu
  InitialDocs = {d1}
  Namespaces = {n1, n2}
  NamespaceOf <- OneNamespaceOf
  Hooks = TRUE
  MayReclaim = FALSE
  MaxSends = 3
INVARIANTS
  NoPanic
  HookExclusion
  NotifiedOnce
  BuilderInOrder
  DeletionReachesBuilder
PROPERTIES
  FlushBarrier
  ClientsAnswered
