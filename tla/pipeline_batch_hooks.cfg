SPECIFICATION Spec
CONSTANTS
  d1 = d1
  d2 = d2
  p1 = p1
  c1 = c1
  n1 = n1
  n2 = n2
  NoPipeline = NoPipeline
  Docs = {d1, d2}
  Pipelines = {p1}
  Clients = {c1}
  Menu <- BatchMenu
  InitialDocs = {d1, d2}
  Namespaces = {n1, n2}
  NamespaceOf <- MCNamespaceOf
  Hooks = TRUE
  MayReclaim = FALSE
  MaxSends = 1
INVARIANTS
  NoPanic
