CONSTANTS
  t1 = t1
  n1 = n1
  n2 = n2
  r1 = r1
  rootA = rootA
  rootB = rootB
  Node = {n1, n2}
  Rid = {r1}
  Root = {rootA, rootB}
  Malformed = Malformed
  Overflowing = Overflowing
  None = None
  Bundle <- MCBundle
  Thread = {t1}
SPECIFICATION SSpec
INVARIANTS Authentic BundleIngested SeedersWithinCall
PROPERTIES ReplayAcceptsNothing ImplementsViews
