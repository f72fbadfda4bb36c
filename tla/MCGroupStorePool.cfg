SPECIFICATION Spec
CONSTANTS
  Threads = {t1, t2}
  Conns = {c1}
  Groups = {g1, g2}
  MaxGen = 2
  Calls = {"check", "merge", "delete", "members", "group_context"}
  Fragile = {g1}
  None = None
  Fresh = Fresh
SYMMETRY Symmetry
INVARIANT LeaseIsSound
PROPERTY ImplementsAtomicStore
