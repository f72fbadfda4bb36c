SPECIFICATION Spec
CONSTANTS
  Threads = {t1, t2}
  Conns = {c1, c2}
  Groups = {g1}
  MaxGen = 2
  Calls = {"check", "join", "propose", "commit", "merge", "decrypt", "forget", "delete", "members", "group_context", "generate_key_package"}
  Fragile = {}
  None = None
  Fresh = Fresh
SYMMETRY Symmetry
INVARIANT LoadedIsWhole
PROPERTY ImplementsAtomicStore
