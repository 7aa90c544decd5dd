CONSTANTS
  AfcClients = {c1, c2}
  Files = {f1}
  Dir = dir
  NChunks = 2
  MaxAfcOps = 1
  Hosts = {h1}
  Mounters = {m1, m2}
  MaxDay = 47600
  Chunk = 3
SPECIFICATION Spec
SYMMETRY Symmetry
CHECK_DEADLOCK FALSE
INVARIANTS AfcSafe FilesWhole StopsAtRefusal CacheRecovers MountedMeansMounted CodecsExact
