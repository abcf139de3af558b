SPECIFICATION Spec
CONSTANTS
  root = root  debug = debug  deps = deps  mod = mod  disk = disk
  r = r  s = s  b = b
  None = None
  Procs = {r, s}
  Runner = {r}
  Builds = {}
  Dirs = {root, debug, deps}
  Units = {debug}
  UnitOf <- UnitOfDeps
  Early = {root, deps}
  Writable = {root, debug, deps}
  Devices = {disk}
  DeviceOf <- OneDisk
  Can <- Able
  MaxClock = 3
  MaxTroubles = 0
INVARIANTS RunsGoOn
