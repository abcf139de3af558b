SPECIFICATION Spec
CONSTANTS
  root = root  debug = debug  deps = deps  mod = mod  disk = disk
  r = r  s = s  b = b
  None = None
  Procs = {r, s}
  Runner = {r}
  Builds = {b}
  Dirs = {debug, deps}
  Units = {debug}
  UnitOf <- UnitOfDeps
  Early = {deps}
  Writable = {debug, deps}
  Devices = {disk}
  DeviceOf <- OneDisk
  Can <- Plain
  MaxClock = 2
  MaxTroubles = 1
INVARIANTS IInv LeftFilesStay IdleUnlessMet UnitsSwept
