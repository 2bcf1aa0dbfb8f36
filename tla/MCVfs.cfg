CONSTANTS
  Archives <- AllArchives
  MountPoints <- OneMount
  Paths <- FewPaths
  NVnodes = 6
  Files = {f1}
  Procs = {p1, p2}
  init = p1
  MaxForks = 2
SPECIFICATION Spec
INVARIANTS TypeOK UseSafe RefsExact LookupFinds ReaddirMatchesLookup
