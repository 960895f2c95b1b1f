SPECIFICATION Spec
CONSTANTS
  cli = cli
  agent = agent
  sudo = sudo
  alice = alice
  root = root
  nobody = nobody
  local = local
  share = share
  data = data
  run = run
  sock = sock
  usb = usb
  Procs = {cli, agent, sudo}
  Users = {alice, root}
  NoUser = nobody
  Root = root
  Euid <- MCEuid
  Umask <- OddUmask
  Nodes <- MCNodes
  Chain <- MCChain
  TargetLists <- MCTargets
  FixedMode = {usb}
  FaultyProcs = {sudo}
  InitFs <- SharedDisks
  MaxRuns = 2
INVARIANTS
  TypeOK
  ReadsStayTrue
  OkMeansPrivate
PROPERTIES
  OnlyNarrowing
  Promise
CHECK_DEADLOCK FALSE
