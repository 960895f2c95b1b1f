SPECIFICATION FairSpec
CONSTANTS
  cli = cli
  agent = agent
  sudo = sudo
  alice = alice
  root = root
  nobody = nobody
  local = local
  share = share
  data = data
  run = run
  sock = sock
  usb = usb
  Procs = {cli, agent}
  Users = {alice, root}
  NoUser = nobody
  Root = root
  Euid <- MCEuid
  Umask <- NoUmask
  Nodes <- MCNodes
  Chain <- MCChain
  TargetLists <- MCTargets
  FixedMode = {}
  FaultyProcs = {}
  InitFs <- CleanDisks
  MaxRuns = 2
PROPERTIES
  EventuallyPrepared
CHECK_DEADLOCK FALSE
