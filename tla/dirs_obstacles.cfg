SPECIFICATION Spec
CONSTANTS
  cli = cli
  agent = agent
  sudo = sudo
  alice = alice
  root = root
  nobody = nobody
  local = local
  share = share
  data = data
  run = run
  sock = sock
  usb = usb
  Procs = {cli, agent, sudo}
  Users = {alice, root}
  NoUser = nobody
  Root = root
  Euid <- MCEuid
  Umask <- NoUmask
  Nodes <- MCNodes
  Chain <- MCChain
  TargetLists <- MCTargets
  FixedMode = {usb}
  FaultyProcs = {}
  InitFs <- ObstacleDisks
  MaxRuns = 1
INVARIANTS
  NoSpuriousFailure
PROPERTIES
  CallsRunOut
CHECK_DEADLOCK FALSE
