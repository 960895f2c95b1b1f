SPECIFICATION SpecEnv
CONSTANTS
  cli = cli
  agent = agent
  alice = alice
  nobody = nobody
  root = root
  data = data
  run = run
  sock = sock
  Procs = {cli, agent}
  Users = {alice}
  NoUser = nobody
  Root = root
  Euid <- MCEuid
  Umask <- MCUmask
  Nodes <- MCNodes
  Chain <- MCChain
  TargetLists <- MCTargets
  FixedMode = {}
  FaultyProcs = {}
  InitFs <- Disks
  MaxRuns = 2
  MaxChanges = 3
  ToolModes = {{"owner"}, {"owner", "group", "other"}}
INVARIANTS
  OkUnlessLate
CHECK_DEADLOCK FALSE
