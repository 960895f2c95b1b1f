SPECIFICATION CliSpec
CONSTANTS
  cli = cli
  agent = agent
  alice = alice
  root = root
  nobody = nobody
  NoInvocation = NoInvocation
  Procs = {cli, agent}
  Users = {alice, root}
  NoUser = nobody
  Root = root
  Euid <- MCEuid
  Umask <- MCUmask
  Nodes <- MCNodes
  Chain <- MCChain
  TargetLists <- MCTargetLists
  FixedMode = {}
  FaultyProcs = {}
  InitFs <- MCInitFs
  MaxRuns = 2
  Binary <- MCBinary
  Commands <- MCCommands
  Invocations <- MCInvocations
  HomeChild <- MCHomeChild
  NamespaceDir <- MCNamespaceDir
INVARIANTS
  CliTypeOK
  ExitCodeTellsTheTruth
PROPERTIES
  OnlyNamedPaths
CHECK_DEADLOCK FALSE
