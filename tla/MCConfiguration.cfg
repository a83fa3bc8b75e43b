SPECIFICATION Spec
CONSTANTS
  Hosts <- MCHosts
  Ports <- MCPorts
  Files <- MCFiles
  Bodies <- MCBodies
INVARIANTS
  TypeOK
  NoNullParameter
  PoolUsable
  ServesWhereTold
PROPERTY RunningTaskKept
