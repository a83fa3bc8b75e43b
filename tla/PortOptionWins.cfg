SPECIFICATION Spec
CONSTANTS
  Hosts <- MCHosts
  Ports <- MCPorts
  Files <- MCFiles
  Bodies <- MCBodies
INVARIANT PortOptionWins
