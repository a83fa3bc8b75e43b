SPECIFICATION FairSpec
CONSTANTS
  N = 2
  Layouts <- MCLayouts
  ErrorLimit = 1
INVARIANTS
  TypeOK
  Owned
  SafeUndisturbed
  HeaderFirst
  ThreadsAgree
  DecoderOpen
  NoThreadStuck
PROPERTIES
  SourceLost
  CallsReturn
  StopCompletes
