CONSTANTS
  Id = {a, b, c}
  MaxNum = 2
  MaxRequests = 4
SPECIFICATION FairSpec
INVARIANTS TypeOK MapBound DestroyerAlone RepliesTrue NobodyStuck
PROPERTIES DestructorEnds RegistrySpec RequestAnswered LoopNoticesServerEnd ShutdownCompletesIfWaiting
