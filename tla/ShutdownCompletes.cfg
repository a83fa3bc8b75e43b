CONSTANTS
  Id = {a, b}
  MaxNum = 1
  MaxRequests = 2
SPECIFICATION FairSpec
PROPERTY ShutdownCompletes
