CONSTANTS
  Id = {a, b}
  MaxNum = 1
  MaxRequests = 2
SPECIFICATION Spec
INVARIANT AddFailureIsReported
