CONSTANT MaxStarts = 2
SPECIFICATION Spec
INVARIANT NoSelfJoin
