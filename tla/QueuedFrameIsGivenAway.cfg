CONSTANT MaxFrames = 2
SPECIFICATION Spec
INVARIANT QueuedFrameIsGivenAway
