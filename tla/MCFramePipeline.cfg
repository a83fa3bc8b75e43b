CONSTANT MaxFrames = 3
SPECIFICATION FairSpec
INVARIANTS TypeOK Custody FrontExists
PROPERTIES ChannelSpec FramesMove
