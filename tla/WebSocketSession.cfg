SPECIFICATION FairSpec
CONSTANTS
  Frames <- AllFrames
  MaxFrames = 3
  MaxMessage = 2
  MaxPings = 1
INVARIANTS CloseIsLast EchoIsOneMessage RepliesInOrder
PROPERTIES CloseAnswered MessageEchoed
