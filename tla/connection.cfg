\* Both pollers; two frames of the peer and two messages of other threads.
SPECIFICATION FairSpec
CONSTANTS
    Pollers <- BothPollers
    kMaxQueuedMessages = 2
    kMaxQueuedBytes = 3
    Frames <- AllFrames
    MaxFrames = 2
    MaxPosts = 2
INVARIANT FramesWhole
PROPERTIES Delivered FramesHandled LoopPolls
CHECK_DEADLOCK FALSE
