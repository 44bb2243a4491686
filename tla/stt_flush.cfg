\* The sender of the audio dies, and the hang-up waits for its queue for ever.
SPECIFICATION LinkFairSpec
CONSTANTS
    QueueFrames = 2
    MaxFrames = 3
PROPERTIES
    HangupIsBrief
CHECK_DEADLOCK FALSE
