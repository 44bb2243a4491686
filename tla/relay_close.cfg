\* A microphone comes or goes while aclose() walks the readers.
CONSTANTS
    Speakers = {ann, ben}
    MaxTracks = 1
SPECIFICATION RelayFairSpec
CHECK_DEADLOCK FALSE
PROPERTIES
    CloseReachesTheLog
