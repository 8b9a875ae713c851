\* A resize and a thumbnail of a video.
SPECIFICATION TransformsSpec
CONSTANTS
    Sources <- SmallSources
    Sides <- SmallSides
    Requests <- SmallRequests
    MaxOps = 0
    Durations = {1, 2}
    VideoSides <- SmallVideoSides
    VideoFormats <- SmallFormats
    Crfs <- SmallCrfs
    Instants <- SmallInstants
    NoCrf = NoCrf
    MaxVideoOps = 2
    ChosenKeys = {"png"}
INVARIANT
    ThumbnailFollowsResize
CHECK_DEADLOCK FALSE
