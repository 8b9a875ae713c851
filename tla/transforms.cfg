\* Every image job of up to two operations, every video job of up to three.
SPECIFICATION TransformsSpec
CONSTANTS
    Sources <- SmallSources
    Sides <- SmallSides
    Requests <- SmallRequests
    MaxOps = 2
    Durations = {1, 2}
    VideoSides <- SmallVideoSides
    VideoFormats <- SmallFormats
    Crfs <- SmallCrfs
    Instants <- SmallInstants
    NoCrf = NoCrf
    MaxVideoOps = 3
    ChosenKeys = {"png"}
INVARIANTS
    SavedImageIsValid
    SavedMeansAllValid
    InvalidOperationEncodesNothing
    EncodedAsAsked
    OneThumbnailPerOperation
    StoredAsWritten
PROPERTIES
    OneSideKeepsAspect
    OneSideNeverUpscales
CHECK_DEADLOCK FALSE
