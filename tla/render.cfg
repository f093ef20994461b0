\* Six engines, twenty-three jobs, two recordings in one of three paths.
SPECIFICATION Spec
CONSTANTS
    Engines <- SomeEngines
    Takes <- SomeTakes
    Requests <- SomeRequests
    Batch = 32
    MaxWindows = 3
INVARIANTS
    TypeOK
    OwnVoice
    EveryRowShown
    PictureInStep
    FaceOfTheSource
