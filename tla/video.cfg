\* Text jobs of seven scripts and chunk jobs of seven lengths, one after the other.
SPECIFICATION Spec
CONSTANTS
    Inputs <- AllInputs
    PacketMs = 130
    CutMs = 20
    MaxChunks = 3
INVARIANTS
    TypeOK
    TimelinesTile
    PartsInStep
    SpokenToTheEnd
    RenderedAsAsked
