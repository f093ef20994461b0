\* A text whose face plan has more than one motion.
SPECIFICATION Spec
CONSTANTS
    Inputs <- FaceInputs
    PacketMs = 130
    CutMs = 20
    MaxChunks = 3
INVARIANT FaceInStep
