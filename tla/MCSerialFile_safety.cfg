SPECIFICATION MCSpec
CONSTANTS
    Bytes = {"a", "b", "c", "0"}
    Zero = "0"
    Sources <- ShortAndLong
    Offsets = {0, 3, 4}
    Reads = {2}
    Writes <- OneByte
    Lengths = {0, 1, 3}
    MaxLen = 5
    BufSize = 2
    Input <- TwoLines
    LineEnds = {2}
    Sizes = {1, 2}
    PipeSize = 1
    Hold = 1
    CbufSize = 2
    MaxBad = 2
    MaxGrumbles = 1
INVARIANT ProgramTrue
PROPERTIES ImplementsFile EveryCallEnds
CHECK_DEADLOCK FALSE
