\* Both programs, every stream of up to three frames, chunks of up to six bytes.
SPECIFICATION Spec
CONSTANTS
    Programs = {"pub0", "pub1", "sub"}
    Streams <- MCStreams
    Size <- MCSize
    MaxRead = 6
    Attempts = 2
INVARIANTS
    FramesInOrder
    SuccessIsAcked
PROPERTY PublisherEnds
CHECK_DEADLOCK FALSE
