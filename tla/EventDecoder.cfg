\* Two frames of up to five bytes, read in pieces of up to three.
SPECIFICATION Spec
CONSTANTS
    Frames <- MCFrames
    Typed = {"assistantResponseEvent"}
    Ignored = {"citationEvent"}
    Prelude = 2
    Trailer = 1
    MaxMessage = 5
    Chunk = 3
    MaxFrames = 2
INVARIANTS TypeOK
PROPERTIES ImplementsChannel
CHECK_DEADLOCK FALSE
