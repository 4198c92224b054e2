\* Blocks of 4 bytes, words of 16, pieces of 11: every size up to more bits than the two words count.
SPECIFICATION Spec
CONSTANTS
    Block = 4
    Bits = 2
    Word = 16
    Piece = 11
    MaxSize = 150
    ShortReads = FALSE
INVARIANTS TypeOK NothingLost DigestOfFile
CHECK_DEADLOCK FALSE
