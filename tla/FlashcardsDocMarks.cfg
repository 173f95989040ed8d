SPECIFICATION FlashSpec
CONSTANTS
    None = None
    Cards = {w1, w2}
    MaxPending = 2
    MaxMoves = 4
    MaxDraws = 4
INVARIANT MarksAlwaysHitTheCard
CHECK_DEADLOCK FALSE
