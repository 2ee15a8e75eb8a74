SPECIFICATION Spec
CONSTANTS
    Tails <- MCTails
    SongCell = 6
INVARIANTS
    SlotAccepted
