SPECIFICATION QueueSpec
CONSTANTS
    Items = {x, y, z}
    NoItem = NoItem
    Cap = 4
    Word = 8
SYMMETRY Symmetry
INVARIANTS LiveSlots
PROPERTY ImplementsDeque
