SPECIFICATION SpecStarted
CONSTANTS
    Threads = {t1, t2}
    Mutexes = {1, 2, 3}
    NoThread = NoThread
    NoHold = NoHold
    Empty = Empty
    Slot <- OneSlot
    TlsMax = 1
    MaxStarts = 2
SYMMETRY Symmetry
INVARIANTS TypeOK   ListIsOfThisSession
