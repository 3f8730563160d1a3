CONSTANTS
    Procs = {p1, p2}
    Tables = {t1}
    Nil = Nil
SPECIFICATION FairSpec
INVARIANTS TypeOK LockHeld CacheMade KeysHonest
PROPERTIES CachesKept CallsReturn
