SPECIFICATION FairSpec
CONSTANTS
    Requests = {r1, r2, r3}
    Agents = {a1, a2}
    Spellings = {py, ml, PY}
    Tags = {py, ml}
    Stored <- MCStored
    Bodies <- MCBodies
    Nil = Nil
    a1 = a1  a2 = a2  py = py  ml = ml  PY = PY
INVARIANTS TypeOK RefusalNeedsOverlap DeadlockNeedsCrossedLists
PROPERTIES CommitsItsList EveryTaggingAnswered
