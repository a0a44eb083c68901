SPECIFICATION FairSpec
CONSTANTS
    Requests = {r1, r2, r3}
    Publishers = {p1, p2}
    Slugs = {s1, s2}
    ShortIds = {x, y}
    Versions = {v1, v2, v3}
    Kinds = {"capabilities"}
    MaxDraws = 2
    Inputs <- RaceInputs
    Nil = Nil
    p1 = p1  p2 = p2  s1 = s1  s2 = s2  v1 = v1  v2 = v2  v3 = v3
    r1 = r1
    r2 = r2
    r3 = r3
    x = x
    y = y
INVARIANTS TypeOK NamesAreUnique AcknowledgedIsStored
PROPERTIES OnlyOwnerWrites EveryRequestAnswered
