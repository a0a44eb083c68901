SPECIFICATION PublishSpec
CONSTANTS
    Requests = {r1, r2, r3, r4, r5}
    Publishers = {p1, p2}
    Slugs = {s1}
    ShortIds = {x}
    Versions = {v1, v2}
    Kinds = {"capabilities"}
    MaxDraws = 2
    Inputs <- MCInputs
    Nil = Nil
    Clients = {c1, c2}
    KeyOf <- MCKeyOf
    Manifests <- MCManifests
    MaxFaults = 1
    p1 = p1  p2 = p2  s1 = s1  v1 = v1  v2 = v2
    c1 = c1
    c2 = c2
SYMMETRY ClientSymmetry
INVARIANTS PublishTypeOK SuccessIsVisible ConflictIsUpdatable QuietPublishSucceeds
