SPECIFICATION Spec
CONSTANTS
    Runners = {m1, m2, m3}
    Commands = {"start", "upgrade", "back", "base"}
    Publishers = {p1, p2}
    Nil = Nil
SYMMETRY MigrationSymmetry
INVARIANTS TypeOK SchemaIsARevision EveryPublisherHasItsFirstKey RefusedUpgradeIsDone
