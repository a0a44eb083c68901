SPECIFICATION Spec
CONSTANTS
    Runners = {m1, m2}
    Commands = {"start"}
    Publishers = {p1}
    Nil = Nil
PROPERTIES SchemaIsUpToDate
