SPECIFICATION Spec
CONSTANTS
    Requests = {r1, r2, r3}
    Publishers = {p1, p2, p3}
    Keys = {k1, k2, k3, k4}
    Prefixes = {a, b, c}
    PrefixOf <- MCPrefixOf
    Inputs <- MCInputs
    Databases <- DisabledDatabase
    Nil = Nil
    p1 = p1  p2 = p2  p3 = p3  k1 = k1  k2 = k2  k3 = k3  k4 = k4
    a = a  b = b  c = c
    r1 = r1
    r2 = r2
    r3 = r3
SYMMETRY RequestSymmetry
PROPERTIES DeletionIsFinal
