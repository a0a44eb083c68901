SPECIFICATION Spec
CONSTANTS
    Agents = {x, y, z}
    Protocols = {"a2a", "rest"}
    AuthTypes = {"bearer"}
    Media = {"text"}
    Codes <- MCCodes
    Cards <- MCCards
    Queries <- MCQueries
    MaxChanges = 2
    Nil = Nil
SYMMETRY AgentSymmetry
INVARIANTS ConnectsOverMatchedProtocol
