\* Two servers, two operators, rules added between the calls.
SPECIFICATION Spec
CONSTANTS
    Data <- Contents
    Calls <- SomeCalls
    Outputs <- SomeOutputs
    RulePool <- SomeRules
    EgressPool <- SomeEgress
    Servers = {"s1", "s2"}
    Dests = {"d1", "d2"}
    NoServer = NoServer
    NoDest = NoDest
    NoRule = NoRule
    block_threshold = 50
    quarantine_threshold = 30
    default_deny = TRUE
    Operators = {o1, o2}
    MaxCalls = 3
SYMMETRY Symmetry
INVARIANTS
    LayersInv
    IndexNamesSeen
    FileVerifies
