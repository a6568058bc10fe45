SPECIFICATION ListSpec
CONSTANTS
    N = 4
    LastGeneration = 2
INVARIANTS
    ChainExact
PROPERTIES
    PoolSpec
