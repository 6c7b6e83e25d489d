\* A group of three of four parties, not those with the first ids, two clients.
CONSTANTS
    NParties = 4
    Threshold = 2
    Modulus = 5
    None = None
    Group <- Group013
    Worker <- Group013
    Draws <- TwoDraws
    RandDraws <- TwoRandDraws
    Identity = {1, 3}
    Slope <- SlopeOne
SPECIFICATION ScopedSpec
INVARIANTS
    TypeOK
    TripleMultiplies
    MatchIsRight
CHECK_DEADLOCK FALSE
