SPECIFICATION Spec
CONSTANTS
    n1 = n1
    n2 = n2
    n3 = n3
    Nfts <- MCNfts
    Weight <- MCWeight
    Deposits <- MCDeposits
    INITIAL_VAULT = 7
    ACC_SCALE = 4
    POOL_RENT = 2
    EMISSION_NUM = 1
    EMISSION_DEN = 3
    UNIT = 12
    MAX_DEPOSITS = 2
    MAX_JOINS = 3
    MAX_TIME = 3
SYMMETRY MCSymmetry
CONSTRAINT MCBudget
CHECK_DEADLOCK FALSE
INVARIANTS NftInvariant SharesAreFair ShortOnlyByRounding GumOnlyWhileStaked
PROPERTIES XntNeverForgotten
