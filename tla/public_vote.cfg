SPECIFICATION FairSpec
CONSTANTS
    a = a
    b = b
    c = c
    N = 5
    Bad <- TwoBad
    Addrs <- ThreeAddrs
    NoIP = NoIP
    MaxMoves = 2
INVARIANTS
    TypeOK
    HonestMajorityWins
PROPERTIES
    ComesToRest
