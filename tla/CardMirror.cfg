CONSTANTS
    a = a
    b = b
    c = c
    Ideas = {a, b}
    OldIdeas = {a}
    None = None
    MaxVerbs = 3
    MaxFaults = 1
SPECIFICATION FairSpec
INVARIANTS
    TypeOK
    OneCard
    QuietCardsAgree
PROPERTIES
    ChainsDrain
CHECK_DEADLOCK FALSE
