SPECIFICATION Spec
CONSTANTS
    Bank = {1, 2, 12}
    Files <- MCFiles
    Draws <- MCDraws
    Started = {1, 2, 3, 4}
INVARIANTS
    TypeOK
    SameChain
    LinksAgree
    RequestsRouted
    GeneratedApart
    DrawnInShares
CHECK_DEADLOCK FALSE
