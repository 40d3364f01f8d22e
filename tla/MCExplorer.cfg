SPECIFICATION Explorer
CONSTANTS
    Addresses = {"a", "b"}
    Kinds = {"addr", "utxo"}
    Requests = {1, 2, 3}
    Nobody = Nobody
    Polls = {p1, p2}
    Readers = {v1}
    MaxHeight = 1
INVARIANTS
    WalletPagesExplained
    Announcements
    ListIsFresh
PROPERTIES
    ScansArePromises
    PageAnswered
    TipAnnounced
CHECK_DEADLOCK FALSE
