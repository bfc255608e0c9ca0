SPECIFICATION FairSpec
CONSTANTS
    LineWords = 4
    Sets = 2
    FlashBase = 8
    FlashWords = 24
    UartBase = 36
    Programs <- Checked
INVARIANTS FetchCorrect FlashIntact
PROPERTIES StoreOnce LoadCorrect StallsEnd
