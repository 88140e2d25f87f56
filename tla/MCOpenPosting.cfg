SPECIFICATION PageSpec
CONSTANTS
    w1 = w1
    x = x
    y = y
    f1 = f1
    f2 = f2
    NoText = NoText
    Wallets = {w1}
    Texts = {x, y}
    Flows = {f1, f2}
    OwnerOf <- Owners
    TextOf <- Written
    Attempts = 2
    Stranger = Stranger
    MaxStrangers = 1
INVARIANTS
    ShownTaskIsListed
    PostedTwiceOnlyBlind
    BusyIsFreed
CHECK_DEADLOCK FALSE
