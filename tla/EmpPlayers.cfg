SPECIFICATION PlayersSpec
CONSTANTS
    Countries = {a, b, c}
    Deities = {c}
    Sellers = {a}
    Bidders = {b, c}
    None = None
    Units = {u}
    BuyTax = 200
    TradeTax = 100
    ItemMax = 2
    Prices = {100, 200, 300}
    Offers = {100}
    Amounts = {1}
    Money0 = 600
    Items0 = 1
    MaxLots = 1
    MaxTrades = 2
    MaxBusy = 2
    Struck = {a, b}
    MaxEvents = 1
    RingSize = 3
    BufSize = 2
    SockSize = 3
    LowWater = 1
    Typings <- OneTyping
    Batches <- TwoBatches
    MaxInterrupts = 1
    MaxBatches = 1
INVARIANTS
    
    WireStateOK
PROPERTIES
    DealsStand
    
CHECK_DEADLOCK FALSE
