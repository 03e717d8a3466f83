\* Every workload of up to 4 messages over 3 orders and 3 prices.
SPECIFICATION MCSpec
CONSTANTS
    Ids = {1, 2, 3}
    Prices = {1, 2, 3}
    Quantities = {1, 2}
    MaxMessages = 4
INVARIANTS TypeOK Uncrossed NoTradeThrough
