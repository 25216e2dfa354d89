SPECIFICATION TSpec
CONSTANTS
    ann = ann
    bob = bob
    None = None
    Users = {ann, bob}
    Wallets = {1, 2}
    UnknownWallets = {3}
    WalletOf <- WalletOfTwo
    Keys = {"k"}
    EmptyKey = ""
    Amounts = {0, 1}
    MaxInt = 1
    TransactionIds = {1, 2}
    Values <- Int64s
    MaxEntries = 3
CONSTRAINT Focus
INVARIANTS
    ReportDecides
