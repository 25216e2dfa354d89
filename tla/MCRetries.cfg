SPECIFICATION FairSpec
CONSTANTS
    ann = ann
    bob = bob
    h1 = h1
    h2 = h2
    h3 = h3
    None = None
    Handlers = {h1, h2, h3}
    Users = {ann}
    Wallets = {1, 2}
    UnknownWallets = {}
    WalletOf <- WalletOfOne
    Keys = {"k"}
    EmptyKey = ""
    Amounts = {1}
    MaxInt = 3
    WebhookEnabled = FALSE
    QueueSize = 1
PROPERTIES
    EveryCallAnswered
