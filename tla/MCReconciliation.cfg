SPECIFICATION RSpec
CONSTANTS
    ann = ann
    bob = bob
    h1 = h1
    h2 = h2
    None = None
    Handlers = {h1, h2}
    Users = {ann, bob}
    Wallets = {1, 2}
    UnknownWallets = {}
    WalletOf <- WalletOfTwo
    Keys = {"k"}
    EmptyKey = ""
    Amounts = {1, 2}
    MaxInt = 3
    WebhookEnabled = FALSE
    QueueSize = 0
    Skew = 1
    MaxTime = 2
CONSTRAINT Focus
SYMMETRY HandlerSymmetry
INVARIANTS
    SkewTolerated
    VerdictIffSnapshot
