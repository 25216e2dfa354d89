SPECIFICATION Spec
CONSTANTS
    ann = ann
    bob = bob
    h1 = h1
    h2 = h2
    h3 = h3
    None = None
    Handlers = {h1, h2}
    Users = {ann, bob}
    Wallets = {1, 2}
    UnknownWallets = {3}
    WalletOf <- WalletOfTwo
    Keys = {"", "k"}
    EmptyKey = ""
    Amounts = {0, 2}
    MaxInt = 3
    WebhookEnabled = TRUE
    QueueSize = 1
SYMMETRY HandlerSymmetry
INVARIANTS
    TypeOK
    IsolationInv
    LedgerExplainsBalance
    JournalComplete
    OncePerKey
    AnswersAreTrue
    NoDeadlock
    ReadsAgree
    Conserved
PROPERTIES
    HistoryIsKept
    ImplementsBank
    FeedsWorker
