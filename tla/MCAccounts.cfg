SPECIFICATION Spec
CONSTANTS
    p1 = p1
    p2 = p2
    c1 = c1
    c2 = c2
    None = None
    Processes = {p1, p2}
    Callers = {c1, c2}
    Spellings = {"", "Ann", "Adm", "adm"}
    Normalize <- Lower
    Passwords = {"", "secret-1", "secret-2"}
    ShortPasswords = {""}
    AdminEmails = {"adm", "Adm"}
    AdminPassword = "secret-1"
SYMMETRY SessionSymmetry
INVARIANTS
    AccountsComplete
    RepliesAreTrue
    RefusalsAreTrue
    AdminIsSeeded
    AdminOutOfReach
