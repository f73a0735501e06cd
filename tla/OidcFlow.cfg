CONSTANTS
    s1 = s1
    s2 = s2
    u1 = u1
    u2 = u2
    c1 = c1
    c2 = c2
    r1 = r1
    r2 = r2
    Clients = {c1, c2}
    Sessions = {s1, s2}
    Users = {u1, u2}
    Requests = {r1, r2}
    UserOf <- MCUserOf
    SessionEnds <- MCSessionEnds
    EarlierGrants <- MCEarlierGrants
    TransactionLifetime = 1
    CodeLifetime = 1
    TokenLifetime = 1
    MaxTime = 1
    MaxTransactions = 1
    MaxCodes = 2
    MaxTokens = 2
SPECIFICATION Spec
SYMMETRY MCSymmetry
INVARIANTS
    GrantsAreUsedOnce
    NothingOutlivesItsClient
    ResolvableTokensRestOnConsent
    NoTokenAfterLogout
