SPECIFICATION Spec
CONSTANTS
    session = session
    magic1 = magic1
    reset1 = reset1
    reset2 = reset2
    verify1 = verify1
    mail = mail
    UserRow = UserRow
    NoClient = NoClient
    Issues = {mail}
    Refreshes = {refresh1, refresh2}
    Logouts = {logout1}
    MagicLinks = {click1, click2}
    Resets = {change1, change2}
    Verifications = {check1}
    Given = {session, magic1, reset1, reset2, verify1}
    IssuedKind <- MCIssuedKind
    GivenKind <- MCGivenKind
    MaxCalls = 3
    Expiring = {session, reset1}
    MaxExpired = 1
SYMMETRY Symmetry
CHECK_DEADLOCK FALSE
INVARIANTS
    OneLivePerLogin
    ConsumedOnce
    RevokesOlder
PROPERTIES
    SessionsSpec
