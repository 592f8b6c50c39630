SPECIFICATION FairSpec
CONSTANTS
    Tabs = {t1, t2}
    NoTab = NoTab
    None = None
    Refused = Refused
    Busy = Busy
    Settings <- RaceSettings
CHECK_DEADLOCK FALSE
INVARIANT TypeOK
INVARIANT NoUsedCookieIsSent
PROPERTY RejectedRefreshEndsDeadSession
PROPERTY ConfirmedSignOutLeavesNoCookie
PROPERTY SignOutSparesNewerSignIn
PROPERTY EndedTabGetsNoToken
PROPERTY CallsSettle
