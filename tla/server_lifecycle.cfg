\* Both ways to launch the server; a request beside the start-up's and the
\* timer's checks, and three calls of shutdown() that may overlap.
SPECIFICATION FairSpec
CONSTANTS
    Clients = {c1}
    MaxAge = 1
    Launchers = {"index", "embedded"}
CHECK_DEADLOCK FALSE
INVARIANTS
    TypeOK
    OneCheckAtATime
    VerdictFitsChecks
    ClientsSeeCheckedStatus
    BundlerHasDatabase
    HooksExitGracefully
PROPERTIES
    ShutdownEnds
    StatusIsRenewed
