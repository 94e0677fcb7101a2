\* The same instance: what a signal does to a server that index.ts launched.
SPECIFICATION Spec
CONSTANTS
    Clients = {c1}
    MaxAge = 1
    Launchers = {"index", "embedded"}
CHECK_DEADLOCK FALSE
INVARIANT
    GracefulExit
