\* Two API clients save, reload and stop while an operator edits the file.
SPECIFICATION FairSpec
CONSTANTS
    Clients = {c1, c2}
    Configs = {good, better}
    Unloadable = unloadable
    None = none
INVARIANTS StatusExact FallbackIsRunning AcceptedSaveIsLoaded
PROPERTY CommandsEnd
CHECK_DEADLOCK FALSE
