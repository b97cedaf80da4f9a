\* One execution, with and without always_standby.
SPECIFICATION FairFallbackSpec
INVARIANTS NoAnswerLost ErrorReported StandbyWaits
PROPERTY HangBypassed
CHECK_DEADLOCK FALSE
