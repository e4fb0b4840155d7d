CONSTANTS
  MaxOpens = 3
  ConnectTimeout = 2
  HandshakeTimeout = 1
SPECIFICATION FairSpec
INVARIANT TypeOK OneLiveEndpoint DisposeReleases NoStrayCall FailedIffError SessionReady FallbackOnce
PROPERTY Settles TerminalIsFinal FullBudget ImplementsLifecycle
CHECK_DEADLOCK FALSE
