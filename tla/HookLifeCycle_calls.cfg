\* Two threads of the client.  The system stops when the DLL has gone.
SPECIFICATION FairSpec
CONSTANTS
    Threads = {t1, t2}
    Loader = Loader
    Nobody = Nobody
INVARIANTS UnloadRemovesAll SslTogether RefusedOnlyInTransit
PROPERTIES UnloadReturns
CHECK_DEADLOCK FALSE
