\* One thread that writes over TLS.
SPECIFICATION Spec
CONSTANTS
    Threads = {t1}
    Loader = Loader
    Nobody = Nobody
INVARIANT HookEnteredOnce
CHECK_DEADLOCK FALSE
