CONSTANTS
    sync = sync
    notif = notif
    timer = timer
    hosted = hosted
    t1 = t1
    t2 = t2
    d1 = d1
    d2 = d2
    None = None
    Events = {sync, notif}
    Timers = {timer}
    Files = {hosted}
    Synchronization = {sync, timer}
    NativeSignaled = {notif}
    Threads = {t1, t2}
    Dispatches = {d1, d2}
    NativeWaits <- MCNativeWaits
    ProviderWaits <- MCProviderWaits
    MaxDeferred = 2
SPECIFICATION Spec
INVARIANT StrandedOnlyByNativeSignal
INVARIANT LeasesAccounted
INVARIANT SignalIsFifo
SYMMETRY Symmetry
