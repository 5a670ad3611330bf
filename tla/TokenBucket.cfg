\* A token takes two ticks and a burst is two updates.  An entry is dropped
\* after more than five idle ticks, and the clock leaves room for a burst, the
\* drop and a second burst inside one observed interval.
CONSTANTS
    Keys = {k1}
    Capacity = 2
    Window = 5
    TTL = 5
    MaxTime = 12
    MaxResets = 2
SPECIFICATION Spec
INVARIANTS TypeOK RateBound RefusalIsShort
PROPERTIES CleanupUnobservable ImplementsLimiter
