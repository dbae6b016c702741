\* Two rounds of the pool, as by default; a short backoff and long processing.
CONSTANTS
    Worker = {w1, w2}
    BatchSize = 4
    Durations = {5, 30, 60, 129}
    RebalanceTimeout = 300
SPECIFICATION Spec
INVARIANT BatchBelowRebalanceTimeout
