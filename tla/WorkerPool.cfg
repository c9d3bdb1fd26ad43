\* Two workers, a queue of one, two tasks (one submitted with SubmitBlocking),
\* a graceful and an immediate shutdown.
SPECIFICATION FairSpec
CONSTANTS
    t1 = t1  t2 = t2
    m = m  g = g  k = k
    Tasks = {t1, t2}
    Blocking = {t2}
    Starters = {m}
    Closers = {g, k}
    Graceful = {g}
    PoolSize = 2
    QueueSize = 1
    SerialStart = TRUE
    NoTask = NoTask
INVARIANTS TaskConservation GracefulDrains CancelReachesTasks StatsAddUp
PROPERTIES ImplementsTaskPool AcceptedTaskRuns ShutdownReturns
CHECK_DEADLOCK FALSE
