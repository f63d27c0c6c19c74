SPECIFICATION FairSpec
CONSTANTS
    main = main
    a = a
    b = b
    c = c
    d = d
    Threads = {main, a, b, c, d}
    Daemons = {d}
    Main = main
    MaxIter = 2
    Envs <- MostEnvs
INVARIANT PausedMeansStopped
INVARIANT FrozenAreKnown
INVARIANT RaceNeedsBirths
INVARIANT ResumeMeansRunning
INVARIANT StatusIsTrue
PROPERTY PauseAnswered
CHECK_DEADLOCK FALSE
