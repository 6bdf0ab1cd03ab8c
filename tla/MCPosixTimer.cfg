\* 750 ticks per second: 1 ms is 1 tick, 2 ms are 2 ticks, and the restart of a
\* timer of n ticks asks for n + 1.
CONSTANTS
    TickModulus = 6
    PoolSize = 2
    TickHz = 750
    Milliseconds = {1}
    MaxGen = 1
    PosixPool <- OnePosixTimer
    MaxPosixGen = 2
    MaxAppTimers = 1
SPECIFICATION PosixTimerSpec
INVARIANTS
    TimerListsExact
    TimersInStep
PROPERTIES
    ExpiresOnTime
    EveryExpiryServed
