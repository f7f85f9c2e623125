\* Every interleaving of two threads and the spawner on two strings.
SPECIFICATION PoolSpec
CONSTANTS
    T1 = T1
    T2 = T2
    Threads = {T1, T2}
    Spawner = Spawner
    NoAgent = NoAgent
    Hello = Hello
    World = World
    Strings = {Hello, World}
    NoString = NoString
    Capacity = 2
    MaxArgs = 2
INVARIANTS
    PoolTypeOK
    Interned
    WholeStrings
    GuardsConsistent
    CreatorsKnow
PROPERTIES
    WorkEnds
    ImplementsInternTable
CHECK_DEADLOCK FALSE
