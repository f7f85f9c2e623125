\* Two threads, every interleaving, with class files that may be absent or broken.
SPECIFICATION VmSpec
CONSTANTS
    Object = Object
    NoClass = NoClass
    Main = Main
    Test = Test
    String = String
    Classes = {Object, Main, Test, String}
    Providers <- MCProviders
    T1 = T1
    T2 = T2
    T3 = T3
    Threads = {T1, T2, T3}
    Spawner = Spawner
    NoAgent = NoAgent
    main = main
    main1 = main1
    run = run
    mainClinit = mainClinit
    testClinit = testClinit
    stringClinit = stringClinit
    Methods = {main, main1, run, mainClinit, testClinit, stringClinit}
    NoMethod = NoMethod
    Code <- MCCode
    Clinit <- MCClinit
    Entry <- MCEntry
INVARIANTS
    VmTypeOK
    ClinitAtMostOnce
    LoadedIsScheduled
    InstructionsRunOnce
    RetryFindsInitialized
    LoadsUnderLock
PROPERTIES
    ThreadsEnd
    InitializersFinish
CHECK_DEADLOCK FALSE
