\* The same threads with sound class files only.
SPECIFICATION VmSpec
CONSTANTS
    Object = Object
    NoClass = NoClass
    Main = Main
    Test = Test
    String = String
    Classes = {Object, Main, Test, String}
    Providers <- SoundProviders
    T1 = T1
    T2 = T2
    T3 = T3
    Threads = {T1, T2}
    Spawner = Spawner
    NoAgent = NoAgent
    main = main
    main1 = main1
    run = run
    mainClinit = mainClinit
    testClinit = testClinit
    stringClinit = stringClinit
    Methods = {main, main1, run, mainClinit, testClinit, stringClinit}
    NoMethod = NoMethod
    Code <- MCCode
    Clinit <- JvmTestClinit
    Entry <- MCEntry
INVARIANTS
    InitBeforeUse
CHECK_DEADLOCK FALSE
