---------------------------- MODULE MCClassInit ----------------------------
(***************************************************************************)
(* Two threads on the classes of jvm_test: Main (whose <clinit> reads a    *)
(* static of Test), Test (whose <clinit> writes it), Object and String.    *)
(***************************************************************************)
EXTENDS ClassInit

CONSTANTS Main, Test, String, T1, T2, T3, main, main1, run, mainClinit, testClinit, stringClinit

Use(c)       == [cls |-> c, calls |-> NoMethod]
Invoke(c, m) == [cls |-> c, calls |-> m]

MCCode ==
    main         :> <<Use(Test), Invoke(Main, run)>> @@
    main1        :> <<Use(Test)>> @@
    run          :> <<Use(String)>> @@
    mainClinit   :> <<Use(Test)>> @@
    testClinit   :> <<Use(Test)>> @@
    stringClinit :> <<>>

MCClinit ==
    [c \in Classes |->
        CASE c = Main   -> mainClinit
          [] c = Test   -> testClinit
          [] c = String -> stringClinit
          [] OTHER      -> NoMethod]

\* As in jvm_test, where String has no static initialiser.
JvmTestClinit == [MCClinit EXCEPT ![String] = NoMethod]

\* Thread 1 is started with an argument; thread 2 shares its main class and has
\* no arguments; thread 3 names a method that does not exist.
MCEntry ==
    [t \in Threads |->
        CASE t = T1 -> [cls |-> Main, method |-> main, args |-> TRUE, string |-> String]
          [] t = T2 -> [cls |-> Main, method |-> main1, args |-> FALSE, string |-> String]
          [] t = T3 -> [cls |-> Test, method |-> NoMethod, args |-> FALSE, string |-> String]]

Sound(supers, fields) ==
    [status : {"wellformed"}, super : supers, fields : fields, size : {1}]

Broken == [status : {"missing", "malformed"}, super : {Object}, fields : {{}}, size : {1}]

\* Main may have a field of class Test; Test may be sound, absent or broken, may
\* extend Main and may have a field of class String, absent or broken likewise.
MCProviders ==
    {p \in [Classes -> Broken \cup Sound({NoClass, Object, Main}, {{}, {Test}, {String}})] :
        /\ p[Object] \in Sound({NoClass}, {{}})
        /\ p[Main] \in Sound({Object}, {{}, {Test}})
        /\ p[Test] \in Broken \cup Sound({Object, Main}, {{}, {String}})
        /\ p[String] \in Sound({Object}, {{}}) \cup Broken}

\* The class files of jvm_test.
SoundProviders ==
    {p \in MCProviders : \A c \in Classes :
        p[c].status = "wellformed" /\ p[c].super # Main /\ p[c].fields = {}}
=============================================================================
