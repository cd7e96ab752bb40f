----------------------------- MODULE MainWindow ----------------------------
(***************************************************************************)
(* The life of the servers (MainWindow.cpp, main.cpp, BgThread.cpp): the   *)
(* user launches and stops them with two buttons, one that ends by itself  *)
(* may be restarted automatically, and closing the window ends the         *)
(* program.                                                                *)
(*                                                                         *)
(* The user interface is one thread that handles events.  A server is a    *)
(* CommsThread object: the pool runs it, its threadDone signal is queued   *)
(* to the user interface, and the pool deletes it when run() returns, at   *)
(* any time before or after that event is handled.  Its destructor frees   *)
(* the port the clients connect to.                                        *)
(***************************************************************************)
EXTENDS Integers

CONSTANT MaxServers     \* bound: server objects that exist at a time

ASSUME MaxServersAssumption == MaxServers \in Nat \ {0}

Servers == 1 .. MaxServers
Nullptr == 0

VARIABLES
    ui,                 \* what the user interface does, see UiStates
    mActiveThread, mManuallyCancelled,
    enabled,            \* which widgets are enabled
    settingsValid,      \* the ports in the settings panel are numbers
    autoRestart,        \* its check box
    servers,            \* the state and the cancel flag of every object
    port,               \* the object that holds the outgoing port
    threadDone,         \* the number of threadDone events that wait
    wanted,             \* history: the user's last order was to run a server
    danglingCancel      \* history: cancel() was called on a deleted object

uiVars == <<ui, mActiveThread, mManuallyCancelled, enabled, settingsValid,
            autoRestart, wanted, danglingCancel>>
serverVars == <<servers, port, threadDone>>
vars == <<uiVars, serverVars>>

UiStates == {"starting",    \* in the constructor, with --autostart
             "idle",        \* waiting for events
             "restarting",  \* in serverDone(), asleep before launchServer()
             "closed",      \* the window is closed, the event loop still runs
             "leaving",     \* the event loop has ended
             "exited",
             "exists",      \* terminated by the exception of launchServer()
             "settings"}    \* terminated by the exception of getSettings()

Widgets == {"mSettingsPanel", "mLaunchServerButton", "mStopServerButton"}
RunningWidgets == [w \in Widgets |-> w = "mStopServerButton"]
StoppedWidgets == [w \in Widgets |-> w # "mStopServerButton"]

\* free: there is no such object; queued in the pool; starting: in execute(),
\* before open(); serving; done: run() returns, the object is being deleted.
ServerStates == {"free", "queued", "starting", "serving", "done"}

-----------------------------------------------------------------------------
(* MainWindow                                                              *)

\* Mutant of launchServer: the settings panel is not disabled.
launchServerEditable ==
    /\ mManuallyCancelled' = FALSE
    /\ enabled' = [RunningWidgets EXCEPT !["mSettingsPanel"] = TRUE]
    /\ mActiveThread = Nullptr
    /\ IF settingsValid
       THEN \E s \in Servers :
              /\ servers[s].state = "free"
              /\ servers' = [servers EXCEPT ![s] = [state |-> "queued", mShouldCancel |-> FALSE]]
              /\ mActiveThread' = s /\ ui' = "idle"
       ELSE ui' = "settings" /\ UNCHANGED <<mActiveThread, servers>>
    /\ UNCHANGED <<settingsValid, autoRestart, port, threadDone, danglingCancel>>

(***************************************************************************)
(* The widgets change before anything can fail.  An exception leaves the   *)
(* slot, and with it the event loop and main().                            *)
(***************************************************************************)
launchServer ==
    /\ mManuallyCancelled' = FALSE
    /\ enabled' = RunningWidgets
    /\ ui' = CASE mActiveThread # Nullptr -> "exists"
                [] mActiveThread = Nullptr /\ ~settingsValid -> "settings"
                [] OTHER -> "idle"
    /\ IF ui' = "idle"
       THEN \E s \in Servers :
              /\ servers[s].state = "free"
              /\ servers' = [servers EXCEPT ![s] =
                                [state |-> "queued", mShouldCancel |-> FALSE]]
              /\ mActiveThread' = s
       ELSE UNCHANGED <<mActiveThread, servers>>
    /\ UNCHANGED <<settingsValid, autoRestart, port, threadDone, danglingCancel>>

\* The constructor with --autostart, and a click on Launch Server.
Autostart == ui = "starting" /\ launchServer /\ wanted' = TRUE

LaunchClicked ==
    /\ ui = "idle" /\ enabled["mLaunchServerButton"]
    /\ launchServer
    /\ wanted' = TRUE

\* Mutants of stopServer: the user's order is forgotten; the thread is not told.
stopServerForgets ==
    /\ servers' = IF mActiveThread # Nullptr /\ servers[mActiveThread].state # "free"
                  THEN [servers EXCEPT ![mActiveThread].mShouldCancel = TRUE]
                  ELSE servers
    /\ wanted' = FALSE
    /\ UNCHANGED <<mManuallyCancelled, mActiveThread, enabled, settingsValid, autoRestart,
                   port, threadDone, danglingCancel>>
stopServerSilent ==
    /\ mManuallyCancelled' = TRUE
    /\ wanted' = FALSE
    /\ UNCHANGED <<mActiveThread, enabled, settingsValid, autoRestart, servers,
                   port, threadDone, danglingCancel>>

\* The pointer is not null until threadDone has been handled; the object may
\* have been deleted by then.
stopServer ==
    /\ mManuallyCancelled' = TRUE
    /\ IF mActiveThread # Nullptr /\ servers[mActiveThread].state # "free"
       THEN servers' = [servers EXCEPT ![mActiveThread].mShouldCancel = TRUE]
       ELSE UNCHANGED servers
    /\ danglingCancel' = (danglingCancel
          \/ (mActiveThread # Nullptr /\ servers[mActiveThread].state = "free"))
    /\ wanted' = FALSE
    /\ UNCHANGED <<mActiveThread, enabled, settingsValid, autoRestart, port,
                   threadDone>>

StopClicked ==
    /\ ui = "idle" /\ enabled["mStopServerButton"]
    /\ stopServer
    /\ UNCHANGED ui

\* A disabled panel cannot be edited.
EditSettings ==
    /\ ui = "idle" /\ enabled["mSettingsPanel"]
    /\ \/ settingsValid' = ~settingsValid /\ UNCHANGED autoRestart
       \/ autoRestart' = ~autoRestart /\ UNCHANGED settingsValid
    /\ UNCHANGED <<ui, mActiveThread, mManuallyCancelled, enabled, wanted,
                   danglingCancel, serverVars>>

\* Mutant of serverDone: the check box is not looked at.
serverDoneStays ==
    /\ ui \in {"idle", "closed"} /\ threadDone > 0
    /\ threadDone' = threadDone - 1
    /\ enabled' = StoppedWidgets
    /\ mActiveThread' = Nullptr
    /\ UNCHANGED <<ui, mManuallyCancelled, settingsValid, autoRestart, wanted,
                   danglingCancel, servers, port>>

\* The first part of serverDone(), up to the five seconds of sleep before a
\* restart, during which no event is handled.
serverDone ==
    /\ ui \in {"idle", "closed"} /\ threadDone > 0
    /\ threadDone' = threadDone - 1
    /\ enabled' = StoppedWidgets
    /\ mActiveThread' = Nullptr
    /\ ui' = IF ~mManuallyCancelled /\ autoRestart THEN "restarting" ELSE ui
    /\ UNCHANGED <<mManuallyCancelled, settingsValid, autoRestart, wanted,
                   danglingCancel, servers, port>>

Restart == ui = "restarting" /\ launchServer /\ UNCHANGED wanted

closeEvent ==
    /\ ui = "idle"
    /\ stopServer
    /\ ui' = "closed"

\* The last window is closed: exec() returns, perhaps before all events have
\* been handled, and main() ends when the pool has nothing left to run.
Quit ==
    /\ ui = "closed"
    /\ ui' = "leaving"
    /\ UNCHANGED <<mActiveThread, mManuallyCancelled, enabled, settingsValid,
                   autoRestart, wanted, danglingCancel, serverVars>>

Exit ==
    /\ ui = "leaving"
    /\ \A s \in Servers : servers[s].state = "free"
    /\ ui' = "exited"
    /\ UNCHANGED <<mActiveThread, mManuallyCancelled, enabled, settingsValid,
                   autoRestart, wanted, danglingCancel, serverVars>>

-----------------------------------------------------------------------------
(* A server: what the window relies on of CommsThread and the pool         *)

Terminated == ui \in {"exited", "exists", "settings"}

Run(s) ==
    /\ ~Terminated /\ servers[s].state = "queued"
    /\ servers' = [servers EXCEPT ![s].state = "starting"]
    /\ UNCHANGED <<uiVars, port, threadDone>>

\* PythonConnectionManager::open()
Open(s) ==
    /\ ~Terminated /\ servers[s].state = "starting" /\ port = Nullptr
    /\ servers' = [servers EXCEPT ![s].state = "serving"]
    /\ port' = s
    /\ UNCHANGED <<uiVars, threadDone>>

\* Mutants of endRun: an exception emits the signal a second time, or not at all.
endRunTwice(s) ==
    /\ servers' = [servers EXCEPT ![s].state = "done"]
    /\ threadDone' = threadDone + 2
    /\ UNCHANGED <<uiVars, port>>
endRunSilent(s) ==
    /\ servers' = [servers EXCEPT ![s].state = "done"]
    /\ UNCHANGED <<uiVars, port, threadDone>>

\* execute() returns or throws; either way run() emits threadDone.
endRun(s) ==
    /\ servers' = [servers EXCEPT ![s].state = "done"]
    /\ threadDone' = threadDone + 1
    /\ UNCHANGED <<uiVars, port>>

\* A server that is being deleted still holds the port: bind() throws.
OpenFails(s) ==
    ~Terminated /\ servers[s].state = "starting" /\ port # Nullptr /\ endRun(s)

Obey(s) ==
    /\ ~Terminated /\ servers[s].state = "serving" /\ servers[s].mShouldCancel
    /\ endRun(s)

Fail(s) ==
    /\ ~Terminated /\ servers[s].state = "serving" /\ ~servers[s].mShouldCancel
    /\ endRun(s)

\* Mutant of Delete: the port is not given back.
DeleteKeepsPort(s) ==
    /\ ~Terminated /\ servers[s].state = "done"
    /\ servers' = [servers EXCEPT ![s].state = "free"]
    /\ UNCHANGED <<uiVars, threadDone, port>>

Delete(s) ==
    /\ ~Terminated /\ servers[s].state = "done"
    /\ servers' = [servers EXCEPT ![s].state = "free"]
    /\ port' = IF port = s THEN Nullptr ELSE port
    /\ UNCHANGED <<uiVars, threadDone>>

-----------------------------------------------------------------------------
Init ==
    /\ ui \in {"starting", "idle"}
    /\ mActiveThread = Nullptr /\ mManuallyCancelled = FALSE
    /\ enabled = StoppedWidgets
    /\ settingsValid = TRUE /\ autoRestart = FALSE
    /\ servers = [s \in Servers |-> [state |-> "free", mShouldCancel |-> FALSE]]
    /\ port = Nullptr /\ threadDone = 0
    /\ wanted = FALSE /\ danglingCancel = FALSE

Ui == Autostart \/ serverDone \/ Restart \/ Quit \/ Exit
User == LaunchClicked \/ StopClicked \/ EditSettings \/ closeEvent
Server(s) == Run(s) \/ Open(s) \/ OpenFails(s) \/ Obey(s) \/ Delete(s)

Next == Ui \/ User \/ \E s \in Servers : Server(s) \/ Fail(s)

Spec == Init /\ [][Next]_vars

(***************************************************************************)
(* The event loop handles its events, the pool runs and deletes what it    *)
(* was given, and a server that is told to stop ends (which is LifeCycle   *)
(* of CommsThread).  The user need not do anything, and no server need     *)
(* fail.                                                                   *)
(***************************************************************************)
FairSpec == Spec /\ WF_vars(Ui) /\ \A s \in Servers : WF_vars(Server(s))

-----------------------------------------------------------------------------
(* Properties                                                              *)

TypeOK ==
    /\ ui \in UiStates
    /\ mActiveThread \in Servers \cup {Nullptr}
    /\ mManuallyCancelled \in BOOLEAN /\ settingsValid \in BOOLEAN
    /\ autoRestart \in BOOLEAN /\ wanted \in BOOLEAN /\ danglingCancel \in BOOLEAN
    /\ enabled \in [Widgets -> BOOLEAN]
    /\ servers \in [Servers -> [state : ServerStates, mShouldCancel : BOOLEAN]]
    /\ port \in Servers \cup {Nullptr}
    /\ threadDone \in Nat

(***************************************************************************)
(* A server that runs, or will, is the one that Stop cancels, and the Stop *)
(* button is enabled: an event of an earlier server never makes the window *)
(* forget it.                                                              *)
(***************************************************************************)
ServerControlled ==
    \A s \in Servers :
        servers[s].state \in {"queued", "starting", "serving"} =>
            mActiveThread = s /\ enabled["mStopServerButton"]

\* "Attempted to start a new server thread while one already exists" is never
\* thrown, and an automatic restart finds the settings as they were.
RestartPossible ==
    ui # "exists" /\ (ui = "restarting" => mActiveThread = Nullptr /\ settingsValid)

\* No server is started after the user has stopped one or closed the window,
\* unless the user launches it, whatever events were waiting.
StopIsFinal ==
    [][\A s \in Servers :
          servers[s].state = "free" /\ servers'[s].state = "queued" => wanted']_vars

\* A stopped server ends, and the window shows it; a closed program exits.
StopEnds == ~wanted /\ ui = "idle" ~> (wanted \/ mActiveThread = Nullptr \/ ui # "idle")
CloseExits == ui = "closed" ~> ui = "exited"

(***************************************************************************)
(* With automatic restart the program recovers.  From any moment at which  *)
(* there is a server, or its failure is being handled, and from which on   *)
(* the user leaves it alone: when servers fail only finitely often, one    *)
(* ends up serving, although a new one finds the port held by one that is  *)
(* being deleted.                                                          *)
(***************************************************************************)
Serving == mActiveThread # Nullptr /\ servers[mActiveThread].state = "serving"
LeftAlone == wanted /\ autoRestart /\ ui \in {"idle", "restarting"}
ServerExists == mActiveThread # Nullptr \/ ui = "restarting"

Recovers ==
    <>[][\A s \in Servers : ~Fail(s)]_vars
    => [](ServerExists /\ []LeftAlone => <>[]Serving)

\* stopServer() calls cancel() on a deleted server only while the threadDone of
\* that server waits in the event queue; once it is handled the pointer is null.
DanglesUntilThreadDone ==
    [][danglingCancel' /\ ~danglingCancel => threadDone > 0]_vars

-----------------------------------------------------------------------------
(* The inductive invariant that these properties follow from.              *)

\* An event waits exactly while the server it is about is still the active one.
EventInv ==
    threadDone = IF mActiveThread # Nullptr
                    /\ servers[mActiveThread].state \in {"done", "free"}
                 THEN 1 ELSE 0

\* The widgets follow the pointer, until an exception comes between.
WidgetInv ==
    ui \notin {"exists", "settings"} =>
        enabled = IF mActiveThread = Nullptr THEN StoppedWidgets ELSE RunningWidgets

\* Settings that were good enough for the active server cannot be edited.
SettingsInv == mActiveThread # Nullptr => settingsValid

OrderInv ==
    /\ mActiveThread # Nullptr /\ ~mManuallyCancelled => wanted
    /\ ui = "restarting" => wanted
    /\ ui \in {"starting", "settings"} => mActiveThread = Nullptr

ControlInv ==
    /\ ui # "exists"
    /\ ui = "restarting" => mActiveThread = Nullptr /\ settingsValid
    /\ \A s \in Servers :
          servers[s].state \in {"queued", "starting", "serving"} => mActiveThread = s

WindowInv == TypeOK /\ EventInv /\ WidgetInv /\ SettingsInv /\ OrderInv /\ ControlInv
=============================================================================
