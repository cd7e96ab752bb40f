-------------------------- MODULE MainWindowProofs -------------------------
(***************************************************************************)
(* Theorems about MainWindow, for any number of server objects.            *)
(***************************************************************************)
EXTENDS MainWindow, TLAPS

ServerType == [state : ServerStates, mShouldCancel : BOOLEAN]

LEMMA NullptrNoServer == Nullptr \notin Servers
  BY MaxServersAssumption DEF Nullptr, Servers

LEMMA WidgetFacts ==
  /\ RunningWidgets \in [Widgets -> BOOLEAN] /\ StoppedWidgets \in [Widgets -> BOOLEAN]
  /\ RunningWidgets["mStopServerButton"] /\ ~RunningWidgets["mSettingsPanel"]
  /\ ~RunningWidgets["mLaunchServerButton"]
  BY DEF RunningWidgets, StoppedWidgets, Widgets

\* What is the same for Autostart, LaunchClicked and Restart.
LEMMA LaunchStep ==
  ASSUME WindowInv, launchServer, mActiveThread = Nullptr, wanted' = TRUE
  PROVE  WindowInv'
<1> USE DEF WindowInv, launchServer
<1>1. threadDone = 0 /\ threadDone' = 0
  BY DEF EventInv
<1>2. CASE settingsValid
  <2>1. ui' = "idle"
    BY <1>2
  <2>2. PICK s \in Servers :
          /\ servers[s].state = "free" /\ mActiveThread' = s
          /\ servers' = [servers EXCEPT ![s] = [state |-> "queued", mShouldCancel |-> FALSE]]
    BY <2>1
  <2>3. servers' \in [Servers -> ServerType] /\ servers'[s].state = "queued"
    BY <2>2 DEF TypeOK, ServerType, ServerStates
  <2>4. s # Nullptr
    BY <2>2, NullptrNoServer
  <2>5. TypeOK'
    BY <1>1, <2>1, <2>2, <2>3, WidgetFacts DEF TypeOK, ServerType, UiStates
  <2>6. EventInv' /\ WidgetInv' /\ SettingsInv' /\ OrderInv'
    BY <1>1, <1>2, <2>1, <2>2, <2>3, <2>4 DEF EventInv, WidgetInv, SettingsInv, OrderInv
  <2>7. ControlInv'
    <3>1. ASSUME NEW u \in Servers, u # s
          PROVE  servers'[u].state \notin {"queued", "starting", "serving"}
      <4>1. servers'[u] = servers[u]
        BY <2>2, <3>1 DEF TypeOK
      <4> QED
        BY <4>1, NullptrNoServer DEF ControlInv
    <3> QED
      BY <2>1, <2>2, <3>1 DEF ControlInv
  <2> QED
    BY <2>5, <2>6, <2>7
<1>3. CASE ~settingsValid
  <2>1. ui' = "settings" /\ UNCHANGED <<mActiveThread, servers>>
    BY <1>3
  <2>2. TypeOK'
    BY <1>1, <2>1, WidgetFacts DEF TypeOK, UiStates
  <2>3. EventInv' /\ WidgetInv' /\ SettingsInv' /\ OrderInv' /\ ControlInv'
    BY <1>1, <2>1 DEF EventInv, WidgetInv, SettingsInv, OrderInv, ControlInv
  <2> QED
    BY <2>2, <2>3
<1> QED
  BY <1>2, <1>3

\* What is the same for StopClicked and closeEvent.
LEMMA StopStep ==
  ASSUME WindowInv, stopServer, ui = "idle", ui' \in {"idle", "closed"}
  PROVE  WindowInv'
<1> USE DEF WindowInv, stopServer
<1>1. /\ servers' \in [Servers -> ServerType]
      /\ \A s \in Servers : servers'[s].state = servers[s].state
  <2>1. servers \in [Servers -> ServerType]
    BY DEF TypeOK, ServerType
  <2>2. CASE mActiveThread # Nullptr /\ servers[mActiveThread].state # "free"
    <3>1. mActiveThread \in Servers
      BY <2>2 DEF TypeOK
    <3>2. servers' = [servers EXCEPT ![mActiveThread].mShouldCancel = TRUE]
      BY <2>2
    <3> QED
      BY <2>1, <3>1, <3>2 DEF ServerType
  <2>3. CASE ~(mActiveThread # Nullptr /\ servers[mActiveThread].state # "free")
    BY <2>1, <2>3
  <2> QED
    BY <2>2, <2>3
<1>2. TypeOK'
  <2>1. danglingCancel' \in BOOLEAN
    OBVIOUS
  <2> QED
    BY <1>1, <2>1 DEF TypeOK, ServerType, UiStates
<1>3. EventInv'
  <2>1. mActiveThread # Nullptr => mActiveThread \in Servers
    BY DEF TypeOK
  <2> QED
    BY <1>1, <2>1 DEF EventInv
<1>4. WidgetInv' /\ SettingsInv' /\ OrderInv' /\ ControlInv'
  BY <1>1 DEF WidgetInv, SettingsInv, OrderInv, ControlInv
<1> QED
  BY <1>2, <1>3, <1>4

\* A step of a server that is the active one.
LEMMA ServerStep ==
  ASSUME WindowInv, NEW s \in Servers, NEW to \in ServerStates, UNCHANGED uiVars,
         servers' = [servers EXCEPT ![s].state = to],
         port' \in Servers \cup {Nullptr}, threadDone' \in Nat,
         to \in {"done", "free"} \/ mActiveThread = s,
         threadDone' - threadDone =
            IF mActiveThread = s /\ to \in {"done", "free"}
               /\ servers[s].state \notin {"done", "free"} THEN 1 ELSE 0,
         to \notin {"done", "free"} => servers[s].state \notin {"done", "free"}
  PROVE  WindowInv'
<1> USE DEF WindowInv, uiVars
<1>1. /\ servers' \in [Servers -> ServerType] /\ servers'[s].state = to
      /\ \A u \in Servers : u # s => servers'[u] = servers[u]
      /\ servers \in [Servers -> ServerType]
  BY DEF TypeOK, ServerType
<1>2. TypeOK'
  BY <1>1 DEF TypeOK, ServerType
<1>3. WidgetInv' /\ SettingsInv' /\ OrderInv'
  BY DEF WidgetInv, SettingsInv, OrderInv
<1>4. ControlInv'
  BY <1>1 DEF ControlInv
<1>5. EventInv'
  <2>1. mActiveThread \in Servers \cup {Nullptr} /\ threadDone \in Nat
    BY DEF TypeOK
  <2>2. CASE mActiveThread = s
    BY <1>1, <2>1, <2>2, NullptrNoServer DEF EventInv
  <2>3. CASE mActiveThread # s
    <3>1. threadDone' = threadDone
      BY <2>1, <2>3
    <3> QED
      BY <1>1, <2>1, <2>3, <3>1 DEF EventInv
  <2> QED
    BY <2>2, <2>3
<1> QED
  BY <1>2, <1>3, <1>4, <1>5

LEMMA WindowNext ==
  ASSUME WindowInv, [Next]_vars
  PROVE  WindowInv'
<1> USE DEF WindowInv
<1>1. CASE Autostart
  BY <1>1, LaunchStep DEF Autostart, OrderInv
<1>2. CASE LaunchClicked
  <2>1. mActiveThread = Nullptr
    BY <1>2, WidgetFacts DEF LaunchClicked, WidgetInv
  <2> QED
    BY <1>2, <2>1, LaunchStep DEF LaunchClicked
<1>3. CASE Restart
  BY <1>3, LaunchStep DEF Restart, OrderInv, ControlInv
<1>4. CASE StopClicked
  BY <1>4, StopStep DEF StopClicked
<1>5. CASE closeEvent
  BY <1>5, StopStep DEF closeEvent
<1>6. CASE EditSettings
  <2>1. mActiveThread = Nullptr /\ ui = "idle" /\ UNCHANGED serverVars
    BY <1>6, WidgetFacts DEF EditSettings, WidgetInv
  <2>2. TypeOK'
    BY <1>6 DEF EditSettings, TypeOK, serverVars
  <2> QED
    BY <1>6, <2>1, <2>2
    DEF EditSettings, EventInv, WidgetInv, SettingsInv, OrderInv, ControlInv, serverVars
<1>7. CASE serverDone
  <2> USE <1>7 DEF serverDone
  <2>1. /\ mActiveThread # Nullptr /\ threadDone = 1 /\ threadDone' = 0
        /\ servers[mActiveThread].state \in {"done", "free"}
        /\ mActiveThread \in Servers
    BY DEF EventInv, TypeOK
  <2>2. ui' \in {"restarting", "idle", "closed"} /\ ui \in {"idle", "closed"}
    OBVIOUS
  <2>3. TypeOK'
    BY <2>1, <2>2, WidgetFacts DEF TypeOK, UiStates
  <2>4. EventInv' /\ WidgetInv' /\ SettingsInv'
    BY <2>1, <2>2 DEF EventInv, WidgetInv, SettingsInv
  <2>5. OrderInv'
    BY <2>1, <2>2 DEF OrderInv
  <2>6. ControlInv'
    <3>1. ASSUME NEW s \in Servers
          PROVE  servers[s].state \notin {"queued", "starting", "serving"}
      BY <2>1 DEF ControlInv
    <3> QED
      BY <2>1, <2>2, <3>1 DEF ControlInv, SettingsInv
  <2> QED
    BY <2>3, <2>4, <2>5, <2>6
<1>8. CASE Quit \/ Exit
  <2>1. ui' \in {"leaving", "exited"} /\ ui \in {"closed", "leaving"}
    BY <1>8 DEF Quit, Exit
  <2>2. UNCHANGED <<mActiveThread, mManuallyCancelled, enabled, settingsValid,
                    autoRestart, wanted, danglingCancel, servers, port, threadDone>>
    BY <1>8 DEF Quit, Exit, serverVars
  <2>3. TypeOK'
    BY <2>1, <2>2 DEF TypeOK, UiStates
  <2>4. EventInv' /\ SettingsInv'
    BY <2>2 DEF EventInv, SettingsInv
  <2>5. WidgetInv' /\ OrderInv' /\ ControlInv'
    BY <2>1, <2>2 DEF WidgetInv, OrderInv, ControlInv
  <2> QED
    BY <2>3, <2>4, <2>5
<1>9. ASSUME NEW s \in Servers, Server(s) \/ Fail(s) PROVE WindowInv'
  <2>1. port \in Servers \cup {Nullptr} /\ threadDone \in Nat
    BY DEF TypeOK
  <2>2. servers[s].state \in {"queued", "starting", "serving"} => mActiveThread = s
    BY DEF ControlInv
  <2>3. CASE Run(s)
    <3>1. /\ servers[s].state = "queued" /\ UNCHANGED <<uiVars, port, threadDone>>
          /\ servers' = [servers EXCEPT ![s].state = "starting"]
      BY <2>3 DEF Run
    <3>2. "starting" \in ServerStates /\ threadDone' - threadDone = 0
      BY <2>1, <3>1 DEF ServerStates
    <3> QED
      BY <2>1, <2>2, <3>1, <3>2, ServerStep
  <2>4. CASE Open(s)
    <3>1. /\ servers[s].state = "starting" /\ UNCHANGED <<uiVars, threadDone>> /\ port' = s
          /\ servers' = [servers EXCEPT ![s].state = "serving"]
      BY <2>4 DEF Open
    <3>2. "serving" \in ServerStates /\ threadDone' - threadDone = 0
      BY <2>1, <3>1 DEF ServerStates
    <3> QED
      BY <2>1, <2>2, <3>1, <3>2, ServerStep
  <2>5. CASE OpenFails(s) \/ Obey(s) \/ Fail(s)
    <3>1. /\ servers[s].state \in {"starting", "serving"}
          /\ servers' = [servers EXCEPT ![s].state = "done"]
          /\ threadDone' = threadDone + 1 /\ UNCHANGED <<uiVars, port>>
      BY <2>5 DEF OpenFails, Obey, Fail, endRun
    <3>2. "done" \in ServerStates /\ mActiveThread = s
      BY <2>2, <3>1 DEF ServerStates
    <3>3. threadDone' - threadDone = 1 /\ threadDone' \in Nat
      BY <2>1, <3>1
    <3> QED
      BY <2>1, <3>1, <3>2, <3>3, ServerStep
  <2>6. CASE Delete(s)
    <3>1. /\ servers[s].state = "done" /\ UNCHANGED uiVars
          /\ servers' = [servers EXCEPT ![s].state = "free"]
          /\ threadDone' = threadDone
          /\ port' \in Servers \cup {Nullptr}
      BY <2>1, <2>6 DEF Delete
    <3>2. "free" \in ServerStates /\ threadDone' - threadDone = 0 /\ threadDone' \in Nat
      BY <2>1, <3>1 DEF ServerStates
    <3> QED
      BY <3>1, <3>2, ServerStep
  <2> QED
    BY <1>9, <2>3, <2>4, <2>5, <2>6 DEF Server
<1>10. CASE UNCHANGED vars
  BY <1>10 DEF vars, uiVars, serverVars, TypeOK, EventInv, WidgetInv, SettingsInv,
               OrderInv, ControlInv
<1> QED
  BY <1>1, <1>2, <1>3, <1>4, <1>5, <1>6, <1>7, <1>8, <1>9, <1>10 DEF Next, Ui, User

LEMMA WindowInit ==
  ASSUME Init
  PROVE  WindowInv
<1>1. TypeOK
  BY WidgetFacts DEF Init, TypeOK, UiStates, ServerStates
<1>2. EventInv /\ WidgetInv /\ SettingsInv /\ OrderInv /\ ControlInv
  BY DEF Init, EventInv, WidgetInv, SettingsInv, OrderInv, ControlInv
<1> QED
  BY <1>1, <1>2 DEF WindowInv

-----------------------------------------------------------------------------
THEOREM WindowInvariant == Spec => []WindowInv
<1>1. Init => WindowInv
  BY WindowInit
<1>2. WindowInv /\ [Next]_vars => WindowInv'
  BY WindowNext
<1> QED
  BY <1>1, <1>2, PTL DEF Spec

\* The variables of the window keep their types.
THEOREM WindowTypes == Spec => []TypeOK
<1>1. WindowInv => TypeOK
  BY DEF WindowInv
<1> QED
  BY <1>1, WindowInvariant, PTL

\* A server that runs can always be stopped by the user.
THEOREM ServerStaysControlled == Spec => []ServerControlled
<1>1. WindowInv => ServerControlled
  <2> SUFFICES ASSUME WindowInv, NEW s \in Servers,
                      servers[s].state \in {"queued", "starting", "serving"}
               PROVE  mActiveThread = s /\ enabled["mStopServerButton"]
    BY DEF ServerControlled
  <2>1. mActiveThread = s /\ mActiveThread # Nullptr
    BY NullptrNoServer DEF WindowInv, ControlInv
  <2>2. ui \notin {"exists", "settings"}
    BY <2>1 DEF WindowInv, ControlInv, OrderInv
  <2> QED
    BY <2>1, <2>2, WidgetFacts DEF WindowInv, WidgetInv
<1> QED
  BY <1>1, WindowInvariant, PTL

\* launchServer() never meets a server that exists, and a restart never fails
\* on the settings.
THEOREM RestartNeverThrows == Spec => []RestartPossible
<1>1. WindowInv => RestartPossible
  BY DEF WindowInv, ControlInv, RestartPossible
<1> QED
  BY <1>1, WindowInvariant, PTL

\* No server starts against the user's last order.
THEOREM StopStaysFinal == Spec => StopIsFinal
<1>1. ASSUME WindowInv, [Next]_vars, NEW s \in Servers,
             servers[s].state = "free", servers'[s].state = "queued"
      PROVE  wanted'
  <2>1. servers \in [Servers -> ServerType]
    BY <1>1 DEF WindowInv, TypeOK, ServerType
  <2>2. servers' # servers
    BY <1>1
  <2>3. CASE Autostart \/ LaunchClicked
    BY <2>3 DEF Autostart, LaunchClicked
  <2>4. CASE Restart
    BY <1>1, <2>4 DEF Restart, WindowInv, OrderInv
  <2>5. CASE StopClicked \/ closeEvent
    <3>1. stopServer
      BY <2>5 DEF StopClicked, closeEvent
    <3>2. servers' = [servers EXCEPT ![mActiveThread].mShouldCancel = TRUE]
      BY <2>2, <3>1 DEF stopServer
    <3>3. servers'[s].state = servers[s].state
      BY <2>1, <3>2 DEF ServerType
    <3> QED
      BY <1>1, <3>3
  <2>6. CASE EditSettings \/ serverDone \/ Quit \/ Exit \/ UNCHANGED vars
    BY <2>2, <2>6 DEF EditSettings, serverDone, Quit, Exit, vars, serverVars
  <2>7. ASSUME NEW u \in Servers, Server(u) \/ Fail(u) PROVE FALSE
    <3>1. PICK to \in {"starting", "serving", "done", "free"} :
             servers' = [servers EXCEPT ![u].state = to]
      BY <2>7 DEF Server, Run, Open, OpenFails, Obey, Delete, Fail, endRun
    <3> QED
      BY <1>1, <2>1, <3>1 DEF ServerType
  <2> QED
    BY <1>1, <2>3, <2>4, <2>5, <2>6, <2>7 DEF Next, Ui, User
<1>2. WindowInv /\ [Next]_vars =>
        [\A s \in Servers :
            servers[s].state = "free" /\ servers'[s].state = "queued" => wanted']_vars
  BY <1>1
<1> QED
  BY <1>2, WindowInvariant, PTL DEF Spec, StopIsFinal

\* cancel() reaches a deleted server only between its end and threadDone.
THEOREM DanglingIsBrief == Spec => DanglesUntilThreadDone
<1>1. ASSUME WindowInv, [Next]_vars, danglingCancel', ~danglingCancel
      PROVE  threadDone > 0
  <2>1. stopServer
    <3>1. CASE Autostart \/ LaunchClicked \/ Restart
      BY <1>1, <3>1 DEF Autostart, LaunchClicked, Restart, launchServer
    <3>2. CASE EditSettings \/ serverDone \/ Quit \/ Exit \/ UNCHANGED vars
      BY <1>1, <3>2 DEF EditSettings, serverDone, Quit, Exit, vars, uiVars
    <3>3. ASSUME NEW u \in Servers, Server(u) \/ Fail(u) PROVE FALSE
      BY <1>1, <3>3
      DEF Server, Run, Open, OpenFails, Obey, Delete, Fail, endRun, uiVars
    <3>4. CASE StopClicked \/ closeEvent
      BY <3>4 DEF StopClicked, closeEvent
    <3> QED
      BY <1>1, <3>1, <3>2, <3>3, <3>4 DEF Next, Ui, User
  <2>2. mActiveThread # Nullptr /\ servers[mActiveThread].state = "free"
    BY <1>1, <2>1, Zenon DEF stopServer
  <2> QED
    BY <1>1, <2>2 DEF WindowInv, EventInv
<1>2. WindowInv /\ [Next]_vars =>
        [danglingCancel' /\ ~danglingCancel => threadDone > 0]_vars
  BY <1>1
<1> QED
  BY <1>2, WindowInvariant, PTL DEF Spec, DanglesUntilThreadDone
=============================================================================
