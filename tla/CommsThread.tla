---------------------------- MODULE CommsThread ----------------------------
(***************************************************************************)
(* The communication thread: it owns the connection to the readout board,  *)
(* the socket the clients talk to, and the secondary threads, and moves    *)
(* requests and replies between them in one polling loop.                  *)
(*                                                                         *)
(* The thread is sequential; its steps are cut where it looks at something *)
(* another party writes: the cancel flag, asio, the client socket, the     *)
(* command socket of a secondary thread, an object the pool may delete.    *)
(***************************************************************************)
EXTENDS PythonConnectionManager, TimepixConnectionManager, SecondaryThread

CONSTANTS Faults,      \* what may go wrong in a behaviour
          WithStop     \* whether the user may press Stop

AllFaults == { "bind",      \* the local TCP endpoint cannot be bound
               "refused",   \* the board does not accept the connection
               "broken",    \* the connection breaks
               "open",      \* the client socket cannot be bound
               "thread" }   \* a secondary thread fails

ASSUME FaultsAssumption == Faults \subseteq AllFaults /\ WithStop \in BOOLEAN

VARIABLES
  pc,                 \* where execute() is
  mShouldCancel,
  mShouldResetClient,
  forwarding,         \* the kind of thread whose response is awaited
  undefinedBehaviour  \* a destroyed object was used, or memory read that is
                      \* not the buffer's or the table's

commsVars == << pc, mShouldCancel, mShouldResetClient, forwarding,
                undefinedBehaviour >>
vars == << pyVars, tpxVars, threadVars, commsVars >>

Locations ==
  { "start",     \* before the loop
    "loop",      \* at the loop condition
    "tpx",       \* in TimepixConnectionManager::poll, before asio
    "reconnect", \* in its RESET_MODULE branch, asleep before reconnecting
    "asio",      \* running the handlers that are ready
    "client",    \* at the poll of the client socket
    "handle",    \* in handleCommand
    "forward",   \* waiting for a secondary thread to respond
    "reset",     \* in resetClientConnection, between the two cancel()s
    "cleanup",   \* after the loop
    "done",      \* run() has returned; the object is being deleted
    "deleted",
    "crashed" }

CommsTypeOK ==
  /\ pc \in Locations
  /\ mShouldCancel \in BOOLEAN
  /\ mShouldResetClient \in BOOLEAN
  /\ forwarding \in ThreadKinds
  /\ undefinedBehaviour \in BOOLEAN

\* The type of every variable of the composed system.
TypeOK == PyTypeOK /\ TpxTypeOK /\ ThreadTypeOK /\ CommsTypeOK

Init ==
  /\ PyInit
  /\ TpxInit
  /\ ThreadInit
  /\ pc = "start"
  /\ mShouldCancel = FALSE
  /\ mShouldResetClient = FALSE
  /\ forwarding = "udp"
  /\ undefinedBehaviour = FALSE

\* The thread moves on to location l and changes nothing else of its own.
goto(l) ==
  /\ pc' = l
  /\ UNCHANGED << mShouldCancel, mShouldResetClient, forwarding,
                  undefinedBehaviour >>

\* The same, after cancel().
cancelAndGoto(l) ==
  /\ pc' = l
  /\ mShouldCancel' = TRUE
  /\ UNCHANGED << mShouldResetClient, forwarding, undefinedBehaviour >>

\* A word count that has wrapped makes a loop read gigabytes past its message:
\* it leaves the memory of the process before it ends.
readPastMessage ==
  /\ pc' = "crashed"
  /\ undefinedBehaviour' = TRUE
  /\ UNCHANGED << mShouldCancel, mShouldResetClient, forwarding >>

(***************************************************************************)
(* Start-up.                                                               *)
(***************************************************************************)

\* attemptConnection, open, startClusterThread, startHistogramThread.
Start ==
  /\ pc = "start"
  /\ startConnecting
  /\ open
  /\ startClusterAndHistogramThreads
  /\ goto("loop")

\* attemptConnection cannot bind the local endpoint: it cancels the thread,
\* and start-up goes on.
StartWithoutEndpoint ==
  /\ pc = "start"
  /\ "bind" \in Faults
  /\ open
  /\ startClusterAndHistogramThreads
  /\ cancelAndGoto("loop")
  /\ UNCHANGED tpxVars

\* open() throws out of execute().
StartWithoutSocket ==
  /\ pc = "start"
  /\ "open" \in Faults
  /\ startConnecting
  /\ goto("done")
  /\ UNCHANGED << pyVars, threadVars >>

(***************************************************************************)
(* The loop condition and the replacement of the client manager.           *)
(***************************************************************************)

LeaveLoop ==
  /\ pc = "loop"
  /\ mShouldCancel
  /\ goto("cleanup")
  /\ UNCHANGED << pyVars, tpxVars, threadVars >>

EnterLoopBody ==
  /\ pc = "loop"
  /\ ~ mShouldCancel
  /\ ~ mShouldResetClient
  /\ goto("tpx")
  /\ UNCHANGED << pyVars, tpxVars, threadVars >>

ResetClient ==
  /\ pc = "loop"
  /\ ~ mShouldCancel
  /\ mShouldResetClient
  /\ open
  /\ mShouldResetClient' = FALSE
  /\ pc' = "tpx"
  /\ UNCHANGED << tpxVars, threadVars, mShouldCancel, forwarding,
                  undefinedBehaviour >>

\* The old socket still holds the port when open() binds it again: the
\* exception leaves execute() before any thread is cancelled.
ResetClientFails ==
  /\ pc = "loop"
  /\ ~ mShouldCancel
  /\ mShouldResetClient
  /\ "open" \in Faults
  /\ goto("done")
  /\ UNCHANGED << pyVars, tpxVars, threadVars >>

(***************************************************************************)
(* TimepixConnectionManager::poll.                                         *)
(***************************************************************************)

NothingToSend ==
  /\ pc = "tpx"
  /\ ~ CanSend
  /\ goto("asio")
  /\ UNCHANGED << pyVars, tpxVars, threadVars >>

SendCommand ==
  /\ pc = "tpx"
  /\ CanSend
  /\ Head(mQueuedCommands).command # "RESET_MODULE"
  /\ sendCommand
  /\ goto("asio")
  /\ UNCHANGED << pyVars, threadVars >>

\* shutdown() may throw when the link is broken; the reconnection then
\* destroys the io_context under the socket that is still there.  Should the
\* client socket refuse the answer, the exception ends the loop.
SendReset ==
  /\ pc = "tpx"
  /\ CanSend
  /\ Head(mQueuedCommands).command = "RESET_MODULE"
  /\ terminateConnection
  /\ mIsExecutingCommand' = TRUE
  /\ IF SendRefused
       THEN /\ mLastCommandSource' = Head(mQueuedCommands).sender
            /\ cancelAndGoto("cleanup")
            /\ UNCHANGED << pyVars, mQueuedCommands >>
       ELSE /\ sendResponse({})
            /\ mQueuedCommands' = Tail(mQueuedCommands)
            /\ mLastCommandSource' = 0
            /\ pc' = "reconnect"
            /\ undefinedBehaviour' \in
                 { undefinedBehaviour, undefinedBehaviour \/ link = "broken" }
            /\ UNCHANGED << mShouldCancel, mShouldResetClient, forwarding >>
  /\ UNCHANGED threadVars

\* attemptConnection with wait: a blocking connect, then initializeConnection.
Reconnect ==
  /\ pc = "reconnect"
  /\ \E bytes \in AvailableAtConnect : initializeConnection(bytes)
  /\ link' = "open"
  /\ goto("client")
  /\ UNCHANGED << pyVars, threadVars >>

\* open, bind or connect throws; attemptConnection cancels the thread.
ReconnectFails ==
  /\ pc = "reconnect"
  /\ {"bind", "refused"} \cap Faults # {}
  /\ cancelAndGoto("client")
  /\ UNCHANGED << pyVars, tpxVars, threadVars >>

\* The link breaks while initializeConnection drains it.
ReconnectBreaks ==
  /\ pc = "reconnect"
  /\ "broken" \in Faults
  /\ initializeConnection(<< >>)
  /\ link' = "broken"
  /\ cancelAndGoto("client")
  /\ UNCHANGED << pyVars, threadVars >>

HandlersDone ==
  /\ pc = "asio"
  /\ ~ HandlerReady
  /\ goto("client")
  /\ UNCHANGED << pyVars, tpxVars, threadVars >>

Connected ==
  /\ pc = "asio"
  /\ ConnectReady
  /\ link # "refused"
  /\ initializeConnection(rx)
  /\ UNCHANGED << pyVars, threadVars, link, commsVars >>

CommandSent ==
  /\ pc = "asio"
  /\ SendReady
  /\ commandSent
  /\ UNCHANGED << pyVars, threadVars, commsVars >>

\* The catch block of poll(): the connection is closed, the thread cancelled
\* and the client that waits for a reply told of the error.
networkError ==
  /\ terminateConnection
  /\ cancelAndGoto(IF mLastCommandSource # 0 /\ SendRefused
                     THEN "cleanup" ELSE "client")
  /\ IF mLastCommandSource # 0 /\ ~ SendRefused
       THEN sendError("ERROR_OCCURED") /\ mLastCommandSource' = 0
       ELSE UNCHANGED << pyVars, mLastCommandSource >>
  /\ UNCHANGED << mIsExecutingCommand, mQueuedCommands, threadVars >>

ConnectFails ==
  /\ pc = "asio"
  /\ ConnectReady
  /\ link # "open"
  /\ networkError

ReadFails ==
  /\ pc = "asio"
  /\ ReadReady
  /\ link = "broken"
  /\ networkError

DiscardRecv ==
  /\ pc = "asio"
  /\ ReadReady
  /\ rx # << >>
  /\ Head(rx).kind = "malformed"
  /\ discardRecv
  /\ UNCHANGED << pyVars, threadVars, commsVars >>

\* genericHandler, or the warning about a command HANDLER_MAP lacks.
replyToClient(msg) ==
  CASE msg.kind \in { "good", "errorcode" } -> sendResponse(msg.data)
    [] msg.kind = "wrongsize" -> sendError("INVALID_COMMAND_DATA")
    [] OTHER                  -> UNCHANGED pyVars

\* getErrorString indexes its tables with bytes of the error code.
ReadsPastTable(msg) == msg.kind = "errorcode"

\* processRecv throws when there is no client, and so does the answer when the
\* client socket refuses it.
recvThrows(msg) ==
  mLastCommandSource = 0 \/ (SendRefused /\ msg.kind # "unrecognised")

CommandRecv ==
  /\ pc = "asio"
  /\ ReadReady
  /\ rx # << >>
  /\ Head(rx).kind \notin { "malformed", "short" }
  /\ IF recvThrows(Head(rx))
       THEN /\ discardRecv
            /\ pc' = "cleanup" /\ mShouldCancel' = TRUE
            /\ UNCHANGED pyVars
       ELSE /\ processRecv
            /\ replyToClient(Head(rx))
            /\ UNCHANGED << pc, mShouldCancel >>
  /\ undefinedBehaviour' = (undefinedBehaviour \/ ReadsPastTable(Head(rx)))
  /\ UNCHANGED << threadVars, mShouldResetClient, forwarding >>

ShortReply ==
  pc = "asio" /\ ReadReady /\ rx # << >> /\ Head(rx).kind = "short"

\* num_bytes - 16 wraps to 4 GiB: either reserve() throws to execute(), or the
\* loop reads on.
ShortRecvThrows ==
  /\ ShortReply
  /\ discardRecv
  /\ cancelAndGoto("cleanup")
  /\ UNCHANGED << pyVars, threadVars >>

ShortRecvReadsOn ==
  /\ ShortReply
  /\ readPastMessage
  /\ UNCHANGED << pyVars, tpxVars, threadVars >>

(***************************************************************************)
(* PythonConnectionManager::poll and handleCommand.                        *)
(***************************************************************************)

SkipClient ==
  /\ pc = "client"
  /\ mIsExecutingCommand
  /\ goto("loop")
  /\ UNCHANGED << pyVars, tpxVars, threadVars >>

\* Mutant of MayPollClient: requests are taken whatever the board is doing.
AlwaysPollClient == TRUE

\* The client socket is polled only between commands.
MayPollClient == ~ mIsExecutingCommand

NoRequest ==
  /\ pc = "client"
  /\ MayPollClient
  /\ ~ RecvRefused
  /\ inbox = {}
  /\ goto("loop")
  /\ UNCHANGED << pyVars, tpxVars, threadVars >>

ReceiveRequest ==
  /\ pc = "client"
  /\ MayPollClient
  /\ \E c \in Clients : recv(c)
  /\ goto("handle")
  /\ UNCHANGED << tpxVars, threadVars >>

\* recv() throws: the socket is closed and resetClientConnection() cancels the
\* UDP thread, whose object may be gone already.
ReceiveFails ==
  /\ pc = "client"
  /\ MayPollClient
  /\ RecvRefused
  /\ close
  /\ threads' = cancelled({mThread["udp"]})
  /\ mShouldResetClient' = TRUE
  /\ pc' = "reset"
  /\ undefinedBehaviour' =
       (undefinedBehaviour \/ Dangling({mThread["udp"]}))
  /\ UNCHANGED << tpxVars, mThread, mCommandSocket, mShouldCancel, forwarding >>

\* resetClientConnection() cancels the UDP thread a second time before it
\* forgets it.
CancelAgain ==
  /\ pc = "reset"
  /\ threads' = cancelled({mThread["udp"]})
  /\ mThread' = [mThread EXCEPT !["udp"] = 0]
  /\ pc' = "loop"
  /\ undefinedBehaviour' =
       (undefinedBehaviour \/ Dangling({mThread["udp"]}))
  /\ UNCHANGED << pyVars, tpxVars, mCommandSocket, mShouldCancel,
                  mShouldResetClient, forwarding >>

HandleNotConnected ==
  /\ pc = "handle"
  /\ ~ mIsConnected
  /\ sendError("ERROR_OCCURED")
  /\ goto("loop")
  /\ UNCHANGED << tpxVars, threadVars >>

\* The request being handled, once the board is known to be connected.
Handling == pc = "handle" /\ mIsConnected
Req == request[owed]

HandleRagged ==
  /\ Handling
  /\ Req.shape = "ragged"
  /\ sendError("INVALID_COMMAND_DATA")
  /\ goto("loop")
  /\ UNCHANGED << tpxVars, threadVars >>

\* (0 / 4) - 1 wraps to 16 GiB of words: either reserve() throws to execute(),
\* or the loop reads on.
HandleEmpty ==
  /\ Handling
  /\ Req.shape = "empty"
  /\ Req.code \in COMMAND_MAP
  /\ cancelAndGoto("cleanup") \/ readPastMessage
  /\ UNCHANGED << pyVars, tpxVars, threadVars >>

\* genericForward or sendPixelConfigData with data of the wrong size, or
\* bindUdpPort with anything but one word.
HandleWrongSize ==
  /\ Handling
  /\ Req.shape = "badsize"
  /\ Req.code \in COMMAND_MAP
  /\ sendError("INVALID_COMMAND_DATA")
  /\ goto("loop")
  /\ UNCHANGED << tpxVars, threadVars >>

HandleForTimepix ==
  /\ Handling
  /\ Req.shape = "ok"
  /\ Req.code \in TpxForwardCommands
  /\ rememberCommand(Req.code)
  /\ queueCommand([command |-> Req.code, data |-> Req.id,
                   sender |-> mClientManager])
  /\ goto("loop")
  /\ UNCHANGED threadVars

HandleBindUdpPort ==
  /\ Handling
  /\ Req.shape = "ok"
  /\ Req.code = "SET_UDP_PORT"
  /\ bindUdpPort
  /\ sendEmptyResponse(Req.code)
  /\ pc' = "loop"
  /\ undefinedBehaviour' =
       (undefinedBehaviour \/ Dangling({mThread["udp"]}))
  /\ UNCHANGED << tpxVars, mShouldCancel, mShouldResetClient, forwarding >>

ForwardedTo(k) ==
  /\ Handling
  /\ Req.shape # "ragged"
  /\ Req.code \in THREAD_FORWARD_COMMANDS[k]

HandleNoThread ==
  /\ \E k \in ThreadKinds :
       /\ ForwardedTo(k)
       /\ mCommandSocket[k] \in { Null, Closed }
       /\ sendError(IF mCommandSocket[k] = Null THEN "THREAD_NOT_STARTED"
                                                ELSE "THREAD_NOT_CONNECTED")
  /\ goto("loop")
  /\ UNCHANGED << tpxVars, threadVars >>

HandleForThread ==
  /\ \E k \in ThreadKinds :
       /\ ForwardedTo(k)
       /\ mCommandSocket[k] \notin { Null, Closed }
       /\ forwardRequest(k, Req)
       /\ forwarding' = k
  /\ pc' = "forward"
  /\ UNCHANGED << pyVars, tpxVars, mShouldCancel, mShouldResetClient,
                  undefinedBehaviour >>

\* recv() on the command socket blocks until the thread has responded.
ForwardResponse ==
  /\ pc = "forward"
  /\ threads[mCommandSocket[forwarding]].rsp # << >>
  /\ send(Head(threads[mCommandSocket[forwarding]].rsp))
  /\ UNCHANGED mLastCommand
  /\ receiveResponse(forwarding)
  /\ goto("loop")
  /\ UNCHANGED tpxVars

HandleUnknown ==
  /\ Handling
  /\ Req.shape # "ragged"
  /\ Req.code = Unlisted
  /\ sendError("UNKNOWN_COMMAND")
  /\ goto("loop")
  /\ UNCHANGED << tpxVars, threadVars >>

(***************************************************************************)
(* Shutting down.                                                          *)
(***************************************************************************)

\* clearAnyClientRequest, terminateConnection, then the threads are cancelled
\* and their command sockets closed.  Should the answer be refused, the
\* exception skips all the rest.
Cleanup ==
  /\ pc = "cleanup"
  /\ IF mLastCommandSource # 0 /\ SendRefused
       THEN goto("done") /\ UNCHANGED << pyVars, tpxVars, threadVars >>
       ELSE /\ IF mLastCommandSource # 0 THEN sendError("ERROR_OCCURED")
                                         ELSE UNCHANGED pyVars
            /\ mLastCommandSource' = 0
            /\ terminateConnection
            /\ cancelThreads
            /\ pc' = "done"
            /\ undefinedBehaviour' =
                 (undefinedBehaviour
                   \/ Dangling({ mThread[k] : k \in ThreadKinds }))
            /\ UNCHANGED << mIsExecutingCommand, mQueuedCommands,
                            mShouldCancel, mShouldResetClient, forwarding >>

\* The members are destroyed.  The client socket goes first; the context then
\* waits until every socket made from it is closed: those of the secondary
\* threads when these are deleted, the command sockets only if execute()
\* closed them, because they are destroyed after the context.
ContextIdle ==
  /\ \A t \in DOMAIN threads : threads[t].state = "deleted"
  /\ \A k \in ThreadKinds : mCommandSocket[k] \in { Null, Closed }

Delete ==
  /\ pc = "done"
  /\ ContextIdle
  /\ close
  /\ terminateConnection
  /\ goto("deleted")
  /\ UNCHANGED << pipelineVars, threadVars >>

\* Terminating the context makes every receive fail (ETERM): a secondary
\* thread that nobody cancelled cancels itself.
ContextTerminates(t) ==
  /\ pc = "done"
  /\ failThread(t)
  /\ UNCHANGED << pyVars, tpxVars, commsVars >>

(***************************************************************************)
(* Everybody else.                                                         *)
(***************************************************************************)

Alive == pc \notin { "done", "deleted", "crashed" }

ClientSend(c) ==
  /\ Alive
  /\ clientSend(c)
  /\ UNCHANGED << tpxVars, threadVars, commsVars >>

\* MainWindow::stopServer.
Stop ==
  /\ WithStop
  /\ Alive
  /\ ~ mShouldCancel
  /\ mShouldCancel' = TRUE
  /\ UNCHANGED << pyVars, tpxVars, threadVars, pc, mShouldResetClient,
                  forwarding, undefinedBehaviour >>

LinkEstablished ==
  linkEstablished /\ UNCHANGED << pyVars, threadVars, commsVars >>

LinkRefused ==
  /\ "refused" \in Faults
  /\ linkRefused
  /\ UNCHANGED << pyVars, threadVars, commsVars >>

LinkBreaks ==
  /\ "broken" \in Faults
  /\ linkBreaks
  /\ UNCHANGED << pyVars, threadVars, commsVars >>

SpidrReplies ==
  spidrReplies /\ UNCHANGED << pyVars, threadVars, commsVars >>

StartThread(t) ==
  startThread(t) /\ UNCHANGED << pyVars, tpxVars, commsVars >>

PollCommands(t) ==
  /\ pollCommands(t)
  /\ undefinedBehaviour' =
       (undefinedBehaviour \/ ReadsPastData(Head(threads[t].req)))
  /\ UNCHANGED << pyVars, tpxVars, pc, mShouldCancel, mShouldResetClient,
                  forwarding >>

PollEmptyCommand(t) ==
  pollEmptyCommand(t) /\ UNCHANGED << pyVars, tpxVars, commsVars >>

\* The same wrapped count, when reserve() does not throw.
PollPastCommand(t) ==
  /\ Alive
  /\ HasEmptyCommand(t)
  /\ readPastMessage
  /\ UNCHANGED << pyVars, tpxVars, threadVars >>

ThreadFails(t) ==
  /\ "thread" \in Faults
  /\ failThread(t)
  /\ UNCHANGED << pyVars, tpxVars, commsVars >>

ExitThread(t) ==
  exitThread(t) /\ UNCHANGED << pyVars, tpxVars, commsVars >>

\* Undefined behaviour may bring the process down, then or later.
Crash ==
  /\ undefinedBehaviour
  /\ Alive
  /\ goto("crashed")
  /\ UNCHANGED << pyVars, tpxVars, threadVars >>

(***************************************************************************)
(* The specification.                                                      *)
(***************************************************************************)

TpxPoll ==
  \/ NothingToSend \/ SendCommand \/ SendReset
  \/ Reconnect \/ ReconnectFails \/ ReconnectBreaks
  \/ HandlersDone \/ Connected \/ CommandSent
  \/ ConnectFails \/ ReadFails \/ DiscardRecv \/ CommandRecv
  \/ ShortRecvThrows \/ ShortRecvReadsOn

HandleCommand ==
  \/ HandleNotConnected \/ HandleRagged \/ HandleEmpty \/ HandleWrongSize
  \/ HandleForTimepix \/ HandleBindUdpPort \/ HandleNoThread
  \/ HandleForThread \/ ForwardResponse \/ HandleUnknown

ClientPoll ==
  \/ SkipClient \/ NoRequest \/ ReceiveRequest \/ ReceiveFails \/ CancelAgain
  \/ HandleCommand

Execute ==
  \/ Start \/ StartWithoutEndpoint \/ StartWithoutSocket
  \/ LeaveLoop \/ EnterLoopBody \/ ResetClient \/ ResetClientFails
  \/ TpxPoll \/ ClientPoll
  \/ Cleanup \/ Delete

ThreadStep(t) ==
  \/ StartThread(t) \/ PollCommands(t)
  \/ PollEmptyCommand(t) \/ PollPastCommand(t)
  \/ ThreadFails(t) \/ ContextTerminates(t) \/ ExitThread(t)

Environment ==
  \/ \E c \in Clients : ClientSend(c)
  \/ Stop \/ LinkEstablished \/ LinkRefused \/ LinkBreaks \/ SpidrReplies
  \/ Crash

Next == Execute \/ Environment \/ \E t \in DOMAIN threads : ThreadStep(t)

Spec == Init /\ [][Next]_vars

(***************************************************************************)
(* Fairness.  The pool and the operating system keep running the threads   *)
(* there are; the connection attempt ends; the board replies.  No client   *)
(* has to send, nothing has to fail, nobody has to press Stop.             *)
(***************************************************************************)

\* The threads there can be: two, and one for every SET_UDP_PORT request.
ThreadIds == 1 .. (MaxRequests + 2)

ThreadFairness(t) ==
  /\ WF_vars(t \in DOMAIN threads /\ StartThread(t))
  /\ WF_vars(t \in DOMAIN threads /\ (\/ PollCommands(t)
                                      \/ PollEmptyCommand(t)
                                      \/ PollPastCommand(t)))
  /\ WF_vars(t \in DOMAIN threads /\ ContextTerminates(t))
  /\ WF_vars(t \in DOMAIN threads /\ ExitThread(t))

Fairness ==
  /\ WF_vars(Execute)
  /\ WF_vars(LinkEstablished \/ LinkRefused)
  /\ WF_vars(SpidrReplies)
  /\ \A t \in ThreadIds : ThreadFairness(t)

FairSpec == Spec /\ Fairness

(***************************************************************************)
(* Properties.                                                             *)
(***************************************************************************)

\* The manager that waits for the board is the one that is alive, its socket
\* owes the reply, and the only command queued is the one of that request:
\* mLastCommandSource never dangles and sending through it is never refused.
SourceAwaitsReply ==
  mLastCommandSource # 0 =>
    /\ mLastCommandSource = mClientManager
    /\ owed # NoClient
    /\ mQueuedCommands = << [command |-> request[owed].code,
                             data |-> request[owed].id,
                             sender |-> mLastCommandSource] >>

\* A queued command is the only one, comes from the manager that is alive, and
\* the client it was sent for is still owed the reply, unless the connection
\* broke and the client has been told so.
QueueServesClient ==
  mQueuedCommands # << >> =>
    /\ Len(mQueuedCommands) = 1
    /\ Head(mQueuedCommands).sender = mClientManager
    /\ mIsConnected => /\ owed # NoClient
                       /\ Head(mQueuedCommands).data = request[owed].id

\* commandRecv never runs without a client to answer: the runtime_error
\* "Received response, and there is no client!" is not thrown.
ReplyHasClient == op \in { "send", "read" } => mLastCommandSource # 0

\* No secondary thread is forgotten while it runs: one that nobody has told
\* to stop is the one its pointer in CommsThread still names.
NoLeakedThread ==
  \A t \in DOMAIN threads :
    threads[t].state # "deleted" /\ ~ threads[t].mShouldCancel
      => mThread[threads[t].kind] = t

\* A request is taken from the client socket only when no command is queued
\* or in execution, so that a reply can only be meant for one client.
TakenWhenIdle ==
  [][owed' # owed /\ owed' # NoClient
       => /\ ~ mIsExecutingCommand
          /\ mQueuedCommands = << >>
          /\ mLastCommandSource = 0]_vars

\* The server is a RequestReply server.
Promise == INSTANCE RequestReply WITH pending <- inbox, serving <- owed
KeepsPromise == Promise!Spec

(***************************************************************************)
(* The inductive invariant behind the safety properties.                   *)
(***************************************************************************)

\* The queue entry of the request that is being served.
Awaited == [command |-> request[owed].code, data |-> request[owed].id,
            sender |-> mClientManager]

\* Whoever waits in the client socket, or is owed its reply, has not been
\* answered, and nobody is both.
ClientInv ==
  /\ \A c \in Clients : request[c].id < nextId
  /\ \A c \in inbox : Waiting(c)
  /\ owed # NoClient => Waiting(owed) /\ owed \notin inbox

\* A command the board is executing is the one of the request being served.
InFlightInv ==
  mLastCommandSource # 0 =>
    /\ mLastCommandSource = mClientManager
    /\ owed # NoClient
    /\ mQueuedCommands = << Awaited >>
    /\ mLastCommand = request[owed].code
    /\ mIsExecutingCommand
    /\ mIsConnected

\* A command queued and not sent yet waits only from handleCommand to the next
\* poll of the board; one left behind by an error is never sent.
QueuedInv ==
  mQueuedCommands # << >> /\ mLastCommandSource = 0 =>
    \/ /\ owed # NoClient
       /\ mQueuedCommands = << Awaited >>
       /\ mLastCommand = request[owed].code
       /\ mIsConnected
       /\ ~ mIsExecutingCommand
       /\ pc \in { "loop", "tpx", "cleanup", "crashed" }
    \/ /\ Len(mQueuedCommands) = 1
       /\ Head(mQueuedCommands).sender = mClientManager
       /\ ~ mIsConnected
       /\ mIsExecutingCommand \/ pc \in { "done", "deleted" }

\* What is on the wire once connected belongs to the command in flight.
WireInv ==
  /\ op \in { "send", "read" } => mLastCommandSource # 0
  /\ op = "connect" =>
       ~ mIsConnected /\ ~ mIsExecutingCommand /\ mQueuedCommands = << >>
  /\ link \in { "closed", "connecting", "refused" } => ~ mIsConnected
  /\ ~ mIsConnected => tx = << >>
  /\ tx # << >> =>
       mLastCommandSource # 0 /\ tx = << Awaited >> /\ rx = << >>
  /\ rx # << >> /\ mIsConnected =>
       /\ mLastCommandSource # 0
       /\ Len(rx) = 1
       /\ Head(rx).data = { request[owed].id }

\* What holds at certain places of execute().
PlaceInv ==
  /\ pc = "start" =>
       /\ owed = NoClient /\ mQueuedCommands = << >>
       /\ op = "none" /\ ~ mIsConnected /\ ~ mIsExecutingCommand
       /\ threads = << >> /\ ~ mShouldResetClient
  /\ pc \in { "handle", "forward" } =>
       owed # NoClient /\ mQueuedCommands = << >> /\ ~ mIsExecutingCommand
  /\ pc = "reconnect" =>
       mQueuedCommands = << >> /\ ~ mIsConnected /\ op = "none"
  /\ pc = "reset" => mShouldResetClient
  /\ mShouldResetClient =>
       /\ mQueuedCommands = << >> /\ owed = NoClient
       /\ pc \in { "reset", "loop", "cleanup", "done", "deleted", "crashed" }
  /\ mClientManager = 0 => pc \in { "start", "done", "deleted", "crashed" }
  /\ pc \in { "done", "deleted" } => mLastCommandSource = 0

\* A secondary thread holds a request or a response only while the
\* communication thread waits for it, and they are those of the request
\* being served.
IdleThread(t) == threads[t].req = << >> /\ threads[t].rsp = << >>

ForwardInv ==
  /\ \A k \in ThreadKinds :
       mCommandSocket[k] \in { Null, Closed } \cup DOMAIN threads
  /\ pc \notin { "forward", "crashed" } =>
       \A t \in DOMAIN threads : IdleThread(t)
  /\ pc = "forward" =>
       /\ mCommandSocket[forwarding] \in DOMAIN threads
       /\ \A t \in DOMAIN threads :
            /\ t # mCommandSocket[forwarding] => IdleThread(t)
            /\ threads[t].req # << >> => threads[t].req = << request[owed] >>
            /\ threads[t].rsp # << >> =>
                 /\ threads[t].req = << >>
                 /\ Len(threads[t].rsp) = 1
                 /\ Promise!OwnReply(request[owed], Head(threads[t].rsp))

SafetyInv ==
  /\ ClientInv
  /\ InFlightInv
  /\ QueuedInv
  /\ WireInv
  /\ PlaceInv
  /\ ForwardInv

(***************************************************************************)
(* The inductive invariant behind OnlyFailedThreadsDangle.                 *)
(***************************************************************************)

\* While it runs, CommsThread points only to threads of the right kind.  One of
\* them is deleted only after it was told to stop, and only two things tell a
\* thread to stop that is still pointed to: its own failure, and the first of
\* the two cancel() of resetClientConnection().
PointerInv ==
  Alive =>
    \A k \in ThreadKinds : mThread[k] # 0 =>
      /\ mThread[k] \in DOMAIN threads
      /\ threads[mThread[k]].kind = k
      /\ threads[mThread[k]].state = "deleted"
           => threads[mThread[k]].mShouldCancel
      /\ threads[mThread[k]].mShouldCancel
           => threads[mThread[k]].failed \/ (k = "udp" /\ pc = "reset")

(***************************************************************************)
(* The inductive invariant behind NoneForsaken.                            *)
(***************************************************************************)

\* The board replies with commands of HANDLER_MAP only.
KnownReplies == "unrecognised" \notin ReplyKinds

RecognisedInv == \A i \in DOMAIN rx : rx[i].kind # "unrecognised"

\* At every poll of the client socket a reply is owed only for the command the
\* board is executing; so recv() is never refused and the socket never reset.
OwedInv ==
  /\ owed # NoClient =>
       \/ mLastCommandSource # 0
       \/ pc \in { "loop", "tpx" } /\ CanSend
       \/ pc \in { "handle", "forward", "cleanup" } \/ ~ Alive
  /\ pc # "reset"

\* No request is lost while the server runs: whoever waits for an answer waits
\* in the client socket or is being served.
NoneForsaken ==
  Alive => \A c \in Clients : Waiting(c) => c \in inbox \cup {owed}

\* A reply that commandRecv rejects leaves the command in execution and no
\* read pending (see CommandsComplete).
Hangs == mIsExecutingCommand /\ mLastCommandSource # 0 /\ op = "none"

\* Every request is answered, unless the server is cancelled (by Stop, or by
\* a connection that fails), hangs, or has brought the process down.
EveryRequestAnswered ==
  \A c \in Clients :
    Waiting(c) ~> (~ Waiting(c) \/ mShouldCancel \/ Hangs \/ pc = "crashed")

\* Seen from the window it is a BgThread: cancelled for good, returning once and
\* deleted after that.  Once cancelled, by Stop or by a failure, execute(), the
\* clean-up and the destructors all end (or the process is gone).
LifeState ==
  CASE Alive -> "running"
    [] pc = "done" -> "done"
    [] OTHER -> "deleted"

Life == INSTANCE BgThread WITH state <- LifeState
LifeCycle == Life!Spec

\* What the board is asked to do, it finishes: no command stays in execution.
\* The test peer goes on to wait for the next command after any reply.
CommandsComplete == mIsExecutingCommand ~> ~ mIsExecutingCommand

\* A server that ends has answered the client whose request it took.
EndsWithoutDebt == pc = "done" => owed = NoClient

\* A pointer of CommsThread names a thread that the pool has deleted only when
\* that thread ended itself, which nobody tells CommsThread, or between the two
\* cancel() of resetClientConnection(): SET_UDP_PORT, a reset and the clean-up
\* never reach a destroyed thread because of what the server did itself.
OnlyFailedThreadsDangle ==
  Alive =>
    \A k \in ThreadKinds :
      mThread[k] \in InState("deleted") =>
        threads[mThread[k]].failed \/ (k = "udp" /\ pc = "reset")

============================================================================
