------------------------- MODULE CommsThreadProofs -------------------------
(***************************************************************************)
(* Type correctness and the safety of CommsThread, proved for every set of *)
(* clients and messages, every number of requests, every kind of reply and *)
(* every combination of faults.  Only RequestsKept asks more of the        *)
(* constants, and says what.                                               *)
(***************************************************************************)
EXTENDS CommsThread, SequenceTheorems, TLAPS

\* What the operations on sequences return.
LEMMA SeqFacts ==
  ASSUME NEW S
  PROVE  /\ << >> \in Seq(S)
         /\ \A e \in S : << e >> \in Seq(S)
         /\ \A s \in Seq(S) :
              s # << >> => Head(s) \in S /\ Tail(s) \in Seq(S)
         /\ \A s \in Seq(S), e \in S : Append(s, e) \in Seq(S)
<1>1. << >> \in Seq(S)
  OBVIOUS
<1>2. \A e \in S : << e >> \in Seq(S)
  OBVIOUS
<1>3. \A s \in Seq(S) : s # << >> => Head(s) \in S /\ Tail(s) \in Seq(S)
  OBVIOUS
<1>4. \A s \in Seq(S), e \in S : Append(s, e) \in Seq(S)
  OBVIOUS
<1> QED
  BY <1>1, <1>2, <1>3, <1>4

\* Overriding a function in its range keeps it in its function space.
LEMMA ExceptFacts ==
  ASSUME NEW D, NEW R, NEW f \in [D -> R], NEW x, NEW e \in R
  PROVE  [f EXCEPT ![x] = e] \in [D -> R]
OBVIOUS

(***************************************************************************)
(* Type correctness, first of each component's part of a step.             *)
(***************************************************************************)

\* A component whose variables a step leaves alone keeps its types.
LEMMA UnchangedTypes ==
  /\ PyTypeOK /\ UNCHANGED pyVars => PyTypeOK'
  /\ TpxTypeOK /\ UNCHANGED tpxVars => TpxTypeOK'
  /\ ThreadTypeOK /\ UNCHANGED threadVars => ThreadTypeOK'
  /\ CommsTypeOK /\ UNCHANGED commsVars => CommsTypeOK'
<1>1. PyTypeOK /\ UNCHANGED pyVars => PyTypeOK'
  BY DEF PyTypeOK, pyVars, clientVars
<1>2. TpxTypeOK /\ UNCHANGED tpxVars => TpxTypeOK'
  BY DEF TpxTypeOK, tpxVars
<1>3. ThreadTypeOK /\ UNCHANGED threadVars => ThreadTypeOK'
  BY DEF ThreadTypeOK, threadVars
<1>4. CommsTypeOK /\ UNCHANGED commsVars => CommsTypeOK'
  BY DEF CommsTypeOK, commsVars
<1> QED
  BY <1>1, <1>2, <1>3, <1>4

\* The client manager's part of a step keeps its types.
LEMMA PyStepTypes ==
  ASSUME PyTypeOK
  PROVE  /\ \A c \in Clients : clientSend(c) => PyTypeOK'
         /\ open => PyTypeOK'
         /\ close => PyTypeOK'
         /\ \A c \in Clients : recv(c) => PyTypeOK'
         /\ \A reply \in Reply :
              send(reply) /\ UNCHANGED mLastCommand => PyTypeOK'
         /\ \A data \in SUBSET Nat : sendResponse(data) => PyTypeOK'
         /\ \A e \in ErrorCodes : sendError(e) => PyTypeOK'
         /\ \A code \in RequestCodes : sendEmptyResponse(code) => PyTypeOK'
         /\ \A code \in RequestCodes : rememberCommand(code) => PyTypeOK'
<1> USE DEF PyTypeOK
<1>1. ASSUME NEW c \in Clients, clientSend(c)  PROVE PyTypeOK'
  BY <1>1, ClientsAssumption DEF clientSend, Request
<1>2. open => PyTypeOK'
  <2>1. "ERROR_OCCURED" \in ErrorCodes
    BY DEF ErrorCodes
  <2> QED
    BY <2>1 DEF open, clientVars
<1>3. close => PyTypeOK'
  BY DEF close, clientVars
<1>4. ASSUME NEW c \in Clients, recv(c)  PROVE PyTypeOK'
  BY <1>4 DEF recv, clientVars
<1>5. ASSUME NEW reply \in Reply, send(reply),
             mLastCommand' \in RequestCodes \cup ErrorCodes
      PROVE  PyTypeOK'
  BY <1>5 DEF send, SendRefused
<1>6. ASSUME NEW data \in SUBSET Nat, sendResponse(data)  PROVE PyTypeOK'
  BY <1>5, <1>6 DEF sendResponse, Reply
<1>7. ASSUME NEW e \in ErrorCodes, sendError(e)  PROVE PyTypeOK'
  BY <1>5, <1>7 DEF sendError, Reply
<1>8. ASSUME NEW code \in RequestCodes, sendEmptyResponse(code)
      PROVE  PyTypeOK'
  BY <1>5, <1>8 DEF sendEmptyResponse, Reply
<1>9. ASSUME NEW code \in RequestCodes, rememberCommand(code)
      PROVE  PyTypeOK'
  BY <1>9 DEF rememberCommand, clientVars
<1> QED
  BY <1>1, <1>2, <1>3, <1>4, <1>5, <1>6, <1>7, <1>8, <1>9

\* The board manager's part of a step keeps its types.
LEMMA TpxStepTypes ==
  ASSUME TpxTypeOK
  PROVE  /\ startConnecting => TpxTypeOK'
         /\ \A b \in AvailableAtConnect \cup {rx} :
              /\ initializeConnection(b)
              /\ link' \in { "open", "broken", link }
              => TpxTypeOK'
         /\ \A info \in TimepixCommandInfo : queueCommand(info) => TpxTypeOK'
         /\ CanSend /\ sendCommand => TpxTypeOK'
         /\ commandSent => TpxTypeOK'
         /\ rx # << >> /\ discardRecv => TpxTypeOK'
         /\ rx # << >> /\ mQueuedCommands # << >> /\ processRecv => TpxTypeOK'
         /\ linkEstablished => TpxTypeOK'
         /\ linkRefused => TpxTypeOK'
         /\ linkBreaks => TpxTypeOK'
         /\ spidrReplies => TpxTypeOK'
<1> USE DEF TpxTypeOK, pipelineVars
<1>1. startConnecting => TpxTypeOK'
  BY DEF startConnecting
<1>2. ASSUME NEW b, initializeConnection(b),
             link' \in { "open", "broken", link }
      PROVE  TpxTypeOK'
  BY <1>2, SeqFacts DEF initializeConnection, Drain
<1>3. ASSUME NEW info \in TimepixCommandInfo, queueCommand(info)
      PROVE  TpxTypeOK'
  BY <1>3 DEF queueCommand
<1>4. CanSend /\ sendCommand => TpxTypeOK'
  <2>1. CanSend => Head(mQueuedCommands) \in TimepixCommandInfo
    BY DEF CanSend
  <2>2. \A i \in TimepixCommandInfo : i.sender \in Nat
    BY DEF TimepixCommandInfo
  <2> QED
    BY <2>1, <2>2 DEF sendCommand
<1>5. commandSent => TpxTypeOK'
  BY DEF commandSent
<1>6. rx # << >> /\ discardRecv => TpxTypeOK'
  BY DEF discardRecv
<1>7. rx # << >> /\ mQueuedCommands # << >> /\ processRecv => TpxTypeOK'
  <2>1. rx # << >> => Tail(rx) \in Seq(Message)
    BY SeqFacts
  <2>2. mQueuedCommands # << >> =>
          Tail(mQueuedCommands) \in Seq(TimepixCommandInfo)
    BY SeqFacts
  <2> SUFFICES ASSUME rx # << >>, mQueuedCommands # << >>, processRecv
               PROVE  TpxTypeOK'
    OBVIOUS
  <2>3. rx' \in Seq(Message)
    BY <2>1 DEF processRecv
  <2>4. mQueuedCommands' \in Seq(TimepixCommandInfo)
    BY <2>2 DEF processRecv
  <2>5. /\ op' = "none" /\ mIsExecutingCommand' = FALSE
        /\ mLastCommandSource' = 0
        /\ UNCHANGED << mIsConnected, link, tx >>
    BY DEF processRecv
  <2> QED
    BY <2>3, <2>4, <2>5
<1>8. linkEstablished => TpxTypeOK'
  <2>1. Stale \in Message
    BY DEF Stale, Message, AllReplyKinds
  <2> QED
    BY <2>1, SeqFacts DEF linkEstablished, AvailableAtConnect
<1>9. linkRefused => TpxTypeOK'
  BY DEF linkRefused
<1>10. linkBreaks => TpxTypeOK'
  BY DEF linkBreaks
<1>11. spidrReplies => TpxTypeOK'
  <2> SUFFICES ASSUME spidrReplies  PROVE TpxTypeOK'
    OBVIOUS
  <2>1. Head(tx).data \in Nat
    <3>1. Head(tx) \in TimepixCommandInfo
      BY SeqFacts DEF spidrReplies
    <3> QED
      BY <3>1 DEF TimepixCommandInfo
  <2>2. \A k \in ReplyKinds :
          [kind |-> k, data |-> { Head(tx).data }] \in Message
    BY <2>1, ReplyKindsAssumption DEF Message
  <2> QED
    BY <2>2 DEF spidrReplies
<1> QED
  BY <1>1, <1>2, <1>3, <1>4, <1>5, <1>6, <1>7, <1>8, <1>9, <1>10, <1>11

\* The secondary threads' part of a step keeps their types.
LEMMA ThreadStepTypes ==
  ASSUME ThreadTypeOK
  PROVE  /\ \A ts : cancelled(ts) \in Seq(Thread)
         /\ startClusterAndHistogramThreads => ThreadTypeOK'
         /\ bindUdpPort => ThreadTypeOK'
         /\ cancelThreads => ThreadTypeOK'
         /\ \A k \in ThreadKinds, r \in Forwarded :
              mCommandSocket[k] \in DOMAIN threads /\ forwardRequest(k, r)
              => ThreadTypeOK'
         /\ \A k \in ThreadKinds :
              mCommandSocket[k] \in DOMAIN threads /\ receiveResponse(k)
              => ThreadTypeOK'
         /\ \A t : startThread(t) => ThreadTypeOK'
         /\ \A t : pollCommands(t) => ThreadTypeOK'
         /\ \A t : pollEmptyCommand(t) => ThreadTypeOK'
         /\ \A t : failThread(t) => ThreadTypeOK'
         /\ \A t : exitThread(t) => ThreadTypeOK'
<1> USE DEF ThreadTypeOK
<1>1. \A t \in DOMAIN threads : threads[t] \in Thread
  OBVIOUS
<1>2. ASSUME NEW t \in DOMAIN threads, NEW x \in Thread
      PROVE  [threads EXCEPT ![t] = x] \in Seq(Thread)
  OBVIOUS
<1>3. ASSUME NEW k \in ThreadKinds
      PROVE  NewThread(k) \in Thread
  BY SeqFacts, <1>3 DEF NewThread, Thread
<1>4. ASSUME NEW ts
      PROVE  /\ cancelled(ts) \in Seq(Thread)
             /\ Len(cancelled(ts)) = Len(threads)
  <2>1. \A t \in DOMAIN threads :
          [threads[t] EXCEPT !.mShouldCancel = TRUE] \in Thread
    BY <1>1 DEF Thread
  <2>2. DOMAIN threads = 1 .. Len(threads) /\ Len(threads) \in Nat
    OBVIOUS
  <2>3. cancelled(ts) \in [1 .. Len(threads) -> Thread]
    BY <1>1, <2>1, <2>2 DEF cancelled
  <2> QED
    BY <2>2, <2>3
<1>5. startClusterAndHistogramThreads => ThreadTypeOK'
  <2>1. NewThread("cluster") \in Thread /\ NewThread("histogram") \in Thread
    BY <1>3 DEF ThreadKinds
  <2>2. Len(threads) \in Nat
    OBVIOUS
  <2>3. << NewThread("cluster"), NewThread("histogram") >> \in Seq(Thread)
    BY <2>1
  <2>4. threads \o << NewThread("cluster"), NewThread("histogram") >>
          \in Seq(Thread)
    BY <2>3
  <2> SUFFICES ASSUME startClusterAndHistogramThreads  PROVE ThreadTypeOK'
    OBVIOUS
  <2>5. threads' \in Seq(Thread)
    BY <2>4 DEF startClusterAndHistogramThreads
  <2>6. Len(threads) + 1 \in Nat /\ Len(threads) + 2 \in Nat
    BY <2>2
  <2>7. mThread' \in [ThreadKinds -> Nat]
    BY <2>6, ExceptFacts, Zenon DEF startClusterAndHistogramThreads
  <2>8. Len(threads) + 1 \in Int /\ Len(threads) + 2 \in Int
    BY <2>6
  <2>9. mCommandSocket' \in [ThreadKinds -> Int]
    BY <2>8, ExceptFacts, Zenon DEF startClusterAndHistogramThreads
  <2> QED
    BY <2>5, <2>7, <2>9
<1>6. bindUdpPort => ThreadTypeOK'
  <2>1. NewThread("udp") \in Thread
    BY <1>3 DEF ThreadKinds
  <2>2. Append(cancelled({mThread["udp"]}), NewThread("udp")) \in Seq(Thread)
    BY <2>1, <1>4, SeqFacts
  <2>3. Len(threads) \in Nat
    OBVIOUS
  <2> SUFFICES ASSUME bindUdpPort  PROVE ThreadTypeOK'
    OBVIOUS
  <2>4. threads' \in Seq(Thread)
    BY <2>2 DEF bindUdpPort
  <2>5. Len(threads) + 1 \in Nat /\ Len(threads) + 1 \in Int
    BY <2>3
  <2>6. mThread' \in [ThreadKinds -> Nat]
    BY <2>5, ExceptFacts, Zenon DEF bindUdpPort
  <2>7. mCommandSocket' \in [ThreadKinds -> Int]
    BY <2>5, ExceptFacts, Zenon DEF bindUdpPort
  <2> QED
    BY <2>4, <2>6, <2>7
<1>7. cancelThreads => ThreadTypeOK'
  BY <1>4 DEF cancelThreads, Null, Closed
<1>8. ASSUME NEW k \in ThreadKinds, NEW r \in Forwarded,
             mCommandSocket[k] \in DOMAIN threads, forwardRequest(k, r)
      PROVE  ThreadTypeOK'
  <2> DEFINE t == mCommandSocket[k]
  <2>1. << r >> \in Seq(Forwarded)
    BY SeqFacts
  <2>2. [threads[t] EXCEPT !.req = << r >>] \in Thread
    BY <1>1, <1>8, <2>1 DEF Thread
  <2>3. threads' = [threads EXCEPT ![t] =
                      [threads[t] EXCEPT !.req = << r >>]]
    BY <1>8 DEF forwardRequest
  <2> QED
    BY <1>2, <1>8, <2>2, <2>3 DEF forwardRequest
<1>9. ASSUME NEW k \in ThreadKinds,
             mCommandSocket[k] \in DOMAIN threads, receiveResponse(k)
      PROVE  ThreadTypeOK'
  <2> DEFINE t == mCommandSocket[k]
  <2>0. << >> \in Seq(Response)
    BY SeqFacts
  <2>1. [threads[t] EXCEPT !.rsp = << >>] \in Thread
    BY <1>1, <1>9, <2>0 DEF Thread
  <2>2. threads' = [threads EXCEPT ![t] =
                      [threads[t] EXCEPT !.rsp = << >>]]
    BY <1>9 DEF receiveResponse
  <2> QED
    BY <1>2, <1>9, <2>1, <2>2 DEF receiveResponse
<1>10. ASSUME NEW t, startThread(t)  PROVE ThreadTypeOK'
  <2>1. t \in DOMAIN threads
    BY <1>10 DEF startThread, InState
  <2>2. [threads[t] EXCEPT !.state = "running"] \in Thread
    BY <1>1, <2>1 DEF Thread
  <2> QED
    BY <1>2, <1>10, <2>1, <2>2 DEF startThread
<1>11. ASSUME NEW t, pollCommands(t)  PROVE ThreadTypeOK'
  <2>1. t \in DOMAIN threads
    BY <1>11 DEF pollCommands, InState
  <2>2. Head(threads[t].req) \in Forwarded
    BY <1>1, <1>11, <2>1, SeqFacts DEF pollCommands, Thread
  <2>3. PICK rsp \in Responses(Head(threads[t].req)) :
          threads' = [threads EXCEPT ![t].req = << >>, ![t].rsp = << rsp >>]
    BY <1>11 DEF pollCommands
  <2>4. rsp \in Response
    BY <2>2, <2>3 DEF Responses, HandlerSuccess, HandlerErrors, Response,
                      Forwarded, ErrorCodes
  <2>5. << rsp >> \in Seq(Response) /\ << >> \in Seq(Forwarded)
    BY <2>4, SeqFacts
  <2>6. [threads[t] EXCEPT !.req = << >>, !.rsp = << rsp >>] \in Thread
    BY <1>1, <2>1, <2>5 DEF Thread
  <2>7. threads' = [threads EXCEPT ![t] =
                      [threads[t] EXCEPT !.req = << >>, !.rsp = << rsp >>]]
    BY <2>1, <2>3
  <2> QED
    BY <1>2, <1>11, <2>1, <2>6, <2>7 DEF pollCommands
<1>12. ASSUME NEW t, pollEmptyCommand(t)  PROVE ThreadTypeOK'
  <2>1. t \in DOMAIN threads
    BY <1>12 DEF pollEmptyCommand, HasEmptyCommand, InState
  <2>0. << >> \in Seq(Forwarded)
    BY SeqFacts
  <2>2. [threads[t] EXCEPT !.req = << >>, !.mShouldCancel = TRUE,
                           !.failed = TRUE] \in Thread
    BY <1>1, <2>0, <2>1 DEF Thread
  <2>3. threads' = [threads EXCEPT ![t] =
                  [threads[t] EXCEPT !.req = << >>, !.mShouldCancel = TRUE,
                                     !.failed = TRUE]]
    BY <1>12, <2>1 DEF pollEmptyCommand
  <2>4. threads' \in Seq(Thread)
    BY <1>2, <2>1, <2>2, <2>3
  <2> QED
    BY <1>12, <2>4 DEF pollEmptyCommand
<1>13. ASSUME NEW t, failThread(t)  PROVE ThreadTypeOK'
  <2>1. t \in DOMAIN threads
    BY <1>13 DEF failThread, InState
  <2>2. [threads[t] EXCEPT !.mShouldCancel = TRUE, !.failed = TRUE] \in Thread
    BY <1>1, <2>1 DEF Thread
  <2>3. threads' = [threads EXCEPT ![t] =
                  [threads[t] EXCEPT !.mShouldCancel = TRUE, !.failed = TRUE]]
    BY <1>13, <2>1 DEF failThread
  <2>4. threads' \in Seq(Thread)
    BY <1>2, <2>1, <2>2, <2>3
  <2> QED
    BY <1>13, <2>4 DEF failThread
<1>14. ASSUME NEW t, exitThread(t)  PROVE ThreadTypeOK'
  <2>1. t \in DOMAIN threads
    BY <1>14 DEF exitThread, InState
  <2>2. [threads[t] EXCEPT !.state = "deleted"] \in Thread
    BY <1>1, <2>1 DEF Thread
  <2> QED
    BY <1>2, <1>14, <2>1, <2>2 DEF exitThread
<1> QED
  BY <1>4, <1>5, <1>6, <1>7, <1>8, <1>9, <1>10, <1>11, <1>12, <1>13, <1>14

\* The communication thread's own part of a step keeps its types.
LEMMA CommsStepTypes ==
  ASSUME CommsTypeOK
  PROVE  /\ \A l \in Locations : goto(l) => CommsTypeOK'
         /\ \A l \in Locations : cancelAndGoto(l) => CommsTypeOK'
         /\ readPastMessage => CommsTypeOK'
<1>1. ASSUME NEW l \in Locations, goto(l)  PROVE CommsTypeOK'
  BY <1>1 DEF CommsTypeOK, goto
<1>2. ASSUME NEW l \in Locations, cancelAndGoto(l)  PROVE CommsTypeOK'
  BY <1>2 DEF CommsTypeOK, cancelAndGoto
<1>3. readPastMessage => CommsTypeOK'
  BY DEF CommsTypeOK, readPastMessage, Locations
<1> QED
  BY <1>1, <1>2, <1>3

\* terminateConnection leaves the queue and the source of the command to the
\* code around it.
LEMMA TerminateTypes ==
  ASSUME TpxTypeOK, terminateConnection,
         mIsExecutingCommand' \in BOOLEAN, mLastCommandSource' \in Nat,
         mQueuedCommands' \in Seq(TimepixCommandInfo)
  PROVE  TpxTypeOK'
BY SeqFacts DEF TpxTypeOK, terminateConnection

\* What handleCommand knows of the request it handles.
LEMMA HandledRequest ==
  ASSUME TypeOK, SafetyInv, pc \in { "handle", "forward" }
  PROVE  /\ owed \in Clients
         /\ Req \in Request
         /\ Req.id \in Nat /\ Req.code \in RequestCodes
<1>1. owed \in Clients
  BY DEF TypeOK, PyTypeOK, SafetyInv, PlaceInv
<1>2. Req \in Request
  BY <1>1 DEF TypeOK, PyTypeOK, Req
<1> QED
  BY <1>1, <1>2 DEF Request

\* Every step of TimepixConnectionManager::poll keeps the types.
LEMMA TpxPollTypes ==
  ASSUME TypeOK, SafetyInv, TpxPoll
  PROVE  TypeOK'
<1> USE UnchangedTypes, PyStepTypes, TpxStepTypes, CommsStepTypes
<1> USE DEF TypeOK
<1>0. /\ "asio" \in Locations /\ "client" \in Locations
      /\ "cleanup" \in Locations /\ "reconnect" \in Locations
      /\ "ERROR_OCCURED" \in ErrorCodes
      /\ "INVALID_COMMAND_DATA" \in ErrorCodes
      /\ {} \in SUBSET Nat
  BY DEF Locations, ErrorCodes
<1>1. CASE NothingToSend
  BY <1>0, <1>1 DEF NothingToSend
<1>2. CASE SendCommand
  BY <1>0, <1>2 DEF SendCommand
<1>3. CASE SendReset
  <2>1. /\ Head(mQueuedCommands) \in TimepixCommandInfo
        /\ Tail(mQueuedCommands) \in Seq(TimepixCommandInfo)
    BY <1>3, SeqFacts DEF SendReset, CanSend, TpxTypeOK
  <2>2. Head(mQueuedCommands).sender \in Nat
    BY <2>1 DEF TimepixCommandInfo
  <2>3. TpxTypeOK'
    <3>1. terminateConnection /\ mIsExecutingCommand' \in BOOLEAN
      BY <1>3 DEF SendReset
    <3>2. mLastCommandSource' \in Nat
      BY <1>3, <2>2 DEF SendReset
    <3>3. mQueuedCommands' \in Seq(TimepixCommandInfo)
      BY <1>3, <2>1 DEF SendReset, TpxTypeOK
    <3> QED
      BY <3>1, <3>2, <3>3, TerminateTypes
  <2>4. PyTypeOK'
    BY <1>0, <1>3 DEF SendReset
  <2>5. CommsTypeOK'
    <3>1. CASE SendRefused
      BY <1>0, <1>3, <3>1 DEF SendReset
    <3>2. CASE ~ SendRefused
      BY <1>0, <1>3, <3>2 DEF SendReset, CommsTypeOK
    <3> QED
      BY <3>1, <3>2
  <2>6. ThreadTypeOK'
    BY <1>3 DEF SendReset
  <2> QED
    BY <2>3, <2>4, <2>5, <2>6
<1>4. CASE Reconnect
  <2>1. TpxTypeOK'
    BY <1>4 DEF Reconnect
  <2> QED
    BY <1>0, <1>4, <2>1 DEF Reconnect
<1>5. CASE ReconnectFails
  BY <1>0, <1>5 DEF ReconnectFails
<1>6. CASE ReconnectBreaks
  <2>1. TpxTypeOK'
    BY <1>6 DEF ReconnectBreaks, AvailableAtConnect
  <2> QED
    BY <1>0, <1>6, <2>1 DEF ReconnectBreaks
<1>7. CASE HandlersDone
  BY <1>0, <1>7 DEF HandlersDone
<1>8. CASE Connected
  BY <1>0, <1>8 DEF Connected
<1>9. CASE CommandSent
  BY <1>0, <1>9 DEF CommandSent
<1>10. ASSUME networkError  PROVE TypeOK'
  <2>1. TpxTypeOK'
    <3>1. terminateConnection
      BY <1>10 DEF networkError
    <3>2. /\ mIsExecutingCommand' \in BOOLEAN
          /\ mQueuedCommands' \in Seq(TimepixCommandInfo)
          /\ mLastCommandSource' \in Nat
      BY <1>10 DEF networkError, TpxTypeOK
    <3> QED
      BY <3>1, <3>2, TerminateTypes
  <2>2. PyTypeOK'
    BY <1>0, <1>10 DEF networkError
  <2>3. CommsTypeOK'
    BY <1>0, <1>10 DEF networkError
  <2>4. ThreadTypeOK'
    BY <1>10 DEF networkError
  <2> QED
    BY <2>1, <2>2, <2>3, <2>4
<1>11. CASE ConnectFails
  BY <1>10, <1>11 DEF ConnectFails
<1>12. CASE ReadFails
  BY <1>10, <1>12 DEF ReadFails
<1>13. CASE DiscardRecv
  BY <1>13 DEF DiscardRecv
<1>14. CASE CommandRecv
  <2>1. ThreadTypeOK' /\ CommsTypeOK'
    BY <1>0, <1>14 DEF CommandRecv, CommsTypeOK
  <2>2. CASE recvThrows(Head(rx))
    BY <1>14, <2>1, <2>2 DEF CommandRecv
  <2>3. CASE ~ recvThrows(Head(rx))
    <3>1. mQueuedCommands # << >>
      BY <2>3 DEF recvThrows, SafetyInv, InFlightInv
    <3>2. Head(rx) \in Message
      BY <1>14, SeqFacts DEF CommandRecv, TpxTypeOK
    <3>3. Head(rx).data \in SUBSET Nat
      BY <3>2 DEF Message
    <3>4. PyTypeOK'
      BY <1>0, <1>14, <2>3, <3>3 DEF CommandRecv, replyToClient
    <3>5. TpxTypeOK'
      BY <1>14, <2>3, <3>1 DEF CommandRecv
    <3> QED
      BY <2>1, <3>4, <3>5
  <2> QED
    BY <2>2, <2>3
<1>15. CASE ShortRecvThrows \/ ShortRecvReadsOn
  BY <1>0, <1>15 DEF ShortRecvThrows, ShortRecvReadsOn, ShortReply
<1> QED
  BY <1>1, <1>2, <1>3, <1>4, <1>5, <1>6, <1>7, <1>8, <1>9, <1>11, <1>12,
     <1>13, <1>14, <1>15 DEF TpxPoll

\* Every step of PythonConnectionManager::poll and handleCommand keeps the
\* types.
LEMMA ClientPollTypes ==
  ASSUME TypeOK, SafetyInv, ClientPoll
  PROVE  TypeOK'
<1> USE UnchangedTypes, PyStepTypes, CommsStepTypes
<1> USE DEF TypeOK
<1>0. /\ "loop" \in Locations /\ "handle" \in Locations
      /\ "reset" \in Locations /\ "cleanup" \in Locations
      /\ "forward" \in Locations
      /\ "ERROR_OCCURED" \in ErrorCodes
      /\ "INVALID_COMMAND_DATA" \in ErrorCodes
      /\ "THREAD_NOT_STARTED" \in ErrorCodes
      /\ "THREAD_NOT_CONNECTED" \in ErrorCodes
      /\ "UNKNOWN_COMMAND" \in ErrorCodes
  BY DEF Locations, ErrorCodes
<1>1. CASE SkipClient
  BY <1>0, <1>1 DEF SkipClient
<1>2. CASE NoRequest
  BY <1>0, <1>2 DEF NoRequest
<1>3. CASE ReceiveRequest
  BY <1>0, <1>3 DEF ReceiveRequest
<1>4. CASE ReceiveFails
  <2>1. threads' \in Seq(Thread)
    BY <1>4, ThreadStepTypes DEF ReceiveFails
  <2>2. ThreadTypeOK'
    BY <1>4, <2>1 DEF ReceiveFails, ThreadTypeOK
  <2>3. CommsTypeOK'
    BY <1>0, <1>4 DEF ReceiveFails, CommsTypeOK
  <2> QED
    BY <1>4, <2>2, <2>3 DEF ReceiveFails
<1>5. CASE CancelAgain
  <2>1. threads' \in Seq(Thread)
    BY <1>5, ThreadStepTypes DEF CancelAgain
  <2>2. ThreadTypeOK'
    BY <1>5, <2>1 DEF CancelAgain, ThreadTypeOK
  <2>3. CommsTypeOK'
    BY <1>0, <1>5 DEF CancelAgain, CommsTypeOK
  <2> QED
    BY <1>5, <2>2, <2>3 DEF CancelAgain
<1>6. CASE HandleNotConnected
  BY <1>0, <1>6 DEF HandleNotConnected
<1>7. CASE HandleRagged
  BY <1>0, <1>7 DEF HandleRagged
<1>8. CASE HandleEmpty
  BY <1>0, <1>8 DEF HandleEmpty
<1>9. CASE HandleWrongSize
  BY <1>0, <1>9 DEF HandleWrongSize
<1>10. CASE HandleForTimepix
  <2>1. Req.id \in Nat /\ Req.code \in RequestCodes
    BY <1>10, HandledRequest DEF HandleForTimepix, Handling
  <2>2. [command |-> Req.code, data |-> Req.id, sender |-> mClientManager]
          \in TimepixCommandInfo
    BY <1>10, <2>1 DEF HandleForTimepix, TimepixCommandInfo, PyTypeOK
  <2>3. TpxTypeOK'
    BY <1>10, <2>2, TpxStepTypes DEF HandleForTimepix
  <2> QED
    BY <1>0, <1>10, <2>1, <2>3 DEF HandleForTimepix
<1>11. CASE HandleBindUdpPort
  <2>1. Req.code \in RequestCodes
    BY <1>11, HandledRequest DEF HandleBindUdpPort, Handling
  <2>2. ThreadTypeOK'
    BY <1>11, ThreadStepTypes DEF HandleBindUdpPort
  <2>3. CommsTypeOK'
    BY <1>0, <1>11 DEF HandleBindUdpPort, CommsTypeOK
  <2> QED
    BY <1>11, <2>1, <2>2, <2>3 DEF HandleBindUdpPort
<1>12. CASE HandleNoThread
  <2>1. PyTypeOK'
    BY <1>0, <1>12 DEF HandleNoThread
  <2> QED
    BY <1>0, <1>12, <2>1 DEF HandleNoThread
<1>13. CASE HandleForThread
  <2>1. PICK k \in ThreadKinds :
          /\ ForwardedTo(k)
          /\ mCommandSocket[k] \notin { Null, Closed }
          /\ forwardRequest(k, Req)
          /\ forwarding' = k
    BY <1>13 DEF HandleForThread
  <2>2. Req \in Forwarded
    BY <2>1, HandledRequest DEF ForwardedTo, Handling, Request, Forwarded
  <2>3. mCommandSocket[k] \in DOMAIN threads
    BY <2>1 DEF SafetyInv, ForwardInv
  <2>4. ThreadTypeOK'
    BY <2>1, <2>2, <2>3, ThreadStepTypes
  <2>5. CommsTypeOK'
    BY <1>0, <1>13, <2>1 DEF HandleForThread, CommsTypeOK
  <2> QED
    BY <1>13, <2>4, <2>5 DEF HandleForThread
<1>14. CASE ForwardResponse
  <2> DEFINE t == mCommandSocket[forwarding]
  <2>1. forwarding \in ThreadKinds /\ t \in DOMAIN threads
    BY <1>14 DEF ForwardResponse, CommsTypeOK, SafetyInv, ForwardInv
  <2>2. threads[t] \in Thread
    BY <2>1 DEF ThreadTypeOK
  <2>3. threads[t].rsp \in Seq(Response)
    BY <2>2 DEF Thread
  <2>4. Head(threads[t].rsp) \in Reply
    BY <1>14, <2>3, SeqFacts DEF ForwardResponse, Reply, Response
  <2>5. PyTypeOK'
    BY <1>14, <2>4 DEF ForwardResponse
  <2>6. ThreadTypeOK'
    BY <1>14, <2>1, ThreadStepTypes DEF ForwardResponse
  <2> QED
    BY <1>0, <1>14, <2>5, <2>6 DEF ForwardResponse
<1>15. CASE HandleUnknown
  BY <1>0, <1>15 DEF HandleUnknown
<1> QED
  BY <1>1, <1>2, <1>3, <1>4, <1>5, <1>6, <1>7, <1>8, <1>9, <1>10, <1>11,
     <1>12, <1>13, <1>14, <1>15 DEF ClientPoll, HandleCommand

\* Every other step of execute() keeps the types.
LEMMA LoopTypes ==
  ASSUME TypeOK, SafetyInv,
         \/ Start \/ StartWithoutEndpoint \/ StartWithoutSocket
         \/ LeaveLoop \/ EnterLoopBody \/ ResetClient \/ ResetClientFails
         \/ Cleanup \/ Delete
  PROVE  TypeOK'
<1> USE UnchangedTypes, PyStepTypes, TpxStepTypes, CommsStepTypes,
        ThreadStepTypes
<1> USE DEF TypeOK
<1>0. /\ "loop" \in Locations /\ "done" \in Locations
      /\ "cleanup" \in Locations /\ "tpx" \in Locations
      /\ "deleted" \in Locations
      /\ "ERROR_OCCURED" \in ErrorCodes
  BY DEF Locations, ErrorCodes
<1>1. CASE Start
  BY <1>0, <1>1 DEF Start
<1>2. CASE StartWithoutEndpoint
  BY <1>0, <1>2 DEF StartWithoutEndpoint
<1>3. CASE StartWithoutSocket
  BY <1>0, <1>3 DEF StartWithoutSocket
<1>4. CASE LeaveLoop
  BY <1>0, <1>4 DEF LeaveLoop
<1>5. CASE EnterLoopBody
  BY <1>0, <1>5 DEF EnterLoopBody
<1>6. CASE ResetClient
  <2>1. CommsTypeOK'
    BY <1>0, <1>6 DEF ResetClient, CommsTypeOK
  <2> QED
    BY <1>6, <2>1 DEF ResetClient
<1>7. CASE ResetClientFails
  BY <1>0, <1>7 DEF ResetClientFails
<1>8. CASE Cleanup
  <2>1. CASE mLastCommandSource # 0 /\ SendRefused
    BY <1>0, <1>8, <2>1 DEF Cleanup
  <2>2. CASE ~ (mLastCommandSource # 0 /\ SendRefused)
    <3>1. TpxTypeOK'
      <4>1. terminateConnection /\ mLastCommandSource' \in Nat
        BY <1>8, <2>2 DEF Cleanup
      <4>2. /\ mIsExecutingCommand' \in BOOLEAN
            /\ mQueuedCommands' \in Seq(TimepixCommandInfo)
        BY <1>8, <2>2 DEF Cleanup, TpxTypeOK
      <4> QED
        BY <4>1, <4>2, TerminateTypes
    <3>2. PyTypeOK'
      BY <1>0, <1>8, <2>2 DEF Cleanup
    <3>3. ThreadTypeOK'
      BY <1>8, <2>2 DEF Cleanup
    <3>4. CommsTypeOK'
      BY <1>0, <1>8, <2>2 DEF Cleanup, CommsTypeOK
    <3> QED
      BY <3>1, <3>2, <3>3, <3>4
  <2> QED
    BY <2>1, <2>2
<1>9. CASE Delete
  <2>1. TpxTypeOK'
    <3>1. terminateConnection
      BY <1>9 DEF Delete
    <3>2. /\ mIsExecutingCommand' \in BOOLEAN /\ mLastCommandSource' \in Nat
          /\ mQueuedCommands' \in Seq(TimepixCommandInfo)
      BY <1>9 DEF Delete, TpxTypeOK, pipelineVars
    <3> QED
      BY <3>1, <3>2, TerminateTypes
  <2> QED
    BY <1>0, <1>9, <2>1 DEF Delete
<1> QED
  BY <1>1, <1>2, <1>3, <1>4, <1>5, <1>6, <1>7, <1>8, <1>9

\* The steps of the clients, the user, the board, the network and the
\* secondary threads keep the types.
LEMMA OthersTypes ==
  ASSUME TypeOK, Environment \/ \E t \in DOMAIN threads : ThreadStep(t)
  PROVE  TypeOK'
<1> USE UnchangedTypes, PyStepTypes, TpxStepTypes, CommsStepTypes,
        ThreadStepTypes
<1> USE DEF TypeOK
<1>1. ASSUME NEW c \in Clients, ClientSend(c)  PROVE TypeOK'
  BY <1>1 DEF ClientSend
<1>2. CASE Stop
  BY <1>2 DEF Stop, CommsTypeOK
<1>3. CASE LinkEstablished
  BY <1>3 DEF LinkEstablished
<1>4. CASE LinkRefused
  BY <1>4 DEF LinkRefused
<1>5. CASE LinkBreaks
  BY <1>5 DEF LinkBreaks
<1>6. CASE SpidrReplies
  BY <1>6 DEF SpidrReplies
<1>7. CASE Crash
  <2>1. "crashed" \in Locations
    BY DEF Locations
  <2> QED
    BY <1>7, <2>1 DEF Crash
<1>8. ASSUME NEW t, StartThread(t)  PROVE TypeOK'
  BY <1>8 DEF StartThread
<1>9. ASSUME NEW t, PollCommands(t)  PROVE TypeOK'
  <2>1. CommsTypeOK'
    BY <1>9 DEF PollCommands, CommsTypeOK
  <2> QED
    BY <1>9, <2>1 DEF PollCommands
<1>10. ASSUME NEW t, PollEmptyCommand(t)  PROVE TypeOK'
  BY <1>10 DEF PollEmptyCommand
<1>13. ASSUME NEW t, PollPastCommand(t)  PROVE TypeOK'
  BY <1>13 DEF PollPastCommand
<1>11. ASSUME NEW t, ThreadFails(t) \/ ContextTerminates(t)  PROVE TypeOK'
  BY <1>11 DEF ThreadFails, ContextTerminates
<1>12. ASSUME NEW t, ExitThread(t)  PROVE TypeOK'
  BY <1>12 DEF ExitThread
<1> QED
  BY <1>1, <1>2, <1>3, <1>4, <1>5, <1>6, <1>7, <1>8, <1>9, <1>10, <1>11,
     <1>12, <1>13 DEF Environment, ThreadStep

\* Every step keeps the types.
LEMMA StepTypes ==
  ASSUME TypeOK, SafetyInv, [Next]_vars
  PROVE  TypeOK'
<1>1. CASE Execute
  BY <1>1, TpxPollTypes, ClientPollTypes, LoopTypes DEF Execute
<1>2. CASE Environment \/ \E t \in DOMAIN threads : ThreadStep(t)
  BY <1>2, OthersTypes
<1>3. CASE UNCHANGED vars
  BY <1>3, UnchangedTypes DEF TypeOK, vars
<1> QED
  BY <1>1, <1>2, <1>3 DEF Next

(***************************************************************************)
(* The safety invariant, first what the parts of a step do to it.          *)
(***************************************************************************)

\* One-element sequences.
LEMMA SingleFacts ==
  /\ \A x : /\ << x >> # << >> /\ Head(<< x >>) = x /\ Tail(<< x >>) = << >>
            /\ Len(<< x >>) = 1 /\ Append(<< >>, x) = << x >>
  /\ \A S : \A s \in Seq(S) : Len(s) = 1 => Tail(s) = << >> /\ s # << >>
<1>1. \A x : /\ << x >> # << >> /\ Head(<< x >>) = x /\ Tail(<< x >>) = << >>
             /\ Len(<< x >>) = 1 /\ Append(<< >>, x) = << x >>
  OBVIOUS
<1>2. ASSUME NEW S, NEW s \in Seq(S), Len(s) = 1
      PROVE  Tail(s) = << >> /\ s # << >>
  <2>1. s # << >>
    BY <1>2
  <2>2. Tail(s) \in Seq(S) /\ Len(Tail(s)) = 0
    BY <1>2, <2>1
  <2> QED
    BY <2>1, <2>2, EmptySeq
<1> QED
  BY <1>1, <1>2

\* Three parts of the invariant are about the state of the two managers only.
LEMMA UnchangedInv ==
  ASSUME SafetyInv, UNCHANGED pyVars, UNCHANGED tpxVars
  PROVE  ClientInv' /\ InFlightInv' /\ WireInv'
<1>1. ClientInv'
  BY DEF SafetyInv, ClientInv, pyVars, clientVars, Waiting
<1>2. InFlightInv'
  BY DEF SafetyInv, InFlightInv, Awaited, pyVars, clientVars, tpxVars
<1>3. WireInv'
  BY DEF SafetyInv, WireInv, Awaited, pyVars, clientVars, tpxVars
<1> QED
  BY <1>1, <1>2, <1>3

\* The client manager's part of a step keeps its own part of the invariant.
LEMMA PyStepInv ==
  ASSUME TypeOK, ClientInv
  PROVE  /\ UNCHANGED pyVars => ClientInv'
         /\ \A c \in Clients : clientSend(c) => ClientInv'
         /\ open => ClientInv'
         /\ close => ClientInv'
         /\ \A c \in Clients : recv(c) => ClientInv'
         /\ \A reply : send(reply) => ClientInv'
         /\ \A code : rememberCommand(code) => ClientInv'
<1> USE DEF TypeOK, PyTypeOK, ClientInv, Waiting
<1>1. UNCHANGED pyVars => ClientInv'
  BY DEF pyVars, clientVars
<1>2. ASSUME NEW c \in Clients, clientSend(c)  PROVE ClientInv'
  <2>1. PICK r : /\ r.id = nextId
                 /\ request' = [request EXCEPT ![c] = r]
    BY <1>2 DEF clientSend
  <2>2. /\ answer' = [answer EXCEPT ![c] = {}]
        /\ nextId' = nextId + 1
        /\ inbox' = inbox \cup {c}
        /\ owed' = owed
        /\ ~ (request[c].id # 0 /\ answer[c] = {})
    BY <1>2 DEF clientSend
  <2>3. \A d \in Clients : request[d].id \in Nat
    BY DEF Request
  <2>4. \A d \in Clients : request'[d] = IF d = c THEN r ELSE request[d]
    BY <2>1
  <2>5. \A d \in Clients : answer'[d] = IF d = c THEN {} ELSE answer[d]
    BY <2>2
  <2>6. \A d \in Clients : request'[d].id < nextId'
    BY <2>1, <2>2, <2>3, <2>4
  <2>7. \A d \in inbox' : request'[d].id # 0 /\ answer'[d] = {}
    BY <2>1, <2>2, <2>4, <2>5
  <2>8. owed' # NoClient =>
          request'[owed'].id # 0 /\ answer'[owed'] = {} /\ owed' \notin inbox'
    BY <2>2, <2>4, <2>5
  <2> QED
    BY <2>6, <2>7, <2>8
<1>3. open => ClientInv'
  BY DEF open, clientVars
<1>4. close => ClientInv'
  BY DEF close, clientVars
<1>5. ASSUME NEW c \in Clients, recv(c)  PROVE ClientInv'
  BY <1>5, ClientsAssumption DEF recv, clientVars
<1>6. ASSUME NEW reply, send(reply)  PROVE ClientInv'
  BY <1>6 DEF send, SendRefused
<1>7. ASSUME NEW code, rememberCommand(code)  PROVE ClientInv'
  BY <1>7 DEF rememberCommand, clientVars
<1> QED
  BY <1>1, <1>2, <1>3, <1>4, <1>5, <1>6, <1>7

\* Cancelling threads changes nothing of them but their cancel flags.
LEMMA CancelledFacts ==
  ASSUME ThreadTypeOK, NEW ts
  PROVE  /\ DOMAIN cancelled(ts) = DOMAIN threads
         /\ Len(cancelled(ts)) = Len(threads)
         /\ cancelled(ts) \in Seq(Thread)
         /\ \A t \in DOMAIN threads :
              /\ cancelled(ts)[t].req = threads[t].req
              /\ cancelled(ts)[t].rsp = threads[t].rsp
<1>1. threads \in Seq(Thread)
  BY DEF ThreadTypeOK
<1>2. DOMAIN cancelled(ts) = DOMAIN threads
  BY DEF cancelled
<1>3. cancelled(ts) \in Seq(Thread)
  BY ThreadStepTypes
<1>4. Len(cancelled(ts)) = Len(threads)
  BY <1>1, <1>2, <1>3
<1>5. \A t \in DOMAIN threads : threads[t] \in Thread
  BY <1>1
<1>6. \A t \in DOMAIN threads :
        /\ cancelled(ts)[t].req = threads[t].req
        /\ cancelled(ts)[t].rsp = threads[t].rsp
  BY <1>5 DEF cancelled, Thread
<1> QED
  BY <1>2, <1>3, <1>4, <1>6

\* The threads are idle after creating or cancelling some, and after a step
\* that leaves them alone, when execute() waits for none before and after.
LEMMA IdleInv ==
  ASSUME TypeOK, SafetyInv,
         pc \notin { "forward", "crashed" }, pc' # "forward",
         \/ UNCHANGED threadVars
         \/ startClusterAndHistogramThreads
         \/ bindUdpPort
         \/ cancelThreads
         \/ UNCHANGED mCommandSocket /\ \E ts : threads' = cancelled(ts)
  PROVE  ForwardInv'
<1> DEFINE Sockets == \A k \in ThreadKinds :
                        mCommandSocket[k] \in {Null, Closed} \cup DOMAIN threads
           Idle == \A t \in DOMAIN threads : IdleThread(t)
<1>1. Sockets /\ Idle /\ ThreadTypeOK
  BY DEF SafetyInv, ForwardInv, TypeOK
<1>2. SUFFICES Sockets' /\ Idle'
  BY DEF ForwardInv
<1>3. threads \in Seq(Thread) /\ DOMAIN threads = 1 .. Len(threads)
  BY <1>1 DEF ThreadTypeOK
<1>4. /\ "cluster" \in ThreadKinds /\ "histogram" \in ThreadKinds
      /\ "udp" \in ThreadKinds
      /\ mCommandSocket \in [ThreadKinds -> Int]
  BY <1>1 DEF ThreadKinds, ThreadTypeOK
<1>5. CASE UNCHANGED threadVars
  BY <1>1, <1>5 DEF IdleThread, threadVars
<1>6. CASE startClusterAndHistogramThreads
  <2>1. /\ DOMAIN threads' = 1 .. (Len(threads) + 2)
        /\ \A t \in DOMAIN threads : threads'[t] = threads[t]
        /\ threads'[Len(threads) + 1] = NewThread("cluster")
        /\ threads'[Len(threads) + 2] = NewThread("histogram")
    BY <1>3, <1>6 DEF startClusterAndHistogramThreads
  <2>2. \A k : NewThread(k).req = << >> /\ NewThread(k).rsp = << >>
    BY DEF NewThread
  <2>3. Idle'
    BY <1>1, <1>3, <2>1, <2>2 DEF IdleThread
  <2>4. Sockets'
    BY <1>1, <1>3, <1>4, <1>6, <2>1 DEF startClusterAndHistogramThreads
  <2> QED
    BY <2>3, <2>4
<1>7. CASE bindUdpPort
  <2> DEFINE old == cancelled({mThread["udp"]})
  <2>1. /\ old \in Seq(Thread) /\ Len(old) = Len(threads)
        /\ DOMAIN old = 1 .. Len(threads)
        /\ \A t \in DOMAIN threads :
             old[t].req = threads[t].req /\ old[t].rsp = threads[t].rsp
    BY <1>1, <1>3, CancelledFacts
  <2> HIDE DEF old
  <2>2. threads' = Append(old, NewThread("udp"))
    BY <1>7 DEF bindUdpPort, old
  <2>3. /\ DOMAIN threads' = 1 .. (Len(threads) + 1)
        /\ \A t \in DOMAIN threads : threads'[t] = old[t]
        /\ threads'[Len(threads) + 1] = NewThread("udp")
    BY <1>3, <2>1, <2>2
  <2>4. NewThread("udp").req = << >> /\ NewThread("udp").rsp = << >>
    BY DEF NewThread
  <2>5. Idle'
    BY <1>1, <1>3, <2>1, <2>3, <2>4 DEF IdleThread
  <2>6. Sockets'
    BY <1>1, <1>3, <1>4, <1>7, <2>3 DEF bindUdpPort
  <2> QED
    BY <2>5, <2>6
<1>8. CASE cancelThreads
  <2>1. Idle' /\ DOMAIN threads' = DOMAIN threads
    BY <1>1, <1>8, CancelledFacts DEF cancelThreads, IdleThread
  <2>2. Sockets'
    BY <1>1, <1>8, <2>1 DEF cancelThreads
  <2> QED
    BY <2>1, <2>2
<1>9. CASE UNCHANGED mCommandSocket /\ \E ts : threads' = cancelled(ts)
  BY <1>1, <1>9, CancelledFacts DEF IdleThread
<1> QED
  BY <1>5, <1>6, <1>7, <1>8, <1>9

\* A step that changes neither the threads nor the request being served nor
\* the place keeps what is known of the response that is awaited.
LEMMA SameForwardInv ==
  ASSUME SafetyInv, UNCHANGED << threadVars, pc, forwarding, owed >>,
         pc = "forward" => request'[owed] = request[owed]
  PROVE  ForwardInv'
BY DEF SafetyInv, ForwardInv, IdleThread, threadVars, Promise!OwnReply


\* So does a read past a message, which ends the process.
LEMMA ReadPastInv ==
  ASSUME SafetyInv, Alive, readPastMessage,
         UNCHANGED << pyVars, tpxVars, threadVars >>
  PROVE  SafetyInv'
<1>1. ClientInv' /\ InFlightInv' /\ WireInv'
  BY UnchangedInv
<1>2. UNCHANGED << pyVars, tpxVars, threadVars, mShouldResetClient >>
      /\ pc' = "crashed" /\ pc \notin { "done", "deleted" }
  BY DEF readPastMessage, Alive
<1>3. QueuedInv' /\ PlaceInv'
  BY <1>2 DEF SafetyInv, QueuedInv, PlaceInv, Awaited, pyVars, clientVars,
     tpxVars
<1>4. ForwardInv'
  BY <1>2 DEF SafetyInv, ForwardInv, threadVars
<1> QED
  BY <1>1, <1>3, <1>4 DEF SafetyInv

\* The steps of execute() outside the two polls keep the invariant.
LEMMA LoopInv ==
  ASSUME TypeOK, SafetyInv,
         \/ Start \/ StartWithoutEndpoint \/ StartWithoutSocket
         \/ LeaveLoop \/ EnterLoopBody \/ ResetClient \/ ResetClientFails
         \/ Cleanup \/ Delete
  PROVE  SafetyInv'
<1> USE SingleFacts
<1> USE DEF SafetyInv, InFlightInv, QueuedInv, WireInv, PlaceInv, Awaited
<1>1. CASE Start
  <2>1. ClientInv'
    BY <1>1, PyStepInv DEF Start, goto
  <2>2. InFlightInv' /\ WireInv'
    BY <1>1 DEF Start, startConnecting, open, goto, pipelineVars, clientVars
  <2>3. QueuedInv' /\ PlaceInv'
    BY <1>1 DEF Start, startConnecting, open, goto, pipelineVars,
       clientVars, TypeOK, PyTypeOK
  <2>4. ForwardInv'
    BY <1>1, IdleInv DEF Start, goto
  <2> QED
    BY <2>1, <2>2, <2>3, <2>4
<1>2. CASE StartWithoutEndpoint
  <2>1. ClientInv'
    BY <1>2, PyStepInv DEF StartWithoutEndpoint, cancelAndGoto
  <2>2. InFlightInv' /\ WireInv'
    BY <1>2 DEF StartWithoutEndpoint, open, cancelAndGoto, tpxVars,
       clientVars
  <2>3. QueuedInv' /\ PlaceInv'
    BY <1>2 DEF StartWithoutEndpoint, open, cancelAndGoto, tpxVars,
       clientVars, TypeOK, PyTypeOK
  <2>4. ForwardInv'
    BY <1>2, IdleInv DEF StartWithoutEndpoint, cancelAndGoto
  <2> QED
    BY <2>1, <2>2, <2>3, <2>4
<1>3. CASE StartWithoutSocket
  <2>1. ClientInv'
    BY <1>3, PyStepInv DEF StartWithoutSocket, goto
  <2>2. InFlightInv' /\ WireInv'
    BY <1>3 DEF StartWithoutSocket, open, startConnecting, goto, pyVars,
       clientVars, pipelineVars
  <2>3. QueuedInv' /\ PlaceInv'
    BY <1>3 DEF StartWithoutSocket, open, startConnecting, goto, pyVars,
       clientVars, pipelineVars
  <2>4. ForwardInv'
    BY <1>3, IdleInv DEF StartWithoutSocket, goto
  <2> QED
    BY <2>1, <2>2, <2>3, <2>4
<1>4. CASE LeaveLoop
  <2>1. ClientInv' /\ InFlightInv' /\ WireInv'
    BY <1>4, UnchangedInv DEF LeaveLoop
  <2>2. QueuedInv' /\ PlaceInv'
    BY <1>4 DEF LeaveLoop, goto, pyVars, tpxVars, clientVars
  <2>3. ForwardInv'
    BY <1>4, IdleInv DEF LeaveLoop, goto
  <2> QED
    BY <2>1, <2>2, <2>3
<1>5. CASE EnterLoopBody
  <2>1. ClientInv' /\ InFlightInv' /\ WireInv'
    BY <1>5, UnchangedInv DEF EnterLoopBody
  <2>2. QueuedInv' /\ PlaceInv'
    BY <1>5 DEF EnterLoopBody, goto, pyVars, tpxVars, clientVars
  <2>3. ForwardInv'
    BY <1>5, IdleInv DEF EnterLoopBody, goto
  <2> QED
    BY <2>1, <2>2, <2>3
<1>6. CASE ResetClient
  <2>1. ClientInv'
    BY <1>6, PyStepInv DEF ResetClient
  <2>2. InFlightInv' /\ WireInv'
    BY <1>6 DEF ResetClient, open, tpxVars, clientVars
  <2>3. QueuedInv' /\ PlaceInv'
    BY <1>6 DEF ResetClient, open, tpxVars, clientVars, TypeOK, PyTypeOK
  <2>4. ForwardInv'
    BY <1>6, IdleInv DEF ResetClient
  <2> QED
    BY <2>1, <2>2, <2>3, <2>4
<1>7. CASE ResetClientFails
  <2>1. ClientInv' /\ InFlightInv' /\ WireInv'
    BY <1>7, UnchangedInv DEF ResetClientFails
  <2>2. QueuedInv' /\ PlaceInv'
    BY <1>7 DEF ResetClientFails, open, goto, pyVars, tpxVars, clientVars
  <2>3. ForwardInv'
    BY <1>7, IdleInv DEF ResetClientFails, goto
  <2> QED
    BY <2>1, <2>2, <2>3
<1>8. CASE Cleanup
  <2>1. ClientInv'
    BY <1>8, PyStepInv DEF Cleanup, goto, sendError
  <2>2. InFlightInv' /\ WireInv'
    BY <1>8 DEF Cleanup, SendRefused, goto, pyVars, tpxVars, sendError,
       terminateConnection, clientVars, send
  <2>3. QueuedInv' /\ PlaceInv'
    BY <1>8 DEF Cleanup, SendRefused, goto, pyVars, tpxVars, sendError,
       terminateConnection, clientVars, send
  <2>4. ForwardInv'
    BY <1>8, IdleInv DEF Cleanup, goto
  <2> QED
    BY <2>1, <2>2, <2>3, <2>4
<1>9. CASE Delete
  <2>1. ClientInv'
    BY <1>9, PyStepInv DEF Delete, goto
  <2>2. InFlightInv' /\ WireInv'
    BY <1>9 DEF Delete, close, terminateConnection, goto, pipelineVars,
       clientVars
  <2>3. QueuedInv' /\ PlaceInv'
    BY <1>9 DEF Delete, close, terminateConnection, goto, pipelineVars,
       clientVars
  <2>4. ForwardInv'
    BY <1>9, IdleInv DEF Delete, goto
  <2> QED
    BY <2>1, <2>2, <2>3, <2>4
<1> QED
  BY <1>1, <1>2, <1>3, <1>4, <1>5, <1>6, <1>7, <1>8, <1>9

\* The steps of the poll of the board keep the invariant.
LEMMA TpxPollInv ==
  ASSUME TypeOK, SafetyInv, TpxPoll
  PROVE  SafetyInv'
<1> USE SingleFacts
<1> USE DEF SafetyInv, InFlightInv, QueuedInv, WireInv, PlaceInv, Awaited
<1>1. CASE NothingToSend
  <2>1. ClientInv' /\ InFlightInv' /\ WireInv'
    BY <1>1, UnchangedInv DEF NothingToSend
  <2>2. QueuedInv' /\ PlaceInv'
    BY <1>1 DEF NothingToSend, CanSend, goto, pyVars, tpxVars, clientVars
  <2>3. ForwardInv'
    BY <1>1, IdleInv DEF NothingToSend, goto
  <2> QED
    BY <2>1, <2>2, <2>3
<1>2. CASE SendCommand
  <2>1. ClientInv'
    BY <1>2, PyStepInv DEF SendCommand, goto
  <2>2. InFlightInv' /\ WireInv'
    <3>1. /\ mQueuedCommands = << Awaited >> /\ owed # NoClient
          /\ mLastCommand = request[owed].code /\ mIsConnected
          /\ mLastCommandSource = 0 /\ mClientManager # 0
      BY <1>2 DEF SendCommand, CanSend
    <3>2. tx = << >> /\ rx = << >>
      BY <3>1
    <3>3. /\ mIsExecutingCommand' /\ mLastCommandSource' = mClientManager
          /\ op' = "send" /\ tx' \in { << >>, << Awaited >> }
          /\ UNCHANGED << mIsConnected, mQueuedCommands, link, rx, pyVars >>
      BY <1>2, <3>1, <3>2 DEF SendCommand, sendCommand
    <3>4. UNCHANGED << Awaited, request, owed, mClientManager, mLastCommand >>
      BY <3>3 DEF pyVars, clientVars
    <3> HIDE DEF Awaited
    <3>5. InFlightInv'
      BY <3>1, <3>3, <3>4
    <3>6. WireInv'
      BY <3>1, <3>2, <3>3, <3>4
    <3> QED
      BY <3>5, <3>6
  <2>3. QueuedInv' /\ PlaceInv'
    BY <1>2 DEF SendCommand, CanSend, sendCommand, goto, pyVars, send, open,
       clientVars, SendRefused
  <2>4. ForwardInv'
    BY <1>2, IdleInv DEF SendCommand, goto
  <2> QED
    BY <2>1, <2>2, <2>3, <2>4
<1>3. CASE SendReset
  <2>1. ClientInv'
    BY <1>3, PyStepInv DEF SendReset, cancelAndGoto, sendResponse
  <2>2. InFlightInv' /\ WireInv'
    BY <1>3 DEF SendReset, CanSend, terminateConnection, SendRefused,
       cancelAndGoto, pyVars, sendResponse, clientVars, send
  <2>3. QueuedInv' /\ PlaceInv'
    BY <1>3 DEF SendReset, CanSend, terminateConnection, SendRefused,
       cancelAndGoto, pyVars, sendResponse, clientVars, send
  <2>4. ForwardInv'
    BY <1>3, IdleInv DEF SendReset, cancelAndGoto
  <2> QED
    BY <2>1, <2>2, <2>3, <2>4
<1>4. CASE Reconnect
  <2>1. ClientInv'
    BY <1>4, PyStepInv DEF Reconnect, goto
  <2>2. InFlightInv' /\ WireInv'
    BY <1>4 DEF Reconnect, AvailableAtConnect, initializeConnection, open,
       goto, pyVars, Stale, Drain, clientVars
  <2>3. QueuedInv' /\ PlaceInv'
    BY <1>4 DEF Reconnect, AvailableAtConnect, initializeConnection, open,
       goto, pyVars, Stale, Drain, clientVars
  <2>4. ForwardInv'
    BY <1>4, IdleInv DEF Reconnect, goto
  <2> QED
    BY <2>1, <2>2, <2>3, <2>4
<1>5. CASE ReconnectFails
  <2>1. ClientInv' /\ InFlightInv' /\ WireInv'
    BY <1>5, UnchangedInv DEF ReconnectFails
  <2>2. QueuedInv' /\ PlaceInv'
    BY <1>5 DEF ReconnectFails, cancelAndGoto, pyVars, tpxVars, clientVars
  <2>3. ForwardInv'
    BY <1>5, IdleInv DEF ReconnectFails, cancelAndGoto
  <2> QED
    BY <2>1, <2>2, <2>3
<1>6. CASE ReconnectBreaks
  <2>1. ClientInv'
    BY <1>6, PyStepInv DEF ReconnectBreaks, cancelAndGoto
  <2>2. InFlightInv' /\ WireInv'
    BY <1>6 DEF ReconnectBreaks, initializeConnection, cancelAndGoto,
       pyVars, Drain, clientVars
  <2>3. QueuedInv' /\ PlaceInv'
    BY <1>6 DEF ReconnectBreaks, initializeConnection, cancelAndGoto,
       pyVars, Drain, clientVars
  <2>4. ForwardInv'
    BY <1>6, IdleInv DEF ReconnectBreaks, cancelAndGoto
  <2> QED
    BY <2>1, <2>2, <2>3, <2>4
<1>7. CASE HandlersDone
  <2>1. ClientInv' /\ InFlightInv' /\ WireInv'
    BY <1>7, UnchangedInv DEF HandlersDone
  <2>2. QueuedInv' /\ PlaceInv'
    BY <1>7 DEF HandlersDone, HandlerReady, goto, pyVars, tpxVars,
       ConnectReady, SendReady, ReadReady, clientVars, open, send,
       SendRefused
  <2>3. ForwardInv'
    BY <1>7, IdleInv DEF HandlersDone, goto
  <2> QED
    BY <2>1, <2>2, <2>3
<1>8. CASE Connected
  <2>1. ClientInv'
    BY <1>8, PyStepInv DEF Connected
  <2>2. InFlightInv' /\ WireInv'
    BY <1>8 DEF Connected, ConnectReady, initializeConnection, pyVars,
       commsVars, open, Drain, clientVars
  <2>3. QueuedInv' /\ PlaceInv'
    BY <1>8 DEF Connected, ConnectReady, initializeConnection, pyVars,
       commsVars, open, Drain, clientVars
  <2>4. ForwardInv'
    BY <1>8, IdleInv DEF Connected, commsVars
  <2> QED
    BY <2>1, <2>2, <2>3, <2>4
<1>9. CASE CommandSent
  <2>1. ClientInv'
    BY <1>9, PyStepInv DEF CommandSent
  <2>2. InFlightInv' /\ WireInv'
    BY <1>9 DEF CommandSent, SendReady, commandSent, pyVars, commsVars,
       send, pipelineVars, clientVars, SendRefused
  <2>3. QueuedInv' /\ PlaceInv'
    BY <1>9 DEF CommandSent, SendReady, commandSent, pyVars, commsVars,
       send, pipelineVars, clientVars, SendRefused
  <2>4. ForwardInv'
    BY <1>9, IdleInv DEF CommandSent, commsVars
  <2> QED
    BY <2>1, <2>2, <2>3, <2>4
<1>10. CASE ConnectFails
  <2>1. ClientInv'
    BY <1>10, PyStepInv DEF ConnectFails, networkError, cancelAndGoto,
       sendError
  <2>2. InFlightInv' /\ WireInv'
    BY <1>10 DEF ConnectFails, ConnectReady, open, networkError, clientVars,
       terminateConnection, cancelAndGoto, SendRefused, sendError, pyVars,
       send
  <2>3. QueuedInv' /\ PlaceInv'
    BY <1>10 DEF ConnectFails, ConnectReady, open, networkError, clientVars,
       terminateConnection, cancelAndGoto, SendRefused, sendError, pyVars,
       send
  <2>4. ForwardInv'
    BY <1>10, IdleInv DEF ConnectFails, networkError, cancelAndGoto
  <2> QED
    BY <2>1, <2>2, <2>3, <2>4
<1>11. CASE ReadFails
  <2>1. ClientInv'
    BY <1>11, PyStepInv DEF ReadFails, networkError, cancelAndGoto,
       sendError
  <2>2. InFlightInv' /\ WireInv'
    BY <1>11 DEF ReadFails, ReadReady, networkError, terminateConnection,
       cancelAndGoto, SendRefused, sendError, pyVars, send, clientVars
  <2>3. QueuedInv' /\ PlaceInv'
    BY <1>11 DEF ReadFails, ReadReady, networkError, terminateConnection,
       cancelAndGoto, SendRefused, sendError, pyVars, send, clientVars
  <2>4. ForwardInv'
    BY <1>11, IdleInv DEF ReadFails, networkError, cancelAndGoto
  <2> QED
    BY <2>1, <2>2, <2>3, <2>4
<1>12. CASE DiscardRecv
  <2>1. ClientInv'
    BY <1>12, PyStepInv DEF DiscardRecv
  <2>2. InFlightInv' /\ WireInv'
    BY <1>12 DEF DiscardRecv, ReadReady, discardRecv, pyVars, commsVars,
       pipelineVars, clientVars
  <2>3. QueuedInv' /\ PlaceInv'
    BY <1>12 DEF DiscardRecv, ReadReady, discardRecv, pyVars, commsVars,
       pipelineVars, clientVars
  <2>4. ForwardInv'
    BY <1>12, IdleInv DEF DiscardRecv, commsVars
  <2> QED
    BY <2>1, <2>2, <2>3, <2>4
<1>13. CASE CommandRecv
  <2>1. ClientInv'
    BY <1>13, PyStepInv DEF CommandRecv, replyToClient,
       sendResponse, sendError
  <2>2. InFlightInv' /\ WireInv'
    <3>1. /\ mLastCommandSource # 0 /\ mIsConnected
          /\ rx # << >> /\ Len(rx) = 1 /\ rx \in Seq(Message)
      BY <1>13 DEF CommandRecv, ReadReady, TypeOK, TpxTypeOK
    <3>2. Tail(rx) = << >> /\ tx = << >>
      BY <3>1
    <3> QED
      BY <1>13, <3>1, <3>2 DEF CommandRecv, discardRecv, processRecv,
         pipelineVars, replyToClient, recvThrows, sendResponse, sendError,
         send, pyVars, clientVars
  <2>3. QueuedInv' /\ PlaceInv'
    BY <1>13 DEF CommandRecv, ReadReady, recvThrows, discardRecv, pyVars,
       processRecv, replyToClient, commsVars, SendRefused,
       pipelineVars, clientVars, sendResponse, sendError, send
  <2>4. ForwardInv'
    BY <1>13, IdleInv DEF CommandRecv
  <2> QED
    BY <2>1, <2>2, <2>3, <2>4
<1>14. CASE ShortRecvThrows
  <2>1. ClientInv'
    BY <1>14, PyStepInv DEF ShortRecvThrows
  <2>2. InFlightInv' /\ WireInv'
    BY <1>14 DEF ShortRecvThrows, ShortReply, ReadReady, discardRecv, pyVars,
       pipelineVars, clientVars
  <2>3. QueuedInv' /\ PlaceInv'
    BY <1>14 DEF ShortRecvThrows, ShortReply, ReadReady, discardRecv, pyVars,
       cancelAndGoto, pipelineVars, clientVars
  <2>4. ForwardInv'
    BY <1>14, IdleInv DEF ShortRecvThrows, ShortReply, cancelAndGoto
  <2> QED
    BY <2>1, <2>2, <2>3, <2>4
<1>15. CASE ShortRecvReadsOn
  BY <1>15, ReadPastInv DEF ShortRecvReadsOn, ShortReply, Alive, SafetyInv
<1> QED
  BY <1>1, <1>2, <1>3, <1>4, <1>5, <1>6, <1>7, <1>8, <1>9, <1>10, <1>11,
     <1>12, <1>13, <1>14, <1>15 DEF TpxPoll

\* The steps of the poll of the client socket keep the invariant.
LEMMA ClientPollInv ==
  ASSUME TypeOK, SafetyInv, ClientPoll
  PROVE  SafetyInv'
<1> USE SingleFacts
<1> USE DEF SafetyInv, InFlightInv, QueuedInv, WireInv, PlaceInv, Awaited
<1>1. CASE SkipClient
  <2>1. ClientInv' /\ InFlightInv' /\ WireInv'
    BY <1>1, UnchangedInv DEF SkipClient
  <2>2. QueuedInv' /\ PlaceInv'
    BY <1>1 DEF SkipClient, goto, pyVars, tpxVars, clientVars
  <2>3. ForwardInv'
    BY <1>1, IdleInv DEF SkipClient, goto
  <2> QED
    BY <2>1, <2>2, <2>3
<1>2. CASE NoRequest
  <2>1. ClientInv' /\ InFlightInv' /\ WireInv'
    BY <1>2, UnchangedInv DEF NoRequest
  <2>2. QueuedInv' /\ PlaceInv'
    BY <1>2 DEF NoRequest, MayPollClient, RecvRefused, goto, pyVars,
       tpxVars, clientVars
  <2>3. ForwardInv'
    BY <1>2, IdleInv DEF NoRequest, goto
  <2> QED
    BY <2>1, <2>2, <2>3
<1>3. CASE ReceiveRequest
  <2>1. ClientInv'
    BY <1>3, PyStepInv DEF ReceiveRequest, goto
  <2>2. InFlightInv' /\ WireInv'
    BY <1>3 DEF ReceiveRequest, MayPollClient, recv, goto, tpxVars,
       RecvRefused, clientVars
  <2>3. QueuedInv' /\ PlaceInv'
    BY <1>3, ClientsAssumption DEF ReceiveRequest, MayPollClient, recv,
       goto, tpxVars, RecvRefused, clientVars
  <2>4. ForwardInv'
    BY <1>3, IdleInv DEF ReceiveRequest, goto
  <2> QED
    BY <2>1, <2>2, <2>3, <2>4
<1>4. CASE ReceiveFails
  <2>1. ClientInv'
    BY <1>4, PyStepInv DEF ReceiveFails
  <2>2. InFlightInv' /\ WireInv'
    BY <1>4 DEF ReceiveFails, MayPollClient, RecvRefused, close, tpxVars,
       clientVars
  <2>3. QueuedInv' /\ PlaceInv'
    BY <1>4 DEF ReceiveFails, MayPollClient, RecvRefused, close, tpxVars,
       clientVars
  <2>4. ForwardInv'
    BY <1>4, IdleInv DEF ReceiveFails
  <2> QED
    BY <2>1, <2>2, <2>3, <2>4
<1>5. CASE CancelAgain
  <2>1. ClientInv' /\ InFlightInv' /\ WireInv'
    BY <1>5, UnchangedInv DEF CancelAgain
  <2>2. QueuedInv' /\ PlaceInv'
    BY <1>5 DEF CancelAgain, pyVars, tpxVars, clientVars
  <2>3. ForwardInv'
    BY <1>5, IdleInv DEF CancelAgain
  <2> QED
    BY <2>1, <2>2, <2>3
<1>6. CASE HandleNotConnected
  <2>1. ClientInv'
    BY <1>6, PyStepInv DEF HandleNotConnected, sendError, goto
  <2>2. InFlightInv' /\ WireInv'
    BY <1>6 DEF HandleNotConnected, sendError, goto, tpxVars, send,
       SendRefused
  <2>3. QueuedInv' /\ PlaceInv'
    BY <1>6 DEF HandleNotConnected, sendError, goto, tpxVars, send,
       SendRefused
  <2>4. ForwardInv'
    BY <1>6, IdleInv DEF HandleNotConnected, goto
  <2> QED
    BY <2>1, <2>2, <2>3, <2>4
<1>7. CASE HandleRagged
  <2>1. ClientInv'
    BY <1>7, PyStepInv DEF HandleRagged, sendError, goto
  <2>2. InFlightInv' /\ WireInv'
    BY <1>7 DEF HandleRagged, Handling, Req, sendError, goto, tpxVars, send,
       SendRefused
  <2>3. QueuedInv' /\ PlaceInv'
    BY <1>7 DEF HandleRagged, Handling, Req, sendError, goto, tpxVars, send,
       SendRefused
  <2>4. ForwardInv'
    BY <1>7, IdleInv DEF HandleRagged, Handling, goto
  <2> QED
    BY <2>1, <2>2, <2>3, <2>4
<1>8. CASE HandleEmpty
  <2>1. ClientInv' /\ InFlightInv' /\ WireInv'
    BY <1>8, UnchangedInv DEF HandleEmpty
  <2>2. QueuedInv' /\ PlaceInv'
    BY <1>8 DEF HandleEmpty, Handling, Req, cancelAndGoto, readPastMessage,
       pyVars, tpxVars, clientVars
  <2>3. ForwardInv'
    BY <1>8, IdleInv DEF HandleEmpty, Handling, cancelAndGoto, readPastMessage
  <2> QED
    BY <2>1, <2>2, <2>3
<1>9. CASE HandleWrongSize
  <2>1. ClientInv'
    BY <1>9, PyStepInv DEF HandleWrongSize, sendError, goto
  <2>2. InFlightInv' /\ WireInv'
    BY <1>9 DEF HandleWrongSize, Handling, Req, sendError, goto, tpxVars,
       send, SendRefused
  <2>3. QueuedInv' /\ PlaceInv'
    BY <1>9 DEF HandleWrongSize, Handling, Req, sendError, goto, tpxVars,
       send, SendRefused
  <2>4. ForwardInv'
    BY <1>9, IdleInv DEF HandleWrongSize, Handling, goto
  <2> QED
    BY <2>1, <2>2, <2>3, <2>4
<1>10. CASE HandleForTimepix
  <2>1. ClientInv'
    BY <1>10, PyStepInv DEF HandleForTimepix, goto
  <2>2. InFlightInv' /\ WireInv'
    BY <1>10 DEF HandleForTimepix, Handling, Req, rememberCommand,
       queueCommand, goto, clientVars
  <2>3. QueuedInv' /\ PlaceInv'
    BY <1>10 DEF HandleForTimepix, Handling, Req, rememberCommand,
       queueCommand, goto, clientVars
  <2>4. ForwardInv'
    BY <1>10, IdleInv DEF HandleForTimepix, Handling, goto
  <2> QED
    BY <2>1, <2>2, <2>3, <2>4
<1>11. CASE HandleBindUdpPort
  <2>1. ClientInv'
    BY <1>11, PyStepInv DEF HandleBindUdpPort, sendEmptyResponse
  <2>2. InFlightInv' /\ WireInv'
    BY <1>11 DEF HandleBindUdpPort, Handling, Req, sendEmptyResponse,
       tpxVars, send, SendRefused
  <2>3. QueuedInv' /\ PlaceInv'
    BY <1>11 DEF HandleBindUdpPort, Handling, Req, sendEmptyResponse,
       tpxVars, send, SendRefused
  <2>4. ForwardInv'
    BY <1>11, IdleInv DEF HandleBindUdpPort, Handling
  <2> QED
    BY <2>1, <2>2, <2>3, <2>4
<1>12. CASE HandleNoThread
  <2>1. ClientInv'
    BY <1>12, PyStepInv DEF HandleNoThread, sendError, goto
  <2>2. InFlightInv' /\ WireInv'
    BY <1>12 DEF HandleNoThread, ForwardedTo, sendError, goto, tpxVars,
       Handling, Req, send, SendRefused
  <2>3. QueuedInv' /\ PlaceInv'
    BY <1>12 DEF HandleNoThread, ForwardedTo, sendError, goto, tpxVars,
       Handling, Req, send, SendRefused
  <2>4. ForwardInv'
    BY <1>12, IdleInv DEF HandleNoThread, ForwardedTo, goto, Handling
  <2> QED
    BY <2>1, <2>2, <2>3, <2>4
<1>13. CASE HandleForThread
  <2>1. ClientInv' /\ InFlightInv' /\ WireInv'
    BY <1>13, UnchangedInv DEF HandleForThread
  <2>2. QueuedInv' /\ PlaceInv'
    BY <1>13 DEF HandleForThread, ForwardedTo, Req, pyVars, tpxVars,
       Handling, clientVars
  <2>3. ForwardInv'
    <3>1. PICK k \in ThreadKinds :
            /\ mCommandSocket[k] \notin { Null, Closed }
            /\ threads' = [threads EXCEPT
                            ![mCommandSocket[k]].req = << request[owed] >>]
            /\ UNCHANGED mCommandSocket
            /\ forwarding' = k
      BY <1>13 DEF HandleForThread, forwardRequest, Req
    <3>2. /\ pc = "handle" /\ pc' = "forward"
          /\ UNCHANGED << request, owed >>
      BY <1>13 DEF HandleForThread, ForwardedTo, Handling, pyVars, clientVars
    <3>3. /\ \A t \in DOMAIN threads : IdleThread(t)
          /\ \A i \in ThreadKinds :
               mCommandSocket[i] \in { Null, Closed } \cup DOMAIN threads
      BY <3>2 DEF ForwardInv
    <3>4. threads \in Seq(Thread)
      BY DEF TypeOK, ThreadTypeOK
    <3>5. /\ DOMAIN threads' = DOMAIN threads
          /\ \A t \in DOMAIN threads :
               /\ threads'[t].rsp = << >>
               /\ threads'[t].req = IF t = mCommandSocket[k]
                                      THEN << request[owed] >> ELSE << >>
      BY <3>1, <3>3, <3>4 DEF IdleThread, Thread
    <3> QED
      BY <3>1, <3>2, <3>3, <3>5 DEF ForwardInv, IdleThread
  <2> QED
    BY <2>1, <2>2, <2>3
<1>14. CASE ForwardResponse
  <2>1. ClientInv'
    BY <1>14, PyStepInv DEF ForwardResponse, goto
  <2>2. InFlightInv' /\ WireInv'
    BY <1>14 DEF ForwardResponse, send, goto, tpxVars, SendRefused
  <2>3. QueuedInv' /\ PlaceInv'
    BY <1>14 DEF ForwardResponse, send, goto, tpxVars, SendRefused
  <2>4. ForwardInv'
    <3> DEFINE s == mCommandSocket[forwarding]
    <3>1. /\ pc = "forward" /\ pc' = "loop"
          /\ threads' = [threads EXCEPT ![s].rsp = << >>]
          /\ UNCHANGED mCommandSocket
          /\ threads[s].rsp # << >>
      BY <1>14 DEF ForwardResponse, receiveResponse, goto
    <3>2. /\ s \in DOMAIN threads
          /\ \A t \in DOMAIN threads : t # s => IdleThread(t)
          /\ threads[s].req = << >>
          /\ \A i \in ThreadKinds :
               mCommandSocket[i] \in { Null, Closed } \cup DOMAIN threads
      BY <3>1 DEF ForwardInv
    <3>3. threads \in Seq(Thread)
      BY DEF TypeOK, ThreadTypeOK
    <3> HIDE DEF s
    <3>4. /\ DOMAIN threads' = DOMAIN threads
          /\ \A t \in DOMAIN threads : IdleThread(t)'
      BY <3>1, <3>2, <3>3 DEF IdleThread, Thread
    <3> QED
      BY <3>1, <3>2, <3>4 DEF ForwardInv
  <2> QED
    BY <2>1, <2>2, <2>3, <2>4
<1>15. CASE HandleUnknown
  <2>1. ClientInv'
    BY <1>15, PyStepInv DEF HandleUnknown, sendError, goto
  <2>2. InFlightInv' /\ WireInv'
    BY <1>15 DEF HandleUnknown, Handling, Req, sendError, goto, tpxVars,
       send, SendRefused
  <2>3. QueuedInv' /\ PlaceInv'
    BY <1>15 DEF HandleUnknown, Handling, Req, sendError, goto, tpxVars,
       send, SendRefused
  <2>4. ForwardInv'
    BY <1>15, IdleInv DEF HandleUnknown, Handling, goto
  <2> QED
    BY <2>1, <2>2, <2>3, <2>4
<1> QED
  BY <1>1, <1>2, <1>3, <1>4, <1>5, <1>6, <1>7, <1>8, <1>9, <1>10, <1>11,
     <1>12, <1>13, <1>14, <1>15 DEF ClientPoll, HandleCommand

\* The steps of the clients, the user, the board and the network keep the
\* invariant.
LEMMA EnvironmentInv ==
  ASSUME TypeOK, SafetyInv, Environment
  PROVE  SafetyInv'
<1> USE SingleFacts
<1> USE DEF SafetyInv, InFlightInv, QueuedInv, WireInv, PlaceInv, Awaited
<1>1. ASSUME NEW c \in Clients, ClientSend(c)  PROVE SafetyInv'
  <2>1. ClientInv'
    BY <1>1, PyStepInv DEF ClientSend
  <2>2. c # owed
    BY <1>1, ClientsAssumption DEF ClientSend, clientSend, ClientInv
  <2>3. owed # NoClient => request'[owed] = request[owed]
    BY <1>1, <2>2 DEF ClientSend, clientSend, TypeOK, PyTypeOK
  <2>4. UNCHANGED << owed, mClientManager, mLastCommand, tpxVars, threadVars,
                     commsVars >>
    BY <1>1 DEF ClientSend, clientSend
  <2>5. InFlightInv' /\ WireInv'
    BY <2>3, <2>4 DEF tpxVars
  <2>6. QueuedInv' /\ PlaceInv'
    BY <2>3, <2>4 DEF tpxVars, commsVars, threadVars
  <2>7. ForwardInv'
    BY <2>3, <2>4, SameForwardInv DEF commsVars
  <2> QED
    BY <2>1, <2>5, <2>6, <2>7
<1>2. CASE Stop
  <2>1. ClientInv' /\ InFlightInv' /\ WireInv'
    BY <1>2, UnchangedInv DEF Stop
  <2>2. QueuedInv' /\ PlaceInv'
    BY <1>2 DEF Stop, pyVars, clientVars, tpxVars, threadVars
  <2>3. ForwardInv'
    BY <1>2, SameForwardInv DEF Stop, pyVars, clientVars
  <2> QED
    BY <2>1, <2>2, <2>3
<1>3. ASSUME UNCHANGED << pyVars, threadVars, commsVars >>
      PROVE  ClientInv' /\ ForwardInv'
  <2>1. ClientInv'
    BY <1>3, PyStepInv
  <2>2. ForwardInv'
    BY <1>3, SameForwardInv DEF pyVars, clientVars, commsVars
  <2> QED
    BY <2>1, <2>2
<1> USE DEF pyVars, clientVars, commsVars, threadVars, pipelineVars
<1>4. CASE LinkEstablished
  <2>1. InFlightInv' /\ WireInv'
    BY <1>4 DEF LinkEstablished, linkEstablished
  <2>2. QueuedInv' /\ PlaceInv'
    BY <1>4 DEF LinkEstablished, linkEstablished
  <2> QED
    BY <1>3, <1>4, <2>1, <2>2 DEF LinkEstablished
<1>5. CASE LinkRefused
  <2>1. InFlightInv' /\ WireInv'
    BY <1>5 DEF LinkRefused, linkRefused
  <2>2. QueuedInv' /\ PlaceInv'
    BY <1>5 DEF LinkRefused, linkRefused
  <2> QED
    BY <1>3, <1>5, <2>1, <2>2 DEF LinkRefused
<1>6. CASE LinkBreaks
  <2>1. InFlightInv' /\ WireInv'
    BY <1>6 DEF LinkBreaks, linkBreaks
  <2>2. QueuedInv' /\ PlaceInv'
    BY <1>6 DEF LinkBreaks, linkBreaks
  <2> QED
    BY <1>3, <1>6, <2>1, <2>2 DEF LinkBreaks
<1>7. CASE SpidrReplies
  <2>1. /\ tx = << Awaited >> /\ rx = << >>
        /\ mLastCommandSource # 0 /\ mIsConnected
    BY <1>7 DEF SpidrReplies, spidrReplies
  <2>2. PICK kind \in ReplyKinds :
          rx' = << [kind |-> kind, data |-> { request[owed].id }] >>
    <3>1. Head(tx).data = request[owed].id
      BY <2>1
    <3>2. PICK kind \in ReplyKinds :
            rx' = Append(rx, [kind |-> kind, data |-> { Head(tx).data }])
      BY <1>7 DEF SpidrReplies, spidrReplies
    <3>3. rx' = << [kind |-> kind, data |-> { request[owed].id }] >>
      BY <2>1, <3>1, <3>2
    <3> QED
      BY <3>3
  <2>3. tx' = << >>
    BY <1>7, <2>1 DEF SpidrReplies, spidrReplies
  <2>4. rx' # << >> /\ Len(rx') = 1 /\ Head(rx').data = { request[owed].id }
    BY <2>2
  <2>5. InFlightInv' /\ WireInv'
    BY <1>7, <2>1, <2>3, <2>4 DEF SpidrReplies, spidrReplies
  <2>6. QueuedInv' /\ PlaceInv'
    BY <1>7 DEF SpidrReplies, spidrReplies
  <2> QED
    BY <1>3, <1>7, <2>5, <2>6 DEF SpidrReplies
<1>8. CASE Crash
  <2>1. ClientInv' /\ InFlightInv' /\ WireInv'
    BY <1>8, UnchangedInv DEF Crash
  <2>2. QueuedInv' /\ PlaceInv'
    BY <1>8 DEF Crash, goto, Alive, tpxVars
  <2>3. ForwardInv'
    BY <1>8 DEF Crash, goto, ForwardInv
  <2> QED
    BY <2>1, <2>2, <2>3
<1> QED
  BY <1>1, <1>2, <1>4, <1>5, <1>6, <1>7, <1>8 DEF Environment

\* A thread answers the request it was sent with an error of its handler, or
\* with that request's code and data.
LEMMA ResponsesAreOwn ==
  ASSUME NEW r, NEW rsp \in Responses(r)
  PROVE  Promise!OwnReply(r, rsp)
<1>1. HandlerErrors(r) \subseteq ErrorCodes
  BY DEF HandlerErrors, ErrorCodes
<1>2. CASE rsp \in HandlerSuccess(r)
  BY <1>2 DEF HandlerSuccess, Promise!OwnReply
<1>3. CASE \E e \in HandlerErrors(r) : rsp = [code |-> e, data |-> {}]
  BY <1>1, <1>3 DEF Promise!OwnReply
<1> QED
  BY <1>2, <1>3 DEF Responses

\* The steps of the secondary threads keep the invariant.
LEMMA ThreadStepInv ==
  ASSUME TypeOK, SafetyInv, NEW t \in DOMAIN threads, ThreadStep(t),
         ~ PollPastCommand(t)
  PROVE  SafetyInv'
<1> DEFINE th == threads'[t]
<1>1. UNCHANGED << pyVars, tpxVars, pc, mShouldCancel, mShouldResetClient,
                   forwarding, mCommandSocket >>
  BY DEF ThreadStep, StartThread, PollCommands, PollEmptyCommand,
     ThreadFails, ContextTerminates, ExitThread, startThread, pollCommands,
     pollEmptyCommand, failThread, exitThread, commsVars
<1>2. UNCHANGED << request, owed >>
  BY <1>1 DEF pyVars, clientVars
<1>3. threads \in Seq(Thread)
  BY DEF TypeOK, ThreadTypeOK
<1>4. threads # << >>
  BY <1>3
<1>5. ClientInv' /\ InFlightInv' /\ WireInv'
  BY <1>1, UnchangedInv
<1>6. QueuedInv' /\ PlaceInv'
  BY <1>1, <1>4 DEF SafetyInv, QueuedInv, PlaceInv, Awaited, pyVars,
     clientVars, tpxVars
<1>7. /\ DOMAIN threads' = DOMAIN threads
      /\ \A u \in DOMAIN threads : u # t => threads'[u] = threads[u]
  BY <1>3 DEF ThreadStep, StartThread, PollCommands, PollEmptyCommand,
     ThreadFails, ContextTerminates, ExitThread, startThread, pollCommands,
     pollEmptyCommand, failThread, exitThread
<1>8. \/ th.req = threads[t].req /\ th.rsp = threads[t].rsp
      \/ /\ threads[t].req # << >> /\ th.req = << >>
         /\ \/ th.rsp = threads[t].rsp
            \/ \E rsp \in Responses(Head(threads[t].req)) : th.rsp = << rsp >>
  <2>1. threads[t] \in Thread
    BY <1>3
  <2> USE <2>1, <1>3 DEF Thread
  <2>2. CASE StartThread(t)
    BY <2>2 DEF StartThread, startThread
  <2>3. CASE PollCommands(t)
    BY <2>3 DEF PollCommands, pollCommands
  <2>4. CASE PollEmptyCommand(t)
    BY <2>4 DEF PollEmptyCommand, pollEmptyCommand, HasEmptyCommand
  <2>5. CASE ThreadFails(t) \/ ContextTerminates(t)
    BY <2>5 DEF ThreadFails, ContextTerminates, failThread
  <2>6. CASE ExitThread(t)
    BY <2>6 DEF ExitThread, exitThread
  <2> QED
    BY <2>2, <2>3, <2>4, <2>5, <2>6 DEF ThreadStep
<1> HIDE DEF th
<1>9. ForwardInv'
  <2>1. CASE pc \notin { "forward", "crashed" }
    <3>1. IdleThread(t)
      BY <2>1 DEF SafetyInv, ForwardInv
    <3>2. th.req = << >> /\ th.rsp = << >>
      BY <1>8, <3>1 DEF IdleThread
    <3> QED
      BY <1>1, <1>7, <2>1, <3>2 DEF SafetyInv, ForwardInv, IdleThread, th
  <2>2. CASE pc = "forward"
    <3>1. CASE th.req = threads[t].req /\ th.rsp = threads[t].rsp
      BY <1>1, <1>2, <1>7, <2>2, <3>1
         DEF SafetyInv, ForwardInv, IdleThread, th, Promise!OwnReply
    <3>2. CASE threads[t].req # << >> /\ th.req = << >>
               /\ th.rsp = threads[t].rsp
      BY <1>1, <1>2, <1>7, <2>2, <3>2
         DEF SafetyInv, ForwardInv, IdleThread, th, Promise!OwnReply
    <3>3. ASSUME threads[t].req # << >>, th.req = << >>,
                 NEW rsp \in Responses(Head(threads[t].req)),
                 th.rsp = << rsp >>
          PROVE  ForwardInv'
      <4>1. /\ t = mCommandSocket[forwarding]
            /\ Head(threads[t].req) = request[owed]
        BY <2>2, <3>3, SingleFacts DEF SafetyInv, ForwardInv, IdleThread
      <4>2. /\ Len(th.rsp) = 1 /\ Head(th.rsp) = rsp
            /\ Promise!OwnReply(request[owed], Head(th.rsp))
        BY <3>3, <4>1, SingleFacts, ResponsesAreOwn
      <4>3. Promise!OwnReply(request[owed], Head(threads[t].rsp))'
        BY <1>2, <4>2 DEF th, Promise!OwnReply
      <4>4. \A u \in DOMAIN threads :
              u # t => threads'[u].req = << >> /\ threads'[u].rsp = << >>
        BY <1>7, <2>2, <4>1 DEF SafetyInv, ForwardInv, IdleThread
      <4>5. \A u \in DOMAIN threads' :
              /\ u # mCommandSocket'[forwarding'] => IdleThread(u)'
              /\ threads'[u].req = << >>
              /\ threads'[u].rsp # << >> =>
                   u = t /\ Len(threads'[u].rsp) = 1
        BY <1>1, <1>7, <3>3, <4>1, <4>2, <4>4 DEF IdleThread, th
      <4>6. \A k \in ThreadKinds :
              mCommandSocket[k] \in { Null, Closed } \cup DOMAIN threads
        BY DEF SafetyInv, ForwardInv
      <4> QED
        BY <1>1, <1>7, <2>2, <4>1, <4>3, <4>5, <4>6 DEF ForwardInv, th
    <3> QED
      BY <1>8, <3>1, <3>2, <3>3
  <2>3. CASE pc = "crashed"
    BY <1>1, <1>7, <2>3 DEF SafetyInv, ForwardInv
  <2> QED
    BY <2>1, <2>2, <2>3
<1> QED
  BY <1>5, <1>6, <1>9 DEF SafetyInv

\* Every step keeps the invariant.
LEMMA StepInv ==
  ASSUME TypeOK, SafetyInv, [Next]_vars
  PROVE  SafetyInv'
<1>1. CASE Execute
  BY <1>1, LoopInv, TpxPollInv, ClientPollInv DEF Execute
<1>2. CASE Environment
  BY <1>2, EnvironmentInv
<1>3. ASSUME NEW t \in DOMAIN threads, ThreadStep(t)  PROVE SafetyInv'
  <2>1. CASE PollPastCommand(t)
    BY <2>1, ReadPastInv DEF PollPastCommand
  <2> QED
    BY <1>3, <2>1, ThreadStepInv
<1>4. CASE UNCHANGED vars
  <2>1. ClientInv' /\ InFlightInv' /\ WireInv'
    BY <1>4, UnchangedInv DEF vars
  <2>2. QueuedInv' /\ PlaceInv'
    BY <1>4 DEF vars, pyVars, clientVars, tpxVars, threadVars, commsVars,
       SafetyInv, QueuedInv, PlaceInv, Awaited
  <2>3. ForwardInv'
    BY <1>4, SameForwardInv DEF vars, pyVars, clientVars, commsVars
  <2> QED
    BY <2>1, <2>2, <2>3 DEF SafetyInv
<1> QED
  BY <1>1, <1>2, <1>3, <1>4 DEF Next

(***************************************************************************)
(* The theorems.                                                           *)
(***************************************************************************)

\* The initial states have the types and satisfy the invariant.
LEMMA InitInv == Init => TypeOK /\ SafetyInv
<1> SUFFICES ASSUME Init  PROVE TypeOK /\ SafetyInv
  OBVIOUS
<1> USE DEF Init, PyInit, TpxInit, ThreadInit
<1>1. "NOP" \in RequestCodes /\ "ok" \in Shapes
      /\ "ERROR_OCCURED" \in ErrorCodes /\ "start" \in Locations
      /\ "udp" \in ThreadKinds
  BY DEF RequestCodes, COMMAND_MAP, TpxForwardCommands, Shapes, ErrorCodes,
     Locations, ThreadKinds
<1>2. PyTypeOK
  BY <1>1 DEF PyTypeOK, Request
<1>3. TpxTypeOK
  BY SeqFacts DEF TpxTypeOK
<1>4. ThreadTypeOK
  BY SeqFacts DEF ThreadTypeOK, Null
<1>5. CommsTypeOK
  BY <1>1 DEF CommsTypeOK
<1>6. ClientInv
  BY DEF ClientInv
<1>7. InFlightInv /\ QueuedInv /\ WireInv /\ PlaceInv
  BY DEF InFlightInv, QueuedInv, WireInv, PlaceInv
<1>8. ForwardInv
  BY DEF ForwardInv
<1> QED
  BY <1>2, <1>3, <1>4, <1>5, <1>6, <1>7, <1>8 DEF TypeOK, SafetyInv

\* Every variable keeps its type and the inductive invariant always holds:
\* each is needed to show that a step keeps the other.
THEOREM Invariance == Spec => [](TypeOK /\ SafetyInv)
<1>1. TypeOK /\ SafetyInv /\ [Next]_vars => (TypeOK /\ SafetyInv)'
  BY StepTypes, StepInv
<1> QED
  BY <1>1, InitInv, PTL DEF Spec

\* Every variable of the server keeps its type.
THEOREM TypeCorrect == Spec => []TypeOK
BY Invariance, PTL

\* mLastCommandSource never dangles: while a command is with the board, the
\* manager it names is alive, owes its client the reply, and the queue holds
\* that client's command and no other.
THEOREM SourceSafe == Spec => []SourceAwaitsReply
<1>1. SafetyInv => SourceAwaitsReply
  BY DEF SafetyInv, InFlightInv, SourceAwaitsReply, Awaited
<1> QED
  BY <1>1, Invariance, PTL

\* A queued command belongs to the manager that is alive and, as long as the
\* board is connected, to the client that is owed the next reply.
THEOREM QueueSafe == Spec => []QueueServesClient
<1>1. SafetyInv => QueueServesClient
  BY SingleFacts DEF SafetyInv, InFlightInv, QueuedInv, QueueServesClient,
     Awaited
<1> QED
  BY <1>1, Invariance, PTL

\* commandRecv never finds that there is no client to answer.
THEOREM ReplySafe == Spec => []ReplyHasClient
<1>1. SafetyInv => ReplyHasClient
  BY DEF SafetyInv, WireInv, ReplyHasClient
<1> QED
  BY <1>1, Invariance, PTL

(***************************************************************************)
(* The server keeps the promise of RequestReply.                           *)
(***************************************************************************)

\* Sending a reply to the request being served.
Answers == \E reply : /\ Promise!OwnReply(request[owed], reply)
                      /\ send(reply)

\* What a step may do to the client socket.
SocketStep ==
  \/ UNCHANGED << request, answer, inbox, owed >>
  \/ close /\ (~ Alive \/ ReceiveFails)
  \/ Answers
  \/ \E c \in Clients : clientSend(c)
  \/ ReceiveRequest

\* Each of these is a step of the abstract server, or changes nothing of it.
LEMMA SocketStepAllowed ==
  ASSUME TypeOK, SafetyInv, SocketStep
  PROVE  [Promise!Next]_(Promise!vars)
<1> USE DEF TypeOK, PyTypeOK, SafetyInv, ClientInv, Waiting
<1>1. CASE UNCHANGED << request, answer, inbox, owed >>
  BY <1>1 DEF Promise!vars
<1>2. CASE close /\ (~ Alive \/ ReceiveFails)
  BY <1>2 DEF close, clientVars, Promise!Next, Promise!Drop
<1>3. CASE Answers
  <2>1. PICK reply : Promise!OwnReply(request[owed], reply) /\ send(reply)
    BY <1>3 DEF Answers
  <2>2. owed \in Clients /\ answer[owed] = {}
    BY <2>1 DEF send, SendRefused
  <2>3. /\ answer' = [answer EXCEPT ![owed] = {reply}]
        /\ owed' = NoClient /\ UNCHANGED << request, inbox >>
    BY <2>1 DEF send
  <2>4. reply \in answer'[owed]
    BY <2>2, <2>3
  <2>5. Promise!Serve(owed)
    BY <2>1, <2>2, <2>3, <2>4 DEF Promise!Serve
  <2> QED
    BY <2>2, <2>5 DEF Promise!Next
<1>4. ASSUME NEW c \in Clients, clientSend(c)
      PROVE  [Promise!Next]_(Promise!vars)
  <2>1. c \notin inbox /\ c # owed
    BY <1>4, ClientsAssumption DEF clientSend
  <2>2. PICK r : r.id = nextId /\ request' = [request EXCEPT ![c] = r]
    BY <1>4 DEF clientSend
  <2>3. request[c].id \in Nat /\ request[c].id < nextId
    BY DEF Request
  <2>4. request'[c] = r
    BY <2>2
  <2>5. request'[c].id > request[c].id
    BY <2>2, <2>3, <2>4
  <2>6. request' = [request EXCEPT ![c] = request'[c]]
    BY <2>2, <2>4
  <2>7. Promise!Send(c)
    BY <1>4, <2>1, <2>5, <2>6 DEF clientSend, Promise!Send
  <2> QED
    BY <2>7 DEF Promise!Next
<1>5. CASE ReceiveRequest
  BY <1>5 DEF ReceiveRequest, recv, RecvRefused, clientVars, Promise!Next,
     Promise!Take
<1> QED
  BY <1>1, <1>2, <1>3, <1>4, <1>5 DEF SocketStep

\* An error code, or the code of the request without data, answers it.
LEMMA OwnReplies ==
  /\ \A e \in ErrorCodes : sendError(e) => Answers
  /\ sendEmptyResponse(Req.code) => Answers
  /\ \A d : mLastCommand = request[owed].code /\ d \subseteq {request[owed].id}
           /\ sendResponse(d) => Answers
<1>1. ASSUME NEW e \in ErrorCodes, sendError(e)  PROVE Answers
  <2>1. Promise!OwnReply(request[owed], [code |-> e, data |-> {}])
    BY DEF Promise!OwnReply
  <2> QED
    BY <1>1, <2>1 DEF Answers, sendError
<1>2. ASSUME sendEmptyResponse(Req.code)  PROVE Answers
  <2>1. Promise!OwnReply(request[owed], [code |-> Req.code, data |-> {}])
    BY DEF Promise!OwnReply, Req
  <2> QED
    BY <1>2, <2>1 DEF Answers, sendEmptyResponse
<1>3. ASSUME NEW d, mLastCommand = request[owed].code,
             d \subseteq {request[owed].id}, sendResponse(d)
      PROVE  Answers
  <2>1. Promise!OwnReply(request[owed], [code |-> mLastCommand, data |-> d])
    BY <1>3 DEF Promise!OwnReply
  <2> QED
    BY <1>3, <2>1 DEF Answers, sendResponse
<1> QED
  BY <1>1, <1>2, <1>3

\* Every step does one of these.  The answers to the board's replies are the
\* client's own because of the invariant.
LEMMA StepIsSocketStep ==
  ASSUME TypeOK, SafetyInv, [Next]_vars
  PROVE  SocketStep
<1>0. { "ERROR_OCCURED", "INVALID_COMMAND_DATA", "UNKNOWN_COMMAND",
        "THREAD_NOT_STARTED", "THREAD_NOT_CONNECTED" } \subseteq ErrorCodes
  BY DEF ErrorCodes
<1>1. ASSUME UNCHANGED pyVars \/ open \/ (\E code : rememberCommand(code))
      PROVE  SocketStep
  BY <1>1 DEF SocketStep, pyVars, clientVars, open, rememberCommand
<1>2. CASE \/ Start \/ StartWithoutEndpoint \/ StartWithoutSocket
           \/ LeaveLoop \/ EnterLoopBody \/ ResetClient \/ ResetClientFails
  BY <1>1, <1>2 DEF Start, StartWithoutEndpoint, StartWithoutSocket, LeaveLoop,
     EnterLoopBody, ResetClient, ResetClientFails
<1>3. CASE Cleanup
  BY <1>0, <1>1, <1>3, OwnReplies DEF Cleanup, SocketStep
<1>4. CASE Delete
  BY <1>4 DEF Delete, SocketStep, Alive
<1>5. CASE TpxPoll
  <2>1. CASE \/ NothingToSend \/ SendCommand \/ Reconnect \/ ReconnectFails
             \/ ReconnectBreaks \/ HandlersDone \/ Connected \/ CommandSent
             \/ DiscardRecv \/ ShortRecvThrows \/ ShortRecvReadsOn
    BY <1>1, <2>1 DEF NothingToSend, SendCommand, Reconnect, ReconnectFails,
       ReconnectBreaks, HandlersDone, Connected, CommandSent, DiscardRecv,
       ShortRecvThrows, ShortRecvReadsOn
  <2>2. CASE SendReset
    <3>1. mLastCommand = request[owed].code
      BY <2>2 DEF SendReset, CanSend, SafetyInv, QueuedInv, InFlightInv
    <3> QED
      BY <1>1, <2>2, <3>1, OwnReplies DEF SendReset, SocketStep
  <2>3. CASE ConnectFails \/ ReadFails
    BY <1>0, <1>1, <2>3, OwnReplies DEF ConnectFails, ReadFails, networkError,
       SocketStep
  <2>4. CASE CommandRecv
    <3>1. /\ mLastCommand = request[owed].code
          /\ Head(rx).data = {request[owed].id}
      BY <2>4 DEF CommandRecv, ReadReady, SafetyInv, WireInv, InFlightInv
    <3> QED
      BY <1>0, <1>1, <2>4, <3>1, OwnReplies DEF CommandRecv, replyToClient,
         SocketStep
  <2> QED
    BY <1>5, <2>1, <2>2, <2>3, <2>4 DEF TpxPoll
<1>6. CASE ClientPoll
  <2>1. CASE \/ SkipClient \/ NoRequest \/ CancelAgain \/ HandleEmpty
             \/ HandleForTimepix \/ HandleForThread
    BY <1>1, <2>1 DEF SkipClient, NoRequest, CancelAgain, HandleEmpty,
       HandleForTimepix, HandleForThread
  <2>2. CASE ReceiveRequest \/ ReceiveFails
    BY <2>2 DEF ReceiveFails, SocketStep
  <2>3. CASE \/ HandleNotConnected \/ HandleRagged \/ HandleWrongSize
             \/ HandleNoThread \/ HandleUnknown
    BY <1>0, <2>3, OwnReplies DEF HandleNotConnected, HandleRagged,
       HandleWrongSize, HandleNoThread, HandleUnknown, SocketStep
  <2>4. CASE HandleBindUdpPort
    BY <2>4, OwnReplies DEF HandleBindUdpPort, SocketStep
  <2>5. CASE ForwardResponse
    BY <2>5 DEF ForwardResponse, SafetyInv, ForwardInv, Answers, SocketStep
  <2> QED
    BY <1>6, <2>1, <2>2, <2>3, <2>4, <2>5 DEF ClientPoll, HandleCommand
<1>7. CASE Environment
  BY <1>1, <1>7 DEF Environment, ClientSend, Stop, LinkEstablished, LinkRefused,
     LinkBreaks, SpidrReplies, Crash, SocketStep
<1>8. ASSUME NEW t \in DOMAIN threads, ThreadStep(t)  PROVE SocketStep
  BY <1>1, <1>8 DEF ThreadStep, StartThread, PollCommands, PollEmptyCommand,
     PollPastCommand, ThreadFails, ContextTerminates, ExitThread
<1>9. CASE UNCHANGED vars
  BY <1>1, <1>9 DEF vars
<1> QED
  BY <1>2, <1>3, <1>4, <1>5, <1>6, <1>7, <1>8, <1>9 DEF Next, Execute

\* The server takes one request at a time and answers it at most once, with
\* its own code and data or with an error: it implements RequestReply,
\* whatever the board replies and whatever fails.
THEOREM Refinement == Spec => KeepsPromise
<1>1. Init => Promise!Init
  BY DEF Init, PyInit, Promise!Init
<1>2. TypeOK /\ SafetyInv /\ [Next]_vars => [Promise!Next]_(Promise!vars)
  BY StepIsSocketStep, SocketStepAllowed
<1> QED
  BY <1>1, <1>2, Invariance, PTL DEF Spec, KeepsPromise, Promise!Spec

\* A request is taken from the client socket only when nothing is left of the
\* last one in the queue, at the board or in mLastCommandSource.
THEOREM TakenIdle == Spec => TakenWhenIdle
<1> DEFINE Idle == /\ ~ mIsExecutingCommand
                   /\ mQueuedCommands = << >>
                   /\ mLastCommandSource = 0
<1>1. ASSUME TypeOK, SafetyInv, [Next]_vars,
             owed' # owed, owed' # NoClient
      PROVE  Idle
  <2>1. ReceiveRequest
    BY <1>1, StepIsSocketStep DEF SocketStep, close, Answers, send, clientSend
  <2>2. /\ pc = "client" /\ ~ mIsExecutingCommand /\ owed = NoClient
    BY <2>1 DEF ReceiveRequest, MayPollClient, recv, RecvRefused
  <2>3. mLastCommandSource = 0
    BY <1>1, <2>2 DEF SafetyInv, InFlightInv
  <2>4. mQueuedCommands = << >>
    BY <1>1, <2>2, <2>3 DEF SafetyInv, QueuedInv
  <2> QED
    BY <2>2, <2>3, <2>4
<1>2. TypeOK /\ SafetyInv /\ [Next]_vars =>
        [owed' # owed /\ owed' # NoClient => Idle]_vars
  BY <1>1
<1> QED
  BY <1>2, Invariance, PTL DEF Spec, TakenWhenIdle

(***************************************************************************)
(* No secondary thread is forgotten while it runs.                         *)
(***************************************************************************)

\* A step that adds no thread, keeps the pointers, and neither revives a
\* thread nor takes its cancellation back, forgets none.
LEMMA NoneForgotten ==
  ASSUME NoLeakedThread,
         DOMAIN threads' = DOMAIN threads,
         \A t \in DOMAIN threads :
           /\ threads'[t].kind = threads[t].kind
           /\ threads[t].state = "deleted" => threads'[t].state = "deleted"
           /\ threads[t].mShouldCancel => threads'[t].mShouldCancel,
         \A t \in DOMAIN threads :
           \/ threads'[t].mShouldCancel \/ threads'[t].state = "deleted"
           \/ mThread'[threads[t].kind] = mThread[threads[t].kind]
  PROVE  NoLeakedThread'
BY DEF NoLeakedThread

\* A cancelled thread is cancelled or deleted; the others stay as they are.
LEMMA CancelFacts ==
  ASSUME ThreadTypeOK, NEW ts, NEW t \in DOMAIN threads
  PROVE  /\ cancelled(ts)[t].kind = threads[t].kind
         /\ cancelled(ts)[t].state = threads[t].state
         /\ threads[t].mShouldCancel => cancelled(ts)[t].mShouldCancel
         /\ t \in ts => \/ cancelled(ts)[t].mShouldCancel
                        \/ threads[t].state = "deleted"
<1>1. threads[t] \in Thread
  BY DEF ThreadTypeOK
<1> QED
  BY <1>1 DEF cancelled, Thread

\* The steps that change the threads; the others leave them all alone.
LEMMA ThreadChanges ==
  ASSUME [Next]_vars
  PROVE  \/ UNCHANGED threadVars
         \/ Start \/ StartWithoutEndpoint \/ Cleanup \/ ReceiveFails
         \/ CancelAgain \/ HandleBindUdpPort \/ HandleForThread
         \/ ForwardResponse
         \/ \E t \in DOMAIN threads : ThreadStep(t)
<1>1. CASE \/ StartWithoutSocket \/ LeaveLoop \/ EnterLoopBody \/ ResetClient
           \/ ResetClientFails \/ TpxPoll \/ Delete
  BY <1>1 DEF StartWithoutSocket, LeaveLoop, EnterLoopBody,
     ResetClient, ResetClientFails, Delete, TpxPoll, NothingToSend,
     SendCommand, SendReset, Reconnect, ReconnectFails, ReconnectBreaks,
     HandlersDone, Connected, CommandSent, ConnectFails, ReadFails,
     networkError, DiscardRecv, CommandRecv, ShortRecvThrows, ShortRecvReadsOn
<1>2. CASE \/ SkipClient \/ NoRequest \/ ReceiveRequest
           \/ HandleNotConnected \/ HandleRagged \/ HandleEmpty
           \/ HandleWrongSize \/ HandleForTimepix \/ HandleNoThread
           \/ HandleUnknown
  BY <1>2 DEF SkipClient, NoRequest, ReceiveRequest,
     HandleNotConnected, HandleRagged, HandleEmpty, HandleWrongSize,
     HandleForTimepix, HandleNoThread, HandleUnknown
<1>3. CASE Environment \/ UNCHANGED vars
  BY <1>3 DEF Environment, ClientSend, Stop, LinkEstablished,
     LinkRefused, LinkBreaks, SpidrReplies, Crash, vars
<1> QED
  BY <1>1, <1>2, <1>3 DEF Next, Execute, ClientPoll, HandleCommand

\* Every step keeps the threads that run known to CommsThread.
LEMMA StepLeaksNone ==
  ASSUME TypeOK, SafetyInv, NoLeakedThread, [Next]_vars
  PROVE  NoLeakedThread'
<1>1. /\ ThreadTypeOK /\ threads \in Seq(Thread)
      /\ mThread \in [ThreadKinds -> Nat]
      /\ DOMAIN threads = 1 .. Len(threads)
  BY DEF TypeOK, ThreadTypeOK
<1>2. /\ "udp" \in ThreadKinds /\ "cluster" \in ThreadKinds
      /\ "histogram" \in ThreadKinds
      /\ \A t \in DOMAIN threads : threads[t] \in Thread
      /\ \A t \in DOMAIN threads : threads[t].kind \in ThreadKinds
  <2>1. /\ "udp" \in ThreadKinds /\ "cluster" \in ThreadKinds
        /\ "histogram" \in ThreadKinds
    BY DEF ThreadKinds
  <2>2. \A t \in DOMAIN threads : threads[t] \in Thread
    BY <1>1
  <2> QED
    BY <2>1, <2>2 DEF Thread
<1>3. ASSUME UNCHANGED threadVars  PROVE NoLeakedThread'
  BY <1>3 DEF NoLeakedThread, threadVars
<1>4. ASSUME pc = "start", startClusterAndHistogramThreads
      PROVE  NoLeakedThread'
  <2>1. threads = << >>
    BY <1>4 DEF SafetyInv, PlaceInv
  <2>2. threads' = << NewThread("cluster"), NewThread("histogram") >>
    BY <1>4, <2>1 DEF startClusterAndHistogramThreads
  <2>3. mThread'["cluster"] = 1 /\ mThread'["histogram"] = 2
    BY <1>1, <1>2, <1>4, <2>1 DEF startClusterAndHistogramThreads
  <2>4. /\ DOMAIN threads' = 1 .. 2
        /\ threads'[1].kind = "cluster" /\ threads'[2].kind = "histogram"
    BY <2>2 DEF NewThread
  <2> QED
    BY <2>3, <2>4 DEF NoLeakedThread
<1>5. ASSUME threads' = cancelled({mThread["udp"]}), UNCHANGED mThread
      PROVE  NoLeakedThread'
  BY <1>1, <1>5, CancelledFacts, CancelFacts, NoneForgotten
<1>6. ASSUME threads' = cancelled({mThread["udp"]}),
             mThread' = [mThread EXCEPT !["udp"] = 0]
      PROVE  NoLeakedThread'
  <2>1. \A t \in DOMAIN threads :
          \/ threads'[t].mShouldCancel \/ threads'[t].state = "deleted"
          \/ mThread'[threads[t].kind] = mThread[threads[t].kind]
    BY <1>1, <1>2, <1>6, CancelFacts DEF NoLeakedThread
  <2> QED
    BY <1>1, <1>6, <2>1, CancelledFacts, CancelFacts, NoneForgotten
<1>7. ASSUME bindUdpPort  PROVE NoLeakedThread'
  <2> DEFINE old == cancelled({mThread["udp"]})
  <2>1. /\ old \in Seq(Thread) /\ Len(old) = Len(threads)
        /\ \A t \in DOMAIN threads :
             /\ old[t].kind = threads[t].kind
             /\ old[t].state = threads[t].state
             /\ threads[t].mShouldCancel => old[t].mShouldCancel
             /\ t = mThread["udp"] =>
                  old[t].mShouldCancel \/ threads[t].state = "deleted"
    BY <1>1, CancelledFacts, CancelFacts
  <2>2. threads' = Append(old, NewThread("udp"))
    BY <1>7 DEF bindUdpPort
  <2>3. \A k \in ThreadKinds :
          mThread'[k] = IF k = "udp" THEN Len(threads) + 1 ELSE mThread[k]
    BY <1>1, <1>7 DEF bindUdpPort
  <2> HIDE DEF old
  <2>4. /\ DOMAIN threads' = DOMAIN threads \cup {Len(threads) + 1}
        /\ \A t \in DOMAIN threads : threads'[t] = old[t]
        /\ threads'[Len(threads) + 1] = NewThread("udp")
    BY <1>1, <2>1, <2>2
  <2>5. ASSUME NEW t \in DOMAIN threads,
               threads'[t].state # "deleted", ~ threads'[t].mShouldCancel
        PROVE  mThread'[threads'[t].kind] = t
    <3>1. /\ threads[t].state # "deleted" /\ ~ threads[t].mShouldCancel
          /\ t # mThread["udp"] /\ threads'[t].kind = threads[t].kind
      BY <2>1, <2>4, <2>5
    <3>2. mThread[threads[t].kind] = t
      BY <3>1 DEF NoLeakedThread
    <3> QED
      BY <1>2, <2>3, <3>1, <3>2
  <2>6. mThread'[NewThread("udp").kind] = Len(threads) + 1
    BY <1>2, <2>3 DEF NewThread
  <2> QED
    BY <2>4, <2>5, <2>6 DEF NoLeakedThread
<1>8. ASSUME cancelThreads  PROVE NoLeakedThread'
  <2>1. \A t \in DOMAIN threads :
          \/ threads'[t].mShouldCancel \/ threads'[t].state = "deleted"
    <3> TAKE t \in DOMAIN threads
    <3>1. CASE threads[t].mShouldCancel \/ threads[t].state = "deleted"
      BY <1>1, <1>8, <3>1, CancelFacts DEF cancelThreads
    <3>2. CASE mThread[threads[t].kind] = t
      BY <1>1, <1>2, <1>8, <3>2, CancelFacts DEF cancelThreads
    <3> QED
      BY <3>1, <3>2 DEF NoLeakedThread
  <2>2. DOMAIN threads' = DOMAIN threads
    BY <1>1, <1>8, CancelledFacts DEF cancelThreads
  <2> QED
    BY <2>1, <2>2 DEF NoLeakedThread
<1>9. ASSUME NEW t \in DOMAIN threads, ThreadStep(t)  PROVE NoLeakedThread'
  <2>1. /\ UNCHANGED mThread
        /\ DOMAIN threads' = DOMAIN threads
        /\ \A u \in DOMAIN threads : u # t => threads'[u] = threads[u]
        /\ threads'[t].kind = threads[t].kind
        /\ threads[t].state = "deleted" => threads'[t].state = "deleted"
        /\ threads[t].mShouldCancel => threads'[t].mShouldCancel
    <3> USE <1>1, <1>2 DEF InState, Thread
    <3>1. CASE StartThread(t)
      BY <3>1 DEF StartThread, startThread
    <3>2. CASE PollCommands(t)
      BY <3>2 DEF PollCommands, pollCommands
    <3>3. CASE PollEmptyCommand(t)
      BY <3>3 DEF PollEmptyCommand, pollEmptyCommand, HasEmptyCommand
    <3>4. CASE ThreadFails(t) \/ ContextTerminates(t)
      BY <3>4 DEF ThreadFails, ContextTerminates, failThread
    <3>5. CASE ExitThread(t)
      BY <3>5 DEF ExitThread, exitThread
    <3>6. CASE PollPastCommand(t)
      BY <3>6 DEF PollPastCommand, threadVars
    <3> QED
      BY <1>9, <3>1, <3>2, <3>3, <3>4, <3>5, <3>6 DEF ThreadStep
  <2> QED
    BY <1>1, <2>1, NoneForgotten
<1>10. ASSUME UNCHANGED mThread, DOMAIN threads' = DOMAIN threads,
              \A t \in DOMAIN threads :
                /\ threads'[t].kind = threads[t].kind
                /\ threads'[t].state = threads[t].state
                /\ threads'[t].mShouldCancel = threads[t].mShouldCancel
       PROVE  NoLeakedThread'
  BY <1>10, NoneForgotten
<1>11. CASE HandleForThread
  <2>1. PICK k \in ThreadKinds : forwardRequest(k, Req)
    BY <1>11 DEF HandleForThread
  <2>2. UNCHANGED mThread /\ DOMAIN threads' = DOMAIN threads
    BY <1>1, <2>1 DEF forwardRequest
  <2>3. \A t \in DOMAIN threads :
          /\ threads'[t].kind = threads[t].kind
          /\ threads'[t].state = threads[t].state
          /\ threads'[t].mShouldCancel = threads[t].mShouldCancel
    BY <1>1, <1>2, <2>1 DEF forwardRequest, Thread
  <2> QED
    BY <1>10, <2>2, <2>3
<1>12. CASE ForwardResponse
  <2>1. UNCHANGED mThread /\ DOMAIN threads' = DOMAIN threads
    BY <1>1, <1>12 DEF ForwardResponse, receiveResponse
  <2>2. \A t \in DOMAIN threads :
          /\ threads'[t].kind = threads[t].kind
          /\ threads'[t].state = threads[t].state
          /\ threads'[t].mShouldCancel = threads[t].mShouldCancel
    BY <1>1, <1>2, <1>12 DEF ForwardResponse, receiveResponse, Thread
  <2> QED
    BY <1>10, <2>1, <2>2
<1>13. CASE Start \/ StartWithoutEndpoint
  BY <1>4, <1>13 DEF Start, StartWithoutEndpoint
<1>14. CASE Cleanup
  BY <1>3, <1>8, <1>14 DEF Cleanup
<1>15. CASE ReceiveFails
  BY <1>5, <1>15 DEF ReceiveFails
<1>16. CASE CancelAgain
  BY <1>6, <1>16 DEF CancelAgain
<1>17. CASE HandleBindUdpPort
  BY <1>7, <1>17 DEF HandleBindUdpPort
<1> QED
  BY <1>3, <1>9, <1>11, <1>12, <1>13, <1>14, <1>15, <1>16, <1>17,
     ThreadChanges

\* A secondary thread that nobody has told to stop is the one CommsThread
\* still points to: rebinding the UDP port, replacing the client socket and
\* shutting down lose none.
THEOREM NoLeak == Spec => []NoLeakedThread
<1>1. Init => NoLeakedThread
  BY DEF Init, ThreadInit, NoLeakedThread
<1>2. TypeOK /\ SafetyInv /\ NoLeakedThread /\ [Next]_vars => NoLeakedThread'
  BY StepLeaksNone
<1> QED
  BY <1>1, <1>2, Invariance, PTL DEF Spec

\* What a step does to pc and the cancel flag: it leaves them alone, moves on
\* while it runs, returns, is deleted, or the process goes down.
LEMMA LifeSteps ==
  ASSUME [Next]_vars
  PROVE  \/ UNCHANGED << pc, mShouldCancel >>
         \/ Alive /\ Alive' /\ mShouldCancel' \in { TRUE, mShouldCancel }
         \/ Alive /\ pc' = "done" /\ UNCHANGED mShouldCancel
         \/ pc = "done" /\ pc' = "deleted" /\ UNCHANGED mShouldCancel
         \/ Alive /\ pc' = "crashed" /\ UNCHANGED mShouldCancel
<1> USE DEF goto, cancelAndGoto, readPastMessage, Alive, commsVars
<1>1. CASE \/ Start \/ StartWithoutEndpoint \/ StartWithoutSocket \/ LeaveLoop
           \/ EnterLoopBody \/ ResetClient \/ ResetClientFails \/ Cleanup
           \/ Delete
  BY <1>1 DEF Start, StartWithoutEndpoint, StartWithoutSocket, LeaveLoop,
     EnterLoopBody, ResetClient, ResetClientFails, Cleanup, Delete
<1>2. CASE TpxPoll
  <2>1. CASE \/ NothingToSend \/ SendCommand \/ SendReset \/ Reconnect
             \/ ReconnectFails \/ ReconnectBreaks
    BY <2>1 DEF NothingToSend, SendCommand, SendReset, Reconnect,
       ReconnectFails, ReconnectBreaks
  <2>2. CASE \/ HandlersDone \/ Connected \/ CommandSent \/ DiscardRecv
             \/ ShortRecvThrows \/ ShortRecvReadsOn
    BY <2>2 DEF HandlersDone, Connected, CommandSent, DiscardRecv, ShortReply,
       ShortRecvThrows, ShortRecvReadsOn
  <2>3. CASE ConnectFails \/ ReadFails \/ CommandRecv
    BY <2>3 DEF ConnectFails, ReadFails, networkError, CommandRecv
  <2> QED
    BY <1>2, <2>1, <2>2, <2>3 DEF TpxPoll
<1>3. CASE ClientPoll
  BY <1>3 DEF ClientPoll, HandleCommand, SkipClient, NoRequest,
     ReceiveRequest, ReceiveFails, CancelAgain, HandleNotConnected,
     HandleRagged, HandleEmpty, HandleWrongSize, HandleForTimepix,
     HandleBindUdpPort, HandleNoThread, HandleForThread, ForwardResponse,
     HandleUnknown, Handling, ForwardedTo
<1>4. CASE Environment
  BY <1>4 DEF Environment, ClientSend, Stop, LinkEstablished, LinkRefused,
     LinkBreaks, SpidrReplies, Crash
<1>5. ASSUME NEW t \in DOMAIN threads, ThreadStep(t)
      PROVE  \/ UNCHANGED << pc, mShouldCancel >>
             \/ Alive /\ pc' = "crashed" /\ UNCHANGED mShouldCancel
  BY <1>5 DEF ThreadStep, StartThread, PollCommands, PollEmptyCommand,
     PollPastCommand, ThreadFails, ContextTerminates, ExitThread
<1>6. CASE UNCHANGED vars
  BY <1>6 DEF vars
<1> QED
  BY <1>1, <1>2, <1>3, <1>4, <1>5, <1>6 DEF Next, Execute

(***************************************************************************)
(* A pointer of CommsThread goes bad only by a thread that ends itself, or *)
(* within resetClientConnection().                                         *)
(***************************************************************************)

\* What a step of a secondary thread does to it.
LEMMA ThreadStepPointers ==
  ASSUME TypeOK, NEW t \in DOMAIN threads, ThreadStep(t)
  PROVE  /\ UNCHANGED mThread
         /\ DOMAIN threads' = DOMAIN threads
         /\ \A u \in DOMAIN threads : u # t => threads'[u] = threads[u]
         /\ threads'[t].kind = threads[t].kind
         /\ threads'[t].state = "deleted" =>
              threads'[t].mShouldCancel \/ threads[t].state = "deleted"
         /\ threads[t].mShouldCancel => threads'[t].mShouldCancel
         /\ threads'[t].mShouldCancel =>
              threads'[t].failed \/ threads[t].mShouldCancel
         /\ threads[t].failed => threads'[t].failed
<1>1. threads \in Seq(Thread) /\ threads[t] \in Thread
  BY DEF TypeOK, ThreadTypeOK
<1> USE <1>1 DEF InState, Thread
<1>2. CASE StartThread(t)
  BY <1>2 DEF StartThread, startThread
<1>3. CASE PollCommands(t)
  <2>1. UNCHANGED mThread
        /\ \E rsp : threads' = [threads EXCEPT ![t].req = << >>,
                                             ![t].rsp = << rsp >>]
    BY <1>3 DEF PollCommands, pollCommands
  <2>2. PICK rsp : threads' = [threads EXCEPT ![t].req = << >>,
                                              ![t].rsp = << rsp >>]
    BY <2>1
  <2>3. /\ DOMAIN threads' = DOMAIN threads
        /\ \A u \in DOMAIN threads : u # t => threads'[u] = threads[u]
        /\ threads'[t] = [threads[t] EXCEPT !.req = << >>, !.rsp = << rsp >>]
    BY <2>2
  <2> QED
    BY <2>1, <2>3
<1>4. CASE PollEmptyCommand(t)
  BY <1>4 DEF PollEmptyCommand, pollEmptyCommand, HasEmptyCommand
<1>5. CASE PollPastCommand(t)
  BY <1>5 DEF PollPastCommand, threadVars
<1>6. CASE ThreadFails(t) \/ ContextTerminates(t)
  BY <1>6 DEF ThreadFails, ContextTerminates, failThread
<1>7. CASE ExitThread(t)
  BY <1>7 DEF ExitThread, exitThread
<1> QED
  BY <1>2, <1>3, <1>4, <1>5, <1>6, <1>7 DEF ThreadStep

\* Between the two cancel() of resetClientConnection() execute() does nothing
\* but the second.
LEMMA AfterReset ==
  ASSUME [Next]_vars, pc = "reset"
  PROVE  CancelAgain \/ pc' = "reset" \/ ~ Alive'
<1>1. ~ (\/ Start \/ StartWithoutEndpoint \/ StartWithoutSocket \/ LeaveLoop
         \/ EnterLoopBody \/ ResetClient \/ ResetClientFails \/ Cleanup
         \/ Delete)
  BY DEF Start, StartWithoutEndpoint, StartWithoutSocket, LeaveLoop,
     EnterLoopBody, ResetClient, ResetClientFails, Cleanup, Delete
<1>2. ~ TpxPoll
  BY DEF TpxPoll, NothingToSend, SendCommand, SendReset, Reconnect,
     ReconnectFails, ReconnectBreaks, HandlersDone, Connected, CommandSent,
     ConnectFails, ReadFails, DiscardRecv, CommandRecv, ShortReply,
     ShortRecvThrows, ShortRecvReadsOn
<1>3. ClientPoll => CancelAgain
  BY DEF ClientPoll, HandleCommand, SkipClient, NoRequest, ReceiveRequest,
     ReceiveFails, HandleNotConnected, HandleRagged, HandleEmpty,
     HandleWrongSize, HandleForTimepix, HandleBindUdpPort, HandleNoThread,
     HandleForThread, ForwardResponse, HandleUnknown, Handling, ForwardedTo
<1>4. CASE Environment
  BY <1>4 DEF Environment, ClientSend, Stop, LinkEstablished, LinkRefused,
     LinkBreaks, SpidrReplies, Crash, commsVars, goto, Alive
<1>5. ASSUME NEW t \in DOMAIN threads, ThreadStep(t)
      PROVE  UNCHANGED pc \/ ~ Alive'
  BY <1>5 DEF ThreadStep, StartThread, PollCommands, PollEmptyCommand,
     PollPastCommand, readPastMessage, ThreadFails, ContextTerminates,
     ExitThread, commsVars, Alive
<1>6. CASE UNCHANGED vars
  BY <1>6 DEF vars, commsVars
<1> QED
  BY <1>1, <1>2, <1>3, <1>4, <1>5, <1>6 DEF Next, Execute

\* While it runs, CommsThread points to a thread that was told to stop only
\* when that thread has failed, or within resetClientConnection().
LEMMA PointerStep ==
  ASSUME TypeOK, SafetyInv, PointerInv, [Next]_vars
  PROVE  PointerInv'
<1>1. /\ ThreadTypeOK /\ threads \in Seq(Thread)
      /\ \A t \in DOMAIN threads : threads[t] \in Thread
      /\ DOMAIN threads = 1 .. Len(threads) /\ Len(threads) \in Nat
      /\ mThread \in [ThreadKinds -> Nat]
  BY DEF TypeOK, ThreadTypeOK
<1>2. ThreadKinds = { "udp", "cluster", "histogram" }
  BY DEF ThreadKinds
<1>3. CASE Start \/ StartWithoutEndpoint
  <2>1. threads = << >> /\ startClusterAndHistogramThreads /\ Alive
    BY <1>3 DEF Start, StartWithoutEndpoint, SafetyInv, PlaceInv, Alive
  <2>2. threads' = << NewThread("cluster"), NewThread("histogram") >>
    BY <2>1 DEF startClusterAndHistogramThreads
  <2>3. mThread["udp"] = 0
    BY <1>2, <2>1 DEF PointerInv
  <2>4. mThread'["udp"] = 0 /\ mThread'["cluster"] = 1
        /\ mThread'["histogram"] = 2
    BY <1>1, <1>2, <2>1, <2>3 DEF startClusterAndHistogramThreads
  <2>5. /\ DOMAIN threads' = 1 .. 2
        /\ threads'[1] = NewThread("cluster")
        /\ threads'[2] = NewThread("histogram")
    BY <2>2
  <2> QED
    BY <1>2, <2>4, <2>5 DEF PointerInv, NewThread
<1>4. CASE Cleanup
  BY <1>4 DEF Cleanup, PointerInv, Alive, goto
<1>5. CASE ReceiveFails
  <2>1. /\ threads' = cancelled({mThread["udp"]})
        /\ Alive /\ pc # "reset" /\ pc' = "reset" /\ UNCHANGED mThread
    BY <1>5 DEF ReceiveFails, Alive
  <2>2. ASSUME NEW k \in ThreadKinds, mThread[k] # 0
        PROVE  /\ mThread[k] \in DOMAIN threads'
               /\ threads'[mThread[k]].kind = k
               /\ k # "udp" => threads'[mThread[k]] = threads[mThread[k]]
               /\ threads'[mThread[k]].state = threads[mThread[k]].state
               /\ threads[mThread[k]].mShouldCancel
                    => threads'[mThread[k]].mShouldCancel
    <3>1. mThread[k] \in DOMAIN threads /\ threads[mThread[k]].kind = k
      BY <2>1, <2>2 DEF PointerInv
    <3>2. k # "udp" => mThread[k] # mThread["udp"]
      BY <1>2, <2>1, <2>2, <3>1 DEF PointerInv
    <3>3. DOMAIN threads' = DOMAIN threads
      BY <1>1, <2>1, CancelledFacts
    <3>4. k # "udp" => threads'[mThread[k]] = threads[mThread[k]]
      BY <2>1, <3>1, <3>2 DEF cancelled
    <3> QED
      BY <1>1, <2>1, <3>1, <3>3, <3>4, CancelFacts
  <2> QED
    BY <2>1, <2>2 DEF PointerInv
<1>6. CASE CancelAgain
  <2>1. /\ threads' = cancelled({mThread["udp"]})
        /\ mThread' = [mThread EXCEPT !["udp"] = 0]
        /\ Alive
    BY <1>6 DEF CancelAgain, Alive
  <2>2. ASSUME NEW k \in ThreadKinds, mThread'[k] # 0
        PROVE  /\ k # "udp" /\ mThread'[k] = mThread[k]
               /\ mThread[k] \in DOMAIN threads'
               /\ threads'[mThread[k]] = threads[mThread[k]]
    <3>1. k # "udp" /\ mThread'[k] = mThread[k] /\ mThread[k] # 0
      BY <1>1, <1>2, <2>1, <2>2
    <3>2. mThread[k] \in DOMAIN threads /\ threads[mThread[k]].kind = k
      BY <2>1, <3>1 DEF PointerInv
    <3>3. mThread[k] # mThread["udp"]
      BY <1>2, <2>1, <3>1, <3>2 DEF PointerInv
    <3>4. DOMAIN threads' = DOMAIN threads
      BY <1>1, <2>1, CancelledFacts
    <3> QED
      BY <2>1, <3>1, <3>2, <3>3, <3>4 DEF cancelled
  <2> QED
    BY <2>1, <2>2 DEF PointerInv
<1>7. CASE HandleBindUdpPort
  <2> DEFINE old == cancelled({mThread["udp"]})
  <2>1. /\ old \in Seq(Thread) /\ Len(old) = Len(threads)
        /\ \A t \in DOMAIN threads : t # mThread["udp"] => old[t] = threads[t]
    BY <1>1, CancelledFacts DEF cancelled
  <2>2. threads' = Append(old, NewThread("udp"))
    BY <1>7 DEF HandleBindUdpPort, bindUdpPort
  <2>3. /\ mThread'["udp"] = Len(threads) + 1
        /\ \A k \in ThreadKinds \ {"udp"} : mThread'[k] = mThread[k]
    BY <1>1, <1>2, <1>7 DEF HandleBindUdpPort, bindUdpPort
  <2>4. Alive /\ pc # "reset"
    BY <1>7 DEF HandleBindUdpPort, Handling, Alive
  <2> HIDE DEF old
  <2>5. /\ DOMAIN threads' = DOMAIN threads \cup {Len(threads) + 1}
        /\ \A t \in DOMAIN threads : threads'[t] = old[t]
        /\ threads'[Len(threads) + 1] = NewThread("udp")
    BY <1>1, <2>1, <2>2
  <2>6. ASSUME NEW k \in ThreadKinds \ {"udp"}, mThread[k] # 0
        PROVE  /\ mThread[k] \in DOMAIN threads
               /\ threads'[mThread[k]] = threads[mThread[k]]
    <3>1. mThread[k] \in DOMAIN threads /\ threads[mThread[k]].kind = k
      BY <2>4, <2>6 DEF PointerInv
    <3>2. mThread[k] # mThread["udp"]
      BY <1>2, <2>4, <2>6, <3>1 DEF PointerInv
    <3> QED
      BY <2>1, <2>5, <3>1, <3>2
  <2>7. ASSUME NEW k \in ThreadKinds, mThread'[k] # 0
        PROVE  LET u == mThread'[k]
               IN  /\ u \in DOMAIN threads'
                   /\ threads'[u].kind = k
                   /\ threads'[u].state = "deleted" => threads'[u].mShouldCancel
                   /\ threads'[u].mShouldCancel => threads'[u].failed
    <3>1. CASE k = "udp"
      BY <2>3, <2>5, <3>1 DEF NewThread
    <3>2. CASE k # "udp"
      BY <2>3, <2>4, <2>5, <2>6, <2>7, <3>2 DEF PointerInv
    <3> QED
      BY <3>1, <3>2
  <2> QED
    BY <2>7 DEF PointerInv
<1>8. CASE HandleForThread
  <2>1. PICK k \in ThreadKinds : forwardRequest(k, Req)
    BY <1>8 DEF HandleForThread
  <2>2. /\ UNCHANGED mThread /\ DOMAIN threads' = DOMAIN threads
        /\ \A t \in DOMAIN threads :
             /\ threads'[t].kind = threads[t].kind
             /\ threads'[t].state = threads[t].state
             /\ threads'[t].mShouldCancel = threads[t].mShouldCancel
             /\ threads'[t].failed = threads[t].failed
    BY <1>1, <2>1 DEF forwardRequest, Thread
  <2>3. Alive /\ pc # "reset"
    BY <1>8 DEF HandleForThread, ForwardedTo, Handling, Alive
  <2> QED
    BY <2>2, <2>3 DEF PointerInv
<1>9. CASE ForwardResponse
  <2>1. /\ UNCHANGED mThread /\ DOMAIN threads' = DOMAIN threads
        /\ \A t \in DOMAIN threads :
             /\ threads'[t].kind = threads[t].kind
             /\ threads'[t].state = threads[t].state
             /\ threads'[t].mShouldCancel = threads[t].mShouldCancel
             /\ threads'[t].failed = threads[t].failed
    BY <1>1, <1>9 DEF ForwardResponse, receiveResponse, Thread
  <2>2. Alive /\ pc # "reset"
    BY <1>9 DEF ForwardResponse, Alive
  <2> QED
    BY <2>1, <2>2 DEF PointerInv
<1>10. ASSUME NEW t \in DOMAIN threads, ThreadStep(t)  PROVE PointerInv'
  <2>1. CASE PollPastCommand(t)
    BY <2>1 DEF PollPastCommand, readPastMessage, PointerInv, Alive
  <2>2. CASE ~ PollPastCommand(t)
    <3>1. UNCHANGED pc
      BY <1>10, <2>2 DEF ThreadStep, StartThread, PollCommands,
         PollEmptyCommand, ThreadFails, ContextTerminates, ExitThread, commsVars
    <3> QED
      BY <1>10, <3>1, ThreadStepPointers DEF PointerInv, Alive
  <2> QED
    BY <2>1, <2>2
<1>11. CASE UNCHANGED threadVars
  <2>1. Alive' => Alive
    BY LifeSteps DEF Alive
  <2>2. pc = "reset" => pc' = "reset" \/ ~ Alive' \/ CancelAgain
    BY AfterReset
  <2> QED
    BY <1>6, <1>11, <2>1, <2>2 DEF PointerInv, threadVars
<1> QED
  BY <1>3, <1>4, <1>5, <1>6, <1>7, <1>8, <1>9, <1>10, <1>11, ThreadChanges

\* While it runs, CommsThread holds a pointer to a thread that the pool has
\* deleted only if that thread ended itself, or between the two cancel() of
\* resetClientConnection().
THEOREM FailedThreadsDangle == Spec => []OnlyFailedThreadsDangle
<1>1. Init => PointerInv
  BY DEF Init, ThreadInit, PointerInv
<1>2. TypeOK /\ SafetyInv /\ PointerInv /\ [Next]_vars => PointerInv'
  BY PointerStep
<1>3. TypeOK /\ PointerInv => OnlyFailedThreadsDangle
  <2> SUFFICES ASSUME TypeOK, PointerInv  PROVE OnlyFailedThreadsDangle
    OBVIOUS
  <2>1. DOMAIN threads = 1 .. Len(threads) /\ Len(threads) \in Nat
    BY DEF TypeOK, ThreadTypeOK
  <2> QED
    BY <2>1 DEF PointerInv, OnlyFailedThreadsDangle, InState
<1> QED
  BY <1>1, <1>2, <1>3, Invariance, PTL DEF Spec

(***************************************************************************)
(* No request is lost.                                                     *)
(***************************************************************************)

\* The kinds of the messages from the board are those it sends.
LEMMA RecognisedStep ==
  ASSUME KnownReplies, TypeOK, RecognisedInv, [Next]_vars
  PROVE  RecognisedInv'
<1>1. rx \in Seq(Message)
  BY DEF TypeOK, TpxTypeOK
<1>2. ASSUME UNCHANGED rx  PROVE RecognisedInv'
  BY <1>2 DEF RecognisedInv
<1>3. ASSUME rx' = << >>  PROVE RecognisedInv'
  BY <1>3 DEF RecognisedInv
<1>4. ASSUME rx # << >>, rx' = Tail(rx)  PROVE RecognisedInv'
  BY <1>1, <1>4 DEF RecognisedInv
<1>5. ASSUME rx' \in AvailableAtConnect  PROVE RecognisedInv'
  BY <1>5 DEF RecognisedInv, AvailableAtConnect, Stale
<1>6. ASSUME NEW m \in Message, m.kind # "unrecognised", rx' = Append(rx, m)
      PROVE  RecognisedInv'
  BY <1>1, <1>6 DEF RecognisedInv
<1>7. CASE spidrReplies
  <2>1. PICK kind \in ReplyKinds :
          rx' = Append(rx, [kind |-> kind, data |-> { Head(tx).data }])
    BY <1>7 DEF spidrReplies
  <2>2. Head(tx).data \in Nat
    <3>1. tx \in Seq(TimepixCommandInfo) /\ tx # << >>
      BY <1>7 DEF TypeOK, TpxTypeOK, spidrReplies
    <3>2. Head(tx) \in TimepixCommandInfo
      BY <3>1, SeqFacts
    <3> QED
      BY <3>2 DEF TimepixCommandInfo
  <2> DEFINE m == [kind |-> kind, data |-> { Head(tx).data }]
  <2>3. m \in Message /\ m.kind # "unrecognised"
    BY <2>2, ReplyKindsAssumption DEF Message, KnownReplies
  <2> QED
    BY <1>6, <2>1, <2>3
<1>8. CASE linkEstablished
  BY <1>5, <1>8 DEF linkEstablished
<1>9. CASE TpxPoll
  <2>1. CASE \/ NothingToSend \/ SendCommand \/ ReconnectFails \/ HandlersDone
             \/ CommandSent
    BY <1>2, <2>1 DEF NothingToSend, SendCommand, ReconnectFails, HandlersDone,
       CommandSent, sendCommand, commandSent, tpxVars
  <2>2. CASE \/ SendReset \/ Reconnect \/ ReconnectBreaks \/ Connected
             \/ ConnectFails \/ ReadFails
    BY <1>3, <2>2 DEF SendReset, Reconnect, ReconnectBreaks, Connected,
       ConnectFails, ReadFails, networkError, terminateConnection,
       initializeConnection, Drain
  <2>3. CASE DiscardRecv \/ CommandRecv \/ ShortRecvThrows
    BY <1>4, <2>3 DEF DiscardRecv, CommandRecv, ShortReply, ShortRecvThrows,
       discardRecv, processRecv
  <2>4. CASE ShortRecvReadsOn
    BY <1>2, <2>4 DEF ShortRecvReadsOn, tpxVars
  <2> QED
    BY <1>9, <2>1, <2>2, <2>3, <2>4 DEF TpxPoll
<1>10. CASE Execute /\ ~ TpxPoll
  <2>1. CASE Cleanup \/ Delete
    BY <1>2, <1>3, <2>1 DEF Cleanup, Delete, terminateConnection, tpxVars
  <2>2. CASE \/ Start \/ StartWithoutEndpoint \/ StartWithoutSocket
             \/ LeaveLoop \/ EnterLoopBody \/ ResetClient \/ ResetClientFails
    BY <1>2, <2>2 DEF Start, StartWithoutEndpoint, StartWithoutSocket,
       LeaveLoop, EnterLoopBody, ResetClient, ResetClientFails,
       startConnecting, tpxVars
  <2>3. CASE ClientPoll
    BY <1>2, <2>3 DEF ClientPoll, HandleCommand, SkipClient, NoRequest,
       ReceiveRequest, ReceiveFails, CancelAgain, HandleNotConnected,
       HandleRagged, HandleEmpty, HandleWrongSize, HandleForTimepix,
       HandleBindUdpPort, HandleNoThread, HandleForThread, ForwardResponse,
       HandleUnknown, queueCommand, tpxVars
  <2> QED
    BY <1>10, <2>1, <2>2, <2>3 DEF Execute
<1>11. CASE Environment
  BY <1>2, <1>7, <1>8, <1>11 DEF Environment, ClientSend, Stop,
     LinkEstablished, LinkRefused, LinkBreaks, SpidrReplies, Crash,
     linkRefused, linkBreaks, tpxVars
<1>12. ASSUME NEW t \in DOMAIN threads, ThreadStep(t)  PROVE RecognisedInv'
  BY <1>2, <1>12 DEF ThreadStep, StartThread, PollCommands, PollEmptyCommand,
     PollPastCommand, ThreadFails, ContextTerminates, ExitThread, tpxVars
<1>13. CASE UNCHANGED vars
  BY <1>2, <1>13 DEF vars, tpxVars
<1> QED
  BY <1>9, <1>10, <1>11, <1>12, <1>13 DEF Next

\* A poll of the client socket never finds a reply owed.
LEMMA OwedStep ==
  ASSUME KnownReplies, TypeOK, SafetyInv, RecognisedInv, OwedInv, [Next]_vars
  PROVE  OwedInv'
<1> USE DEF OwedInv, Alive
<1>1. ASSUME owed' = NoClient, pc' # "reset"  PROVE OwedInv'
  BY <1>1
<1>2. ASSUME UNCHANGED << owed, mLastCommandSource >>, mLastCommandSource # 0,
             pc' # "reset"
      PROVE  OwedInv'
  BY <1>2
<1>3. ASSUME UNCHANGED << pyVars, tpxVars, pc >>  PROVE OwedInv'
  BY <1>3 DEF pyVars, tpxVars, CanSend
<1>4. ASSUME pc' \in { "handle", "forward", "cleanup", "done", "deleted",
                       "crashed" }
      PROVE  OwedInv'
  BY <1>4
<1>5. CASE Start \/ StartWithoutEndpoint
  BY <1>1, <1>5 DEF Start, StartWithoutEndpoint, open, goto, cancelAndGoto,
     SafetyInv, PlaceInv
<1>6. CASE StartWithoutSocket \/ LeaveLoop \/ ResetClientFails \/ Cleanup
           \/ Delete \/ Crash
  BY <1>4, <1>6 DEF StartWithoutSocket, LeaveLoop, ResetClientFails, Cleanup,
     Delete, Crash, goto
<1>7. CASE EnterLoopBody
  BY <1>7 DEF EnterLoopBody, goto, pyVars, tpxVars, CanSend
<1>8. CASE ResetClient
  BY <1>1, <1>8 DEF ResetClient, open, SafetyInv, PlaceInv
<1>9. CASE TpxPoll
  <2>1. CASE NothingToSend
    BY <2>1 DEF NothingToSend, goto, pyVars, tpxVars
  <2>2. CASE SendCommand
    <3>1. Head(mQueuedCommands).sender = mClientManager
      BY <2>2, SingleFacts DEF SendCommand, CanSend, SafetyInv, QueuedInv,
         InFlightInv, Awaited
    <3>2. mClientManager # 0
      BY <2>2 DEF SendCommand, SafetyInv, PlaceInv
    <3> QED
      BY <2>2, <3>1, <3>2 DEF SendCommand, sendCommand, goto
  <2>3. CASE SendReset
    BY <1>1, <1>4, <2>3 DEF SendReset, sendResponse, send, cancelAndGoto
  <2>4. CASE Reconnect \/ ReconnectFails \/ ReconnectBreaks
    <3>1. pc = "reconnect" /\ owed = NoClient
      BY <2>4 DEF Reconnect, ReconnectFails, ReconnectBreaks, SafetyInv,
         PlaceInv, InFlightInv
    <3> QED
      BY <1>1, <2>4, <3>1 DEF Reconnect, ReconnectFails, ReconnectBreaks,
         goto, cancelAndGoto, pyVars
  <2>5. CASE HandlersDone \/ Connected \/ CommandSent \/ DiscardRecv
    <3>1. pc = "asio" /\ UNCHANGED << owed, mLastCommandSource >>
      BY <2>5 DEF HandlersDone, Connected, CommandSent, DiscardRecv,
         initializeConnection, commandSent, discardRecv, pyVars, tpxVars,
         pipelineVars
    <3>2. pc' \in { "asio", "client" }
      BY <2>5, <3>1 DEF HandlersDone, Connected, CommandSent, DiscardRecv,
         goto, commsVars
    <3> QED
      BY <1>1, <1>2, <3>1, <3>2
  <2>6. CASE ConnectFails \/ ReadFails
    <3>1. pc = "asio" /\ networkError
      BY <2>6 DEF ConnectFails, ReadFails
    <3>2. owed' = NoClient /\ pc' # "reset"
      BY <3>1 DEF networkError, sendError, send, pyVars, cancelAndGoto,
         SendRefused
    <3> QED
      BY <1>1, <3>2
  <2>7. CASE CommandRecv
    <3>1. pc = "asio" /\ rx # << >> /\ rx \in Seq(Message)
      BY <2>7 DEF CommandRecv, TypeOK, TpxTypeOK
    <3>2. Head(rx).kind \in { "good", "wrongsize", "errorcode" }
      <4>1. Head(rx) \in Message /\ Head(rx) = rx[1] /\ 1 \in DOMAIN rx
        BY <3>1
      <4> QED
        BY <2>7, <4>1 DEF CommandRecv, RecognisedInv, Message, AllReplyKinds
    <3>3. CASE recvThrows(Head(rx))
      BY <1>4, <2>7, <3>3 DEF CommandRecv
    <3>4. CASE ~ recvThrows(Head(rx))
      <4>1. owed' = NoClient /\ UNCHANGED pc
        BY <2>7, <3>2, <3>4 DEF CommandRecv, replyToClient, sendResponse,
           sendError, send
      <4> QED
        BY <1>1, <3>1, <4>1
    <3> QED
      BY <3>3, <3>4
  <2>8. CASE ShortRecvThrows \/ ShortRecvReadsOn
    BY <1>4, <2>8 DEF ShortRecvThrows, ShortRecvReadsOn, cancelAndGoto,
       readPastMessage
  <2> QED
    BY <1>9, <2>1, <2>2, <2>3, <2>4, <2>5, <2>6, <2>7, <2>8 DEF TpxPoll
<1>10. CASE ClientPoll
  <2>1. CASE SkipClient
    BY <1>1, <1>2, <2>1 DEF SkipClient, goto, pyVars, tpxVars
  <2>2. CASE NoRequest
    BY <1>1, <2>2 DEF NoRequest, RecvRefused, goto, pyVars
  <2>3. CASE ReceiveRequest \/ HandleEmpty \/ HandleForThread
    BY <1>4, <2>3 DEF ReceiveRequest, HandleEmpty, HandleForThread, goto,
       cancelAndGoto, readPastMessage
  <2>4. ~ ReceiveFails /\ ~ CancelAgain
    BY DEF ReceiveFails, CancelAgain, RecvRefused, MayPollClient, SafetyInv,
       InFlightInv
  <2>5. CASE \/ HandleNotConnected \/ HandleRagged \/ HandleWrongSize
             \/ HandleBindUdpPort \/ HandleNoThread \/ ForwardResponse
             \/ HandleUnknown
    BY <1>1, <2>5 DEF HandleNotConnected, HandleRagged, HandleWrongSize,
       HandleBindUdpPort, HandleNoThread, ForwardResponse, HandleUnknown,
       sendError, sendEmptyResponse, send, goto
  <2>6. CASE HandleForTimepix
    <3>1. mIsConnected' /\ ~ mIsExecutingCommand' /\ pc' = "loop"
      BY <2>6 DEF HandleForTimepix, Handling, queueCommand, goto, SafetyInv,
         PlaceInv
    <3>2. mQueuedCommands' # << >>
      BY <2>6, SingleFacts DEF HandleForTimepix, Handling, queueCommand,
         SafetyInv, PlaceInv
    <3> QED
      BY <3>1, <3>2 DEF CanSend
  <2> QED
    BY <1>10, <2>1, <2>2, <2>3, <2>4, <2>5, <2>6 DEF ClientPoll, HandleCommand
<1>11. CASE Environment
  BY <1>3, <1>6, <1>11 DEF Environment, ClientSend, Stop, LinkEstablished,
     LinkRefused, LinkBreaks, SpidrReplies, commsVars, clientSend,
     linkEstablished, linkRefused, linkBreaks, spidrReplies, pipelineVars,
     pyVars, tpxVars, CanSend
<1>12. ASSUME NEW t \in DOMAIN threads, ThreadStep(t)  PROVE OwedInv'
  <2>1. CASE PollPastCommand(t)
    BY <1>4, <2>1 DEF PollPastCommand, readPastMessage
  <2> QED
    BY <1>3, <1>12, <2>1 DEF ThreadStep, StartThread, PollCommands,
       PollEmptyCommand, ThreadFails, ContextTerminates, ExitThread, commsVars
<1>13. CASE UNCHANGED vars
  BY <1>3, <1>13 DEF vars, commsVars
<1> QED
  BY <1>5, <1>6, <1>7, <1>8, <1>9, <1>10, <1>11, <1>12, <1>13
     DEF Next, Execute

\* Every step keeps those who wait in the socket or served.
LEMMA NoneForsakenStep ==
  ASSUME TypeOK, SafetyInv, OwedInv, NoneForsaken, [Next]_vars
  PROVE  NoneForsaken'
<1> SUFFICES ASSUME Alive'
             PROVE  \A c \in Clients : Waiting(c)' => c \in inbox' \cup {owed'}
  BY DEF NoneForsaken
<1>1. /\ Alive
      /\ \A c \in Clients : Waiting(c) => c \in inbox \cup {owed}
  BY LifeSteps DEF Alive, NoneForsaken
<1>2. CASE UNCHANGED << request, answer, inbox, owed >>
  BY <1>1, <1>2 DEF Waiting
<1>3. ~ ReceiveFails
  BY DEF ReceiveFails, RecvRefused, MayPollClient, SafetyInv, InFlightInv,
     OwedInv, Alive
<1>4. CASE Answers
  <2>1. PICK reply : send(reply)
    BY <1>4 DEF Answers
  <2>2. /\ answer \in [Clients -> SUBSET Reply] /\ owed \in Clients
        /\ answer' = [answer EXCEPT ![owed] = {reply}]
        /\ UNCHANGED << request, inbox >>
    BY <2>1 DEF send, SendRefused, TypeOK, PyTypeOK
  <2> QED
    BY <1>1, <2>2 DEF Waiting
<1>5. ASSUME NEW c \in Clients, clientSend(c)
      PROVE  \A d \in Clients : Waiting(d)' => d \in inbox' \cup {owed'}
  BY <1>1, <1>5 DEF clientSend, Waiting, TypeOK, PyTypeOK
<1>6. CASE ReceiveRequest
  <2>1. PICK c \in Clients : recv(c)
    BY <1>6 DEF ReceiveRequest
  <2>2. /\ owed = NoClient /\ owed \notin Clients
        /\ inbox' = inbox \ {c} /\ owed' = c
        /\ UNCHANGED << request, answer >>
    BY <2>1, ClientsAssumption DEF recv, RecvRefused, clientVars
  <2> QED
    BY <1>1, <2>2 DEF Waiting
<1>7. SocketStep
  BY StepIsSocketStep
<1> QED
  BY <1>1, <1>2, <1>3, <1>4, <1>5, <1>6, <1>7 DEF SocketStep

\* While the board replies with commands of HANDLER_MAP only, the server loses
\* no request while it runs: whoever is without an answer still waits in the
\* client socket or is being served.
THEOREM RequestsKept ==
  ASSUME KnownReplies  PROVE Spec => []NoneForsaken
<1>1. Init => RecognisedInv /\ OwedInv /\ NoneForsaken
  BY DEF Init, PyInit, TpxInit, RecognisedInv, OwedInv, NoneForsaken, Waiting
<1>2. TypeOK /\ SafetyInv /\ RecognisedInv /\ OwedInv /\ NoneForsaken
        /\ [Next]_vars
        => RecognisedInv' /\ OwedInv' /\ NoneForsaken'
  BY RecognisedStep, OwedStep, NoneForsakenStep
<1> QED
  BY <1>1, <1>2, Invariance, PTL DEF Spec

(***************************************************************************)
(* The life of the communication thread, as the window sees it.            *)
(***************************************************************************)

\* What LifeState is.
LEMMA LifeStates ==
  /\ Alive => LifeState = "running"
  /\ pc = "done" => LifeState = "done"
  /\ pc \in { "deleted", "crashed" } => LifeState = "deleted"
<1>1. Alive => LifeState = "running"
  <2>1. Alive => pc # "done"
    BY DEF Alive
  <2> QED
    BY <2>1 DEF LifeState
<1>2. pc = "done" => LifeState = "done"
  <2>1. pc = "done" => ~ Alive
    BY DEF Alive
  <2> QED
    BY <2>1 DEF LifeState
<1>3. pc \in { "deleted", "crashed" } => LifeState = "deleted"
  <2>1. pc \in { "deleted", "crashed" } => ~ Alive /\ pc # "done"
    BY DEF Alive
  <2> QED
    BY <2>1 DEF LifeState
<1> QED
  BY <1>1, <1>2, <1>3

\* The steps of the communication thread are those of a BgThread: cancelled
\* for good, returning once, deleted after that.  This is the safety part of
\* LifeCycle.
THEOREM LifeSafety == Spec => Life!Init /\ [][Life!Next]_(Life!vars)
<1>1. Init => Life!Init
  <2>1. Init => Alive /\ mShouldCancel = FALSE
    BY DEF Init, Alive
  <2> QED
    BY <2>1, LifeStates DEF Life!Init
<1>2. ASSUME TypeOK, [Next]_vars  PROVE [Life!Next]_(Life!vars)
  <2>1. CASE UNCHANGED << pc, mShouldCancel >>
    BY <2>1 DEF Life!vars, LifeState, Alive
  <2>2. CASE Alive /\ Alive' /\ mShouldCancel' \in { TRUE, mShouldCancel }
    <3>1. LifeState = "running" /\ LifeState' = "running"
      BY <2>2, LifeStates DEF LifeState, Alive
    <3> QED
      BY <2>2, <3>1 DEF Life!Next, Life!cancel, Life!vars
  <2>3. CASE Alive /\ pc' = "done" /\ UNCHANGED mShouldCancel
    <3>1. LifeState = "running" /\ LifeState' = "done"
      BY <2>3, LifeStates DEF LifeState, Alive
    <3> QED
      BY <2>3, <3>1 DEF Life!Next, Life!run
  <2>4. CASE pc = "done" /\ pc' = "deleted" /\ UNCHANGED mShouldCancel
    <3>1. LifeState = "done" /\ LifeState' = "deleted"
      BY <2>4, LifeStates DEF LifeState, Alive
    <3> QED
      BY <2>4, <3>1 DEF Life!Next, Life!delete
  <2>5. CASE Alive /\ pc' = "crashed" /\ UNCHANGED mShouldCancel
    <3>1. LifeState = "running" /\ LifeState' = "deleted"
      BY <2>5, LifeStates DEF LifeState, Alive
    <3> QED
      BY <2>5, <3>1 DEF Life!Next, Life!terminate
  <2> QED
    BY <1>2, <2>1, <2>2, <2>3, <2>4, <2>5, LifeSteps
<1> QED
  BY <1>1, <1>2, TypeCorrect, PTL DEF Spec

============================================================================
