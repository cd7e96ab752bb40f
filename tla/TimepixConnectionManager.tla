---------------------- MODULE TimepixConnectionManager ---------------------
(***************************************************************************)
(* The connection to the SPIDR readout board: the queue of commands, the   *)
(* asynchronous socket operations of asio, and the TCP link itself.        *)
(*                                                                         *)
(* Every definition below is the part of a step that falls to this         *)
(* component; CommsThread joins them to the parts of the others.           *)
(***************************************************************************)
EXTENDS Naturals, Sequences, ServerCodes

CONSTANT ReplyKinds  \* the kinds of reply the board may send

(***************************************************************************)
(* "good": a command of HANDLER_MAP with the data size its handler wants   *)
(* (which command it names is never compared with the one sent);           *)
(* "wrongsize": such a command with another data size; "unrecognised": a   *)
(* command HANDLER_MAP lacks; "malformed": whatever commandRecv returns    *)
(* from early (fewer than 20 bytes, a ragged byte count, no REPLY bit, a   *)
(* chip number, fewer bytes than the header promises); "short": a header   *)
(* that passes but promises less than its own 16 bytes; "errorcode": a     *)
(* good reply whose error code lies beyond the tables of error messages    *)
(* (codes like that in replies of the other kinds are left out).           *)
(***************************************************************************)
AllReplyKinds == { "good", "wrongsize", "unrecognised", "malformed", "short",
                   "errorcode" }

ASSUME ReplyKindsAssumption == ReplyKinds \subseteq AllReplyKinds

VARIABLES
  mIsConnected,
  mIsExecutingCommand,
  mLastCommandSource, \* the manager that waits for the reply (0: nullptr)
  mQueuedCommands,    \* deque of commands; data is the id of the request
  op,    \* the asynchronous operation pending in mAsioIO
  link,  \* the TCP connection
  tx,    \* commands on their way to the board
  rx     \* bytes on their way from the board

tpxVars == << mIsConnected, mIsExecutingCommand, mLastCommandSource,
              mQueuedCommands, op, link, tx, rx >>

TimepixCommandInfo == [command : TpxForwardCommands, data : Nat, sender : Nat]
Message == [kind : AllReplyKinds, data : SUBSET Nat]

\* Bytes left over from before the connection was made; as a reply they would
\* be taken for the answer to a command they do not answer.
Stale == [kind |-> "good", data |-> {0}]
AvailableAtConnect == { << >>, << Stale >> }

TpxTypeOK ==
  /\ mIsConnected \in BOOLEAN
  /\ mIsExecutingCommand \in BOOLEAN
  /\ mLastCommandSource \in Nat
  /\ mQueuedCommands \in Seq(TimepixCommandInfo)
  /\ op \in { "none", "connect", "send", "read" }
  /\ link \in { "closed", "connecting", "open", "refused", "broken" }
  /\ tx \in Seq(TimepixCommandInfo)
  /\ rx \in Seq(Message)

TpxInit ==
  /\ mIsConnected = FALSE
  /\ mIsExecutingCommand = FALSE
  /\ mLastCommandSource = 0
  /\ mQueuedCommands = << >>
  /\ op = "none"
  /\ link = "closed"
  /\ tx = << >>
  /\ rx = << >>

pipelineVars == << mIsExecutingCommand, mLastCommandSource, mQueuedCommands >>

(***************************************************************************)
(* Connecting.                                                             *)
(***************************************************************************)

\* attemptConnection without wait: async_connect is under way.
startConnecting ==
  /\ link' = "connecting"
  /\ op' = "connect"
  /\ UNCHANGED << mIsConnected, pipelineVars, tx, rx >>

\* Mutant of Drain: connecting leaves what is already there unread.
DrainNothing(bytes) == bytes

\* The loop of initializeConnection reads and discards what is already there.
Drain(bytes) == << >>

\* initializeConnection without an error, when the socket holds these bytes.
initializeConnection(bytes) ==
  /\ mIsConnected' = TRUE
  /\ mIsExecutingCommand' = FALSE
  /\ rx' = Drain(bytes)
  /\ op' = "none"
  /\ UNCHANGED << mLastCommandSource, mQueuedCommands, tx >>

\* terminateConnection.  A shutdown() that throws leaves the socket object
\* behind, but nothing polls it again before it is destroyed.
terminateConnection ==
  /\ mIsConnected' = FALSE
  /\ op' = "none"
  /\ link' = "closed"
  /\ tx' = << >>
  /\ rx' = << >>

(***************************************************************************)
(* Commands.                                                               *)
(***************************************************************************)

queueCommand(info) ==
  /\ mQueuedCommands' = Append(mQueuedCommands, info)
  /\ UNCHANGED << mIsConnected, mIsExecutingCommand, mLastCommandSource, op,
                  link, tx, rx >>

CanSend ==
  mIsConnected /\ ~ mIsExecutingCommand /\ mQueuedCommands # << >>

\* Mutant of sendCommand: the source of the command is not recorded.
sendCommandForgetsSource ==
  /\ mIsExecutingCommand' = TRUE
  /\ op' = "send"
  /\ tx' = IF link = "open" THEN Append(tx, Head(mQueuedCommands)) ELSE tx
  /\ UNCHANGED << mIsConnected, mLastCommandSource, mQueuedCommands, link, rx >>

\* The head of poll() for every command but RESET_MODULE.  The command stays
\* at the front of the queue until it is answered.
sendCommand ==
  /\ mIsExecutingCommand' = TRUE
  /\ mLastCommandSource' = Head(mQueuedCommands).sender
  /\ op' = "send"
  /\ tx' = IF link = "open" THEN Append(tx, Head(mQueuedCommands)) ELSE tx
  /\ UNCHANGED << mIsConnected, mQueuedCommands, link, rx >>

\* A pending operation whose handler poll() would run now.  A send completes
\* at once; its error code is ignored.
ConnectReady == op = "connect" /\ link \in { "open", "refused", "broken" }
SendReady == op = "send"
ReadReady == op = "read" /\ (rx # << >> \/ link = "broken")
HandlerReady == ConnectReady \/ SendReady \/ ReadReady

commandSent ==
  /\ op' = "read"
  /\ UNCHANGED << mIsConnected, pipelineVars, link, tx, rx >>

\* commandRecv with a message it returns from early, or throws at: the command
\* stays in execution and no read is pending.
discardRecv ==
  /\ op' = "none"
  /\ rx' = Tail(rx)
  /\ UNCHANGED << mIsConnected, pipelineVars, link, tx >>

\* Mutant of processRecv: the command is not taken off the queue.
processRecvKeepsCommand ==
  /\ op' = "none"
  /\ rx' = Tail(rx)
  /\ mIsExecutingCommand' = FALSE
  /\ mLastCommandSource' = 0
  /\ UNCHANGED << mIsConnected, mQueuedCommands, link, tx >>

\* Mutant of processRecv: the command still counts as being executed.
processRecvStaysBusy ==
  /\ op' = "none"
  /\ rx' = Tail(rx)
  /\ mQueuedCommands' = Tail(mQueuedCommands)
  /\ mLastCommandSource' = 0
  /\ UNCHANGED << mIsConnected, mIsExecutingCommand, link, tx >>

\* commandRecv and processRecv with a message that is taken for the reply.
processRecv ==
  /\ op' = "none"
  /\ rx' = Tail(rx)
  /\ mQueuedCommands' = Tail(mQueuedCommands)
  /\ mIsExecutingCommand' = FALSE
  /\ mLastCommandSource' = 0
  /\ UNCHANGED << mIsConnected, link, tx >>

(***************************************************************************)
(* The board and the network.                                              *)
(***************************************************************************)

linkEstablished ==
  /\ link = "connecting"
  /\ link' = "open"
  /\ rx' \in AvailableAtConnect
  /\ UNCHANGED << mIsConnected, pipelineVars, op, tx >>

linkRefused ==
  /\ link = "connecting"
  /\ link' = "refused"
  /\ UNCHANGED << mIsConnected, pipelineVars, op, tx, rx >>

\* A broken connection loses the commands that were on their way; what has
\* arrived from the board may still be read.
linkBreaks ==
  /\ link = "open"
  /\ link' = "broken"
  /\ tx' = << >>
  /\ UNCHANGED << mIsConnected, pipelineVars, op, rx >>

spidrReplies ==
  /\ tx # << >>
  /\ \E kind \in ReplyKinds :
       rx' = Append(rx, [kind |-> kind, data |-> { Head(tx).data }])
  /\ tx' = Tail(tx)
  /\ UNCHANGED << mIsConnected, pipelineVars, op, link >>

============================================================================
