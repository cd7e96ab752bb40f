---------------------------- MODULE SpidrServer ----------------------------
(***************************************************************************)
(* The bytes between the server and the board: the messages sendCommand    *)
(* builds and commandRecv takes apart (TimepixConnectionManager.cpp), and  *)
(* the board the repository tests them with, SpidrServer of                *)
(* test/DummySpidr.cpp.  TimepixConnectionManager.tla abstracts a reply to *)
(* what commandRecv decides; here the decision is made from the words.     *)
(*                                                                         *)
(* TCP is a stream of words.  A read takes what has arrived, which need    *)
(* not be a whole message (split); cuts inside a word are left out, the    *)
(* checks for a multiple of four reject them like any other short message. *)
(***************************************************************************)
EXTENDS Integers, Sequences

CONSTANTS
    Commands,      \* the commands clients use
    DataWords,     \* the words clients send as data
    Cuts,          \* bound: where a message may be cut, in words
    MaxCommands    \* bound: commands in a behaviour

CMD_REPLY == 65536

\* The commands of TpxCommand the test board knows, and CMD_NOP, which it
\* does not: code, data words the server sends with it (COMMAND_MAP), data
\* words the server wants in the reply (HANDLER_MAP).
Entry(code, request, reply) == [code |-> code, request |-> request, reply |-> reply]
TpxCommand ==
    [CMD_NOP |-> Entry(0, 0, 1),
     CMD_GET_SOFTWVERSION |-> Entry(2305, 0, 1),
     CMD_GET_FIRMWVERSION |-> Entry(2306, 0, 1),
     CMD_GET_CHIPBOARDID |-> Entry(2319, 0, 1),
     CMD_GET_DEVICEIDS |-> Entry(273, 0, 4),
     CMD_GET_REMOTETEMP |-> Entry(1353, 0, 1),
     CMD_GET_LOCALTEMP |-> Entry(1354, 0, 1),
     CMD_GET_FPGATEMP |-> Entry(1384, 0, 1),
     CMD_GET_FANSPEED |-> Entry(1385, 0, 1),
     CMD_GET_PRESSURE |-> Entry(1391, 0, 1),
     CMD_GET_HUMIDITY |-> Entry(1390, 0, 1),
     CMD_GET_SPIDR_ADC |-> Entry(1358, 1, 1),
     CMD_SET_BIAS_ADJUST |-> Entry(1376, 1, 1)]

ASSUME CommandsAssumption == Commands \subseteq DOMAIN TpxCommand
ASSUME SpidrAssumption ==
    /\ DataWords \subseteq Nat /\ Cuts \subseteq Nat
    /\ MaxCommands \in Nat

VARIABLES
    mIsExecutingCommand,
    command,        \* the command in execution
    op,             \* the server's pending operation: "none", "send", "read"
    answer,         \* what the client got for the last command
    wrapped,        \* num_bytes - 16 has wrapped below zero
    toBoard, toServer,  \* the two directions of the stream
    connected,
    split,          \* whether messages may arrive in parts in this behaviour
    reads, sends,   \* the board's pending async_read_some and async_send
    mBiasVoltage,   \* the word it was set with
    replied,        \* history: the data of the board's last reply
    count           \* history: commands so far

serverVars == <<mIsExecutingCommand, command, op, answer, wrapped, count>>
boardVars == <<reads, sends, mBiasVoltage, replied>>
vars == <<serverVars, boardVars, toBoard, toServer, connected, split>>

Unanswered == [kind |-> "none", data |-> << >>]
Answers == {"none", "data", "INVALID_COMMAND_DATA"}

\* The lengths, in words, a read may return.
Available(stream) ==
    {k \in 1 .. Len(stream) : k = Len(stream) \/ (split /\ k \in Cuts)}

From(stream, k) == SubSeq(stream, k + 1, Len(stream))

\* A message of four header words and the data, which are padded to one word.
Padded(data) == IF data = << >> THEN <<0>> ELSE data
Bytes(n) == 4 * n

-----------------------------------------------------------------------------
(* TimepixConnectionManager                                                *)

\* Mutant of CommandMessage: the message is not padded.
CommandMessageBare(code, data) ==
    <<code, Bytes(4 + Len(data)), 0, 0>> \o data

CommandMessage(code, data) ==
    <<code, Bytes(4 + Len(Padded(data))), 0, 0>> \o Padded(data)

\* A client's request, the end of the last command behind it, and poll().
SendCommand(c, data) ==
    /\ connected /\ ~mIsExecutingCommand /\ count < MaxCommands
    /\ toBoard' = toBoard \o CommandMessage(TpxCommand[c].code, data)
    /\ mIsExecutingCommand' = TRUE /\ command' = c /\ op' = "send"
    /\ answer' = Unanswered
    /\ count' = count + 1
    /\ UNCHANGED <<wrapped, boardVars, toServer, connected>>

CommandSent ==
    /\ connected /\ op = "send"
    /\ op' = "read"
    /\ UNCHANGED <<mIsExecutingCommand, command, answer, wrapped, count, boardVars,
                   toBoard, toServer, connected>>

\* Mutants of the checks of commandRecv: the REPLY bit is not looked at; the
\* length in the header is not compared with what has arrived.
HasReplyBitAlways(m) == TRUE
ArrivedAlways(m) == TRUE

HasReplyBit(m) == (m[1] \div CMD_REPLY) % 2 = 1
Arrived(m) == Bytes(Len(m)) >= m[2]

\* The checks after which commandRecv goes on.  An error code in m[3] is only
\* logged.
Accepted(m) == Len(m) >= 5 /\ HasReplyBit(m) /\ m[4] = 0 /\ Arrived(m)

\* The words the loop of commandRecv reads; the buffer holds old bytes behind
\* the message, here -1.
DataSize(m) == (m[2] - 16) \div 4
Data(m) == [i \in 1 .. DataSize(m) |-> IF 4 + i <= Len(m) THEN m[4 + i] ELSE -1]

\* HANDLER_MAP, by the code in the reply.
Named(m) == {c \in DOMAIN TpxCommand : TpxCommand[c].code = m[1] - CMD_REPLY}

\* genericHandler; a reply HANDLER_MAP lacks is not passed on.
Handle(m) ==
    IF Named(m) = {} THEN Unanswered
    ELSE IF \E c \in Named(m) : Len(Data(m)) = TpxCommand[c].reply
         THEN [kind |-> "data", data |-> Data(m)]
         ELSE [kind |-> "INVALID_COMMAND_DATA", data |-> << >>]

CommandRecv(k) ==
    /\ connected /\ op = "read"
    /\ k \in Available(toServer)
    /\ op' = "none"
    /\ toServer' = From(toServer, k)
    /\ LET m == SubSeq(toServer, 1, k)
       IN  \/ /\ ~Accepted(m)
              /\ UNCHANGED <<mIsExecutingCommand, answer, wrapped>>
           \/ /\ Accepted(m) /\ m[2] < 16
              /\ wrapped' = TRUE
              /\ UNCHANGED <<mIsExecutingCommand, answer>>
           \/ /\ Accepted(m) /\ m[2] >= 16
              /\ answer' = Handle(m)
              /\ mIsExecutingCommand' = FALSE
              /\ UNCHANGED wrapped
    /\ UNCHANGED <<command, count, boardVars, toBoard, connected>>

-----------------------------------------------------------------------------
(* The test board                                                          *)

\* getBiasVoltageHandler: the ADC code of mBiasVoltage, which is
\* w * (104 - 12) / 4095 + 12 volts for the word w.
AdcCode(w) == (((92 * w + 49140) * 8192 - 819 * 4095) \div (819 * 1500)) % 4096

\* The command a handler names in its reply, and its data.
RepliedCode(c) ==
    IF c = "CMD_GET_CHIPBOARDID" THEN TpxCommand["CMD_GET_FIRMWVERSION"].code
    ELSE TpxCommand[c].code
ChipboardId == 16842754
NoDevice == 2147483647
RepliedData(c, w) ==
    CASE c \in {"CMD_GET_SOFTWVERSION", "CMD_GET_FIRMWVERSION"} -> <<1>>
      [] c = "CMD_GET_CHIPBOARDID" -> <<ChipboardId>>
      [] c = "CMD_GET_DEVICEIDS" -> <<1, NoDevice, NoDevice, NoDevice>>
      [] c = "CMD_GET_SPIDR_ADC" -> <<AdcCode(mBiasVoltage)>>
      [] c = "CMD_SET_BIAS_ADJUST" -> <<w>>
      [] OTHER -> <<0>>

Handlers == DOMAIN TpxCommand \ {"CMD_NOP"}

\* The commands a message is understood as: its handler wants one data word.
Understood(m) ==
    {c \in Handlers : /\ Len(m) >= 5
                      /\ m[3] = 0 /\ m[4] = 0
                      /\ m[2] = Bytes(Len(m))
                      /\ m[1] = TpxCommand[c].code
                      /\ (m[2] - 16) \div 4 = 1}

ReplyMessage(code, data) ==
    <<code + CMD_REPLY, Bytes(4 + Len(Padded(data))), 0, 0>> \o Padded(data)

\* sendTcpError: whatever goes wrong, twenty zero bytes.
ErrorMessage == <<0, 0, 0, 0, 0>>

(***************************************************************************)
(* readTcp and handleTcpCommand.  After an error one read follows when the *)
(* answer has been sent; after a success another one is started at once,   *)
(* so that reads pile up.  The answer is on its way from here on: the next *)
(* command follows it, so mTcpSendBuffer is not written before it is sent. *)
(***************************************************************************)
ReadTcp(k) ==
    /\ connected /\ reads > 0
    /\ k \in Available(toBoard)
    /\ toBoard' = From(toBoard, k)
    /\ sends' = sends + 1
    /\ LET m == SubSeq(toBoard, 1, k)
       IN  \/ /\ Understood(m) = {}
              /\ toServer' = toServer \o ErrorMessage
              /\ reads' = reads - 1
              /\ UNCHANGED <<mBiasVoltage, replied>>
           \/ \E c \in Understood(m) :
                 /\ replied' = RepliedData(c, m[5])
                 /\ toServer' = toServer \o ReplyMessage(RepliedCode(c), replied')
                 /\ mBiasVoltage' = IF c = "CMD_SET_BIAS_ADJUST" THEN m[5]
                                    ELSE mBiasVoltage
                 /\ UNCHANGED reads
    /\ UNCHANGED <<serverVars, connected>>

\* An async_send has completed, in whatever way: waitForTcpCommand.
SendDone ==
    /\ sends > 0
    /\ sends' = sends - 1
    /\ reads' = reads + 1
    /\ UNCHANGED <<serverVars, mBiasVoltage, replied, toBoard, toServer, connected>>

\* The connection is closed; the reads of the board end with no bytes.
Disconnect ==
    /\ connected
    /\ connected' = FALSE
    /\ toBoard' = << >> /\ toServer' = << >>
    /\ UNCHANGED <<serverVars, boardVars, split>>

\* Mutant of GhostRead: reads are not counted.
GhostReadAny ==
    /\ ~connected
    /\ reads' = reads - 1
    /\ UNCHANGED <<serverVars, sends, mBiasVoltage, replied, toBoard, toServer,
                   connected>>

\* readTcp returns at once.
GhostRead ==
    /\ ~connected /\ reads > 0
    /\ reads' = reads - 1
    /\ UNCHANGED <<serverVars, sends, mBiasVoltage, replied, toBoard, toServer,
                   connected>>

-----------------------------------------------------------------------------
\* The connection has just been accepted and acceptTcp has been called.
Init ==
    /\ mIsExecutingCommand = FALSE /\ command = "CMD_NOP" /\ op = "none"
    /\ answer = Unanswered /\ wrapped = FALSE /\ count = 0
    /\ toBoard = << >> /\ toServer = << >> /\ connected = TRUE
    /\ reads = 1 /\ sends = 0 /\ mBiasVoltage = 0 /\ replied = << >>
    /\ split \in BOOLEAN

Server ==
    /\ CommandSent \/ \E k \in 1 .. Len(toServer) : CommandRecv(k)
    /\ UNCHANGED split
Board ==
    /\ SendDone \/ GhostRead \/ \E k \in 1 .. Len(toBoard) : ReadTcp(k)
    /\ UNCHANGED split
Client ==
    /\ \E c \in Commands : \E data \in [1 .. TpxCommand[c].request -> DataWords] :
          SendCommand(c, data)
    /\ UNCHANGED split

Next == Server \/ Board \/ Client \/ Disconnect

Spec == Init /\ [][Next]_vars

\* Both programs poll asio in an endless loop, and the network delivers.
FairSpec == Spec /\ WF_vars(Server) /\ WF_vars(Board)

-----------------------------------------------------------------------------
(* Properties                                                              *)

TypeOK ==
    /\ mIsExecutingCommand \in BOOLEAN /\ command \in DOMAIN TpxCommand
    /\ op \in {"none", "send", "read"}
    /\ answer \in [kind : Answers, data : Seq(Int)]
    /\ wrapped \in BOOLEAN /\ connected \in BOOLEAN /\ split \in BOOLEAN
    /\ toBoard \in Seq(Nat) /\ toServer \in Seq(Nat)
    /\ reads \in Nat /\ sends \in Nat
    /\ mBiasVoltage \in Nat /\ replied \in Seq(Nat) /\ count \in 0 .. MaxCommands

\* However the stream is cut, data that reach the client are the data the
\* board replied with, whole and not mixed with bytes that were left in the
\* buffer.
ReplyIntact == answer.kind = "data" => answer.data = replied

\* The data size commandRecv computes never wraps: a message too short to have
\* data, such as the board's error message, is rejected before.
NoWrap == ~wrapped

\* Every command the board knows is answered with data when messages are not
\* cut, or the connection is lost.
CommandsAnswered ==
    mIsExecutingCommand /\ command \in Handlers /\ ~split
        ~> (answer.kind = "data" \/ ~connected)

-----------------------------------------------------------------------------
(* The inductive invariant that ReplyIntact and NoWrap follow from.        *)

\* Between two commands nothing is on its way in either direction.
QuietInv ==
    /\ ~mIsExecutingCommand => op = "none" /\ toBoard = << >> /\ toServer = << >>
    /\ mIsExecutingCommand => answer = Unanswered

\* What the streams hold until the server has read its answer: the command,
\* not yet touched; the whole reply; or, when the board has read a part of the
\* command or a command it does not know, zeros, and at most the end of it.
Untouched == Len(toBoard) = 5 /\ toServer = << >>
Answered ==
    /\ toBoard = << >> /\ replied # << >>
    /\ \E c \in Handlers : toServer = ReplyMessage(RepliedCode(c), replied)
Failed ==
    /\ Len(toBoard) < 5 /\ toServer # << >>
    /\ \A i \in 1 .. Len(toServer) : toServer[i] = 0

ExchangeInv == connected /\ op # "none" => Untouched \/ Answered \/ Failed

SpidrInv == TypeOK /\ QuietInv /\ ExchangeInv /\ ReplyIntact /\ NoWrap

============================================================================
