------------------------- MODULE HistogramManager --------------------------
(***************************************************************************)
(* The histogram thread (HistogramThread.cpp) and its manager              *)
(* (HistogramManager.cpp).  The thread subscribes to a server of pixel     *)
(* packets, counts the packets of each pixel in 16-bit bins, and publishes *)
(* the bins and clears them with the first message that is handled when    *)
(* the output period is over.                                              *)
(*                                                                         *)
(* The loop of execute() takes one command and one message per turn.       *)
(* Around it run the servers it may subscribe to, the communication thread *)
(* that sends the commands, cancels the thread and in the end terminates   *)
(* the ZeroMQ context, and the clock.                                      *)
(***************************************************************************)
EXTENDS Integers, Sequences

CONSTANTS
    Pixels,         \* the pixels that are hit
    Servers,        \* the servers of packets that can be connected to
    BinMod,         \* a bin counts modulo this: 2^16
    IntMod,         \* the number of values of an int: 2^32
    Words,          \* the periods, in ms, that clients ask for
    DefaultPeriod,  \* the period the manager starts with
    MaxPackets,     \* bound: packets of a pixel in a message
    MaxQueue,       \* bound: messages that wait in the input socket
    MaxElapsed      \* bound: time since the last frame, kept up to this

\* int period = data[0]
AsInt(w) == IF 2 * w < IntMod THEN w ELSE w - IntMod

NotServers == {"none", "dead"}   \* no socket; a socket that did not connect

ASSUME BinAssumption == BinMod \in Nat /\ BinMod > 1
ASSUME PeriodAssumption ==
    /\ IntMod \in Nat /\ MaxElapsed \in Nat
    /\ Words \subseteq 0 .. IntMod - 1
    /\ DefaultPeriod \in 0 .. MaxElapsed
    /\ \A w \in Words : AsInt(w) <= MaxElapsed
ASSUME ServersAssumption == Servers \cap NotServers = {}
ASSUME HistogramBoundsAssumption == MaxPackets \in Nat /\ MaxQueue \in Nat

VARIABLES
    mHistogram, mOutputPeriod,
    elapsed,        \* now - mLastOutputTime
    mInputSocket,   \* "none", "dead", or the server it is connected to
    queue,          \* the messages that wait in it
    msg,            \* the packets of the message that are still to be counted
    request,        \* the last command that was sent
    response,       \* the answer to it; "pending" while it waits
    pc,             \* the place in execute()
    mShouldCancel,
    terminated,     \* the ZeroMQ context has been terminated
    hits,           \* history: packets received since the last frame
    frame           \* history: the last frame, with the packets it stands for

inputVars == <<mInputSocket, queue>>
binVars == <<mHistogram, hits, frame>>
commandVars == <<request, response>>
lifeVars == <<mShouldCancel, terminated>>
vars == <<binVars, inputVars, mOutputPeriod, elapsed, msg, commandVars, pc, lifeVars>>

Counts == [Pixels -> 0 .. MaxPackets]
NoPackets == [p \in Pixels |-> 0]
Commands == {"GET_HISTOGRAM_SERVER_PATH", "SET_HISTOGRAM_INPUT_SERVER",
             "SET_HISTOGRAM_OUTPUT_PERIOD"}

\* A command, the number of words of its data, and the data as its handler
\* reads them: a server (or an empty path, "none", or a wrong one, "dead"), or
\* the first word.
Request(code, size, server, word) ==
    [code |-> code, size |-> size, server |-> server, word |-> word]
Requests ==
    {Request("GET_HISTOGRAM_SERVER_PATH", n, "none", 0) : n \in {0, 1}}
    \cup {Request("SET_HISTOGRAM_INPUT_SERVER", 1, s, 0) : s \in Servers \cup NotServers}
    \cup {Request("SET_HISTOGRAM_OUTPUT_PERIOD", n, "none", w) :
             n \in {0, 1}, w \in Words}

-----------------------------------------------------------------------------
(* HistogramThread: the commands                                           *)

\* The old socket is closed and loses what it holds.  A connection that fails
\* leaves a socket that receives nothing, and is not reported.
SetInputServerAddress(s) ==
    /\ mInputSocket' = s
    /\ queue' = << >>

\* The handlers, by what they change and answer.
SendHistogramServerPath ==
    /\ response' = IF request.size = 0 THEN request.code ELSE "INVALID_COMMAND_DATA"
    /\ UNCHANGED <<mOutputPeriod, inputVars>>

SetHistogramInputServer ==
    /\ \E s \in {"dead"} \cup (Servers \cap {request.server}) :
          SetInputServerAddress(IF request.server = "none" THEN "none" ELSE s)
    /\ response' = request.code
    /\ UNCHANGED mOutputPeriod

SetHistogramOutputPeriod ==
    /\ IF request.size = 1
       THEN mOutputPeriod' = AsInt(request.word) /\ response' = request.code
       ELSE response' = "INVALID_COMMAND_DATA" /\ UNCHANGED mOutputPeriod
    /\ UNCHANGED inputVars

HandleCommand ==
    CASE request.code = "GET_HISTOGRAM_SERVER_PATH" -> SendHistogramServerPath
      [] request.code = "SET_HISTOGRAM_INPUT_SERVER" -> SetHistogramInputServer
      [] request.code = "SET_HISTOGRAM_OUTPUT_PERIOD" -> SetHistogramOutputPeriod

Waiting == response = "pending"

\* Mutants of PollCommands: commands are looked at when there are no data; an
\* exception does not end the thread.
PollCommandsLater ==
    /\ pc = "commands" /\ ~mShouldCancel
    /\ pc' = "poll"
    /\ IF Waiting /\ queue = << >> /\ ~terminated
       THEN HandleCommand
       ELSE UNCHANGED <<response, mOutputPeriod, inputVars>>
    /\ mShouldCancel' = terminated
    /\ UNCHANGED <<binVars, elapsed, msg, request, terminated>>
PollCommandsGoesOn ==
    /\ pc = "commands" /\ ~mShouldCancel
    /\ pc' = "poll"
    /\ IF Waiting /\ ~terminated
       THEN HandleCommand
       ELSE UNCHANGED <<response, mOutputPeriod, inputVars>>
    /\ UNCHANGED <<binVars, elapsed, msg, request, lifeVars>>

\* while(!shouldCancel()), pollCommands(): the receive throws when the context
\* is terminated, and the thread cancels itself.
PollCommands ==
    /\ pc = "commands" /\ ~mShouldCancel
    /\ pc' = "poll"
    /\ \/ /\ Waiting /\ ~terminated
          /\ HandleCommand
          /\ UNCHANGED <<request, lifeVars>>
       \/ /\ ~Waiting /\ ~terminated
          /\ UNCHANGED <<commandVars, mOutputPeriod, inputVars, lifeVars>>
       \/ /\ terminated
          /\ mShouldCancel' = TRUE
          /\ UNCHANGED <<commandVars, mOutputPeriod, inputVars, terminated>>
    /\ UNCHANGED <<binVars, elapsed, msg>>

\* The loop ends; the packets counted since the last frame are lost.
EndLoop ==
    /\ pc = "commands" /\ mShouldCancel
    /\ pc' = "done"
    /\ UNCHANGED <<binVars, inputVars, mOutputPeriod, elapsed, msg, commandVars,
                   lifeVars>>

-----------------------------------------------------------------------------
(* HistogramManager: poll()                                                *)

AtMost(n, m) == IF n <= m THEN n ELSE m

\* A message is received, if there is one; one without packets is ignored.
Poll ==
    /\ pc = "poll"
    /\ \/ /\ queue = << >> \/ terminated
          /\ pc' = "commands"
          /\ UNCHANGED <<queue, msg, hits>>
       \/ /\ queue # << >> /\ ~terminated
          /\ queue' = Tail(queue)
          /\ msg' = Head(queue).packets
          /\ hits' = [p \in Pixels |-> AtMost(hits[p] + msg'[p], BinMod)]
          /\ pc' = IF msg' = NoPackets THEN "commands" ELSE "handle"
    /\ UNCHANGED <<mHistogram, frame, mInputSocket, mOutputPeriod, elapsed,
                   commandVars, lifeVars>>

\* ++ of a bin
Increment(n) == IF n + 1 = BinMod THEN 0 ELSE n + 1

\* One iteration of the loop of handlePackets.
HandlePacket(p) ==
    /\ pc = "handle" /\ msg[p] > 0
    /\ mHistogram' = [mHistogram EXCEPT ![p] = Increment(@)]
    /\ msg' = [msg EXCEPT ![p] = @ - 1]
    /\ UNCHANGED <<hits, frame, inputVars, mOutputPeriod, elapsed, commandVars, pc,
                   lifeVars>>

\* Mutants of Output: the bins are not cleared; the time of every message is
\* taken for that of a frame.
OutputKeepsBins ==
    /\ pc = "handle" /\ msg = NoPackets
    /\ pc' = "commands"
    /\ IF elapsed >= mOutputPeriod /\ ~terminated
       THEN /\ frame' = [bins |-> mHistogram, hits |-> hits]
            /\ hits' = NoPackets /\ elapsed' = 0
       ELSE UNCHANGED <<frame, hits, elapsed>>
    /\ UNCHANGED <<mHistogram, inputVars, mOutputPeriod, msg, commandVars, lifeVars>>
OutputRestarts ==
    /\ pc = "handle" /\ msg = NoPackets
    /\ pc' = "commands"
    /\ elapsed' = 0
    /\ IF elapsed >= mOutputPeriod /\ ~terminated
       THEN /\ frame' = [bins |-> mHistogram, hits |-> hits]
            /\ hits' = NoPackets /\ mHistogram' = NoPackets
       ELSE UNCHANGED binVars
    /\ UNCHANGED <<inputVars, mOutputPeriod, msg, commandVars, lifeVars>>

\* The end of poll(): a frame is published when the period is over.  When the
\* context is terminated the send throws, and the bins are kept.
Output ==
    /\ pc = "handle" /\ msg = NoPackets
    /\ pc' = "commands"
    /\ \/ /\ elapsed >= mOutputPeriod /\ ~terminated
          /\ frame' = [bins |-> mHistogram, hits |-> hits]
          /\ mHistogram' = NoPackets /\ hits' = NoPackets
          /\ elapsed' = 0
       \/ /\ elapsed < mOutputPeriod \/ terminated
          /\ UNCHANGED <<binVars, elapsed>>
    /\ UNCHANGED <<inputVars, mOutputPeriod, msg, commandVars, lifeVars>>

-----------------------------------------------------------------------------
(* The other threads                                                       *)

\* A server publishes.  Without a subscriber, or when the subscriber's queue
\* is full, the message is dropped, which changes nothing here.
Publish(s, m) ==
    /\ mInputSocket = s /\ ~terminated
    /\ Len(queue) < MaxQueue
    /\ queue' = Append(queue, [from |-> s, packets |-> m])
    /\ UNCHANGED <<binVars, mInputSocket, mOutputPeriod, elapsed, msg, commandVars,
                   pc, lifeVars>>

\* The communication thread has received the last answer, and sends.
SendCommand(r) ==
    /\ ~Waiting /\ ~mShouldCancel /\ ~terminated
    /\ request' = r
    /\ response' = "pending"
    /\ UNCHANGED <<binVars, inputVars, mOutputPeriod, elapsed, msg, pc, lifeVars>>

Cancel ==
    /\ ~mShouldCancel
    /\ mShouldCancel' = TRUE
    /\ UNCHANGED <<binVars, inputVars, mOutputPeriod, elapsed, msg, commandVars, pc,
                   terminated>>

Terminate ==
    /\ ~terminated
    /\ terminated' = TRUE
    /\ UNCHANGED <<binVars, inputVars, mOutputPeriod, elapsed, msg, commandVars, pc,
                   mShouldCancel>>

Tick ==
    /\ elapsed < MaxElapsed
    /\ elapsed' = elapsed + 1
    /\ UNCHANGED <<binVars, inputVars, mOutputPeriod, msg, commandVars, pc, lifeVars>>

-----------------------------------------------------------------------------
Init ==
    /\ mHistogram = NoPackets /\ hits = NoPackets
    /\ frame = [bins |-> NoPackets, hits |-> NoPackets]
    /\ mOutputPeriod = DefaultPeriod /\ elapsed = 0
    /\ mInputSocket = "none" /\ queue = << >> /\ msg = NoPackets
    /\ request = Request("GET_HISTOGRAM_SERVER_PATH", 0, "none", 0)
    /\ response = "none"
    /\ pc = "commands" /\ mShouldCancel = FALSE /\ terminated = FALSE

Loop == \/ PollCommands
        \/ EndLoop
        \/ Poll
        \/ \E p \in Pixels : HandlePacket(p)
        \/ Output

Next ==
    \/ Loop
    \/ \E s \in Servers, m \in Counts : Publish(s, m)
    \/ \E r \in Requests : SendCommand(r)
    \/ Cancel
    \/ Terminate
    \/ Tick

Spec == Init /\ [][Next]_vars

\* The thread runs, without ever waiting, and time passes.
FairSpec == Spec /\ WF_vars(Loop) /\ WF_vars(Tick)

-----------------------------------------------------------------------------
(* Properties                                                              *)

TypeOK ==
    /\ mHistogram \in [Pixels -> 0 .. BinMod - 1]
    /\ hits \in [Pixels -> 0 .. BinMod]
    /\ frame \in [bins : [Pixels -> 0 .. BinMod - 1], hits : [Pixels -> 0 .. BinMod]]
    /\ mOutputPeriod \in Int /\ mOutputPeriod <= MaxElapsed
    /\ elapsed \in 0 .. MaxElapsed
    /\ mInputSocket \in Servers \cup NotServers
    /\ queue \in Seq([from : Servers, packets : Counts])
    /\ msg \in Counts
    /\ request \in Requests
    /\ response \in Commands \cup {"none", "pending", "INVALID_COMMAND_DATA"}
    /\ pc \in {"commands", "poll", "handle", "done"}
    /\ mShouldCancel \in BOOLEAN /\ terminated \in BOOLEAN

(***************************************************************************)
(* Every packet that is received is counted in exactly one frame, the next *)
(* one, as long as fewer than 2^16 packets of its pixel belong to it:      *)
(* publishing, clearing and a failing send lose and repeat none.           *)
(***************************************************************************)
CountsExact ==
    \A p \in Pixels :
        /\ hits[p] < BinMod => mHistogram[p] + msg[p] = hits[p]
        /\ frame.hits[p] < BinMod => frame.bins[p] = frame.hits[p]

\* Once SET_HISTOGRAM_INPUT_SERVER has been handled no packet of the former
\* server is counted, although messages of it were waiting.
OnlyCurrentInput ==
    \A k \in 1 .. Len(queue) : queue[k].from = mInputSocket

\* As long as messages with packets arrive, what has been counted is published.
FramesKeepComing ==
    []<>(pc = "handle") => \A p \in Pixels : hits[p] > 0 ~> hits[p] = 0

\* Data do not keep the thread from its commands, and it ends when told to.
CommandsHandled == Waiting ~> (~Waiting \/ pc = "done")
ThreadEnds == mShouldCancel \/ terminated ~> pc = "done"
=============================================================================
