----------------------- MODULE HistogramManagerProofs ----------------------
(***************************************************************************)
(* Theorems about HistogramManager, for any pixels, servers, widths and    *)
(* bounds.                                                                 *)
(***************************************************************************)
EXTENDS HistogramManager, TLAPS

Message == [from : Servers, packets : Counts]

\* What a handler does to the state.
LEMMA HandlerTypes ==
  ASSUME TypeOK, HandleCommand
  PROVE  /\ mOutputPeriod' \in Int /\ mOutputPeriod' <= MaxElapsed
         /\ mInputSocket' \in Servers \cup NotServers
         /\ queue' \in Seq(Message)
         /\ response' \in Commands \cup {"none", "pending", "INVALID_COMMAND_DATA"}
         /\ UNCHANGED inputVars \/ queue' = << >>
<1> USE DEF inputVars
<1>1. /\ mOutputPeriod \in Int /\ mOutputPeriod <= MaxElapsed /\ request \in Requests
      /\ mInputSocket \in Servers \cup NotServers /\ queue \in Seq(Message)
  BY DEF TypeOK, Message
<1>2. request.code \in Commands
  BY <1>1 DEF Requests, Request, Commands
<1>3. CASE request.code = "GET_HISTOGRAM_SERVER_PATH"
  BY <1>1, <1>3 DEF HandleCommand, SendHistogramServerPath, Commands
<1>4. CASE request.code = "SET_HISTOGRAM_INPUT_SERVER"
  <2>1. SetHistogramInputServer
    BY <1>4 DEF HandleCommand
  <2>2. PICK s \in {"dead"} \cup (Servers \cap {request.server}) :
          SetInputServerAddress(IF request.server = "none" THEN "none" ELSE s)
    BY <2>1 DEF SetHistogramInputServer
  <2>3. /\ mInputSocket' = IF request.server = "none" THEN "none" ELSE s
        /\ queue' = << >> /\ << >> \in Seq(Message)
    BY <2>2 DEF SetInputServerAddress
  <2> QED
    BY <1>1, <1>4, <2>1, <2>3 DEF SetHistogramInputServer, NotServers, Commands
<1>5. CASE request.code = "SET_HISTOGRAM_OUTPUT_PERIOD"
  <2>1. SetHistogramOutputPeriod
    BY <1>5 DEF HandleCommand
  <2>2. request.word \in Words
    BY <1>1, <1>5 DEF Requests, Request
  <2>3. AsInt(request.word) \in Int /\ AsInt(request.word) <= MaxElapsed
    <3>1. ASSUME NEW w \in Words PROVE AsInt(w) \in Int /\ AsInt(w) <= MaxElapsed
      <4>1. w \in Int /\ IntMod \in Int
        BY PeriodAssumption
      <4>2. AsInt(w) \in Int
        BY <4>1 DEF AsInt
      <4>3. AsInt(w) <= MaxElapsed
        BY PeriodAssumption
      <4> QED
        BY <4>2, <4>3
    <3> QED
      BY <2>2, <3>1
  <2> QED
    BY <1>1, <1>5, <2>1, <2>3 DEF SetHistogramOutputPeriod, Commands
<1> QED
  BY <1>2, <1>3, <1>4, <1>5 DEF Commands

LEMMA HistogramInit ==
  ASSUME Init
  PROVE  TypeOK /\ CountsExact /\ OnlyCurrentInput
<1> USE DEF Init
<1>1. NoPackets \in [Pixels -> 0 .. BinMod - 1] /\ NoPackets \in [Pixels -> 0 .. BinMod]
      /\ NoPackets \in Counts
  BY BinAssumption, HistogramBoundsAssumption DEF NoPackets, Counts
<1>2. request \in Requests
  BY DEF Requests
<1>3. queue \in Seq([from : Servers, packets : Counts])
  OBVIOUS
<1>4. TypeOK
  <2>1. mOutputPeriod \in Int /\ mOutputPeriod <= MaxElapsed /\ elapsed \in 0 .. MaxElapsed
    BY PeriodAssumption
  <2>2. frame \in [bins : [Pixels -> 0 .. BinMod - 1], hits : [Pixels -> 0 .. BinMod]]
    BY <1>1
  <2>3. mHistogram = NoPackets /\ hits = NoPackets /\ msg = NoPackets
    OBVIOUS
  <2>4. mInputSocket \in Servers \cup NotServers
    BY DEF NotServers
  <2>5. /\ pc \in {"commands", "poll", "handle", "done"}
        /\ mShouldCancel \in BOOLEAN /\ terminated \in BOOLEAN
        /\ response \in Commands \cup {"none", "pending", "INVALID_COMMAND_DATA"}
    OBVIOUS
  <2> QED
    BY <1>1, <1>2, <1>3, <2>1, <2>2, <2>3, <2>4, <2>5 DEF TypeOK
<1>5. CountsExact
  <2>1. ASSUME NEW p \in Pixels PROVE NoPackets[p] + NoPackets[p] = NoPackets[p]
    <3>1. NoPackets[p] = 0
      BY DEF NoPackets
    <3> QED
      BY <3>1
  <2>2. /\ mHistogram = NoPackets /\ hits = NoPackets /\ msg = NoPackets
        /\ frame.bins = NoPackets /\ frame.hits = NoPackets
    OBVIOUS
  <2> QED
    BY <2>1, <2>2 DEF CountsExact
<1>6. OnlyCurrentInput
  BY DEF OnlyCurrentInput
<1> QED
  BY <1>4, <1>5, <1>6

LEMMA HistogramTypeStep ==
  ASSUME TypeOK, [Next]_vars
  PROVE  TypeOK'
<1> USE DEF TypeOK
<1>1. CASE PollCommands
  <2>1. CASE HandleCommand /\ UNCHANGED <<request, lifeVars>>
    BY <1>1, <2>1, HandlerTypes DEF PollCommands, Message, binVars, lifeVars
  <2>2. CASE ~HandleCommand \/ ~UNCHANGED <<request, lifeVars>>
    BY <1>1, <2>2 DEF PollCommands, binVars, lifeVars, commandVars, inputVars
  <2> QED
    BY <2>1, <2>2
<1>2. CASE EndLoop
  BY <1>2 DEF EndLoop, binVars, lifeVars, commandVars, inputVars
<1>3. CASE Poll
  <2> USE <1>3 DEF Poll, binVars, lifeVars, commandVars, inputVars
  <2>1. CASE queue = << >> \/ terminated
    BY <2>1
  <2>2. CASE queue # << >> /\ ~terminated
    <3>1. queue \in Seq(Message) /\ queue # << >>
      BY <2>2 DEF Message
    <3>2. Head(queue) \in Message /\ Tail(queue) \in Seq(Message)
      BY <3>1
    <3>3. msg' \in Counts /\ queue' \in Seq(Message)
      BY <2>2, <3>2 DEF Message
    <3>4. hits' \in [Pixels -> 0 .. BinMod]
      <4>1. \A p \in Pixels : hits[p] \in Nat /\ msg'[p] \in Nat
        BY <3>3, BinAssumption, HistogramBoundsAssumption DEF Counts
      <4>2. \A p \in Pixels : AtMost(hits[p] + msg'[p], BinMod) \in 0 .. BinMod
        BY <4>1, BinAssumption DEF AtMost
      <4>3. hits' = [p \in Pixels |-> AtMost(hits[p] + msg'[p], BinMod)]
        BY <2>2
      <4> QED
        BY <4>2, <4>3
    <3>5. pc' \in {"commands", "poll", "handle", "done"}
      BY <2>2
    <3> QED
      BY <3>3, <3>4, <3>5 DEF Message
  <2> QED
    BY <2>1, <2>2
<1>4. ASSUME NEW p \in Pixels, HandlePacket(p) PROVE TypeOK'
  <2> USE <1>4 DEF HandlePacket, binVars, lifeVars, commandVars, inputVars
  <2>1. Increment(mHistogram[p]) \in 0 .. BinMod - 1
    BY BinAssumption DEF Increment
  <2>2. msg[p] - 1 \in 0 .. MaxPackets
    BY HistogramBoundsAssumption DEF Counts
  <2>3. mHistogram' \in [Pixels -> 0 .. BinMod - 1]
    BY <2>1
  <2>4. msg' \in Counts
    BY <2>2 DEF Counts
  <2> QED
    BY <2>3, <2>4
<1>5. CASE Output
  <2>1. NoPackets \in [Pixels -> 0 .. BinMod - 1] /\ NoPackets \in [Pixels -> 0 .. BinMod]
    BY BinAssumption DEF NoPackets
  <2> QED
    BY <1>5, <2>1, PeriodAssumption
    DEF Output, binVars, lifeVars, commandVars, inputVars
<1>6. ASSUME NEW s \in Servers, NEW m \in Counts, Publish(s, m) PROVE TypeOK'
  <2>1. queue \in Seq(Message) /\ [from |-> s, packets |-> m] \in Message
    BY DEF Message
  <2>2. queue' \in Seq(Message)
    BY <1>6, <2>1 DEF Publish
  <2> QED
    BY <1>6, <2>2 DEF Publish, Message, binVars, lifeVars, commandVars
<1>7. ASSUME NEW r \in Requests, SendCommand(r) PROVE TypeOK'
  BY <1>7 DEF SendCommand, binVars, lifeVars, inputVars
<1>8. CASE Cancel \/ Terminate
  BY <1>8 DEF Cancel, Terminate, binVars, lifeVars, commandVars, inputVars
<1>9. CASE Tick
  BY <1>9, PeriodAssumption DEF Tick, binVars, lifeVars, commandVars, inputVars
<1>10. CASE UNCHANGED vars
  BY <1>10 DEF vars, binVars, lifeVars, commandVars, inputVars
<1> QED
  BY <1>1, <1>2, <1>3, <1>4, <1>5, <1>6, <1>7, <1>8, <1>9, <1>10 DEF Next, Loop

LEMMA CountsStep ==
  ASSUME TypeOK, CountsExact, pc = "poll" => msg = NoPackets, [Next]_vars
  PROVE  CountsExact'
<1> USE DEF CountsExact
<1>1. CASE UNCHANGED <<binVars, msg>>
  BY <1>1 DEF binVars
<1>2. CASE Poll
  <2> USE <1>2 DEF Poll
  <2>1. CASE queue # << >> /\ ~terminated
    <3>1. queue \in Seq(Message)
      BY DEF TypeOK, Message
    <3>2. Head(queue) \in Message
      BY <2>1, <3>1
    <3>3. msg' \in Counts
      BY <2>1, <3>2 DEF Message
    <3>4. ASSUME NEW p \in Pixels, hits'[p] < BinMod
          PROVE  mHistogram'[p] + msg'[p] = hits'[p]
      <4>1. hits[p] \in Nat /\ msg'[p] \in Nat /\ mHistogram[p] \in Nat /\ BinMod \in Nat
        BY <3>3, BinAssumption, HistogramBoundsAssumption DEF Counts, TypeOK
      <4>2. hits'[p] = AtMost(hits[p] + msg'[p], BinMod)
        BY <2>1
      <4>3. hits'[p] = hits[p] + msg'[p] /\ hits[p] < BinMod
        BY <3>4, <4>1, <4>2 DEF AtMost
      <4>4. msg[p] = 0
        BY <1>2 DEF NoPackets
      <4>5. mHistogram[p] + msg[p] = hits[p]
        BY <4>3
      <4>6. mHistogram[p] = hits[p]
        BY <4>1, <4>4, <4>5
      <4> QED
        BY <4>3, <4>6
    <3> QED
      BY <3>4
  <2>2. CASE queue = << >> \/ terminated
    BY <2>2
  <2> QED
    BY <2>1, <2>2
<1>3. ASSUME NEW p \in Pixels, HandlePacket(p) PROVE CountsExact'
  <2> USE <1>3 DEF HandlePacket
  <2>1. /\ \A q \in Pixels : /\ hits[q] \in Nat /\ mHistogram[q] \in 0 .. BinMod - 1
                             /\ msg[q] \in Nat
        /\ mHistogram \in [Pixels -> 0 .. BinMod - 1] /\ msg \in [Pixels -> 0 .. MaxPackets]
        /\ BinMod \in Nat
    BY BinAssumption, HistogramBoundsAssumption DEF TypeOK, Counts
  <2>2. ASSUME NEW q \in Pixels, hits[q] < BinMod
        PROVE  mHistogram'[q] + msg'[q] = hits[q]
    <3>1. mHistogram[q] + msg[q] = hits[q]
      BY <2>2
    <3>2. CASE q = p
      <4>1. mHistogram[p] + 1 # BinMod
        BY <2>1, <2>2, <3>1, <3>2
      <4>2. mHistogram'[p] = mHistogram[p] + 1 /\ msg'[p] = msg[p] - 1
        BY <2>1, <4>1 DEF Increment
      <4> QED
        BY <2>1, <3>1, <3>2, <4>2
    <3>3. CASE q # p
      BY <2>1, <3>1, <3>3
    <3> QED
      BY <3>2, <3>3
  <2> QED
    BY <2>2
<1>4. CASE Output
  <2> USE <1>4 DEF Output
  <2>1. CASE elapsed >= mOutputPeriod /\ ~terminated
    <3>1. \A p \in Pixels : NoPackets[p] = 0 /\ mHistogram[p] \in Nat
      BY BinAssumption DEF NoPackets, TypeOK
    <3>2. /\ mHistogram' = NoPackets /\ msg' = NoPackets /\ hits' = NoPackets
          /\ frame'.bins = mHistogram /\ frame'.hits = hits
      BY <2>1, PeriodAssumption DEF TypeOK
    <3>3. \A p \in Pixels : hits[p] < BinMod => mHistogram[p] + 0 = hits[p]
      BY <3>1
    <3> QED
      BY <3>1, <3>2, <3>3
  <2>2. CASE elapsed < mOutputPeriod \/ terminated
    BY <2>2, PeriodAssumption DEF TypeOK, binVars
  <2> QED
    BY <2>1, <2>2, PeriodAssumption DEF TypeOK
<1>5. CASE PollCommands \/ EndLoop \/ Cancel \/ Terminate \/ Tick \/ UNCHANGED vars
  BY <1>1, <1>5 DEF PollCommands, EndLoop, Cancel, Terminate, Tick, vars
<1>6. ASSUME NEW s \in Servers, NEW m \in Counts, Publish(s, m) PROVE CountsExact'
  BY <1>1, <1>6 DEF Publish
<1>7. ASSUME NEW r \in Requests, SendCommand(r) PROVE CountsExact'
  BY <1>1, <1>7 DEF SendCommand
<1> QED
  BY <1>2, <1>3, <1>4, <1>5, <1>6, <1>7 DEF Next, Loop

\* Between two messages there is nothing left to count.
MessageDone == pc # "handle" => msg = NoPackets

LEMMA MessageDoneStep ==
  ASSUME MessageDone, [Next]_vars
  PROVE  MessageDone'
<1> USE DEF MessageDone
<1>1. CASE PollCommands \/ EndLoop \/ Cancel \/ Terminate \/ Tick \/ UNCHANGED vars
  BY <1>1 DEF PollCommands, EndLoop, Cancel, Terminate, Tick, vars
<1>2. CASE Poll
  BY <1>2 DEF Poll
<1>3. ASSUME NEW p \in Pixels, HandlePacket(p) PROVE MessageDone'
  BY <1>3 DEF HandlePacket
<1>4. CASE Output
  BY <1>4 DEF Output
<1>5. ASSUME NEW s \in Servers, NEW m \in Counts, Publish(s, m) PROVE MessageDone'
  BY <1>5 DEF Publish
<1>6. ASSUME NEW r \in Requests, SendCommand(r) PROVE MessageDone'
  BY <1>6 DEF SendCommand
<1> QED
  BY <1>1, <1>2, <1>3, <1>4, <1>5, <1>6 DEF Next, Loop

LEMMA InputStep ==
  ASSUME TypeOK, OnlyCurrentInput, [Next]_vars
  PROVE  OnlyCurrentInput'
<1> USE DEF OnlyCurrentInput
<1>1. CASE UNCHANGED inputVars
  BY <1>1 DEF inputVars
<1>2. CASE PollCommands
  <2>1. CASE HandleCommand
    <3>1. CASE queue' = << >>
      BY <3>1
    <3> QED
      BY <1>1, <2>1, <3>1, HandlerTypes
  <2> QED
    BY <1>1, <1>2, <2>1 DEF PollCommands
<1>3. CASE Poll
  <2>1. queue \in Seq(Message)
    BY DEF TypeOK, Message
  <2>2. CASE queue' = Tail(queue) /\ queue # << >>
    <3>1. /\ Len(queue) \in Nat /\ Len(queue') = Len(queue) - 1
          /\ \A k \in 1 .. Len(queue') : queue'[k] = queue[k + 1]
      BY <2>1, <2>2
    <3> QED
      BY <1>3, <3>1 DEF Poll
  <2> QED
    BY <1>1, <1>3, <2>2 DEF Poll, inputVars
<1>4. ASSUME NEW s \in Servers, NEW m \in Counts, Publish(s, m) PROVE OnlyCurrentInput'
  <2>1. queue \in Seq(Message) /\ [from |-> s, packets |-> m] \in Message
    BY DEF TypeOK, Message
  <2>2. /\ queue' = Append(queue, [from |-> s, packets |-> m])
        /\ mInputSocket' = s /\ mInputSocket = s
    BY <1>4 DEF Publish
  <2>3. ASSUME NEW k \in 1 .. Len(queue') PROVE queue'[k].from = s
    <3>1. Len(queue) \in Nat /\ Len(queue') = Len(queue) + 1
      BY <2>1, <2>2
    <3>2. CASE k \in 1 .. Len(queue)
      BY <2>1, <2>2, <3>2
    <3>3. CASE k = Len(queue) + 1
      BY <2>1, <2>2, <3>3
    <3> QED
      BY <3>1, <3>2, <3>3
  <2> QED
    BY <2>2, <2>3
<1>5. ASSUME NEW p \in Pixels, HandlePacket(p) PROVE OnlyCurrentInput'
  BY <1>1, <1>5 DEF HandlePacket
<1>6. ASSUME NEW r \in Requests, SendCommand(r) PROVE OnlyCurrentInput'
  BY <1>1, <1>6 DEF SendCommand
<1>7. CASE EndLoop \/ Output \/ Cancel \/ Terminate \/ Tick \/ UNCHANGED vars
  BY <1>1, <1>7 DEF EndLoop, Output, Cancel, Terminate, Tick, vars
<1> QED
  BY <1>2, <1>3, <1>4, <1>5, <1>6, <1>7 DEF Next, Loop

-----------------------------------------------------------------------------
\* The variables of the histogram thread keep their types; no bin leaves the
\* range of its 16 bits.
THEOREM HistogramTypes == Spec => []TypeOK
<1>1. Init => TypeOK
  BY HistogramInit
<1>2. TypeOK /\ [Next]_vars => TypeOK'
  BY HistogramTypeStep
<1> QED
  BY <1>1, <1>2, PTL DEF Spec

\* Every packet that is received is counted in exactly one frame, unless its
\* pixel has 2^16 packets or more in that frame.
THEOREM FramesExact == Spec => []CountsExact
<1>1. Init => CountsExact /\ MessageDone
  BY HistogramInit DEF MessageDone, Init
<1>2. TypeOK /\ CountsExact /\ MessageDone /\ [Next]_vars => CountsExact' /\ MessageDone'
  <2>1. MessageDone => (pc = "poll" => msg = NoPackets)
    BY DEF MessageDone
  <2> QED
    BY <2>1, CountsStep, MessageDoneStep
<1> QED
  BY <1>1, <1>2, HistogramTypes, PTL DEF Spec

\* No message of a former input server is left once another has been set.
THEOREM InputIsCurrent == Spec => []OnlyCurrentInput
<1>1. Init => OnlyCurrentInput
  BY HistogramInit
<1>2. TypeOK /\ OnlyCurrentInput /\ [Next]_vars => OnlyCurrentInput'
  BY InputStep
<1> QED
  BY <1>1, <1>2, HistogramTypes, PTL DEF Spec
=============================================================================
