------------------------- MODULE SpidrServerProofs -------------------------
(***************************************************************************)
(* However the two programs are interleaved and however TCP cuts their     *)
(* messages, for every command, data word and place of a cut: what reaches *)
(* the client is the data of the board's reply, and the size commandRecv   *)
(* computes does not wrap.                                                 *)
(***************************************************************************)
EXTENDS SpidrServer, SequenceTheorems, TLAPS

-----------------------------------------------------------------------------
(* The messages.                                                           *)

LEMMA CommandTable ==
  ASSUME NEW c \in DOMAIN TpxCommand
  PROVE  /\ TpxCommand[c].code \in Nat
         /\ TpxCommand[c].request \in {0, 1}
         /\ TpxCommand[c].reply \in Nat
BY DEF TpxCommand, Entry

LEMMA Concat4 ==
  ASSUME NEW a \in Nat, NEW b \in Nat, NEW c \in Nat, NEW d \in Nat,
         NEW s \in Seq(Nat)
  PROVE  LET m == <<a, b, c, d>> \o s
         IN  /\ m \in Seq(Nat) /\ Len(m) = 4 + Len(s)
             /\ m[1] = a /\ m[2] = b /\ m[3] = c /\ m[4] = d
             /\ \A i \in 1 .. Len(s) : m[4 + i] = s[i]
<1> DEFINE h == <<a, b, c, d>>
<1>1. h \in Seq(Nat) /\ Len(h) = 4
  OBVIOUS
<1>2. h[1] = a /\ h[2] = b /\ h[3] = c /\ h[4] = d
  OBVIOUS
<1> HIDE DEF h
<1>3. /\ h \o s \in Seq(Nat)
      /\ Len(h \o s) = 4 + Len(s)
      /\ \A i \in 1 .. 4 + Len(s) : (h \o s)[i] = IF i <= 4 THEN h[i] ELSE s[i - 4]
  <2>1. /\ h \o s \in Seq(Nat)
        /\ Len(h \o s) = Len(h) + Len(s)
        /\ \A i \in 1 .. Len(h) + Len(s) :
              (h \o s)[i] = IF i <= Len(h) THEN h[i] ELSE s[i - Len(h)]
    BY <1>1, ConcatProperties, Zenon
  <2> QED
    BY <1>1, <2>1
<1>4. Len(s) \in Nat
  BY LenProperties
<1>5. /\ (h \o s)[1] = a /\ (h \o s)[2] = b /\ (h \o s)[3] = c /\ (h \o s)[4] = d
  BY <1>2, <1>3, <1>4
<1>6. ASSUME NEW i \in 1 .. Len(s) PROVE (h \o s)[4 + i] = s[i]
  <2>1. 4 + i \in 1 .. 4 + Len(s) /\ ~(4 + i <= 4) /\ (4 + i) - 4 = i
    BY <1>4
  <2> QED
    BY <2>1, <1>3
<1> QED
  BY <1>3, <1>5, <1>6 DEF h

LEMMA FunctionIsSeq ==
  ASSUME NEW n \in Nat, NEW S, NEW f \in [1 .. n -> S]
  PROVE  f \in Seq(S) /\ Len(f) = n
OBVIOUS

LEMMA PaddedType ==
  ASSUME NEW data \in Seq(Nat)
  PROVE  Padded(data) \in Seq(Nat) /\ Len(Padded(data)) >= 1
<1>1. <<0>> \in Seq(Nat) /\ Len(<<0>>) = 1
  OBVIOUS
<1>2. data # << >> => Len(data) \in Nat \ {0}
  BY EmptySeq
<1> QED
  BY <1>1, <1>2 DEF Padded

LEMMA CommandMessageLen ==
  ASSUME NEW code \in Nat, NEW data \in Seq(Nat)
  PROVE  LET m == CommandMessage(code, data)
         IN  m \in Seq(Nat) /\ Len(m) = 4 + Len(Padded(data))
<1> DEFINE p == Padded(data)
           y == Bytes(4 + Len(p))
<1>1. p \in Seq(Nat) /\ Len(p) \in Nat
  BY PaddedType, LenProperties
<1>2. y \in Nat
  BY <1>1 DEF Bytes
<1>3. CommandMessage(code, data) = <<code, y, 0, 0>> \o p
  BY DEF CommandMessage
<1> HIDE DEF p, y
<1>4. LET m == <<code, y, 0, 0>> \o p
      IN  m \in Seq(Nat) /\ Len(m) = 4 + Len(p)
  BY <1>1, <1>2, Concat4
<1> QED
  BY <1>3, <1>4 DEF p

\* A message of the server is its header and one word.
LEMMA CommandMessageType ==
  ASSUME NEW c \in DOMAIN TpxCommand,
         NEW data \in [1 .. TpxCommand[c].request -> DataWords]
  PROVE  LET m == CommandMessage(TpxCommand[c].code, data)
         IN  m \in Seq(Nat) /\ Len(m) = 5
<1> DEFINE n == TpxCommand[c].request
<1>1. TpxCommand[c].code \in Nat /\ n \in {0, 1}
  BY CommandTable
<1> HIDE DEF n
<1>2. data \in [1 .. n -> DataWords]
  BY DEF n
<1>3. DataWords \subseteq Nat
  BY SpidrAssumption
<1>4. data \in Seq(Nat) /\ Len(data) = n
  <2>1. n \in Nat
    BY <1>1
  <2>2. data \in Seq(DataWords) /\ Len(data) = n
    BY <1>2, <2>1, FunctionIsSeq
  <2> QED
    BY <1>3, <2>2, SeqMonotonic
<1>5. Padded(data) \in Seq(Nat) /\ Len(Padded(data)) = 1
  <2>1. CASE data = << >>
    BY <2>1 DEF Padded
  <2>2. CASE data # << >>
    <3>1. Len(data) # 0
      BY <2>2, <1>4, EmptySeq
    <3> QED
      BY <1>1, <1>4, <2>2, <3>1 DEF Padded
  <2> QED
    BY <2>1, <2>2
<1> DEFINE m == CommandMessage(TpxCommand[c].code, data)
<1>6. m \in Seq(Nat) /\ Len(m) = 4 + Len(Padded(data))
  BY <1>1, <1>4, CommandMessageLen, Zenon
<1> HIDE DEF m
<1>7. m \in Seq(Nat) /\ Len(m) = 5
  BY <1>5, <1>6
<1> QED
  BY <1>7 DEF m

LEMMA ReplyMessageParts ==
  ASSUME NEW code \in Nat, NEW data \in Seq(Nat), data # << >>
  PROVE  LET m == ReplyMessage(code, data)
         IN  /\ m \in Seq(Nat) /\ Len(m) = 4 + Len(data)
             /\ m[1] = code + CMD_REPLY /\ m[2] = 4 * (4 + Len(data))
             /\ m[3] = 0 /\ m[4] = 0
             /\ \A i \in 1 .. Len(data) : m[4 + i] = data[i]
<1>1. Padded(data) = data
  BY DEF Padded
<1>2. Len(data) \in Nat
  BY LenProperties
<1>3. code + CMD_REPLY \in Nat
  BY DEF CMD_REPLY
<1>4. Bytes(4 + Len(data)) \in Nat /\ Bytes(4 + Len(data)) = 4 * (4 + Len(data))
  BY <1>2 DEF Bytes
<1> DEFINE x == code + CMD_REPLY
           y == Bytes(4 + Len(data))
<1>5. x \in Nat /\ y \in Nat
  BY <1>3, <1>4
<1>6. ReplyMessage(code, data) = <<x, y, 0, 0>> \o data
  BY <1>1 DEF ReplyMessage
<1> HIDE DEF x, y
<1>7. LET m == <<x, y, 0, 0>> \o data
      IN  /\ m \in Seq(Nat) /\ Len(m) = 4 + Len(data)
          /\ m[1] = x /\ m[2] = y /\ m[3] = 0 /\ m[4] = 0
          /\ \A i \in 1 .. Len(data) : m[4 + i] = data[i]
  BY <1>5, Concat4
<1>8. x = code + CMD_REPLY /\ y = 4 * (4 + Len(data))
  BY <1>3, <1>4 DEF x, y
<1> QED
  BY <1>6, <1>7, <1>8

\* What a read takes and what it leaves.
LEMMA Cut ==
  ASSUME NEW s \in Seq(Nat), NEW k \in 1 .. Len(s)
  PROVE  /\ SubSeq(s, 1, k) \in Seq(Nat) /\ Len(SubSeq(s, 1, k)) = k
         /\ \A i \in 1 .. k : SubSeq(s, 1, k)[i] = s[i]
         /\ From(s, k) \in Seq(Nat) /\ Len(From(s, k)) = Len(s) - k
<1>1. Len(s) \in Nat /\ \A i \in 1 .. Len(s) : s[i] \in Nat
  BY LenProperties, ElementOfSeq
<1>2. /\ \A i \in 1 .. k : s[i] \in Nat
      /\ \A i \in k + 1 .. Len(s) : s[i] \in Nat
  BY <1>1
<1>3. /\ SubSeq(s, 1, k) \in Seq(Nat)
      /\ Len(SubSeq(s, 1, k)) = IF 1 <= k THEN k - 1 + 1 ELSE 0
      /\ \A i \in 1 .. k - 1 + 1 : SubSeq(s, 1, k)[i] = s[1 + i - 1]
  BY <1>1, <1>2, SubSeqProperties
<1>4. /\ SubSeq(s, k + 1, Len(s)) \in Seq(Nat)
      /\ Len(SubSeq(s, k + 1, Len(s))) =
            IF k + 1 <= Len(s) THEN Len(s) - (k + 1) + 1 ELSE 0
  BY <1>1, <1>2, SubSeqProperties
<1>5. k \in Nat /\ k >= 1 /\ k <= Len(s)
  BY <1>1
<1>6. Len(SubSeq(s, 1, k)) = k /\ \A i \in 1 .. k : SubSeq(s, 1, k)[i] = s[i]
  BY <1>3, <1>5
<1>7. Len(SubSeq(s, k + 1, Len(s))) = Len(s) - k
  BY <1>1, <1>4, <1>5
<1> QED
  BY <1>3, <1>4, <1>6, <1>7 DEF From

LEMMA NothingLeft ==
  ASSUME NEW s \in Seq(Nat), Len(s) = 0
  PROVE  s = << >>
BY EmptySeq

-----------------------------------------------------------------------------
(* The handlers of the board.                                              *)

LEMMA AdcCodeType ==
  ASSUME NEW w \in Nat
  PROVE  AdcCode(w) \in Nat
<1> DEFINE x == (92 * w + 49140) * 8192 - 819 * 4095
<1>1. x \in Int
  OBVIOUS
<1>2. AdcCode(w) = (x \div (819 * 1500)) % 4096
  BY DEF AdcCode
<1> HIDE DEF x
<1>3. x \div (819 * 1500) \in Int
  BY <1>1
<1> QED
  BY <1>2, <1>3

LEMMA RepliedDataType ==
  ASSUME mBiasVoltage \in Nat, NEW c \in Handlers, NEW w \in Nat
  PROVE  RepliedData(c, w) \in Seq(Nat) /\ RepliedData(c, w) # << >>
<1>1. AdcCode(mBiasVoltage) \in Nat
  BY AdcCodeType
<1>2. ChipboardId \in Nat /\ NoDevice \in Nat
  BY SMT DEF ChipboardId, NoDevice
<1>3. RepliedData(c, w) \in
        {<<v>> : v \in {0, 1, ChipboardId, AdcCode(mBiasVoltage), w}}
            \cup {<<1, NoDevice, NoDevice, NoDevice>>}
  BY Zenon DEF RepliedData
<1>4. ASSUME NEW v \in Nat PROVE <<v>> \in Seq(Nat) /\ <<v>> # << >>
  OBVIOUS
<1>5. LET s == <<1, NoDevice, NoDevice, NoDevice>>
      IN  s \in Seq(Nat) /\ s # << >>
  BY <1>2, SMT
<1>6. {0, 1, ChipboardId, AdcCode(mBiasVoltage), w} \subseteq Nat
  BY <1>1, <1>2
<1> QED
  BY <1>3, <1>4, <1>5, <1>6

LEMMA RepliedCodeType ==
  ASSUME NEW c \in Handlers
  PROVE  RepliedCode(c) \in Nat
<1>1. c \in DOMAIN TpxCommand /\ "CMD_GET_FIRMWVERSION" \in DOMAIN TpxCommand
  BY DEF Handlers, TpxCommand
<1> QED
  BY <1>1, CommandTable DEF RepliedCode

-----------------------------------------------------------------------------
(* What commandRecv makes of a message.                                    *)

LEMMA DataType ==
  ASSUME NEW m \in Seq(Nat), Len(m) >= 5, m[2] >= 16
  PROVE  Data(m) \in Seq(Int)
<1>1. m[2] \in Nat
  BY ElementOfSeq
<1>2. DataSize(m) \in Nat
  BY <1>1 DEF DataSize
<1>3. ASSUME NEW i \in 1 .. DataSize(m)
      PROVE  (IF 4 + i <= Len(m) THEN m[4 + i] ELSE -1) \in Int
  <2>1. CASE 4 + i <= Len(m)
    <3>1. 4 + i \in 1 .. Len(m)
      BY <1>2, <2>1, LenProperties
    <3> QED
      BY <2>1, <3>1, ElementOfSeq
  <2> QED
    BY <2>1
<1>4. Data(m) \in [1 .. DataSize(m) -> Int]
  BY <1>3 DEF Data
<1> QED
  BY <1>2, <1>4, FunctionIsSeq

LEMMA AnswerType ==
  ASSUME NEW kind \in Answers, NEW data \in Seq(Int)
  PROVE  LET a == [kind |-> kind, data |-> data]
         IN  /\ a \in [kind : Answers, data : Seq(Int)]
             /\ a.kind = kind /\ a.data = data
OBVIOUS

LEMMA UnansweredType ==
  /\ Unanswered \in [kind : Answers, data : Seq(Int)]
  /\ Unanswered.kind = "none"
<1>1. "none" \in Answers /\ << >> \in Seq(Int)
  BY EmptySeq DEF Answers
<1> QED
  BY <1>1, AnswerType, Zenon DEF Unanswered

LEMMA HandleType ==
  ASSUME NEW m \in Seq(Nat), Len(m) >= 5, m[2] >= 16
  PROVE  /\ Handle(m) \in [kind : Answers, data : Seq(Int)]
         /\ Handle(m).kind = "data" => Handle(m).data = Data(m)
<1>1. Data(m) \in Seq(Int) /\ << >> \in Seq(Int)
  BY DataType, EmptySeq
<1>2. CASE Handle(m) = Unanswered
  BY <1>2, UnansweredType, "none" # "data", Zenon
<1>3. CASE Handle(m) = [kind |-> "data", data |-> Data(m)]
  <2> DEFINE a == [kind |-> "data", data |-> Data(m)]
  <2>1. "data" \in Answers
    BY DEF Answers
  <2>2. a \in [kind : Answers, data : Seq(Int)] /\ a.data = Data(m)
    BY <1>1, <2>1, AnswerType, Zenon
  <2>3. Handle(m) = a
    BY <1>3
  <2> HIDE DEF a
  <2> QED
    BY <2>2, <2>3, Zenon
<1>4. CASE Handle(m) = [kind |-> "INVALID_COMMAND_DATA", data |-> << >>]
  <2> DEFINE a == [kind |-> "INVALID_COMMAND_DATA", data |-> << >>]
  <2>1. "INVALID_COMMAND_DATA" \in Answers
    BY DEF Answers
  <2>2. /\ a \in [kind : Answers, data : Seq(Int)]
        /\ a.kind = "INVALID_COMMAND_DATA"
    BY <1>1, <2>1, AnswerType, Zenon
  <2>3. Handle(m) = a
    BY <1>4
  <2> HIDE DEF a
  <2> QED
    BY <2>2, <2>3, "INVALID_COMMAND_DATA" # "data", Zenon
<1> QED
  BY <1>2, <1>3, <1>4, Zenon DEF Handle

\* A part of a reply is not accepted, and of the whole reply the loop of
\* commandRecv reads the data, and no word behind them.
LEMMA WholeReply ==
  ASSUME NEW code \in Nat, NEW data \in Seq(Nat), data # << >>,
         NEW s, s = ReplyMessage(code, data), NEW k \in 1 .. Len(s),
         Accepted(SubSeq(s, 1, k))
  PROVE  /\ k = Len(s)
         /\ SubSeq(s, 1, k)[2] >= 16
         /\ Data(SubSeq(s, 1, k)) = data
<1> DEFINE m == SubSeq(s, 1, k)
<1>1. /\ s \in Seq(Nat) /\ Len(s) = 4 + Len(data)
      /\ s[2] = 4 * (4 + Len(data))
      /\ \A i \in 1 .. Len(data) : s[4 + i] = data[i]
  <2> DEFINE r == ReplyMessage(code, data)
  <2>1. /\ r \in Seq(Nat) /\ Len(r) = 4 + Len(data)
        /\ r[1] = code + CMD_REPLY /\ r[2] = 4 * (4 + Len(data))
        /\ r[3] = 0 /\ r[4] = 0
        /\ \A i \in 1 .. Len(data) : r[4 + i] = data[i]
    BY ReplyMessageParts
  <2>2. s = r
    OBVIOUS
  <2> HIDE DEF r
  <2> QED
    BY <2>1, <2>2, Zenon
<1>2. /\ m \in Seq(Nat) /\ Len(m) = k
      /\ \A i \in 1 .. k : m[i] = s[i]
  BY <1>1, Cut
<1>3. Len(m) >= 5 /\ Arrived(m)
  BY DEF Accepted
<1> HIDE DEF m
<1>4. Len(data) \in Nat /\ Len(data) >= 1
  BY LenProperties, EmptySeq
<1>5. m[2] = 4 * (4 + Len(data))
  BY <1>1, <1>2, <1>3
<1>6. 4 * k >= 4 * (4 + Len(data))
  BY <1>2, <1>3, <1>5 DEF Arrived, Bytes
<1>7. k = 4 + Len(data)
  BY <1>1, <1>4, <1>6
<1>8. DataSize(m) = Len(data)
  BY <1>4, <1>5 DEF DataSize
<1>9. Data(m) = data
  <2>1. Data(m) = [i \in 1 .. Len(data) |-> IF 4 + i <= Len(m) THEN m[4 + i] ELSE -1]
    BY <1>8 DEF Data
  <2>2. ASSUME NEW i \in 1 .. Len(data)
        PROVE  (IF 4 + i <= Len(m) THEN m[4 + i] ELSE -1) = data[i]
    BY <1>1, <1>2, <1>4, <1>7
  <2>3. data = [i \in 1 .. Len(data) |-> data[i]]
    BY LenProperties
  <2> QED
    BY <2>1, <2>2, <2>3, Zenon
<1> QED
  BY <1>1, <1>4, <1>5, <1>7, <1>9 DEF m

\* Zeros, whole error messages or parts of them, are not accepted.
LEMMA ZerosRejected ==
  ASSUME NEW s \in Seq(Nat), NEW k \in 1 .. Len(s),
         \A i \in 1 .. Len(s) : s[i] = 0
  PROVE  ~Accepted(SubSeq(s, 1, k))
<1> DEFINE m == SubSeq(s, 1, k)
<1>1. m[1] = 0
  BY Cut, LenProperties
<1>2. ~HasReplyBit(m)
  BY <1>1 DEF HasReplyBit, CMD_REPLY
<1> QED
  BY <1>2 DEF Accepted

LEMMA ZerosConcat ==
  ASSUME NEW s \in Seq(Nat), NEW t \in Seq(Nat), Len(t) = 5,
         \A i \in 1 .. Len(s) : s[i] = 0, \A i \in 1 .. 5 : t[i] = 0
  PROVE  /\ Len(s \o t) # 0
         /\ \A i \in 1 .. Len(s \o t) : (s \o t)[i] = 0
<1>1. /\ Len(s \o t) = Len(s) + Len(t)
      /\ \A i \in 1 .. Len(s) + Len(t) :
            (s \o t)[i] = IF i <= Len(s) THEN s[i] ELSE t[i - Len(s)]
  BY ConcatProperties, Zenon
<1>2. Len(s) \in Nat
  BY LenProperties
<1>3. ASSUME NEW i \in 1 .. Len(s) + 5 PROVE (s \o t)[i] = 0
  <2>1. CASE i <= Len(s)
    BY <1>1, <1>2, <2>1
  <2>2. CASE ~(i <= Len(s))
    <3> DEFINE n == Len(s)
    <3>1. n \in Nat /\ i \in 1 .. n + 5 /\ ~(i <= n)
      BY <1>2, <2>2, <1>3
    <3> HIDE DEF n
    <3>2. i - n \in 1 .. 5
      BY <3>1
    <3>3. i - Len(s) \in 1 .. 5
      BY <3>2 DEF n
    <3> QED
      BY <1>1, <2>2, <3>3
  <2> QED
    BY <2>1, <2>2
<1> QED
  BY <1>1, <1>2, <1>3

-----------------------------------------------------------------------------
(* Types.                                                                  *)

LEMMA TypeInit == Init => TypeOK
<1>1. << >> \in Seq(Nat) /\ << >> \in Seq(Int)
  BY EmptySeq
<1>2. "CMD_NOP" \in DOMAIN TpxCommand
  BY DEF TpxCommand
<1>3. 0 \in 0 .. MaxCommands
  BY SpidrAssumption
<1> SUFFICES ASSUME Init PROVE TypeOK
  OBVIOUS
<1>4. answer \in [kind : Answers, data : Seq(Int)]
  BY UnansweredType DEF Init
<1>5. toBoard \in Seq(Nat) /\ toServer \in Seq(Nat) /\ replied \in Seq(Nat)
  BY <1>1 DEF Init
<1>6. reads \in Nat /\ sends \in Nat /\ mBiasVoltage \in Nat
  BY DEF Init
<1> QED
  BY <1>2, <1>3, <1>4, <1>5, <1>6 DEF Init, TypeOK

LEMMA SendCommandType ==
  ASSUME TypeOK, NEW c \in Commands,
         NEW data \in [1 .. TpxCommand[c].request -> DataWords],
         SendCommand(c, data), UNCHANGED split
  PROVE  TypeOK'
<1>1. c \in DOMAIN TpxCommand
  BY CommandsAssumption
<1> DEFINE m == CommandMessage(TpxCommand[c].code, data)
<1>2. m \in Seq(Nat)
  BY <1>1, CommandMessageType
<1>3. toBoard' = toBoard \o m
  BY DEF SendCommand
<1> HIDE DEF m
<1>4. toBoard' \in Seq(Nat)
  BY <1>2, <1>3, ConcatProperties DEF TypeOK
<1>5. count' \in 0 .. MaxCommands
  BY SpidrAssumption DEF SendCommand, TypeOK
<1>6. answer' \in [kind : Answers, data : Seq(Int)]
  BY UnansweredType DEF SendCommand
<1> QED
  BY <1>1, <1>4, <1>5, <1>6 DEF SendCommand, TypeOK, boardVars

LEMMA CommandRecvType ==
  ASSUME TypeOK, NEW k \in 1 .. Len(toServer), CommandRecv(k), UNCHANGED split
  PROVE  TypeOK'
<1> DEFINE m == SubSeq(toServer, 1, k)
<1>1. m \in Seq(Nat) /\ From(toServer, k) \in Seq(Nat)
  BY Cut DEF TypeOK
<1>2. toServer' \in Seq(Nat) /\ op' = "none"
  BY <1>1 DEF CommandRecv
<1>3. /\ mIsExecutingCommand' \in BOOLEAN /\ wrapped' \in BOOLEAN
      /\ answer' \in [kind : Answers, data : Seq(Int)]
  <2>1. CASE UNCHANGED answer
    BY <2>1 DEF CommandRecv, TypeOK
  <2>2. CASE Accepted(m) /\ m[2] >= 16 /\ answer' = Handle(m)
    <3>1. Len(m) >= 5
      BY <2>2 DEF Accepted
    <3>2. answer' \in [kind : Answers, data : Seq(Int)]
      BY <1>1, <2>2, <3>1, HandleType
    <3> QED
      BY <3>2 DEF CommandRecv, TypeOK
  <2> QED
    BY <2>1, <2>2 DEF CommandRecv
<1> QED
  BY <1>2, <1>3 DEF CommandRecv, TypeOK, boardVars

\* What a read of the board does to its own variables and to the stream.
LEMMA ReadTcpType ==
  ASSUME TypeOK, NEW k \in 1 .. Len(toBoard), ReadTcp(k), UNCHANGED split
  PROVE  TypeOK'
<1> DEFINE m == SubSeq(toBoard, 1, k)
<1>1. m \in Seq(Nat) /\ From(toBoard, k) \in Seq(Nat)
  BY Cut DEF TypeOK
<1>2. toBoard' \in Seq(Nat) /\ sends' \in Nat
  BY <1>1 DEF ReadTcp, TypeOK
<1>3. /\ toServer' \in Seq(Nat) /\ reads' \in Nat
      /\ mBiasVoltage' \in Nat /\ replied' \in Seq(Nat)
  <2>1. CASE /\ toServer' = toServer \o ErrorMessage
             /\ reads' = reads - 1 /\ UNCHANGED <<mBiasVoltage, replied>>
    <3>1. ErrorMessage \in Seq(Nat)
      BY DEF ErrorMessage
    <3>2. toServer' \in Seq(Nat)
      BY <2>1, <3>1, ConcatProperties DEF TypeOK
    <3> QED
      BY <2>1, <3>2 DEF ReadTcp, TypeOK
  <2>2. ASSUME NEW c \in Understood(m),
               replied' = RepliedData(c, m[5]),
               toServer' = toServer \o ReplyMessage(RepliedCode(c), replied'),
               mBiasVoltage' = IF c = "CMD_SET_BIAS_ADJUST" THEN m[5] ELSE mBiasVoltage,
               UNCHANGED reads
        PROVE  /\ toServer' \in Seq(Nat) /\ reads' \in Nat
               /\ mBiasVoltage' \in Nat /\ replied' \in Seq(Nat)
    <3>1. c \in Handlers /\ Len(m) >= 5
      BY <2>2 DEF Understood
    <3> HIDE DEF m
    <3>2. m[5] \in Nat
      BY <1>1, <3>1, ElementOfSeq
    <3>3. replied' \in Seq(Nat) /\ replied' # << >>
      BY <2>2, <3>1, <3>2, RepliedDataType DEF TypeOK
    <3>4. ReplyMessage(RepliedCode(c), replied') \in Seq(Nat)
      BY <3>1, <3>3, RepliedCodeType, ReplyMessageParts
    <3>5. toServer' \in Seq(Nat)
      BY <2>2, <3>4, ConcatProperties DEF TypeOK
    <3> QED
      BY <2>2, <3>2, <3>3, <3>5 DEF TypeOK
  <2> QED
    BY <2>1, <2>2 DEF ReadTcp
<1> QED
  BY <1>2, <1>3 DEF ReadTcp, TypeOK, serverVars

LEMMA TypeNext == TypeOK /\ [Next]_vars => TypeOK'
<1> SUFFICES ASSUME TypeOK, [Next]_vars PROVE TypeOK'
  OBVIOUS
<1>1. CASE CommandSent /\ UNCHANGED split
  BY <1>1 DEF CommandSent, TypeOK, boardVars
<1>2. ASSUME NEW k \in 1 .. Len(toServer), CommandRecv(k), UNCHANGED split PROVE TypeOK'
  BY <1>2, CommandRecvType
<1>3. CASE SendDone /\ UNCHANGED split
  BY <1>3 DEF SendDone, TypeOK, serverVars
<1>4. CASE GhostRead /\ UNCHANGED split
  BY <1>4 DEF GhostRead, TypeOK, serverVars
<1>5. ASSUME NEW k \in 1 .. Len(toBoard), ReadTcp(k), UNCHANGED split PROVE TypeOK'
  BY <1>5, ReadTcpType
<1>6. ASSUME NEW c \in Commands, NEW data \in [1 .. TpxCommand[c].request -> DataWords],
             SendCommand(c, data), UNCHANGED split
      PROVE  TypeOK'
  BY <1>6, SendCommandType
<1>7. CASE Disconnect
  BY <1>7, EmptySeq DEF Disconnect, TypeOK, serverVars, boardVars
<1>8. CASE UNCHANGED vars
  BY <1>8 DEF vars, TypeOK, serverVars, boardVars
<1> QED
  BY <1>1, <1>2, <1>3, <1>4, <1>5, <1>6, <1>7, <1>8 DEF Next, Server, Board, Client


-----------------------------------------------------------------------------
(* One exchange after the other.                                           *)

LEMMA InvInit == Init => SpidrInv
<1> SUFFICES ASSUME Init PROVE SpidrInv
  OBVIOUS
<1>1. TypeOK
  BY TypeInit
<1>2. answer.kind = "none"
  BY UnansweredType DEF Init
<1> QED
  BY <1>1, <1>2
     DEF Init, SpidrInv, QuietInv, ExchangeInv, ReplyIntact, NoWrap

\* The command is all there is on its way.
LEMMA SendCommandInv ==
  ASSUME SpidrInv, TypeOK', NEW c \in Commands,
         NEW data \in [1 .. TpxCommand[c].request -> DataWords],
         SendCommand(c, data), UNCHANGED split
  PROVE  SpidrInv'
<1>1. c \in DOMAIN TpxCommand
  BY CommandsAssumption
<1> DEFINE m == CommandMessage(TpxCommand[c].code, data)
<1>2. m \in Seq(Nat) /\ Len(m) = 5
  BY <1>1, CommandMessageType
<1>3. toBoard' = toBoard \o m
  BY DEF SendCommand
<1> HIDE DEF m
<1>4. toBoard = << >> /\ toServer = << >>
  BY DEF SendCommand, SpidrInv, QuietInv
<1>5. toBoard' = m
  BY <1>2, <1>3, <1>4, ConcatEmptySeq
<1>6. Untouched'
  BY <1>2, <1>4, <1>5 DEF SendCommand, Untouched
<1>7. answer' = Unanswered /\ answer'.kind = "none"
  BY UnansweredType DEF SendCommand
<1> QED
  BY <1>6, <1>7
     DEF SendCommand, SpidrInv, QuietInv, ExchangeInv, ReplyIntact, NoWrap

\* The answer that is accepted is the whole reply, and leaves both streams
\* empty; any other leaves the command in execution for ever.
LEMMA CommandRecvInv ==
  ASSUME SpidrInv, TypeOK', NEW k \in 1 .. Len(toServer), CommandRecv(k),
         UNCHANGED split
  PROVE  SpidrInv'
<1> DEFINE m == SubSeq(toServer, 1, k)
<1>1. TypeOK /\ connected /\ op = "read" /\ mIsExecutingCommand
  BY DEF SpidrInv, QuietInv, CommandRecv
<1>2. answer.kind = "none" /\ answer = Unanswered
  BY <1>1, UnansweredType DEF SpidrInv, QuietInv
<1>3. op' = "none" /\ replied' = replied /\ toBoard' = toBoard
  BY DEF CommandRecv, boardVars
<1>4. ~wrapped
  BY DEF SpidrInv, NoWrap
<1>5. CASE ~Accepted(m)
  <2>1. UNCHANGED <<mIsExecutingCommand, answer, wrapped>>
    BY <1>5 DEF CommandRecv
  <2> QED
    BY <1>1, <1>2, <1>3, <1>4, <2>1
       DEF SpidrInv, QuietInv, ExchangeInv, ReplyIntact, NoWrap
<1>6. CASE Accepted(m)
  <2>1. Answered
    <3>1. ~Untouched
      BY EmptySeq DEF Untouched
    <3>2. ~Failed
      BY <1>1, <1>6, ZerosRejected DEF Failed, TypeOK
    <3> QED
      BY <1>1, <3>1, <3>2 DEF SpidrInv, ExchangeInv
  <2>2. PICK c \in Handlers : toServer = ReplyMessage(RepliedCode(c), replied)
    BY <2>1 DEF Answered
  <2>3. replied \in Seq(Nat) /\ replied # << >> /\ RepliedCode(c) \in Nat
    BY <1>1, <2>1, RepliedCodeType DEF TypeOK, Answered
  <2>4. k = Len(toServer) /\ m[2] >= 16 /\ Data(m) = replied
    BY <1>6, <2>2, <2>3, WholeReply, Zenon
  <2>5. m \in Seq(Nat) /\ Len(m) >= 5
    BY <1>1, <1>6, Cut DEF TypeOK, Accepted
  <2>6. m[2] \in Nat
    BY <2>5, ElementOfSeq
  <2>7. answer' = Handle(m) /\ mIsExecutingCommand' = FALSE /\ wrapped' = wrapped
    <3>1. ~(m[2] < 16)
      <4> HIDE DEF m
      <4> QED
        BY <2>4, <2>6
    <3> QED
      BY <1>6, <3>1, Zenon DEF CommandRecv
  <2>8. answer'.kind = "data" => answer'.data = replied'
    BY <1>3, <2>4, <2>5, <2>7, HandleType
  <2>9. toServer' = << >> /\ toBoard' = << >>
    <3>1. toServer' = From(toServer, k) /\ Len(toServer) \in Nat
      BY <1>1, LenProperties DEF CommandRecv, TypeOK
    <3>2. toServer' \in Seq(Nat) /\ Len(toServer') = Len(toServer) - k
      BY <1>1, <3>1, Cut DEF TypeOK
    <3>3. Len(toServer') = 0
      BY <2>4, <3>1, <3>2
    <3> QED
      BY <1>3, <2>1, <3>2, <3>3, NothingLeft DEF Answered
  <2> QED
    BY <1>3, <1>4, <2>7, <2>8, <2>9
       DEF SpidrInv, QuietInv, ExchangeInv, ReplyIntact, NoWrap
<1> QED
  BY <1>5, <1>6

\* A command that is read whole and known is answered with a reply; all other
\* reads add zeros.
LEMMA ReadTcpExchange ==
  ASSUME TypeOK, TypeOK', NEW k \in 1 .. Len(toBoard), ReadTcp(k),
         Untouched \/ Failed
  PROVE  Answered' \/ Failed'
<1> DEFINE m == SubSeq(toBoard, 1, k)
<1>1. Len(m) = k /\ Len(toBoard') = Len(toBoard) - k /\ Len(toBoard) \in Nat
  BY Cut, LenProperties DEF ReadTcp, TypeOK
<1>2. Len(toBoard') < 5
  BY <1>1 DEF Untouched, Failed
<1>3. CASE toServer' = toServer \o ErrorMessage
  <2>1. ErrorMessage \in Seq(Nat) /\ Len(ErrorMessage) = 5
    BY DEF ErrorMessage
  <2>2. \A i \in 1 .. 5 : ErrorMessage[i] = 0
    BY DEF ErrorMessage
  <2>3. \A i \in 1 .. Len(toServer) : toServer[i] = 0
    BY EmptySeq DEF Untouched, Failed
  <2>4. toServer \in Seq(Nat)
    BY DEF TypeOK
  <2>5. /\ Len(toServer \o ErrorMessage) # 0
        /\ \A i \in 1 .. Len(toServer \o ErrorMessage) : (toServer \o ErrorMessage)[i] = 0
    BY <2>1, <2>2, <2>3, <2>4, ZerosConcat
  <2>6. \A i \in 1 .. Len(toServer') : toServer'[i] = 0
    BY <1>3, <2>5, Zenon
  <2>7. toServer' # << >>
    BY <1>3, <2>5, EmptySeq
  <2> QED
    BY <1>2, <2>6, <2>7 DEF Failed
<1>4. ASSUME NEW c \in Understood(m),
             replied' = RepliedData(c, m[5]),
             toServer' = toServer \o ReplyMessage(RepliedCode(c), replied')
      PROVE  Answered'
  <2>1. c \in Handlers /\ Len(m) >= 5
    BY <1>4 DEF Understood
  <2>2. Untouched /\ k = 5
    BY <1>1, <2>1 DEF Untouched, Failed
  <2>3. toBoard' = << >>
    BY <1>1, <2>2, NothingLeft DEF Untouched, TypeOK
  <2>4. m[5] \in Nat
    BY <2>1, Cut, ElementOfSeq DEF TypeOK
  <2>5. replied' \in Seq(Nat) /\ replied' # << >>
    BY <1>4, <2>1, <2>4, RepliedDataType DEF TypeOK
  <2> DEFINE r == ReplyMessage(RepliedCode(c), replied')
  <2>6. r \in Seq(Nat)
    BY <2>1, <2>5, RepliedCodeType, ReplyMessageParts
  <2>7. toServer' = << >> \o r
    BY <1>4, <2>2 DEF Untouched
  <2>8. toServer' = r
    <3> HIDE DEF r
    <3> QED
      BY <2>6, <2>7, ConcatEmptySeq
  <2>9. RepliedCode(c)' = RepliedCode(c)
    BY DEF RepliedCode
  <2> QED
    BY <2>1, <2>3, <2>5, <2>8 DEF Answered, ReplyMessage
<1> QED
  BY <1>3, <1>4 DEF ReadTcp

LEMMA ReadTcpInv ==
  ASSUME SpidrInv, TypeOK', NEW k \in 1 .. Len(toBoard), ReadTcp(k), UNCHANGED split
  PROVE  SpidrInv'
<1>1. TypeOK /\ connected
  BY DEF SpidrInv, ReadTcp
<1>2. toBoard # << >>
  BY EmptySeq
<1>3. mIsExecutingCommand /\ answer = Unanswered /\ answer.kind = "none"
  BY <1>1, <1>2, UnansweredType DEF SpidrInv, QuietInv
<1>4. UNCHANGED <<mIsExecutingCommand, answer, wrapped, op, connected>>
  BY DEF ReadTcp, serverVars
<1>5. op # "none" => Answered' \/ Failed'
  <2> SUFFICES ASSUME op # "none" PROVE Answered' \/ Failed'
    OBVIOUS
  <2>1. ~Answered
    BY <1>2 DEF Answered
  <2>2. Untouched \/ Failed
    BY <1>1, <2>1 DEF SpidrInv, ExchangeInv
  <2> QED
    BY <1>1, <2>2, ReadTcpExchange
<1> QED
  BY <1>3, <1>4, <1>5 DEF SpidrInv, QuietInv, ExchangeInv, ReplyIntact, NoWrap

\* A step that leaves the server, the streams and the last reply alone.
LEMMA ElsewhereInv ==
  ASSUME SpidrInv, TypeOK',
         UNCHANGED <<mIsExecutingCommand, op, answer, wrapped, toBoard, toServer,
                     connected, replied>>
  PROVE  SpidrInv'
BY DEF SpidrInv, QuietInv, ExchangeInv, Untouched, Answered, Failed, ReplyIntact,
       NoWrap, ReplyMessage, RepliedCode

LEMMA InvNext == SpidrInv /\ [Next]_vars => SpidrInv'
<1> SUFFICES ASSUME SpidrInv, [Next]_vars PROVE SpidrInv'
  OBVIOUS
<1>1. TypeOK'
  BY TypeNext DEF SpidrInv
<1>2. CASE CommandSent /\ UNCHANGED split
  <2>1. /\ op = "send" /\ op' = "read"
        /\ UNCHANGED <<mIsExecutingCommand, answer, wrapped, toBoard, toServer,
                       connected, replied>>
    BY <1>2 DEF CommandSent, boardVars
  <2>2. Untouched \/ Answered \/ Failed => (Untouched \/ Answered \/ Failed)'
    BY <2>1 DEF Untouched, Answered, Failed, ReplyMessage, RepliedCode
  <2> QED
    BY <1>1, <2>1, <2>2 DEF SpidrInv, QuietInv, ExchangeInv, ReplyIntact, NoWrap
<1>3. ASSUME NEW k \in 1 .. Len(toServer), CommandRecv(k), UNCHANGED split
      PROVE  SpidrInv'
  BY <1>1, <1>3, CommandRecvInv
<1>4. CASE SendDone /\ UNCHANGED split
  BY <1>1, <1>4, ElsewhereInv DEF SendDone, serverVars
<1>5. CASE GhostRead /\ UNCHANGED split
  BY <1>1, <1>5, ElsewhereInv DEF GhostRead, serverVars
<1>6. ASSUME NEW k \in 1 .. Len(toBoard), ReadTcp(k), UNCHANGED split
      PROVE  SpidrInv'
  BY <1>1, <1>6, ReadTcpInv
<1>7. ASSUME NEW c \in Commands, NEW data \in [1 .. TpxCommand[c].request -> DataWords],
             SendCommand(c, data), UNCHANGED split
      PROVE  SpidrInv'
  BY <1>1, <1>7, SendCommandInv
<1>8. CASE Disconnect
  BY <1>1, <1>8
     DEF Disconnect, SpidrInv, QuietInv, ExchangeInv, ReplyIntact, NoWrap,
         serverVars, boardVars
<1>9. CASE UNCHANGED vars
  BY <1>1, <1>9, ElsewhereInv DEF vars, serverVars, boardVars
<1> QED
  BY <1>2, <1>3, <1>4, <1>5, <1>6, <1>7, <1>8, <1>9 DEF Next, Server, Board, Client

\* One exchange at a time: until the server has read its answer, either the
\* command is untouched, or the whole reply waits, or there is nothing but the
\* zeros of error messages.
THEOREM SpidrInvariant == Spec => []SpidrInv
BY InvInit, InvNext, PTL DEF Spec

\* However TCP cuts the stream, the data commandRecv passes on to the client
\* are the data of the board's reply to this command, whole, and not mixed
\* with another message or with old bytes of the buffer.
THEOREM ReplyIntactAlways == Spec => []ReplyIntact
<1>1. SpidrInv => ReplyIntact
  BY DEF SpidrInv
<1> QED
  BY <1>1, SpidrInvariant, PTL

\* num_bytes - 16 in commandRecv does not wrap below zero, for no command, cut
\* or error message of the board.
THEOREM NoWrapEver == Spec => []NoWrap
<1>1. SpidrInv => NoWrap
  BY DEF SpidrInv
<1> QED
  BY <1>1, SpidrInvariant, PTL

============================================================================
