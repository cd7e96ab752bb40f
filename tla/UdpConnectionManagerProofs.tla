--------------------- MODULE UdpConnectionManagerProofs ---------------------
(***************************************************************************)
(* The rollover counter is right for every clock, as long as packets are   *)
(* neither too late nor too far apart and the clock is not reset in the    *)
(* last quarter of its period.                                             *)
(***************************************************************************)
EXTENDS UdpConnectionManager, TLAPS

\* Counting modulo sixteen.
LEMMA ModFacts ==
  ASSUME NEW n \in Int
  PROVE  /\ n % 16 \in 0 .. 15
         /\ ((n % 16) + 1) % 16 = (n + 1) % 16
<1>1. n % 16 \in 0 .. 15
  OBVIOUS
<1>2. ((n % 16) + 1) % 16 = (n + 1) % 16
  OBVIOUS
<1> QED
  BY <1>1, <1>2

\* Parsing a packet keeps the types.
LEMMA ParseTypes ==
  ASSUME TypeOK, NEW full \in Phases, NEW true_period \in Int,
         parsePacket(full, true_period)
  PROVE  /\ mRolloverCounter' \in 0 .. 15
         /\ mHalfwayToRollover' \in BOOLEAN
         /\ mLastToA' \in Phases
         /\ mTempBuffer' \in Seq(Packet)
<1> USE DEF TypeOK
<1>1. mRolloverCounter' \in 0 .. 15
  BY ModFacts DEF parsePacket, nextCounter
<1>2. mHalfwayToRollover' \in BOOLEAN
  BY DEF parsePacket
<1>3. mLastToA' \in Phases
  BY DEF parsePacket
<1>4. [counter |-> mRolloverCounter', toa |-> full, period |-> true_period]
        \in Packet
  BY <1>1 DEF Packet
<1>5. mTempBuffer' \in Seq(Packet)
  BY <1>4 DEF parsePacket
<1> QED
  BY <1>1, <1>2, <1>3, <1>5

\* The packet appended to the chunk is stamped exactly if it carries the
\* count of its own period, or of the next one when it was overtaken.
LEMMA ParseStamps ==
  ASSUME TypeOK, StampsExact, parsing, parsing', UNCHANGED epoch,
         NEW full \in Phases, NEW true_period \in Int,
         parsePacket(full, true_period),
         \/ mRolloverCounter' = (true_period - epoch) % 16
         \/ /\ mRolloverCounter' = (true_period + 1 - epoch) % 16
            /\ full >= 4 * Quarter - MaxLate
  PROVE  StampsExact'
<1> DEFINE new == [counter |-> mRolloverCounter', toa |-> full,
                   period |-> true_period]
<1>1. mTempBuffer' = Append(mTempBuffer, new) /\ mTempBuffer \in Seq(Packet)
  BY DEF parsePacket, TypeOK
<1>2. new.counter = mRolloverCounter' /\ new.toa = full
      /\ new.period = true_period
  OBVIOUS
<1> HIDE DEF new
<1>3. /\ Len(mTempBuffer') = Len(mTempBuffer) + 1
      /\ \A i \in 1 .. Len(mTempBuffer) : mTempBuffer'[i] = mTempBuffer[i]
      /\ mTempBuffer'[Len(mTempBuffer) + 1] = new
  BY <1>1
<1>4. ASSUME NEW i \in 1 .. Len(mTempBuffer')
      PROVE  \/ mTempBuffer'[i].counter =
                  (mTempBuffer'[i].period - epoch) % 16
             \/ /\ mTempBuffer'[i].counter =
                     (mTempBuffer'[i].period + 1 - epoch) % 16
                /\ mTempBuffer'[i].toa >= 4 * Quarter - MaxLate
  <2>1. CASE i \in 1 .. Len(mTempBuffer)
    BY <1>3, <2>1 DEF StampsExact
  <2>2. CASE i = Len(mTempBuffer) + 1
    BY <1>2, <1>3, <2>2
  <2> QED
    BY <1>1, <1>3, <1>4, <2>1, <2>2
<1> QED
  BY <1>4 DEF StampsExact

\* A packet that is the newest of its period rolls nothing over; the first
\* one of the next period does.
LEMMA NewPacketInv ==
  ASSUME TypeOK, RolloverInv, NewPacket
  PROVE  TypeOK' /\ RolloverInv'
<1> USE ClockAssumption
<1> USE DEF RolloverInv
<1>1. PICK step \in 0 .. MaxGap :
        IF phase + step < 4 * Quarter
          THEN phase' = phase + step /\ UNCHANGED << period, fresh >>
          ELSE /\ phase' = phase + step - 4 * Quarter /\ period' = period + 1
               /\ fresh' = FALSE
  BY DEF NewPacket
<1>2. /\ parsePacket(phase', period') /\ UNCHANGED << parsing, epoch >>
      /\ parsing
  BY DEF NewPacket
<1>3. /\ phase \in 0 .. (4 * Quarter - 1) /\ period \in Nat /\ epoch \in Nat
      /\ fresh \in BOOLEAN /\ mLastToA \in 0 .. (4 * Quarter - 1)
      /\ mHalfwayToRollover \in BOOLEAN
  BY DEF TypeOK, Phases
<1>4. phase' \in Phases /\ period' \in Nat /\ fresh' \in BOOLEAN
  <2>1. phase' \in Phases /\ period' \in Nat
    BY <1>1, <1>3 DEF Phases
  <2>2. fresh' = fresh \/ fresh' = FALSE
    BY <1>1
  <2>3. fresh' \in BOOLEAN
    BY <1>3, <2>2
  <2> QED
    BY <2>1, <2>3
<1>5. TypeOK'
  BY <1>2, <1>4, ParseTypes DEF TypeOK
<1>6. CASE phase + step < 4 * Quarter
  <2>1. phase' = phase + step /\ period' = period /\ fresh' = fresh
    BY <1>1, <1>6
  <2>2. ~ RollsOver(phase')
    BY <1>3, <2>1 DEF RollsOver, InTheMiddle, LastInv, HalfwayInv
  <2>3. /\ mHalfwayToRollover' = (mHalfwayToRollover \/ InTheMiddle(phase'))
        /\ mRolloverCounter' = mRolloverCounter
        /\ mLastToA' = phase'
    BY <1>2, <2>2 DEF parsePacket, TypeOK
  <2>4. LastInv'
    BY <1>3, <2>1, <2>3 DEF LastInv
  <2>5. HalfwayInv'
    <3>1. phase' =< Quarter => ~ mHalfwayToRollover' \/ fresh'
      BY <1>3, <2>1, <2>3 DEF HalfwayInv, InTheMiddle
    <3>2. phase' > Quarter /\ phase' < 3 * Quarter => mHalfwayToRollover'
      BY <2>3 DEF InTheMiddle
    <3>3. phase' >= 3 * Quarter => mHalfwayToRollover
      BY <1>3, <2>1 DEF HalfwayInv
    <3>4. phase' >= 3 * Quarter => mHalfwayToRollover'
      BY <2>3, <3>3
    <3>5. phase' \in Int
      BY <1>4 DEF Phases
    <3> QED
      BY <3>1, <3>2, <3>4, <3>5 DEF HalfwayInv
  <2>6. RolloverCounted'
    BY <1>2, <2>1, <2>3 DEF RolloverCounted
  <2>7. StampsExact'
    BY <1>2, <1>4, <2>1, <2>3, ParseStamps DEF RolloverCounted
  <2> QED
    BY <1>5, <2>4, <2>5, <2>6, <2>7
<1>7. CASE phase + step >= 4 * Quarter
  <2>1. /\ phase' = phase + step - 4 * Quarter /\ period' = period + 1
        /\ fresh' = FALSE
    BY <1>1, <1>3, <1>7
  <2>2. RollsOver(phase')
    BY <1>3, <1>7, <2>1 DEF RollsOver, LastInv, HalfwayInv
  <2>3. /\ mHalfwayToRollover' = FALSE
        /\ mRolloverCounter' = (mRolloverCounter + 1) % 16
        /\ mLastToA' = phase'
    BY <1>2, <2>2 DEF parsePacket, nextCounter
  <2>4. LastInv'
    BY <1>3, <2>1, <2>3 DEF LastInv
  <2>5. HalfwayInv'
    BY <1>3, <2>1, <2>3 DEF HalfwayInv
  <2>6. mRolloverCounter' = (period' - epoch) % 16
    <3>1. period - epoch \in Int /\ period' - epoch = (period - epoch) + 1
      BY <1>3, <2>1
    <3> QED
      BY <2>3, <3>1, ModFacts DEF RolloverCounted
  <2>7. RolloverCounted'
    BY <1>2, <2>6 DEF RolloverCounted
  <2>8. StampsExact'
    BY <1>2, <1>4, <2>6, ParseStamps
  <2> QED
    BY <1>5, <2>4, <2>5, <2>7, <2>8
<1> QED
  BY <1>1, <1>3, <1>6, <1>7

\* A late packet rolls nothing over, whichever period it is from.
LEMMA LatePacketInv ==
  ASSUME TypeOK, RolloverInv, LatePacket
  PROVE  TypeOK' /\ RolloverInv'
<1> USE ClockAssumption
<1> USE DEF RolloverInv
<1>1. PICK late \in 1 .. MaxLate :
        IF late =< phase
          THEN parsePacket(phase - late, period)
          ELSE /\ ~ fresh
               /\ parsePacket(phase - late + 4 * Quarter, period - 1)
  BY DEF LatePacket
<1>2. UNCHANGED << parsing, period, phase, fresh, epoch >> /\ parsing
  BY DEF LatePacket, clockVars
<1>3. /\ phase \in 0 .. (4 * Quarter - 1) /\ period \in Nat /\ epoch \in Nat
      /\ fresh \in BOOLEAN /\ mLastToA \in 0 .. (4 * Quarter - 1)
      /\ mHalfwayToRollover \in BOOLEAN
  BY DEF TypeOK, Phases
<1>4. ASSUME NEW full \in Phases, NEW true_period \in Int,
             parsePacket(full, true_period),
             \/ full = phase - late /\ late =< phase /\ true_period = period
             \/ /\ ~ fresh /\ full = phase - late + 4 * Quarter /\ late > phase
                /\ true_period = period - 1
      PROVE  TypeOK' /\ RolloverInv'
  <2>1. TypeOK'
    BY <1>2, <1>4, ParseTypes DEF TypeOK
  <2>2. ~ RollsOver(full)
    BY <1>3, <1>4 DEF RollsOver, InTheMiddle, LastInv, HalfwayInv
  <2>3. /\ mHalfwayToRollover' = (mHalfwayToRollover \/ InTheMiddle(full))
        /\ mRolloverCounter' = mRolloverCounter
        /\ mLastToA' = full
    BY <1>4, <2>2 DEF parsePacket, TypeOK
  <2>4. LastInv'
    BY <1>2, <1>3, <1>4, <2>3 DEF LastInv
  <2>5. HalfwayInv'
    BY <1>2, <1>3, <1>4, <2>3 DEF HalfwayInv, InTheMiddle
  <2>6. RolloverCounted'
    BY <1>2, <2>3 DEF RolloverCounted
  <2>7. \/ mRolloverCounter' = (true_period - epoch) % 16
        \/ /\ mRolloverCounter' = (true_period + 1 - epoch) % 16
           /\ full >= 4 * Quarter - MaxLate
    <3>1. CASE true_period = period
      BY <2>3, <3>1 DEF RolloverCounted
    <3>2. CASE /\ full = phase - late + 4 * Quarter /\ late > phase
               /\ true_period = period - 1
      <4>1. true_period + 1 - epoch = period - epoch
        BY <1>3, <3>2
      <4>2. full >= 4 * Quarter - MaxLate
        BY <1>3, <3>2
      <4>3. mRolloverCounter' = (true_period + 1 - epoch) % 16
        BY <2>3, <4>1 DEF RolloverCounted
      <4> QED
        BY <4>2, <4>3
    <3> QED
      BY <1>4, <3>1, <3>2
  <2>8. StampsExact'
    BY <1>2, <1>4, <2>7, ParseStamps
  <2> QED
    BY <2>1, <2>4, <2>5, <2>6, <2>8
<1>5. CASE late =< phase
  <2>1. phase - late \in Phases
    BY <1>3, <1>5 DEF Phases
  <2> QED
    BY <1>1, <1>3, <1>4, <1>5, <2>1
<1>6. CASE late > phase
  <2>1. phase - late + 4 * Quarter \in Phases
    BY <1>3, <1>6 DEF Phases
  <2>2. ~ (late =< phase)
    BY <1>3, <1>6
  <2> QED
    BY <1>1, <1>3, <1>4, <1>6, <2>1, <2>2
<1> QED
  BY <1>3, <1>5, <1>6

\* A clock that is reset before its last quarter leaves nothing behind that
\* would be taken for a rollover.
LEMMA ResetTimersInv ==
  ASSUME TypeOK, RolloverInv, ResetTimers
  PROVE  TypeOK' /\ RolloverInv'
<1> USE ClockAssumption
<1>1. /\ phase =< LatestReset /\ phase' = 0 /\ fresh' = TRUE
      /\ UNCHANGED << mRolloverCounter, mHalfwayToRollover, mLastToA,
                      mTempBuffer, parsing, period, epoch >>
  BY DEF ResetTimers, counterVars
<1>2. /\ phase \in 0 .. (4 * Quarter - 1) /\ mHalfwayToRollover \in BOOLEAN
      /\ mLastToA \in 0 .. (4 * Quarter - 1) /\ fresh \in BOOLEAN
  BY DEF TypeOK, Phases
<1>3. TypeOK'
  BY <1>1, <1>2 DEF TypeOK, Phases
<1>4. mLastToA > 3 * Quarter => ~ mHalfwayToRollover
  BY <1>1, <1>2 DEF RolloverInv, LastInv, HalfwayInv
<1>5. LastInv' /\ HalfwayInv'
  BY <1>1, <1>2, <1>4 DEF LastInv, HalfwayInv
<1>6. RolloverCounted' /\ StampsExact'
  BY <1>1 DEF RolloverInv, RolloverCounted, StampsExact
<1> QED
  BY <1>3, <1>5, <1>6 DEF RolloverInv

\* Every variable keeps its type and the inductive invariant always holds.
THEOREM RolloverInvariance == Spec => [](TypeOK /\ RolloverInv)
<1> USE ClockAssumption
<1>1. Init => TypeOK /\ RolloverInv
  <2> SUFFICES ASSUME Init  PROVE TypeOK /\ RolloverInv
    OBVIOUS
  <2>1. phase \in 0 .. (4 * Quarter - 1) /\ 0 \in 0 .. (4 * Quarter - 1)
    BY DEF Init
  <2>2. TypeOK
    <3>1. << >> \in Seq(Packet) /\ 0 \in 0 .. 15
      OBVIOUS
    <3> QED
      BY <2>1, <3>1 DEF Init, TypeOK, Phases
  <2>3. LastInv /\ HalfwayInv
    BY DEF Init, LastInv, HalfwayInv
  <2>4. RolloverCounted /\ StampsExact
    BY DEF Init, RolloverCounted, StampsExact
  <2> QED
    BY <2>2, <2>3, <2>4 DEF RolloverInv
<1>2. TypeOK /\ RolloverInv /\ [Next]_vars => (TypeOK /\ RolloverInv)'
  <2> SUFFICES ASSUME TypeOK, RolloverInv, [Next]_vars
               PROVE  TypeOK' /\ RolloverInv'
    OBVIOUS
  <2> USE DEF counterVars, clockVars
  <2>1. CASE handleMessage
    <3>1. TypeOK'
      BY <2>1 DEF handleMessage, TypeOK
    <3>2. LastInv' /\ HalfwayInv' /\ RolloverCounted'
      BY <2>1 DEF handleMessage, RolloverInv, LastInv, HalfwayInv,
         RolloverCounted
    <3>3. StampsExact'
      BY <2>1 DEF handleMessage, StampsExact
    <3> QED
      BY <3>1, <3>2, <3>3 DEF RolloverInv
  <2>2. CASE NewPacket
    BY <2>2, NewPacketInv
  <2>3. CASE LatePacket
    BY <2>3, LatePacketInv
  <2>4. CASE publish
    BY <2>4 DEF publish, TypeOK, RolloverInv, LastInv, HalfwayInv,
       RolloverCounted, StampsExact
  <2>5. CASE resetToaRolloverCounter
    <3>1. period - period = 0
      BY DEF TypeOK
    <3>2. RolloverCounted' /\ TypeOK'
      BY <2>5, <3>1 DEF resetToaRolloverCounter, RolloverCounted, TypeOK
    <3>3. LastInv' /\ HalfwayInv' /\ StampsExact'
      BY <2>5 DEF resetToaRolloverCounter, RolloverInv, LastInv, HalfwayInv,
         StampsExact
    <3> QED
      BY <3>2, <3>3 DEF RolloverInv
  <2>6. CASE ResetTimers
    BY <2>6, ResetTimersInv
  <2>7. CASE UNCHANGED vars
    BY <2>7 DEF vars, TypeOK, RolloverInv, LastInv, HalfwayInv,
       RolloverCounted, StampsExact
  <2> QED
    BY <2>1, <2>2, <2>3, <2>4, <2>5, <2>6, <2>7 DEF Next
<1> QED
  BY <1>1, <1>2, PTL DEF Spec

\* Every variable of the raw data path keeps its type: the counter its four
\* bits, the buffer its packets.
THEOREM CounterTypes == Spec => []TypeOK
BY RolloverInvariance, PTL

\* The relation between mLastToA, mHalfwayToRollover and the clock from which
\* publishRawData's test recognises each rollover once.
THEOREM HalfwayCorrect == Spec => []RolloverInv
BY RolloverInvariance, PTL

\* The 4-bit counter counts every rollover once.
THEOREM CounterCorrect == Spec => []RolloverCounted
<1>1. RolloverInv => RolloverCounted
  BY DEF RolloverInv
<1> QED
  BY <1>1, RolloverInvariance, PTL

\* Packets are published with the time they were measured, except for the
\* ones overtaken by a rollover, which are one period late.
THEOREM StampsCorrect == Spec => []StampsExact
<1>1. RolloverInv => StampsExact
  BY DEF RolloverInv
<1> QED
  BY <1>1, RolloverInvariance, PTL

============================================================================
