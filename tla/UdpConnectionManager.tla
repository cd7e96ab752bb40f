------------------------ MODULE UdpConnectionManager ------------------------
(***************************************************************************)
(* The raw data path: chunks of pixel packets arrive over UDP, each        *)
(* packet's 34-bit time of arrival is extended by a 4-bit count of the     *)
(* rollovers of the chip's clock, and the chunk is published.              *)
(*                                                                         *)
(* The clock is a position (phase) in a period of four quarters; in the    *)
(* code a quarter is 2^32 ticks.  period and phase are history variables:  *)
(* the true time of the newest packet received so far, from which packets  *)
(* arrive at most MaxLate ticks late and the next one at most MaxGap ticks *)
(* later.  RESET_TIMERS starts the clock anew, of which the thread is not  *)
(* told.                                                                   *)
(***************************************************************************)
EXTENDS Integers, Sequences

CONSTANTS Quarter,      \* quarter_time
          MaxGap,       \* ticks between a packet and the newest before it
          MaxLate,      \* ticks a packet may be behind the newest
          LatestStart,  \* phase of the clock when the thread starts, at most
          LatestReset,  \* phase at which the clock may be reset, at most
          MaxChunk,     \* bound: pixel packets in a chunk (BUFFER_SIZE / 8)
          MaxPeriod     \* bound: rollovers in a behaviour

ASSUME ClockAssumption ==
  /\ Quarter \in Nat /\ MaxGap \in Nat /\ MaxLate \in Nat
  /\ LatestStart \in Nat /\ LatestReset \in Nat
  /\ MaxChunk \in Nat /\ MaxPeriod \in Nat
  /\ MaxGap + MaxLate < Quarter
  /\ LatestStart + MaxGap < 3 * Quarter
  /\ LatestReset =< 3 * Quarter

VARIABLES
  mRolloverCounter,
  mHalfwayToRollover,
  mLastToA,
  mTempBuffer,  \* the packets of the chunk so far, as they will be published
  parsing,      \* inside publishRawData
  period,       \* true time of the newest packet: rollovers ...
  phase,        \* ... and ticks since the last of them
  fresh,        \* no rollover since the clock was started
  epoch         \* period when the counter was last zeroed

counterVars == << mRolloverCounter, mHalfwayToRollover, mLastToA >>
clockVars == << period, phase, fresh >>
vars == << counterVars, mTempBuffer, parsing, clockVars, epoch >>

Phases == 0 .. (4 * Quarter - 1)

\* A published packet: the time it carries, and its true period.
Packet == [counter : 0 .. 15, toa : Phases, period : Int]

TypeOK ==
  /\ mRolloverCounter \in 0 .. 15
  /\ mHalfwayToRollover \in BOOLEAN
  /\ mLastToA \in Phases
  /\ mTempBuffer \in Seq(Packet)
  /\ parsing \in BOOLEAN
  /\ period \in Nat
  /\ phase \in Phases
  /\ fresh \in BOOLEAN
  /\ epoch \in Nat

Init ==
  /\ mRolloverCounter = 0
  /\ mHalfwayToRollover = FALSE
  /\ mLastToA = 0
  /\ mTempBuffer = << >>
  /\ parsing = FALSE
  /\ period = 0
  /\ phase \in 0 .. LatestStart
  /\ fresh = TRUE
  /\ epoch = 0

(***************************************************************************)
(* The loop body of publishRawData for a pixel packet with this time of    *)
(* arrival.                                                                *)
(***************************************************************************)
InTheMiddle(full_toa) == full_toa > Quarter /\ full_toa < 3 * Quarter

\* Mutant of RollsOver: a late packet counts the same rollover again.
RollsOverTwice(full_toa) ==
  /\ mLastToA > 3 * Quarter
  /\ full_toa < Quarter

RollsOver(full_toa) ==
  /\ mHalfwayToRollover \/ InTheMiddle(full_toa)
  /\ mLastToA > 3 * Quarter
  /\ full_toa < Quarter

nextCounter == (mRolloverCounter + 1) % 16

\* Mutant of parsePacket: the packet carries the counter it found.
parsePacketEarly(full_toa, true_period) ==
  /\ mHalfwayToRollover' =
       ((mHalfwayToRollover \/ InTheMiddle(full_toa)) /\ ~ RollsOver(full_toa))
  /\ mRolloverCounter' =
       IF RollsOver(full_toa) THEN nextCounter ELSE mRolloverCounter
  /\ mTempBuffer' =
       Append(mTempBuffer, [counter |-> mRolloverCounter, toa |-> full_toa,
                            period |-> true_period])
  /\ mLastToA' = full_toa

parsePacket(full_toa, true_period) ==
  /\ mHalfwayToRollover' =
       ((mHalfwayToRollover \/ InTheMiddle(full_toa)) /\ ~ RollsOver(full_toa))
  /\ mRolloverCounter' =
       IF RollsOver(full_toa) THEN nextCounter ELSE mRolloverCounter
  /\ mTempBuffer' =
       Append(mTempBuffer, [counter |-> mRolloverCounter', toa |-> full_toa,
                            period |-> true_period])
  /\ mLastToA' = full_toa

(***************************************************************************)
(* The steps.  A chunk whose size is zero or no multiple of eight is       *)
(* dropped, and packets that are no pixel hits are skipped: both change    *)
(* nothing but the gap to the next packet.                                 *)
(***************************************************************************)

\* handleMessage and parseBytes up to the loop of publishRawData.
handleMessage ==
  /\ ~ parsing
  /\ parsing' = TRUE
  /\ mTempBuffer' = << >>
  /\ UNCHANGED << counterVars, clockVars, epoch >>

\* The next packet is the newest so far.
NewPacket ==
  /\ parsing
  /\ Len(mTempBuffer) < MaxChunk
  /\ \E step \in 0 .. MaxGap :
       IF phase + step < 4 * Quarter
         THEN /\ phase' = phase + step
              /\ UNCHANGED << period, fresh >>
         ELSE /\ period < MaxPeriod
              /\ phase' = phase + step - 4 * Quarter
              /\ period' = period + 1
              /\ fresh' = FALSE
  /\ parsePacket(phase', period')
  /\ UNCHANGED << parsing, epoch >>

\* The next packet is older than one already received, but was measured since
\* the clock was started.
LatePacket ==
  /\ parsing
  /\ Len(mTempBuffer) < MaxChunk
  /\ \E late \in 1 .. MaxLate :
       IF late =< phase
         THEN parsePacket(phase - late, period)
         ELSE /\ ~ fresh
              /\ parsePacket(phase - late + 4 * Quarter, period - 1)
  /\ UNCHANGED << parsing, clockVars, epoch >>

\* The end of publishRawData; handleMessage then waits for the next chunk.
publish ==
  /\ parsing
  /\ parsing' = FALSE
  /\ UNCHANGED << counterVars, mTempBuffer, clockVars, epoch >>

\* The command RESET_TOA_ROLLOVER_COUNTER, between two polls of the socket.
\* mHalfwayToRollover and mLastToA stay as they are.
resetToaRolloverCounter ==
  /\ ~ parsing
  /\ mRolloverCounter' = 0
  /\ epoch' = period
  /\ UNCHANGED << mHalfwayToRollover, mLastToA, mTempBuffer, parsing,
                  clockVars >>

\* The board obeys RESET_TIMERS.  The packets measured before have arrived.
ResetTimers ==
  /\ phase =< LatestReset
  /\ phase' = 0
  /\ fresh' = TRUE
  /\ UNCHANGED << counterVars, mTempBuffer, parsing, period, epoch >>

Next ==
  \/ handleMessage \/ NewPacket \/ LatePacket \/ publish
  \/ resetToaRolloverCounter \/ ResetTimers

Spec == Init /\ [][Next]_vars

(***************************************************************************)
(* Properties.                                                             *)
(***************************************************************************)

\* The counter counts every rollover of the clock since it was zeroed, each
\* of them once, although packets of the old period still arrive after the
\* first of the new one, and a clock that is started anew rolls over later.
RolloverCounted == mRolloverCounter = (period - epoch) % 16

\* A packet is published with the time it was measured; only one that was
\* overtaken by a rollover is published one period too late.
StampsExact ==
  parsing =>
    \A i \in 1 .. Len(mTempBuffer) :
      LET p == mTempBuffer[i]
      IN  \/ p.counter = (p.period - epoch) % 16
          \/ /\ p.counter = (p.period + 1 - epoch) % 16
             /\ p.toa >= 4 * Quarter - MaxLate

(***************************************************************************)
(* The inductive invariant.                                                *)
(***************************************************************************)

\* The last packet is at most MaxLate ticks behind the newest, unless none
\* has arrived since the thread or the clock was started.
LastInv ==
  \/ mLastToA =< phase /\ phase - mLastToA =< MaxLate
  \/ ~ fresh /\ mLastToA > phase /\ phase + 4 * Quarter - mLastToA =< MaxLate
  \/ fresh /\ mLastToA = 0 /\ phase =< LatestStart
  \/ fresh /\ phase = 0 /\ (mLastToA > 3 * Quarter => ~ mHalfwayToRollover)

\* mHalfwayToRollover is off in the first quarter after a rollover and on in
\* the last; between them it comes on with the first packet.  In the first
\* quarter after a reset of the clock it may still be on.
HalfwayInv ==
  /\ phase =< Quarter => ~ mHalfwayToRollover \/ fresh
  /\ phase > Quarter => mHalfwayToRollover \/ phase =< LatestStart
  /\ phase >= 3 * Quarter => mHalfwayToRollover

RolloverInv == LastInv /\ HalfwayInv /\ RolloverCounted /\ StampsExact

============================================================================
