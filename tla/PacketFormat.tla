---------------------------- MODULE PacketFormat ---------------------------
(***************************************************************************)
(* The 64-bit words of the data path: the packets of the chip, which       *)
(* publishRawData takes apart and puts together again                      *)
(* (UdpConnectionManager.cpp), the published words, which the cluster and  *)
(* the histogram threads take apart (ClusteringManager.cpp,                *)
(* HistogramManager.cpp), and the words of clusters.                       *)
(*                                                                         *)
(* A word is the set of its bits that are one, so that | is union, & is    *)
(* intersection, ^ is symmetric difference and a shift moves the set.      *)
(***************************************************************************)
EXTENDS Integers

Bits == 0 .. 63

\* The bits first .. first + width - 1.
Mask(first, width) == first .. first + width - 1

Shr(w, n) == {b \in Bits : b + n \in w}
Shl(w, n) == {b \in Bits : b - n \in w}
Xor(v, w) == (v \cup w) \ (v \cap w)

-----------------------------------------------------------------------------
(* publishRawData, with the masks of the source                            *)

\* 0xF000000000000000 and 0xB000000000000000
IsPixel(w) == w \cap Mask(60, 4) = {60, 61, 63}

addr(w) == Shr(w \cap Mask(44, 16), 44)

\* Mutant of x: the two parts of the address overlap.
xOverlap(w) == (Shr(addr(w), 2) \cap Mask(2, 6)) \cup (addr(w) \cap Mask(0, 2))

\* ((addr >> 1) & 0x00FC) | (addr & 0x0003)
x(w) == (Shr(addr(w), 1) \cap Mask(2, 6)) \cup (addr(w) \cap Mask(0, 2))
\* ((addr >> 8) & 0x00FE) | ((addr >> 2) & 0x0001)
y(w) == (Shr(addr(w), 8) \cap Mask(1, 7)) \cup (Shr(addr(w), 2) \cap Mask(0, 1))

tot(w) == Shr(w \cap Mask(20, 10), 20)
toa(w) == Shr(w \cap Mask(30, 14), 30)
ftoa(w) == Xor(Shr(w \cap Mask(16, 4), 16), Mask(0, 4))
stime(w) == w \cap Mask(0, 16)

\* Mutant of full_toa: the coarse time is shifted by the width of toa only.
full_toaNarrow(w) == Shl(stime(w), 14) \cup Shl(toa(w), 4) \cup ftoa(w)

full_toa(w) == Shl(stime(w), 18) \cup Shl(toa(w), 4) \cup ftoa(w)

\* counter is mRolloverCounter, a word of four bits.
parsed_packet(w, counter) ==
    Shl(x(w), 56) \cup Shl(y(w), 48)
        \cup (Shl(tot(w), 38) \cup Shl(counter, 34) \cup full_toa(w))

-----------------------------------------------------------------------------
(* struct Packet of ClusteringManager.cpp; handlePackets of                *)
(* HistogramManager.cpp reads x and y in the same way.                     *)

PacketX(v) == Shr(v, 56) \cap Mask(0, 8)
PacketY(v) == Shr(v, 48) \cap Mask(0, 8)
PacketT(v) == v \cap Mask(0, 38)
PacketToT(v) == Shr(v, 38) \cap Mask(0, 10)

\* hist_ix = x + y * 256
HistIx(v) == PacketX(v) \cup Shl(PacketY(v), 8)

\* Mutant of toRawValue: y is put one bit too low.
toRawValueLow(xmean, ymean, tmean) ==
    Shl(xmean \cap Mask(0, 8), 56) \cup Shl(ymean \cap Mask(0, 8), 47)
        \cup (tmean \cap Mask(0, 38))

\* Cluster::toRawValue, for means whose integer parts are these words.
toRawValue(xmean, ymean, tmean) ==
    Shl(xmean \cap Mask(0, 8), 56) \cup Shl(ymean \cap Mask(0, 8), 48)
        \cup (tmean \cap Mask(0, 38))

-----------------------------------------------------------------------------
(* The system: words pass through the three programs.                      *)

CONSTANTS
    RawWords,   \* the words the chip sends
    Counters    \* the values of mRolloverCounter

ASSUME WordsAssumption ==
    /\ RawWords \subseteq SUBSET Bits
    /\ Counters \subseteq SUBSET Mask(0, 4)

VARIABLES
    raw,        \* the word the chip sent, and the counter it met
    counter,
    word,       \* the word as it was published ...
    cluster,    \* ... and that of a cluster of this one click
    stage

vars == <<raw, counter, word, cluster, stage>>

Init ==
    /\ raw \in RawWords /\ counter \in Counters
    /\ word = {} /\ cluster = {} /\ stage = "received"

\* publishRawData; other packets are skipped.
Publish ==
    /\ stage = "received"
    /\ IsPixel(raw)
    /\ word' = parsed_packet(raw, counter)
    /\ stage' = "published"
    /\ UNCHANGED <<raw, counter, cluster>>

Skip ==
    /\ stage = "received"
    /\ ~IsPixel(raw)
    /\ stage' = "skipped"
    /\ UNCHANGED <<raw, counter, word, cluster>>

\* The cluster of one click, published by handlePackets or flush.
Cluster ==
    /\ stage = "published"
    /\ cluster' = toRawValue(PacketX(word), PacketY(word), PacketT(word))
    /\ stage' = "clustered"
    /\ UNCHANGED <<raw, counter, word>>

Next == Publish \/ Skip \/ Cluster

Spec == Init /\ [][Next]_vars

-----------------------------------------------------------------------------
(* Properties                                                              *)

TypeOK ==
    /\ raw \in SUBSET Bits /\ counter \in SUBSET Mask(0, 4)
    /\ word \in SUBSET Bits /\ cluster \in SUBSET Bits
    /\ stage \in {"received", "skipped", "published", "clustered"}

Published == stage \in {"published", "clustered"}

\* The format publishRawData announces: no field of the published word touches
\* another, so the readers find the time over threshold and, from the top, the
\* rollover counter and the coarse, middle and fine time the chip measured, the
\* fine time counting down.
FieldsSurvive ==
    Published =>
        /\ \A b \in 0 .. 9 : b \in PacketToT(word) <=> b + 20 \in raw
        /\ \A b \in 0 .. 3 : b + 34 \in PacketT(word) <=> b \in counter
        /\ \A b \in 0 .. 15 : b + 18 \in PacketT(word) <=> b \in raw
        /\ \A b \in 0 .. 13 : b + 4 \in PacketT(word) <=> b + 30 \in raw
        /\ \A b \in 0 .. 3 : b \in PacketT(word) <=> b + 16 \notin raw

\* The address decoding loses nothing: the raw address can be computed from the
\* coordinates, so no two pixels share a bin.
PixelOf(v) ==
    (PacketX(v) \cap Mask(0, 2)) \cup Shl(PacketX(v) \cap Mask(2, 6), 1)
        \cup Shl(PacketY(v) \cap {0}, 2) \cup Shl(PacketY(v) \cap Mask(1, 7), 8)

PixelsDistinct ==
    Published => /\ PixelOf(word) = addr(raw)
                 /\ HistIx(word) \subseteq Mask(0, 16)

\* The word of a cluster of one click has the place and the time of the click.
ClusterOfOne ==
    stage = "clustered" =>
        /\ PixelOf(cluster) = addr(raw)
        /\ PacketT(cluster) = PacketT(word)

============================================================================
