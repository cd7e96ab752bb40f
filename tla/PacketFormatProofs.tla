------------------------ MODULE PacketFormatProofs -------------------------
(***************************************************************************)
(* Theorems about PacketFormat: the published words carry what the chip    *)
(* measured, for every packet and every value of the counter.              *)
(***************************************************************************)
EXTENDS PacketFormat, TLAPS

\* The bits of the decoded fields, one by one.
LEMMA XBits ==
  ASSUME NEW w \in SUBSET Bits, NEW b \in Int
  PROVE  b \in x(w) <=> \/ b \in 0 .. 1 /\ b + 44 \in w
                        \/ b \in 2 .. 7 /\ b + 45 \in w
<1>1. \A i \in Int : i \in addr(w) <=> i \in 0 .. 15 /\ i + 44 \in w
  BY DEF addr, Shr, Mask, Bits
<1> QED BY <1>1 DEF x, Shr, Mask, Bits

LEMMA YBits ==
  ASSUME NEW w \in SUBSET Bits, NEW b \in Int
  PROVE  b \in y(w) <=> \/ b = 0 /\ 46 \in w
                        \/ b \in 1 .. 7 /\ b + 52 \in w
<1>1. \A i \in Int : i \in addr(w) <=> i \in 0 .. 15 /\ i + 44 \in w
  BY DEF addr, Shr, Mask, Bits
<1> QED BY <1>1 DEF y, Shr, Mask, Bits

LEMMA ToTBits ==
  ASSUME NEW w \in SUBSET Bits, NEW b \in Int
  PROVE  b \in tot(w) <=> b \in 0 .. 9 /\ b + 20 \in w
BY DEF tot, Shr, Mask, Bits

LEMMA TimeBits ==
  ASSUME NEW w \in SUBSET Bits, NEW b \in Int
  PROVE  b \in full_toa(w) <=> \/ b \in 0 .. 3 /\ b + 16 \notin w
                               \/ b \in 4 .. 17 /\ b + 26 \in w
                               \/ b \in 18 .. 33 /\ b - 18 \in w
<1>1. \A i \in Int : i \in ftoa(w) <=> i \in 0 .. 3 /\ i + 16 \notin w
  BY DEF ftoa, Xor, Shr, Mask, Bits
<1>2. \A i \in Int : i \in toa(w) <=> i \in 0 .. 13 /\ i + 30 \in w
  BY DEF toa, Shr, Mask, Bits
<1>3. \A i \in Int : i \in stime(w) <=> i \in 0 .. 15 /\ i \in w
  BY DEF stime, Mask, Bits
<1>4. b \in Shl(toa(w), 4) <=> b \in 4 .. 17 /\ b + 26 \in w
  BY <1>2 DEF Shl, Bits
<1>5. b \in Shl(stime(w), 18) <=> b \in 18 .. 33 /\ b - 18 \in w
  BY <1>3 DEF Shl, Bits
<1> QED BY <1>1, <1>4, <1>5 DEF full_toa

(***************************************************************************)
(* The fields of a published word, as the readers cut them out.            *)
(***************************************************************************)
LEMMA Layout ==
  ASSUME NEW w \in SUBSET Bits, NEW c \in SUBSET Mask(0, 4)
  PROVE  LET v == parsed_packet(w, c)
         IN  /\ v \in SUBSET Bits
             /\ PacketX(v) = x(w) /\ PacketY(v) = y(w) /\ PacketToT(v) = tot(w)
             /\ PacketT(v) = full_toa(w) \cup Shl(c, 34)
<1> DEFINE v == parsed_packet(w, c)
<1>1. \A b \in Int : b \in v <=>
        \/ b \in 56 .. 63 /\ b - 56 \in x(w)
        \/ b \in 48 .. 55 /\ b - 48 \in y(w)
        \/ b \in 38 .. 47 /\ b - 38 \in tot(w)
        \/ b \in 34 .. 37 /\ b - 34 \in c
        \/ b \in 0 .. 33 /\ b \in full_toa(w)
  <2> SUFFICES ASSUME NEW b \in Int
               PROVE  b \in v <=> \/ b \in 56 .. 63 /\ b - 56 \in x(w)
                                  \/ b \in 48 .. 55 /\ b - 48 \in y(w)
                                  \/ b \in 38 .. 47 /\ b - 38 \in tot(w)
                                  \/ b \in 34 .. 37 /\ b - 34 \in c
                                  \/ b \in 0 .. 33 /\ b \in full_toa(w)
    OBVIOUS
  <2>1. b \in Shl(x(w), 56) <=> b \in 56 .. 63 /\ b - 56 \in x(w)
    BY XBits DEF Shl, Bits
  <2>2. b \in Shl(y(w), 48) <=> b \in 48 .. 55 /\ b - 48 \in y(w)
    BY YBits DEF Shl, Bits
  <2>3. b \in Shl(tot(w), 38) <=> b \in 38 .. 47 /\ b - 38 \in tot(w)
    BY ToTBits DEF Shl, Bits
  <2>4. b \in Shl(c, 34) <=> b \in 34 .. 37 /\ b - 34 \in c
    BY DEF Shl, Bits, Mask
  <2>5. b \in full_toa(w) <=> b \in 0 .. 33 /\ b \in full_toa(w)
    BY TimeBits
  <2> QED BY <2>1, <2>2, <2>3, <2>4, <2>5 DEF parsed_packet
<1>2. v \in SUBSET Bits
  <2>1. full_toa(w) \subseteq Bits
    BY DEF full_toa, Shl, ftoa, Xor, Shr, Mask, Bits, toa, stime
  <2> QED BY <2>1 DEF parsed_packet, Shl
<1> HIDE DEF v
<1>3. PacketX(v) = x(w)
  <2>1. \A b \in Int : b \in PacketX(v) <=> b \in 0 .. 7 /\ b + 56 \in v
    BY <1>2 DEF PacketX, Shr, Mask, Bits
  <2>2. x(w) \subseteq Int /\ PacketX(v) \subseteq Int
    BY DEF x, addr, Shr, Mask, Bits, PacketX
  <2>3. \A b \in Int : b \in x(w) => b \in 0 .. 7
    BY XBits
  <2>4. \A b \in 0 .. 7 : b + 56 \in v <=> b \in x(w)
    BY <1>1
  <2> QED BY <2>1, <2>2, <2>3, <2>4
<1>4. PacketY(v) = y(w)
  <2>1. \A b \in Int : b \in PacketY(v) <=> b \in 0 .. 7 /\ b + 48 \in v
    BY <1>2 DEF PacketY, Shr, Mask, Bits
  <2>2. y(w) \subseteq Int /\ PacketY(v) \subseteq Int
    BY DEF y, addr, Shr, Mask, Bits, PacketY
  <2>3. \A b \in Int : b \in y(w) => b \in 0 .. 7
    BY YBits
  <2>4. \A b \in 0 .. 7 : b + 48 \in v <=> b \in y(w)
    BY <1>1
  <2> QED BY <2>1, <2>2, <2>3, <2>4
<1>5. PacketToT(v) = tot(w)
  <2>1. \A b \in Int : b \in PacketToT(v) <=> b \in 0 .. 9 /\ b + 38 \in v
    BY <1>2 DEF PacketToT, Shr, Mask, Bits
  <2>2. tot(w) \subseteq Int /\ PacketToT(v) \subseteq Int
    BY DEF tot, Shr, Mask, Bits, PacketToT
  <2>3. \A b \in Int : b \in tot(w) => b \in 0 .. 9
    BY ToTBits
  <2>4. \A b \in 0 .. 9 : b + 38 \in v <=> b \in tot(w)
    BY <1>1
  <2> QED BY <2>1, <2>2, <2>3, <2>4
<1>6. PacketT(v) = full_toa(w) \cup Shl(c, 34)
  <2>1. \A b \in Int : b \in PacketT(v) <=> b \in 0 .. 37 /\ b \in v
    BY DEF PacketT, Mask
  <2>2. PacketT(v) \subseteq Int /\ full_toa(w) \subseteq Int /\ Shl(c, 34) \subseteq Int
    BY <1>2 DEF PacketT, full_toa, Shl, ftoa, Xor, Shr, Mask, Bits
  <2>3. \A b \in Int : b \in Shl(c, 34) <=> b \in 34 .. 37 /\ b - 34 \in c
    BY DEF Shl, Bits, Mask
  <2>4. \A b \in Int : b \in full_toa(w) => b \in 0 .. 33
    BY TimeBits
  <2>5. \A b \in 0 .. 37 : b \in v <=> b \in full_toa(w) \/ b \in Shl(c, 34)
    BY <1>1, <2>3, <2>4
  <2> QED BY <2>1, <2>2, <2>3, <2>4, <2>5
<1> QED BY <1>2, <1>3, <1>4, <1>5, <1>6 DEF v

\* The words are sets of bits, as the operators build them.
LEMMA WordTypes == Spec => []TypeOK
<1>1. Init => TypeOK
  BY WordsAssumption DEF Init, TypeOK
<1>2. TypeOK /\ [Next]_vars => TypeOK'
  <2> SUFFICES ASSUME TypeOK, [Next]_vars PROVE TypeOK'
    OBVIOUS
  <2>1. CASE Publish
    BY <2>1, Layout DEF Publish, TypeOK
  <2>2. CASE Skip
    BY <2>2 DEF Skip, TypeOK
  <2>3. CASE Cluster
    BY <2>3 DEF Cluster, TypeOK, toRawValue, Shl, Mask, Bits
  <2>4. CASE UNCHANGED vars
    BY <2>4 DEF vars, TypeOK
  <2> QED BY <2>1, <2>2, <2>3, <2>4 DEF Next
<1> QED BY <1>1, <1>2, PTL DEF Spec

\* What has been published is the decoded packet; the cluster is that of it.
WordInv ==
  /\ TypeOK
  /\ Published => word = parsed_packet(raw, counter)
  /\ stage = "clustered" =>
       cluster = toRawValue(PacketX(word), PacketY(word), PacketT(word))

LEMMA WordInvariance == Spec => []WordInv
<1>1. Init => WordInv
  BY WordsAssumption DEF Init, WordInv, TypeOK, Published
<1>2. WordInv /\ TypeOK' /\ [Next]_vars => WordInv'
  BY DEF WordInv, Published, Next, Publish, Skip, Cluster, vars
<1> QED BY <1>1, <1>2, WordTypes, PTL DEF Spec

\* FieldsSurvive: the readers find in a published word the time over threshold,
\* the counter and the time of arrival of publishRawData, for every packet.
THEOREM FieldsCorrect == Spec => []FieldsSurvive
<1>1. WordInv => FieldsSurvive
  <2> SUFFICES ASSUME WordInv, Published PROVE FieldsSurvive
    BY DEF FieldsSurvive
  <2>1. /\ PacketToT(word) = tot(raw)
        /\ PacketT(word) = full_toa(raw) \cup Shl(counter, 34)
    BY Layout DEF WordInv, TypeOK
  <2>2. raw \in SUBSET Bits /\ counter \in SUBSET Mask(0, 4)
    BY DEF WordInv, TypeOK
  <2>3. \A b \in Int : b \in Shl(counter, 34) <=> b \in 34 .. 37 /\ b - 34 \in counter
    BY <2>2 DEF Shl, Bits, Mask
  <2>4. \A b \in 0 .. 9 : b \in PacketToT(word) <=> b + 20 \in raw
    BY <2>1, <2>2, ToTBits
  <2>5. \A b \in 0 .. 3 : b + 34 \in PacketT(word) <=> b \in counter
    BY <2>1, <2>2, <2>3, TimeBits
  <2>6. \A b \in 0 .. 15 : b + 18 \in PacketT(word) <=> b \in raw
    BY <2>1, <2>2, <2>3, TimeBits
  <2>7. \A b \in 0 .. 13 : b + 4 \in PacketT(word) <=> b + 30 \in raw
    BY <2>1, <2>2, <2>3, TimeBits
  <2>8. \A b \in 0 .. 3 : b \in PacketT(word) <=> b + 16 \notin raw
    BY <2>1, <2>2, <2>3, TimeBits
  <2> QED BY <2>4, <2>5, <2>6, <2>7, <2>8 DEF FieldsSurvive
<1> QED BY <1>1, WordInvariance, PTL

\* The raw address from the coordinates, for any word that has them.
LEMMA Decode ==
  ASSUME NEW w \in SUBSET Bits, NEW v, PacketX(v) = x(w), PacketY(v) = y(w)
  PROVE  PixelOf(v) = addr(w)
<1>1. \A i \in Int : i \in addr(w) <=> i \in 0 .. 15 /\ i + 44 \in w
  BY DEF addr, Shr, Mask, Bits
<1>2. addr(w) \subseteq Int /\ x(w) \subseteq Int /\ y(w) \subseteq Int
  BY DEF addr, x, y, Shr, Mask, Bits
<1> DEFINE x1 == x(w) \cap Mask(0, 2)
           x2 == Shl(x(w) \cap Mask(2, 6), 1)
           y1 == Shl(y(w) \cap {0}, 2)
           y2 == Shl(y(w) \cap Mask(1, 7), 8)
<1>3. \A i \in Int : i \in x1 <=> i \in 0 .. 1 /\ i + 44 \in w
  BY XBits DEF Mask
<1>4. \A i \in Int : i \in x2 <=> i \in 3 .. 8 /\ i + 44 \in w
  BY XBits DEF Shl, Mask, Bits
<1>5. \A i \in Int : i \in y1 <=> i = 2 /\ i + 44 \in w
  BY YBits DEF Shl, Bits
<1>6. \A i \in Int : i \in y2 <=> i \in 9 .. 15 /\ i + 44 \in w
  BY YBits DEF Shl, Mask, Bits
<1>7. PixelOf(v) = x1 \cup x2 \cup y1 \cup y2
  BY DEF PixelOf
<1>8. x1 \subseteq Int /\ x2 \subseteq Int /\ y1 \subseteq Int /\ y2 \subseteq Int
  BY <1>2 DEF Shl, Bits
<1> HIDE DEF x1, x2, y1, y2
<1>9. \A i \in Int : i \in addr(w) <=> i \in x1 \/ i \in x2 \/ i \in y1 \/ i \in y2
  BY <1>1, <1>3, <1>4, <1>5, <1>6
<1> QED BY <1>2, <1>7, <1>8, <1>9

\* PixelsDistinct: two pixels of the chip never share a pair of coordinates or a
\* bin of the histogram.
THEOREM PixelsCorrect == Spec => []PixelsDistinct
<1>1. WordInv => PixelsDistinct
  <2> SUFFICES ASSUME WordInv, Published PROVE PixelsDistinct
    BY DEF PixelsDistinct
  <2>1. /\ PacketX(word) = x(raw) /\ PacketY(word) = y(raw)
        /\ raw \in SUBSET Bits
    BY Layout DEF WordInv, TypeOK
  <2>2. PixelOf(word) = addr(raw)
    BY <2>1, Decode
  <2>3. HistIx(word) \subseteq Mask(0, 16)
    BY DEF HistIx, PacketX, PacketY, Shl, Shr, Mask, Bits
  <2> QED BY <2>2, <2>3 DEF PixelsDistinct
<1> QED BY <1>1, WordInvariance, PTL

\* The fields of the word of a cluster.
LEMMA ClusterLayout ==
  ASSUME NEW px \in SUBSET (0 .. 7), NEW py \in SUBSET (0 .. 7),
         NEW pt \in SUBSET (0 .. 37)
  PROVE  LET v == toRawValue(px, py, pt)
         IN  PacketX(v) = px /\ PacketY(v) = py /\ PacketT(v) = pt
<1> DEFINE v == toRawValue(px, py, pt)
<1>0. /\ \A b \in px : b \in Int /\ b \in 0 .. 7
      /\ \A b \in py : b \in Int /\ b \in 0 .. 7
      /\ \A b \in pt : b \in Int /\ b \in 0 .. 37
  OBVIOUS
<1>1. px \cap Mask(0, 8) = px /\ py \cap Mask(0, 8) = py /\ pt \cap Mask(0, 38) = pt
  <2>1. Mask(0, 8) = 0 .. 7 /\ Mask(0, 38) = 0 .. 37
    BY DEF Mask
  <2> QED BY <2>1
<1>2. \A b \in Int : b \in Shl(px, 56) <=> b \in 56 .. 63 /\ b - 56 \in px
  BY DEF Shl, Bits
<1>3. \A b \in Int : b \in Shl(py, 48) <=> b \in 48 .. 55 /\ b - 48 \in py
  BY DEF Shl, Bits
<1>4. v = Shl(px, 56) \cup Shl(py, 48) \cup pt
  BY <1>1 DEF toRawValue
<1> HIDE DEF v
<1>5. \A b \in Int : b \in v <=> \/ b \in 56 .. 63 /\ b - 56 \in px
                                 \/ b \in 48 .. 55 /\ b - 48 \in py
                                 \/ b \in pt
  <2> SUFFICES ASSUME NEW b \in Int
               PROVE  b \in v <=> \/ b \in 56 .. 63 /\ b - 56 \in px
                                  \/ b \in 48 .. 55 /\ b - 48 \in py
                                  \/ b \in pt
    OBVIOUS
  <2>1. b \in v <=> b \in Shl(px, 56) \/ b \in Shl(py, 48) \/ b \in pt
    BY <1>4
  <2> QED BY <1>2, <1>3, <2>1
<1>6. PacketX(v) = px
  <2>1. \A b \in 0 .. 7 : b + 56 \in v <=> b \in px
    <3> SUFFICES ASSUME NEW b \in 0 .. 7 PROVE b + 56 \in v <=> b \in px
      OBVIOUS
    <3>1. b + 56 \notin pt /\ b + 56 \in Int /\ (b + 56) - 56 = b
      BY <1>0
    <3> QED BY <1>5, <3>1
  <2>2. \A b \in Int : b \in PacketX(v) <=> b \in 0 .. 7 /\ b + 56 \in v
    BY DEF PacketX, Shr, Mask, Bits
  <2>3. PacketX(v) \subseteq Int
    BY DEF PacketX, Mask
  <2> QED BY <1>0, <2>1, <2>2, <2>3
<1>7. PacketY(v) = py
  <2>1. \A b \in 0 .. 7 : b + 48 \in v <=> b \in py
    BY <1>0, <1>5
  <2>2. \A b \in Int : b \in PacketY(v) <=> b \in 0 .. 7 /\ b + 48 \in v
    BY DEF PacketY, Shr, Mask, Bits
  <2>3. PacketY(v) \subseteq Int
    BY DEF PacketY, Mask
  <2> QED BY <1>0, <2>1, <2>2, <2>3
<1>8. PacketT(v) = pt
  <2>1. \A b \in 0 .. 37 : b \in v <=> b \in pt
    BY <1>0, <1>5
  <2>2. \A b : b \in PacketT(v) <=> b \in 0 .. 37 /\ b \in v
    BY DEF PacketT, Mask
  <2>3. \A b : b \in PacketT(v) <=> b \in pt
    BY <1>0, <2>1, <2>2
  <2> QED BY <2>3
<1> QED BY <1>6, <1>7, <1>8 DEF v

\* ClusterOfOne: the word of a cluster of one click has its place and time.
THEOREM ClusterCorrect == Spec => []ClusterOfOne
<1>1. WordInv => ClusterOfOne
  <2> SUFFICES ASSUME WordInv, stage = "clustered" PROVE ClusterOfOne
    BY DEF ClusterOfOne
  <2>1. /\ PacketX(word) = x(raw) /\ PacketY(word) = y(raw)
        /\ raw \in SUBSET Bits
    BY Layout DEF WordInv, TypeOK, Published
  <2>2. cluster = toRawValue(PacketX(word), PacketY(word), PacketT(word))
    BY DEF WordInv
  <2>3. /\ PacketX(word) \in SUBSET (0 .. 7) /\ PacketY(word) \in SUBSET (0 .. 7)
        /\ PacketT(word) \in SUBSET (0 .. 37)
    BY DEF PacketX, PacketY, PacketT, Mask
  <2>4. /\ PacketX(cluster) = PacketX(word) /\ PacketY(cluster) = PacketY(word)
        /\ PacketT(cluster) = PacketT(word)
    BY <2>2, <2>3, ClusterLayout
  <2>5. PixelOf(cluster) = addr(raw)
    BY <2>1, <2>4, Decode
  <2> QED BY <2>4, <2>5 DEF ClusterOfOne
<1> QED BY <1>1, WordInvariance, PTL

============================================================================
