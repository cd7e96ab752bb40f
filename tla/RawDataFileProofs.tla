------------------------- MODULE RawDataFileProofs -------------------------
(***************************************************************************)
(* Theorems about RawDataFile, for any paths, packets, size of chunks and  *)
(* length of the behaviour.                                                *)
(***************************************************************************)
EXTENDS RawDataFile, TLAPS

\* The stream writes to the file the client has asked for last.
AskedInv == mFile.open => path \in Paths /\ asked = path

FileInv == TypeOK /\ AskedInv /\ FileReadable /\ SavedIsPublished

LEMMA Clicks ==
  ASSUME NEW clicks \in UpTo(Packets, MaxChunk)
  PROVE  /\ clicks \in Seq(Packets) /\ Len(clicks) \in 0 .. MaxChunk
         /\ clicks = << >> <=> Len(clicks) = 0
<1>1. PICK n \in 0 .. MaxChunk : clicks \in [1 .. n -> Packets]
  BY DEF UpTo
<1> QED BY <1>1, SizeAssumption

LEMMA Prefix ==
  ASSUME NEW clicks \in UpTo(Packets, MaxChunk), NEW k \in 0 .. Len(clicks)
  PROVE  LET s == [j \in 1 .. k |-> clicks[j]]
         IN  /\ s \in UpTo(Packets, MaxChunk) /\ Len(s) = k
             /\ \A j \in 1 .. k : s[j] = clicks[j]
             /\ k = Len(clicks) => s = clicks
<1> DEFINE s == [j \in 1 .. k |-> clicks[j]]
<1>1. clicks \in Seq(Packets) /\ Len(clicks) \in 0 .. MaxChunk
  BY Clicks
<1>2. s \in [1 .. k -> Packets] /\ \A j \in 1 .. k : s[j] = clicks[j]
  BY <1>1
<1>3. Len(s) = k
  BY <1>1
<1>4. k = Len(clicks) => s = clicks
  BY <1>1
<1> HIDE DEF s
<1>5. s \in UpTo(Packets, MaxChunk)
  BY <1>1, <1>2, SizeAssumption DEF UpTo
<1> QED BY <1>2, <1>3, <1>4, <1>5 DEF s

\* The size field is wide enough for a chunk.
LEMMA HeaderExact ==
  ASSUME NEW n \in 0 .. MaxChunk
  PROVE  HeaderSize(n) = PacketBytes * n /\ HeaderSize(n) \in 0 .. SizeMod - 1
<1>1. PacketBytes * n <= PacketBytes * MaxChunk /\ PacketBytes * n \in Nat
  BY SizeAssumption
<1>2. PacketBytes * n \in 0 .. SizeMod - 1
  BY <1>1, SizeAssumption
<1>3. (PacketBytes * n) % SizeMod = PacketBytes * n
  BY <1>2, SizeAssumption
<1> QED BY <1>2, <1>3 DEF HeaderSize

LEMMA WrittenFacts ==
  ASSUME NEW clicks \in UpTo(Packets, MaxChunk), NEW k \in 0 .. Len(clicks)
  PROVE  LET c == Written(clicks, k)
         IN  /\ c \in Chunk
             /\ c.size = PacketBytes * Len(clicks) /\ Len(c.packets) = k
             /\ k = Len(clicks) => Complete(c) /\ c.packets = clicks
             /\ k # Len(clicks) => CutShort(c)
             /\ \A j \in 1 .. k : c.packets[j] = clicks[j]
<1>1. Len(clicks) \in 0 .. MaxChunk
  BY Clicks
<1>2. HeaderSize(Len(clicks)) = PacketBytes * Len(clicks)
      /\ HeaderSize(Len(clicks)) \in 0 .. SizeMod - 1
  BY <1>1, HeaderExact
<1>3. k # Len(clicks) => PacketBytes * Len(clicks) > PacketBytes * k
  BY <1>1, SizeAssumption
<1> QED BY <1>2, <1>3, Prefix DEF Written, Chunk, Complete, CutShort

-----------------------------------------------------------------------------
\* A chunk of k packets, all of which fit the disk or not, is appended.
Appends(clicks, k) ==
  /\ clicks # << >> /\ mFile.good /\ mFile.open
  /\ disk' = [disk EXCEPT ![path] = Append(@, Written(clicks, k))]
  /\ mFile' = [mFile EXCEPT !.good = (k = Len(clicks))]
  /\ published' = Append(published, clicks)
  /\ UNCHANGED <<path, from, asked, response, commands>>

\* A message of which nothing gets into a file.
WritesNothing(clicks) ==
  /\ disk' = disk
  /\ mFile' \in {mFile, [mFile EXCEPT !.good = FALSE]}
  /\ \/ clicks = << >> /\ published' = published /\ mFile' = mFile
     \/ /\ published' = Append(published, clicks)
        /\ ~mFile'.good
  /\ UNCHANGED <<path, from, asked, response, commands>>

LEMMA MessageCases ==
  ASSUME TypeOK, NEW clicks \in UpTo(Packets, MaxChunk), handleMessage(clicks)
  PROVE  \/ WritesNothing(clicks)
         \/ \E k \in 0 .. Len(clicks) : Appends(clicks, k)
<1>1. mFile \in [open : BOOLEAN, good : BOOLEAN]
  BY DEF TypeOK
<1>2. /\ published' = IF clicks = << >> THEN published ELSE Append(published, clicks)
      /\ UNCHANGED <<path, from, asked, response, commands>>
  BY DEF handleMessage
<1>3. CASE (clicks = << >> \/ ~mFile.good) /\ UNCHANGED <<mFile, disk>>
  BY <1>1, <1>2, <1>3 DEF WritesNothing
<1>4. CASE /\ clicks # << >> /\ mFile' = [mFile EXCEPT !.good = FALSE]
           /\ UNCHANGED disk
  BY <1>1, <1>2, <1>4 DEF WritesNothing
<1>5. CASE /\ clicks # << >> /\ mFile.good /\ mFile.open
           /\ \E k \in 0 .. Len(clicks) :
                 /\ disk' = [disk EXCEPT ![path] = Append(@, Written(clicks, k))]
                 /\ mFile' = [mFile EXCEPT !.good = (k = Len(clicks))]
  BY <1>2, <1>5 DEF Appends
<1> QED BY <1>3, <1>4, <1>5 DEF handleMessage, Save

\* What appending does to the sequences involved.
LEMMA AppendFacts ==
  ASSUME NEW S, NEW q \in Seq(S), NEW e \in S
  PROVE  /\ Append(q, e) \in Seq(S) /\ Len(Append(q, e)) = Len(q) + 1
         /\ Append(q, e) # << >>
         /\ \A i \in 1 .. Len(q) : Append(q, e)[i] = q[i]
         /\ Append(q, e)[Len(q) + 1] = e
OBVIOUS

LEMMA InitFile == Init => FileInv
<1> SUFFICES ASSUME Init PROVE FileInv
  OBVIOUS
<1>1. TypeOK
  <2>1. disk \in [Paths -> Seq(Chunk)] /\ published \in Seq(UpTo(Packets, MaxChunk))
    BY DEF Init
  <2>2. Len(published) = 0
    BY DEF Init
  <2> QED BY <2>1, <2>2, FileBoundsAssumption DEF Init, TypeOK
<1>2. AskedInv /\ SavedIsPublished
  BY DEF Init, AskedInv, SavedIsPublished
<1>3. FileReadable
  <2>1. \A p \in Paths : Len(disk[p]) = 0
    BY DEF Init
  <2> QED BY <2>1 DEF FileReadable
<1> QED BY <1>1, <1>2, <1>3 DEF FileInv

LEMMA NothingStep ==
  ASSUME FileInv, NEW clicks \in UpTo(Packets, MaxChunk), WritesNothing(clicks)
  PROVE  FileInv'
<1> USE DEF FileInv
<1>1. /\ mFile \in [open : BOOLEAN, good : BOOLEAN]
      /\ mFile' \in [open : BOOLEAN, good : BOOLEAN]
      /\ mFile'.open = mFile.open /\ (mFile'.good => mFile.good)
  BY DEF TypeOK, WritesNothing
<1>2. published \in Seq(UpTo(Packets, MaxChunk)) /\ from \in 0 .. Len(published)
  BY DEF TypeOK
<1>3. /\ published' \in Seq(UpTo(Packets, MaxChunk))
      /\ Len(published') >= Len(published)
      /\ \A i \in 1 .. Len(published) : published'[i] = published[i]
      /\ mFile'.good => published' = published
  BY <1>2, AppendFacts DEF WritesNothing
<1>4. TypeOK'
  <2>1. from' \in 0 .. Len(published')
    BY <1>2, <1>3 DEF WritesNothing
  <2> QED BY <1>1, <1>3, <2>1 DEF TypeOK, WritesNothing
<1>5. AskedInv' /\ FileReadable'
  <2>1. AskedInv'
    BY <1>1 DEF AskedInv, WritesNothing
  <2>2. disk' = disk /\ path' = path
    BY DEF WritesNothing
  <2>3. FileReadable'
    BY <1>1, <2>2 DEF FileReadable
  <2> QED BY <2>1, <2>3
<1>6. SavedIsPublished'
  <2> SUFFICES ASSUME mFile'.open PROVE SavedIsPublished'
    BY DEF SavedIsPublished
  <2>1. mFile.open /\ disk' = disk /\ path' = path /\ from' = from /\ path \in Paths
    BY <1>1 DEF WritesNothing, AskedInv
  <2>2. Len(disk[path]) \in Nat
    BY <2>1 DEF TypeOK
  <2>3. Len(disk[path]) <= Len(published') - from
    BY <1>2, <1>3, <2>1, <2>2 DEF SavedIsPublished
  <2>4. mFile'.good => Len(disk[path]) = Len(published') - from
    BY <1>1, <1>3, <2>1 DEF SavedIsPublished
  <2>5. \A i \in 1 .. Len(disk[path]) : published'[from + i] = published[from + i]
    <3>1. Len(disk[path]) <= Len(published) - from
      BY <2>1 DEF SavedIsPublished
    <3>2. \A i \in 1 .. Len(disk[path]) : from + i \in 1 .. Len(published)
      BY <1>2, <2>2, <3>1
    <3> QED BY <1>3, <3>2
  <2> QED BY <1>1, <2>1, <2>3, <2>4, <2>5 DEF SavedIsPublished
<1> QED BY <1>4, <1>5, <1>6

LEMMA AppendStep ==
  ASSUME FileInv, NEW clicks \in UpTo(Packets, MaxChunk),
         NEW k \in 0 .. Len(clicks), Appends(clicks, k)
  PROVE  FileInv'
<1> USE DEF FileInv
<1> DEFINE c == Written(clicks, k)
           q == disk[path]
<1>1. /\ mFile \in [open : BOOLEAN, good : BOOLEAN] /\ mFile.open /\ mFile.good
      /\ mFile' \in [open : BOOLEAN, good : BOOLEAN] /\ mFile'.open
      /\ mFile'.good <=> k = Len(clicks)
  BY DEF TypeOK, Appends
<1>2. /\ path \in Paths /\ q \in Seq(Chunk)
      /\ published \in Seq(UpTo(Packets, MaxChunk)) /\ from \in 0 .. Len(published)
  BY <1>1 DEF TypeOK, AskedInv
<1>3. /\ c \in Chunk /\ Len(c.packets) = k
      /\ k = Len(clicks) => Complete(c) /\ c.packets = clicks
      /\ k # Len(clicks) => CutShort(c)
      /\ \A j \in 1 .. k : c.packets[j] = clicks[j]
  BY WrittenFacts
<1>4. Len(clicks) \in Nat
  BY Clicks, SizeAssumption
<1> HIDE DEF c
<1>5. /\ disk' \in [Paths -> Seq(Chunk)]
      /\ disk'[path] = Append(q, c)
      /\ \A p \in Paths \ {path} : disk'[p] = disk[p]
  BY <1>2, <1>3, AppendFacts DEF TypeOK, Appends, c
<1>6. /\ Len(disk'[path]) = Len(q) + 1
      /\ \A i \in 1 .. Len(q) : disk'[path][i] = q[i]
      /\ disk'[path][Len(q) + 1] = c
  BY <1>2, <1>3, <1>5, AppendFacts
<1>7. /\ published' \in Seq(UpTo(Packets, MaxChunk))
      /\ Len(published') = Len(published) + 1
      /\ \A i \in 1 .. Len(published) : published'[i] = published[i]
      /\ published'[Len(published) + 1] = clicks
  BY <1>2, AppendFacts DEF Appends
<1>8. UNCHANGED <<path, from, asked, response, commands>>
  BY DEF Appends
<1> HIDE DEF q
<1>9. Len(q) \in Nat
  BY <1>2
<1>10. TypeOK' /\ AskedInv'
  <2>1. from' \in 0 .. Len(published')
    BY <1>2, <1>7, <1>8
  <2> QED BY <1>1, <1>2, <1>5, <1>7, <1>8, <2>1 DEF TypeOK, AskedInv
<1>11. FileReadable'
  <2> SUFFICES ASSUME NEW p \in Paths, NEW i \in 1 .. Len(disk'[p])
               PROVE  \/ Complete(disk'[p][i])
                      \/ /\ CutShort(disk'[p][i]) /\ i = Len(disk'[p])
                         /\ ~(p = path /\ mFile'.good)
    BY <1>1, <1>8 DEF FileReadable
  <2>1. CASE p # path
    BY <1>5, <2>1 DEF FileReadable
  <2>2. CASE p = path /\ i \in 1 .. Len(q)
    BY <1>1, <1>2, <1>6, <2>2 DEF FileReadable, q
  <2>3. CASE p = path /\ i = Len(q) + 1
    BY <1>1, <1>3, <1>6, <2>3
  <2> QED BY <1>6, <1>9, <2>1, <2>2, <2>3
<1>12. SavedIsPublished'
  <2> DEFINE Saved(i) == disk'[path][i].packets
             Sent(i) == published'[from + i]
  <2>1. Len(q) = Len(published) - from
    BY <1>1 DEF SavedIsPublished, q
  <2>2. ASSUME NEW i \in 1 .. Len(q)
        PROVE  Saved(i) = Sent(i)
    <3>1. from + i \in 1 .. Len(published)
      BY <1>2, <1>9, <2>1
    <3>2. q[i].packets = published[from + i]
      BY <1>1, <2>2 DEF SavedIsPublished, q
    <3> QED BY <1>6, <1>7, <3>1, <3>2
  <2>3. Sent(Len(q) + 1) = clicks /\ Saved(Len(q) + 1) = c.packets
    <3>1. from + (Len(q) + 1) = Len(published) + 1
      BY <1>2, <1>9, <2>1
    <3> QED BY <1>6, <1>7, <3>1
  <2>4. ASSUME NEW i \in 1 .. Len(q) + 1
        PROVE  /\ Len(Saved(i)) <= Len(Sent(i))
               /\ i < Len(q) + 1 \/ mFile'.good => Saved(i) = Sent(i)
               /\ \A j \in 1 .. Len(Saved(i)) : Saved(i)[j] = Sent(i)[j]
    <3>1. CASE i \in 1 .. Len(q)
      <4>1. published'[from + i] \in UpTo(Packets, MaxChunk)
        BY <1>2, <1>7, <1>9, <2>1, <3>1
      <4>2. Len(Sent(i)) \in Nat
        BY <4>1, Clicks, SizeAssumption
      <4> HIDE DEF Saved, Sent
      <4> QED BY <2>2, <3>1, <4>2
    <3>2. CASE i = Len(q) + 1
      BY <1>1, <1>3, <1>4, <1>9, <2>3, <3>2
    <3> QED BY <1>9, <3>1, <3>2
  <2>5. Len(disk'[path]) = Len(published') - from
    BY <1>2, <1>6, <1>7, <1>9, <2>1
  <2> QED BY <1>2, <1>6, <1>7, <1>8, <2>4, <2>5 DEF SavedIsPublished
<1> QED BY <1>10, <1>11, <1>12

LEMMA CommandStep ==
  ASSUME FileInv, NEW p \in Paths \cup {NoPath}, NEW opens \in BOOLEAN,
         setSaveFile(p, opens)
  PROVE  FileInv'
<1> USE DEF FileInv
<1>1. commands' \in 0 .. MaxFiles /\ asked' = p /\ published' = published
  BY FileBoundsAssumption DEF setSaveFile, TypeOK
<1>2. CASE ~mFile'.open /\ mFile' \in [open : BOOLEAN, good : BOOLEAN]
           /\ response' \in {"ok", "CANT_OPEN_FILE"} /\ UNCHANGED <<path, disk, from>>
  <2>1. TypeOK'
    BY <1>1, <1>2 DEF TypeOK
  <2>2. AskedInv' /\ SavedIsPublished'
    BY <1>2 DEF AskedInv, SavedIsPublished
  <2>3. FileReadable'
    BY <1>2 DEF FileReadable
  <2> QED BY <2>1, <2>2, <2>3
<1>3. CASE /\ p # NoPath /\ mFile' = [open |-> TRUE, good |-> TRUE]
           /\ disk' = [disk EXCEPT ![p] = << >>]
           /\ path' = p /\ from' = Len(published) /\ response' = "ok"
  <2>1. /\ p \in Paths /\ disk' \in [Paths -> Seq(Chunk)] /\ disk'[p] = << >>
        /\ \A r \in Paths \ {p} : disk'[r] = disk[r]
    BY <1>3 DEF TypeOK
  <2>2. Len(disk'[p]) = 0 /\ Len(published) \in Nat
    BY <2>1 DEF TypeOK
  <2>3. TypeOK'
    BY <1>1, <1>3, <2>1, <2>2 DEF TypeOK
  <2>4. AskedInv'
    BY <1>1, <1>3, <2>1 DEF AskedInv
  <2>5. SavedIsPublished'
    BY <1>1, <1>3, <2>2 DEF SavedIsPublished
  <2>6. FileReadable'
    BY <1>3, <2>1, <2>2 DEF FileReadable
  <2> QED BY <2>3, <2>4, <2>5, <2>6
<1>4. mFile \in [open : BOOLEAN, good : BOOLEAN]
  BY DEF TypeOK
<1>5. CASE p = NoPath
  BY <1>2, <1>4, <1>5 DEF setSaveFile
<1>6. CASE p # NoPath /\ ~opens
  <2>1. /\ mFile' = [open |-> FALSE, good |-> FALSE]
        /\ response' = "CANT_OPEN_FILE" /\ UNCHANGED <<path, disk, from>>
    BY <1>6 DEF setSaveFile
  <2> QED BY <1>2, <2>1
<1>7. CASE p # NoPath /\ opens
  BY <1>3, <1>7 DEF setSaveFile
<1> QED BY <1>5, <1>6, <1>7

-----------------------------------------------------------------------------
LEMMA FileStep == FileInv /\ [Next]_vars => FileInv'
<1> SUFFICES ASSUME FileInv, [Next]_vars PROVE FileInv'
  OBVIOUS
<1>1. ASSUME NEW clicks \in UpTo(Packets, MaxChunk), handleMessage(clicks)
      PROVE  FileInv'
  BY <1>1, MessageCases, NothingStep, AppendStep DEF FileInv
<1>2. ASSUME NEW p \in Paths \cup {NoPath}, NEW opens \in BOOLEAN,
             setSaveFile(p, opens)
      PROVE  FileInv'
  BY <1>2, CommandStep
<1>3. CASE UNCHANGED vars
  BY <1>3 DEF FileInv, TypeOK, AskedInv, FileReadable, SavedIsPublished, vars
<1> QED BY <1>1, <1>2, <1>3 DEF Next

THEOREM FileInvariance == Spec => []FileInv
BY InitFile, FileStep, PTL DEF Spec

\* Every variable of the save file keeps its type: in particular `from` never
\* passes the number of messages parseBytes has published.
THEOREM FileTypes == Spec => []TypeOK
BY FileInvariance, PTL DEF FileInv

\* Every file parseBytes writes can be read from header to header, whatever
\* fails and however long a chunk is within BUFFER_SIZE.
THEOREM FilesReadable == Spec => []FileReadable
BY FileInvariance, PTL DEF FileInv

\* The file holds what was published since setSaveFile opened it, up to the
\* first write that failed.
THEOREM SavedCorrect == Spec => []SavedIsPublished
BY FileInvariance, PTL DEF FileInv

\* setSaveFile: only the file asked for last is ever changed.
THEOREM OnlyAsked == Spec => OnlyAskedFile
<1>1. FileInv /\ [Next]_vars
      => [\A p \in Paths : disk'[p] # disk[p] => asked' = p]_vars
  <2> SUFFICES ASSUME FileInv, Next, NEW p \in Paths, disk'[p] # disk[p]
               PROVE  asked' = p
    BY Zenon
  <2>1. ASSUME NEW clicks \in UpTo(Packets, MaxChunk), handleMessage(clicks)
        PROVE  asked' = p
    <3>1. TypeOK
      BY DEF FileInv
    <3>2. PICK k \in 0 .. Len(clicks) : Appends(clicks, k)
      BY <2>1, <3>1, MessageCases DEF WritesNothing
    <3> QED BY <3>1, <3>2 DEF Appends, FileInv, AskedInv, TypeOK
  <2>2. ASSUME NEW r \in Paths \cup {NoPath}, NEW opens \in BOOLEAN,
               setSaveFile(r, opens)
        PROVE  asked' = p
    BY <2>2 DEF setSaveFile, FileInv, TypeOK
  <2> QED BY <2>1, <2>2 DEF Next
<1> QED BY FileInvariance, <1>1, PTL DEF Spec, OnlyAskedFile

============================================================================
