---------------------------- MODULE RawDataFile ----------------------------
(***************************************************************************)
(* The save file of the UDP thread: parseBytes and setSaveFile of          *)
(* UdpConnectionManager.cpp, with the command SET_RAW_TPX3_PATH of         *)
(* UdpThread.cpp.  Chunks of packets arrive over UDP; the pixel packets of *)
(* a chunk are written to the file behind a header with their size, and    *)
(* are published.  What publishRawData makes of a packet is the matter of  *)
(* UdpConnectionManager and PacketFormat.                                  *)
(*                                                                         *)
(* The thread is sequential: a chunk or a command is one step.             *)
(***************************************************************************)
EXTENDS Naturals, Sequences

CONSTANTS
    Paths,        \* the paths clients choose
    Packets,      \* the pixel packets that arrive
    SizeMod,      \* the header's size field counts modulo this: 2^16
    PacketBytes,  \* 8
    MaxChunk,     \* packets in a chunk: BUFFER_SIZE / 8
    MaxMessages,  \* bound: chunks with pixel packets in a behaviour
    MaxFiles      \* bound: commands in a behaviour

NoPath == "none"  \* the empty path

ASSUME PathsAssumption == NoPath \notin Paths
ASSUME SizeAssumption ==
    /\ PacketBytes \in Nat \ {0} /\ SizeMod \in Nat /\ MaxChunk \in Nat
    /\ PacketBytes * MaxChunk < SizeMod
ASSUME FileBoundsAssumption == MaxMessages \in Nat /\ MaxFiles \in Nat

VARIABLES
    mFile,      \* the stream: open (is_open) and good (neither failed nor bad)
    path,       \* the file it writes to when it is open
    disk,       \* the contents of the files, chunk by chunk
    published,  \* history: the non-empty messages published
    from,       \* history: how many there were when the file was opened
    asked,      \* history: the path of the last command
    response,   \* history: and what was answered
    commands    \* history: commands so far

vars == <<mFile, path, disk, published, from, asked, response, commands>>

UpTo(S, n) == UNION {[1 .. k -> S] : k \in 0 .. n}

\* A chunk in the file: the size its header announces, and the packets.
Chunk == [size : 0 .. SizeMod - 1, packets : UpTo(Packets, MaxChunk)]

-----------------------------------------------------------------------------
\* Mutant of HeaderSize: only the low byte is written (a header of 1/4 of
\* the range).
HeaderSizeLow(n) == (PacketBytes * n) % (SizeMod \div 4)

\* size_lsb and size_msb
HeaderSize(n) == (PacketBytes * n) % SizeMod

(***************************************************************************)
(* parseBytes with the pixel packets of a chunk, in their order; packets   *)
(* of other types are skipped.  The stream takes as much as the disk has   *)
(* room for: all of it, or the header and some packets, or nothing, and is *)
(* bad from then on.  (A header cut in two counts as nothing.  The disk    *)
(* holds what the stream has accepted: buffers are not modelled.)  A       *)
(* stream that is not open is good until it is written to.                 *)
(***************************************************************************)
Written(clicks, k) ==
    [size |-> HeaderSize(Len(clicks)), packets |-> [j \in 1 .. k |-> clicks[j]]]

\* Mutant of Save: what has failed before is not looked at.
SaveAnyway(clicks) ==
    \/ /\ ~mFile.open
       /\ mFile' = [mFile EXCEPT !.good = FALSE]
       /\ UNCHANGED disk
    \/ /\ mFile.open
       /\ \E k \in 0 .. Len(clicks) :
             /\ disk' = [disk EXCEPT ![path] = Append(@, Written(clicks, k))]
             /\ mFile' = [mFile EXCEPT !.good = (k = Len(clicks))]

Save(clicks) ==
    \/ /\ clicks = << >> \/ ~mFile.good
       /\ UNCHANGED <<mFile, disk>>
    \/ /\ clicks # << >> /\ mFile.good /\ ~mFile.open
       /\ mFile' = [mFile EXCEPT !.good = FALSE]
       /\ UNCHANGED disk
    \/ /\ clicks # << >> /\ mFile.good /\ mFile.open
       /\ \/ \E k \in 0 .. Len(clicks) :
                /\ disk' = [disk EXCEPT ![path] = Append(@, Written(clicks, k))]
                /\ mFile' = [mFile EXCEPT !.good = (k = Len(clicks))]
          \/ mFile' = [mFile EXCEPT !.good = FALSE] /\ UNCHANGED disk

\* A chunk of no bytes, or of a number that is no multiple of eight, is dropped
\* and changes nothing.
handleMessage(clicks) ==
    /\ clicks # << >> => Len(published) < MaxMessages
    /\ Save(clicks)
    /\ published' = IF clicks = << >> THEN published ELSE Append(published, clicks)
    /\ UNCHANGED <<path, from, asked, response, commands>>

\* Mutant of setSaveFile: a path that cannot be opened leaves the old file in use.
setSaveFileKeeps(p, opens) ==
    /\ commands < MaxFiles /\ commands' = commands + 1
    /\ asked' = p
    /\ \/ /\ p # NoPath /\ opens
          /\ mFile' = [open |-> TRUE, good |-> TRUE]
          /\ disk' = [disk EXCEPT ![p] = << >>]
          /\ path' = p /\ from' = Len(published)
          /\ response' = "ok"
       \/ /\ p = NoPath \/ ~opens
          /\ response' = IF p = NoPath THEN "ok" ELSE "CANT_OPEN_FILE"
          /\ UNCHANGED <<mFile, path, disk, from>>
    /\ UNCHANGED published

(***************************************************************************)
(* setRawTpxPath and setSaveFile.  The file that was open is closed in any *)
(* case; the empty path leaves it at that; opening truncates the file and  *)
(* clears the stream's state, or fails and sets it.                        *)
(***************************************************************************)
setSaveFile(p, opens) ==
    /\ commands < MaxFiles /\ commands' = commands + 1
    /\ asked' = p
    /\ \/ /\ p = NoPath
          /\ mFile' = [mFile EXCEPT !.open = FALSE]
          /\ response' = "ok"
          /\ UNCHANGED <<path, disk, from>>
       \/ /\ p # NoPath /\ opens
          /\ mFile' = [open |-> TRUE, good |-> TRUE]
          /\ disk' = [disk EXCEPT ![p] = << >>]
          /\ path' = p /\ from' = Len(published)
          /\ response' = "ok"
       \/ /\ p # NoPath /\ ~opens
          /\ mFile' = [open |-> FALSE, good |-> FALSE]
          /\ response' = "CANT_OPEN_FILE"
          /\ UNCHANGED <<path, disk, from>>
    /\ UNCHANGED published

\* The files are there from earlier runs, with contents that do not matter.
Init ==
    /\ mFile = [open |-> FALSE, good |-> TRUE]
    /\ path = NoPath /\ disk = [p \in Paths |-> << >>]
    /\ published = << >> /\ from = 0
    /\ asked = NoPath /\ response = "ok" /\ commands = 0

Next ==
    \/ \E clicks \in UpTo(Packets, MaxChunk) : handleMessage(clicks)
    \/ \E p \in Paths \cup {NoPath}, opens \in BOOLEAN : setSaveFile(p, opens)

Spec == Init /\ [][Next]_vars

-----------------------------------------------------------------------------
(* Properties                                                              *)

TypeOK ==
    /\ mFile \in [open : BOOLEAN, good : BOOLEAN]
    /\ path \in Paths \cup {NoPath}
    /\ disk \in [Paths -> Seq(Chunk)]
    /\ published \in Seq(UpTo(Packets, MaxChunk))
    /\ from \in 0 .. Len(published)
    /\ asked \in Paths \cup {NoPath} /\ response \in {"ok", "CANT_OPEN_FILE"}
    /\ commands \in 0 .. MaxFiles

Complete(c) == c.size = PacketBytes * Len(c.packets)
CutShort(c) == c.size > PacketBytes * Len(c.packets)

\* A reader that goes from header to header finds every chunk of every file,
\* and after a write has failed only the last one of a file is cut short.
FileReadable ==
    \A p \in Paths : \A i \in 1 .. Len(disk[p]) :
        \/ Complete(disk[p][i])
        \/ /\ CutShort(disk[p][i]) /\ i = Len(disk[p])
           /\ ~(p = path /\ mFile.open /\ mFile.good)

\* While the stream is good the file holds exactly the packets published since
\* it was opened, message by message; once it is bad, those up to the failure.
SavedIsPublished ==
    mFile.open =>
        /\ Len(disk[path]) <= Len(published) - from
        /\ mFile.good => Len(disk[path]) = Len(published) - from
        /\ \A i \in 1 .. Len(disk[path]) :
              LET saved == disk[path][i].packets
                  sent == published[from + i]
              IN  /\ Len(saved) <= Len(sent)
                  /\ i < Len(disk[path]) \/ mFile.good => saved = sent
                  /\ \A j \in 1 .. Len(saved) : saved[j] = sent[j]

\* A file changes only after the client has asked for it, and not after it has
\* asked for another one or for none, also when that one could not be opened.
OnlyAskedFile == [][\A p \in Paths : disk'[p] # disk[p] => asked' = p]_vars

============================================================================
