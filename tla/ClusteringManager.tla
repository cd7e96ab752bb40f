------------------------- MODULE ClusteringManager -------------------------
(***************************************************************************)
(* The manager of the cluster thread (ClusteringManager.cpp).  Pixel       *)
(* packets ("clicks") arrive in chunks; a click that lies in the box of an *)
(* open cluster joins it, a click that lies in several boxes joins them,   *)
(* and a cluster is finished when a click arrives that is far enough in    *)
(* its future.  Finished clusters are published, and saved while a file is *)
(* open.                                                                   *)
(*                                                                         *)
(* The thread is sequential.  The two loops over mOpenClusters that        *)
(* handlePackets runs for each click are stepped through one iteration at  *)
(* a time (pc, cix, last_cluster), because what they do depends on how     *)
(* ClusterList::remove reorders the list under the loop's feet.  Commands  *)
(* are handled between two messages, when pc = "idle".                     *)
(***************************************************************************)
EXTENDS Integers, Sequences, FiniteSets

CONSTANTS
    Pixels,     \* the pixels that fire: functions from {"x", "y"} to Nat
    ToTs,       \* the values of a packet's time over threshold
    Settings,   \* the values of Cluster::settings that clients choose from
    Default,    \* the settings the program starts with
    Times,      \* the times clicks carry, in any order
    MaxChunk,   \* bound: packets in a message
    MaxClicks,  \* bound: packets in a behaviour
    MaxFlushes, \* bound: flush commands
    MaxFiles    \* bound: commands that change the save file

Dims == {"x", "y", "t"}

Setting == [xy_sep : Nat, t_sep : Nat, max_t_separation : Nat]

ASSUME PixelsAssumption == Pixels \subseteq [{"x", "y"} -> Nat]
ASSUME ToTsAssumption == ToTs \subseteq Nat
ASSUME SettingsAssumption == Settings \subseteq Setting /\ Default \in Settings

ASSUME TimesAssumption == Times \subseteq Nat
ASSUME BoundsAssumption ==
    MaxChunk \in Nat /\ MaxClicks \in Nat /\ MaxFlushes \in Nat /\ MaxFiles \in Nat

VARIABLES
    settings,       \* Cluster::settings
    mOpenClusters,  \* the sequence of open clusters
    finished,       \* history: the finished clusters, in the order of output
    sent,           \* how many of them have been published
    mFile,          \* the save file, see FileType
    input,          \* mRawPacketSocket: "none", "dead" (not connected), "live"
    pc,             \* where handlePackets is
    left,           \* packets of the message that are still to be handled
    in_cluster, last_cluster, cix,  \* its local variables, see Match
    click,          \* the packet being handled
    flushes,        \* history: number of flushes so far
    log             \* history: the clicks handled so far, with what they met

loopVars == <<in_cluster, last_cluster, cix, click>>
histVars == <<flushes, log>>
vars == <<settings, mOpenClusters, finished, sent, mFile, input, pc, left,
          loopVars, histVars>>

-----------------------------------------------------------------------------
(* struct Cluster                                                          *)

Sep(d) == IF d = "t" THEN settings.t_sep ELSE settings.xy_sep

AtLeast1(w) == IF w = 0 THEN 1 ELSE w

Min2(a, b) == IF a <= b THEN a ELSE b
Max2(a, b) == IF a >= b THEN a ELSE b

(***************************************************************************)
(* A mean is kept as its exact numerator over the cluster's weight (over 1 *)
(* for the one packet of weight 0 a cluster starts with).  The weighted    *)
(* mean of two of them is 0/0, not a number, when both weights are 0.      *)
(***************************************************************************)
WeightedMean(m, w, n, v) ==
    [d \in Dims |-> (IF w = 0 THEN 0 ELSE m[d]) + (IF v = 0 THEN 0 ELSE n[d])]

ClickMean(p) == [d \in Dims |-> p.pos[d] * AtLeast1(p.tot)]

\* Mutant of NewCluster: the weight of the first click is forgotten.
NewClusterWeightless(p, i) ==
    [mean |-> ClickMean(p), nan |-> FALSE, tot_total |-> 0,
     min |-> [d \in Dims |-> p.pos[d] - Sep(d)],
     max |-> [d \in Dims |-> p.pos[d] + Sep(d)],
     members |-> {i}]

\* The constructor; members is a history field: which clicks were put into it,
\* however often.
NewCluster(p, i) ==
    [mean |-> ClickMean(p), nan |-> FALSE, tot_total |-> p.tot,
     min |-> [d \in Dims |-> p.pos[d] - Sep(d)],
     max |-> [d \in Dims |-> p.pos[d] + Sep(d)],
     members |-> {i}]

AddClick(c, p, i) ==
    [mean |-> WeightedMean(c.mean, c.tot_total, ClickMean(p), p.tot),
     nan |-> c.nan \/ c.tot_total + p.tot = 0,
     tot_total |-> c.tot_total + p.tot,
     min |-> [d \in Dims |-> Min2(c.min[d], p.pos[d] - Sep(d))],
     max |-> [d \in Dims |-> Max2(c.max[d], p.pos[d] + Sep(d))],
     members |-> c.members \cup {i}]

\* Mutant of AddCluster: the upper bounds are not merged.
AddClusterLower(c, e) ==
    [mean |-> WeightedMean(c.mean, c.tot_total, e.mean, e.tot_total),
     nan |-> c.nan \/ e.nan \/ c.tot_total + e.tot_total = 0,
     tot_total |-> c.tot_total + e.tot_total,
     min |-> [d \in Dims |-> Min2(c.min[d], e.min[d])],
     max |-> c.max,
     members |-> c.members \cup e.members]

AddCluster(c, e) ==
    [mean |-> WeightedMean(c.mean, c.tot_total, e.mean, e.tot_total),
     nan |-> c.nan \/ e.nan \/ c.tot_total + e.tot_total = 0,
     tot_total |-> c.tot_total + e.tot_total,
     min |-> [d \in Dims |-> Min2(c.min[d], e.min[d])],
     max |-> [d \in Dims |-> Max2(c.max[d], e.max[d])],
     members |-> c.members \cup e.members]

ContainsClick(c, p) == \A d \in Dims : c.min[d] <= p.pos[d] /\ p.pos[d] <= c.max[d]

\* Mutant of Remove: the element is not swapped with the last one before the
\* last one is popped.
RemoveLast(s, ix) == [k \in 1 .. Len(s) - 1 |-> s[k]]

\* ClusterList::remove: the last element is moved into the hole.
Remove(s, ix) == [k \in 1 .. Len(s) - 1 |-> IF k = ix THEN s[Len(s)] ELSE s[k]]

-----------------------------------------------------------------------------
(* handlePackets                                                           *)

\* Mutant of IsLast: late clicks are not waited for.
IsLastNow(c, p) == p.pos["t"] > c.max["t"]

IsLast(c, p) == p.pos["t"] > c.max["t"] + settings.max_t_separation

\* A message of n packets; one without packets is dropped by poll().
Poll(n) ==
    /\ pc = "idle" /\ input = "live"
    /\ Len(log) + n <= MaxClicks
    /\ left' = n /\ pc' = "click"
    /\ UNCHANGED <<settings, mOpenClusters, finished, sent, mFile, input,
                   loopVars, histVars>>

\* Packet click = data[ix], and the start of the first loop.
NextClick(px, tot, t) ==
    /\ pc = "click" /\ left > 0
    /\ click' = [pos |-> [d \in Dims |-> IF d = "t" THEN t ELSE px[d]], tot |-> tot]
    /\ left' = left - 1
    /\ log' = Append(log, [pos |-> click'.pos, tot |-> tot, flushes |-> flushes,
                           sep |-> [d \in Dims |-> Sep(d)],
                           max_t |-> settings.max_t_separation, skipped |-> FALSE])
    /\ in_cluster' = FALSE /\ last_cluster' = 0 /\ cix' = 1
    /\ pc' = "match"
    /\ UNCHANGED <<settings, mOpenClusters, finished, sent, mFile, input, flushes>>

This == Len(log)    \* the click being handled, in log

(***************************************************************************)
(* One iteration of the first loop.  The second cluster that contains the  *)
(* click is merged into the first and removed; the loop goes on behind the *)
(* hole, which holds the list's last cluster by then.  The history field   *)
(* skipped notes that this one contains the click as well.                 *)
(***************************************************************************)
Match ==
    /\ pc = "match" /\ cix <= Len(mOpenClusters)
    /\ cix' = cix + 1
    /\ LET cl == mOpenClusters[cix]
           grown == AddClick(cl, click, This)
           merged == AddCluster(mOpenClusters[last_cluster], grown)
           end == Len(mOpenClusters)
       IN  \/ /\ ~ContainsClick(cl, click)
              /\ UNCHANGED <<mOpenClusters, in_cluster, last_cluster, log>>
           \/ /\ ContainsClick(cl, click) /\ ~in_cluster
              /\ mOpenClusters' = [mOpenClusters EXCEPT ![cix] = grown]
              /\ in_cluster' = TRUE /\ last_cluster' = cix
              /\ UNCHANGED log
           \/ /\ ContainsClick(cl, click) /\ in_cluster
              /\ mOpenClusters' =
                    Remove([mOpenClusters EXCEPT ![last_cluster] = merged], cix)
              /\ log' = IF cix < end /\ ContainsClick(mOpenClusters[end], click)
                        THEN [log EXCEPT ![This].skipped = TRUE]
                        ELSE log
              /\ UNCHANGED <<in_cluster, last_cluster>>
    /\ UNCHANGED <<settings, finished, sent, mFile, input, pc, left, click,
                   flushes>>

\* Mutant of StartClosing: the second loop starts one too low.
StartClosingLow ==
    /\ pc = "match" /\ cix > Len(mOpenClusters)
    /\ mOpenClusters' = IF in_cluster THEN mOpenClusters
                        ELSE Append(mOpenClusters, NewCluster(click, This))
    /\ cix' = Len(mOpenClusters') - 1
    /\ pc' = "close"
    /\ UNCHANGED <<settings, finished, sent, mFile, input, left, in_cluster,
                   last_cluster, click, histVars>>

\* The end of the first loop: a click in no cluster starts one.
StartClosing ==
    /\ pc = "match" /\ cix > Len(mOpenClusters)
    /\ mOpenClusters' = IF in_cluster THEN mOpenClusters
                        ELSE Append(mOpenClusters, NewCluster(click, This))
    /\ cix' = Len(mOpenClusters')
    /\ pc' = "close"
    /\ UNCHANGED <<settings, finished, sent, mFile, input, left, in_cluster,
                   last_cluster, click, histVars>>

\* Mutant of Close: the loop goes on only after removing a cluster.
CloseStuck ==
    /\ pc = "close" /\ cix > 0
    /\ LET cl == mOpenClusters[cix]
       IN  IF IsLast(cl, click)
           THEN /\ finished' = Append(finished, cl)
                /\ mOpenClusters' = Remove(mOpenClusters, cix)
                /\ cix' = cix - 1
           ELSE UNCHANGED <<finished, mOpenClusters, cix>>
    /\ UNCHANGED <<settings, sent, mFile, input, pc, left, in_cluster,
                   last_cluster, click, histVars>>

\* One iteration of the second loop, which runs backwards.
Close ==
    /\ pc = "close" /\ cix > 0
    /\ cix' = cix - 1
    /\ LET cl == mOpenClusters[cix]
       IN  IF IsLast(cl, click)
           THEN /\ finished' = Append(finished, cl)
                /\ mOpenClusters' = Remove(mOpenClusters, cix)
           ELSE UNCHANGED <<finished, mOpenClusters>>
    /\ UNCHANGED <<settings, sent, mFile, input, pc, left, in_cluster,
                   last_cluster, click, histVars>>

EndClosing ==
    /\ pc = "close" /\ cix = 0
    /\ pc' = "click"
    /\ UNCHANGED <<settings, mOpenClusters, finished, sent, mFile, input, left,
                   loopVars, histVars>>

\* Mutant of Output: the file gets the clusters from one too early on.
OutputShifted(written) ==
    /\ pc = "click" /\ left = 0
    /\ written \in 0 .. Len(finished) - sent
    /\ mFile' = IF mFile.open /\ mFile.good
                THEN [mFile EXCEPT !.saved = @ \cup (sent .. sent + written - 1)]
                ELSE mFile
    /\ sent' = Len(finished)
    /\ pc' = "idle"
    /\ UNCHANGED <<settings, mOpenClusters, finished, input, left, loopVars,
                   histVars>>

(***************************************************************************)
(* The end of handlePackets: the output is written to the file, as far as  *)
(* the stream accepts it (written of its clusters; the stream turns bad    *)
(* when that is not all of them), and is published, even when it is empty. *)
(***************************************************************************)
Output(written) ==
    /\ pc = "click" /\ left = 0
    /\ LET n == Len(finished) - sent
       IN  /\ written \in 0 .. n
           /\ IF mFile.open /\ mFile.good
              THEN mFile' = [mFile EXCEPT !.good = (written = n),
                       !.saved = @ \cup (sent + 1 .. sent + written)]
              ELSE written = 0 /\ UNCHANGED mFile
    /\ sent' = Len(finished)
    /\ pc' = "idle"
    /\ UNCHANGED <<settings, mOpenClusters, finished, input, left, loopVars,
                   histVars>>

-----------------------------------------------------------------------------
(* Commands                                                                *)

\* flush(): the open clusters are published, in the order of the list.
Flush ==
    /\ pc = "idle" /\ flushes < MaxFlushes
    /\ finished' = finished \o mOpenClusters
    /\ mOpenClusters' = << >>
    /\ sent' = Len(finished')
    /\ mFile' = [mFile EXCEPT !.flushed = @ \cup (sent + 1 .. sent')]
    /\ flushes' = flushes + 1
    /\ UNCHANGED <<settings, input, pc, left, loopVars, log>>

SetClusterParameters(s) ==
    /\ pc = "idle"
    /\ settings' = s
    /\ UNCHANGED <<mOpenClusters, finished, sent, mFile, input, pc, left,
                   loopVars, histVars>>

\* The path may be empty; connect() may fail, which is not reported.
SetRawPacketServerAddress(result) ==
    /\ pc = "idle"
    /\ result \in {"none", "dead", "live"}
    /\ input' = result
    /\ UNCHANGED <<settings, mOpenClusters, finished, sent, mFile, pc, left,
                   loopVars, histVars>>

(***************************************************************************)
(* The save file: open and good are the state of the stream, saved the     *)
(* clusters written to it since it was opened.  History fields: from, how  *)
(* many clusters had been published by then, and flushed, the clusters     *)
(* published by flush().                                                   *)
(***************************************************************************)
SetSaveFile(opened) ==
    /\ pc = "idle" /\ mFile.count < MaxFiles
    /\ mFile' = [open |-> opened, good |-> opened, saved |-> {}, from |-> sent,
                 flushed |-> mFile.flushed, count |-> mFile.count + 1]
    /\ UNCHANGED <<settings, mOpenClusters, finished, sent, input, pc, left,
                   loopVars, histVars>>

-----------------------------------------------------------------------------
Init ==
    /\ settings = Default
    /\ mOpenClusters = << >> /\ finished = << >> /\ sent = 0
    /\ mFile = [open |-> FALSE, good |-> FALSE, saved |-> {}, from |-> 0,
                flushed |-> {}, count |-> 0]
    /\ input = "none"
    /\ pc = "idle" /\ left = 0
    /\ in_cluster = FALSE /\ last_cluster = 0 /\ cix = 0
    /\ click = [pos |-> [d \in Dims |-> 0], tot |-> 0]
    /\ flushes = 0 /\ log = << >>

Next ==
    \/ \E n \in 1 .. MaxChunk : Poll(n)
    \/ \E px \in Pixels, tot \in ToTs, t \in Times : NextClick(px, tot, t)
    \/ Match
    \/ StartClosing
    \/ Close
    \/ EndClosing
    \/ \E written \in 0 .. Len(finished) : Output(written)
    \/ Flush
    \/ \E s \in Settings : SetClusterParameters(s)
    \/ \E result \in {"none", "dead", "live"} : SetRawPacketServerAddress(result)
    \/ \E opened \in BOOLEAN : SetSaveFile(opened)

Spec == Init /\ [][Next]_vars

\* The thread runs; the steps of handlePackets need nothing from outside but
\* the packets of the message, which are there.
FairSpec ==
    /\ Spec
    /\ WF_vars(\E px \in Pixels, tot \in ToTs, t \in Times : NextClick(px, tot, t))
    /\ WF_vars(Match \/ StartClosing \/ Close \/ EndClosing)
    /\ WF_vars(\E written \in 0 .. Len(finished) : Output(written))

-----------------------------------------------------------------------------
(* Properties                                                              *)

Clicks == 1 .. Len(log)

Cluster == [mean : [Dims -> Int], nan : BOOLEAN, tot_total : Nat,
            min : [Dims -> Int], max : [Dims -> Int], members : SUBSET Nat]

TypeOK ==
    /\ settings \in Setting
    /\ mOpenClusters \in Seq(Cluster) /\ finished \in Seq(Cluster)
    /\ sent \in 0 .. Len(finished)
    /\ mFile \in [open : BOOLEAN, good : BOOLEAN, saved : SUBSET (1 .. sent),
                  from : 0 .. sent, flushed : SUBSET (1 .. sent), count : Nat]
    /\ input \in {"none", "dead", "live"}
    /\ pc \in {"idle", "click", "match", "close"}
    /\ left \in Nat /\ cix \in Nat /\ last_cluster \in Nat
    /\ in_cluster \in BOOLEAN
    /\ click \in [pos : [Dims -> Int], tot : Nat]
    /\ flushes \in Nat
    /\ log \in Seq([pos : [Dims -> Int], tot : Nat, flushes : Nat,
                   sep : [Dims -> Nat], max_t : Nat, skipped : BOOLEAN])

\* The clicks that have found their cluster: all but the one the first loop
\* is looking for a cluster for.
Placed == IF pc = "match" /\ ~in_cluster THEN 1 .. Len(log) - 1 ELSE Clicks

(***************************************************************************)
(* Every click that was handled belongs to exactly one cluster, open or    *)
(* finished: merging, removing and finishing clusters under the loops      *)
(* loses none and puts none into two of them.  This is about which clicks  *)
(* a cluster has, not about their weight: a click that joins two clusters  *)
(* is added to both before they are merged, so tot_total has it twice.     *)
(***************************************************************************)
OpenIn(i, k) == i \in mOpenClusters[k].members
FinishedIn(i, k) == i \in finished[k].members

Covered ==
    \A i \in Placed :
        \/ \E k \in 1 .. Len(mOpenClusters) : OpenIn(i, k)
        \/ \E k \in 1 .. Len(finished) : FinishedIn(i, k)
OpenOnce ==
    \A i \in Clicks : \A k, m \in 1 .. Len(mOpenClusters) :
        OpenIn(i, k) /\ OpenIn(i, m) => k = m
FinishedOnce ==
    \A i \in Clicks : \A k, m \in 1 .. Len(finished) :
        FinishedIn(i, k) /\ FinishedIn(i, m) => k = m
NotBoth ==
    \A i \in Clicks, k \in 1 .. Len(mOpenClusters), m \in 1 .. Len(finished) :
        ~(OpenIn(i, k) /\ FinishedIn(i, m))

EachClickOnce == Covered /\ OpenOnce /\ FinishedOnce /\ NotBoth

(***************************************************************************)
(* The box of a cluster is the smallest one around the boxes its clicks    *)
(* had when they arrived, also after merges, and after the settings have   *)
(* been changed under open clusters.                                       *)
(***************************************************************************)
IsHull(c, l) ==
    \A d \in Dims :
        /\ \A i \in c.members : /\ c.min[d] <= l[i].pos[d] - l[i].sep[d]
                                /\ c.max[d] >= l[i].pos[d] + l[i].sep[d]
        /\ \E i \in c.members : c.min[d] = l[i].pos[d] - l[i].sep[d]
        /\ \E i \in c.members : c.max[d] = l[i].pos[d] + l[i].sep[d]

BoxIsHull ==
    /\ \A k \in 1 .. Len(mOpenClusters) : IsHull(mOpenClusters[k], log)
    /\ \A k \in 1 .. Len(finished) : IsHull(finished[k], log)

(***************************************************************************)
(* What clustering is for: a click inside the box of an earlier one ends   *)
(* in the same cluster.  The exceptions are a flush between them, a click  *)
(* between them that was more than max_t_separation ahead of the second    *)
(* one, and the merge that skips a cluster (see Match).                    *)
(***************************************************************************)
Near(i, j) == \A d \in Dims : /\ log[i].pos[d] - log[i].sep[d] <= log[j].pos[d]
                              /\ log[j].pos[d] <= log[i].pos[d] + log[i].sep[d]

Overtaken(i, j) == \E k \in Clicks : /\ i < k /\ k < j
                                     /\ log[k].pos["t"] > log[j].pos["t"] + log[k].max_t

Together(i, j) ==
    \/ \E k \in 1 .. Len(mOpenClusters) : OpenIn(i, k) /\ OpenIn(j, k)
    \/ \E k \in 1 .. Len(finished) : FinishedIn(i, k) /\ FinishedIn(j, k)

Neighbours(i, j) == /\ i < j /\ Near(i, j) /\ ~Overtaken(i, j)
                    /\ log[i].flushes = log[j].flushes

Handled == IF pc = "match" THEN 1 .. Len(log) - 1 ELSE Clicks

NeighboursTogether ==
    \A i, j \in Handled : Neighbours(i, j) /\ ~log[j].skipped => Together(i, j)

\* The same without the last exception: the first loop finds every cluster
\* that the click joins.
MergesAll == \A i, j \in Handled : Neighbours(i, j) => Together(i, j)

(***************************************************************************)
(* After the second loop no open cluster is overdue: removing finished     *)
(* clusters from the list under the loop makes it skip none.               *)
(***************************************************************************)
NoneOverdue ==
    pc = "close" => \A k \in cix + 1 .. Len(mOpenClusters) :
                        ~IsLast(mOpenClusters[k], click)

(***************************************************************************)
(* The centroid is a number, except in a cluster with two clicks of ToT 0, *)
(* and lies between the clicks of the cluster, so that toRawValue drops    *)
(* none of its bits, although a click that joins two clusters has twice    *)
(* its weight in it.                                                       *)
(***************************************************************************)
IsCentroid(c, l) ==
    \/ /\ c.nan
       /\ \E i, j \in c.members : i # j /\ l[i].tot = 0 /\ l[j].tot = 0
    \/ /\ ~c.nan
       /\ \A d \in Dims : \E i, j \in c.members :
             /\ l[i].pos[d] * AtLeast1(c.tot_total) <= c.mean[d]
             /\ c.mean[d] <= l[j].pos[d] * AtLeast1(c.tot_total)

CentroidInHull ==
    /\ \A k \in 1 .. Len(mOpenClusters) : IsCentroid(mOpenClusters[k], log)
    /\ \A k \in 1 .. Len(finished) : IsCentroid(finished[k], log)

(***************************************************************************)
(* While a file is open and accepts data it gets every cluster that        *)
(* handlePackets publishes, those that were open before it was included;   *)
(* after a failed write it holds what was written until then.              *)
(***************************************************************************)
FileComplete ==
    LET due == (mFile.from + 1 .. sent) \ mFile.flushed
    IN  /\ mFile.saved \subseteq due
        /\ \A i \in mFile.saved, k \in due : k < i => k \in mFile.saved
        /\ mFile.open /\ mFile.good => mFile.saved = due

\* The loops end: every message that arrives is handled to its end, and the
\* thread returns to its commands.
MessageHandled == pc # "idle" ~> pc = "idle"

-----------------------------------------------------------------------------
(* The inductive invariant that these properties follow from.              *)

\* What the loops know of their variables.
IndexInv ==
    /\ pc = "match" =>
          /\ cix >= 1
          /\ in_cluster => last_cluster \in 1 .. Len(mOpenClusters)
                           /\ last_cluster < cix
          /\ ~in_cluster => last_cluster = 0
    /\ pc = "close" => cix <= Len(mOpenClusters)

ThisInv ==
    pc \in {"match", "close"} =>
        /\ This \in Clicks
        /\ log[This].pos = click.pos /\ log[This].tot = click.tot
        /\ log[This].sep = [d \in Dims |-> Sep(d)]
        /\ log[This].max_t = settings.max_t_separation
        /\ log[This].flushes = flushes

LoopInv == IndexInv /\ ThisInv

\* Clusters consist of clicks; the click of the first loop is in the cluster
\* it was put into, and in none before.
MembersInv ==
    /\ \A k \in 1 .. Len(mOpenClusters) : mOpenClusters[k].members \subseteq Clicks
    /\ \A k \in 1 .. Len(finished) : finished[k].members \subseteq Clicks
    /\ \A i \in Clicks : log[i].flushes <= flushes
    /\ pc = "match" /\ in_cluster => OpenIn(This, last_cluster)
    /\ pc = "match" /\ ~in_cluster =>
          /\ \A k \in 1 .. Len(mOpenClusters) : ~OpenIn(This, k)
          /\ \A k \in 1 .. Len(finished) : ~FinishedIn(This, k)

\* A click is in a finished cluster only after a flush, or after a click from
\* the future of its box.
ClosedInv ==
    \A i \in Clicks, k \in 1 .. Len(finished) :
        FinishedIn(i, k) /\ log[i].flushes = flushes =>
            \E m \in Handled :
                /\ i < m
                /\ log[m].pos["t"] > log[i].pos["t"] + log[i].sep["t"] + log[m].max_t

\* The first loop has left no cluster behind that contains the click, but the
\* one it was put into.
SearchInv ==
    pc = "match" /\ ~log[This].skipped =>
        \A k \in 1 .. Len(mOpenClusters) :
            k < cix /\ k # last_cluster => ~ContainsClick(mOpenClusters[k], click)

\* No click weighs more than its cluster: only clicks of ToT 0 are in a
\* cluster of weight 0.
IsWeighed(c, l) == \A i \in c.members : l[i].tot <= c.tot_total

WeightInv ==
    /\ \A k \in 1 .. Len(mOpenClusters) : IsWeighed(mOpenClusters[k], log)
    /\ \A k \in 1 .. Len(finished) : IsWeighed(finished[k], log)

ClusteringInv ==
    /\ TypeOK /\ LoopInv /\ MembersInv /\ EachClickOnce /\ BoxIsHull
    /\ ClosedInv /\ SearchInv /\ NeighboursTogether /\ NoneOverdue
    /\ WeightInv /\ CentroidInHull /\ FileComplete
=============================================================================
