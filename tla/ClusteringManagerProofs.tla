----------------------- MODULE ClusteringManagerProofs -----------------------
(***************************************************************************)
(* Whatever the clicks, their order and the settings are: no click is lost *)
(* or counted twice, the box of a cluster is the hull of its clicks, its   *)
(* centroid lies among them, neighbours end in the same cluster, and the   *)
(* save file holds what is published.                                      *)
(***************************************************************************)
EXTENDS ClusteringManager, TLAPS

-----------------------------------------------------------------------------
(* The operators of Cluster and ClusterList.                               *)

Click == [pos : [Dims -> Int], tot : Nat]

LEMMA SepType ==
  ASSUME settings \in Setting
  PROVE  \A d \in Dims : Sep(d) \in Nat
BY DEF Sep, Setting

LEMMA Min2Max2 ==
  ASSUME NEW a \in Int, NEW b \in Int
  PROVE  /\ Min2(a, b) \in Int /\ Max2(a, b) \in Int
         /\ Min2(a, b) <= a /\ Min2(a, b) <= b
         /\ Max2(a, b) >= a /\ Max2(a, b) >= b
         /\ Min2(a, b) = a \/ Min2(a, b) = b
         /\ Max2(a, b) = a \/ Max2(a, b) = b
BY DEF Min2, Max2

LEMMA ClickMeanType ==
  ASSUME NEW p \in Click
  PROVE  ClickMean(p) \in [Dims -> Int]
<1>1. AtLeast1(p.tot) \in Int
  BY DEF AtLeast1, Click
<1>2. ASSUME NEW d \in Dims PROVE p.pos[d] * AtLeast1(p.tot) \in Int
  <2>1. p.pos[d] \in Int
    BY DEF Click
  <2> QED
    BY <1>1, <2>1
<1> QED
  BY <1>2 DEF ClickMean

LEMMA WeightedMeanType ==
  ASSUME NEW m \in [Dims -> Int], NEW w \in Nat,
         NEW n \in [Dims -> Int], NEW v \in Nat
  PROVE  WeightedMean(m, w, n, v) \in [Dims -> Int]
BY DEF WeightedMean

LEMMA NewClusterType ==
  ASSUME settings \in Setting, NEW p \in Click, NEW i \in Nat
  PROVE  /\ NewCluster(p, i) \in Cluster
         /\ NewCluster(p, i).members = {i}
         /\ \A d \in Dims : /\ NewCluster(p, i).min[d] = p.pos[d] - Sep(d)
                            /\ NewCluster(p, i).max[d] = p.pos[d] + Sep(d)
<1>1. ClickMean(p) \in [Dims -> Int]
  BY ClickMeanType
<1>2. /\ [d \in Dims |-> p.pos[d] - Sep(d)] \in [Dims -> Int]
      /\ [d \in Dims |-> p.pos[d] + Sep(d)] \in [Dims -> Int]
  BY SepType DEF Click
<1>3. p.tot \in Nat
  BY DEF Click
<1> QED
  BY <1>1, <1>2, <1>3 DEF NewCluster, Cluster

LEMMA AddClickType ==
  ASSUME settings \in Setting, NEW c \in Cluster, NEW p \in Click, NEW i \in Nat
  PROVE  /\ AddClick(c, p, i) \in Cluster
         /\ AddClick(c, p, i).members = c.members \cup {i}
         /\ \A d \in Dims :
              /\ AddClick(c, p, i).min[d] = Min2(c.min[d], p.pos[d] - Sep(d))
              /\ AddClick(c, p, i).max[d] = Max2(c.max[d], p.pos[d] + Sep(d))
<1>1. WeightedMean(c.mean, c.tot_total, ClickMean(p), p.tot) \in [Dims -> Int]
  BY ClickMeanType, WeightedMeanType DEF Cluster, Click
<1>2. /\ [d \in Dims |-> Min2(c.min[d], p.pos[d] - Sep(d))] \in [Dims -> Int]
      /\ [d \in Dims |-> Max2(c.max[d], p.pos[d] + Sep(d))] \in [Dims -> Int]
  <2>1. \A d \in Dims : /\ c.min[d] \in Int /\ c.max[d] \in Int
                        /\ p.pos[d] - Sep(d) \in Int /\ p.pos[d] + Sep(d) \in Int
    BY SepType DEF Click, Cluster
  <2> QED
    BY <2>1, Min2Max2
<1>3. /\ c.tot_total + p.tot \in Nat
      /\ (c.nan \/ c.tot_total + p.tot = 0) \in BOOLEAN
      /\ c.members \cup {i} \in SUBSET Nat
  BY DEF Click, Cluster
<1> QED
  BY <1>1, <1>2, <1>3 DEF AddClick, Cluster

LEMMA AddClusterType ==
  ASSUME NEW c \in Cluster, NEW e \in Cluster
  PROVE  /\ AddCluster(c, e) \in Cluster
         /\ AddCluster(c, e).members = c.members \cup e.members
         /\ \A d \in Dims :
              /\ AddCluster(c, e).min[d] = Min2(c.min[d], e.min[d])
              /\ AddCluster(c, e).max[d] = Max2(c.max[d], e.max[d])
<1>1. WeightedMean(c.mean, c.tot_total, e.mean, e.tot_total) \in [Dims -> Int]
  BY WeightedMeanType DEF Cluster
<1>2. /\ [d \in Dims |-> Min2(c.min[d], e.min[d])] \in [Dims -> Int]
      /\ [d \in Dims |-> Max2(c.max[d], e.max[d])] \in [Dims -> Int]
  BY Min2Max2 DEF Cluster
<1>3. /\ c.tot_total + e.tot_total \in Nat
      /\ (c.nan \/ e.nan \/ c.tot_total + e.tot_total = 0) \in BOOLEAN
      /\ c.members \cup e.members \in SUBSET Nat
  BY DEF Cluster
<1> QED
  BY <1>1, <1>2, <1>3 DEF AddCluster, Cluster

LEMMA RemoveType ==
  ASSUME NEW S, NEW s \in Seq(S), NEW ix \in 1 .. Len(s)
  PROVE  /\ Remove(s, ix) \in Seq(S)
         /\ Len(Remove(s, ix)) = Len(s) - 1
         /\ \A k \in 1 .. Len(s) - 1 :
              Remove(s, ix)[k] = IF k = ix THEN s[Len(s)] ELSE s[k]
<1>1. Len(s) - 1 \in Nat
  OBVIOUS
<1>2. \A k \in 1 .. Len(s) - 1 : (IF k = ix THEN s[Len(s)] ELSE s[k]) \in S
  OBVIOUS
<1> QED
  BY <1>1, <1>2 DEF Remove

-----------------------------------------------------------------------------
(* Types, and the variables of the loops.                                  *)

\* The clusters that one iteration of the first loop writes.
Grown == AddClick(mOpenClusters[cix], click, This)
Merged == AddCluster(mOpenClusters[last_cluster], Grown)

LEMMA GrownType ==
  ASSUME TypeOK, cix \in 1 .. Len(mOpenClusters)
  PROVE  /\ Grown \in Cluster
         /\ Grown.members = mOpenClusters[cix].members \cup {This}
         /\ \A d \in Dims :
              /\ Grown.min[d] = Min2(mOpenClusters[cix].min[d], click.pos[d] - Sep(d))
              /\ Grown.max[d] = Max2(mOpenClusters[cix].max[d], click.pos[d] + Sep(d))
<1>1. mOpenClusters[cix] \in Cluster /\ click \in Click /\ This \in Nat
      /\ settings \in Setting
  BY DEF TypeOK, Click, This
<1> QED
  BY <1>1, AddClickType DEF Grown

LEMMA MergedType ==
  ASSUME TypeOK, cix \in 1 .. Len(mOpenClusters),
         last_cluster \in 1 .. Len(mOpenClusters)
  PROVE  /\ Merged \in Cluster
         /\ Merged.members = mOpenClusters[last_cluster].members
                             \cup mOpenClusters[cix].members \cup {This}
         /\ \A d \in Dims :
              /\ Merged.min[d] = Min2(mOpenClusters[last_cluster].min[d], Grown.min[d])
              /\ Merged.max[d] = Max2(mOpenClusters[last_cluster].max[d], Grown.max[d])
<1>1. mOpenClusters[last_cluster] \in Cluster
  BY DEF TypeOK
<1> QED
  BY <1>1, GrownType, AddClusterType DEF Merged

\* The three cases of an iteration of the first loop.
Passes == ~ContainsClick(mOpenClusters[cix], click)
          /\ UNCHANGED <<mOpenClusters, in_cluster, last_cluster, log>>
Joins == /\ ContainsClick(mOpenClusters[cix], click) /\ ~in_cluster
         /\ mOpenClusters' = [mOpenClusters EXCEPT ![cix] = Grown]
         /\ in_cluster' = TRUE /\ last_cluster' = cix
         /\ UNCHANGED log
Merges == /\ ContainsClick(mOpenClusters[cix], click) /\ in_cluster
          /\ mOpenClusters' =
                Remove([mOpenClusters EXCEPT ![last_cluster] = Merged], cix)
          /\ log' = IF cix < Len(mOpenClusters)
                       /\ ContainsClick(mOpenClusters[Len(mOpenClusters)], click)
                    THEN [log EXCEPT ![This].skipped = TRUE]
                    ELSE log
          /\ UNCHANGED <<in_cluster, last_cluster>>

LEMMA MatchCases ==
  ASSUME TypeOK, LoopInv, Match
  PROVE  /\ pc = "match" /\ pc' = "match" /\ cix' = cix + 1
         /\ cix \in 1 .. Len(mOpenClusters)
         /\ UNCHANGED <<settings, finished, sent, mFile, input, pc, left, click,
                        flushes>>
         /\ Passes \/ Joins \/ Merges
<1>1. cix \in 1 .. Len(mOpenClusters)
  BY DEF TypeOK, LoopInv, IndexInv, Match
<1> QED
  BY <1>1 DEF Match, Passes, Joins, Merges, Grown, Merged

\* Merging two clusters removes the second from the list.
LEMMA MergeList ==
  ASSUME TypeOK, LoopInv, pc = "match", cix \in 1 .. Len(mOpenClusters), Merges
  PROVE  /\ last_cluster \in 1 .. Len(mOpenClusters) - 1 /\ last_cluster < cix
         /\ mOpenClusters' \in Seq(Cluster)
         /\ Len(mOpenClusters') = Len(mOpenClusters) - 1
         /\ mOpenClusters'[last_cluster] = Merged
         /\ \A k \in 1 .. Len(mOpenClusters) - 1 : k # last_cluster =>
              mOpenClusters'[k] = IF k = cix THEN mOpenClusters[Len(mOpenClusters)]
                                  ELSE mOpenClusters[k]
<1> DEFINE s == [mOpenClusters EXCEPT ![last_cluster] = Merged]
<1>1. in_cluster /\ last_cluster \in 1 .. Len(mOpenClusters) /\ last_cluster < cix
  BY DEF Merges, LoopInv, IndexInv
<1>2. Merged \in Cluster /\ mOpenClusters \in Seq(Cluster)
  BY <1>1, MergedType DEF TypeOK
<1> HIDE DEF Merged
<1>3. /\ s \in Seq(Cluster) /\ Len(s) = Len(mOpenClusters)
      /\ s[last_cluster] = Merged
      /\ \A k \in 1 .. Len(mOpenClusters) : k # last_cluster => s[k] = mOpenClusters[k]
  BY <1>1, <1>2
<1>4. mOpenClusters' = Remove(s, cix)
  BY DEF Merges
<1> HIDE DEF s
<1>5. /\ Remove(s, cix) \in Seq(Cluster)
      /\ Len(Remove(s, cix)) = Len(s) - 1
      /\ \A k \in 1 .. Len(s) - 1 :
           Remove(s, cix)[k] = IF k = cix THEN s[Len(s)] ELSE s[k]
  <2>1. cix \in 1 .. Len(s)
    BY <1>3
  <2> QED
    BY ONLY <2>1, <1>3, RemoveType
<1> QED
  BY <1>1, <1>2, <1>3, <1>4, <1>5

LogEntry == [pos : [Dims -> Int], tot : Nat, flushes : Nat, sep : [Dims -> Nat],
             max_t : Nat, skipped : BOOLEAN]

LEMMA MarkedEntry ==
  ASSUME NEW x \in LogEntry
  PROVE  LET y == [x EXCEPT !.skipped = TRUE]
         IN  /\ y \in LogEntry
             /\ y.pos = x.pos /\ y.tot = x.tot /\ y.sep = x.sep
             /\ y.max_t = x.max_t /\ y.flushes = x.flushes /\ y.skipped = TRUE
BY DEF LogEntry

LEMMA Overwritten ==
  ASSUME NEW S, NEW s \in Seq(S), NEW i \in 1 .. Len(s), NEW v \in S
  PROVE  LET r == [s EXCEPT ![i] = v]
         IN  /\ r \in Seq(S) /\ Len(r) = Len(s) /\ r[i] = v
             /\ \A k \in 1 .. Len(s) : k # i => r[k] = s[k]
OBVIOUS

\* Of the log, an iteration of the first loop changes the mark of this click.
LEMMA MatchLog ==
  ASSUME TypeOK, LoopInv, Match
  PROVE  /\ log' \in Seq(LogEntry) /\ Len(log') = Len(log)
         /\ \A i \in Clicks :
              /\ log'[i].pos = log[i].pos /\ log'[i].tot = log[i].tot
              /\ log'[i].sep = log[i].sep /\ log'[i].max_t = log[i].max_t
              /\ log'[i].flushes = log[i].flushes
              /\ i # This => log'[i].skipped = log[i].skipped
<1>1. log \in Seq(LogEntry) /\ This \in Clicks
  BY MatchCases DEF TypeOK, LogEntry, LoopInv, ThisInv
<1>2. log' = log \/ log' = [log EXCEPT ![This].skipped = TRUE]
  BY MatchCases DEF Passes, Joins, Merges
<1>3. CASE log' = log
  BY <1>1, <1>3
<1>4. CASE log' = [log EXCEPT ![This].skipped = TRUE]
  <2> DEFINE e == [log[This] EXCEPT !.skipped = TRUE]
  <2>1. log[This] \in LogEntry
    BY <1>1 DEF Clicks
  <2>2. /\ e \in LogEntry
        /\ e.pos = log[This].pos /\ e.tot = log[This].tot /\ e.sep = log[This].sep
        /\ e.max_t = log[This].max_t /\ e.flushes = log[This].flushes
    BY <2>1, MarkedEntry
  <2>3. log' = [log EXCEPT ![This] = e]
    BY <1>4
  <2> HIDE DEF e
  <2>4. /\ log' \in Seq(LogEntry) /\ Len(log') = Len(log) /\ log'[This] = e
        /\ \A i \in Clicks : i # This => log'[i] = log[i]
    <3>1. This \in 1 .. Len(log)
      BY <1>1 DEF Clicks
    <3> QED
      BY <3>1, <1>1, <2>2, <2>3, Overwritten DEF Clicks
  <2> QED
    BY <2>2, <2>4
<1> QED
  BY <1>2, <1>3, <1>4

FileType(n) == [open : BOOLEAN, good : BOOLEAN, saved : SUBSET (1 .. n),
                from : 0 .. n, flushed : SUBSET (1 .. n), count : Nat]

LEMMA FileGrows ==
  ASSUME NEW n \in Nat, NEW m \in Nat, n <= m, NEW f \in FileType(n)
  PROVE  f \in FileType(m)
BY DEF FileType

LEMMA TypeStep ==
  ASSUME TypeOK, LoopInv, [Next]_vars
  PROVE  TypeOK'
<1> USE DEF TypeOK
<1>0. mFile \in FileType(sent)
  BY DEF FileType
<1>1. ASSUME NEW n \in 1 .. MaxChunk, Poll(n) PROVE TypeOK'
  BY <1>1 DEF Poll, loopVars, histVars
<1>2. ASSUME NEW px \in Pixels, NEW tot \in ToTs, NEW t \in Times,
             NextClick(px, tot, t)
      PROVE  TypeOK'
  <2> DEFINE pos == [d \in Dims |-> IF d = "t" THEN t ELSE px[d]]
             new == [pos |-> pos, tot |-> tot, flushes |-> flushes,
                     sep |-> [d \in Dims |-> Sep(d)],
                     max_t |-> settings.max_t_separation, skipped |-> FALSE]
  <2>1. pos \in [Dims -> Int] /\ tot \in Nat
    BY PixelsAssumption, ToTsAssumption, TimesAssumption DEF Dims
  <2>2. [d \in Dims |-> Sep(d)] \in [Dims -> Nat]
    BY SepType
  <2>3. new \in LogEntry
    BY <2>1, <2>2 DEF LogEntry, Setting
  <2>4. click' = [pos |-> pos, tot |-> tot] /\ log' = Append(log, new)
    BY <1>2 DEF NextClick
  <2>5. click' \in [pos : [Dims -> Int], tot : Nat]
    BY <2>1, <2>4
  <2> HIDE DEF pos, new
  <2>6. log' \in Seq(LogEntry)
    BY <2>3, <2>4 DEF LogEntry
  <2>7. /\ UNCHANGED <<settings, mOpenClusters, finished, sent, mFile, input, flushes>>
        /\ pc' = "match" /\ in_cluster' = FALSE /\ last_cluster' = 0 /\ cix' = 1
        /\ left' \in Nat
    BY <1>2 DEF NextClick
  <2> QED
    BY <2>5, <2>6, <2>7 DEF LogEntry
<1>3. ASSUME Match PROVE TypeOK'
  <2>1. mOpenClusters' \in Seq(Cluster)
    <3>1. CASE Passes
      BY <3>1 DEF Passes
    <3>2. CASE Joins
      BY <1>3, <3>2, MatchCases, GrownType, Overwritten DEF Joins
    <3>3. CASE Merges
      BY <1>3, <3>3, MatchCases, MergeList
    <3> QED
      BY <1>3, <3>1, <3>2, <3>3, MatchCases
  <2>2. last_cluster' \in Nat /\ cix' \in Nat
    <3>1. last_cluster' = last_cluster \/ last_cluster' = cix
      BY <1>3, MatchCases DEF Passes, Joins, Merges
    <3>2. cix \in Nat /\ last_cluster \in Nat /\ cix' = cix + 1
      BY <1>3, MatchCases
    <3> QED
      BY <3>1, <3>2
  <2>4. in_cluster' \in BOOLEAN
    BY <1>3, MatchCases, Zenon DEF Passes, Joins, Merges
  <2>3. log' \in Seq(LogEntry)
    BY <1>3, MatchLog
  <2> QED
    BY <1>3, <2>1, <2>2, <2>3, <2>4, MatchCases DEF LogEntry, Cluster
<1>4. ASSUME StartClosing PROVE TypeOK'
  <2>1. click \in Click /\ This \in Nat
    BY DEF Click, This
  <2>2. NewCluster(click, This) \in Cluster
    BY <2>1, NewClusterType
  <2>3. mOpenClusters' \in Seq(Cluster) /\ cix' \in Nat
    BY <1>4, <2>2 DEF StartClosing
  <2> QED
    BY <1>4, <2>3 DEF StartClosing, histVars, Cluster
<1>5. ASSUME Close PROVE TypeOK'
  <2>1. cix \in 1 .. Len(mOpenClusters) /\ cix' \in Nat
    BY <1>5 DEF Close, LoopInv, IndexInv
  <2>2. Remove(mOpenClusters, cix) \in Seq(Cluster)
    BY <2>1, RemoveType
  <2>3. /\ mOpenClusters' \in Seq(Cluster) /\ finished' \in Seq(Cluster)
        /\ Len(finished') >= Len(finished)
    <3>1. /\ mOpenClusters[cix] \in Cluster
          /\ Append(finished, mOpenClusters[cix]) \in Seq(Cluster)
          /\ Len(Append(finished, mOpenClusters[cix])) = Len(finished) + 1
      BY <2>1
    <3>2. \/ /\ finished' = Append(finished, mOpenClusters[cix])
             /\ mOpenClusters' = Remove(mOpenClusters, cix)
          \/ UNCHANGED <<finished, mOpenClusters>>
      BY <1>5 DEF Close
    <3>3. CASE UNCHANGED <<finished, mOpenClusters>>
      BY <3>3
    <3>4. CASE /\ finished' = Append(finished, mOpenClusters[cix])
               /\ mOpenClusters' = Remove(mOpenClusters, cix)
      <4>1. Len(finished) + 1 >= Len(finished)
        OBVIOUS
      <4> QED
        BY ONLY <2>2, <3>1, <3>4, <4>1
    <3> QED
      BY <3>2, <3>3, <3>4
  <2>4. UNCHANGED <<settings, sent, mFile, input, pc, left, in_cluster,
                    last_cluster, click, flushes, log>>
    BY <1>5 DEF Close, histVars
  <2>5. sent' \in 0 .. Len(finished')
    BY <2>3, <2>4
  <2> QED
    BY <2>1, <2>3, <2>4, <2>5 DEF Cluster
<1>6. ASSUME EndClosing PROVE TypeOK'
  BY <1>6 DEF EndClosing, loopVars, histVars
<1>7. ASSUME NEW written \in 0 .. Len(finished), Output(written) PROVE TypeOK'
  <2>1. sent' = Len(finished) /\ sent' \in Nat /\ sent <= sent' /\ sent \in Nat
    BY <1>7 DEF Output
  <2>2. mFile \in FileType(sent')
    BY <1>0, <2>1, FileGrows
  <2>3. mFile' \in FileType(sent')
    <3>1. CASE UNCHANGED mFile
      BY <2>2, <3>1
    <3>2. CASE ~UNCHANGED mFile
      <4>1. /\ written <= sent' - sent
            /\ mFile' = [mFile EXCEPT !.good = (written = sent' - sent),
                            !.saved = mFile.saved \cup (sent + 1 .. sent + written)]
        BY <1>7, <2>1, <3>2 DEF Output
      <4>2. mFile.saved \cup (sent + 1 .. sent + written) \subseteq 1 .. sent'
        BY <2>1, <2>2, <4>1 DEF FileType
      <4> QED
        BY <2>2, <4>1, <4>2 DEF FileType
    <3> QED
      BY <3>1, <3>2
  <2> QED
    BY <1>7, <2>1, <2>3 DEF Output, loopVars, histVars, FileType
<1>8. ASSUME Flush PROVE TypeOK'
  <2>1. /\ finished' \in Seq(Cluster)
        /\ Len(finished') = Len(finished) + Len(mOpenClusters)
    BY <1>8 DEF Flush
  <2>2. sent' = Len(finished') /\ sent' \in Nat /\ sent <= sent' /\ sent \in Nat
    BY <1>8, <2>1 DEF Flush
  <2>3. mFile \in FileType(sent')
    BY <1>0, <2>2, FileGrows
  <2>4. mFile' = [mFile EXCEPT !.flushed = mFile.flushed \cup (sent + 1 .. sent')]
    BY <1>8 DEF Flush
  <2>5. mFile.flushed \cup (sent + 1 .. sent') \subseteq 1 .. sent'
    BY <2>2, <2>3 DEF FileType
  <2>6. mFile' \in FileType(sent')
    BY <2>3, <2>4, <2>5 DEF FileType
  <2>7. /\ UNCHANGED <<settings, input, pc, left, in_cluster, last_cluster, cix,
                       click, log>>
        /\ mOpenClusters' = << >> /\ flushes' \in Nat
    BY <1>8 DEF Flush, loopVars
  <2>8. mOpenClusters' \in Seq(Cluster)
    BY <2>7
  <2> QED
    BY <2>1, <2>2, <2>6, <2>7, <2>8 DEF FileType
<1>9. ASSUME NEW x \in Settings, SetClusterParameters(x) PROVE TypeOK'
  BY <1>9, SettingsAssumption DEF SetClusterParameters, loopVars, histVars
<1>10. ASSUME NEW r \in {"none", "dead", "live"}, SetRawPacketServerAddress(r)
       PROVE  TypeOK'
  BY <1>10 DEF SetRawPacketServerAddress, loopVars, histVars
<1>11. ASSUME NEW opened \in BOOLEAN, SetSaveFile(opened) PROVE TypeOK'
  <2>1. mFile' \in FileType(sent)
    BY <1>0, <1>11 DEF SetSaveFile, FileType
  <2> QED
    BY <1>11, <2>1 DEF SetSaveFile, loopVars, histVars, FileType
<1>12. CASE UNCHANGED vars
  BY <1>12 DEF vars, loopVars, histVars
<1> QED
  BY <1>1, <1>2, <1>3, <1>4, <1>5, <1>6, <1>7, <1>8, <1>9, <1>10, <1>11, <1>12
  DEF Next

\* While no loop runs there is nothing to know of its variables, and most steps
\* of a loop change nothing that was written down for this click.
LEMMA LoopIdle ==
  ASSUME pc' \in {"idle", "click"}
  PROVE  LoopInv'
BY DEF LoopInv, IndexInv, ThisInv

LEMMA ThisSame ==
  ASSUME ThisInv, UNCHANGED <<settings, click, flushes, log>>,
         pc \in {"match", "close"}
  PROVE  ThisInv'
<1>1. \A d \in Dims : Sep(d)' = Sep(d)
  BY DEF Sep
<1> QED
  BY <1>1 DEF ThisInv, This, Clicks

LEMMA LoopStep ==
  ASSUME TypeOK, LoopInv, [Next]_vars
  PROVE  LoopInv'
<1> USE DEF TypeOK
<1>1. ASSUME NEW n \in 1 .. MaxChunk, Poll(n) PROVE LoopInv'
  BY <1>1, LoopIdle DEF Poll
<1>2. ASSUME NEW px \in Pixels, NEW tot \in ToTs, NEW t \in Times,
             NextClick(px, tot, t)
      PROVE  LoopInv'
  <2> DEFINE new == [pos |-> click'.pos, tot |-> tot, flushes |-> flushes,
                     sep |-> [d \in Dims |-> Sep(d)],
                     max_t |-> settings.max_t_separation, skipped |-> FALSE]
  <2>1. /\ log' = Append(log, new) /\ click'.tot = tot
        /\ pc' = "match" /\ in_cluster' = FALSE /\ last_cluster' = 0 /\ cix' = 1
        /\ UNCHANGED <<settings, flushes>>
    BY <1>2 DEF NextClick
  <2>2. /\ new.pos = click'.pos /\ new.tot = tot /\ new.flushes = flushes
        /\ new.sep = [d \in Dims |-> Sep(d)] /\ new.max_t = settings.max_t_separation
    OBVIOUS
  <2> HIDE DEF new
  <2>3. Len(log') = Len(log) + 1 /\ log'[Len(log')] = new /\ Len(log') \in 1 .. Len(log')
    BY <2>1
  <2>4. \A d \in Dims : Sep(d)' = Sep(d)
    BY <2>1 DEF Sep
  <2>5. ThisInv'
    BY <2>1, <2>2, <2>3, <2>4 DEF ThisInv, This, Clicks
  <2>6. IndexInv'
    BY <2>1 DEF IndexInv
  <2> QED
    BY <2>5, <2>6 DEF LoopInv
<1>3. ASSUME Match PROVE LoopInv'
  <2>1. /\ pc = "match" /\ pc' = "match" /\ cix' = cix + 1
        /\ cix \in 1 .. Len(mOpenClusters)
        /\ UNCHANGED <<settings, click, flushes>>
    BY <1>3, MatchCases
  <2>2. IndexInv'
    <3>1. CASE Passes
      BY <2>1, <3>1 DEF Passes, LoopInv, IndexInv
    <3>2. CASE Joins
      <4>1. Len(mOpenClusters') = Len(mOpenClusters)
        BY <2>1, <3>2, GrownType, Overwritten DEF Joins
      <4> QED
        BY <2>1, <3>2, <4>1 DEF Joins, IndexInv
    <3>3. CASE Merges
      <4>1. /\ last_cluster \in 1 .. Len(mOpenClusters) - 1 /\ last_cluster < cix
            /\ Len(mOpenClusters') = Len(mOpenClusters) - 1
        BY <2>1, <3>3, MergeList
      <4>2. in_cluster' = in_cluster /\ in_cluster /\ last_cluster' = last_cluster
        BY <3>3 DEF Merges
      <4> QED
        BY <2>1, <4>1, <4>2 DEF IndexInv
    <3> QED
      BY <1>3, <3>1, <3>2, <3>3, MatchCases
  <2>3. This' = This /\ This \in Clicks /\ Clicks' = Clicks
    BY <1>3, <2>1, MatchLog DEF This, LoopInv, ThisInv, Clicks
  <2>4. \A d \in Dims : Sep(d)' = Sep(d)
    BY <2>1 DEF Sep
  <2>5. /\ log'[This].pos = log[This].pos /\ log'[This].tot = log[This].tot
        /\ log'[This].sep = log[This].sep /\ log'[This].max_t = log[This].max_t
        /\ log'[This].flushes = log[This].flushes
    BY <1>3, <2>3, MatchLog
  <2>6. ThisInv'
    BY <2>1, <2>3, <2>4, <2>5 DEF LoopInv, ThisInv
  <2> QED
    BY <2>2, <2>6 DEF LoopInv
<1>4. ASSUME StartClosing PROVE LoopInv'
  <2>1. /\ pc' = "close" /\ cix' = Len(mOpenClusters')
        /\ UNCHANGED <<settings, click, flushes, log>> /\ pc = "match"
    BY <1>4 DEF StartClosing, histVars
  <2>2. Len(mOpenClusters') \in Nat
    BY TypeStep, <1>4 DEF Next
  <2>3. IndexInv'
    BY <2>1, <2>2 DEF IndexInv
  <2> QED
    BY <2>1, <2>3, ThisSame DEF LoopInv
<1>5. ASSUME Close PROVE LoopInv'
  <2>1. /\ pc' = "close" /\ cix' = cix - 1 /\ pc = "close"
        /\ UNCHANGED <<settings, click, flushes, log>>
        /\ mOpenClusters' = mOpenClusters
           \/ mOpenClusters' = Remove(mOpenClusters, cix)
    BY <1>5 DEF Close, histVars
  <2>2. cix \in 1 .. Len(mOpenClusters)
    BY <1>5 DEF Close, LoopInv, IndexInv
  <2>3. Len(mOpenClusters') >= Len(mOpenClusters) - 1 /\ Len(mOpenClusters') \in Nat
    BY <2>1, <2>2, RemoveType
  <2>4. IndexInv'
    BY <2>1, <2>2, <2>3 DEF IndexInv
  <2> QED
    BY <2>1, <2>4, ThisSame DEF LoopInv
<1>6. ASSUME EndClosing PROVE LoopInv'
  BY <1>6, LoopIdle DEF EndClosing
<1>7. ASSUME NEW written \in 0 .. Len(finished), Output(written) PROVE LoopInv'
  BY <1>7, LoopIdle DEF Output
<1>8. ASSUME Flush PROVE LoopInv'
  BY <1>8, LoopIdle DEF Flush
<1>9. ASSUME NEW x \in Settings, SetClusterParameters(x) PROVE LoopInv'
  BY <1>9, LoopIdle DEF SetClusterParameters
<1>10. ASSUME NEW r \in {"none", "dead", "live"}, SetRawPacketServerAddress(r)
       PROVE  LoopInv'
  BY <1>10, LoopIdle DEF SetRawPacketServerAddress
<1>11. ASSUME NEW opened \in BOOLEAN, SetSaveFile(opened) PROVE LoopInv'
  BY <1>11, LoopIdle DEF SetSaveFile
<1>12. CASE UNCHANGED vars
  BY <1>12 DEF vars, loopVars, histVars, LoopInv, IndexInv, ThisInv, This, Sep,
               Clicks
<1> QED
  BY <1>1, <1>2, <1>3, <1>4, <1>5, <1>6, <1>7, <1>8, <1>9, <1>10, <1>11, <1>12
  DEF Next

-----------------------------------------------------------------------------
(* Where the clicks are.                                                   *)

\* The members of the open clusters after an iteration of the first loop.
LEMMA JoinsMembers ==
  ASSUME TypeOK, LoopInv, Match, Joins
  PROVE  /\ Len(mOpenClusters') = Len(mOpenClusters)
         /\ UNCHANGED <<finished, flushes, log>>
         /\ This \in Clicks /\ This' = This /\ Clicks' = Clicks
         /\ \A i, k : k \in 1 .. Len(mOpenClusters) =>
              (OpenIn(i, k)' <=> (OpenIn(i, k) \/ (k = cix /\ i = This)))
         /\ \A i, k : FinishedIn(i, k)' = FinishedIn(i, k)
<1>1. cix \in 1 .. Len(mOpenClusters) /\ UNCHANGED <<finished, flushes>> /\ pc = "match"
  BY MatchCases
<1>2. /\ Grown \in Cluster
      /\ Grown.members = mOpenClusters[cix].members \cup {This}
      /\ mOpenClusters \in Seq(Cluster)
  BY <1>1, GrownType DEF TypeOK
<1>3. mOpenClusters' = [mOpenClusters EXCEPT ![cix] = Grown] /\ UNCHANGED log
  BY DEF Joins
<1>4. /\ Len(mOpenClusters') = Len(mOpenClusters) /\ mOpenClusters'[cix] = Grown
      /\ \A k \in 1 .. Len(mOpenClusters) : k # cix =>
           mOpenClusters'[k] = mOpenClusters[k]
  BY <1>1, <1>2, <1>3, Overwritten
<1>5. This \in Clicks /\ This' = This /\ Clicks' = Clicks
  BY <1>1, <1>3 DEF LoopInv, ThisInv, This, Clicks
<1>6. ASSUME NEW i, NEW k \in 1 .. Len(mOpenClusters)
      PROVE  OpenIn(i, k)' <=> (OpenIn(i, k) \/ (k = cix /\ i = This))
  BY <1>2, <1>4 DEF OpenIn
<1>7. \A i, k : FinishedIn(i, k)' = FinishedIn(i, k)
  BY <1>1 DEF FinishedIn
<1> QED
  BY <1>1, <1>3, <1>4, <1>5, <1>6, <1>7

LEMMA MergesMembers ==
  ASSUME TypeOK, LoopInv, Match, Merges
  PROVE  /\ Len(mOpenClusters') = Len(mOpenClusters) - 1
         /\ last_cluster \in 1 .. Len(mOpenClusters) - 1 /\ last_cluster < cix
         /\ cix \in 1 .. Len(mOpenClusters)
         /\ UNCHANGED <<finished, flushes>>
         /\ This \in Clicks /\ This' = This /\ Clicks' = Clicks
         /\ \A i, k : k \in 1 .. Len(mOpenClusters) - 1 /\ k # last_cluster =>
              OpenIn(i, k)' = OpenIn(i, IF k = cix THEN Len(mOpenClusters) ELSE k)
         /\ \A i : OpenIn(i, last_cluster)' <=>
                     \/ OpenIn(i, last_cluster) \/ OpenIn(i, cix) \/ i = This
         /\ \A i, k : FinishedIn(i, k)' = FinishedIn(i, k)
<1>1. /\ cix \in 1 .. Len(mOpenClusters) /\ UNCHANGED <<finished, flushes>>
      /\ pc = "match" /\ UNCHANGED last_cluster
  BY MatchCases DEF Merges
<1>2. /\ last_cluster \in 1 .. Len(mOpenClusters) - 1 /\ last_cluster < cix
      /\ Len(mOpenClusters') = Len(mOpenClusters) - 1
      /\ mOpenClusters'[last_cluster] = Merged
      /\ \A k \in 1 .. Len(mOpenClusters) - 1 : k # last_cluster =>
           mOpenClusters'[k] = IF k = cix THEN mOpenClusters[Len(mOpenClusters)]
                               ELSE mOpenClusters[k]
  BY <1>1, MergeList
<1>3. Merged.members = mOpenClusters[last_cluster].members
                       \cup mOpenClusters[cix].members \cup {This}
  BY <1>1, <1>2, MergedType
<1>4. This \in Clicks /\ This' = This /\ Clicks' = Clicks
  BY <1>1, MatchLog DEF LoopInv, ThisInv, This, Clicks
<1>5. ASSUME NEW i, NEW k \in 1 .. Len(mOpenClusters) - 1, k # last_cluster
      PROVE  OpenIn(i, k)' = OpenIn(i, IF k = cix THEN Len(mOpenClusters) ELSE k)
  BY <1>2, <1>5 DEF OpenIn
<1>6. ASSUME NEW i
      PROVE  OpenIn(i, last_cluster)' <=>
               \/ OpenIn(i, last_cluster) \/ OpenIn(i, cix) \/ i = This
  BY <1>1, <1>2, <1>3 DEF OpenIn
<1>7. \A i, k : FinishedIn(i, k)' = FinishedIn(i, k)
  BY <1>1 DEF FinishedIn
<1> QED
  BY <1>1, <1>2, <1>4, <1>5, <1>6, <1>7

\* The same for the other steps that touch the lists.
LEMMA StartMembers ==
  ASSUME TypeOK, LoopInv, StartClosing, ~in_cluster
  PROVE  /\ Len(mOpenClusters') = Len(mOpenClusters) + 1
         /\ mOpenClusters'[Len(mOpenClusters) + 1] = NewCluster(click, This)
         /\ \A k \in 1 .. Len(mOpenClusters) : mOpenClusters'[k] = mOpenClusters[k]
         /\ \A i, k : k \in 1 .. Len(mOpenClusters) => OpenIn(i, k)' = OpenIn(i, k)
         /\ \A i, k : k = Len(mOpenClusters) + 1 => (OpenIn(i, k)' <=> i = This)
<1> DEFINE new == NewCluster(click, This)
<1>1. mOpenClusters' = Append(mOpenClusters, new)
  BY DEF StartClosing
<1>2. new.members = {This} /\ new \in Cluster
  <2>1. click \in Click /\ This \in Nat /\ settings \in Setting
    BY DEF TypeOK, Click, This
  <2> QED
    BY <2>1, NewClusterType
<1>3. mOpenClusters \in Seq(Cluster)
  BY DEF TypeOK
<1> HIDE DEF new
<1>4. /\ Len(mOpenClusters') = Len(mOpenClusters) + 1
      /\ mOpenClusters'[Len(mOpenClusters) + 1] = new
      /\ \A k \in 1 .. Len(mOpenClusters) : mOpenClusters'[k] = mOpenClusters[k]
  BY <1>1, <1>2, <1>3
<1>5. ASSUME NEW i, NEW k, k = Len(mOpenClusters) + 1 PROVE OpenIn(i, k)' <=> i = This
  BY <1>2, <1>4, <1>5 DEF OpenIn
<1>6. ASSUME NEW i, NEW k \in 1 .. Len(mOpenClusters) PROVE OpenIn(i, k)' = OpenIn(i, k)
  BY <1>4 DEF OpenIn
<1> QED
  BY <1>4, <1>5, <1>6 DEF new

\* The second loop removes a cluster.
Finishes == /\ IsLast(mOpenClusters[cix], click)
            /\ finished' = Append(finished, mOpenClusters[cix])
            /\ mOpenClusters' = Remove(mOpenClusters, cix)

LEMMA CloseCases ==
  ASSUME TypeOK, LoopInv, Close
  PROVE  /\ pc = "close" /\ pc' = "close" /\ cix' = cix - 1
         /\ cix \in 1 .. Len(mOpenClusters)
         /\ UNCHANGED <<settings, click, in_cluster, last_cluster, flushes, log>>
         /\ \/ Finishes
            \/ /\ ~IsLast(mOpenClusters[cix], click)
               /\ UNCHANGED <<finished, mOpenClusters>>
<1>1. cix \in 1 .. Len(mOpenClusters)
  BY DEF TypeOK, LoopInv, IndexInv, Close
<1>2. pc = "close" /\ cix' = cix - 1
      /\ UNCHANGED <<settings, pc, click, in_cluster, last_cluster, flushes, log>>
  BY DEF Close, histVars
<1>3. \/ Finishes
      \/ /\ ~IsLast(mOpenClusters[cix], click)
         /\ UNCHANGED <<finished, mOpenClusters>>
  <2>1. CASE IsLast(mOpenClusters[cix], click)
    BY <2>1 DEF Close, Finishes
  <2>2. CASE ~IsLast(mOpenClusters[cix], click)
    BY <2>2 DEF Close
  <2> QED
    BY <2>1, <2>2
<1> QED
  BY <1>1, <1>2, <1>3

LEMMA FinishMembers ==
  ASSUME TypeOK, cix \in 1 .. Len(mOpenClusters), Finishes
  PROVE  /\ Len(mOpenClusters') = Len(mOpenClusters) - 1
         /\ Len(finished') = Len(finished) + 1
         /\ finished'[Len(finished) + 1] = mOpenClusters[cix]
         /\ \A k \in 1 .. Len(finished) : finished'[k] = finished[k]
         /\ \A k \in 1 .. Len(mOpenClusters) - 1 :
              mOpenClusters'[k] = IF k = cix THEN mOpenClusters[Len(mOpenClusters)]
                                  ELSE mOpenClusters[k]
         /\ \A i, k : k \in 1 .. Len(mOpenClusters) - 1 =>
              OpenIn(i, k)' = OpenIn(i, IF k = cix THEN Len(mOpenClusters) ELSE k)
         /\ \A i, k : k \in 1 .. Len(finished) => FinishedIn(i, k)' = FinishedIn(i, k)
         /\ \A i, k : k = Len(finished) + 1 => FinishedIn(i, k)' = OpenIn(i, cix)
<1>1. mOpenClusters \in Seq(Cluster) /\ finished \in Seq(Cluster)
      /\ mOpenClusters[cix] \in Cluster
  BY DEF TypeOK
<1>2. /\ Len(mOpenClusters') = Len(mOpenClusters) - 1
      /\ \A k \in 1 .. Len(mOpenClusters) - 1 :
           mOpenClusters'[k] = IF k = cix THEN mOpenClusters[Len(mOpenClusters)]
                               ELSE mOpenClusters[k]
  BY <1>1, RemoveType DEF Finishes
<1>3. /\ Len(finished') = Len(finished) + 1
      /\ finished'[Len(finished) + 1] = mOpenClusters[cix]
      /\ \A k \in 1 .. Len(finished) : finished'[k] = finished[k]
  BY <1>1 DEF Finishes
<1>4. ASSUME NEW i, NEW k \in 1 .. Len(mOpenClusters) - 1
      PROVE  OpenIn(i, k)' = OpenIn(i, IF k = cix THEN Len(mOpenClusters) ELSE k)
  BY <1>2 DEF OpenIn
<1>5. ASSUME NEW i, NEW k \in 1 .. Len(finished)
      PROVE  FinishedIn(i, k)' = FinishedIn(i, k)
  BY <1>3 DEF FinishedIn
<1>6. ASSUME NEW i, NEW k, k = Len(finished) + 1
      PROVE  FinishedIn(i, k)' = OpenIn(i, cix)
  BY <1>3, <1>6 DEF FinishedIn, OpenIn
<1> QED
  BY <1>2, <1>3, <1>4, <1>5, <1>6

LEMMA FlushMembers ==
  ASSUME TypeOK, Flush
  PROVE  /\ Len(mOpenClusters') = 0
         /\ Len(finished') = Len(finished) + Len(mOpenClusters)
         /\ \A k \in 1 .. Len(finished) : finished'[k] = finished[k]
         /\ \A k \in 1 .. Len(mOpenClusters) :
              finished'[Len(finished) + k] = mOpenClusters[k]
         /\ \A i, k : k \in 1 .. Len(finished) => FinishedIn(i, k)' = FinishedIn(i, k)
         /\ \A i, k, m : m \in 1 .. Len(mOpenClusters) /\ k = Len(finished) + m =>
              FinishedIn(i, k)' = OpenIn(i, m)
<1>1. mOpenClusters \in Seq(Cluster) /\ finished \in Seq(Cluster)
  BY DEF TypeOK
<1>2. mOpenClusters' = << >> /\ finished' = finished \o mOpenClusters
  BY DEF Flush
<1>3. Len(mOpenClusters') = 0
  BY <1>2
<1>4. /\ Len(finished') = Len(finished) + Len(mOpenClusters)
      /\ \A k \in 1 .. Len(finished) : finished'[k] = finished[k]
      /\ \A k \in 1 .. Len(mOpenClusters) :
              finished'[Len(finished) + k] = mOpenClusters[k]
  BY <1>1, <1>2
<1>5. ASSUME NEW i, NEW k \in 1 .. Len(finished)
      PROVE  FinishedIn(i, k)' = FinishedIn(i, k)
  BY <1>4 DEF FinishedIn
<1>6. ASSUME NEW i, NEW k, NEW m \in 1 .. Len(mOpenClusters), k = Len(finished) + m
      PROVE  FinishedIn(i, k)' = OpenIn(i, m)
  BY <1>4, <1>6 DEF FinishedIn, OpenIn
<1> QED
  BY <1>3, <1>4, <1>5, <1>6

\* The click the first loop looks for a cluster for is the last of the log.
LEMMA PlacedIs ==
  /\ pc = "match" /\ in_cluster => Placed = Clicks
  /\ pc # "match" => Placed = Clicks
  /\ Placed \subseteq Clicks
  /\ TypeOK => \A i \in Clicks : i # This => i \in Placed
<1>1. TypeOK => Len(log) \in Nat
  BY DEF TypeOK
<1> QED
  BY <1>1 DEF Placed, Clicks, This

MembersOnce == MembersInv /\ EachClickOnce

\* A step that leaves the lists, the log and the click alone.
LEMMA MembersSame ==
  ASSUME MembersOnce, UNCHANGED <<mOpenClusters, finished, flushes, log>>,
         pc' # "match", Placed = Clicks
  PROVE  MembersOnce'
<1>1. Clicks' = Clicks /\ Placed' = Clicks
  BY PlacedIs DEF Clicks, Placed
<1>2. \A i, k : OpenIn(i, k)' = OpenIn(i, k) /\ FinishedIn(i, k)' = FinishedIn(i, k)
  BY DEF OpenIn, FinishedIn
<1>3. MembersInv'
  BY <1>1 DEF MembersOnce, MembersInv
<1>4. EachClickOnce'
  BY <1>1, <1>2 DEF MembersOnce, EachClickOnce, Covered, OpenOnce, FinishedOnce, NotBoth
<1> QED
  BY <1>3, <1>4 DEF MembersOnce

LEMMA MembersMatch ==
  ASSUME TypeOK, LoopInv, MembersOnce, Match
  PROVE  MembersOnce'
<1>0. pc = "match" /\ pc' = "match" /\ cix \in 1 .. Len(mOpenClusters)
  BY MatchCases
<1>l. /\ Clicks' = Clicks /\ This' = This /\ This \in Clicks
      /\ \A i \in Clicks : log'[i].flushes = log[i].flushes
      /\ UNCHANGED flushes /\ Len(mOpenClusters) \in Nat
  <2>1. This \in Clicks /\ Len(mOpenClusters) \in Nat
    BY <1>0 DEF LoopInv, ThisInv, TypeOK
  <2>2. This' = This /\ Clicks' = Clicks /\ UNCHANGED flushes
    BY MatchLog, MatchCases DEF This, Clicks
  <2> QED
    BY <2>1, <2>2, MatchLog
<1>i. /\ \A i, k : k \in 1 .. Len(mOpenClusters) /\ OpenIn(i, k) => i \in Clicks
      /\ \A i, k : k \in 1 .. Len(finished) /\ FinishedIn(i, k) => i \in Clicks
      /\ \A i \in Clicks : log[i].flushes <= flushes
  BY DEF MembersOnce, MembersInv, OpenIn, FinishedIn
<1>1. CASE Passes
  <2>1. UNCHANGED <<mOpenClusters, in_cluster, last_cluster, log, finished>>
    BY <1>1, MatchCases DEF Passes
  <2>2. \A i, k : OpenIn(i, k)' = OpenIn(i, k) /\ FinishedIn(i, k)' = FinishedIn(i, k)
    BY <2>1 DEF OpenIn, FinishedIn
  <2>3. Placed' = Placed
    BY <1>0, <2>1 DEF Placed, Clicks
  <2>4. EachClickOnce'
    BY <1>l, <2>1, <2>2, <2>3
    DEF MembersOnce, EachClickOnce, Covered, OpenOnce, FinishedOnce, NotBoth
  <2>5. MembersInv'
    BY <1>0, <1>l, <2>1 DEF MembersOnce, MembersInv, OpenIn, FinishedIn
  <2> QED
    BY <2>4, <2>5 DEF MembersOnce
<1>2. CASE Joins
  <2>1. /\ Len(mOpenClusters') = Len(mOpenClusters)
        /\ UNCHANGED finished
        /\ \A i, k : k \in 1 .. Len(mOpenClusters) =>
             (OpenIn(i, k)' <=> (OpenIn(i, k) \/ (k = cix /\ i = This)))
        /\ \A i, k : FinishedIn(i, k)' = FinishedIn(i, k)
    BY <1>2, JoinsMembers
  <2>2. in_cluster' /\ last_cluster' = cix /\ ~in_cluster
    BY <1>2 DEF Joins
  <2>3. /\ \A k \in 1 .. Len(mOpenClusters) : ~OpenIn(This, k)
        /\ \A k \in 1 .. Len(finished) : ~FinishedIn(This, k)
    BY <1>0, <2>2 DEF MembersOnce, MembersInv
  <2>4. Placed' \subseteq Clicks
    BY <1>l, PlacedIs DEF Placed, Clicks
  <2>5. Covered'
    <3> SUFFICES ASSUME NEW i \in Clicks
                 PROVE  \/ \E k \in 1 .. Len(mOpenClusters') : OpenIn(i, k)'
                        \/ \E k \in 1 .. Len(finished') : FinishedIn(i, k)'
      BY <2>4 DEF Covered
    <3>1. CASE i = This
      BY <1>0, <2>1, <3>1
    <3>2. CASE i # This
      <4>1. i \in Placed
        BY <3>2, PlacedIs
      <4> QED
        BY <2>1, <4>1 DEF MembersOnce, EachClickOnce, Covered
    <3> QED
      BY <3>1, <3>2
  <2>6. OpenOnce'
    BY <1>l, <2>1, <2>3 DEF MembersOnce, EachClickOnce, OpenOnce
  <2>7. FinishedOnce'
    BY <1>l, <2>1 DEF MembersOnce, EachClickOnce, FinishedOnce
  <2>8. NotBoth'
    BY <1>l, <2>1, <2>3 DEF MembersOnce, EachClickOnce, NotBoth
  <2>9. \A i, k : /\ k \in 1 .. Len(mOpenClusters') /\ OpenIn(i, k)' => i \in Clicks
                  /\ k \in 1 .. Len(finished') /\ FinishedIn(i, k)' => i \in Clicks
    BY <1>l, <1>i, <2>1
  <2>10. OpenIn(This, last_cluster)'
    BY <1>0, <1>l, <2>1, <2>2 DEF OpenIn
  <2>11. MembersInv'
    BY <1>l, <1>i, <2>2, <2>9, <2>10 DEF MembersInv, OpenIn, FinishedIn
  <2> QED
    BY <2>5, <2>6, <2>7, <2>8, <2>11 DEF MembersOnce, EachClickOnce
<1>3. CASE Merges
  <2>1. /\ Len(mOpenClusters') = Len(mOpenClusters) - 1
        /\ last_cluster \in 1 .. Len(mOpenClusters) - 1 /\ last_cluster < cix
        /\ UNCHANGED finished
        /\ \A i, k : k \in 1 .. Len(mOpenClusters) - 1 /\ k # last_cluster =>
             OpenIn(i, k)' = OpenIn(i, IF k = cix THEN Len(mOpenClusters) ELSE k)
        /\ \A i : OpenIn(i, last_cluster)' <=>
                    \/ OpenIn(i, last_cluster) \/ OpenIn(i, cix) \/ i = This
        /\ \A i, k : FinishedIn(i, k)' = FinishedIn(i, k)
    BY <1>3, MergesMembers
  <2>2. in_cluster' /\ last_cluster' = last_cluster /\ in_cluster
    BY <1>3 DEF Merges
  <2>3. OpenIn(This, last_cluster)
    BY <1>0, <2>2 DEF MembersOnce, MembersInv
  <2>4. Placed' \subseteq Clicks /\ Placed = Clicks
    BY <1>0, <1>l, <2>2, PlacedIs DEF Placed, Clicks
  <2> DEFINE old(k) == IF k = cix THEN Len(mOpenClusters) ELSE k
             N == Len(mOpenClusters)
  <2>a. ASSUME NEW i, NEW k \in 1 .. N - 1
        PROVE  OpenIn(i, k)' <=> \/ k # last_cluster /\ OpenIn(i, old(k))
                                 \/ k = last_cluster /\ (OpenIn(i, k) \/ OpenIn(i, cix))
    <3>1. CASE k # last_cluster
      BY <2>1, <3>1
    <3>2. CASE k = last_cluster
      <4>1. OpenIn(i, last_cluster)' = OpenIn(i, k)'
        BY <2>2, <3>2 DEF OpenIn
      <4> QED
        BY <2>1, <2>3, <3>2, <4>1
    <3> QED
      BY <3>1, <3>2
  <2>5. Covered'
    <3> SUFFICES ASSUME NEW i \in Clicks
                 PROVE  \/ \E k \in 1 .. N - 1 : OpenIn(i, k)'
                        \/ \E k \in 1 .. Len(finished') : FinishedIn(i, k)'
      BY <2>1, <2>4 DEF Covered
    <3>1. \/ \E k \in 1 .. N : OpenIn(i, k)
          \/ \E k \in 1 .. Len(finished) : FinishedIn(i, k)
      BY <2>4 DEF MembersOnce, EachClickOnce, Covered
    <3>2. ASSUME NEW k \in 1 .. N, OpenIn(i, k)
          PROVE  \E m \in 1 .. N - 1 : OpenIn(i, m)'
      <4>1. CASE k = cix \/ k = last_cluster
        BY <2>1, <2>a, <3>2, <4>1
      <4>2. CASE k = N /\ k # cix
        <5>1. cix \in 1 .. N - 1 /\ cix # last_cluster /\ old(cix) = N
          BY <1>0, <2>1, <4>2
        <5> QED
          BY <5>1, <2>a, <3>2, <4>2
      <4>3. CASE k # N /\ k # cix /\ k # last_cluster
        <5>1. k \in 1 .. N - 1 /\ old(k) = k
          BY <4>3
        <5> QED
          BY <5>1, <2>a, <3>2, <4>3
      <4> QED
        BY <4>1, <4>2, <4>3
    <3> QED
      BY <2>1, <3>1, <3>2
  <2>6. OpenOnce'
    <3> SUFFICES ASSUME NEW i \in Clicks, NEW k \in 1 .. N - 1, NEW m \in 1 .. N - 1,
                        OpenIn(i, k)', OpenIn(i, m)'
                 PROVE  k = m
      BY <1>l, <2>1 DEF OpenOnce
    <3>1. \A p, q \in 1 .. N : OpenIn(i, p) /\ OpenIn(i, q) => p = q
      BY DEF MembersOnce, EachClickOnce, OpenOnce
    <3>2. old(k) \in 1 .. N /\ old(m) \in 1 .. N
      BY <1>0
    <3>3. /\ k # last_cluster => OpenIn(i, old(k)) /\ old(k) # cix /\ old(k) # last_cluster
          /\ m # last_cluster => OpenIn(i, old(m)) /\ old(m) # cix /\ old(m) # last_cluster
      BY <1>0, <2>1, <2>a
    <3>4. /\ k = last_cluster => OpenIn(i, last_cluster) \/ OpenIn(i, cix)
          /\ m = last_cluster => OpenIn(i, last_cluster) \/ OpenIn(i, cix)
      BY <2>a
    <3>5. k # last_cluster /\ m # last_cluster => old(k) = old(m)
      BY <3>1, <3>2, <3>3
    <3>6. old(k) = old(m) => k = m
      OBVIOUS
    <3>7. ~(k # last_cluster /\ m = last_cluster) /\ ~(m # last_cluster /\ k = last_cluster)
      BY <1>0, <2>1, <3>1, <3>2, <3>3, <3>4
    <3> HIDE DEF old
    <3> QED
      BY <3>5, <3>6, <3>7
  <2>b. ASSUME NEW i, NEW k \in 1 .. N - 1, OpenIn(i, k)'
        PROVE  \E m \in 1 .. N : OpenIn(i, m)
    BY <1>0, <2>1, <2>a, <2>b
  <2>7. FinishedOnce'
    BY <1>l, <2>1 DEF MembersOnce, EachClickOnce, FinishedOnce
  <2>8. NotBoth'
    BY <1>l, <2>1, <2>b DEF MembersOnce, EachClickOnce, NotBoth
  <2>9. \A i, k : /\ k \in 1 .. Len(mOpenClusters') /\ OpenIn(i, k)' => i \in Clicks
                  /\ k \in 1 .. Len(finished') /\ FinishedIn(i, k)' => i \in Clicks
    BY <1>l, <1>i, <2>1, <2>b
  <2>10. OpenIn(This, last_cluster)'
    BY <1>l, <2>1, <2>2 DEF OpenIn
  <2>11. MembersInv'
    BY <1>l, <1>i, <2>2, <2>9, <2>10 DEF MembersInv, OpenIn, FinishedIn
  <2> QED
    BY <2>5, <2>6, <2>7, <2>8, <2>11 DEF MembersOnce, EachClickOnce
<1> QED
  BY <1>1, <1>2, <1>3, MatchCases

LEMMA MembersStart ==
  ASSUME TypeOK, LoopInv, MembersOnce, StartClosing
  PROVE  MembersOnce'
<1>1. /\ pc = "match" /\ pc' = "close" /\ UNCHANGED <<finished, flushes, log>>
      /\ Clicks' = Clicks /\ This \in Clicks /\ Len(mOpenClusters) \in Nat
  BY DEF StartClosing, histVars, LoopInv, ThisInv, Clicks, TypeOK
<1>2. CASE in_cluster
  <2>1. Placed = Clicks /\ UNCHANGED mOpenClusters
    BY <1>1, <1>2, PlacedIs DEF StartClosing
  <2> QED
    BY <1>1, <2>1, MembersSame
<1>3. CASE ~in_cluster
  <2> DEFINE N == Len(mOpenClusters)
  <2>1. /\ Len(mOpenClusters') = N + 1
        /\ \A i, k : k \in 1 .. N => OpenIn(i, k)' = OpenIn(i, k)
        /\ \A i, k : k = N + 1 => (OpenIn(i, k)' <=> i = This)
    BY <1>3, StartMembers
  <2>2. \A i, k : FinishedIn(i, k)' = FinishedIn(i, k)
    BY <1>1 DEF FinishedIn
  <2>3. /\ \A k \in 1 .. N : ~OpenIn(This, k)
        /\ \A k \in 1 .. Len(finished) : ~FinishedIn(This, k)
    BY <1>1, <1>3 DEF MembersOnce, MembersInv
  <2>4. \A i, k : k \in 1 .. N + 1 => k \in 1 .. N \/ k = N + 1
    BY <1>1
  <2>5. Placed' = Clicks
    BY <1>1 DEF Placed, Clicks
  <2>6. Covered'
    <3> SUFFICES ASSUME NEW i \in Clicks
                 PROVE  \/ \E k \in 1 .. N + 1 : OpenIn(i, k)'
                        \/ \E k \in 1 .. Len(finished) : FinishedIn(i, k)'
      BY <1>1, <2>1, <2>5 DEF Covered
    <3>1. CASE i = This
      BY <1>1, <2>1, <3>1
    <3>2. CASE i # This
      <4>1. i \in Placed
        BY <3>2, PlacedIs
      <4> QED
        BY <1>1, <2>1, <2>2, <4>1 DEF MembersOnce, EachClickOnce, Covered
    <3> QED
      BY <3>1, <3>2
  <2>7. OpenOnce'
    BY <1>1, <2>1, <2>3, <2>4 DEF MembersOnce, EachClickOnce, OpenOnce
  <2>8. FinishedOnce'
    BY <1>1, <2>2 DEF MembersOnce, EachClickOnce, FinishedOnce
  <2>9. NotBoth'
    BY <1>1, <2>1, <2>2, <2>3, <2>4 DEF MembersOnce, EachClickOnce, NotBoth
  <2>10. /\ \A i, k : k \in 1 .. N /\ OpenIn(i, k) => i \in Clicks
         /\ \A i, k : k \in 1 .. Len(finished) /\ FinishedIn(i, k) => i \in Clicks
    BY DEF MembersOnce, MembersInv, OpenIn, FinishedIn
  <2>11. \A i, k : /\ k \in 1 .. N + 1 /\ OpenIn(i, k)' => i \in Clicks
                   /\ k \in 1 .. Len(finished) /\ FinishedIn(i, k)' => i \in Clicks
    BY <1>1, <2>1, <2>2, <2>4, <2>10
  <2>12. MembersInv'
    BY <1>1, <2>1, <2>11 DEF MembersOnce, MembersInv, OpenIn, FinishedIn
  <2> QED
    BY <2>6, <2>7, <2>8, <2>9, <2>12 DEF MembersOnce, EachClickOnce
<1> QED
  BY <1>2, <1>3

LEMMA MembersClose ==
  ASSUME TypeOK, LoopInv, MembersOnce, Close
  PROVE  MembersOnce'
<1>1. /\ pc = "close" /\ pc' = "close" /\ UNCHANGED <<flushes, log>>
      /\ Clicks' = Clicks /\ cix \in 1 .. Len(mOpenClusters)
      /\ Len(mOpenClusters) \in Nat /\ Len(finished) \in Nat
      /\ Placed = Clicks /\ Placed' = Clicks
  BY CloseCases DEF Clicks, Placed, TypeOK
<1>2. CASE UNCHANGED <<finished, mOpenClusters>>
  BY <1>1, <1>2, MembersSame
<1>3. CASE Finishes
  <2> DEFINE N == Len(mOpenClusters)
             F == Len(finished)
             old(k) == IF k = cix THEN N ELSE k
  <2>1. /\ Len(mOpenClusters') = N - 1
        /\ Len(finished') = F + 1
        /\ \A i, k : k \in 1 .. N - 1 => OpenIn(i, k)' = OpenIn(i, old(k))
        /\ \A i, k : k \in 1 .. F => FinishedIn(i, k)' = FinishedIn(i, k)
        /\ \A i, k : k = F + 1 => FinishedIn(i, k)' = OpenIn(i, cix)
    BY <1>1, <1>3, FinishMembers
  <2>2. /\ \A k \in 1 .. N - 1 : old(k) \in 1 .. N /\ old(k) # cix
        /\ \A k, m \in 1 .. N - 1 : old(k) = old(m) => k = m
        /\ \A m \in 1 .. N : m # cix => \E k \in 1 .. N - 1 : old(k) = m
    <3>1. ASSUME NEW m \in 1 .. N, m # cix PROVE \E k \in 1 .. N - 1 : old(k) = m
      <4>1. CASE m = N
        <5>1. cix \in 1 .. N - 1 /\ old(cix) = m
          BY <1>1, <3>1, <4>1
        <5> QED
          BY <5>1
      <4>2. CASE m # N
        <5>1. m \in 1 .. N - 1 /\ old(m) = m
          BY <1>1, <3>1, <4>2
        <5> QED
          BY <5>1
      <4> QED
        BY <4>1, <4>2
    <3> QED
      BY <1>1, <3>1
  <2>3. \A k : k \in 1 .. F + 1 => k \in 1 .. F \/ k = F + 1
    BY <1>1
  <2>4. F + 1 \in 1 .. F + 1 /\ \A k \in 1 .. F : k \in 1 .. F + 1 /\ k # F + 1
    BY <1>1
  <2>i. /\ \A i, k : k \in 1 .. N /\ OpenIn(i, k) => i \in Clicks
        /\ \A i, k : k \in 1 .. F /\ FinishedIn(i, k) => i \in Clicks
    BY DEF MembersOnce, MembersInv, OpenIn, FinishedIn
  <2> HIDE DEF old
  <2>5. Covered'
    <3> SUFFICES ASSUME NEW i \in Clicks
                 PROVE  \/ \E k \in 1 .. N - 1 : OpenIn(i, k)'
                        \/ \E k \in 1 .. F + 1 : FinishedIn(i, k)'
      BY <1>1, <2>1 DEF Covered
    <3>1. \/ \E k \in 1 .. N : OpenIn(i, k)
          \/ \E k \in 1 .. F : FinishedIn(i, k)
      BY <1>1 DEF MembersOnce, EachClickOnce, Covered
    <3>2. ASSUME NEW m \in 1 .. N, OpenIn(i, m), m # cix
          PROVE  \E k \in 1 .. N - 1 : OpenIn(i, k)'
      <4>1. PICK k \in 1 .. N - 1 : old(k) = m
        BY <2>2, <3>2
      <4> QED
        BY <2>1, <3>2, <4>1
    <3>3. ASSUME OpenIn(i, cix) PROVE \E k \in 1 .. F + 1 : FinishedIn(i, k)'
      <4>1. PICK k \in 1 .. F + 1 : k = F + 1
        BY <2>4
      <4> QED
        BY <2>1, <3>3, <4>1
    <3>4. ASSUME NEW k \in 1 .. F, FinishedIn(i, k)
          PROVE  \E m \in 1 .. F + 1 : FinishedIn(i, m)'
      BY <2>1, <2>4, <3>4
    <3> QED
      BY <1>1, <3>1, <3>2, <3>3, <3>4
  <2>6. OpenOnce'
    <3> SUFFICES ASSUME NEW i \in Clicks, NEW k \in 1 .. N - 1, NEW m \in 1 .. N - 1,
                        OpenIn(i, k)', OpenIn(i, m)'
                 PROVE  k = m
      BY <1>1, <2>1 DEF OpenOnce
    <3>1. OpenIn(i, old(k)) /\ OpenIn(i, old(m))
      BY <2>1
    <3>2. old(k) = old(m)
      BY <2>2, <3>1 DEF MembersOnce, EachClickOnce, OpenOnce
    <3> QED
      BY <2>2, <3>2
  <2>7. FinishedOnce'
    <3> SUFFICES ASSUME NEW i \in Clicks, NEW k \in 1 .. F + 1, NEW m \in 1 .. F + 1,
                        FinishedIn(i, k)', FinishedIn(i, m)'
                 PROVE  k = m
      BY <1>1, <2>1 DEF FinishedOnce
    <3>1. \A p \in 1 .. F : ~(OpenIn(i, cix) /\ FinishedIn(i, p))
      BY <1>1 DEF MembersOnce, EachClickOnce, NotBoth
    <3> QED
      BY <2>1, <2>3, <3>1 DEF MembersOnce, EachClickOnce, FinishedOnce
  <2>8. NotBoth'
    <3> SUFFICES ASSUME NEW i \in Clicks, NEW k \in 1 .. N - 1, NEW m \in 1 .. F + 1,
                        OpenIn(i, k)', FinishedIn(i, m)'
                 PROVE  FALSE
      BY <1>1, <2>1 DEF NotBoth
    <3>1. OpenIn(i, old(k)) /\ old(k) \in 1 .. N /\ old(k) # cix
      BY <2>1, <2>2
    <3>2. m = F + 1
      BY <2>1, <2>3, <3>1 DEF MembersOnce, EachClickOnce, NotBoth
    <3>3. OpenIn(i, cix)
      BY <2>1, <3>2
    <3> QED
      BY <1>1, <3>1, <3>3 DEF MembersOnce, EachClickOnce, OpenOnce
  <2>9. \A i, k : /\ k \in 1 .. N - 1 /\ OpenIn(i, k)' => i \in Clicks
                  /\ k \in 1 .. F + 1 /\ FinishedIn(i, k)' => i \in Clicks
    BY <1>1, <2>1, <2>2, <2>3, <2>i
  <2>10. MembersInv'
    BY <1>1, <2>1, <2>9 DEF MembersOnce, MembersInv, OpenIn, FinishedIn
  <2> QED
    BY <2>5, <2>6, <2>7, <2>8, <2>10 DEF MembersOnce, EachClickOnce
<1> QED
  BY <1>2, <1>3, CloseCases

LEMMA MembersFlush ==
  ASSUME TypeOK, MembersOnce, Flush
  PROVE  MembersOnce'
<1> DEFINE N == Len(mOpenClusters)
           F == Len(finished)
<1>1. /\ pc = "idle" /\ pc' = "idle" /\ flushes' = flushes + 1 /\ UNCHANGED log
      /\ Clicks' = Clicks /\ N \in Nat /\ F \in Nat /\ flushes \in Nat
      /\ Placed = Clicks /\ Placed' = Clicks
  BY DEF Flush, Clicks, Placed, TypeOK
<1>2. /\ Len(mOpenClusters') = 0
      /\ Len(finished') = F + N
      /\ \A i, k : k \in 1 .. F => FinishedIn(i, k)' = FinishedIn(i, k)
      /\ \A i, k, m : m \in 1 .. N /\ k = F + m => FinishedIn(i, k)' = OpenIn(i, m)
  BY FlushMembers
<1>3. \A k \in 1 .. F + N : k \in 1 .. F \/ (k - F \in 1 .. N /\ k = F + (k - F))
  BY <1>1
<1>4. \A m \in 1 .. N : F + m \in 1 .. F + N
  BY <1>1
<1>i. /\ \A i, k : k \in 1 .. N /\ OpenIn(i, k) => i \in Clicks
      /\ \A i, k : k \in 1 .. F /\ FinishedIn(i, k) => i \in Clicks
      /\ \A i \in Clicks : log[i].flushes <= flushes
  BY DEF MembersOnce, MembersInv, OpenIn, FinishedIn
<1>5. Covered'
  <2> SUFFICES ASSUME NEW i \in Clicks
               PROVE  \E k \in 1 .. F + N : FinishedIn(i, k)'
    BY <1>1, <1>2 DEF Covered
  <2>1. ASSUME NEW m \in 1 .. N, OpenIn(i, m)
        PROVE  \E k \in 1 .. F + N : FinishedIn(i, k)'
    <3>1. PICK k \in 1 .. F + N : k = F + m
      BY <1>4
    <3> QED
      BY <1>2, <2>1, <3>1
  <2>2. ASSUME NEW k \in 1 .. F, FinishedIn(i, k)
        PROVE  \E m \in 1 .. F + N : FinishedIn(i, m)'
    <3>1. k \in 1 .. F + N
      BY <1>1
    <3> QED
      BY <1>2, <2>2, <3>1
  <2>3. \/ \E k \in 1 .. N : OpenIn(i, k)
        \/ \E k \in 1 .. F : FinishedIn(i, k)
    BY <1>1 DEF MembersOnce, EachClickOnce, Covered
  <2> QED
    BY <2>1, <2>2, <2>3
<1>6. OpenOnce' /\ NotBoth'
  BY <1>2 DEF OpenOnce, NotBoth
<1>7. FinishedOnce'
  <2> SUFFICES ASSUME NEW i \in Clicks, NEW k \in 1 .. F + N, NEW m \in 1 .. F + N,
                      FinishedIn(i, k)', FinishedIn(i, m)'
               PROVE  k = m
    BY <1>1, <1>2 DEF FinishedOnce
  <2>1. /\ \/ k \in 1 .. F /\ FinishedIn(i, k)
           \/ k - F \in 1 .. N /\ OpenIn(i, k - F)
        /\ \/ m \in 1 .. F /\ FinishedIn(i, m)
           \/ m - F \in 1 .. N /\ OpenIn(i, m - F)
    BY <1>2, <1>3
  <2>2. \A p \in 1 .. N, q \in 1 .. F : ~(OpenIn(i, p) /\ FinishedIn(i, q))
    BY DEF MembersOnce, EachClickOnce, NotBoth
  <2>3. \A p, q \in 1 .. N : OpenIn(i, p) /\ OpenIn(i, q) => p = q
    BY DEF MembersOnce, EachClickOnce, OpenOnce
  <2>4. \A p, q \in 1 .. F : FinishedIn(i, p) /\ FinishedIn(i, q) => p = q
    BY DEF MembersOnce, EachClickOnce, FinishedOnce
  <2>5. k - F = m - F => k = m
    BY <1>1
  <2> QED
    BY <2>1, <2>2, <2>3, <2>4, <2>5
<1>8. \A i, k : k \in 1 .. F + N /\ FinishedIn(i, k)' => i \in Clicks
  BY <1>2, <1>3, <1>i
<1>9. \A i \in Clicks : log'[i].flushes <= flushes'
  <2>1. ASSUME NEW i \in Clicks PROVE log[i].flushes <= flushes + 1
    <3>1. log \in Seq(LogEntry) /\ i \in 1 .. Len(log)
      BY DEF TypeOK, LogEntry, Clicks
    <3>2. log[i] \in LogEntry
      BY <3>1
    <3>3. log[i].flushes \in Nat /\ log[i].flushes <= flushes
      BY <1>i, <3>2 DEF LogEntry
    <3> QED
      BY <1>1, <3>3
  <2> QED
    BY <1>1, <2>1
<1>10. MembersInv'
  BY <1>1, <1>2, <1>8, <1>9 DEF MembersInv, FinishedIn
<1> QED
  BY <1>5, <1>6, <1>7, <1>10 DEF MembersOnce, EachClickOnce

LEMMA MembersNext ==
  ASSUME TypeOK, MembersOnce, NEW px \in Pixels, NEW tot \in ToTs, NEW t \in Times,
         NextClick(px, tot, t)
  PROVE  MembersOnce'
<1>1. /\ pc = "click" /\ pc' = "match" /\ in_cluster' = FALSE
      /\ UNCHANGED <<mOpenClusters, finished, flushes>>
      /\ Len(log) \in Nat /\ flushes \in Nat
  BY DEF NextClick, TypeOK
<1>2. /\ Len(log') = Len(log) + 1
      /\ \A i \in Clicks : log'[i] = log[i]
      /\ log'[Len(log) + 1].flushes = flushes
  <2> DEFINE new == [pos |-> click'.pos, tot |-> tot, flushes |-> flushes,
                     sep |-> [d \in Dims |-> Sep(d)],
                     max_t |-> settings.max_t_separation, skipped |-> FALSE]
  <2>1. log' = Append(log, new) /\ new.flushes = flushes
    BY DEF NextClick
  <2> HIDE DEF new
  <2> QED
    BY <2>1 DEF TypeOK, Clicks
<1>3. /\ Clicks = 1 .. Len(log) /\ Clicks' = 1 .. Len(log) + 1 /\ Placed' = Clicks
      /\ Placed = Clicks /\ This' = Len(log) + 1
      /\ Len(log) + 1 \notin Clicks
  <2>1. Placed' = 1 .. Len(log') - 1 /\ Len(log') - 1 = Len(log)
    BY <1>1, <1>2 DEF Placed
  <2>2. Clicks = 1 .. Len(log) /\ Clicks' = 1 .. Len(log') /\ This' = Len(log')
    BY DEF Clicks, This
  <2>3. Placed = Clicks
    BY <1>1, PlacedIs
  <2> QED
    BY <1>1, <1>2, <2>1, <2>2, <2>3
<1>4. \A i, k : OpenIn(i, k)' = OpenIn(i, k) /\ FinishedIn(i, k)' = FinishedIn(i, k)
  BY <1>1 DEF OpenIn, FinishedIn
<1>5. /\ \A i, k : k \in 1 .. Len(mOpenClusters) /\ OpenIn(i, k) => i \in Clicks
      /\ \A i, k : k \in 1 .. Len(finished) /\ FinishedIn(i, k) => i \in Clicks
      /\ \A i \in Clicks : log[i].flushes <= flushes
  BY DEF MembersOnce, MembersInv, OpenIn, FinishedIn
<1>6. Covered'
  BY <1>1, <1>3, <1>4 DEF MembersOnce, EachClickOnce, Covered
<1>7. OpenOnce' /\ FinishedOnce' /\ NotBoth'
  BY <1>1, <1>4, <1>5 DEF MembersOnce, EachClickOnce, OpenOnce, FinishedOnce, NotBoth
<1>8. \A i \in Clicks' : log'[i].flushes <= flushes'
  <2>1. \A i \in Clicks' : i \in Clicks \/ i = Len(log) + 1
    BY <1>1, <1>3
  <2> QED
    BY <1>1, <1>2, <1>5, <2>1
<1>9. \A i \in Clicks : i \in Clicks'
  BY <1>1, <1>3
<1>10. MembersInv'
  <2>1. /\ \A k \in 1 .. Len(mOpenClusters') : mOpenClusters'[k].members \subseteq Clicks'
        /\ \A k \in 1 .. Len(finished') : finished'[k].members \subseteq Clicks'
    BY <1>1, <1>5, <1>9 DEF OpenIn, FinishedIn
  <2>2. /\ \A k \in 1 .. Len(mOpenClusters') : ~OpenIn(This, k)'
        /\ \A k \in 1 .. Len(finished') : ~FinishedIn(This, k)'
    BY <1>1, <1>3, <1>5 DEF OpenIn, FinishedIn
  <2> QED
    BY <1>1, <1>8, <2>1, <2>2 DEF MembersInv
<1> QED
  BY <1>6, <1>7, <1>10 DEF MembersOnce, EachClickOnce

LEMMA MembersStep ==
  ASSUME TypeOK, LoopInv, MembersOnce, [Next]_vars
  PROVE  MembersOnce'
<1>0. pc # "match" => Placed = Clicks
  BY PlacedIs
<1>1. ASSUME NEW n \in 1 .. MaxChunk, Poll(n) PROVE MembersOnce'
  BY <1>0, <1>1, MembersSame DEF Poll, histVars
<1>2. ASSUME NEW px \in Pixels, NEW tot \in ToTs, NEW t \in Times,
             NextClick(px, tot, t)
      PROVE  MembersOnce'
  BY <1>2, MembersNext
<1>3. CASE Match
  BY <1>3, MembersMatch
<1>4. CASE StartClosing
  BY <1>4, MembersStart
<1>5. CASE Close
  BY <1>5, MembersClose
<1>6. CASE EndClosing
  BY <1>0, <1>6, MembersSame DEF EndClosing, histVars
<1>7. ASSUME NEW written \in 0 .. Len(finished), Output(written) PROVE MembersOnce'
  BY <1>0, <1>7, MembersSame DEF Output, histVars
<1>8. CASE Flush
  BY <1>8, MembersFlush
<1>9. ASSUME NEW x \in Settings, SetClusterParameters(x) PROVE MembersOnce'
  BY <1>0, <1>9, MembersSame DEF SetClusterParameters, histVars
<1>10. ASSUME NEW r \in {"none", "dead", "live"}, SetRawPacketServerAddress(r)
       PROVE  MembersOnce'
  BY <1>0, <1>10, MembersSame DEF SetRawPacketServerAddress, histVars
<1>11. ASSUME NEW opened \in BOOLEAN, SetSaveFile(opened) PROVE MembersOnce'
  BY <1>0, <1>11, MembersSame DEF SetSaveFile, histVars
<1>12. CASE UNCHANGED vars
  BY <1>12 DEF vars, loopVars, histVars, MembersOnce, MembersInv, EachClickOnce,
       Covered, OpenOnce, FinishedOnce, NotBoth, Placed, Clicks, OpenIn, FinishedIn, This
<1> QED
  BY <1>1, <1>2, <1>3, <1>4, <1>5, <1>6, <1>7, <1>8, <1>9, <1>10, <1>11, <1>12
  DEF Next

-----------------------------------------------------------------------------
(* Clusters in the lists.                                                  *)

\* What steps other than those of the first loop do to clusters: they start
\* one, and they put clusters elsewhere.
Started(c) == pc = "match" /\ c = NewCluster(click, This)
WasOpen(c) == \E k \in 1 .. Len(mOpenClusters) : c = mOpenClusters[k]
WasFinished(c) == \E k \in 1 .. Len(finished) : c = finished[k]

Moved ==
    /\ \A k \in 1 .. Len(mOpenClusters') :
          WasOpen(mOpenClusters'[k]) \/ Started(mOpenClusters'[k])
    /\ \A k \in 1 .. Len(finished') :
          WasOpen(finished'[k]) \/ WasFinished(finished'[k])

LEMMA ClustersMove ==
  ASSUME TypeOK, LoopInv, [Next]_vars, ~Match
  PROVE  Moved
<1>0. UNCHANGED <<mOpenClusters, finished>> => Moved
  BY DEF Moved, WasOpen, WasFinished
<1>1. Len(mOpenClusters) \in Nat /\ Len(finished) \in Nat
  BY DEF TypeOK
<1>2. ASSUME NEW n \in 1 .. MaxChunk, Poll(n) PROVE Moved
  BY <1>0, <1>2 DEF Poll
<1>3. ASSUME NEW px \in Pixels, NEW tot \in ToTs, NEW t \in Times,
             NextClick(px, tot, t)
      PROVE  Moved
  BY <1>0, <1>3 DEF NextClick
<1>4. CASE StartClosing
  <2>1. pc = "match" /\ UNCHANGED finished
    BY <1>4 DEF StartClosing
  <2>2. CASE in_cluster
    BY <1>0, <1>4, <2>1, <2>2 DEF StartClosing
  <2>3. CASE ~in_cluster
    <3>1. /\ Len(mOpenClusters') = Len(mOpenClusters) + 1
          /\ mOpenClusters'[Len(mOpenClusters) + 1] = NewCluster(click, This)
          /\ \A k \in 1 .. Len(mOpenClusters) : mOpenClusters'[k] = mOpenClusters[k]
      BY <1>4, <2>3, StartMembers
    <3>2. \A k \in 1 .. Len(mOpenClusters) + 1 :
             k \in 1 .. Len(mOpenClusters) \/ k = Len(mOpenClusters) + 1
      BY <1>1
    <3> QED
      BY <2>1, <3>1, <3>2 DEF Moved, WasOpen, WasFinished, Started
  <2> QED
    BY <2>2, <2>3
<1>5. CASE Close
  <2>1. cix \in 1 .. Len(mOpenClusters)
    BY <1>5, CloseCases
  <2>2. CASE Finishes
    <3>1. /\ Len(mOpenClusters') = Len(mOpenClusters) - 1
          /\ Len(finished') = Len(finished) + 1
          /\ finished'[Len(finished) + 1] = mOpenClusters[cix]
          /\ \A k \in 1 .. Len(finished) : finished'[k] = finished[k]
          /\ \A k \in 1 .. Len(mOpenClusters) - 1 :
               mOpenClusters'[k] = IF k = cix THEN mOpenClusters[Len(mOpenClusters)]
                                   ELSE mOpenClusters[k]
      BY <2>1, <2>2, FinishMembers
    <3>2. /\ \A k \in 1 .. Len(finished) + 1 :
               k \in 1 .. Len(finished) \/ k = Len(finished) + 1
          /\ \A k \in 1 .. Len(mOpenClusters) - 1 : k \in 1 .. Len(mOpenClusters)
          /\ Len(mOpenClusters) \in 1 .. Len(mOpenClusters)
      BY <1>1, <2>1
    <3> QED
      BY <2>1, <3>1, <3>2 DEF Moved, WasOpen, WasFinished
  <2> QED
    BY <1>0, <1>5, <2>2, CloseCases
<1>6. CASE EndClosing
  BY <1>0, <1>6 DEF EndClosing
<1>7. ASSUME NEW written \in 0 .. Len(finished), Output(written) PROVE Moved
  BY <1>0, <1>7 DEF Output
<1>8. CASE Flush
  <2>1. /\ Len(mOpenClusters') = 0
        /\ Len(finished') = Len(finished) + Len(mOpenClusters)
        /\ \A k \in 1 .. Len(finished) : finished'[k] = finished[k]
        /\ \A k \in 1 .. Len(mOpenClusters) :
             finished'[Len(finished) + k] = mOpenClusters[k]
    BY <1>8, FlushMembers
  <2>2. ASSUME NEW k \in 1 .. Len(finished) + Len(mOpenClusters)
        PROVE  WasOpen(finished'[k]) \/ WasFinished(finished'[k])
    <3>1. CASE k \in 1 .. Len(finished)
      BY <2>1, <3>1 DEF WasFinished
    <3>2. CASE k \notin 1 .. Len(finished)
      <4>1. /\ k - Len(finished) \in 1 .. Len(mOpenClusters)
            /\ k = Len(finished) + (k - Len(finished))
        BY <1>1, <3>2
      <4> QED
        BY <2>1, <4>1 DEF WasOpen
    <3> QED
      BY <3>1, <3>2
  <2> QED
    BY <2>1, <2>2 DEF Moved
<1>9. ASSUME NEW x \in Settings, SetClusterParameters(x) PROVE Moved
  BY <1>0, <1>9 DEF SetClusterParameters
<1>10. ASSUME NEW r \in {"none", "dead", "live"}, SetRawPacketServerAddress(r)
       PROVE  Moved
  BY <1>0, <1>10 DEF SetRawPacketServerAddress
<1>11. ASSUME NEW opened \in BOOLEAN, SetSaveFile(opened) PROVE Moved
  BY <1>0, <1>11 DEF SetSaveFile
<1>12. CASE UNCHANGED vars
  BY <1>0, <1>12 DEF vars
<1> QED
  BY <1>2, <1>3, <1>4, <1>5, <1>6, <1>7, <1>8, <1>9, <1>10, <1>11, <1>12 DEF Next

\* The log keeps the place and the ToT of a click.
LEMMA LogSame ==
  ASSUME TypeOK, LoopInv, [Next]_vars, ~Match
  PROVE  \A i \in Clicks : log'[i] = log[i]
<1>1. CASE UNCHANGED log
  BY <1>1
<1>2. ASSUME NEW px \in Pixels, NEW tot \in ToTs, NEW t \in Times,
             NextClick(px, tot, t)
      PROVE  \A i \in Clicks : log'[i] = log[i]
  <2>1. PICK e : log' = Append(log, e)
    BY <1>2 DEF NextClick
  <2> QED
    BY <2>1 DEF TypeOK, Clicks
<1> QED
  BY <1>1, <1>2
     DEF Next, Poll, StartClosing, Close, EndClosing, Output, Flush,
         SetClusterParameters, SetRawPacketServerAddress, SetSaveFile, vars, histVars

-----------------------------------------------------------------------------
(* The boxes.                                                              *)

LEMMA HullLog ==
  ASSUME NEW c, NEW l, NEW m, IsHull(c, l),
         \A i \in c.members : m[i].pos = l[i].pos /\ m[i].sep = l[i].sep
  PROVE  IsHull(c, m)
BY DEF IsHull

\* The hull of two hulls.
LEMMA HullJoin ==
  ASSUME NEW c \in Cluster, NEW a \in Cluster, NEW b \in Cluster,
         NEW l, IsHull(a, l), IsHull(b, l),
         \A i \in c.members : l[i] \in LogEntry,
         c.members = a.members \cup b.members,
         \A d \in Dims : /\ c.min[d] = Min2(a.min[d], b.min[d])
                         /\ c.max[d] = Max2(a.max[d], b.max[d])
  PROVE  IsHull(c, l)
<1> SUFFICES ASSUME NEW d \in Dims
             PROVE  /\ \A i \in c.members : /\ c.min[d] <= l[i].pos[d] - l[i].sep[d]
                                             /\ c.max[d] >= l[i].pos[d] + l[i].sep[d]
                    /\ \E i \in c.members : c.min[d] = l[i].pos[d] - l[i].sep[d]
                    /\ \E i \in c.members : c.max[d] = l[i].pos[d] + l[i].sep[d]
  BY DEF IsHull
<1>1. a.min[d] \in Int /\ b.min[d] \in Int /\ a.max[d] \in Int /\ b.max[d] \in Int
  BY DEF Cluster
<1>2. /\ c.min[d] <= a.min[d] /\ c.min[d] <= b.min[d]
      /\ c.max[d] >= a.max[d] /\ c.max[d] >= b.max[d]
      /\ c.min[d] = a.min[d] \/ c.min[d] = b.min[d]
      /\ c.max[d] = a.max[d] \/ c.max[d] = b.max[d]
      /\ c.min[d] \in Int /\ c.max[d] \in Int
  <2>1. c.min[d] = Min2(a.min[d], b.min[d]) /\ c.max[d] = Max2(a.max[d], b.max[d])
    OBVIOUS
  <2> QED
    BY <1>1, <2>1 DEF Min2, Max2
<1>3. \A i \in c.members : l[i].pos[d] \in Int /\ l[i].sep[d] \in Int
  BY DEF LogEntry
<1>4. /\ \A i \in a.members : /\ a.min[d] <= l[i].pos[d] - l[i].sep[d]
                               /\ a.max[d] >= l[i].pos[d] + l[i].sep[d]
      /\ \E i \in a.members : a.min[d] = l[i].pos[d] - l[i].sep[d]
      /\ \E i \in a.members : a.max[d] = l[i].pos[d] + l[i].sep[d]
      /\ \A i \in b.members : /\ b.min[d] <= l[i].pos[d] - l[i].sep[d]
                               /\ b.max[d] >= l[i].pos[d] + l[i].sep[d]
      /\ \E i \in b.members : b.min[d] = l[i].pos[d] - l[i].sep[d]
      /\ \E i \in b.members : b.max[d] = l[i].pos[d] + l[i].sep[d]
  BY DEF IsHull
<1>5. ASSUME NEW i \in c.members
      PROVE  /\ c.min[d] <= l[i].pos[d] - l[i].sep[d]
             /\ c.max[d] >= l[i].pos[d] + l[i].sep[d]
  <2>1. l[i].pos[d] - l[i].sep[d] \in Int /\ l[i].pos[d] + l[i].sep[d] \in Int
    BY <1>3
  <2>2. CASE i \in a.members
    BY <1>1, <1>2, <1>4, <2>1, <2>2
  <2>3. CASE i \in b.members
    BY <1>1, <1>2, <1>4, <2>1, <2>3
  <2> QED
    BY <2>2, <2>3
<1>6. /\ \E i \in c.members : c.min[d] = l[i].pos[d] - l[i].sep[d]
      /\ \E i \in c.members : c.max[d] = l[i].pos[d] + l[i].sep[d]
  BY <1>2, <1>4
<1> QED
  BY <1>5, <1>6

LEMMA HullNew ==
  ASSUME settings \in Setting, NEW p \in Click, NEW i \in Nat, NEW l,
         l[i].pos = p.pos, l[i].sep = [d \in Dims |-> Sep(d)]
  PROVE  IsHull(NewCluster(p, i), l)
<1> DEFINE c == NewCluster(p, i)
<1>1. /\ c.members = {i}
      /\ \A d \in Dims : /\ c.min[d] = p.pos[d] - Sep(d)
                          /\ c.max[d] = p.pos[d] + Sep(d)
  BY NewClusterType
<1> HIDE DEF c
<1>2. \A d \in Dims : /\ c.min[d] = l[i].pos[d] - l[i].sep[d] /\ c.min[d] \in Int
                      /\ c.max[d] = l[i].pos[d] + l[i].sep[d] /\ c.max[d] \in Int
  BY <1>1, SepType DEF Click
<1>3. IsHull(c, l)
  BY <1>1, <1>2 DEF IsHull
<1> QED
  BY <1>3 DEF c

LEMMA HullAdd ==
  ASSUME settings \in Setting, NEW c \in Cluster, NEW p \in Click, NEW i \in Nat,
         NEW l, IsHull(c, l), l[i].pos = p.pos, l[i].sep = [d \in Dims |-> Sep(d)],
         \A k \in c.members \cup {i} : l[k] \in LogEntry
  PROVE  IsHull(AddClick(c, p, i), l)
<1> DEFINE a == AddClick(c, p, i)
           b == NewCluster(p, i)
<1>1. /\ a \in Cluster /\ a.members = c.members \cup {i}
      /\ \A d \in Dims : /\ a.min[d] = Min2(c.min[d], p.pos[d] - Sep(d))
                          /\ a.max[d] = Max2(c.max[d], p.pos[d] + Sep(d))
  BY AddClickType
<1>2. /\ b \in Cluster /\ b.members = {i}
      /\ \A d \in Dims : /\ b.min[d] = p.pos[d] - Sep(d)
                          /\ b.max[d] = p.pos[d] + Sep(d)
  BY NewClusterType
<1>3. IsHull(b, l)
  BY HullNew
<1> HIDE DEF a, b
<1>4. \A d \in Dims : /\ a.min[d] = Min2(c.min[d], b.min[d])
                      /\ a.max[d] = Max2(c.max[d], b.max[d])
  BY <1>1, <1>2
<1>5. a.members = c.members \cup b.members /\ \A k \in a.members : l[k] \in LogEntry
  BY <1>1, <1>2
<1>6. IsHull(a, l)
  BY <1>1, <1>2, <1>3, <1>4, <1>5, HullJoin
<1> QED
  BY <1>6 DEF a

\* A step that writes no cluster, and of the log at most a mark or a new entry.
LEMMA HullSame ==
  ASSUME TypeOK, MembersInv, BoxIsHull, UNCHANGED <<mOpenClusters, finished>>,
         \A i \in Clicks : log'[i].pos = log[i].pos /\ log'[i].sep = log[i].sep
  PROVE  BoxIsHull'
<1>1. ASSUME NEW k \in 1 .. Len(mOpenClusters) PROVE IsHull(mOpenClusters[k], log')
  BY HullLog DEF MembersInv, BoxIsHull
<1>2. ASSUME NEW k \in 1 .. Len(finished) PROVE IsHull(finished[k], log')
  BY HullLog DEF MembersInv, BoxIsHull
<1> QED
  BY <1>1, <1>2 DEF BoxIsHull

LEMMA HullMatch ==
  ASSUME TypeOK, LoopInv, MembersInv, BoxIsHull, Match
  PROVE  BoxIsHull'
<1> DEFINE N == Len(mOpenClusters)
<1>1. /\ pc = "match" /\ cix \in 1 .. N /\ UNCHANGED finished
      /\ settings \in Setting /\ click \in Click /\ This \in Clicks /\ This \in Nat
  <2>1. This \in Nat
    BY DEF TypeOK, This
  <2> QED
    BY <2>1, MatchCases DEF TypeOK, Click, LoopInv, ThisInv
<1>2. /\ \A i \in Clicks : log[i] \in LogEntry
      /\ \A k \in 1 .. N : mOpenClusters[k] \in Cluster
  <2>1. log \in Seq(LogEntry) /\ mOpenClusters \in Seq(Cluster)
    BY DEF TypeOK, LogEntry
  <2> QED
    BY <2>1 DEF Clicks
<1>3. \A i \in Clicks : log'[i].pos = log[i].pos /\ log'[i].sep = log[i].sep
  BY MatchLog
<1>4. CASE Passes
  BY <1>1, <1>3, <1>4, HullSame DEF Passes
<1>5. IsHull(Grown, log) /\ Grown \in Cluster
      /\ Grown.members \subseteq Clicks
  <2>1. mOpenClusters[cix].members \cup {This} \subseteq Clicks
    BY <1>1 DEF MembersInv
  <2>2. log[This].pos = click.pos /\ log[This].sep = [d \in Dims |-> Sep(d)]
    BY <1>1 DEF LoopInv, ThisInv
  <2>3. IsHull(mOpenClusters[cix], log) /\ mOpenClusters[cix] \in Cluster
    BY <1>1, <1>2 DEF BoxIsHull
  <2>4. \A k \in mOpenClusters[cix].members \cup {This} : log[k] \in LogEntry
    BY <1>2, <2>1
  <2>5. IsHull(Grown, log)
    BY <1>1, <2>2, <2>3, <2>4, HullAdd DEF Grown
  <2> QED
    BY <1>1, <2>1, <2>5, GrownType
<1>f. ASSUME NEW k \in 1 .. Len(finished) PROVE IsHull(finished[k], log')
  BY <1>3, HullLog DEF MembersInv, BoxIsHull
<1>6. CASE Joins
  <2>1. /\ Len(mOpenClusters') = N /\ mOpenClusters'[cix] = Grown
        /\ \A k \in 1 .. N : k # cix => mOpenClusters'[k] = mOpenClusters[k]
    BY <1>1, <1>5, <1>6, Overwritten DEF Joins, TypeOK
  <2>2. UNCHANGED log
    BY <1>6 DEF Joins
  <2> QED
    BY <1>1, <1>5, <1>f, <2>1, <2>2 DEF BoxIsHull
<1>7. CASE Merges
  <2>1. /\ last_cluster \in 1 .. N - 1 /\ last_cluster \in 1 .. N
        /\ Len(mOpenClusters') = N - 1
        /\ mOpenClusters'[last_cluster] = Merged
        /\ \A k \in 1 .. N - 1 : k # last_cluster =>
             mOpenClusters'[k] = IF k = cix THEN mOpenClusters[N] ELSE mOpenClusters[k]
    BY <1>1, <1>7, MergeList
  <2>2. /\ Merged \in Cluster
        /\ Merged.members = mOpenClusters[last_cluster].members \cup Grown.members
        /\ \A d \in Dims :
             /\ Merged.min[d] = Min2(mOpenClusters[last_cluster].min[d], Grown.min[d])
             /\ Merged.max[d] = Max2(mOpenClusters[last_cluster].max[d], Grown.max[d])
    BY <1>1, <2>1, MergedType, GrownType
  <2>3. /\ mOpenClusters[last_cluster] \in Cluster
        /\ IsHull(mOpenClusters[last_cluster], log)
        /\ mOpenClusters[last_cluster].members \subseteq Clicks
    BY <1>2, <2>1 DEF BoxIsHull, MembersInv
  <2>4. Merged.members \subseteq Clicks /\ \A i \in Merged.members : log[i] \in LogEntry
    BY <1>2, <1>5, <2>2, <2>3
  <2>5. IsHull(Merged, log)
    BY <1>5, <2>2, <2>3, <2>4, HullJoin
  <2>6. IsHull(Merged, log')
    BY <1>3, <2>4, <2>5, HullLog
  <2>7. ASSUME NEW k \in 1 .. N PROVE IsHull(mOpenClusters[k], log')
    BY <1>3, HullLog DEF MembersInv, BoxIsHull
  <2>8. ASSUME NEW k \in 1 .. N - 1 PROVE IsHull(mOpenClusters'[k], log')
    <3>1. k \in 1 .. N /\ N \in 1 .. N
      BY <1>1
    <3> QED
      BY <2>1, <2>6, <2>7, <3>1
  <2> QED
    BY <1>1, <1>f, <2>1, <2>8 DEF BoxIsHull
<1> QED
  BY <1>4, <1>6, <1>7, MatchCases

LEMMA HullStep ==
  ASSUME TypeOK, LoopInv, MembersInv, BoxIsHull, [Next]_vars
  PROVE  BoxIsHull'
<1>1. CASE Match
  BY <1>1, HullMatch
<1>2. CASE ~Match
  <2>1. \A i \in Clicks : log'[i] = log[i]
    BY <1>2, LogSame
  <2>2. ASSUME NEW k \in 1 .. Len(mOpenClusters) PROVE IsHull(mOpenClusters[k], log')
    BY <2>1, HullLog DEF MembersInv, BoxIsHull
  <2>3. ASSUME NEW k \in 1 .. Len(finished) PROVE IsHull(finished[k], log')
    BY <2>1, HullLog DEF MembersInv, BoxIsHull
  <2>4. ASSUME NEW c, Started(c) PROVE IsHull(c, log')
    <3>1. This \in Nat /\ click \in Click /\ settings \in Setting
      BY DEF TypeOK, Click, This
    <3>2. /\ This \in Clicks /\ log[This].pos = click.pos
          /\ log[This].sep = [d \in Dims |-> Sep(d)]
      BY <2>4 DEF LoopInv, ThisInv, Started
    <3>3. log'[This].pos = click.pos /\ log'[This].sep = [d \in Dims |-> Sep(d)]
      BY <2>1, <3>2
    <3> QED
      BY <2>4, <3>1, <3>3, HullNew DEF Started
  <2>5. Moved
    BY <1>2, ClustersMove
  <2>6. ASSUME NEW k \in 1 .. Len(mOpenClusters') PROVE IsHull(mOpenClusters'[k], log')
    BY <2>2, <2>4, <2>5 DEF Moved, WasOpen
  <2>7. ASSUME NEW k \in 1 .. Len(finished') PROVE IsHull(finished'[k], log')
    BY <2>2, <2>3, <2>5 DEF Moved, WasOpen, WasFinished
  <2> QED
    BY <2>6, <2>7 DEF BoxIsHull
<1> QED
  BY <1>1, <1>2

-----------------------------------------------------------------------------
(* The centroids.                                                          *)

LEMMA Scaled ==
  ASSUME NEW a \in Int, NEW b \in Int, NEW w \in Nat, a <= b
  PROVE  a * w <= b * w
OBVIOUS

\* The weighted mean of two values lies between the ones they lie between.
LEMMA MeanLow ==
  ASSUME NEW a \in Int, NEW b \in Int, NEW m \in Int, NEW n \in Int,
         NEW w \in Nat, NEW v \in Nat, w + v # 0,
         a * AtLeast1(w) <= m, b * AtLeast1(v) <= n
  PROVE  \E x \in {a, b} :
            x * AtLeast1(w + v) <= (IF w = 0 THEN 0 ELSE m) + (IF v = 0 THEN 0 ELSE n)
<1>1. AtLeast1(w + v) = w + v
  BY DEF AtLeast1
<1>2. CASE w = 0
  <2>1. AtLeast1(v) = v /\ w + v = v
    BY <1>2 DEF AtLeast1
  <2> QED
    BY <1>1, <1>2, <2>1
<1>3. CASE v = 0
  <2>1. AtLeast1(w) = w /\ w + v = w /\ w # 0
    BY <1>3 DEF AtLeast1
  <2>2. (IF w = 0 THEN 0 ELSE m) + (IF v = 0 THEN 0 ELSE n) = m
    BY <1>3, <2>1
  <2>3. AtLeast1(w + v) = AtLeast1(w)
    BY <2>1
  <2> QED
    BY <2>2, <2>3
<1>4. CASE w # 0 /\ v # 0
  <2>1. a * w <= m /\ b * v <= n
    BY <1>4 DEF AtLeast1
  <2>2. a * (w + v) = a * w + a * v /\ b * (w + v) = b * w + b * v
    OBVIOUS
  <2>3. a * w \in Int /\ a * v \in Int /\ b * w \in Int /\ b * v \in Int
    OBVIOUS
  <2>4. CASE a <= b
    <3>1. a * v <= b * v
      BY <2>4, Scaled
    <3>2. a * (w + v) <= m + n
      BY <2>1, <2>2, <2>3, <3>1
    <3> QED
      BY <1>1, <1>4, <3>2
  <2>5. CASE b <= a
    <3>1. b * w <= a * w
      BY <2>5, Scaled
    <3>2. b * (w + v) <= m + n
      BY <2>1, <2>2, <2>3, <3>1
    <3> QED
      BY <1>1, <1>4, <3>2
  <2> QED
    BY <2>4, <2>5
<1> QED
  BY <1>2, <1>3, <1>4

LEMMA MeanHigh ==
  ASSUME NEW a \in Int, NEW b \in Int, NEW m \in Int, NEW n \in Int,
         NEW w \in Nat, NEW v \in Nat, w + v # 0,
         m <= a * AtLeast1(w), n <= b * AtLeast1(v)
  PROVE  \E x \in {a, b} :
            (IF w = 0 THEN 0 ELSE m) + (IF v = 0 THEN 0 ELSE n) <= x * AtLeast1(w + v)
<1>1. AtLeast1(w + v) = w + v
  BY DEF AtLeast1
<1>2. CASE w = 0
  <2>1. AtLeast1(v) = v /\ w + v = v
    BY <1>2 DEF AtLeast1
  <2> QED
    BY <1>1, <1>2, <2>1
<1>3. CASE v = 0
  <2>1. AtLeast1(w) = w /\ w + v = w /\ w # 0
    BY <1>3 DEF AtLeast1
  <2>2. (IF w = 0 THEN 0 ELSE m) + (IF v = 0 THEN 0 ELSE n) = m
    BY <1>3, <2>1
  <2>3. AtLeast1(w + v) = AtLeast1(w)
    BY <2>1
  <2> QED
    BY <2>2, <2>3
<1>4. CASE w # 0 /\ v # 0
  <2>1. m <= a * w /\ n <= b * v
    BY <1>4 DEF AtLeast1
  <2>2. a * (w + v) = a * w + a * v /\ b * (w + v) = b * w + b * v
    OBVIOUS
  <2>3. a * w \in Int /\ a * v \in Int /\ b * w \in Int /\ b * v \in Int
    OBVIOUS
  <2>4. CASE b <= a
    <3>1. b * v <= a * v
      BY <2>4, Scaled
    <3>2. m + n <= a * (w + v)
      BY <2>1, <2>2, <2>3, <3>1
    <3> QED
      BY <1>1, <1>4, <3>2
  <2>5. CASE a <= b
    <3>1. a * w <= b * w
      BY <2>5, Scaled
    <3>2. m + n <= b * (w + v)
      BY <2>1, <2>2, <2>3, <3>1
    <3> QED
      BY <1>1, <1>4, <3>2
  <2> QED
    BY <2>4, <2>5
<1> QED
  BY <1>2, <1>3, <1>4

IsMean(c, l) == IsCentroid(c, l) /\ IsWeighed(c, l)

LEMMA MeanLog ==
  ASSUME NEW c, NEW l, NEW m, IsMean(c, l),
         \A i \in c.members : m[i].pos = l[i].pos /\ m[i].tot = l[i].tot
  PROVE  IsMean(c, m)
<1>1. IsWeighed(c, m)
  BY DEF IsMean, IsWeighed
<1>2. IsCentroid(c, m)
  <2>1. CASE c.nan
    BY <2>1 DEF IsMean, IsCentroid
  <2>2. CASE ~c.nan
    <3>1. ASSUME NEW d \in Dims
          PROVE  \E i, j \in c.members :
                    /\ m[i].pos[d] * AtLeast1(c.tot_total) <= c.mean[d]
                    /\ c.mean[d] <= m[j].pos[d] * AtLeast1(c.tot_total)
      BY <2>2 DEF IsMean, IsCentroid
    <3> QED
      BY <2>2, <3>1 DEF IsCentroid
  <2> QED
    BY <2>1, <2>2
<1> QED
  BY <1>1, <1>2 DEF IsMean

\* The mean of two clusters of which not both have the weight 0, or the second
\* is not a number then.
LEMMA MeanJoin ==
  ASSUME NEW a \in Cluster, NEW c \in Cluster, NEW e \in Cluster, NEW l,
         IsMean(c, l), IsMean(e, l),
         \A i \in a.members : l[i] \in LogEntry,
         a.members = c.members \cup e.members,
         a.tot_total = c.tot_total + e.tot_total,
         a.nan <=> (c.nan \/ e.nan \/ c.tot_total + e.tot_total = 0),
         a.mean = WeightedMean(c.mean, c.tot_total, e.mean, e.tot_total),
         c.tot_total + e.tot_total = 0 => 
            \E i, j \in a.members : i # j /\ l[i].tot = 0 /\ l[j].tot = 0
  PROVE  IsMean(a, l)
<1>1. c.tot_total \in Nat /\ e.tot_total \in Nat
  BY DEF Cluster
<1>2. IsWeighed(a, l)
  <2> SUFFICES ASSUME NEW i \in a.members PROVE l[i].tot <= a.tot_total
    BY DEF IsWeighed
  <2>1. l[i].tot \in Nat
    BY DEF LogEntry
  <2>2. l[i].tot <= c.tot_total \/ l[i].tot <= e.tot_total
    BY DEF IsMean, IsWeighed
  <2> QED
    BY <1>1, <2>1, <2>2
<1>3. IsCentroid(a, l)
  <2>1. CASE a.nan
    <3>1. CASE c.nan
      BY <2>1, <3>1 DEF IsMean, IsCentroid
    <3>2. CASE e.nan
      BY <2>1, <3>2 DEF IsMean, IsCentroid
    <3>3. CASE c.tot_total + e.tot_total = 0
      BY <2>1, <3>3 DEF IsCentroid
    <3> QED
      BY <2>1, <3>1, <3>2, <3>3
  <2>2. CASE ~a.nan
    <3>1. ~c.nan /\ ~e.nan /\ c.tot_total + e.tot_total # 0
      BY <2>2
    <3>2. ASSUME NEW d \in Dims
          PROVE  \E i, j \in a.members :
                    /\ l[i].pos[d] * AtLeast1(a.tot_total) <= a.mean[d]
                    /\ a.mean[d] <= l[j].pos[d] * AtLeast1(a.tot_total)
      <4> DEFINE w == c.tot_total
                 v == e.tot_total
                 m == c.mean[d]
                 n == e.mean[d]
                 mean == (IF w = 0 THEN 0 ELSE m) + (IF v = 0 THEN 0 ELSE n)
      <4>1. m \in Int /\ n \in Int /\ w \in Nat /\ v \in Nat /\ w + v # 0
        BY <1>1, <3>1 DEF Cluster
      <4>2. a.mean[d] = mean /\ a.tot_total = w + v
        BY DEF WeightedMean
      <4>3. PICK ic, jc \in c.members : /\ l[ic].pos[d] * AtLeast1(w) <= m
                                        /\ m <= l[jc].pos[d] * AtLeast1(w)
        BY <3>1 DEF IsMean, IsCentroid
      <4>4. PICK ie, je \in e.members : /\ l[ie].pos[d] * AtLeast1(v) <= n
                                        /\ n <= l[je].pos[d] * AtLeast1(v)
        BY <3>1 DEF IsMean, IsCentroid
      <4>5. /\ ic \in a.members /\ jc \in a.members
            /\ ie \in a.members /\ je \in a.members
        OBVIOUS
      <4>6. /\ l[ic].pos[d] \in Int /\ l[jc].pos[d] \in Int
            /\ l[ie].pos[d] \in Int /\ l[je].pos[d] \in Int
        BY <4>5 DEF LogEntry
      <4> DEFINE xc == l[ic].pos[d]
                 yc == l[jc].pos[d]
                 xe == l[ie].pos[d]
                 ye == l[je].pos[d]
      <4>7. /\ xc \in Int /\ xe \in Int /\ yc \in Int /\ ye \in Int
            /\ xc * AtLeast1(w) <= m /\ xe * AtLeast1(v) <= n
            /\ m <= yc * AtLeast1(w) /\ n <= ye * AtLeast1(v)
        BY <4>3, <4>4, <4>6
      <4> HIDE DEF w, v, m, n, xc, xe, yc, ye
      <4>8. /\ \E x \in {xc, xe} : x * AtLeast1(w + v) <= mean
            /\ \E x \in {yc, ye} : mean <= x * AtLeast1(w + v)
        <5>1. \E x \in {xc, xe} : x * AtLeast1(w + v) <= mean
          BY ONLY <4>1, <4>7, MeanLow
        <5>2. \E x \in {yc, ye} : mean <= x * AtLeast1(w + v)
          BY ONLY <4>1, <4>7, MeanHigh
        <5> QED
          BY <5>1, <5>2
      <4> HIDE DEF mean
      <4>9. \E i \in a.members : l[i].pos[d] * AtLeast1(w + v) <= mean
        BY <4>5, <4>8 DEF xc, xe
      <4>10. \E j \in a.members : mean <= l[j].pos[d] * AtLeast1(w + v)
        BY <4>5, <4>8 DEF yc, ye
      <4> QED
        BY <4>2, <4>9, <4>10
    <3> QED
      BY <2>2, <3>2 DEF IsCentroid
  <2> QED
    BY <2>1, <2>2
<1> QED
  BY <1>2, <1>3 DEF IsMean

LEMMA MeanNew ==
  ASSUME settings \in Setting, NEW p \in Click, NEW i \in Nat, NEW l,
         l[i].pos = p.pos, l[i].tot = p.tot
  PROVE  IsMean(NewCluster(p, i), l)
<1> DEFINE c == NewCluster(p, i)
<1>1. /\ c.members = {i} /\ c.nan = FALSE /\ c.tot_total = p.tot
      /\ c.mean = [d \in Dims |-> p.pos[d] * AtLeast1(p.tot)]
  BY DEF NewCluster, ClickMean
<1> HIDE DEF c
<1>2. ASSUME NEW d \in Dims
      PROVE  c.mean[d] = l[i].pos[d] * AtLeast1(c.tot_total) /\ c.mean[d] \in Int
  <2>1. p.pos[d] \in Int /\ AtLeast1(p.tot) \in Int
    BY DEF Click, AtLeast1
  <2> QED
    BY <1>1, <2>1
<1>3. p.tot <= p.tot
  BY DEF Click
<1>4. IsMean(c, l)
  BY <1>1, <1>2, <1>3 DEF IsMean, IsCentroid, IsWeighed
<1> QED
  BY <1>4 DEF c

\* A click that is put into a cluster it is not in.
LEMMA MeanAdd ==
  ASSUME settings \in Setting, NEW c \in Cluster, NEW p \in Click, NEW i \in Nat,
         NEW l, IsMean(c, l), c.members # {}, i \notin c.members,
         l[i].pos = p.pos, l[i].tot = p.tot,
         \A k \in c.members \cup {i} : l[k] \in LogEntry
  PROVE  /\ IsMean(AddClick(c, p, i), l)
         /\ AddClick(c, p, i).tot_total = 0 => AddClick(c, p, i).nan
<1> DEFINE a == AddClick(c, p, i)
           b == NewCluster(p, i)
<1>1. a \in Cluster /\ b \in Cluster /\ a.members = c.members \cup {i} /\ b.members = {i}
  BY AddClickType, NewClusterType
<1>2. /\ b.nan = FALSE /\ b.tot_total = p.tot /\ b.mean = ClickMean(p)
      /\ a.tot_total = c.tot_total + p.tot
      /\ a.nan = (c.nan \/ c.tot_total + p.tot = 0)
      /\ a.mean = WeightedMean(c.mean, c.tot_total, ClickMean(p), p.tot)
  BY DEF NewCluster, AddClick
<1>3. IsMean(b, l)
  BY MeanNew
<1> HIDE DEF a, b
<1>4. c.tot_total + b.tot_total = 0 =>
         \E x, y \in a.members : x # y /\ l[x].tot = 0 /\ l[y].tot = 0
  <2> SUFFICES ASSUME c.tot_total + p.tot = 0
               PROVE  \E x, y \in a.members : x # y /\ l[x].tot = 0 /\ l[y].tot = 0
    BY <1>2
  <2>1. c.tot_total \in Nat /\ p.tot \in Nat
    BY DEF Cluster, Click
  <2>2. c.tot_total = 0 /\ p.tot = 0
    BY <2>1
  <2>3. PICK x \in c.members : TRUE
    OBVIOUS
  <2>4. l[x].tot \in Nat /\ l[x].tot <= 0
    BY <2>2 DEF IsMean, IsWeighed, LogEntry
  <2>5. l[x].tot = 0 /\ l[i].tot = 0 /\ x # i
    BY <2>2, <2>4
  <2> QED
    BY <1>1, <2>5
<1>5. \A k \in a.members : l[k] \in LogEntry
  BY <1>1
<1>6. /\ a.members = c.members \cup b.members
      /\ a.tot_total = c.tot_total + b.tot_total
      /\ a.nan <=> (c.nan \/ b.nan \/ c.tot_total + b.tot_total = 0)
      /\ a.mean = WeightedMean(c.mean, c.tot_total, b.mean, b.tot_total)
  BY <1>1, <1>2
<1>7. IsMean(a, l)
  BY <1>1, <1>3, <1>4, <1>5, <1>6, MeanJoin
<1>8. a.tot_total = 0 => a.nan
  BY <1>2
<1> QED
  BY <1>7, <1>8 DEF a

\* The merge of a cluster with one that a click has just been put into.
LEMMA MeanMerge ==
  ASSUME NEW c \in Cluster, NEW e \in Cluster, NEW l, IsMean(c, l), IsMean(e, l),
         e.tot_total = 0 => e.nan,
         \A k \in c.members \cup e.members : l[k] \in LogEntry
  PROVE  IsMean(AddCluster(c, e), l)
<1> DEFINE a == AddCluster(c, e)
<1>1. /\ a \in Cluster /\ a.members = c.members \cup e.members
  BY AddClusterType
<1>2. /\ a.tot_total = c.tot_total + e.tot_total
      /\ a.nan = (c.nan \/ e.nan \/ c.tot_total + e.tot_total = 0)
      /\ a.mean = WeightedMean(c.mean, c.tot_total, e.mean, e.tot_total)
  BY DEF AddCluster
<1> HIDE DEF a
<1>3. ASSUME c.tot_total + e.tot_total = 0
      PROVE  \E x, y \in a.members : x # y /\ l[x].tot = 0 /\ l[y].tot = 0
  <2>1. c.tot_total \in Nat /\ e.tot_total \in Nat
    BY DEF Cluster
  <2>2. e.nan
    BY <1>3, <2>1
  <2> QED
    BY <1>1, <2>2 DEF IsMean, IsCentroid
<1>4. \A k \in a.members : l[k] \in LogEntry
  BY <1>1
<1>5. a.nan <=> (c.nan \/ e.nan \/ c.tot_total + e.tot_total = 0)
  BY <1>2
<1>6. IsMean(a, l)
  BY <1>1, <1>2, <1>3, <1>4, <1>5, MeanJoin
<1> QED
  BY <1>6 DEF a

MeanInv ==
    /\ \A k \in 1 .. Len(mOpenClusters) : IsMean(mOpenClusters[k], log)
    /\ \A k \in 1 .. Len(finished) : IsMean(finished[k], log)

LEMMA MeanMatch ==
  ASSUME TypeOK, LoopInv, MembersInv, OpenOnce, BoxIsHull, MeanInv, Match
  PROVE  MeanInv'
<1> DEFINE N == Len(mOpenClusters)
<1>1. /\ pc = "match" /\ cix \in 1 .. N /\ UNCHANGED finished
      /\ settings \in Setting /\ click \in Click /\ This \in Clicks /\ This \in Nat
  <2>1. This \in Nat
    BY DEF TypeOK, This
  <2> QED
    BY <2>1, MatchCases DEF TypeOK, Click, LoopInv, ThisInv
<1>2. /\ \A i \in Clicks : log[i] \in LogEntry
      /\ \A k \in 1 .. N : mOpenClusters[k] \in Cluster
  <2>1. log \in Seq(LogEntry) /\ mOpenClusters \in Seq(Cluster)
    BY DEF TypeOK, LogEntry
  <2> QED
    BY <2>1 DEF Clicks
<1>3. \A i \in Clicks : log'[i].pos = log[i].pos /\ log'[i].tot = log[i].tot
  BY MatchLog
<1>4. ASSUME NEW k \in 1 .. N PROVE IsMean(mOpenClusters[k], log')
  BY <1>3, MeanLog DEF MembersInv, MeanInv
<1>5. ASSUME NEW k \in 1 .. Len(finished) PROVE IsMean(finished[k], log')
  BY <1>3, MeanLog DEF MembersInv, MeanInv
<1>6. CASE Passes
  BY <1>1, <1>4, <1>5, <1>6 DEF Passes, MeanInv
<1>7. ASSUME Joins \/ Merges
      PROVE  /\ IsMean(Grown, log) /\ Grown \in Cluster /\ Grown.members \subseteq Clicks
             /\ Grown.tot_total = 0 => Grown.nan
  <2>1. mOpenClusters[cix].members \cup {This} \subseteq Clicks
    BY <1>1 DEF MembersInv
  <2>2. log[This].pos = click.pos /\ log[This].tot = click.tot
    BY <1>1 DEF LoopInv, ThisInv
  <2>3. IsMean(mOpenClusters[cix], log) /\ mOpenClusters[cix] \in Cluster
    BY <1>1, <1>2 DEF MeanInv
  <2>4. \A k \in mOpenClusters[cix].members \cup {This} : log[k] \in LogEntry
    BY <1>2, <2>1
  <2>5. mOpenClusters[cix].members # {}
    <3>1. IsHull(mOpenClusters[cix], log) /\ "t" \in Dims
      BY <1>1 DEF BoxIsHull, Dims
    <3> QED
      BY <3>1 DEF IsHull
  <2>6. This \notin mOpenClusters[cix].members
    <3>1. CASE ~in_cluster
      BY <1>1, <3>1 DEF MembersInv, OpenIn
    <3>2. CASE in_cluster
      <4>1. /\ last_cluster \in 1 .. N /\ last_cluster # cix
            /\ OpenIn(This, last_cluster)
        BY <1>1, <3>2 DEF LoopInv, IndexInv, MembersInv, TypeOK
      <4> QED
        BY <1>1, <4>1 DEF OpenOnce, OpenIn
    <3> QED
      BY <3>1, <3>2
  <2>7. IsMean(Grown, log) /\ (Grown.tot_total = 0 => Grown.nan)
    BY <1>1, <2>2, <2>3, <2>4, <2>5, <2>6, MeanAdd DEF Grown
  <2> QED
    BY <1>1, <2>1, <2>7, GrownType
<1>8. CASE Joins
  <2>1. /\ Len(mOpenClusters') = N /\ mOpenClusters'[cix] = Grown
        /\ \A k \in 1 .. N : k # cix => mOpenClusters'[k] = mOpenClusters[k]
    BY <1>1, <1>7, <1>8, Overwritten DEF Joins, TypeOK
  <2>2. IsMean(Grown, log')
    BY <1>3, <1>7, <1>8, MeanLog
  <2> QED
    BY <1>1, <1>4, <1>5, <2>1, <2>2 DEF MeanInv
<1>9. CASE Merges
  <2>1. /\ last_cluster \in 1 .. N - 1 /\ last_cluster \in 1 .. N
        /\ Len(mOpenClusters') = N - 1
        /\ mOpenClusters'[last_cluster] = Merged
        /\ \A k \in 1 .. N - 1 : k # last_cluster =>
             mOpenClusters'[k] = IF k = cix THEN mOpenClusters[N] ELSE mOpenClusters[k]
    BY <1>1, <1>9, MergeList
  <2>2. Merged.members = mOpenClusters[last_cluster].members \cup Grown.members
    BY <1>1, <2>1, MergedType, GrownType
  <2>3. /\ mOpenClusters[last_cluster] \in Cluster
        /\ IsMean(mOpenClusters[last_cluster], log)
        /\ mOpenClusters[last_cluster].members \subseteq Clicks
    BY <1>2, <2>1 DEF MeanInv, MembersInv
  <2>4. Merged.members \subseteq Clicks
    BY <1>7, <1>9, <2>2, <2>3
  <2>5. IsMean(Merged, log)
    <3>1. \A i \in mOpenClusters[last_cluster].members \cup Grown.members :
             log[i] \in LogEntry
      BY <1>2, <2>2, <2>4
    <3> QED
      BY <1>7, <1>9, <2>3, <3>1, MeanMerge DEF Merged
  <2>6. IsMean(Merged, log')
    BY <1>3, <2>4, <2>5, MeanLog
  <2>7. ASSUME NEW k \in 1 .. N - 1 PROVE IsMean(mOpenClusters'[k], log')
    <3>1. k \in 1 .. N /\ N \in 1 .. N
      BY <1>1
    <3> QED
      BY <1>4, <2>1, <2>6, <3>1
  <2> QED
    BY <1>1, <1>5, <2>1, <2>7 DEF MeanInv
<1> QED
  BY <1>6, <1>8, <1>9, MatchCases

LEMMA MeanStep ==
  ASSUME TypeOK, LoopInv, MembersInv, OpenOnce, BoxIsHull, MeanInv, [Next]_vars
  PROVE  MeanInv'
<1>1. CASE Match
  BY <1>1, MeanMatch
<1>2. CASE ~Match
  <2>1. \A i \in Clicks : log'[i] = log[i]
    BY <1>2, LogSame
  <2>2. ASSUME NEW k \in 1 .. Len(mOpenClusters) PROVE IsMean(mOpenClusters[k], log')
    BY <2>1, MeanLog DEF MembersInv, MeanInv
  <2>3. ASSUME NEW k \in 1 .. Len(finished) PROVE IsMean(finished[k], log')
    BY <2>1, MeanLog DEF MembersInv, MeanInv
  <2>4. ASSUME NEW c, Started(c) PROVE IsMean(c, log')
    <3>1. This \in Nat /\ click \in Click /\ settings \in Setting
      BY DEF TypeOK, Click, This
    <3>2. This \in Clicks /\ log[This].pos = click.pos /\ log[This].tot = click.tot
      BY <2>4 DEF LoopInv, ThisInv, Started
    <3>3. log'[This].pos = click.pos /\ log'[This].tot = click.tot
      BY <2>1, <3>2
    <3> QED
      BY <2>4, <3>1, <3>3, MeanNew DEF Started
  <2>5. Moved
    BY <1>2, ClustersMove
  <2>6. ASSUME NEW k \in 1 .. Len(mOpenClusters') PROVE IsMean(mOpenClusters'[k], log')
    BY <2>2, <2>4, <2>5 DEF Moved, WasOpen
  <2>7. ASSUME NEW k \in 1 .. Len(finished') PROVE IsMean(finished'[k], log')
    BY <2>2, <2>3, <2>5 DEF Moved, WasOpen, WasFinished
  <2> QED
    BY <2>6, <2>7 DEF MeanInv
<1> QED
  BY <1>1, <1>2

-----------------------------------------------------------------------------
(* The save file.                                                          *)

LEMMA FileStep ==
  ASSUME TypeOK, FileComplete, [Next]_vars
  PROVE  FileComplete'
<1> DEFINE f == mFile
           due == (f.from + 1 .. sent) \ f.flushed
<1>1. /\ sent \in Nat /\ Len(finished) \in Nat /\ sent <= Len(finished)
      /\ f.from \in Nat /\ f.from <= sent
      /\ f.saved \subseteq 1 .. sent /\ f.flushed \subseteq 1 .. sent
      /\ f.open \in BOOLEAN /\ f.good \in BOOLEAN
  BY DEF TypeOK
<1>2. /\ f.saved \subseteq due
      /\ \A i \in f.saved, k \in due : k < i => k \in f.saved
      /\ f.open /\ f.good => f.saved = due
  BY DEF FileComplete
<1>3. CASE UNCHANGED <<mFile, sent>>
  BY <1>3 DEF FileComplete
<1>4. ASSUME NEW written \in 0 .. Len(finished), Output(written) PROVE FileComplete'
  <2> DEFINE n == Len(finished)
             new == sent + 1 .. n
             more == sent + 1 .. sent + written
  <2>1. written \in 0 .. n - sent /\ sent' = n
    BY <1>4 DEF Output
  <2>2. CASE f.open /\ f.good
    <3>1. mFile' = [mFile EXCEPT !.good = (written = n - sent), !.saved = @ \cup more]
      BY <1>4, <2>2 DEF Output
    <3>2. /\ mFile'.saved = f.saved \cup more
          /\ mFile'.from = f.from /\ mFile'.flushed = f.flushed
          /\ mFile'.good = (written = n - sent)
      BY <3>1 DEF TypeOK
    <3>3. f.saved = due
      BY <1>2, <2>2
    <3>4. (f.from + 1 .. n) \ f.flushed = due \cup new
      BY <1>1
    <3>5. more \subseteq new /\ (written = n - sent => more = new)
      BY <1>1, <2>1
    <3>6. \A i \in due \cup more, k \in due \cup new : k < i => k \in due \cup more
      BY <1>1, <2>1
    <3> QED
      BY <2>1, <3>2, <3>3, <3>4, <3>5, <3>6 DEF FileComplete
  <2>3. CASE ~(f.open /\ f.good)
    <3>1. mFile' = mFile
      BY <1>4, <2>3 DEF Output
    <3>2. (f.from + 1 .. n) \ f.flushed = due \cup new
      BY <1>1
    <3>3. \A i \in f.saved, k \in due \cup new : k < i => k \in f.saved
      BY <1>1, <1>2
    <3> QED
      BY <1>2, <2>1, <2>3, <3>1, <3>2, <3>3 DEF FileComplete
  <2> QED
    BY <2>2, <2>3
<1>5. CASE Flush
  <2> DEFINE new == sent + 1 .. sent'
  <2>1. sent' = Len(finished) + Len(mOpenClusters) /\ sent' \in Nat /\ sent <= sent'
    <3>1. Len(finished \o mOpenClusters) = Len(finished) + Len(mOpenClusters)
          /\ Len(mOpenClusters) \in Nat
      BY DEF TypeOK
    <3> QED
      BY <1>1, <1>5, <3>1 DEF Flush
  <2>2. mFile' = [mFile EXCEPT !.flushed = @ \cup new]
    BY <1>5 DEF Flush
  <2>3. /\ mFile'.saved = f.saved /\ mFile'.from = f.from
        /\ mFile'.flushed = f.flushed \cup new
        /\ mFile'.open = f.open /\ mFile'.good = f.good
    BY <2>2 DEF TypeOK
  <2>4. (f.from + 1 .. sent') \ (f.flushed \cup new) = due
    BY <1>1, <2>1
  <2> QED
    BY <1>2, <2>3, <2>4 DEF FileComplete
<1>6. ASSUME NEW opened \in BOOLEAN, SetSaveFile(opened) PROVE FileComplete'
  <2>1. mFile'.saved = {} /\ mFile'.from = sent /\ sent' = sent
    BY <1>6 DEF SetSaveFile
  <2>2. sent + 1 .. sent = {}
    BY <1>1
  <2> QED
    BY <2>1, <2>2 DEF FileComplete
<1> QED
  BY <1>3, <1>4, <1>5, <1>6
     DEF Next, Poll, NextClick, Match, StartClosing, Close, EndClosing,
         SetClusterParameters, SetRawPacketServerAddress, vars

-----------------------------------------------------------------------------
(* Neighbours.                                                             *)

\* The second loop leaves no overdue cluster behind.
LEMMA OverdueStep ==
  ASSUME TypeOK, LoopInv, NoneOverdue, [Next]_vars
  PROVE  NoneOverdue'
<1>0. pc' # "close" => NoneOverdue'
  BY DEF NoneOverdue
<1>1. CASE StartClosing
  <2>1. pc' = "close" /\ cix' = Len(mOpenClusters')
    BY <1>1 DEF StartClosing
  <2>2. Len(mOpenClusters') \in Nat
    BY TypeStep DEF TypeOK
  <2>3. cix' + 1 .. Len(mOpenClusters') = {}
    BY <2>1, <2>2
  <2> QED
    BY <2>3 DEF NoneOverdue
<1>2. CASE Close
  <2> DEFINE N == Len(mOpenClusters)
  <2>1. /\ pc = "close" /\ cix' = cix - 1 /\ cix \in 1 .. N /\ N \in Nat
        /\ UNCHANGED <<settings, click>>
        /\ \A k \in cix + 1 .. N : ~IsLast(mOpenClusters[k], click)
    BY <1>2, CloseCases DEF NoneOverdue, TypeOK
  <2>2. \A c : IsLast(c, click)' = IsLast(c, click')
    BY <2>1 DEF IsLast
  <2>3. CASE UNCHANGED mOpenClusters /\ ~IsLast(mOpenClusters[cix], click)
    <3>1. \A k \in cix' + 1 .. N : k = cix \/ k \in cix + 1 .. N
      BY <2>1
    <3>2. \A k \in cix' + 1 .. N : ~IsLast(mOpenClusters[k], click)
      BY <2>1, <2>3, <3>1
    <3> QED
      BY <2>1, <2>3, <3>2 DEF NoneOverdue, IsLast
  <2>4. CASE Finishes
    <3>1. /\ Len(mOpenClusters') = N - 1
          /\ \A k \in 1 .. N - 1 :
               mOpenClusters'[k] = IF k = cix THEN mOpenClusters[N] ELSE mOpenClusters[k]
      BY <2>1, <2>4, FinishMembers
    <3>2. ASSUME NEW k \in cix' + 1 .. N - 1 PROVE ~IsLast(mOpenClusters'[k], click)
      <4>1. k \in 1 .. N - 1 /\ (k = cix => N \in cix + 1 .. N)
            /\ (k # cix => k \in cix + 1 .. N)
        BY <2>1
      <4> QED
        BY <2>1, <3>1, <4>1
    <3> QED
      BY <2>1, <3>1, <3>2 DEF NoneOverdue, IsLast
  <2> QED
    BY <1>2, <2>3, <2>4, CloseCases
<1>3. CASE UNCHANGED vars
  BY <1>3 DEF vars, loopVars, NoneOverdue, IsLast
<1>4. CASE Match
  BY <1>0, <1>4, MatchCases
<1>5. CASE EndClosing \/ Flush
  BY <1>0, <1>5 DEF EndClosing, Flush
<1>6. ASSUME NEW n \in 1 .. MaxChunk, Poll(n) PROVE NoneOverdue'
  BY <1>0, <1>6 DEF Poll
<1>7. ASSUME NEW px \in Pixels, NEW tot \in ToTs, NEW t \in Times, NextClick(px, tot, t)
      PROVE  NoneOverdue'
  BY <1>0, <1>7 DEF NextClick
<1>8. ASSUME NEW written \in 0 .. Len(finished), Output(written) PROVE NoneOverdue'
  BY <1>0, <1>8 DEF Output
<1>9. ASSUME NEW x \in Settings, SetClusterParameters(x) PROVE NoneOverdue'
  BY <1>0, <1>9 DEF SetClusterParameters
<1>10. ASSUME NEW r \in {"none", "dead", "live"}, SetRawPacketServerAddress(r)
       PROVE  NoneOverdue'
  BY <1>0, <1>10 DEF SetRawPacketServerAddress
<1>11. ASSUME NEW opened \in BOOLEAN, SetSaveFile(opened) PROVE NoneOverdue'
  BY <1>0, <1>11 DEF SetSaveFile
<1> QED
  BY <1>1, <1>2, <1>3, <1>4, <1>5, <1>6, <1>7, <1>8, <1>9, <1>10, <1>11 DEF Next

\* A cluster is never split: each has a successor with all its clicks.
Moves(k) ==
  \/ \E m \in 1 .. Len(mOpenClusters') : \A i : OpenIn(i, k) => OpenIn(i, m)'
  \/ \E m \in 1 .. Len(finished') : \A i : OpenIn(i, k) => FinishedIn(i, m)'

LEMMA NeverSplit ==
  ASSUME TypeOK, LoopInv, [Next]_vars
  PROVE  /\ \A k \in 1 .. Len(mOpenClusters) : Moves(k)
         /\ \A k \in 1 .. Len(finished) : /\ k \in 1 .. Len(finished')
                                          /\ \A i : FinishedIn(i, k) => FinishedIn(i, k)'
<1> DEFINE N == Len(mOpenClusters)
           F == Len(finished)
           Kept == /\ \A k \in 1 .. N : Moves(k)
                   /\ \A k \in 1 .. F : /\ k \in 1 .. Len(finished')
                                        /\ \A i : FinishedIn(i, k) => FinishedIn(i, k)'
<1> SUFFICES Kept
  OBVIOUS
<1>n. N \in Nat /\ F \in Nat
  BY DEF TypeOK
<1>0. UNCHANGED <<mOpenClusters, finished>> => Kept
  BY DEF Moves, OpenIn, FinishedIn
<1>1. CASE Match
  <2>1. cix \in 1 .. N /\ UNCHANGED finished
    BY <1>1, MatchCases
  <2>2. CASE Passes
    BY <1>0, <2>1, <2>2 DEF Passes
  <2>3. CASE Joins
    <3>1. /\ Len(mOpenClusters') = N
          /\ \A i, k : k \in 1 .. N =>
               (OpenIn(i, k)' <=> (OpenIn(i, k) \/ (k = cix /\ i = This)))
      BY <1>1, <2>3, JoinsMembers
    <3> QED
      BY <2>1, <3>1 DEF Moves, FinishedIn
  <2>4. CASE Merges
    <3>1. /\ Len(mOpenClusters') = N - 1
          /\ last_cluster \in 1 .. N - 1 /\ last_cluster < cix
          /\ \A i, k : k \in 1 .. N - 1 /\ k # last_cluster =>
               OpenIn(i, k)' = OpenIn(i, IF k = cix THEN N ELSE k)
          /\ \A i : OpenIn(i, last_cluster)' <=>
                      \/ OpenIn(i, last_cluster) \/ OpenIn(i, cix) \/ i = This
      BY <1>1, <2>4, MergesMembers
    <3>2. UNCHANGED last_cluster
      BY <2>4 DEF Merges
    <3>3. ASSUME NEW k \in 1 .. N
          PROVE  \E m \in 1 .. N - 1 : \A i : OpenIn(i, k) => OpenIn(i, m)'
      <4>1. CASE k = cix \/ k = last_cluster
        <5>1. PICK m \in 1 .. N - 1 : m = last_cluster
          BY <3>1
        <5>2. ASSUME NEW i PROVE OpenIn(i, m)' = OpenIn(i, last_cluster)'
          BY <3>2, <5>1 DEF OpenIn
        <5> QED
          BY <3>1, <4>1, <5>1, <5>2
      <4>2. CASE k = N /\ k # cix
        <5>1. PICK m \in 1 .. N - 1 : m = cix
          BY <1>n, <2>1, <4>2
        <5> QED
          BY <3>1, <4>2, <5>1
      <4>3. CASE k # N /\ k # cix /\ k # last_cluster
        <5>1. k \in 1 .. N - 1
          BY <1>n, <4>3
        <5> QED
          BY <3>1, <4>3, <5>1
      <4> QED
        BY <4>1, <4>2, <4>3
    <3>4. \A k \in 1 .. N : Moves(k)
      BY <3>1, <3>3 DEF Moves
    <3> QED
      BY <2>1, <3>4 DEF FinishedIn
  <2> QED
    BY <1>1, <2>2, <2>3, <2>4, MatchCases
<1>2. CASE StartClosing
  <2>1. UNCHANGED finished
    BY <1>2 DEF StartClosing
  <2>2. CASE in_cluster
    BY <1>0, <1>2, <2>2 DEF StartClosing
  <2>3. CASE ~in_cluster
    <3>1. /\ Len(mOpenClusters') = N + 1
          /\ \A i, k : k \in 1 .. N => OpenIn(i, k)' = OpenIn(i, k)
      BY <1>2, <2>3, StartMembers
    <3>2. \A k \in 1 .. N : k \in 1 .. N + 1
      BY <1>n
    <3> QED
      BY <2>1, <3>1, <3>2 DEF Moves, FinishedIn
  <2> QED
    BY <2>2, <2>3
<1>3. CASE Close
  <2>1. cix \in 1 .. N
    BY <1>3, CloseCases
  <2>2. CASE Finishes
    <3>1. /\ Len(mOpenClusters') = N - 1
          /\ Len(finished') = F + 1
          /\ \A i, k : k \in 1 .. N - 1 =>
               OpenIn(i, k)' = OpenIn(i, IF k = cix THEN N ELSE k)
          /\ \A i, k : k \in 1 .. F => FinishedIn(i, k)' = FinishedIn(i, k)
          /\ \A i, k : k = F + 1 => FinishedIn(i, k)' = OpenIn(i, cix)
      BY <2>1, <2>2, FinishMembers
    <3>2. ASSUME NEW k \in 1 .. N PROVE Moves(k)
      <4>1. CASE k = cix
        <5>1. PICK m \in 1 .. F + 1 : m = F + 1
          BY <1>n
        <5> QED
          BY <3>1, <4>1, <5>1 DEF Moves
      <4>2. CASE k = N /\ k # cix
        <5>1. PICK m \in 1 .. N - 1 : m = cix
          BY <1>n, <2>1, <4>2
        <5> QED
          BY <3>1, <4>2, <5>1 DEF Moves
      <4>3. CASE k # N /\ k # cix
        <5>1. k \in 1 .. N - 1
          BY <1>n, <4>3
        <5> QED
          BY <3>1, <4>3, <5>1 DEF Moves
      <4> QED
        BY <4>1, <4>2, <4>3
    <3>3. \A k \in 1 .. F : k \in 1 .. F + 1
      BY <1>n
    <3> QED
      BY <3>1, <3>2, <3>3
  <2> QED
    BY <1>0, <1>3, <2>2, CloseCases
<1>4. CASE Flush
  <2>1. /\ Len(finished') = F + N
        /\ \A i, k : k \in 1 .. F => FinishedIn(i, k)' = FinishedIn(i, k)
        /\ \A i, k, m : m \in 1 .. N /\ k = F + m => FinishedIn(i, k)' = OpenIn(i, m)
    BY <1>4, FlushMembers
  <2>2. ASSUME NEW k \in 1 .. N PROVE Moves(k)
    <3>1. PICK m \in 1 .. F + N : m = F + k
      BY <1>n
    <3> QED
      BY <2>1, <3>1 DEF Moves
  <2>3. \A k \in 1 .. F : k \in 1 .. F + N
    BY <1>n
  <2> QED
    BY <2>1, <2>2, <2>3
<1>5. CASE EndClosing \/ UNCHANGED vars
  BY <1>0, <1>5 DEF EndClosing, vars
<1>6. ASSUME NEW n \in 1 .. MaxChunk, Poll(n) PROVE Kept
  BY <1>0, <1>6 DEF Poll
<1>7. ASSUME NEW px \in Pixels, NEW tot \in ToTs, NEW t \in Times, NextClick(px, tot, t)
      PROVE  Kept
  BY <1>0, <1>7 DEF NextClick
<1>8. ASSUME NEW written \in 0 .. Len(finished), Output(written) PROVE Kept
  BY <1>0, <1>8 DEF Output
<1>9. ASSUME NEW x \in Settings, SetClusterParameters(x) PROVE Kept
  BY <1>0, <1>9 DEF SetClusterParameters
<1>10. ASSUME NEW r \in {"none", "dead", "live"}, SetRawPacketServerAddress(r)
       PROVE  Kept
  BY <1>0, <1>10 DEF SetRawPacketServerAddress
<1>11. ASSUME NEW opened \in BOOLEAN, SetSaveFile(opened) PROVE Kept
  BY <1>0, <1>11 DEF SetSaveFile
<1> HIDE DEF Kept
<1> QED
  BY <1>1, <1>2, <1>3, <1>4, <1>5, <1>6, <1>7, <1>8, <1>9, <1>10, <1>11 DEF Next

LEMMA TogetherKept ==
  ASSUME TypeOK, LoopInv, [Next]_vars, NEW i, NEW j, Together(i, j)
  PROVE  Together(i, j)'
<1>1. ASSUME NEW k \in 1 .. Len(mOpenClusters), OpenIn(i, k), OpenIn(j, k)
      PROVE  Together(i, j)'
  <2>1. Moves(k)
    BY NeverSplit
  <2> QED
    BY <1>1, <2>1 DEF Moves, Together
<1>2. ASSUME NEW k \in 1 .. Len(finished), FinishedIn(i, k), FinishedIn(j, k)
      PROVE  Together(i, j)'
  BY <1>2, NeverSplit DEF Together
<1> QED
  BY <1>1, <1>2 DEF Together

\* The log only grows; entries keep their values, but for the mark of the click
\* in the first loop.
LEMMA LogKept ==
  ASSUME TypeOK, LoopInv, [Next]_vars
  PROVE  /\ Clicks \subseteq Clicks' /\ Handled \subseteq Handled'
         /\ Handled \subseteq Clicks /\ Handled' \subseteq Clicks'
         /\ \A i \in Clicks :
              /\ log'[i].pos = log[i].pos /\ log'[i].sep = log[i].sep
              /\ log'[i].max_t = log[i].max_t /\ log'[i].flushes = log[i].flushes
         /\ \A i \in Handled : log'[i].skipped = log[i].skipped
         /\ \A i \in Handled' : i \in Handled \/ (StartClosing /\ i = This)
<1> DEFINE L == Len(log)
           Kept == /\ Clicks \subseteq Clicks' /\ Handled \subseteq Handled'
                   /\ Handled \subseteq Clicks /\ Handled' \subseteq Clicks'
                   /\ \A i \in Clicks :
                        /\ log'[i].pos = log[i].pos /\ log'[i].sep = log[i].sep
                        /\ log'[i].max_t = log[i].max_t /\ log'[i].flushes = log[i].flushes
                   /\ \A i \in Handled : log'[i].skipped = log[i].skipped
                   /\ \A i \in Handled' : i \in Handled \/ (StartClosing /\ i = This)
<1> SUFFICES Kept
  OBVIOUS
<1>l. L \in Nat /\ Clicks = 1 .. L /\ (1 .. L - 1) \subseteq 1 .. L
  BY DEF TypeOK, Clicks
<1>0. UNCHANGED log /\ pc # "match" /\ pc' # "match" => Kept
  BY DEF Clicks, Handled
<1>1. CASE Match
  <2>1. pc = "match" /\ pc' = "match" /\ Clicks' = Clicks /\ Len(log') = L
    BY <1>1, MatchCases, MatchLog DEF Clicks
  <2>2. Handled = 1 .. L - 1 /\ Handled' = 1 .. L - 1
    BY <2>1 DEF Handled
  <2>3. \A i \in 1 .. L - 1 : i \in Clicks /\ i # This
    BY <1>l DEF This
  <2> QED
    BY <1>1, <1>l, <2>1, <2>2, <2>3, MatchLog
<1>2. CASE StartClosing
  <2>1. pc = "match" /\ pc' = "close" /\ UNCHANGED log /\ Clicks' = Clicks
    BY <1>2 DEF StartClosing, histVars, Clicks
  <2>2. Handled = 1 .. L - 1 /\ Handled' = Clicks
    BY <2>1 DEF Handled
  <2>3. \A i \in 1 .. L : i \in 1 .. L - 1 \/ i = This
    BY <1>l DEF This
  <2> QED
    BY <1>2, <1>l, <2>1, <2>2, <2>3
<1>3. ASSUME NEW px \in Pixels, NEW tot \in ToTs, NEW t \in Times, NextClick(px, tot, t)
      PROVE  Kept
  <2>1. pc = "click" /\ pc' = "match"
    BY <1>3 DEF NextClick
  <2>2. PICK e : log' = Append(log, e)
    BY <1>3 DEF NextClick
  <2>3. Len(log') = L + 1 /\ \A i \in Clicks : log'[i] = log[i]
    BY <2>2 DEF TypeOK, Clicks
  <2>4. Handled = Clicks /\ Handled' = 1 .. Len(log') - 1 /\ Clicks' = 1 .. Len(log')
    BY <2>1 DEF Handled, Clicks
  <2>5. Handled' = 1 .. L /\ Clicks' = 1 .. L + 1
    BY <1>l, <2>3, <2>4
  <2> QED
    BY <1>l, <2>3, <2>4, <2>5
<1>4. CASE UNCHANGED vars
  <2>1. Clicks' = Clicks /\ Handled' = Handled /\ UNCHANGED log
    BY <1>4 DEF vars, histVars, Clicks, Handled
  <2> QED
    BY <1>l, <2>1 DEF Handled
<1>5. CASE Close
  BY <1>0, <1>5, CloseCases
<1>6. CASE EndClosing \/ Flush
  BY <1>0, <1>6 DEF EndClosing, Flush, histVars
<1>7. ASSUME NEW n \in 1 .. MaxChunk, Poll(n) PROVE Kept
  BY <1>0, <1>7 DEF Poll, histVars
<1>8. ASSUME NEW written \in 0 .. Len(finished), Output(written) PROVE Kept
  BY <1>0, <1>8 DEF Output, histVars
<1>9. ASSUME NEW x \in Settings, SetClusterParameters(x) PROVE Kept
  BY <1>0, <1>9 DEF SetClusterParameters, histVars
<1>10. ASSUME NEW r \in {"none", "dead", "live"}, SetRawPacketServerAddress(r)
       PROVE  Kept
  BY <1>0, <1>10 DEF SetRawPacketServerAddress, histVars
<1>11. ASSUME NEW opened \in BOOLEAN, SetSaveFile(opened) PROVE Kept
  BY <1>0, <1>11 DEF SetSaveFile, histVars
<1> HIDE DEF Kept
<1> QED
  BY <1>1, <1>2, <1>3, <1>4, <1>5, <1>6, <1>7, <1>8, <1>9, <1>10, <1>11 DEF Next

\* The first loop overlooks no cluster, but by a merge that skips one.
LEMMA SearchStep ==
  ASSUME TypeOK, LoopInv, SearchInv, [Next]_vars
  PROVE  SearchInv'
<1> DEFINE N == Len(mOpenClusters)
<1>0. pc' # "match" => SearchInv'
  BY DEF SearchInv
<1>n. N \in Nat
  BY DEF TypeOK
<1>1. CASE Match
  <2>1. /\ pc = "match" /\ cix' = cix + 1 /\ cix \in 1 .. N /\ UNCHANGED click
        /\ This' = This /\ This \in Clicks
    BY <1>1, MatchCases, MatchLog DEF LoopInv, ThisInv, This
  <2>2. /\ ~in_cluster => last_cluster = 0
        /\ ~log[This].skipped =>
             \A k \in 1 .. N : k < cix /\ k # last_cluster =>
                 ~ContainsClick(mOpenClusters[k], click)
    BY <2>1 DEF LoopInv, IndexInv, SearchInv
  <2> SUFFICES ASSUME ~log'[This].skipped,
                      NEW k \in 1 .. Len(mOpenClusters'), k < cix', k # last_cluster'
               PROVE  ~ContainsClick(mOpenClusters'[k], click)
    BY <2>1 DEF SearchInv, ContainsClick
  <2>3. CASE Passes
    <3>1. UNCHANGED <<mOpenClusters, log, last_cluster>>
          /\ ~ContainsClick(mOpenClusters[cix], click)
      BY <2>3 DEF Passes
    <3>2. k < cix \/ k = cix
      BY <2>1, <3>1
    <3> QED
      BY <2>2, <3>1, <3>2
  <2>4. CASE Joins
    <3>1. UNCHANGED log /\ last_cluster' = cix /\ ~in_cluster
      BY <2>4 DEF Joins
    <3>2. /\ Len(mOpenClusters') = N
          /\ \A m \in 1 .. N : m # cix => mOpenClusters'[m] = mOpenClusters[m]
      BY <2>1, <2>4, GrownType, Overwritten DEF Joins, TypeOK
    <3>3. k \in 1 .. N /\ k < cix /\ k # cix /\ k # 0
      BY <2>1, <3>1, <3>2
    <3> QED
      BY <2>2, <3>1, <3>2, <3>3
  <2>5. CASE Merges
    <3>1. /\ last_cluster' = last_cluster
          /\ log' = IF cix < N /\ ContainsClick(mOpenClusters[N], click)
                    THEN [log EXCEPT ![This].skipped = TRUE]
                    ELSE log
      BY <2>5 DEF Merges
    <3>2. ~(cix < N /\ ContainsClick(mOpenClusters[N], click)) /\ log' = log
      <4>1. CASE cix < N /\ ContainsClick(mOpenClusters[N], click)
        <5>1. log' = [log EXCEPT ![This] = [log[This] EXCEPT !.skipped = TRUE]]
          BY <3>1, <4>1
        <5>2. log \in Seq(LogEntry) /\ This \in 1 .. Len(log)
          BY <2>1 DEF TypeOK, LogEntry, Clicks
        <5>3. log[This] \in LogEntry
          BY <5>2
        <5>4. [log[This] EXCEPT !.skipped = TRUE].skipped = TRUE
              /\ [log[This] EXCEPT !.skipped = TRUE] \in LogEntry
          BY <5>3, MarkedEntry
        <5>5. log'[This] = [log[This] EXCEPT !.skipped = TRUE]
          BY <5>1, <5>2, <5>4, Overwritten
        <5> QED
          BY <5>4, <5>5
      <4>2. CASE ~(cix < N /\ ContainsClick(mOpenClusters[N], click))
        BY <3>1, <4>2
      <4> QED
        BY <4>1, <4>2
    <3>3. /\ Len(mOpenClusters') = N - 1
          /\ \A m \in 1 .. N - 1 : m # last_cluster =>
               mOpenClusters'[m] = IF m = cix THEN mOpenClusters[N] ELSE mOpenClusters[m]
      BY <2>1, <2>5, MergeList
    <3>4. k \in 1 .. N - 1 /\ k \in 1 .. N /\ k # last_cluster
          /\ (k < cix \/ (k = cix /\ cix < N))
      BY <1>n, <2>1, <3>1, <3>3
    <3>5. CASE k = cix
      BY <3>2, <3>3, <3>4, <3>5
    <3>6. CASE k # cix
      BY <2>2, <3>2, <3>3, <3>4, <3>6
    <3> QED
      BY <3>5, <3>6
  <2> QED
    BY <1>1, <2>3, <2>4, <2>5, MatchCases
<1>2. CASE UNCHANGED vars
  BY <1>2 DEF vars, loopVars, histVars, SearchInv, This, ContainsClick
<1>3. ASSUME NEW px \in Pixels, NEW tot \in ToTs, NEW t \in Times, NextClick(px, tot, t)
      PROVE  SearchInv'
  <2>1. cix' = 1
    BY <1>3 DEF NextClick
  <2>2. \A k \in 1 .. Len(mOpenClusters') : ~(k < 1)
    OBVIOUS
  <2> QED
    BY <2>1, <2>2 DEF SearchInv
<1>4. CASE StartClosing \/ EndClosing \/ Flush
  BY <1>0, <1>4 DEF StartClosing, EndClosing, Flush
<1>5. CASE Close
  BY <1>0, <1>5, CloseCases
<1>6. ASSUME NEW n \in 1 .. MaxChunk, Poll(n) PROVE SearchInv'
  BY <1>0, <1>6 DEF Poll
<1>8. ASSUME NEW written \in 0 .. Len(finished), Output(written) PROVE SearchInv'
  BY <1>0, <1>8 DEF Output
<1>9. ASSUME NEW x \in Settings, SetClusterParameters(x) PROVE SearchInv'
  BY <1>0, <1>9 DEF SetClusterParameters
<1>10. ASSUME NEW r \in {"none", "dead", "live"}, SetRawPacketServerAddress(r)
       PROVE  SearchInv'
  BY <1>0, <1>10 DEF SetRawPacketServerAddress
<1>11. ASSUME NEW opened \in BOOLEAN, SetSaveFile(opened) PROVE SearchInv'
  BY <1>0, <1>11 DEF SetSaveFile
<1> QED
  BY <1>1, <1>2, <1>3, <1>4, <1>5, <1>6, <1>8, <1>9, <1>10, <1>11 DEF Next

\* A click is not finished before a click from the future of its box came.
LEMMA ClosedStep ==
  ASSUME TypeOK, LoopInv, MembersInv, BoxIsHull, ClosedInv, [Next]_vars
  PROVE  ClosedInv'
<1> DEFINE F == Len(finished)
           Future(i, m, l) == /\ i < m
                              /\ l[m].pos["t"] > l[i].pos["t"] + l[i].sep["t"] + l[m].max_t
<1>t. "t" \in Dims
  BY DEF Dims
<1>f. /\ \A i, k : k \in 1 .. F /\ FinishedIn(i, k) => i \in Clicks
      /\ \A i \in Clicks : log[i] \in LogEntry /\ log[i].flushes <= flushes
      /\ F \in Nat
  <2>1. log \in Seq(LogEntry) /\ F \in Nat
    BY DEF TypeOK, LogEntry
  <2> QED
    BY <2>1 DEF MembersInv, FinishedIn, Clicks
<1>0. ASSUME UNCHANGED flushes, NEW i, NEW k \in 1 .. F, FinishedIn(i, k),
             log'[i].flushes = flushes'
      PROVE  \E m \in Handled' : Future(i, m, log')
  <2>1. i \in Clicks /\ log[i].flushes = flushes
    BY <1>0, <1>f, LogKept
  <2>2. PICK m \in Handled : Future(i, m, log)
    BY <1>0, <2>1 DEF ClosedInv
  <2>3. m \in Handled' /\ m \in Clicks
    BY LogKept
  <2>4. /\ log'[m].pos = log[m].pos /\ log'[m].max_t = log[m].max_t
        /\ log'[i].pos = log[i].pos /\ log'[i].sep = log[i].sep
    BY <2>1, <2>3, LogKept
  <2> QED
    BY <2>2, <2>3, <2>4
<1>1. ASSUME UNCHANGED <<finished, flushes>> PROVE ClosedInv'
  <2>1. \A i, k : FinishedIn(i, k)' = FinishedIn(i, k)
    BY <1>1 DEF FinishedIn
  <2> QED
    BY <1>0, <1>1, <2>1 DEF ClosedInv
<1>2. CASE Close
  <2>1. /\ pc = "close" /\ pc' = "close" /\ cix \in 1 .. Len(mOpenClusters)
        /\ UNCHANGED <<flushes, log>>
    BY <1>2, CloseCases
  <2>2. CASE Finishes
    <3>1. /\ Len(finished') = F + 1
          /\ \A i, k : k \in 1 .. F => FinishedIn(i, k)' = FinishedIn(i, k)
          /\ \A i, k : k = F + 1 => FinishedIn(i, k)' = OpenIn(i, cix)
      BY <2>1, <2>2, FinishMembers
    <3>2. /\ This \in Clicks /\ log[This].pos = click.pos
          /\ log[This].max_t = settings.max_t_separation
      BY <2>1 DEF LoopInv, ThisInv
    <3> DEFINE c == mOpenClusters[cix]
    <3>3. /\ c \in Cluster /\ c.members \subseteq Clicks /\ IsHull(c, log)
          /\ click.pos["t"] > c.max["t"] + settings.max_t_separation
      BY <2>1, <2>2 DEF TypeOK, MembersInv, BoxIsHull, Finishes, IsLast
    <3>4. ASSUME NEW i, OpenIn(i, cix) PROVE Future(i, This, log)
      <4>1. i \in c.members /\ i \in Clicks
        BY <3>3, <3>4 DEF OpenIn
      <4>2. c.max["t"] >= log[i].pos["t"] + log[i].sep["t"]
        BY <1>t, <3>3, <4>1 DEF IsHull
      <4>3. /\ log[i].pos["t"] \in Int /\ log[i].sep["t"] \in Nat /\ c.max["t"] \in Int
            /\ log[This].pos["t"] \in Int /\ log[This].max_t \in Nat
        BY <1>t, <1>f, <3>2, <3>3, <4>1 DEF LogEntry, Cluster
      <4>4. log[This].pos["t"] > log[i].pos["t"] + log[i].sep["t"] + log[This].max_t
        BY <3>2, <3>3, <4>2, <4>3
      <4>5. i # This
        BY <4>3, <4>4
      <4>6. i < This
        BY <4>1, <4>5 DEF Clicks, This
      <4> QED
        BY <4>4, <4>6
    <3>5. This \in Handled' /\ log' = log
      BY <2>1, <3>2 DEF Handled, Clicks
    <3>6. \A k \in 1 .. F + 1 : k \in 1 .. F \/ k = F + 1
      BY <1>f
    <3>7. ASSUME NEW i, NEW k \in 1 .. F + 1, FinishedIn(i, k)', log'[i].flushes = flushes'
          PROVE  \E m \in Handled' : Future(i, m, log')
      <4>1. CASE k \in 1 .. F
        BY <1>0, <2>1, <3>1, <3>7, <4>1
      <4>2. CASE k = F + 1
        <5>1. Future(i, This, log)
          BY <3>1, <3>4, <3>7, <4>2
        <5> QED
          BY <3>5, <5>1
      <4> QED
        BY <3>6, <4>1, <4>2
    <3> QED
      BY <3>1, <3>7 DEF ClosedInv
  <2> QED
    BY <1>1, <1>2, <2>1, <2>2, CloseCases
<1>3. CASE Flush
  <2>1. flushes' = flushes + 1 /\ UNCHANGED log /\ Clicks' = Clicks /\ flushes \in Nat
    BY <1>3 DEF Flush, Clicks, TypeOK
  <2>2. ASSUME NEW i \in Clicks PROVE log'[i].flushes # flushes'
    <3>1. log[i].flushes \in Nat /\ log[i].flushes <= flushes
      BY <1>f DEF LogEntry
    <3> QED
      BY <2>1, <3>1
  <2> QED
    BY <2>1, <2>2 DEF ClosedInv
<1>4. CASE Match
  BY <1>1, <1>4, MatchCases
<1>5. CASE StartClosing \/ EndClosing \/ UNCHANGED vars
  BY <1>1, <1>5 DEF StartClosing, EndClosing, histVars, vars
<1>6. ASSUME NEW n \in 1 .. MaxChunk, Poll(n) PROVE ClosedInv'
  BY <1>1, <1>6 DEF Poll, histVars
<1>7. ASSUME NEW px \in Pixels, NEW tot \in ToTs, NEW t \in Times, NextClick(px, tot, t)
      PROVE  ClosedInv'
  BY <1>1, <1>7 DEF NextClick
<1>8. ASSUME NEW written \in 0 .. Len(finished), Output(written) PROVE ClosedInv'
  BY <1>1, <1>8 DEF Output, histVars
<1>9. ASSUME NEW x \in Settings, SetClusterParameters(x) PROVE ClosedInv'
  BY <1>1, <1>9 DEF SetClusterParameters, histVars
<1>10. ASSUME NEW r \in {"none", "dead", "live"}, SetRawPacketServerAddress(r)
       PROVE  ClosedInv'
  BY <1>1, <1>10 DEF SetRawPacketServerAddress, histVars
<1>11. ASSUME NEW opened \in BOOLEAN, SetSaveFile(opened) PROVE ClosedInv'
  BY <1>1, <1>11 DEF SetSaveFile, histVars
<1> QED
  BY <1>2, <1>3, <1>4, <1>5, <1>6, <1>7, <1>8, <1>9, <1>10, <1>11 DEF Next

\* The click whose search ends is with its neighbours.
LEMMA FoundAll ==
  ASSUME TypeOK, LoopInv, MembersOnce, BoxIsHull, ClosedInv, SearchInv, StartClosing,
         NEW i \in Clicks, Neighbours(i, This), ~log[This].skipped
  PROVE  in_cluster /\ OpenIn(i, last_cluster) /\ OpenIn(This, last_cluster)
         /\ last_cluster \in 1 .. Len(mOpenClusters)
<1>1. /\ pc = "match" /\ cix > Len(mOpenClusters) /\ This \in Clicks
      /\ log[This].pos = click.pos /\ log[This].flushes = flushes
  BY DEF StartClosing, LoopInv, ThisInv
<1>2. i < This /\ Near(i, This) /\ ~Overtaken(i, This) /\ log[i].flushes = flushes
  BY <1>1 DEF Neighbours
<1>0. log \in Seq(LogEntry)
  BY DEF TypeOK, LogEntry
<1>3. /\ log \in Seq(LogEntry) /\ "t" \in Dims /\ Len(log) \in Nat
      /\ Len(mOpenClusters) \in Nat /\ cix \in Nat
  <2>1. Len(log) \in Nat
    BY <1>0
  <2>2. mOpenClusters \in Seq(Cluster) /\ cix \in Nat
    BY DEF TypeOK
  <2>3. Len(mOpenClusters) \in Nat
    BY <2>2
  <2> QED
    BY <1>0, <2>1, <2>2, <2>3 DEF Dims
<1>4. \A m \in Clicks : log[m] \in LogEntry
  BY <1>0 DEF Clicks
<1>5. ~\E k \in 1 .. Len(finished) : FinishedIn(i, k)
  <2> SUFFICES ASSUME NEW k \in 1 .. Len(finished), FinishedIn(i, k) PROVE FALSE
    OBVIOUS
  <2>1. PICK m \in Handled :
           /\ i < m
           /\ log[m].pos["t"] > log[i].pos["t"] + log[i].sep["t"] + log[m].max_t
    BY <1>2 DEF ClosedInv
  <2>2. m \in Clicks /\ m < This
    BY <1>1, <1>3 DEF Handled, Clicks, This
  <2>3. log[This].pos["t"] <= log[i].pos["t"] + log[i].sep["t"]
    BY <1>2, <1>3 DEF Near
  <2>4. /\ log[m].pos["t"] \in Int /\ log[i].pos["t"] \in Int /\ log[i].sep["t"] \in Int
        /\ log[m].max_t \in Int /\ log[This].pos["t"] \in Int
    <3>1. log[m] \in LogEntry /\ log[i] \in LogEntry /\ log[This] \in LogEntry
      BY <1>1, <1>4, <2>2
    <3>2. ASSUME NEW x \in LogEntry
          PROVE  x.pos["t"] \in Int /\ x.sep["t"] \in Int /\ x.max_t \in Int
      BY <1>3 DEF LogEntry
    <3> QED
      BY <3>1, <3>2
  <2>5. log[m].pos["t"] > log[This].pos["t"] + log[m].max_t
    <3>1. ASSUME NEW a \in Int, NEW b \in Int, NEW c \in Int, NEW d \in Int,
                 NEW e \in Int, a > b + c + d, e <= b + c
          PROVE  a > e + d
      BY <3>1
    <3> QED
      BY <2>1, <2>3, <2>4, <3>1
  <2> QED
    BY <1>2, <2>1, <2>2, <2>5 DEF Overtaken
<1>6. PICK k \in 1 .. Len(mOpenClusters) : OpenIn(i, k)
  <2>1. i # This
    BY <1>2, <1>3 DEF This
  <2>2. i \in Placed
    BY <2>1, PlacedIs
  <2> QED
    BY <1>5, <2>2 DEF MembersOnce, EachClickOnce, Covered
<1>7. ContainsClick(mOpenClusters[k], click)
  <2> DEFINE c == mOpenClusters[k]
  <2>1. c \in Cluster /\ IsHull(c, log) /\ i \in c.members
    <3>1. mOpenClusters \in Seq(Cluster)
      BY DEF TypeOK
    <3>2. c \in Cluster
      BY <3>1
    <3>3. IsHull(c, log)
      BY Zenon DEF BoxIsHull
    <3>4. i \in c.members
      BY <1>6, Zenon DEF OpenIn
    <3> QED
      BY <3>2, <3>3, <3>4
  <2> HIDE DEF c
  <2>2. ASSUME NEW d \in Dims PROVE c.min[d] <= click.pos[d] /\ click.pos[d] <= c.max[d]
    <3>1. /\ c.min[d] <= log[i].pos[d] - log[i].sep[d]
          /\ c.max[d] >= log[i].pos[d] + log[i].sep[d]
      BY <2>1 DEF IsHull
    <3>2. /\ log[i].pos[d] - log[i].sep[d] <= click.pos[d]
          /\ click.pos[d] <= log[i].pos[d] + log[i].sep[d]
      BY <1>1, <1>2 DEF Near
    <3>3. /\ log[i].pos[d] \in Int /\ log[i].sep[d] \in Int /\ c.min[d] \in Int
          /\ c.max[d] \in Int /\ click.pos[d] \in Int
      <4>1. log[i] \in LogEntry /\ log[This] \in LogEntry
        BY <1>1, <1>4
      <4>2. log[i].pos[d] \in Int /\ log[i].sep[d] \in Int
        BY <4>1 DEF LogEntry
      <4>3. log[This].pos[d] \in Int
        BY <4>1 DEF LogEntry
      <4>4. c.min[d] \in Int /\ c.max[d] \in Int
        BY <2>1 DEF Cluster
      <4> QED
        BY <1>1, <4>2, <4>3, <4>4
    <3> QED
      BY <3>1, <3>2, <3>3
  <2> QED
    BY <2>2 DEF ContainsClick, c
<1>8. k = last_cluster
  BY <1>1, <1>3, <1>7 DEF SearchInv
<1>9. in_cluster
  BY <1>1, <1>3, <1>8 DEF LoopInv, IndexInv
<1> QED
  BY <1>1, <1>6, <1>8, <1>9 DEF MembersOnce, MembersInv

LEMMA NeighboursStep ==
  ASSUME TypeOK, LoopInv, MembersOnce, BoxIsHull, ClosedInv, SearchInv,
         NeighboursTogether, [Next]_vars
  PROVE  NeighboursTogether'
<1> SUFFICES ASSUME NEW i \in Handled', NEW j \in Handled', Neighbours(i, j)',
                    ~log'[j].skipped
             PROVE  Together(i, j)'
  BY DEF NeighboursTogether
<1>1. /\ i < j /\ Near(i, j)' /\ ~Overtaken(i, j)' /\ log'[i].flushes = log'[j].flushes
  BY DEF Neighbours
<1>2. i \in Handled \/ (StartClosing /\ i = This)
  BY LogKept
<1>3. j \in Handled \/ (StartClosing /\ j = This)
  BY LogKept
<1>4. Handled \subseteq Clicks /\ Clicks = 1 .. Len(log) /\ Len(log) \in Nat
  BY LogKept DEF Clicks, TypeOK
<1>5. i \in Clicks /\ j \in Clicks
  <2>1. StartClosing => This \in Clicks
    BY DEF StartClosing, LoopInv, ThisInv
  <2> QED
    BY <1>2, <1>3, <1>4, <2>1
<1>6. Neighbours(i, j)
  <2>1. Near(i, j)
    BY <1>1, <1>5, LogKept DEF Near
  <2>2. ~Overtaken(i, j)
    <3> SUFFICES ASSUME NEW k \in Clicks, i < k, k < j,
                        log[k].pos["t"] > log[j].pos["t"] + log[k].max_t
                 PROVE  FALSE
      BY DEF Overtaken
    <3>1. k \in Clicks' /\ log'[k].pos = log[k].pos /\ log'[k].max_t = log[k].max_t
          /\ log'[j].pos = log[j].pos
      BY <1>5, LogKept
    <3> QED
      BY <1>1, <3>1 DEF Overtaken
  <2>3. log[i].flushes = log[j].flushes
    BY <1>1, <1>5, LogKept
  <2> QED
    BY <1>1, <2>1, <2>2, <2>3 DEF Neighbours
<1>7. CASE j \in Handled
  <2>1. i \in Handled
    <3>1. i = This => FALSE
      BY <1>1, <1>4, <1>5 DEF This
    <3> QED
      BY <1>2, <3>1
  <2>2. ~log[j].skipped
    BY <1>7, LogKept
  <2>3. Together(i, j)
    BY <1>6, <1>7, <2>1, <2>2 DEF NeighboursTogether
  <2> QED
    BY <2>3, TogetherKept
<1>8. CASE StartClosing /\ j = This
  <2>1. UNCHANGED log
    BY <1>8 DEF StartClosing, histVars
  <2>2. OpenIn(i, last_cluster) /\ OpenIn(j, last_cluster)
        /\ last_cluster \in 1 .. Len(mOpenClusters)
    BY <1>5, <1>6, <1>8, <2>1, FoundAll
  <2>3. Together(i, j)
    BY <2>2 DEF Together
  <2> QED
    BY <2>3, TogetherKept
<1> QED
  BY <1>3, <1>7, <1>8

-----------------------------------------------------------------------------
(* The theorems.                                                           *)

LEMMA ClusteringInit ==
  ASSUME Init
  PROVE  ClusteringInv
<1> USE DEF Init
<1>1. TypeOK
  <2>1. /\ settings \in Setting /\ sent \in 0 .. Len(finished)
        /\ mOpenClusters \in Seq(Cluster) /\ finished \in Seq(Cluster)
    BY SettingsAssumption
  <2>2. mFile \in [open : BOOLEAN, good : BOOLEAN, saved : SUBSET (1 .. sent),
                   from : 0 .. sent, flushed : SUBSET (1 .. sent), count : Nat]
    BY SettingsAssumption
  <2>3. click \in [pos : [Dims -> Int], tot : Nat]
    OBVIOUS
  <2>4. log \in Seq([pos : [Dims -> Int], tot : Nat, flushes : Nat,
                   sep : [Dims -> Nat], max_t : Nat, skipped : BOOLEAN])
    OBVIOUS
  <2> QED
    BY <2>1, <2>2, <2>3, <2>4 DEF TypeOK
<1>2. LoopInv /\ SearchInv /\ NoneOverdue
  BY DEF LoopInv, IndexInv, ThisInv, SearchInv, NoneOverdue
<1>3. Len(log) = 0 /\ Len(mOpenClusters) = 0 /\ Len(finished) = 0 /\ 1 .. 0 = {}
  OBVIOUS
<1>4. Clicks = {} /\ Placed = {} /\ Handled = {}
  BY <1>3 DEF Clicks, Placed, Handled
<1>5. MembersInv /\ EachClickOnce
  BY <1>3, <1>4 DEF MembersInv, EachClickOnce, Covered, OpenOnce, FinishedOnce, NotBoth
<1>6. BoxIsHull /\ ClosedInv /\ NeighboursTogether
  BY <1>3, <1>4 DEF BoxIsHull, ClosedInv, NeighboursTogether
<1>7. WeightInv /\ CentroidInHull
  BY <1>3 DEF WeightInv, CentroidInHull
<1>8. FileComplete
  BY DEF FileComplete
<1> QED
  BY <1>1, <1>2, <1>5, <1>6, <1>7, <1>8 DEF ClusteringInv

LEMMA ClusteringNext ==
  ASSUME ClusteringInv, [Next]_vars
  PROVE  ClusteringInv'
<1> USE DEF ClusteringInv
<1>1. TypeOK' /\ LoopInv'
  BY TypeStep, LoopStep
<1>2. MembersInv' /\ EachClickOnce'
  BY MembersStep DEF MembersOnce
<1>3. BoxIsHull'
  BY HullStep
<1>4. NoneOverdue' /\ SearchInv'
  BY OverdueStep, SearchStep
<1>5. ClosedInv'
  BY ClosedStep
<1>6. NeighboursTogether'
  BY NeighboursStep DEF MembersOnce
<1>7. WeightInv' /\ CentroidInHull'
  <2>1. MeanInv
    BY DEF MeanInv, IsMean, WeightInv, CentroidInHull
  <2>2. MeanInv'
    BY <2>1, MeanStep DEF EachClickOnce
  <2> QED
    BY <2>2 DEF MeanInv, IsMean, WeightInv, CentroidInHull
<1>8. FileComplete'
  BY FileStep
<1> QED
  BY <1>1, <1>2, <1>3, <1>4, <1>5, <1>6, <1>7, <1>8

(***************************************************************************)
(* The invariant of handlePackets and the commands around it, for all      *)
(* clicks, orders of their times, settings and sizes of messages.          *)
(***************************************************************************)
THEOREM ClusteringInvariant == Spec => []ClusteringInv
<1>1. Init => ClusteringInv
  BY ClusteringInit
<1>2. ClusteringInv /\ [Next]_vars => ClusteringInv'
  BY ClusteringNext
<1> QED
  BY <1>1, <1>2, PTL DEF Spec

\* The loops of handlePackets stay within the list they change: the first one
\* keeps its pointer last_cluster on an earlier cluster of the list while it
\* removes others behind it, the second one runs down from its last cluster.
\* The manager's variables keep their types, so every element they read is one.
THEOREM ClusteringTypes == Spec => [](TypeOK /\ IndexInv)
<1>1. ClusteringInv => TypeOK /\ IndexInv
  BY DEF ClusteringInv, LoopInv
<1> QED
  BY <1>1, ClusteringInvariant, PTL

\* ClusterList::remove under the loops of handlePackets loses no click, and
\* leaves none in two clusters.
THEOREM ClicksOnce == Spec => []EachClickOnce
<1>1. ClusteringInv => EachClickOnce
  BY DEF ClusteringInv
<1> QED
  BY <1>1, ClusteringInvariant, PTL

\* addClick and addCluster keep the box of a cluster the hull of its clicks.
THEOREM BoxesAreHulls == Spec => []BoxIsHull
<1>1. ClusteringInv => BoxIsHull
  BY DEF ClusteringInv
<1> QED
  BY <1>1, ClusteringInvariant, PTL

\* Clicks in each other's boxes are put into one cluster, with the three
\* exceptions the property names.
THEOREM NeighboursStayTogether == Spec => []NeighboursTogether
<1>1. ClusteringInv => NeighboursTogether
  BY DEF ClusteringInv
<1> QED
  BY <1>1, ClusteringInvariant, PTL

\* The second loop of handlePackets finishes every overdue cluster.
THEOREM OverdueClustersFinished == Spec => []NoneOverdue
<1>1. ClusteringInv => NoneOverdue
  BY DEF ClusteringInv
<1> QED
  BY <1>1, ClusteringInvariant, PTL

\* The centroid that addClick and addCluster keep lies between the clicks of
\* its cluster, and is a number unless two of them have ToT 0.
THEOREM CentroidsInHull == Spec => []CentroidInHull
<1>1. ClusteringInv => CentroidInHull
  BY DEF ClusteringInv
<1> QED
  BY <1>1, ClusteringInvariant, PTL

\* handlePackets leaves out of the save file no cluster it publishes, until a
\* write fails.
THEOREM FilesComplete == Spec => []FileComplete
<1>1. ClusteringInv => FileComplete
  BY DEF ClusteringInv
<1> QED
  BY <1>1, ClusteringInvariant, PTL
=============================================================================
