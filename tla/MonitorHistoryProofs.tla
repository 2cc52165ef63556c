------------------------- MODULE MonitorHistoryProofs -------------------------
(***************************************************************************)
(* MonitorHistory, for any number of runs that share a directory, any      *)
(* samples and any failures, kills and power cuts: what the health file    *)
(* says is backed by lines on disk, only what was sealed, and is old       *)
(* enough, is ever removed, and the alerts on record are those that the    *)
(* samples on record make due.                                             *)
(*                                                                         *)
(* The first two rest on what a place in the code has established of the   *)
(* segment that is open (Opened), and on segments that only ever grow, but *)
(* for what was not flushed (Kept).  A segment that is sealed stays as it  *)
(* is (Done), so a pruning run may rely on a marker it has read long ago;  *)
(* and a sample is advertised by a recorder that has flushed it            *)
(* (Recording).                                                            *)
(*                                                                         *)
(* The third compares the engine, which sees one sample at a time, with    *)
(* the history as a whole: what it knows of a key is what the samples said *)
(* first, or last (Knowledge), and its counts are streaks of verdicts      *)
(* (AlertState), so what Observe raises is what is due (ObserveIsRight).   *)
(* Only records of the last tick are not flushed (Unflushed), so a tick    *)
(* that is over keeps its alerts whatever fails (Frozen).                  *)
(***************************************************************************)
EXTENDS MonitorHistory, FiniteSetTheorems, SequenceTheorems, TLAPS

IsSequence(s) == Len(s) \in Nat /\ s = [k \in 1..Len(s) |-> s[k]]

-----------------------------------------------------------------------------
(* The segments *)

IsSegment(s) ==
  /\ DOMAIN s = {"lines", "flushed", "torn", "there"}
  /\ IsSequence(s.lines) /\ s.flushed \in 0..Len(s.lines)

Segments ==
  /\ DOMAIN seg = Runs
  /\ \A r \in Runs : IsSequence(seg[r]) /\ \A i \in 1..Len(seg[r]) : IsSegment(seg[r][i])

\* What is flushed of s is flushed of t, and the same.
Extends(s, t) ==
  /\ s.flushed <= t.flushed
  /\ \A j \in 1..s.flushed : t.lines[j] = s.lines[j]

Kept ==
  \A r \in Runs : /\ Len(seg[r]) <= Len(seg'[r])
                  /\ \A i \in 1..Len(seg[r]) : Extends(seg[r][i], seg'[r][i])

LEMMA ExtendsItself ==
  ASSUME NEW s, IsSegment(s)
  PROVE  Extends(s, s)
  <1>1. s.flushed \in Int
    BY DEF IsSegment, IsSequence
  <1> QED
    BY <1>1 DEF Extends

LEMMA SequenceIn ==
  ASSUME NEW s, IsSequence(s), NEW S, \A k \in 1..Len(s) : s[k] \in S
  PROVE  s \in Seq(S)
  <1>1. s \in [1..Len(s) -> S]
    BY DEF IsSequence
  <1> QED
    BY <1>1, SeqDef DEF IsSequence

LEMMA InSequence ==
  ASSUME NEW S, NEW s \in Seq(S)
  PROVE  IsSequence(s)
  <1>1. s \in [1..Len(s) -> S] /\ Len(s) \in Nat
    BY LenProperties
  <1> QED
    BY <1>1 DEF IsSequence

LEMMA SequenceDomain ==
  ASSUME NEW s, IsSequence(s)
  PROVE  DOMAIN s = 1..Len(s) /\ Len(s) \in Nat
  BY DEF IsSequence

LEMMA AppendOne ==
  ASSUME NEW s, IsSequence(s), NEW e
  PROVE  /\ IsSequence(Append(s, e)) /\ Len(Append(s, e)) = Len(s) + 1
         /\ Append(s, e)[Len(s) + 1] = e
         /\ \A k \in 1..Len(s) : Append(s, e)[k] = s[k]
  <1> DEFINE S == {s[k] : k \in 1..Len(s)} \cup {e}
  <1>1. s \in Seq(S) /\ e \in S
    BY SequenceIn
  <1> HIDE DEF S
  <1>2. Append(s, e) \in Seq(S)
    BY <1>1, AppendProperties
  <1>3. IsSequence(Append(s, e))
    BY <1>2, InSequence
  <1> QED
    BY <1>1, <1>3, AppendProperties

LEMMA ReplaceOne ==
  ASSUME NEW s, IsSequence(s), NEW i \in 1..Len(s), NEW e
  PROVE  /\ IsSequence([s EXCEPT ![i] = e]) /\ Len([s EXCEPT ![i] = e]) = Len(s)
         /\ [s EXCEPT ![i] = e][i] = e
         /\ \A k \in 1..Len(s) : k # i => [s EXCEPT ![i] = e][k] = s[k]
  <1> DEFINE S == {s[k] : k \in 1..Len(s)} \cup {e}
  <1>1. s \in Seq(S) /\ e \in S
    BY SequenceIn
  <1> HIDE DEF S
  <1>2. [s EXCEPT ![i] = e] \in Seq(S)
    BY <1>1, ExceptSeq
  <1>3. IsSequence([s EXCEPT ![i] = e])
    BY <1>2, InSequence
  <1> QED
    BY <1>1, <1>3, ExceptSeq

LEMMA Prefix ==
  ASSUME NEW s, IsSequence(s), NEW k \in 0..Len(s)
  PROVE  /\ IsSequence(SubSeq(s, 1, k)) /\ Len(SubSeq(s, 1, k)) = k
         /\ \A i \in 1..k : SubSeq(s, 1, k)[i] = s[i]
  <1> DEFINE S == {s[i] : i \in 1..Len(s)}
  <1>1. Len(s) \in Nat /\ k \in Nat /\ k \in Int
    BY DEF IsSequence
  <1>2. \A i \in 1..k : s[i] \in S
    BY <1>1
  <1>3. /\ SubSeq(s, 1, k) \in Seq(S)
        /\ Len(SubSeq(s, 1, k)) = IF 1 <= k THEN k - 1 + 1 ELSE 0
        /\ \A i \in 1..k - 1 + 1 : SubSeq(s, 1, k)[i] = s[1 + i - 1]
    BY <1>1, <1>2, SubSeqProperties
  <1>4. \A i \in 1..k : i \in 1..k - 1 + 1 /\ 1 + i - 1 = i
    BY <1>1
  <1> HIDE DEF S
  <1>5. IsSequence(SubSeq(s, 1, k))
    BY <1>3, InSequence
  <1>6. Len(SubSeq(s, 1, k)) = k
    BY <1>1, <1>3
  <1>7. \A i \in 1..k : SubSeq(s, 1, k)[i] = s[i]
    BY <1>3, <1>4
  <1> QED
    BY <1>5, <1>6, <1>7

\* A run replaces one segment of its own.
Replaced(r, i, t) ==
  /\ Segments' /\ Kept
  /\ \A q \in Runs : Len(seg'[q]) = Len(seg[q])
  /\ seg'[r][i] = t
  /\ \A q \in Runs : \A j \in 1..Len(seg[q]) :
       q # r \/ j # i => seg'[q][j] = seg[q][j]

LEMMA ReplaceSegment ==
  ASSUME Segments, NEW r \in Runs, NEW i \in 1..Len(seg[r]), NEW t,
         IsSegment(t), Extends(seg[r][i], t),
         seg' = [seg EXCEPT ![r] = [seg[r] EXCEPT ![i] = t]]
  PROVE  Replaced(r, i, t)
  <1>1. IsSequence(seg[r]) /\ Len(seg[r]) \in Nat
    BY DEF Segments, IsSequence
  <1> DEFINE new == [seg[r] EXCEPT ![i] = t]
  <1>2. /\ IsSequence(new) /\ Len(new) = Len(seg[r]) /\ new[i] = t
        /\ \A k \in 1..Len(seg[r]) : k # i => new[k] = seg[r][k]
    BY <1>1, ReplaceOne
  <1>3. DOMAIN seg' = Runs /\ seg'[r] = new /\ \A q \in Runs : q # r => seg'[q] = seg[q]
    BY DEF Segments
  <1> HIDE DEF new
  <1>4. \A q \in Runs : Len(seg'[q]) = Len(seg[q]) /\ Len(seg[q]) \in Nat
    BY <1>2, <1>3 DEF Segments, IsSequence
  <1>5. \A q \in Runs : \A j \in 1..Len(seg[q]) :
          q # r \/ j # i => seg'[q][j] = seg[q][j]
    BY <1>2, <1>3
  <1>6. seg'[r][i] = t
    BY <1>2, <1>3
  <1>7. Segments'
    <2>1. \A q \in Runs : IsSequence(seg'[q])
      BY <1>2, <1>3 DEF Segments
    <2>2. \A q \in Runs : \A j \in 1..Len(seg'[q]) : IsSegment(seg'[q][j])
      BY <1>4, <1>5, <1>6 DEF Segments
    <2> QED
      BY <1>3, <2>1, <2>2 DEF Segments
  <1>8. Kept
    <2>1. \A q \in Runs : \A j \in 1..Len(seg[q]) : Extends(seg[q][j], seg[q][j])
      BY ExtendsItself DEF Segments
    <2> QED
      BY <1>4, <1>5, <1>6, <2>1 DEF Kept
  <1> QED
    BY <1>4, <1>5, <1>6, <1>7, <1>8 DEF Replaced

LEMMA SameSegments ==
  ASSUME Segments, seg' = seg
  PROVE  Segments' /\ Kept
  <1>1. \A q \in Runs : \A j \in 1..Len(seg[q]) : Extends(seg[q][j], seg[q][j])
    BY ExtendsItself DEF Segments
  <1> QED
    BY <1>1 DEF Segments, IsSequence, Kept

-----------------------------------------------------------------------------
(* Where a run is, and the segment it has open *)

Writing == {"starting", "ready", "append", "seal", "write", "sync", "status", "deliver", "endseal"}
Closing == {"mark", "endmark"}

Whole(s) == s.flushed = Len(s.lines)

Opened(r) ==
  /\ file[r] \in BOOLEAN
  /\ pc[r] \in Writing => file[r]
  /\ file[r] => pc[r] \in Writing \cup {"close"}
  /\ file[r] \/ pc[r] \in Closing => Len(seg[r]) >= 1
  /\ pc[r] \in Closing => Whole(seg[r][Len(seg[r])])

Domains ==
  /\ DOMAIN pc = Runs /\ DOMAIN started = Runs /\ DOMAIN glob = Runs /\ DOMAIN file = Runs
  /\ DOMAIN todo = Runs /\ DOMAIN engine = Runs /\ DOMAIN tick = Runs /\ DOMAIN last = Runs
  /\ DOMAIN health = Runs

Times == clock \in Nat /\ \A r \in Runs : started[r] \in Nat /\ started[r] <= clock

Shape == Domains /\ Times /\ Segments /\ \A r \in Runs : Opened(r)

\* Nobody will touch the lines of this segment again: it is flushed, and no run has it
\* open or is about to mark it.
Done(r, i) ==
  Whole(seg[r][i]) /\ ~(i = Len(seg[r]) /\ (file[r] \/ pc[r] \in Closing))

Lasting == \A r \in Runs : \A i \in 1..Len(seg[r]) : Done(r, i) => Done(r, i)'

Aside(r) == \A q \in Runs : q # r => pc'[q] = pc[q] /\ file'[q] = file[q] /\ seg'[q] = seg[q]

\* The run moves on, and perhaps gives its file up.
Quietly(r) ==
  /\ seg' = seg /\ Aside(r)
  /\ file'[r] \in BOOLEAN /\ pc'[r] \notin Closing
  /\ pc'[r] \in Writing => file'[r]
  /\ file'[r] => pc'[r] \in Writing \cup {"close"} /\ file[r]

LEMMA ShapeOfOne ==
  ASSUME Shape, NEW r \in Runs, Domains', Times', Segments', Kept, Aside(r), Opened(r)',
         \A i \in 1..Len(seg[r]) : Done(r, i) => Done(r, i)'
  PROVE  Shape' /\ Kept /\ Lasting
  <1>1. \A q \in Runs : q # r => Opened(q)'
    BY DEF Shape, Opened, Aside
  <1>2. \A q \in Runs : q # r => \A i \in 1..Len(seg[q]) : Done(q, i) => Done(q, i)'
    BY DEF Aside, Done
  <1>3. \A q \in Runs : Opened(q)'
    BY <1>1
  <1> QED
    BY <1>2, <1>3 DEF Shape, Lasting

LEMMA ShapeOfQuiet ==
  ASSUME Shape, NEW r \in Runs, Domains', Times', Quietly(r)
  PROVE  Shape' /\ Kept /\ Lasting
  <1>1. Segments' /\ Kept
    BY SameSegments DEF Shape, Quietly
  <1>2. Opened(r)'
    BY DEF Shape, Opened, Quietly
  <1>3. \A i \in 1..Len(seg[r]) : Done(r, i) => Done(r, i)'
    BY DEF Done, Quietly
  <1> QED
    BY <1>1, <1>2, <1>3, ShapeOfOne DEF Quietly

LEMMA ShapeOfReplaced ==
  ASSUME Shape, NEW r \in Runs, Domains', Times', Aside(r), NEW t,
         Len(seg[r]) >= 1, Replaced(r, Len(seg[r]), t), file[r],
         file'[r] \in BOOLEAN,
         pc'[r] \in Writing => file'[r], file'[r] => pc'[r] \in Writing \cup {"close"},
         pc'[r] \in Closing => Whole(t)
  PROVE  Shape' /\ Kept /\ Lasting
  <1>1. Segments' /\ Kept /\ Len(seg'[r]) = Len(seg[r]) /\ seg'[r][Len(seg[r])] = t
        /\ \A j \in 1..Len(seg[r]) : j # Len(seg[r]) => seg'[r][j] = seg[r][j]
    BY DEF Replaced
  <1>2. Opened(r)'
    BY <1>1 DEF Opened
  <1>3. \A i \in 1..Len(seg[r]) : Done(r, i) => Done(r, i)'
    BY <1>1 DEF Done
  <1> QED
    BY <1>1, <1>2, <1>3, ShapeOfOne

\* Nothing is removed by this step.
Unremoved ==
  \A q \in Runs : \A i \in 1..Len(seg'[q]) :
    ~seg'[q][i].there => i \in 1..Len(seg[q]) /\ ~seg[q][i].there

LEMMA ShapeOfUnlink ==
  ASSUME Shape, NEW r \in Runs, Unlink(r), Oldest(r)[1] \in Runs,
         Oldest(r)[2] \in 1..Len(seg[Oldest(r)[1]])
  PROVE  /\ Shape' /\ Kept /\ Lasting
         /\ \A q \in Runs : Len(seg'[q]) = Len(seg[q])
         /\ \A q \in Runs : \A i \in 1..Len(seg[q]) :
              (q = Oldest(r)[1] /\ i = Oldest(r)[2]) \/ seg'[q][i] = seg[q][i]
  <1> DEFINE p == Oldest(r)[1]
             k == Oldest(r)[2]
             t == [seg[p][k] EXCEPT !.there = FALSE]
  <1>1. IsSegment(seg[p][k])
    BY DEF Shape, Segments
  <1>2. t.lines = seg[p][k].lines /\ t.flushed = seg[p][k].flushed /\ IsSegment(t)
    BY <1>1 DEF IsSegment
  <1>3. Extends(seg[p][k], t)
    BY <1>1, <1>2, ExtendsItself DEF Extends
  <1>4. seg' = [seg EXCEPT ![p] = [seg[p] EXCEPT ![k] = t]]
    BY DEF Unlink
  <1>5. /\ Domains' /\ Times' /\ file' = file /\ \A q \in Runs : q # r => pc'[q] = pc[q]
        /\ pc[r] = "unlink" /\ pc'[r] = "unmark"
    BY DEF Unlink, At, Goto, Works, pruneVars, recordVars, Shape, Domains, Times
  <1> HIDE DEF p, k, t
  <1>6. Replaced(p, k, t)
    BY <1>1, <1>2, <1>3, <1>4, ReplaceSegment DEF Shape, p, k
  <1>7. \A q \in Runs : \A i \in 1..Len(seg[q]) :
          Len(seg'[q]) = Len(seg[q]) /\ (Whole(seg'[q][i]) <=> Whole(seg[q][i]))
    BY <1>2, <1>6 DEF Replaced, Whole
  <1>8. \A q \in Runs : Opened(q)'
    BY <1>5, <1>7 DEF Shape, Opened, Writing, Closing, Segments, IsSequence
  <1>9. Lasting
    BY <1>5, <1>7 DEF Lasting, Done, Closing
  <1> QED
    BY <1>5, <1>6, <1>8, <1>9 DEF Replaced, Shape, p, k

LEMMA ShapeOfOpen ==
  ASSUME Shape, NEW r \in Runs, OpenSegment(r)
  PROVE  /\ Shape' /\ Kept /\ Lasting
         /\ seg' = [seg EXCEPT ![r] = Append(seg[r], NewSegment)]
         /\ Unremoved
  <1>1. IsSegment(NewSegment) /\ NewSegment.there /\ Whole(NewSegment)
    BY DEF IsSegment, NewSegment, IsSequence, Whole
  <1>2. seg' = [seg EXCEPT ![r] = Append(seg[r], NewSegment)]
    BY DEF OpenSegment
  <1>3. IsSequence(seg[r]) /\ Len(seg[r]) \in Nat /\ DOMAIN seg = Runs
    BY DEF Shape, Segments, IsSequence
  <1> DEFINE new == Append(seg[r], NewSegment)
  <1>4. /\ IsSequence(new) /\ Len(new) = Len(seg[r]) + 1 /\ new[Len(seg[r]) + 1] = NewSegment
        /\ \A i \in 1..Len(seg[r]) : new[i] = seg[r][i]
    BY <1>3, AppendOne
  <1>5. DOMAIN seg' = Runs /\ seg'[r] = new /\ \A q \in Runs : q # r => seg'[q] = seg[q]
    BY <1>2, <1>3
  <1> HIDE DEF new
  <1>6. /\ Domains' /\ Times' /\ Aside(r)
        /\ file'[r] = TRUE /\ pc'[r] \in {"write", "starting"}
        /\ pc[r] \in {"prune", "reopen"} /\ ~file[r]
    <2>1. pc[r] \in {"prune", "reopen"} /\ Opened(r)
      BY DEF OpenSegment, At, Shape
    <2>2. ~file[r]
      BY <2>1 DEF Opened, Writing
    <2>3. Domains' /\ Times'
      BY DEF OpenSegment, Goto, Works, pruneVars, recordVars, Shape, Domains, Times
    <2>4. file'[r] = TRUE /\ pc'[r] \in {"write", "starting"}
          /\ \A q \in Runs : q # r => pc'[q] = pc[q] /\ file'[q] = file[q]
      BY DEF OpenSegment, Goto, Shape, Domains
    <2> QED
      BY <1>5, <2>1, <2>2, <2>3, <2>4 DEF Aside
  <1>7. Segments'
    <2>1. \A q \in Runs : IsSequence(seg'[q])
      BY <1>4, <1>5 DEF Shape, Segments
    <2>2. \A i \in 1..Len(seg'[r]) : i \in 1..Len(seg[r]) \/ i = Len(seg[r]) + 1
      BY <1>3, <1>4, <1>5
    <2>3. \A i \in 1..Len(seg'[r]) : IsSegment(seg'[r][i])
      BY <1>1, <1>4, <1>5, <2>2 DEF Shape, Segments
    <2>4. \A q \in Runs : q # r => \A i \in 1..Len(seg'[q]) : IsSegment(seg'[q][i])
      BY <1>5 DEF Shape, Segments
    <2>5. \A q \in Runs : \A i \in 1..Len(seg'[q]) : IsSegment(seg'[q][i])
      BY <2>3, <2>4
    <2> QED
      BY <1>5, <2>1, <2>5 DEF Segments
  <1>8. Kept
    <2>1. \A q \in Runs : Len(seg[q]) <= Len(seg'[q])
          /\ \A i \in 1..Len(seg[q]) : seg'[q][i] = seg[q][i] /\ IsSegment(seg[q][i])
      BY <1>3, <1>4, <1>5 DEF Shape, Segments, IsSequence
    <2> QED
      BY <2>1, ExtendsItself DEF Kept
  <1>9. Opened(r)'
    <2>1. Len(seg'[r]) >= 1
      BY <1>3, <1>4, <1>5
    <2>2. pc'[r] \in Writing /\ pc'[r] \notin Closing /\ file'[r] /\ file'[r] \in BOOLEAN
      BY <1>6 DEF Writing, Closing
    <2> QED
      BY <2>1, <2>2 DEF Opened
  <1>10. \A i \in 1..Len(seg[r]) : Done(r, i) => Done(r, i)'
    BY <1>3, <1>4, <1>5 DEF Done
  <1>11. Unremoved
    BY <1>1, <1>3, <1>4, <1>5 DEF Unremoved
  <1> QED
    BY <1>2, <1>6, <1>7, <1>8, <1>9, <1>10, <1>11, ShapeOfOne

\* What becomes of the last segment when it is written, flushed or cut off.
LEMMA ShapeOfLast ==
  ASSUME Shape, NEW r \in Runs, Domains', Times', file[r], NEW t,
         IsSegment(t), Extends(seg[r][Len(seg[r])], t),
         t.there <=> seg[r][Len(seg[r])].there,
         seg' = [seg EXCEPT ![r] = [seg[r] EXCEPT ![Len(seg[r])] = t]],
         \A q \in Runs : q # r => pc'[q] = pc[q] /\ file'[q] = file[q],
         file'[r] \in BOOLEAN,
         pc'[r] \in Writing => file'[r], file'[r] => pc'[r] \in Writing \cup {"close"},
         pc'[r] \in Closing => Whole(t)
  PROVE  Shape' /\ Kept /\ Lasting /\ Unremoved /\ Len(seg'[r]) = Len(seg[r])
         /\ Len(seg[r]) >= 1 /\ seg'[r][Len(seg[r])] = t
  <1>1. /\ Len(seg[r]) >= 1 /\ Len(seg[r]) \in Nat /\ Len(seg[r]) \in 1..Len(seg[r])
        /\ Segments /\ DOMAIN seg = Runs
    BY DEF Shape, Opened, Segments, IsSequence
  <1>2. Replaced(r, Len(seg[r]), t)
    BY <1>1, ReplaceSegment
  <1>3. Aside(r)
    BY <1>1 DEF Aside
  <1>4. Unremoved
    BY <1>1, <1>2 DEF Replaced, Unremoved
  <1> QED
    BY <1>1, <1>2, <1>3, <1>4, ShapeOfReplaced DEF Replaced

LEMMA ShapeOfWrite ==
  ASSUME Shape, NEW r \in Runs, WriteLine(r)
  PROVE  /\ Shape' /\ Kept /\ Lasting /\ Unremoved
         /\ pc'[r] = "sync" =>
              LET s == seg'[r][Len(seg'[r])] IN
                Len(seg'[r]) >= 1 /\ Len(s.lines) >= 1 /\ s.lines[Len(s.lines)] = Head(todo[r])
  <1> DEFINE s == seg[r][Len(seg[r])]
  <1>1. Opened(r) /\ pc[r] = "write" /\ file[r] /\ file[r] \in BOOLEAN
    BY DEF WriteLine, At, Shape, Opened, Writing
  <1>2. IsSegment(s) /\ Extends(s, s)
    BY <1>1, ExtendsItself DEF Shape, Opened, Segments, IsSequence
  <1>3. Domains' /\ Times' /\ file' = file /\ (pc'[r] = "sync" \/ pc'[r] = "close")
        /\ \A q \in Runs : q # r => pc'[q] = pc[q]
    BY DEF WriteLine, Goto, Torn, Works, Breaks, pruneVars, recordVars, Shape, Domains, Times
  <1>4. CASE Write(r, Head(todo[r]))
    <2> DEFINE t == [s EXCEPT !.lines = Append(@, Head(todo[r]))]
    <2>1. seg' = [seg EXCEPT ![r] = [seg[r] EXCEPT ![Len(seg[r])] = t]]
      BY <1>4 DEF Write, Current
    <2>2. IsSequence(s.lines) /\ s.flushed \in 0..Len(s.lines) /\ Len(s.lines) \in Nat
      BY <1>2 DEF IsSegment, IsSequence
    <2>3. /\ DOMAIN t = DOMAIN s /\ t.lines = Append(s.lines, Head(todo[r]))
          /\ t.flushed = s.flushed /\ t.there = s.there
      BY <1>2 DEF IsSegment
    <2>4. /\ IsSequence(t.lines) /\ Len(t.lines) = Len(s.lines) + 1
          /\ t.lines[Len(s.lines) + 1] = Head(todo[r])
          /\ \A i \in 1..Len(s.lines) : t.lines[i] = s.lines[i]
      BY <2>2, <2>3, AppendOne
    <2> HIDE DEF t, s
    <2>5. IsSegment(t)
      BY <1>2, <2>2, <2>3, <2>4 DEF IsSegment
    <2>6. Extends(s, t)
      BY <2>2, <2>3, <2>4 DEF Extends
    <2>7. pc'[r] \notin Closing /\ pc'[r] \in Writing \cup {"close"}
      BY <1>3 DEF Closing, Writing
    <2>8. Shape' /\ Kept /\ Lasting /\ Unremoved /\ Len(seg'[r]) = Len(seg[r])
          /\ Len(seg[r]) >= 1 /\ seg'[r][Len(seg[r])] = t
      BY <1>1, <1>3, <2>1, <2>3, <2>5, <2>6, <2>7, ShapeOfLast DEF s
    <2> QED
      BY <2>2, <2>4, <2>8
  <1>5. CASE seg' = [seg EXCEPT ![r][Current(r)].torn = TRUE] /\ Torn(r)
    <2> DEFINE t == [s EXCEPT !.torn = TRUE]
    <2>1. seg' = [seg EXCEPT ![r] = [seg[r] EXCEPT ![Len(seg[r])] = t]]
      BY <1>5 DEF Current
    <2>2. /\ DOMAIN t = DOMAIN s /\ t.lines = s.lines
          /\ t.flushed = s.flushed /\ t.there = s.there
      BY <1>2 DEF IsSegment
    <2>3. pc'[r] = "close"
      BY <1>5 DEF Torn, Goto, Shape, Domains
    <2> HIDE DEF t, s
    <2>4. IsSegment(t) /\ Extends(s, t)
      BY <1>2, <2>2 DEF IsSegment, Extends
    <2>5. pc'[r] \notin Closing /\ pc'[r] \in Writing \cup {"close"}
      BY <1>3 DEF Closing, Writing
    <2>6. Shape' /\ Kept /\ Lasting /\ Unremoved
      BY <1>1, <1>3, <2>1, <2>2, <2>4, <2>5, ShapeOfLast DEF s
    <2> QED
      BY <2>3, <2>6
  <1> QED
    BY <1>4, <1>5 DEF WriteLine

\* The last segment is flushed, all of it.
LEMMA FlushedLast ==
  ASSUME Shape, NEW r \in Runs, file[r], NEW t,
         t = [seg[r][Len(seg[r])] EXCEPT !.flushed = Len(seg[r][Len(seg[r])].lines)]
  PROVE  LET s == seg[r][Len(seg[r])] IN
           /\ IsSegment(t) /\ Extends(s, t) /\ (t.there <=> s.there) /\ Whole(t)
           /\ t.lines = s.lines
  <1> DEFINE s == seg[r][Len(seg[r])]
  <1>1. IsSegment(s)
    BY DEF Shape, Opened, Segments, IsSequence
  <1>2. /\ DOMAIN t = DOMAIN s /\ t.lines = s.lines
        /\ t.flushed = Len(s.lines) /\ t.there = s.there
    BY <1>1 DEF IsSegment
  <1> HIDE DEF s
  <1>3. Len(s.lines) \in Nat /\ s.flushed \in 0..Len(s.lines) /\ IsSequence(s.lines)
    BY <1>1 DEF IsSegment, IsSequence
  <1>4. IsSegment(t) /\ Extends(s, t) /\ Whole(t)
    BY <1>1, <1>2, <1>3 DEF IsSegment, Extends, Whole
  <1> QED
    BY <1>2, <1>4 DEF s

LEMMA ShapeOfFlush ==
  ASSUME Shape, NEW r \in Runs, Flush(r)
  PROVE  /\ Shape' /\ Kept /\ Lasting /\ Unremoved
         /\ pc'[r] # "close" => LET s == seg[r][Len(seg[r])]
                                    t == seg'[r][Len(seg[r])]
                                IN  Len(seg'[r]) = Len(seg[r]) /\ Len(seg[r]) >= 1
                                    /\ t.lines = s.lines /\ Whole(t)
  <1> DEFINE s == seg[r][Len(seg[r])]
  <1>1. Opened(r) /\ pc[r] = "sync" /\ file[r] /\ file[r] \in BOOLEAN
    BY DEF Flush, At, Shape, Opened, Writing
  <1>2. Domains' /\ Times' /\ file' = file /\ pc'[r] \in {"status", "deliver", "close"}
        /\ \A q \in Runs : q # r => pc'[q] = pc[q]
    BY DEF Flush, Goto, Works, Breaks, pruneVars, recordVars, Shape, Domains, Times
  <1>3. pc'[r] \notin Closing /\ pc'[r] \in Writing \cup {"close"}
    BY <1>2 DEF Closing, Writing
  <1>4. CASE Sync(r)
    <2> DEFINE t == [s EXCEPT !.flushed = Len(s.lines)]
    <2>1. seg' = [seg EXCEPT ![r] = [seg[r] EXCEPT ![Len(seg[r])] = t]]
      BY <1>4 DEF Sync, Current
    <2>2. IsSegment(t) /\ Extends(s, t) /\ (t.there <=> s.there) /\ Whole(t) /\ t.lines = s.lines
      BY <1>1, FlushedLast
    <2> HIDE DEF t, s
    <2>3. Shape' /\ Kept /\ Lasting /\ Unremoved /\ Len(seg'[r]) = Len(seg[r])
          /\ Len(seg[r]) >= 1 /\ seg'[r][Len(seg[r])] = t
      BY <1>1, <1>2, <1>3, <2>1, <2>2, ShapeOfLast DEF s
    <2> QED
      BY <2>2, <2>3 DEF s
  <1>5. CASE UNCHANGED seg /\ Goto(r, "close")
    <2>1. Quietly(r)
      BY <1>1, <1>2, <1>3, <1>5 DEF Quietly, Aside
    <2>2. Shape' /\ Kept /\ Lasting
      BY <1>2, <2>1, ShapeOfQuiet
    <2>3. pc'[r] = "close" /\ Unremoved
      BY <1>5 DEF Goto, Shape, Domains, Unremoved
    <2> QED
      BY <2>2, <2>3
  <1> QED
    BY <1>4, <1>5 DEF Flush

LEMMA ShapeOfSeal ==
  ASSUME Shape, NEW r \in Runs, NEW from \in {"seal", "endseal"}, NEW marks \in Closing,
         NEW fails \in {"close", "over"}, Seal(r, from, marks, fails)
  PROVE  Shape' /\ Kept /\ Lasting /\ Unremoved
  <1> DEFINE s == seg[r][Len(seg[r])]
  <1>1. file[r] /\ file'[r] \in BOOLEAN /\ ~file'[r]
        /\ \A q \in Runs : q # r => pc'[q] = pc[q] /\ file'[q] = file[q]
    BY DEF Seal, Goto, Shape, Domains
  <1>2. Domains' /\ Times'
    BY DEF Seal, Goto, Works, Breaks, pruneVars, recordVars, Shape, Domains, Times
  <1>3. pc'[r] \notin Writing
    BY DEF Seal, Goto, Shape, Domains, Writing, Closing
  <1>4. CASE /\ seg' = [seg EXCEPT ![r][Current(r)].flushed = Len(seg[r][Current(r)].lines)]
             /\ Goto(r, marks)
    <2> DEFINE t == [s EXCEPT !.flushed = Len(s.lines)]
    <2>1. seg' = [seg EXCEPT ![r] = [seg[r] EXCEPT ![Len(seg[r])] = t]]
      BY <1>4 DEF Current
    <2>2. IsSegment(t) /\ Extends(s, t) /\ (t.there <=> s.there) /\ Whole(t)
      BY <1>1, FlushedLast
    <2> HIDE DEF t, s
    <2> QED
      BY <1>1, <1>2, <1>3, <2>1, <2>2, ShapeOfLast DEF s
  <1>5. CASE seg' = seg /\ Goto(r, fails)
    <2>1. pc'[r] \notin Closing
      BY <1>5 DEF Goto, Shape, Domains, Closing
    <2>2. Quietly(r)
      BY <1>1, <1>3, <1>5, <2>1 DEF Quietly, Aside
    <2>3. Unremoved
      BY <1>5 DEF Unremoved
    <2> QED
      BY <1>2, <2>2, <2>3, ShapeOfQuiet
  <1> QED
    BY <1>4, <1>5 DEF Seal

\* Of s only t is left: what was flushed, and perhaps more.
CutShort(s, t) ==
  /\ t.flushed = s.flushed /\ Len(t.lines) <= Len(s.lines)
  /\ \A j \in 1..Len(t.lines) : t.lines[j] = s.lines[j]
  /\ Whole(s) => Len(t.lines) = Len(s.lines)

LEMMA ShapeOfPowerCut ==
  ASSUME Shape, PowerCut
  PROVE  /\ Shape' /\ Kept /\ Lasting /\ Unremoved
         /\ \A r \in Runs : /\ Len(seg'[r]) = Len(seg[r])
                           /\ \A i \in 1..Len(seg[r]) : CutShort(seg[r][i], seg'[r][i])
  <1>1. PICK torn \in BOOLEAN, lost \in 0..1 :
          seg' = [r \in Runs |-> [i \in DOMAIN seg[r] |->
                   Survivor(seg[r][i],
                            IF Len(seg[r][i].lines) - lost >= seg[r][i].flushed
                            THEN Len(seg[r][i].lines) - lost ELSE seg[r][i].flushed, torn)]]
    BY DEF PowerCut
  <1> DEFINE keeps(s) == IF Len(s.lines) - lost >= s.flushed THEN Len(s.lines) - lost ELSE s.flushed
  <1>2. ASSUME NEW s, IsSegment(s)
        PROVE  LET t == Survivor(s, keeps(s), torn) IN
                 /\ IsSegment(t) /\ Extends(s, t) /\ (t.there <=> s.there)
                 /\ Whole(s) => Whole(t)
                 /\ CutShort(s, t)
    <2> DEFINE k == keeps(s)
               t == Survivor(s, k, torn)
    <2>1. IsSequence(s.lines) /\ Len(s.lines) \in Nat /\ s.flushed \in 0..Len(s.lines)
      BY <1>2 DEF IsSegment, IsSequence
    <2>2. k \in 0..Len(s.lines) /\ s.flushed <= k /\ (Whole(s) => k = Len(s.lines))
      BY <2>1 DEF Whole
    <2>3. /\ DOMAIN t = DOMAIN s /\ t.lines = SubSeq(s.lines, 1, k)
          /\ t.flushed = s.flushed /\ t.there = s.there
      BY <1>2 DEF Survivor, IsSegment
    <2> HIDE DEF k, t
    <2>4. IsSequence(t.lines) /\ Len(t.lines) = k /\ \A i \in 1..k : t.lines[i] = s.lines[i]
      BY <2>1, <2>2, <2>3, Prefix
    <2>5. IsSegment(t) /\ Extends(s, t)
      BY <1>2, <2>1, <2>2, <2>3, <2>4 DEF IsSegment, Extends
    <2>6. Whole(s) => Whole(t)
      BY <2>1, <2>2, <2>3, <2>4 DEF Whole
    <2>7. CutShort(s, t)
      BY <2>1, <2>2, <2>3, <2>4 DEF CutShort
    <2> QED
      BY <2>3, <2>5, <2>6, <2>7 DEF k, t
  <1> HIDE DEF keeps
  <1>3. \A r \in Runs : IsSequence(seg[r]) /\ Len(seg[r]) \in Nat /\ DOMAIN seg[r] = 1..Len(seg[r])
    BY SequenceDomain DEF Shape, Segments
  <1>4. DOMAIN seg' = Runs /\ \A r \in Runs : seg'[r] = [i \in 1..Len(seg[r]) |->
          Survivor(seg[r][i], keeps(seg[r][i]), torn)]
    BY <1>1, <1>3 DEF keeps
  <1>5. ASSUME NEW r \in Runs PROVE IsSequence(seg'[r]) /\ Len(seg'[r]) = Len(seg[r])
    <2> DEFINE S == {Survivor(seg[r][i], keeps(seg[r][i]), torn) : i \in 1..Len(seg[r])}
    <2>1. seg'[r] \in [1..Len(seg[r]) -> S] /\ Len(seg[r]) \in Nat
      BY <1>3, <1>4
    <2> HIDE DEF S
    <2>2. seg'[r] \in Seq(S)
      BY <2>1, SeqDef
    <2>3. DOMAIN seg'[r] = 1..Len(seg'[r]) /\ Len(seg'[r]) \in Nat /\ IsSequence(seg'[r])
      BY <2>2, LenProperties, InSequence
    <2>4. DOMAIN seg'[r] = 1..Len(seg[r])
      BY <2>1
    <2> QED
      BY <2>1, <2>3, <2>4
  <1>6. ASSUME NEW r \in Runs, NEW i \in 1..Len(seg[r])
        PROVE  /\ IsSegment(seg'[r][i]) /\ Extends(seg[r][i], seg'[r][i])
               /\ seg'[r][i].there <=> seg[r][i].there
               /\ Whole(seg[r][i]) => Whole(seg'[r][i])
               /\ CutShort(seg[r][i], seg'[r][i])
    <2>1. IsSegment(seg[r][i])
      BY DEF Shape, Segments
    <2>2. seg'[r][i] = Survivor(seg[r][i], keeps(seg[r][i]), torn)
      BY <1>4
    <2> QED
      BY <1>2, <2>1, <2>2
  <1>7. Segments'
    BY <1>4, <1>5, <1>6 DEF Segments
  <1>8. Kept
    BY <1>3, <1>5, <1>6 DEF Kept
  <1>9. Unremoved
    BY <1>5, <1>6 DEF Unremoved
  <1>10. Domains' /\ Times' /\ \A r \in Runs : file'[r] \in BOOLEAN /\ ~file'[r]
    BY DEF PowerCut, Breaks, pruneVars, recordVars, Shape, Domains, Times
  <1>11. \A r \in Runs : pc'[r] \notin Writing /\ pc'[r] \notin Closing
    <2> SUFFICES ASSUME NEW r \in Runs PROVE pc'[r] \notin Writing /\ pc'[r] \notin Closing
      OBVIOUS
    <2>1. pc'[r] = IF Live(r) THEN "dead" ELSE pc[r]
      BY DEF PowerCut
    <2> QED
      BY <2>1 DEF Live, Writing, Closing
  <1>12. \A r \in Runs : Opened(r)'
    BY <1>10, <1>11 DEF Opened
  <1>13. Lasting
    BY <1>5, <1>6, <1>10, <1>11 DEF Lasting, Done
  <1> QED
    BY <1>5, <1>6, <1>7, <1>8, <1>9, <1>10, <1>12, <1>13 DEF Shape

\* Every other step of a run leaves the segments alone.
LEMMA QuietSteps ==
  ASSUME Shape, NEW r \in Runs,
         \/ Begin(r) \/ Keep(r) \/ Condemn(r) \/ Unmark(r) \/ PruneFails(r)
         \/ OpenSegmentFails(r) \/ Starting(r) \/ Mark(r, "mark", "reopen", "close")
         \/ Mark(r, "endmark", "over", "over") \/ NewTick(r) \/ Append1(r)
         \/ Advertise(r) \/ AdvertiseFails(r) \/ Deliver(r) \/ Stop(r) \/ CloseRecorder(r)
         \/ Kill(r)
  PROVE  Quietly(r) /\ Domains' /\ Times' /\ Unremoved
  <1> USE DEF At, Goto, Works, Breaks, pruneVars, recordVars, Domains, Times, Quietly, Aside,
          Writing, Closing, Unremoved
  <1>0. Domains /\ Times /\ Opened(r)
    BY DEF Shape
  <1>1. CASE Begin(r)
    BY <1>0, <1>1 DEF Begin, Opened
  <1>2. CASE Keep(r)
    BY <1>0, <1>2 DEF Keep, Opened
  <1>3. CASE Condemn(r)
    BY <1>0, <1>3 DEF Condemn, Opened
  <1>4. CASE Unmark(r)
    BY <1>0, <1>4 DEF Unmark, Opened
  <1>5. CASE PruneFails(r)
    BY <1>0, <1>5 DEF PruneFails, Opened
  <1>6. CASE OpenSegmentFails(r)
    BY <1>0, <1>6 DEF OpenSegmentFails, Opened
  <1>7. CASE Starting(r)
    BY <1>0, <1>7 DEF Starting, Status, Opened
  <1>8. CASE Mark(r, "mark", "reopen", "close")
    BY <1>0, <1>8 DEF Mark, Opened
  <1>9. CASE Mark(r, "endmark", "over", "over")
    BY <1>0, <1>9 DEF Mark, Opened
  <1>10. CASE NewTick(r)
    BY <1>0, <1>10 DEF NewTick, Opened
  <1>11. CASE Append1(r)
    BY <1>0, <1>11 DEF Append1, Opened
  <1>12. CASE Advertise(r)
    <2>1. PICK rest : Next1(r, rest)
      BY <1>12 DEF Advertise
    <2>2. /\ seg' = seg /\ file' = file /\ pc[r] = "status" /\ UNCHANGED <<started, glob, clock, tick>>
          /\ DOMAIN engine' = Runs /\ DOMAIN last' = Runs /\ DOMAIN health' = Runs
      BY <1>0, <1>12 DEF Advertise, Status
    <2>3. /\ DOMAIN todo' = Runs /\ DOMAIN pc' = Runs /\ pc'[r] \in {"ready", "append"}
          /\ \A q \in Runs : q # r => pc'[q] = pc[q]
      BY <1>0, <2>1 DEF Next1
    <2> QED
      BY <1>0, <2>2, <2>3 DEF Opened
  <1>13. CASE AdvertiseFails(r)
    BY <1>0, <1>13 DEF AdvertiseFails, Opened
  <1>14. CASE Deliver(r)
    BY <1>0, <1>14 DEF Deliver, Next1, Opened
  <1>15. CASE Stop(r)
    BY <1>0, <1>15 DEF Stop, Opened
  <1>16. CASE CloseRecorder(r)
    BY <1>0, <1>16 DEF CloseRecorder, Status, Opened
  <1>17. CASE Kill(r)
    BY <1>0, <1>17 DEF Kill, Opened
  <1> QED
    BY <1>1, <1>2, <1>3, <1>4, <1>5, <1>6, <1>7, <1>8, <1>9, <1>10, <1>11, <1>12, <1>13, <1>14, <1>15, <1>16, <1>17

-----------------------------------------------------------------------------
(* Markers, and what is pruned *)

\* A marker of a segment that nobody will touch again.
Names(m) == /\ m = <<m[1], m[2]>> /\ m[1] \in Runs /\ m[2] \in 1..Len(seg[m[1]])
            /\ Done(m[1], m[2])
Old(m)   == m \in DOMAIN marker => marker[m] + Days < clock

Marked == \A m \in DOMAIN marker : Names(m) /\ marker[m] \in Nat
Gone   == \A q \in Runs : \A i \in 1..Len(seg[q]) :
            ~seg[q][i].there => Done(q, i) /\ Old(<<q, i>>)

\* What was read of the marker before the segment is removed still holds.
Prunes(r)    == pc[r] \in {"unlink", "unmark"}
Condemned(r) == \A m : Prunes(r) /\ m = Oldest(r) => Names(m) /\ Old(m)

SealInv == Shape /\ Marked /\ Gone /\ \A r \in Runs : Condemned(r)

\* Who prunes after this step does so for a reason that held before it.
Aims(p) == \A m : Prunes(p)' /\ m = Oldest(p)' => Names(m) /\ Old(m)

Excused ==
  \A q \in Runs : \A i \in 1..Len(seg'[q]) :
    ~seg'[q][i].there => i \in 1..Len(seg[q]) /\ Done(q, i) /\ Old(<<q, i>>)

NoNewMarker ==
  DOMAIN marker' \subseteq DOMAIN marker /\ \A m \in DOMAIN marker' : marker'[m] = marker[m]

LEMMA NamesLast ==
  ASSUME Shape, Kept, Lasting, NEW m, Names(m)
  PROVE  Names(m)'
  <1>1. Len(seg[m[1]]) <= Len(seg'[m[1]]) /\ Len(seg[m[1]]) \in Nat
    BY DEF Names, Kept, Shape, Segments, IsSequence
  <1>2. Done(m[1], m[2])'
    BY DEF Names, Lasting
  <1> QED
    BY <1>1, <1>2 DEF Names

LEMMA MarkersStay ==
  ASSUME SealInv, Shape', Kept, Lasting, Excused, NoNewMarker,
         clock' = clock \/ clock' = clock + 1, \A p \in Runs : Aims(p)
  PROVE  SealInv'
  <1> USE DEF SealInv
  <1>1. \A m \in DOMAIN marker' : Names(m)' /\ marker'[m] \in Nat
    BY NamesLast DEF Marked, NoNewMarker
  <1>2. ASSUME NEW m, Old(m) PROVE Old(m)'
    <2> SUFFICES ASSUME m \in DOMAIN marker' PROVE marker'[m] + Days < clock'
      BY DEF Old
    <2>1. m \in DOMAIN marker /\ marker'[m] = marker[m]
      BY DEF NoNewMarker
    <2> QED
      BY <1>2, <2>1, HistoryAssumption DEF Old, Marked, Shape, Times
  <1>3. Gone'
    <2> SUFFICES ASSUME NEW q \in Runs, NEW i \in 1..Len(seg'[q]), ~seg'[q][i].there
                 PROVE  Done(q, i)' /\ Old(<<q, i>>)'
      BY DEF Gone
    <2>1. i \in 1..Len(seg[q]) /\ Done(q, i) /\ Old(<<q, i>>)
      BY DEF Excused
    <2> QED
      BY <1>2, <2>1 DEF Lasting
  <1>4. ASSUME NEW p \in Runs, NEW m, Prunes(p)', m = Oldest(p)'
        PROVE  Names(m)' /\ Old(m)'
    <2>1. Names(m) /\ Old(m)
      BY <1>4 DEF Aims
    <2> QED
      BY <1>2, <2>1, NamesLast
  <1> QED
    BY <1>1, <1>3, <1>4 DEF Marked, Condemned

LEMMA RemovedBefore ==
  ASSUME SealInv, Unremoved
  PROVE  Excused
  BY DEF SealInv, Gone, Unremoved, Excused

\* A run that does not prune, or prunes on.
LEMMA AimStays ==
  ASSUME SealInv, NEW p \in Runs,
         ~Prunes(p)' \/ (Prunes(p) /\ glob'[p] = glob[p])
  PROVE  Aims(p)
  <1>1. glob'[p] = glob[p] => Oldest(p)' = Oldest(p)
    BY DEF Oldest
  <1> QED
    BY <1>1 DEF Aims, SealInv, Condemned

LEMMA SealedOfQuiet ==
  ASSUME SealInv, NEW r \in Runs, Shape', Kept, Lasting, Unremoved, NoNewMarker, clock' = clock,
         pc'[r] \notin {"unlink", "unmark"},
         \A p \in Runs : p # r => pc'[p] = pc[p] /\ glob'[p] = glob[p]
  PROVE  SealInv'
  <1>1. \A p \in Runs : ~Prunes(p)' \/ (Prunes(p) /\ glob'[p] = glob[p])
    BY DEF Prunes
  <1> QED
    BY <1>1, MarkersStay, RemovedBefore, AimStays

LEMMA SealedOfMark ==
  ASSUME SealInv, NEW r \in Runs, NEW from \in Closing, NEW next \in {"reopen", "over"},
         NEW fails \in {"close", "over"}, Mark(r, from, next, fails),
         Shape', Kept, Lasting, Unremoved
  PROVE  SealInv'
  <1> USE DEF SealInv
  <1> DEFINE n == Len(seg[r])
  <1>1. /\ seg' = seg /\ file' = file /\ clock' = clock /\ glob' = glob /\ pc[r] \in Closing
        /\ pc'[r] \notin Closing /\ pc'[r] \notin {"unlink", "unmark"}
        /\ \A p \in Runs : p # r => pc'[p] = pc[p]
    BY DEF Mark, At, Goto, Closing, pruneVars, recordVars, Shape, Domains
  <1>2. CASE marker' = marker
    BY <1>1, <1>2, SealedOfQuiet DEF NoNewMarker
  <1>3. CASE marker' = [m \in DOMAIN marker \cup {<<r, n>>} |->
                         IF m = <<r, n>> THEN clock ELSE marker[m]]
    <2>1. /\ DOMAIN marker' = DOMAIN marker \cup {<<r, n>>} /\ marker'[<<r, n>>] = clock
          /\ \A m \in DOMAIN marker : m # <<r, n>> => marker'[m] = marker[m]
      BY <1>3
    <2>2. n \in 1..n /\ Whole(seg[r][n]) /\ ~file[r] /\ clock \in Nat
      BY <1>1 DEF Shape, Opened, Segments, IsSequence, Closing, Writing, Times
    <2>3. ~Done(r, n) /\ Done(r, n)'
      BY <1>1, <2>2 DEF Done
    <2>4. ASSUME NEW m, m = <<r, n>> PROVE Names(m)'
      BY <1>1, <2>2, <2>3, <2>4 DEF Names
    <2>5. ASSUME NEW m, Names(m) PROVE m # <<r, n>> /\ Names(m)'
      BY <2>3, <2>5, NamesLast DEF Names
    <2>6. ASSUME NEW m, Names(m), Old(m) PROVE Old(m)'
      BY <1>1, <2>1, <2>5, <2>6 DEF Old
    <2>7. Marked'
      <3> SUFFICES ASSUME NEW m \in DOMAIN marker' PROVE Names(m)' /\ marker'[m] \in Nat
        BY DEF Marked
      <3>1. CASE m = <<r, n>>
        BY <2>1, <2>2, <2>4, <3>1
      <3>2. CASE m # <<r, n>>
        BY <2>1, <2>5, <3>2 DEF Marked
      <3> QED
        BY <3>1, <3>2
    <2>8. Gone'
      <3> SUFFICES ASSUME NEW q \in Runs, NEW i \in 1..Len(seg[q]), ~seg[q][i].there
                   PROVE  Done(q, i)' /\ Old(<<q, i>>)'
        BY <1>1 DEF Gone
      <3>1. Done(q, i) /\ Old(<<q, i>>)
        BY DEF Gone
      <3>2. Names(<<q, i>>)
        BY <3>1 DEF Names
      <3> QED
        BY <2>6, <3>1, <3>2 DEF Lasting
    <2>9. ASSUME NEW p \in Runs, NEW m, Prunes(p)', m = Oldest(p)'
          PROVE  Names(m)' /\ Old(m)'
      <3>1. Prunes(p) /\ m = Oldest(p)
        BY <1>1, <2>9 DEF Prunes, Oldest
      <3>2. Names(m) /\ Old(m)
        BY <3>1 DEF Condemned
      <3> QED
        BY <2>5, <2>6, <3>2
    <2> QED
      BY <2>7, <2>8, <2>9 DEF Condemned
  <1> QED
    BY <1>2, <1>3 DEF Mark, Current

LEMMA SealedOfPruning ==
  ASSUME SealInv, NEW r \in Runs, Condemn(r) \/ Unlink(r) \/ Unmark(r)
  PROVE  SealInv'
  <1>1. CASE Condemn(r)
    <2>1. /\ Oldest(r) \in DOMAIN marker /\ marker[Oldest(r)] < started[r] - Days
          /\ glob' = glob /\ marker' = marker /\ clock' = clock
          /\ \A p \in Runs : p # r => pc'[p] = pc[p]
      BY <1>1 DEF Condemn, Expired, Goto, pruneVars
    <2>2. Old(Oldest(r)) /\ Names(Oldest(r))
      <3>1. Oldest(r) \in DOMAIN marker => marker[Oldest(r)] \in Nat /\ Names(Oldest(r))
        BY DEF SealInv, Marked
      <3>2. started[r] \in Nat /\ started[r] <= clock /\ clock \in Nat
        BY DEF SealInv, Shape, Times
      <3> QED
        BY <2>1, <3>1, <3>2, HistoryAssumption DEF Old
    <2>3. Aims(r)
      <3>1. Oldest(r)' = Oldest(r)
        BY <2>1 DEF Oldest
      <3> QED
        BY <2>2, <3>1 DEF Aims
    <2>4. \A p \in Runs : p # r => Aims(p)
      BY <2>1, AimStays DEF Prunes
    <2>5. Shape' /\ Kept /\ Lasting /\ Excused /\ NoNewMarker
      BY <1>1, <2>1, QuietSteps, ShapeOfQuiet, RemovedBefore DEF SealInv, NoNewMarker
    <2>6. \A p \in Runs : Aims(p)
      BY <2>3, <2>4
    <2> QED
      BY <2>1, <2>5, <2>6, MarkersStay
  <1>2. CASE Unlink(r)
    <2>1. pc[r] = "unlink" /\ glob' = glob /\ marker' = marker /\ clock' = clock
          /\ \A p \in Runs : p # r => pc'[p] = pc[p]
      BY <1>2 DEF Unlink, At, Goto, pruneVars
    <2>2. Names(Oldest(r)) /\ Old(Oldest(r))
      BY <2>1 DEF SealInv, Condemned, Prunes
    <2> DEFINE p == Oldest(r)[1]
               k == Oldest(r)[2]
    <2>3. p \in Runs /\ k \in 1..Len(seg[p]) /\ Done(p, k) /\ Old(<<p, k>>)
      BY <2>2 DEF Names
    <2>4. /\ Shape' /\ Kept /\ Lasting
          /\ \A q \in Runs : Len(seg'[q]) = Len(seg[q])
          /\ \A q \in Runs : \A i \in 1..Len(seg[q]) : (q = p /\ i = k) \/ seg'[q][i] = seg[q][i]
      BY <1>2, <2>3, ShapeOfUnlink DEF SealInv
    <2> HIDE DEF p, k
    <2>5. Excused
      BY <2>3, <2>4 DEF SealInv, Gone, Excused
    <2>6. \A q \in Runs : Aims(q)
      BY <2>1, AimStays DEF Prunes
    <2> QED
      BY <2>1, <2>4, <2>5, <2>6, MarkersStay DEF NoNewMarker
  <1>3. CASE Unmark(r)
    <2>1. /\ clock' = clock /\ pc'[r] = "prune"
          /\ marker' = [m \in DOMAIN marker \ {Oldest(r)} |-> marker[m]]
          /\ \A p \in Runs : p # r => pc'[p] = pc[p] /\ glob'[p] = glob[p]
      BY <1>3 DEF Unmark, Goto, SealInv, Shape, Domains
    <2>2. Shape' /\ Kept /\ Lasting /\ Unremoved
      BY <1>3, QuietSteps, ShapeOfQuiet DEF SealInv
    <2>3. NoNewMarker
      BY <2>1 DEF NoNewMarker
    <2> QED
      BY <2>1, <2>2, <2>3, SealedOfQuiet
  <1> QED
    BY <1>1, <1>2, <1>3

LEMMA InitShape == Init => Shape /\ Marked /\ Gone /\ \A r \in Runs : Condemned(r)
  <1> SUFFICES ASSUME Init PROVE Shape /\ Marked /\ Gone /\ \A r \in Runs : Condemned(r)
    OBVIOUS
  <1>1. IsSequence(<<>>) /\ Len(<<>>) = 0 /\ IsSequence(<<Sealed>>) /\ Len(<<Sealed>>) = 1
        /\ <<Sealed>>[1] = Sealed
    BY DEF IsSequence
  <1>2. IsSegment(Sealed) /\ Whole(Sealed) /\ Sealed.there
    <2> DEFINE record == TickRecord(1, CHOOSE s \in DOMAIN Samples : TRUE)
    <2>1. /\ DOMAIN Sealed = {"lines", "flushed", "torn", "there"} /\ Sealed.there
          /\ Sealed.lines = <<record>> /\ Sealed.flushed = 1
      BY DEF Sealed, NewSegment
    <2> HIDE DEF record
    <2>2. Len(<<record>>) = 1 /\ IsSequence(<<record>>)
      BY DEF IsSequence
    <2> QED
      BY <2>1, <2>2 DEF IsSegment, Whole
  <1>3. DOMAIN seg = Runs /\ \A r \in Runs :
          seg[r] = IF r \in Left THEN <<Sealed>> ELSE <<>>
    BY DEF Init
  <1>12. ASSUME NEW r \in Runs, NEW i \in 1..Len(seg[r])
         PROVE  r \in Left /\ i = 1 /\ seg[r][i] = Sealed
    <2>1. CASE r \in Left
      <3>1. seg[r] = <<Sealed>>
        BY <1>3, <2>1
      <3>2. i \in 1..1
        BY <1>1, <3>1
      <3> QED
        BY <1>1, <2>1, <3>1, <3>2
    <2>2. CASE r \notin Left
      <3>1. seg[r] = <<>>
        BY <1>3, <2>2
      <3>2. i \in 1..0
        BY <1>1, <3>1
      <3> QED
        BY <3>2
    <2> QED
      BY <2>1, <2>2
  <1>4. Segments
    <2>1. \A r \in Runs : IsSequence(seg[r])
      BY <1>1, <1>3
    <2> QED
      BY <1>2, <1>3, <1>12, <2>1 DEF Segments
  <1>5. \A r \in Runs : /\ pc[r] \in {"new", "over"} /\ file[r] \in BOOLEAN /\ ~file[r]
                        /\ started[r] = 0 /\ clock = Days + 1
    BY DEF Init
  <1>6. \A r \in Runs : Opened(r) /\ Condemned(r)
    BY <1>5 DEF Opened, Writing, Closing, Condemned, Prunes
  <1>7. Domains /\ clock = Days + 1
    BY DEF Init, Domains
  <1>8. Shape
    BY <1>4, <1>5, <1>6, <1>7, HistoryAssumption DEF Shape, Times
  <1>9. ASSUME NEW q \in Runs, NEW i \in 1..Len(seg[q])
        PROVE  q \in Left /\ i = 1 /\ seg[q][i].there /\ Done(q, i)
    BY <1>2, <1>12, <1>5 DEF Done, Closing
  <1>10. Gone
    BY <1>9 DEF Gone
  <1>11. Marked
    <2> SUFFICES ASSUME NEW m \in DOMAIN marker PROVE Names(m) /\ marker[m] \in Nat
      BY DEF Marked
    <2>1. m \in Left \X {1} /\ marker[m] = 0
      BY DEF Init
    <2>2. m = <<m[1], m[2]>> /\ m[1] \in Left /\ m[2] = 1
      BY <2>1
    <2>3. m[1] \in Runs
      BY <2>2, HistoryAssumption
    <2>4. m[2] \in 1..Len(seg[m[1]])
      <3>1. seg[m[1]] = <<Sealed>>
        BY <1>3, <2>2, <2>3
      <3> QED
        BY <1>1, <2>2, <3>1
    <2> QED
      BY <1>9, <2>1, <2>2, <2>3, <2>4 DEF Names
  <1> QED
    BY <1>6, <1>8, <1>10, <1>11

\* Steps of a run that touch no marker and do not begin to prune.
LEMMA SealedByQuiet ==
  ASSUME SealInv, NEW r \in Runs,
         Begin(r) \/ Keep(r) \/ PruneFails(r) \/ OpenSegmentFails(r) \/ Starting(r) \/ NewTick(r) \/
         Append1(r) \/ AdvertiseFails(r) \/ Deliver(r) \/ Stop(r) \/ CloseRecorder(r) \/ Kill(r)
  PROVE  /\ marker' = marker /\ clock' = clock /\ pc'[r] \notin {"unlink", "unmark"}
         /\ \A p \in Runs : p # r => pc'[p] = pc[p] /\ glob'[p] = glob[p]
  <1> USE DEF At, Goto, pruneVars, recordVars, Prunes
  <1>0. DOMAIN pc = Runs /\ DOMAIN glob = Runs
    BY DEF SealInv, Shape, Domains
  <1>1. CASE Begin(r)
    BY <1>0, <1>1 DEF Begin
  <1>2. CASE Keep(r)
    BY <1>0, <1>2 DEF Keep
  <1>3. CASE PruneFails(r)
    BY <1>0, <1>3 DEF PruneFails
  <1>4. CASE OpenSegmentFails(r)
    BY <1>0, <1>4 DEF OpenSegmentFails
  <1>5. CASE Starting(r)
    BY <1>0, <1>5 DEF Starting, Status
  <1>6. CASE NewTick(r)
    BY <1>0, <1>6 DEF NewTick
  <1>7. CASE Append1(r)
    BY <1>0, <1>7 DEF Append1
  <1>8. CASE AdvertiseFails(r)
    BY <1>0, <1>8 DEF AdvertiseFails
  <1>9. CASE Deliver(r)
    BY <1>0, <1>9 DEF Deliver, Next1
  <1>10. CASE Stop(r)
    BY <1>0, <1>10 DEF Stop
  <1>11. CASE CloseRecorder(r)
    BY <1>0, <1>11 DEF CloseRecorder, Status
  <1>12. CASE Kill(r)
    BY <1>0, <1>12 DEF Kill
  <1> QED
    BY <1>1, <1>2, <1>3, <1>4, <1>5, <1>6, <1>7, <1>8, <1>9, <1>10, <1>11, <1>12

LEMMA SealedByAdvertise ==
  ASSUME SealInv, NEW r \in Runs, Advertise(r)
  PROVE  /\ marker' = marker /\ clock' = clock /\ pc'[r] \notin {"unlink", "unmark"}
         /\ \A p \in Runs : p # r => pc'[p] = pc[p] /\ glob'[p] = glob[p]
  <1>1. PICK rest : Next1(r, rest)
    BY DEF Advertise
  <1>2. marker' = marker /\ clock' = clock /\ glob' = glob
    BY DEF Advertise, pruneVars
  <1> QED
    BY <1>1, <1>2 DEF Next1, Goto, SealInv, Shape, Domains

LEMMA SealedBySegments ==
  ASSUME SealInv, NEW r \in Runs,
         OpenSegment(r) \/ WriteLine(r) \/ Flush(r) \/ Seal(r, "seal", "mark", "close")
           \/ Seal(r, "endseal", "endmark", "over")
  PROVE  /\ marker' = marker /\ clock' = clock /\ pc'[r] \notin {"unlink", "unmark"}
         /\ \A p \in Runs : p # r => pc'[p] = pc[p] /\ glob'[p] = glob[p]
         /\ Shape' /\ Kept /\ Lasting /\ Unremoved
  <1>0. DOMAIN pc = Runs /\ Shape
    BY DEF SealInv, Shape, Domains
  <1>1. CASE OpenSegment(r)
    BY <1>0, <1>1, ShapeOfOpen DEF OpenSegment, Goto, pruneVars
  <1>2. CASE WriteLine(r)
    BY <1>0, <1>2, ShapeOfWrite DEF WriteLine, Goto, Torn, pruneVars
  <1>3. CASE Flush(r)
    BY <1>0, <1>3, ShapeOfFlush DEF Flush, Goto, pruneVars
  <1>4. CASE Seal(r, "seal", "mark", "close")
    BY <1>0, <1>4, ShapeOfSeal DEF Seal, Goto, pruneVars, Closing
  <1>5. CASE Seal(r, "endseal", "endmark", "over")
    BY <1>0, <1>5, ShapeOfSeal DEF Seal, Goto, pruneVars, Closing
  <1> QED
    BY <1>1, <1>2, <1>3, <1>4, <1>5

LEMMA SealedByWorld ==
  ASSUME SealInv, PowerCut \/ DayPasses \/ UNCHANGED vars
  PROVE  SealInv' /\ Kept
  <1>1. Shape' /\ Kept /\ Lasting /\ Unremoved
    <2>1. CASE PowerCut
      BY <2>1, ShapeOfPowerCut DEF SealInv
    <2>2. CASE DayPasses \/ UNCHANGED vars
      <3>1. UNCHANGED <<pc, pruneVars, seg, file, recordVars, health>>
            /\ (clock' = clock \/ clock' = clock + 1)
        BY <2>2 DEF DayPasses, vars
      <3>2. Segments' /\ Kept
        BY <3>1, SameSegments DEF SealInv, Shape
      <3>3. Domains' /\ Times' /\ \A r \in Runs : Opened(r)'
        BY <3>1 DEF SealInv, Shape, Domains, Times, Opened, pruneVars, recordVars
      <3>4. Lasting /\ Unremoved
        BY <3>1 DEF Lasting, Done, Unremoved
      <3> QED
        BY <3>2, <3>3, <3>4 DEF Shape
    <2> QED
      BY <2>1, <2>2
  <1>2. /\ marker' = marker /\ glob' = glob /\ (clock' = clock \/ clock' = clock + 1)
        /\ \A p \in Runs : pc'[p] = "dead" \/ pc'[p] = pc[p]
    <2>1. CASE PowerCut
      BY <2>1 DEF PowerCut, pruneVars
    <2>2. CASE DayPasses \/ UNCHANGED vars
      BY <2>2 DEF DayPasses, vars, pruneVars
    <2> QED
      BY <2>1, <2>2
  <1>3. \A p \in Runs : Aims(p)
    BY <1>2, AimStays DEF Prunes
  <1> QED
    BY <1>1, <1>2, <1>3, MarkersStay, RemovedBefore DEF NoNewMarker

\* The invariant of markers and segments, step by step; every step keeps what is
\* flushed.
LEMMA SealedStep ==
  ASSUME SealInv, [Next]_vars
  PROVE  SealInv' /\ Kept
  <1>1. ASSUME NEW r \in Runs,
               Begin(r) \/ Keep(r) \/ PruneFails(r) \/ OpenSegmentFails(r) \/ Starting(r) \/ NewTick(r) \/
         Append1(r) \/ AdvertiseFails(r) \/ Deliver(r) \/ Stop(r) \/ CloseRecorder(r) \/ Kill(r) \/ Advertise(r)
        PROVE  SealInv' /\ Kept
    <2>1. Shape' /\ Kept /\ Lasting /\ Unremoved
      BY <1>1, QuietSteps, ShapeOfQuiet DEF SealInv
    <2> QED
      BY <1>1, <2>1, SealedByQuiet, SealedByAdvertise, SealedOfQuiet DEF NoNewMarker
  <1>2. ASSUME NEW r \in Runs,
               OpenSegment(r) \/ WriteLine(r) \/ Flush(r) \/ Seal(r, "seal", "mark", "close")
                 \/ Seal(r, "endseal", "endmark", "over")
        PROVE  SealInv' /\ Kept
    BY <1>2, SealedBySegments, SealedOfQuiet DEF NoNewMarker
  <1>3. ASSUME NEW r \in Runs, Condemn(r) \/ Unmark(r) PROVE SealInv' /\ Kept
    BY <1>3, SealedOfPruning, QuietSteps, ShapeOfQuiet DEF SealInv
  <1>4. ASSUME NEW r \in Runs, Unlink(r) PROVE SealInv' /\ Kept
    <2>1. Names(Oldest(r))
      BY <1>4 DEF SealInv, Condemned, Prunes, Unlink, At
    <2> QED
      BY <1>4, <2>1, SealedOfPruning, ShapeOfUnlink DEF SealInv, Names
  <1>5. ASSUME NEW r \in Runs, Mark(r, "mark", "reopen", "close") \/ Mark(r, "endmark", "over", "over")
        PROVE SealInv' /\ Kept
    <2>1. Shape' /\ Kept /\ Lasting /\ Unremoved
      BY <1>5, QuietSteps, ShapeOfQuiet DEF SealInv
    <2> QED
      BY <1>5, <2>1, SealedOfMark DEF Closing
  <1> QED
    BY <1>1, <1>2, <1>3, <1>4, <1>5, SealedByWorld DEF Next, RunStep, Rest

\* The inductive invariant of markers, segments and what a pruning run has decided
\* (sealSegment, PruneHistory).
THEOREM SealInvariant == Spec => []SealInv
  <1>1. Init => SealInv
    BY InitShape DEF SealInv
  <1>2. SealInv /\ [Next]_vars => SealInv'
    BY SealedStep
  <1> QED
    BY <1>1, <1>2, PTL DEF Spec

\* For any number of runs that record and prune in one directory: only what was
\* sealed, and is older than is kept, is removed (PruneHistory).
THEOREM PruningSparesTheOpen == Spec => []OnlySealedIsPruned
  <1>1. ASSUME SealInv PROVE OnlySealedIsPruned
    <2> SUFFICES ASSUME NEW r \in Runs, NEW i \in DOMAIN seg[r]
                 PROVE  LET s == seg[r][i] IN
      /\ <<r, i>> \in DOMAIN marker =>
           s.flushed = Len(s.lines) /\ ~(file[r] /\ i = Len(seg[r]))
      /\ ~s.there => s.flushed = Len(s.lines) /\ ~(file[r] /\ i = Len(seg[r]))
      /\ ~s.there /\ <<r, i>> \in DOMAIN marker => marker[<<r, i>>] + Days < clock
      BY DEF OnlySealedIsPruned, Places
    <2>1. i \in 1..Len(seg[r])
      BY <1>1, SequenceDomain DEF SealInv, Shape, Segments
    <2>2. <<r, i>> \in DOMAIN marker => Done(r, i)
      BY <1>1 DEF SealInv, Marked, Names
    <2>3. ~seg[r][i].there => Done(r, i) /\ Old(<<r, i>>)
      BY <1>1, <2>1 DEF SealInv, Gone
    <2> QED
      BY <2>2, <2>3 DEF Done, Whole, Old
  <1> QED
    BY <1>1, SealInvariant, PTL

-----------------------------------------------------------------------------
(* What a sample raises is finite *)

IsEngine(e) ==
  DOMAIN e = {"neighbors", "baseline", "nextHops", "counters", "states"} /\ IsFiniteSet(e.neighbors)

LEMMA PairsAreFinite ==
  ASSUME NEW S, IsFiniteSet(S), NEW rule
  PROVE  IsFiniteSet({<<rule, x>> : x \in S})
  <1> DEFINE T == {<<rule, x>> : x \in S}
             f == [x \in S |-> <<rule, x>>]
  <1>1. f \in Surjection(S, T)
    BY DEF Surjection
  <1> QED
    BY <1>1, FS_Surjection

LEMMA RecordsAreFinite ==
  ASSUME NEW S, IsFiniteSet(S), NEW n, NEW state
  PROVE  IsFiniteSet({AlertRecord(n, state, k) : k \in S})
  <1> DEFINE T == {AlertRecord(n, state, k) : k \in S}
             f == [k \in S |-> AlertRecord(n, state, k)]
  <1>1. f \in Surjection(S, T)
    BY DEF Surjection
  <1> QED
    BY <1>1, FS_Surjection

LEMMA ToldIsFinite ==
  ASSUME NEW e, IsEngine(e), NEW s, IsSample(s)
  PROVE  IsFiniteSet(Told(e, s))
  <1> DEFINE peers == IF s.bgp THEN e.neighbors \cup s.up ELSE {}
             A == {<<"bgp-neighbor-lost", p>> : p \in peers}
             B == Keyed("route-count-drop", s.routes) \cup Keyed("traffic-shift", s.rates)
             C == Keyed("next-hop-change", s.hops)
             D == Keyed("interface-errors", s.errors)
  <1>1. IsFiniteSet(peers)
    BY FS_Union, FS_EmptySet DEF IsEngine, IsSample
  <1> HIDE DEF peers
  <1>2. IsFiniteSet(A)
    BY <1>1, PairsAreFinite
  <1>3. IsFiniteSet(B)
    <2>1. IsFiniteSet(Keyed("route-count-drop", s.routes))
          /\ IsFiniteSet(Keyed("traffic-shift", s.rates))
      BY PairsAreFinite DEF Keyed, IsSample
    <2> QED
      BY <2>1, FS_Union
  <1>4. IsFiniteSet(C) /\ IsFiniteSet(D)
    BY PairsAreFinite DEF Keyed, IsSample
  <1>5. Told(e, s) \subseteq A \cup B \cup C \cup D
    BY DEF Told, peers
  <1> HIDE DEF A, B, C, D
  <1>6. IsFiniteSet(A \cup B \cup C \cup D)
    BY <1>2, <1>3, <1>4, FS_Union
  <1> QED
    BY <1>5, <1>6, FS_Subset

LEMMA ObservedIsFinite ==
  ASSUME NEW e, IsEngine(e), NEW s, IsSample(s), NEW now
  PROVE  LET seen == Observe(e, s, now) IN
           IsEngine(seen.engine) /\ IsFiniteSet(seen.firing) /\ IsFiniteSet(seen.resolved)
  <1>1. CASE ~s.healthy
    <2>1. Observe(e, s, now) =
            [engine |-> [e EXCEPT !.states = [k \in DOMAIN e.states |-> StreakBroken(e.states[k])]],
             firing |-> {}, resolved |-> {}]
      BY <1>1 DEF Observe
    <2> QED
      BY <2>1, FS_EmptySet DEF IsEngine
  <1>2. CASE s.healthy
    <2> DEFINE seen   == Observe(e, s, now)
               before == [k \in Told(e, s) |->
                            Counted(IF k \in DOMAIN e.states THEN e.states[k] ELSE Quiet, Bad(e, s, k))]
    <2>1. /\ seen.firing = {k \in Told(e, s) : Fires(before[k], now)}
          /\ seen.resolved = {k \in Told(e, s) : ~Fires(before[k], now) /\ Resolves(before[k])}
      BY <1>2 DEF Observe
    <2>2. PICK f : seen.engine = [Learned(e, s) EXCEPT !.states = f]
      BY <1>2 DEF Observe
    <2> HIDE DEF seen, before
    <2>3. IsFiniteSet(seen.firing) /\ IsFiniteSet(seen.resolved)
      BY <2>1, ToldIsFinite, FS_Subset
    <2>4. /\ DOMAIN Learned(e, s) = DOMAIN e
          /\ Learned(e, s).neighbors = IF s.bgp THEN e.neighbors \cup s.up ELSE e.neighbors
      BY DEF Learned, IsEngine
    <2>5. IsFiniteSet(Learned(e, s).neighbors)
      <3>1. IsFiniteSet(e.neighbors) /\ IsFiniteSet(s.up)
        BY DEF IsEngine, IsSample
      <3>2. IsFiniteSet(e.neighbors \cup s.up)
        BY <3>1, FS_Union
      <3> QED
        BY <2>4, <3>1, <3>2
    <2>6. IsEngine(seen.engine)
      BY <2>2, <2>4, <2>5 DEF IsEngine
    <2> QED
      BY <2>3, <2>6 DEF seen
  <1> QED
    BY <1>1, <1>2

LEMMA SetInSequence ==
  ASSUME NEW S, IsFiniteSet(S)
  PROVE  IsSequence(SetToSeq(S)) /\ \A k \in 1..Len(SetToSeq(S)) : SetToSeq(S)[k] \in S
  <1> DEFINE n == Cardinality(S)
  <1>1. n \in Nat /\ ExistsBijection(1..n, S)
    BY FS_CardinalityType
  <1>2. \E f \in [1..n -> S] : IsInjective(f)
    BY <1>1 DEF ExistsBijection, Bijection, Injection, IsInjective
  <1>3. SetToSeq(S) \in [1..n -> S]
    BY <1>2 DEF SetToSeq
  <1> HIDE DEF n
  <1>4. SetToSeq(S) \in Seq(S)
    BY <1>1, <1>3, SeqDef
  <1> QED
    BY <1>4, LenProperties, InSequence

LEMMA EventsAreAlerts ==
  ASSUME NEW n, NEW seen, IsFiniteSet(seen.firing), IsFiniteSet(seen.resolved)
  PROVE  LET t == Events(n, seen) IN
           IsSequence(t) /\ \A k \in 1..Len(t) : t[k].kind # "tick"
  <1> DEFINE F == {AlertRecord(n, "firing", k) : k \in seen.firing}
             R == {AlertRecord(n, "resolved", k) : k \in seen.resolved}
             S == F \cup R
  <1>1. IsFiniteSet(S)
    <2>1. IsFiniteSet(F) /\ IsFiniteSet(R)
      BY RecordsAreFinite
    <2> HIDE DEF F, R
    <2> QED
      BY <2>1, FS_Union
  <1>2. \A x \in S : x.kind # "tick"
    BY DEF AlertRecord
  <1> HIDE DEF S
  <1>3. Events(n, seen) = SetToSeq(S)
    BY DEF Events, S
  <1> QED
    BY <1>1, <1>2, <1>3, SetInSequence

-----------------------------------------------------------------------------
(* The recorder: what is on disk of what it has sampled *)

IsTick(record) == record.kind = "tick"

\* The n-th sample is in a segment, and flushed.
Backed(r, n) ==
  \E i \in 1..Len(seg[r]) : \E j \in 1..seg[r][i].flushed :
    IsTick(seg[r][i].lines[j]) /\ seg[r][i].lines[j].n = n

BetweenTicks == {"new", "prune", "unlink", "unmark", "starting", "ready"}
WithRecord   == {"append", "seal", "mark", "reopen", "write", "sync", "status", "deliver"}

\* Of the records of a tick the sample is the first, and what follows are its alerts.
Pending(r) ==
  /\ IsSequence(todo[r]) /\ Len(todo[r]) >= 1
  /\ \A k \in 2..Len(todo[r]) : ~IsTick(todo[r][k])
  /\ IF IsTick(todo[r][1])
     THEN /\ todo[r][1].n = tick[r] /\ todo[r][1].key \in DOMAIN Samples
          /\ tick[r] = last[r] + 1 /\ pc[r] # "deliver"
     ELSE last[r] = tick[r] /\ pc[r] # "status"

Written(r) ==
  LET s == seg[r][Len(seg[r])] IN
    Len(seg[r]) >= 1 /\ Len(s.lines) >= 1 /\ s.lines[Len(s.lines)] = todo[r][1]

Recording(r) ==
  /\ tick[r] \in Nat /\ last[r] \in Nat /\ health[r].last \in Nat
  /\ health[r].last <= last[r] /\ last[r] <= tick[r]
  /\ \A n \in 1..last[r] : Backed(r, n)
  /\ pc[r] \in BetweenTicks => last[r] = tick[r]
  /\ pc[r] \in WithRecord => Pending(r)
  /\ pc[r] = "sync" => Written(r)
  /\ pc[r] = "status" => Backed(r, tick[r])
  /\ IsEngine(engine[r])

HealthInv == SealInv /\ \A r \in Runs : Recording(r)

LEMMA BackedLast ==
  ASSUME Segments, Segments', Kept, NEW r \in Runs, NEW n, Backed(r, n)
  PROVE  Backed(r, n)'
  <1>0. PICK i \in 1..Len(seg[r]) : \E j \in 1..seg[r][i].flushed :
          IsTick(seg[r][i].lines[j]) /\ seg[r][i].lines[j].n = n
    BY DEF Backed
  <1>1. PICK j \in 1..seg[r][i].flushed :
          IsTick(seg[r][i].lines[j]) /\ seg[r][i].lines[j].n = n
    BY <1>0
  <1>2. /\ Len(seg[r]) <= Len(seg'[r]) /\ Extends(seg[r][i], seg'[r][i])
    BY DEF Kept
  <1>3. IsSegment(seg[r][i]) /\ Len(seg[r]) \in Nat
    BY DEF Segments, IsSequence
  <1>4. seg'[r][i].lines[j] = seg[r][i].lines[j] /\ seg[r][i].flushed <= seg'[r][i].flushed
    BY <1>2 DEF Extends
  <1>5. i \in 1..Len(seg'[r])
    BY <1>2, <1>3 DEF Segments, IsSequence
  <1>6. IsSegment(seg'[r][i])
    BY <1>5 DEF Segments
  <1>7. j \in 1..seg'[r][i].flushed
    BY <1>3, <1>4, <1>6 DEF IsSegment, IsSequence
  <1> QED
    BY <1>1, <1>4, <1>5, <1>7 DEF Backed, IsTick

\* A run that did not move, whatever others did.
LEMMA BystandersRecord ==
  ASSUME Segments, Segments', Kept, NEW r \in Runs, Recording(r),
         pc'[r] = pc[r], tick'[r] = tick[r], last'[r] = last[r], health'[r] = health[r],
         todo'[r] = todo[r], engine'[r] = engine[r],
         pc[r] = "sync" => Written(r)'
  PROVE  Recording(r)'
  <1>1. \A n : Backed(r, n) => Backed(r, n)'
    BY BackedLast
  <1>2. Pending(r) => Pending(r)'
    BY DEF Pending, IsTick
  <1> QED
    BY <1>1, <1>2 DEF Recording, IsEngine

\* A run that goes on with the same records.
LEMMA GoesOn ==
  ASSUME Segments, Segments', Kept, NEW r \in Runs, Recording(r),
         UNCHANGED <<tick, last, health, todo, engine>>,
         pc'[r] \in BetweenTicks => pc[r] \in BetweenTicks,
         pc'[r] \in WithRecord => pc[r] \in WithRecord,
         pc'[r] = "status" => IsTick(todo[r][1]) /\ Backed(r, tick[r])',
         pc'[r] = "deliver" => ~IsTick(todo[r][1]),
         pc'[r] = "sync" => Written(r)'
  PROVE  Recording(r)'
  <1>1. \A n : Backed(r, n) => Backed(r, n)'
    BY BackedLast
  <1>2. pc'[r] \in WithRecord => Pending(r)'
    BY DEF Pending, Recording, IsTick
  <1> QED
    BY <1>1, <1>2 DEF Recording, IsEngine

\* The recorders of other runs are left alone.
Alone(r) ==
  \A q \in Runs : q # r => /\ pc'[q] = pc[q] /\ tick'[q] = tick[q] /\ last'[q] = last[q]
                           /\ health'[q] = health[q] /\ todo'[q] = todo[q]
                           /\ engine'[q] = engine[q]

LEMMA RunsAreAlone ==
  ASSUME Domains, NEW r \in Runs, RunStep(r) \/ Kill(r)
  PROVE  Alone(r)
  <1> USE DEF Goto, Domains, Alone, pruneVars, recordVars
  <1>1. CASE Begin(r) \/ Keep(r) \/ Condemn(r) \/ Unlink(r) \/ Unmark(r) \/ PruneFails(r)
    BY <1>1 DEF Begin, Keep, Condemn, Unlink, Unmark, PruneFails
  <1>2. CASE OpenSegment(r) \/ OpenSegmentFails(r)
    BY <1>2 DEF OpenSegment, OpenSegmentFails
  <1>3. CASE Starting(r) \/ CloseRecorder(r)
    BY <1>3 DEF Starting, CloseRecorder, Status
  <1>4. CASE Seal(r, "seal", "mark", "close") \/ Seal(r, "endseal", "endmark", "over")
    BY <1>4 DEF Seal
  <1>5. CASE Mark(r, "mark", "reopen", "close") \/ Mark(r, "endmark", "over", "over")
    BY <1>5 DEF Mark
  <1>6. CASE NewTick(r) \/ Append1(r) \/ Stop(r) \/ Kill(r)
    BY <1>6 DEF NewTick, Append1, Stop, Kill
  <1>7. CASE WriteLine(r) \/ Flush(r)
    BY <1>7 DEF WriteLine, Torn, Flush
  <1>8. CASE AdvertiseFails(r) \/ Deliver(r)
    BY <1>8 DEF AdvertiseFails, Deliver, Next1
  <1>9. CASE Advertise(r)
    <2>1. PICK rest : Next1(r, rest)
      BY <1>9 DEF Advertise
    <2>2. UNCHANGED tick /\ \A q \in Runs : q # r =>
            engine'[q] = engine[q] /\ last'[q] = last[q] /\ health'[q] = health[q]
      BY <1>9 DEF Advertise, Status
    <2> QED
      BY <2>1, <2>2 DEF Next1
  <1> QED
    BY <1>1, <1>2, <1>3, <1>4, <1>5, <1>6, <1>7, <1>8, <1>9 DEF RunStep

\* Whatever a run does, it leaves the segments of others alone, unless it prunes.
LEMMA OthersSegments ==
  ASSUME Segments, NEW r \in Runs, RunStep(r) \/ Kill(r), ~Unlink(r), NEW q \in Runs, q # r
  PROVE  seg'[q] = seg[q]
  <1> USE DEF Segments
  <1>1. CASE Begin(r) \/ Keep(r) \/ Condemn(r) \/ Unmark(r) \/ PruneFails(r)
    BY <1>1 DEF Begin, Keep, Condemn, Unmark, PruneFails
  <1>2. CASE OpenSegment(r) \/ OpenSegmentFails(r)
    BY <1>2 DEF OpenSegment, OpenSegmentFails
  <1>3. CASE Starting(r) \/ CloseRecorder(r)
    BY <1>3 DEF Starting, CloseRecorder
  <1>4. CASE Seal(r, "seal", "mark", "close") \/ Seal(r, "endseal", "endmark", "over")
    BY <1>4 DEF Seal
  <1>5. CASE Mark(r, "mark", "reopen", "close") \/ Mark(r, "endmark", "over", "over")
    BY <1>5 DEF Mark
  <1>6. CASE NewTick(r) \/ Append1(r) \/ Stop(r) \/ Kill(r)
    BY <1>6 DEF NewTick, Append1, Stop, Kill
  <1>7. CASE WriteLine(r) \/ Flush(r)
    BY <1>7 DEF WriteLine, Write, Flush, Sync
  <1>8. CASE AdvertiseFails(r) \/ Deliver(r) \/ Advertise(r)
    BY <1>8 DEF AdvertiseFails, Deliver, Advertise
  <1> QED
    BY <1>1, <1>2, <1>3, <1>4, <1>5, <1>6, <1>7, <1>8 DEF RunStep

LEMMA OthersRecord ==
  ASSUME HealthInv, SealInv', Kept, NEW r \in Runs, RunStep(r) \/ Kill(r),
         NEW q \in Runs, q # r
  PROVE  Recording(q)'
  <1>1. Shape /\ Segments /\ Segments' /\ Recording(q)
    BY DEF HealthInv, SealInv, Shape
  <1>2. Alone(r)
    BY <1>1, RunsAreAlone DEF Shape
  <1>3. pc[q] = "sync" => Written(q)'
    <2> SUFFICES ASSUME pc[q] = "sync" PROVE Written(q)'
      OBVIOUS
    <2>1. Written(q)
      BY <1>1 DEF Recording
    <2>2. CASE Unlink(r)
      <3>1. Names(Oldest(r))
        BY <2>2 DEF HealthInv, SealInv, Condemned, Prunes, Unlink, At
      <3>2. file[q]
        BY <1>1 DEF Shape, Opened, Writing
      <3>3. ~(q = Oldest(r)[1] /\ Len(seg[q]) = Oldest(r)[2])
        BY <3>1, <3>2 DEF Names, Done
      <3>4. Len(seg'[q]) = Len(seg[q]) /\ seg'[q][Len(seg[q])] = seg[q][Len(seg[q])]
        <4>1. Len(seg[q]) \in 1..Len(seg[q])
          BY <1>1, <2>1 DEF Written, Segments, IsSequence
        <4> QED
          BY <1>1, <2>2, <3>1, <3>3, <4>1, ShapeOfUnlink DEF Names
      <3> QED
        BY <1>2, <2>1, <3>4 DEF Written, Alone
    <2>3. CASE ~Unlink(r)
      BY <1>1, <1>2, <2>1, <2>3, OthersSegments DEF Written, Alone
    <2> QED
      BY <2>2, <2>3
  <1> QED
    BY <1>1, <1>2, <1>3, BystandersRecord DEF Alone

LEMMA HeadIsFirst ==
  ASSUME NEW s, IsSequence(s), Len(s) >= 1
  PROVE  Head(s) = s[1]
  <1> DEFINE S == {s[k] : k \in 1..Len(s)}
  <1>1. s \in Seq(S)
    BY SequenceIn
  <1>2. s # <<>>
    OBVIOUS
  <1> HIDE DEF S
  <1> QED
    BY <1>1, <1>2, HeadTailProperties

LEMMA TailIsRest ==
  ASSUME NEW s, IsSequence(s), Len(s) >= 1
  PROVE  /\ IsSequence(Tail(s)) /\ Len(Tail(s)) = Len(s) - 1
         /\ \A k \in 1..Len(Tail(s)) : Tail(s)[k] = s[k + 1]
         /\ Len(s) = 1 <=> Tail(s) = <<>>
  <1> DEFINE S == {s[k] : k \in 1..Len(s)}
  <1>1. s \in Seq(S) /\ Len(s) \in Nat
    BY SequenceIn DEF IsSequence
  <1>2. s # <<>>
    OBVIOUS
  <1> HIDE DEF S
  <1>3. /\ Tail(s) \in Seq(S) /\ Len(Tail(s)) = Len(s) - 1
        /\ \A k \in 1..Len(Tail(s)) : Tail(s)[k] = s[k + 1]
    BY <1>1, <1>2, HeadTailProperties
  <1>4. IsSequence(Tail(s))
    BY <1>3, InSequence
  <1>5. Len(Tail(s)) = 0 <=> Tail(s) = <<>>
    BY <1>3, EmptySeq
  <1> QED
    BY <1>1, <1>3, <1>4, <1>5

\* Steps that go on with the same records and leave the segments alone, or open,
\* seal, mark or prune them.
LEMMA GoingOn ==
  ASSUME HealthInv, SealInv', Kept, NEW r \in Runs,
         \/ Begin(r) \/ Keep(r) \/ Condemn(r) \/ Unlink(r) \/ Unmark(r) \/ PruneFails(r)
         \/ OpenSegment(r) \/ OpenSegmentFails(r) \/ Append1(r) \/ Stop(r) \/ Kill(r)
         \/ Seal(r, "seal", "mark", "close") \/ Seal(r, "endseal", "endmark", "over")
         \/ Mark(r, "mark", "reopen", "close") \/ Mark(r, "endmark", "over", "over")
  PROVE  Recording(r)'
  <1> USE DEF At, Goto, recordVars, BetweenTicks, WithRecord
  <1>1. Segments /\ Segments' /\ Recording(r) /\ DOMAIN pc = Runs
    BY DEF HealthInv, SealInv, Shape, Domains
  <1>2. /\ UNCHANGED <<tick, last, health, todo, engine>>
        /\ pc'[r] \in BetweenTicks => pc[r] \in BetweenTicks
        /\ pc'[r] \in WithRecord => pc[r] \in WithRecord
        /\ pc'[r] \notin {"status", "deliver", "sync"}
    <2>1. CASE Begin(r) \/ Keep(r) \/ Condemn(r)
      BY <1>1, <2>1 DEF Begin, Keep, Condemn
    <2>2. CASE Unlink(r) \/ Unmark(r) \/ PruneFails(r)
      BY <1>1, <2>2 DEF Unlink, Unmark, PruneFails
    <2>3. CASE OpenSegment(r) \/ OpenSegmentFails(r)
      BY <1>1, <2>3 DEF OpenSegment, OpenSegmentFails
    <2>4. CASE Append1(r) \/ Stop(r) \/ Kill(r)
      BY <1>1, <2>4 DEF Append1, Stop, Kill
    <2>5. CASE Seal(r, "seal", "mark", "close") \/ Seal(r, "endseal", "endmark", "over")
      BY <1>1, <2>5 DEF Seal
    <2>6. CASE Mark(r, "mark", "reopen", "close") \/ Mark(r, "endmark", "over", "over")
      BY <1>1, <2>6 DEF Mark
    <2> QED
      BY <2>1, <2>2, <2>3, <2>4, <2>5, <2>6
  <1> QED
    BY <1>1, <1>2, GoesOn

LEMMA WritesOn ==
  ASSUME HealthInv, SealInv', Kept, NEW r \in Runs, WriteLine(r)
  PROVE  Recording(r)'
  <1>1. Shape /\ Segments /\ Segments' /\ Recording(r) /\ DOMAIN pc = Runs
    BY DEF HealthInv, SealInv, Shape, Domains
  <1>2. /\ UNCHANGED <<tick, last, health, todo, engine>>
        /\ pc[r] = "write" /\ pc'[r] \in {"sync", "close"}
    BY <1>1 DEF WriteLine, At, Goto, Torn, recordVars
  <1>3. Head(todo[r]) = todo[r][1]
    BY <1>1, <1>2, HeadIsFirst DEF Recording, Pending, WithRecord
  <1>4. pc'[r] = "sync" => Written(r)'
    BY <1>1, <1>2, <1>3, ShapeOfWrite DEF Written
  <1> QED
    BY <1>1, <1>2, <1>4, GoesOn DEF BetweenTicks, WithRecord

\* The line that was flushed is the sample, or an alert of a sample that was.
LEMMA FlushesOn ==
  ASSUME HealthInv, SealInv', Kept, NEW r \in Runs, Flush(r)
  PROVE  Recording(r)'
  <1>1. Shape /\ Segments /\ Segments' /\ Recording(r) /\ DOMAIN pc = Runs
    BY DEF HealthInv, SealInv, Shape, Domains
  <1>2. UNCHANGED <<tick, last, health, todo, engine>> /\ pc[r] = "sync"
    BY <1>1 DEF Flush, At, recordVars
  <1>3. Head(todo[r]) = todo[r][1] /\ Pending(r) /\ Written(r)
    BY <1>1, <1>2, HeadIsFirst DEF Recording, Pending, WithRecord
  <1>4. pc'[r] = "close" \/ pc'[r] = IF IsTick(todo[r][1]) THEN "status" ELSE "deliver"
    BY <1>1, <1>3 DEF Flush, Goto, IsTick
  <1>5. ASSUME pc'[r] = "status" PROVE IsTick(todo[r][1]) /\ Backed(r, tick[r])'
    <2> DEFINE k == Len(seg[r])
               s == seg[r][k]
               t == seg'[r][k]
    <2>1. IsTick(todo[r][1]) /\ todo[r][1].n = tick[r]
      BY <1>3, <1>4, <1>5 DEF Pending
    <2>2. Len(seg'[r]) = k /\ k >= 1 /\ t.lines = s.lines /\ t.flushed = Len(s.lines)
      BY <1>1, <1>5, ShapeOfFlush DEF Whole
    <2>3. k \in 1..Len(seg'[r])
      BY <1>1, <2>2 DEF Segments, IsSequence
    <2>4. Len(s.lines) >= 1 /\ s.lines[Len(s.lines)] = todo[r][1]
      BY <1>3 DEF Written
    <2>5. Len(s.lines) \in 1..t.flushed
      <3>1. IsSegment(s)
        BY <1>1, <2>2, <2>3 DEF Segments
      <3> QED
        BY <2>2, <2>4, <3>1 DEF IsSegment, IsSequence
    <2>6. t.lines[Len(s.lines)] = todo[r][1]
      BY <2>2, <2>4
    <2> HIDE DEF k, s
    <2> QED
      BY <1>2, <2>1, <2>3, <2>5, <2>6 DEF Backed, IsTick
  <1> QED
    BY <1>1, <1>2, <1>4, <1>5, GoesOn DEF BetweenTicks, WithRecord

\* The health file is written anew.
LEMMA StatusOn ==
  ASSUME HealthInv, SealInv', Kept, NEW r \in Runs, Starting(r) \/ CloseRecorder(r)
  PROVE  Recording(r)'
  <1>1. Segments /\ Segments' /\ Recording(r) /\ Domains
    BY DEF HealthInv, SealInv, Shape
  <1>2. \A n : Backed(r, n) => Backed(r, n)'
    BY <1>1, BackedLast
  <1>3. UNCHANGED <<tick, last, todo, engine>>
    BY DEF Starting, CloseRecorder, recordVars
  <1>4. health'[r].last \in {0, last[r], health[r].last}
    BY <1>1 DEF Starting, CloseRecorder, Status, Domains
  <1>5. (pc[r] = "starting" /\ pc'[r] \in {"ready", "failed"}) \/ pc'[r] \in {"endseal", "over"}
    BY <1>1 DEF Starting, CloseRecorder, At, Goto, Domains
  <1>6. health'[r].last \in Nat /\ health'[r].last <= last[r]
    BY <1>1, <1>4 DEF Recording
  <1> QED
    BY <1>1, <1>2, <1>3, <1>5, <1>6 DEF Recording, BetweenTicks, WithRecord, IsEngine

LEMMA TicksOn ==
  ASSUME HealthInv, SealInv', Kept, NEW r \in Runs, NewTick(r)
  PROVE  Recording(r)'
  <1>1. Segments /\ Segments' /\ Recording(r) /\ Domains
    BY DEF HealthInv, SealInv, Shape
  <1>2. \A n : Backed(r, n) => Backed(r, n)'
    BY <1>1, BackedLast
  <1>3. /\ UNCHANGED <<last, health, engine>> /\ tick'[r] = tick[r] + 1
        /\ pc[r] = "ready" /\ pc'[r] = "append"
    BY <1>1 DEF NewTick, At, Goto, Domains
  <1>4. last[r] = tick[r]
    BY <1>1, <1>3 DEF Recording, BetweenTicks
  <1>5. PICK s \in DOMAIN Samples : todo'[r] = <<TickRecord(tick[r] + 1, s)>>
    BY <1>1 DEF NewTick, Domains
  <1>6. Pending(r)'
    <2> DEFINE x == TickRecord(tick[r] + 1, s)
    <2>1. x.n = tick[r] + 1 /\ x.key = s /\ IsTick(x)
      BY DEF TickRecord, IsTick
    <2> HIDE DEF x
    <2>2. IsSequence(<<x>>) /\ Len(<<x>>) = 1 /\ <<x>>[1] = x
      BY DEF IsSequence
    <2>3. todo'[r] = <<x>>
      BY <1>5 DEF x
    <2>4. /\ IsSequence(todo'[r]) /\ Len(todo'[r]) = 1 /\ todo'[r][1] = x
      BY <2>2, <2>3
    <2>5. todo'[r][1].n = tick'[r] /\ todo'[r][1].key \in DOMAIN Samples /\ IsTick(todo'[r][1])
          /\ tick'[r] = last'[r] + 1
      BY <1>3, <1>4, <2>1, <2>4
    <2> QED
      BY <1>3, <2>4, <2>5 DEF Pending, IsTick
  <1>7. tick'[r] \in Nat /\ last'[r] <= tick'[r]
    BY <1>1, <1>3, <1>4 DEF Recording
  <1> QED
    BY <1>1, <1>2, <1>3, <1>6, <1>7 DEF Recording, BetweenTicks, WithRecord, IsEngine

\* What was advertised is the sample that was flushed, so all samples to it are backed.
LEMMA BackedToTick ==
  ASSUME Segments, Segments', Kept, NEW r \in Runs, Recording(r), pc[r] = "status"
  PROVE  /\ tick[r] \in Nat /\ \A n \in 1..tick[r] : Backed(r, n)'
         /\ Pending(r) /\ IsTick(todo[r][1]) /\ todo[r][1].key \in DOMAIN Samples
         /\ todo[r][1] = Head(todo[r])
  <1>1. Pending(r) /\ Backed(r, tick[r])
    BY DEF Recording, WithRecord
  <1>2. IsTick(todo[r][1]) /\ tick[r] = last[r] + 1 /\ todo[r][1].key \in DOMAIN Samples
    BY <1>1 DEF Pending
  <1>3. tick[r] \in Nat /\ last[r] \in Nat /\ \A n \in 1..last[r] : Backed(r, n)
    BY DEF Recording
  <1>4. \A n \in 1..tick[r] : Backed(r, n)
    BY <1>1, <1>2, <1>3
  <1>5. \A n \in 1..tick[r] : Backed(r, n)'
    BY <1>4, BackedLast
  <1> QED
    BY <1>1, <1>2, <1>3, <1>5, HeadIsFirst DEF Pending

LEMMA AdvertiseFailsOn ==
  ASSUME HealthInv, SealInv', Kept, NEW r \in Runs, AdvertiseFails(r)
  PROVE  Recording(r)'
  <1>1. Segments /\ Segments' /\ Recording(r) /\ Domains
    BY DEF HealthInv, SealInv, Shape
  <1>2. /\ UNCHANGED <<tick, todo, health, engine>> /\ last'[r] = tick[r]
        /\ pc[r] = "status" /\ pc'[r] = "close"
    BY <1>1 DEF AdvertiseFails, At, Goto, Domains
  <1>3. tick[r] \in Nat /\ \A n \in 1..tick[r] : Backed(r, n)'
    BY <1>1, <1>2, BackedToTick
  <1>4. health[r].last \in Nat /\ health[r].last <= tick[r]
    BY <1>1, <1>3 DEF Recording
  <1> QED
    BY <1>1, <1>2, <1>3, <1>4 DEF Recording, BetweenTicks, WithRecord, IsEngine

\* What is left of the records of a tick are its alerts.
LEMMA AlertsRemain ==
  ASSUME NEW r \in Runs, Domains, Domains', NEW rest, IsSequence(rest),
         \A k \in 1..Len(rest) : rest[k].kind # "tick", Next1(r, rest), last'[r] = tick'[r]
  PROVE  pc'[r] \in {"ready", "append"} /\ (pc'[r] \in WithRecord => Pending(r)')
  <1>1. todo'[r] = rest /\ pc'[r] = IF rest = <<>> THEN "ready" ELSE "append"
    BY DEF Next1, Goto, Domains
  <1>2. Len(rest) \in Nat
    BY DEF IsSequence
  <1>3. rest # <<>> => Len(rest) >= 1
    <2>1. SUFFICES ASSUME Len(rest) = 0 PROVE rest = <<>>
      BY <1>2
    <2> DEFINE S == {rest[k] : k \in 1..Len(rest)}
    <2>2. rest \in Seq(S)
      BY SequenceIn
    <2> HIDE DEF S
    <2> QED
      BY <2>1, <2>2, EmptySeq
  <1>4. rest # <<>> => Pending(r)'
    BY <1>1, <1>2, <1>3 DEF Pending, IsTick
  <1> QED
    BY <1>1, <1>4 DEF WithRecord

LEMMA AdvertisesOn ==
  ASSUME HealthInv, SealInv', Kept, NEW r \in Runs, Advertise(r)
  PROVE  Recording(r)'
  <1>1. Segments /\ Segments' /\ Recording(r) /\ Domains /\ Domains'
    BY DEF HealthInv, SealInv, Shape
  <1> DEFINE s    == SampleOf(r)
             seen == Observe(engine[r], s, tick[r])
             rest == Events(tick[r], seen)
  <1>2. /\ tick' = tick /\ last'[r] = tick[r] /\ health'[r].last = tick[r]
        /\ engine'[r] = seen.engine /\ pc[r] = "status" /\ Next1(r, rest)
    BY <1>1 DEF Advertise, Status, At, Domains
  <1>3. tick[r] \in Nat /\ \A n \in 1..tick[r] : Backed(r, n)'
    BY <1>1, <1>2, BackedToTick
  <1>4. IsSample(s) /\ IsEngine(engine[r])
    <2>1. todo[r][1].key \in DOMAIN Samples /\ todo[r][1] = Head(todo[r])
      BY <1>1, <1>2, BackedToTick
    <2> QED
      BY <1>1, <2>1, HistoryAssumption DEF SampleOf, Recording
  <1> HIDE DEF s
  <1>5. IsEngine(seen.engine) /\ IsFiniteSet(seen.firing) /\ IsFiniteSet(seen.resolved)
    BY <1>4, ObservedIsFinite
  <1> HIDE DEF seen
  <1>6. IsSequence(rest) /\ \A k \in 1..Len(rest) : rest[k].kind # "tick"
    BY <1>5, EventsAreAlerts
  <1> HIDE DEF rest
  <1>7. pc'[r] \in {"ready", "append"} /\ (pc'[r] \in WithRecord => Pending(r)')
    BY <1>1, <1>2, <1>6, AlertsRemain
  <1>8. IsEngine(engine'[r])
    BY <1>2, <1>5
  <1> QED
    BY <1>2, <1>3, <1>7, <1>8 DEF Recording, IsEngine

LEMMA DeliversOn ==
  ASSUME HealthInv, SealInv', Kept, NEW r \in Runs, Deliver(r)
  PROVE  Recording(r)'
  <1>1. Segments /\ Segments' /\ Recording(r) /\ Domains /\ Domains'
    BY DEF HealthInv, SealInv, Shape
  <1>2. UNCHANGED <<tick, last, health, engine>> /\ pc[r] = "deliver"
    BY DEF Deliver, At
  <1>3. Pending(r) /\ ~IsTick(todo[r][1]) /\ last[r] = tick[r]
    BY <1>1, <1>2 DEF Recording, WithRecord, Pending
  <1>4. CASE Next1(r, Tail(todo[r]))
    <2> DEFINE rest == Tail(todo[r])
    <2>1. /\ IsSequence(rest) /\ Len(rest) = Len(todo[r]) - 1 /\ Len(todo[r]) \in Nat
          /\ \A k \in 1..Len(rest) : rest[k] = todo[r][k + 1]
      BY <1>3, TailIsRest DEF Pending, IsSequence
    <2> HIDE DEF rest
    <2>2. \A k \in 1..Len(rest) : rest[k].kind # "tick"
      <3> SUFFICES ASSUME NEW k \in 1..Len(rest) PROVE rest[k].kind # "tick"
        OBVIOUS
      <3>1. k + 1 \in 2..Len(todo[r])
        BY <2>1
      <3> QED
        BY <1>3, <2>1, <3>1 DEF Pending, IsTick
    <2>3. pc'[r] \in {"ready", "append"} /\ (pc'[r] \in WithRecord => Pending(r)')
      BY <1>1, <1>2, <1>3, <1>4, <2>1, <2>2, AlertsRemain DEF rest
    <2>4. \A n : Backed(r, n) => Backed(r, n)'
      BY <1>1, BackedLast
    <2> QED
      BY <1>1, <1>2, <1>3, <2>3, <2>4 DEF Recording, IsEngine
  <1>5. CASE Goto(r, "close") /\ UNCHANGED todo
    <2>1. pc'[r] = "close"
      BY <1>1, <1>5 DEF Goto, Domains
    <2> QED
      BY <1>1, <1>2, <1>5, <2>1, GoesOn DEF BetweenTicks, WithRecord
  <1> QED
    BY <1>4, <1>5 DEF Deliver

LEMMA WorldGoesOn ==
  ASSUME HealthInv, SealInv', Kept, PowerCut \/ DayPasses \/ UNCHANGED vars, NEW r \in Runs
  PROVE  Recording(r)'
  <1>1. Segments /\ Segments' /\ Recording(r)
    BY DEF HealthInv, SealInv, Shape
  <1>2. UNCHANGED <<tick, last, health, todo, engine>>
    BY DEF PowerCut, DayPasses, vars, recordVars
  <1>3. CASE PowerCut
    <2>1. pc'[r] = "dead" \/ (pc'[r] = pc[r] /\ pc'[r] \in {"new", "failed", "over", "dead"})
      BY <1>3 DEF PowerCut, Live
    <2> QED
      BY <1>1, <1>2, <2>1, GoesOn DEF BetweenTicks, WithRecord
  <1>4. CASE DayPasses \/ UNCHANGED vars
    <2>1. pc' = pc /\ seg' = seg
      BY <1>4 DEF DayPasses, vars
    <2>2. pc[r] = "sync" => Written(r)'
      BY <1>1, <1>2, <2>1 DEF Recording, Written
    <2> QED
      BY <1>1, <1>2, <2>1, <2>2, BystandersRecord
  <1> QED
    BY <1>3, <1>4

LEMMA InitRecords ==
  ASSUME Init, NEW r \in Runs
  PROVE  Recording(r)
  <1>1. /\ pc[r] \in {"new", "over"} /\ engine[r] = Fresh /\ last[r] = tick[r]
        /\ health[r].last = tick[r] /\ tick[r] = IF r \in Left THEN 1 ELSE 0
    BY DEF Init
  <1>2. IsEngine(Fresh)
    BY FS_EmptySet DEF IsEngine, Fresh
  <1>3. r \in Left => Backed(r, 1)
    <2> SUFFICES ASSUME r \in Left PROVE Backed(r, 1)
      OBVIOUS
    <2> DEFINE x == TickRecord(1, CHOOSE s \in DOMAIN Samples : TRUE)
    <2>1. IsTick(x) /\ x.n = 1
      BY DEF IsTick, TickRecord
    <2>2. Sealed.lines = <<x>> /\ Sealed.flushed = 1
      BY DEF Sealed, NewSegment
    <2> HIDE DEF x
    <2>3. seg[r] = <<Sealed>>
      BY DEF Init
    <2>4. 1 \in 1..Len(seg[r]) /\ seg[r][1] = Sealed
      BY <2>3
    <2>5. 1 \in 1..Sealed.flushed /\ Sealed.lines[1] = x
      BY <2>2
    <2> QED
      BY <2>1, <2>4, <2>5 DEF Backed
  <1>4. \A n \in 1..last[r] : Backed(r, n)
    <2> SUFFICES ASSUME NEW n \in 1..last[r] PROVE Backed(r, n)
      OBVIOUS
    <2>1. r \in Left /\ n = 1
      BY <1>1
    <2> QED
      BY <1>3, <2>1
  <1>5. tick[r] \in Nat
    BY <1>1
  <1> QED
    BY <1>1, <1>2, <1>4, <1>5 DEF Recording, WithRecord

\* Every step keeps the recorders true.
LEMMA RecordingStep ==
  ASSUME HealthInv, [Next]_vars
  PROVE  HealthInv'
  <1>1. SealInv' /\ Kept
    BY SealedStep DEF HealthInv
  <1>2. ASSUME NEW r \in Runs, RunStep(r) \/ Kill(r), NEW q \in Runs PROVE Recording(q)'
    <2>1. CASE q # r
      BY <1>1, <1>2, <2>1, OthersRecord
    <2>2. Recording(r)'
      BY <1>1, <1>2, GoingOn, WritesOn, FlushesOn, StatusOn, TicksOn, AdvertisesOn,
         AdvertiseFailsOn, DeliversOn DEF RunStep
    <2> QED
      BY <2>1, <2>2
  <1>3. ASSUME PowerCut \/ DayPasses \/ UNCHANGED vars, NEW r \in Runs PROVE Recording(r)'
    BY <1>1, <1>3, WorldGoesOn
  <1> QED
    BY <1>1, <1>2, <1>3 DEF Next, Rest, HealthInv

\* The inductive invariant of the recorders (WriteTick, appendRecord, Close).
THEOREM HealthInvariant == Spec => []HealthInv
  <1>1. Init => HealthInv
    BY InitShape, InitRecords DEF HealthInv, SealInv
  <1>2. HealthInv /\ [Next]_vars => HealthInv'
    BY RecordingStep
  <1> QED
    BY <1>1, <1>2, PTL DEF Spec

\* For any number of runs, any samples and any failures, kills and power cuts: what
\* the health file says was sampled is on disk (appendRecord, WriteTick).
THEOREM HealthTrue == Spec => []HealthIsBacked
  <1>1. ASSUME HealthInv PROVE HealthIsBacked
    <2> SUFFICES ASSUME NEW r \in Runs, NEW n \in 1..health[r].last
                 PROVE  \E i \in Places(r) : \E j \in 1..seg[r][i].flushed :
                          LET line == seg[r][i].lines[j] IN line.kind = "tick" /\ line.n = n
      BY DEF HealthIsBacked
    <2>1. Recording(r) /\ IsSequence(seg[r])
      BY <1>1 DEF HealthInv, SealInv, Shape, Segments
    <2>2. n \in 1..last[r]
      BY <2>1 DEF Recording
    <2>3. Backed(r, n)
      BY <2>1, <2>2 DEF Recording
    <2> QED
      BY <2>1, <2>3, SequenceDomain DEF Backed, Places, IsTick
  <1> QED
    BY <1>1, HealthInvariant, PTL

-----------------------------------------------------------------------------
(* What the engine knows of a key, and what the samples said of it *)

IsKey(k) == k[1] \in Rules /\ k = <<k[1], k[2]>>

Knows(e, k) ==
  CASE k[1] = "bgp-neighbor-lost" -> k[2] \in e.neighbors
    [] k[1] \in {"route-count-drop", "traffic-shift"} -> k \in DOMAIN e.baseline
    [] k[1] = "next-hop-change" -> k \in DOMAIN e.nextHops
    [] k[1] = "interface-errors" -> k \in DOMAIN e.counters

Reference(e, k) ==
  CASE k[1] \in {"route-count-drop", "traffic-shift"} -> e.baseline[k]
    [] k[1] = "next-hop-change" -> e.nextHops[k]
    [] k[1] = "interface-errors" -> e.counters[k]

\* The engine has heard of the key what the first n samples said.
Knowledge(e, h, k, n) ==
  /\ Knows(e, k) <=> Heard(h, k, n) # {}
  /\ Heard(h, k, n) # {} /\ k[1] = "interface-errors" =>
       Reference(e, k) = Value(h, k, Latest(Heard(h, k, n)))
  /\ Heard(h, k, n) # {} /\ k[1] \notin {"interface-errors", "bgp-neighbor-lost"} =>
       Reference(e, k) = Value(h, k, First(Heard(h, k, n)))

Tells(s, k) == s.healthy /\ k[2] \in DOMAIN Readings(s, k[1])

LEMMA HeardNext ==
  ASSUME NEW h, NEW k, NEW n \in Nat
  PROVE  Heard(h, k, n + 1) = Heard(h, k, n) \cup (IF Tells(h[n + 1], k) THEN {n + 1} ELSE {})
  <1>1. 1..n + 1 = 1..n \cup {n + 1}
    OBVIOUS
  <1> QED
    BY <1>1 DEF Heard, Tells

LEMMA ReadingsOf ==
  ASSUME NEW s
  PROVE  /\ DOMAIN Readings(s, "bgp-neighbor-lost") = s.up
         /\ Readings(s, "route-count-drop") = s.routes /\ Readings(s, "next-hop-change") = s.hops
         /\ Readings(s, "traffic-shift") = s.rates /\ Readings(s, "interface-errors") = s.errors
  BY DEF Readings

\* The engine says of a sample what the samples so far say of it.
LEMMA EngineJudges ==
  ASSUME NEW e, NEW h, NEW k, IsKey(k), NEW n \in Nat, Knowledge(e, h, k, n),
         NEW s, s = h[n + 1], IsSample(s)
  PROVE  Verdict(h, k, n + 1) = IF ~s.healthy \/ k \notin Told(e, s) THEN "nothing"
                                ELSE IF Bad(e, s, k) THEN "bad" ELSE "good"
  <1>1. PICK rule, x : k = <<rule, x>> /\ rule \in Rules
    BY DEF IsKey
  <1>2. (n + 1) - 1 = n /\ n + 1 \notin Heard(h, k, n)
    BY DEF Heard
  <1>3. /\ n + 1 \in Heard(h, k, n + 1) <=> Tells(s, k)
        /\ Heard(h, k, n + 1) # {} <=> (Heard(h, k, n) # {} \/ Tells(s, k))
    BY <1>2, HeardNext
  <1>4. k[1] = rule /\ k[2] = x
    BY <1>1
  <1>5. CASE rule = "bgp-neighbor-lost"
    <2>1. Tells(s, k) <=> s.healthy /\ x \in s.up
      BY <1>4, <1>5, ReadingsOf DEF Tells
    <2>2. k \in Told(e, s) <=> s.bgp /\ (x \in e.neighbors \/ x \in s.up)
      BY <1>1, <1>5 DEF Told, Keyed
    <2>3. Bad(e, s, k) <=> x \notin s.up
      BY <1>4, <1>5 DEF Bad
    <2>4. x \in e.neighbors <=> Heard(h, k, n) # {}
      BY <1>4, <1>5 DEF Knowledge, Knows
    <2>5. Verdict(h, k, n + 1) = IF ~(s.healthy /\ s.bgp /\ Heard(h, k, n + 1) # {}) THEN "nothing"
                                 ELSE IF n + 1 \notin Heard(h, k, n + 1) THEN "bad" ELSE "good"
      BY <1>4, <1>5 DEF Verdict
    <2> QED
      BY <1>3, <2>1, <2>2, <2>3, <2>4, <2>5
  <1>6. CASE rule = "route-count-drop"
    <2>1. Tells(s, k) <=> s.healthy /\ x \in DOMAIN s.routes
      BY <1>4, <1>6, ReadingsOf DEF Tells
    <2>2. k \in Told(e, s) <=> x \in DOMAIN s.routes /\ k \in DOMAIN e.baseline
      BY <1>1, <1>6 DEF Told, Keyed
    <2>3. Bad(e, s, k) <=> Dropped(e.baseline[k], s.routes[x])
      BY <1>4, <1>6 DEF Bad
    <2>4. /\ k \in DOMAIN e.baseline <=> Heard(h, k, n) # {}
          /\ Heard(h, k, n) # {} => e.baseline[k] = Value(h, k, First(Heard(h, k, n)))
      BY <1>4, <1>6 DEF Knowledge, Knows, Reference
    <2>5. Value(h, k, n + 1) = s.routes[x]
      BY <1>4, <1>6, ReadingsOf DEF Value
    <2>6. Verdict(h, k, n + 1) =
            IF ~(Heard(h, k, n) # {} /\ n + 1 \in Heard(h, k, n + 1)) THEN "nothing"
            ELSE IF Dropped(Value(h, k, First(Heard(h, k, n))), Value(h, k, n + 1)) THEN "bad" ELSE "good"
      BY <1>2, <1>4, <1>6 DEF Verdict
    <2> QED
      BY <1>3, <2>1, <2>2, <2>3, <2>4, <2>5, <2>6
  <1>7. CASE rule = "next-hop-change"
    <2>1. Tells(s, k) <=> s.healthy /\ x \in DOMAIN s.hops
      BY <1>4, <1>7, ReadingsOf DEF Tells
    <2>2. k \in Told(e, s) <=> x \in DOMAIN s.hops /\ k \in DOMAIN e.nextHops
      BY <1>1, <1>7 DEF Told, Keyed
    <2>3. Bad(e, s, k) <=> e.nextHops[k] # s.hops[x]
      BY <1>4, <1>7 DEF Bad
    <2>4. /\ k \in DOMAIN e.nextHops <=> Heard(h, k, n) # {}
          /\ Heard(h, k, n) # {} => e.nextHops[k] = Value(h, k, First(Heard(h, k, n)))
      BY <1>4, <1>7 DEF Knowledge, Knows, Reference
    <2>5. Value(h, k, n + 1) = s.hops[x]
      BY <1>4, <1>7, ReadingsOf DEF Value
    <2>6. Verdict(h, k, n + 1) =
            IF ~(Heard(h, k, n) # {} /\ n + 1 \in Heard(h, k, n + 1)) THEN "nothing"
            ELSE IF Value(h, k, First(Heard(h, k, n))) # Value(h, k, n + 1) THEN "bad" ELSE "good"
      BY <1>2, <1>4, <1>7 DEF Verdict
    <2> QED
      BY <1>3, <2>1, <2>2, <2>3, <2>4, <2>5, <2>6
  <1>8. CASE rule = "traffic-shift"
    <2>1. Tells(s, k) <=> s.healthy /\ x \in DOMAIN s.rates
      BY <1>4, <1>8, ReadingsOf DEF Tells
    <2>2. k \in Told(e, s) <=> x \in DOMAIN s.rates /\ k \in DOMAIN e.baseline
      BY <1>1, <1>8 DEF Told, Keyed
    <2>3. Bad(e, s, k) <=> Shifted(e.baseline[k], s.rates[x])
      BY <1>4, <1>8 DEF Bad
    <2>4. /\ k \in DOMAIN e.baseline <=> Heard(h, k, n) # {}
          /\ Heard(h, k, n) # {} => e.baseline[k] = Value(h, k, First(Heard(h, k, n)))
      BY <1>4, <1>8 DEF Knowledge, Knows, Reference
    <2>5. Value(h, k, n + 1) = s.rates[x]
      BY <1>4, <1>8, ReadingsOf DEF Value
    <2>6. Verdict(h, k, n + 1) =
            IF ~(Heard(h, k, n) # {} /\ n + 1 \in Heard(h, k, n + 1)) THEN "nothing"
            ELSE IF Shifted(Value(h, k, First(Heard(h, k, n))), Value(h, k, n + 1)) THEN "bad" ELSE "good"
      BY <1>2, <1>4, <1>8 DEF Verdict
    <2> QED
      BY <1>3, <2>1, <2>2, <2>3, <2>4, <2>5, <2>6
  <1>9. CASE rule = "interface-errors"
    <2>1. Tells(s, k) <=> s.healthy /\ x \in DOMAIN s.errors
      BY <1>4, <1>9, ReadingsOf DEF Tells
    <2>2. k \in Told(e, s) <=> x \in DOMAIN s.errors /\ k \in DOMAIN e.counters
      BY <1>1, <1>9 DEF Told, Keyed
    <2>3. Bad(e, s, k) <=> s.errors[x] - e.counters[k] >= ErrorDelta
      BY <1>4, <1>9 DEF Bad
    <2>4. /\ k \in DOMAIN e.counters <=> Heard(h, k, n) # {}
          /\ Heard(h, k, n) # {} => e.counters[k] = Value(h, k, Latest(Heard(h, k, n)))
      BY <1>4, <1>9 DEF Knowledge, Knows, Reference
    <2>5. Value(h, k, n + 1) = s.errors[x]
      BY <1>4, <1>9, ReadingsOf DEF Value
    <2>6. Verdict(h, k, n + 1) =
            IF ~(Heard(h, k, n) # {} /\ n + 1 \in Heard(h, k, n + 1)) THEN "nothing"
            ELSE IF Value(h, k, n + 1) - Value(h, k, Latest(Heard(h, k, n))) >= ErrorDelta THEN "bad" ELSE "good"
      BY <1>2, <1>4, <1>9 DEF Verdict
    <2> QED
      BY <1>3, <2>1, <2>2, <2>3, <2>4, <2>5, <2>6
  <1> QED
    BY <1>1, <1>5, <1>6, <1>7, <1>8, <1>9 DEF Rules

LEMMA HasFirst ==
  ASSUME NEW P \in SUBSET Nat, P # {}
  PROVE  First(P) \in P /\ \A o \in P : First(P) <= o
  <1>1. \E m \in P : \A o \in P : ~ (<<o, m>> \in OpToRel(<, Nat))
    BY NatLessThanWellFounded, WFMin
  <1>2. PICK m \in P : \A o \in P : ~ (<<o, m>> \in OpToRel(<, Nat))
    BY <1>1
  <1>3. \A o \in P : o \in Nat /\ m \in Nat /\ ~(o < m)
    BY <1>2 DEF OpToRel
  <1>4. \A o \in P : m <= o
    BY <1>3
  <1> QED
    BY <1>4 DEF First

LEMMA FirstStays ==
  ASSUME NEW n \in Nat, NEW P \in SUBSET (1..n)
  PROVE  /\ P # {} => First(P \cup {n + 1}) = First(P)
         /\ P = {} => First(P \cup {n + 1}) = n + 1
         /\ Latest(P \cup {n + 1}) = n + 1
  <1> DEFINE Q == P \cup {n + 1}
  <1>1. Q \in SUBSET Nat /\ Q # {} /\ P \in SUBSET Nat /\ \A o \in P : o \in Nat /\ o < n + 1
    OBVIOUS
  <1>2. First(Q) \in Q /\ \A o \in Q : First(Q) <= o
    BY <1>1, HasFirst
  <1>3. ASSUME P # {} PROVE First(Q) = First(P)
    <2>1. First(P) \in P /\ \A o \in P : First(P) <= o
      BY <1>1, <1>3, HasFirst
    <2>2. First(Q) \in Nat /\ First(P) \in Nat /\ First(P) \in Q /\ First(Q) <= First(P)
      BY <1>1, <1>2, <2>1
    <2>3. First(Q) \in P
      BY <1>1, <1>2, <2>1, <2>2
    <2>4. First(P) <= First(Q)
      BY <2>1, <2>3
    <2> HIDE DEF Q
    <2> QED
      BY <2>2, <2>4
  <1>4. ASSUME P = {} PROVE First(Q) = n + 1
    BY <1>2, <1>4
  <1>5. Latest(Q) = n + 1
    <2>1. n + 1 \in Q /\ \A o \in Q : n + 1 >= o
      BY <1>1
    <2>2. Latest(Q) \in Q /\ \A o \in Q : Latest(Q) >= o
      BY <2>1 DEF Latest
    <2> HIDE DEF Q
    <2>3. Latest(Q) \in Nat /\ Latest(Q) <= n + 1 /\ Latest(Q) >= n + 1
      BY <1>1, <2>1, <2>2
    <2> QED
      BY <2>3
  <1> QED
    BY <1>3, <1>4, <1>5

LEMMA LearntOf ==
  ASSUME NEW f, NEW rule, NEW g, NEW x, NEW k, k = <<rule, x>>
  PROVE  /\ k \in DOMAIN Learn(f, rule, g) <=> k \in DOMAIN f \/ x \in DOMAIN g
         /\ k \in DOMAIN f => Learn(f, rule, g)[k] = f[k]
         /\ k \notin DOMAIN f /\ x \in DOMAIN g => Learn(f, rule, g)[k] = g[x]
  <1> DEFINE learnt == [j \in Keyed(rule, g) |-> g[j[2]]]
  <1>1. k \in DOMAIN learnt <=> x \in DOMAIN g
    BY DEF Keyed
  <1>2. k \in DOMAIN learnt => learnt[k] = g[x]
    OBVIOUS
  <1> HIDE DEF learnt
  <1>3. Learn(f, rule, g) = Over(f, learnt)
    BY DEF Learn, learnt
  <1>4. /\ k \in DOMAIN Over(f, learnt) <=> k \in DOMAIN f \/ k \in DOMAIN learnt
        /\ k \in DOMAIN f => Over(f, learnt)[k] = f[k]
        /\ k \in DOMAIN learnt \ DOMAIN f => Over(f, learnt)[k] = learnt[k]
    BY DEF Over
  <1> QED
    BY <1>1, <1>2, <1>3, <1>4

LEMMA LearntOther ==
  ASSUME NEW f, NEW rule, NEW g, NEW k, k[1] # rule
  PROVE  /\ k \in DOMAIN Learn(f, rule, g) <=> k \in DOMAIN f
         /\ k \in DOMAIN f => Learn(f, rule, g)[k] = f[k]
  <1> DEFINE learnt == [j \in Keyed(rule, g) |-> g[j[2]]]
  <1>1. k \notin DOMAIN learnt
    BY DEF Keyed
  <1> HIDE DEF learnt
  <1>2. Learn(f, rule, g) = Over(f, learnt)
    BY DEF Learn, learnt
  <1>3. /\ k \in DOMAIN Over(f, learnt) <=> k \in DOMAIN f \/ k \in DOMAIN learnt
        /\ k \in DOMAIN f => Over(f, learnt)[k] = f[k]
        /\ k \in DOMAIN learnt \ DOMAIN f => Over(f, learnt)[k] = learnt[k]
    BY DEF Over
  <1> QED
    BY <1>1, <1>2, <1>3

LEMMA CountedAnew ==
  ASSUME NEW f, NEW rule, NEW g, NEW x, NEW k, k = <<rule, x>>
  PROVE  LET new == Over([j \in Keyed(rule, g) |-> g[j[2]]], f) IN
           /\ k \in DOMAIN new <=> k \in DOMAIN f \/ x \in DOMAIN g
           /\ x \in DOMAIN g => new[k] = g[x]
           /\ x \notin DOMAIN g /\ k \in DOMAIN f => new[k] = f[k]
  <1> DEFINE learnt == [j \in Keyed(rule, g) |-> g[j[2]]]
  <1>1. k \in DOMAIN learnt <=> x \in DOMAIN g
    BY DEF Keyed
  <1>2. k \in DOMAIN learnt => learnt[k] = g[x]
    OBVIOUS
  <1> HIDE DEF learnt
  <1>3. [j \in Keyed(rule, g) |-> g[j[2]]] = learnt
    BY DEF learnt
  <1>4. /\ k \in DOMAIN Over(learnt, f) <=> k \in DOMAIN learnt \/ k \in DOMAIN f
        /\ k \in DOMAIN learnt => Over(learnt, f)[k] = learnt[k]
        /\ k \in DOMAIN f \ DOMAIN learnt => Over(learnt, f)[k] = f[k]
    BY DEF Over
  <1> QED
    BY <1>1, <1>2, <1>3, <1>4

\* What a healthy sample adds to what the engine knows of a key.
LEMMA Learns ==
  ASSUME NEW e, IsEngine(e), NEW s, IsSample(s), NEW k, IsKey(k)
  PROVE  LET new == Learned(e, s)
             tells == k[2] \in DOMAIN Readings(s, k[1])
         IN  /\ Knows(new, k) <=> Knows(e, k) \/ tells
             /\ k[1] = "interface-errors" =>
                  /\ tells => Reference(new, k) = Readings(s, k[1])[k[2]]
                  /\ ~tells /\ Knows(e, k) => Reference(new, k) = Reference(e, k)
             /\ k[1] \notin {"interface-errors", "bgp-neighbor-lost"} =>
                  /\ Knows(e, k) => Reference(new, k) = Reference(e, k)
                  /\ ~Knows(e, k) /\ tells => Reference(new, k) = Readings(s, k[1])[k[2]]
  <1> DEFINE new == Learned(e, s)
             routes == Learn(e.baseline, "route-count-drop", s.routes)
  <1>1. PICK rule, x : k = <<rule, x>> /\ rule \in Rules
    BY DEF IsKey
  <1>2. k[1] = rule /\ k[2] = x
    BY <1>1
  <1>3. /\ new.neighbors = IF s.bgp THEN e.neighbors \cup s.up ELSE e.neighbors
        /\ new.baseline = Learn(routes, "traffic-shift", s.rates)
        /\ new.nextHops = Learn(e.nextHops, "next-hop-change", s.hops)
        /\ new.counters = Over([j \in Keyed("interface-errors", s.errors) |-> s.errors[j[2]]], e.counters)
    BY DEF Learned, IsEngine
  <1> HIDE DEF new
  <1>4. CASE rule = "bgp-neighbor-lost"
    <2>1. x \in new.neighbors <=> x \in e.neighbors \/ x \in s.up
      BY <1>3 DEF IsSample
    <2> QED
      BY <1>2, <1>4, <2>1, ReadingsOf DEF Knows, new
  <1>5. CASE rule = "route-count-drop"
    <2>1. /\ k \in DOMAIN routes <=> k \in DOMAIN e.baseline \/ x \in DOMAIN s.routes
          /\ k \in DOMAIN e.baseline => routes[k] = e.baseline[k]
          /\ k \notin DOMAIN e.baseline /\ x \in DOMAIN s.routes => routes[k] = s.routes[x]
      BY <1>1, <1>5, LearntOf
    <2> HIDE DEF routes
    <2>2. /\ k \in DOMAIN new.baseline <=> k \in DOMAIN routes
          /\ k \in DOMAIN routes => new.baseline[k] = routes[k]
      BY <1>2, <1>3, <1>5, LearntOther
    <2> QED
      BY <1>2, <1>5, <2>1, <2>2, ReadingsOf DEF Knows, Reference, new
  <1>6. CASE rule = "traffic-shift"
    <2>1. /\ k \in DOMAIN routes <=> k \in DOMAIN e.baseline
          /\ k \in DOMAIN e.baseline => routes[k] = e.baseline[k]
      BY <1>2, <1>6, LearntOther
    <2> HIDE DEF routes
    <2>2. /\ k \in DOMAIN new.baseline <=> k \in DOMAIN routes \/ x \in DOMAIN s.rates
          /\ k \in DOMAIN routes => new.baseline[k] = routes[k]
          /\ k \notin DOMAIN routes /\ x \in DOMAIN s.rates => new.baseline[k] = s.rates[x]
      BY <1>1, <1>3, <1>6, LearntOf
    <2> QED
      BY <1>2, <1>6, <2>1, <2>2, ReadingsOf DEF Knows, Reference, new
  <1>7. CASE rule = "next-hop-change"
    <2>1. /\ k \in DOMAIN new.nextHops <=> k \in DOMAIN e.nextHops \/ x \in DOMAIN s.hops
          /\ k \in DOMAIN e.nextHops => new.nextHops[k] = e.nextHops[k]
          /\ k \notin DOMAIN e.nextHops /\ x \in DOMAIN s.hops => new.nextHops[k] = s.hops[x]
      BY <1>1, <1>3, <1>7, LearntOf
    <2> QED
      BY <1>2, <1>7, <2>1, ReadingsOf DEF Knows, Reference, new
  <1>8. CASE rule = "interface-errors"
    <2>1. /\ k \in DOMAIN new.counters <=> k \in DOMAIN e.counters \/ x \in DOMAIN s.errors
          /\ x \in DOMAIN s.errors => new.counters[k] = s.errors[x]
          /\ x \notin DOMAIN s.errors /\ k \in DOMAIN e.counters => new.counters[k] = e.counters[k]
      BY <1>1, <1>3, <1>8, CountedAnew
    <2> QED
      BY <1>2, <1>8, <2>1, ReadingsOf DEF Knows, Reference, new
  <1> QED
    BY <1>1, <1>4, <1>5, <1>6, <1>7, <1>8 DEF Rules

\* Engines that differ in the states only know the same.
LEMMA StatesAside ==
  ASSUME NEW e, IsEngine(e), NEW f, NEW k
  PROVE  LET new == [e EXCEPT !.states = f] IN
           (Knows(new, k) <=> Knows(e, k)) /\ Reference(new, k) = Reference(e, k)
  <1> DEFINE new == [e EXCEPT !.states = f]
  <1>1. /\ new.neighbors = e.neighbors /\ new.baseline = e.baseline
        /\ new.nextHops = e.nextHops /\ new.counters = e.counters
    BY DEF IsEngine
  <1> HIDE DEF new
  <1> QED
    BY <1>1 DEF Knows, Reference, new

\* The engine has heard what the samples said, with one sample more.
LEMMA KnowledgeGrows ==
  ASSUME NEW e, IsEngine(e), NEW h, NEW k, IsKey(k), NEW n \in Nat, Knowledge(e, h, k, n),
         NEW s, s = h[n + 1], IsSample(s), NEW f
  PROVE  Knowledge([(IF s.healthy THEN Learned(e, s) ELSE e) EXCEPT !.states = f], h, k, n + 1)
  <1> DEFINE past == Heard(h, k, n)
             now  == Heard(h, k, n + 1)
             base == IF s.healthy THEN Learned(e, s) ELSE e
             new  == [base EXCEPT !.states = f]
  <1>1. past \in SUBSET (1..n) /\ now = past \cup (IF Tells(s, k) THEN {n + 1} ELSE {})
    BY HeardNext DEF Heard
  <1>2. Value(h, k, n + 1) = Readings(s, k[1])[k[2]]
    BY DEF Value
  <1> HIDE DEF past, now
  <1>3. /\ Tells(s, k) => Latest(now) = n + 1 /\ First(now) = IF past = {} THEN n + 1 ELSE First(past)
        /\ ~Tells(s, k) => now = past
        /\ now # {} <=> past # {} \/ Tells(s, k)
    BY <1>1, FirstStays
  <1>4. IsEngine(base)
    <2>1. CASE s.healthy
      <3>1. /\ DOMAIN Learned(e, s) = DOMAIN e
            /\ Learned(e, s).neighbors = IF s.bgp THEN e.neighbors \cup s.up ELSE e.neighbors
        BY DEF Learned, IsEngine
      <3>2. IsFiniteSet(e.neighbors \cup s.up) /\ IsFiniteSet(e.neighbors)
        BY FS_Union DEF IsEngine, IsSample
      <3> QED
        BY <2>1, <3>1, <3>2 DEF IsEngine
    <2> QED
      BY <2>1
  <1>5. (Knows(new, k) <=> Knows(base, k)) /\ Reference(new, k) = Reference(base, k)
    BY <1>4, StatesAside
  <1>6. /\ Knows(e, k) <=> past # {}
        /\ past # {} /\ k[1] = "interface-errors" => Reference(e, k) = Value(h, k, Latest(past))
        /\ past # {} /\ k[1] \notin {"interface-errors", "bgp-neighbor-lost"} =>
             Reference(e, k) = Value(h, k, First(past))
    BY DEF Knowledge, past
  <1>7. CASE ~s.healthy
    <2>1. ~Tells(s, k) /\ base = e
      BY <1>7 DEF Tells
    <2> HIDE DEF base, new
    <2> QED
      BY <1>3, <1>5, <1>6, <2>1 DEF Knowledge, now, new, base
  <1>8. CASE s.healthy
    <2>1. (Tells(s, k) <=> k[2] \in DOMAIN Readings(s, k[1])) /\ base = Learned(e, s)
      BY <1>8 DEF Tells
    <2> DEFINE reading == Readings(s, k[1])[k[2]]
    <2>2. /\ Knows(base, k) <=> Knows(e, k) \/ Tells(s, k)
          /\ k[1] = "interface-errors" =>
               /\ Tells(s, k) => Reference(base, k) = reading
               /\ ~Tells(s, k) /\ Knows(e, k) => Reference(base, k) = Reference(e, k)
          /\ k[1] \notin {"interface-errors", "bgp-neighbor-lost"} =>
               /\ Knows(e, k) => Reference(base, k) = Reference(e, k)
               /\ ~Knows(e, k) /\ Tells(s, k) => Reference(base, k) = reading
      BY <2>1, Learns
    <2>3. Value(h, k, n + 1) = reading
      BY <1>2
    <2> HIDE DEF base, new, reading
    <2>4. Knows(new, k) <=> now # {}
      BY <1>3, <1>5, <1>6, <2>2
    <2>5. now # {} /\ k[1] = "interface-errors" => Reference(new, k) = Value(h, k, Latest(now))
      BY <1>3, <1>5, <1>6, <2>2, <2>3
    <2>6. now # {} /\ k[1] \notin {"interface-errors", "bgp-neighbor-lost"} =>
            Reference(new, k) = Value(h, k, First(now))
      BY <1>3, <1>5, <1>6, <2>2, <2>3
    <2> QED
      BY <2>4, <2>5, <2>6 DEF Knowledge, now, new, base
  <1> QED
    BY <1>7, <1>8

-----------------------------------------------------------------------------
(* Streaks, and what is due *)

\* The last c samples up to the n-th have the verdict, and the one before them has not,
\* unless c is as many as are counted.
StreakIs(h, k, n, c, verdict) ==
  /\ c \in 0..Consecutive /\ c <= n
  /\ \A m \in (n - c + 1)..n : Verdict(h, k, m) = verdict
  /\ c < Consecutive /\ c < n => Verdict(h, k, n - c) # verdict

LEMMA StreakGrows ==
  ASSUME NEW h, NEW k, NEW n \in Nat, NEW c, NEW verdict, StreakIs(h, k, n, c, verdict),
         Verdict(h, k, n + 1) = verdict
  PROVE  StreakIs(h, k, n + 1, Longer(c), verdict)
  <1>1. c \in Nat /\ Consecutive \in Nat /\ c <= Consecutive /\ c <= n
    BY AlertsAssumption DEF StreakIs
  <1>2. \A m \in (n - c + 1)..(n + 1) : Verdict(h, k, m) = verdict
    <2> SUFFICES ASSUME NEW m \in (n - c + 1)..(n + 1) PROVE Verdict(h, k, m) = verdict
      OBVIOUS
    <2>1. m = n + 1 \/ m \in (n - c + 1)..n
      BY <1>1
    <2> QED
      BY <2>1 DEF StreakIs
  <1>3. CASE c < Consecutive
    <2>1. Longer(c) = c + 1
      BY <1>3 DEF Longer
    <2>2. (n + 1) - (c + 1) + 1 = n - c + 1 /\ (n + 1) - (c + 1) = n - c
      BY <1>1
    <2>3. c + 1 < n + 1 => Verdict(h, k, n - c) # verdict
      BY <1>1, <1>3 DEF StreakIs
    <2>4. c + 1 \in 0..Consecutive /\ c + 1 <= n + 1
      BY <1>1, <1>3
    <2> QED
      BY <1>2, <2>1, <2>2, <2>3, <2>4 DEF StreakIs
  <1>4. CASE ~(c < Consecutive)
    <2>1. Longer(c) = c
      BY <1>4 DEF Longer
    <2>2. \A m \in ((n + 1) - c + 1)..(n + 1) : m \in (n - c + 1)..(n + 1)
      BY <1>1
    <2>3. c \in 0..Consecutive /\ c <= n + 1
      BY <1>1
    <2> QED
      BY <1>2, <1>4, <2>1, <2>2, <2>3 DEF StreakIs
  <1> QED
    BY <1>3, <1>4

LEMMA StreakEnds ==
  ASSUME NEW h, NEW k, NEW n \in Nat, NEW verdict, Verdict(h, k, n + 1) # verdict
  PROVE  StreakIs(h, k, n + 1, 0, verdict)
  <1>1. 0 \in 0..Consecutive /\ (n + 1) - 0 = n + 1 /\ 0 <= n + 1
    BY AlertsAssumption
  <1>2. ((n + 1) - 0 + 1)..(n + 1) = {}
    OBVIOUS
  <1> QED
    BY <1>1, <1>2 DEF StreakIs

LEMMA StreakLong ==
  ASSUME NEW h, NEW k, NEW n \in Nat, NEW c, NEW verdict, StreakIs(h, k, n, c, verdict)
  PROVE  c >= Consecutive <=> Streak(h, k, n, verdict)
  <1>1. c \in Nat /\ Consecutive \in Nat \ {0} /\ c <= Consecutive /\ c <= n
    BY AlertsAssumption DEF StreakIs
  <1>2. CASE c >= Consecutive
    <2>1. c = Consecutive
      BY <1>1, <1>2
    <2> QED
      BY <1>1, <2>1 DEF StreakIs, Streak
  <1>3. CASE c < Consecutive /\ n >= Consecutive
    <2>1. n - c \in (n - Consecutive + 1)..n /\ c < n
      BY <1>1, <1>3
    <2>2. Verdict(h, k, n - c) # verdict
      BY <1>3, <2>1 DEF StreakIs
    <2> QED
      BY <1>1, <1>3, <2>1, <2>2 DEF Streak
  <1>4. CASE c < Consecutive /\ ~(n >= Consecutive)
    BY <1>1, <1>4 DEF Streak
  <1> QED
    BY <1>1, <1>2, <1>3, <1>4

LEMMA StreakEndsNow ==
  ASSUME NEW h, NEW k, NEW n \in Nat \ {0}, NEW verdict, Streak(h, k, n, verdict)
  PROVE  Verdict(h, k, n) = verdict
  <1>1. n \in (n - Consecutive + 1)..n
    BY AlertsAssumption
  <1> QED
    BY <1>1 DEF Streak

\* What is kept of an alert, when fired and resolved are the samples that raised it and
\* that ended it.
AlertState(a, h, k, n, fired, resolved) ==
  /\ DOMAIN a = {"bad", "good", "active", "lastSent"}
  /\ fired \in SUBSET (1..n) /\ resolved \in SUBSET (1..n)
  /\ StreakIs(h, k, n, a.bad, "bad") /\ StreakIs(h, k, n, a.good, "good")
  /\ a.active <=> \E m \in fired : \A o \in resolved : ~(m < o)
  /\ fired = {} => a.lastSent = -Cooldown
  /\ fired # {} => a.lastSent \in fired /\ \A m \in fired : m <= a.lastSent

With(numbers, n, now) == IF now THEN numbers \cup {n} ELSE numbers

\* A sample that says nothing of the key.
LEMMA StateFades ==
  ASSUME NEW a, NEW h, NEW k, NEW n \in Nat, NEW fired, NEW resolved,
         AlertState(a, h, k, n, fired, resolved), Verdict(h, k, n + 1) = "nothing"
  PROVE  /\ AlertState(StreakBroken(a), h, k, n + 1, fired, resolved)
         /\ ~FiringDue(h, fired, k, n + 1) /\ ~ResolvedDue(h, fired, resolved, k, n + 1)
  <1> DEFINE b == StreakBroken(a)
  <1>1. /\ DOMAIN b = {"bad", "good", "active", "lastSent"} /\ b.bad = 0 /\ b.good = 0
        /\ b.active = a.active /\ b.lastSent = a.lastSent
    BY DEF StreakBroken, AlertState
  <1> HIDE DEF b
  <1>2. StreakIs(h, k, n + 1, 0, "bad") /\ StreakIs(h, k, n + 1, 0, "good")
    BY StreakEnds
  <1>3. fired \in SUBSET (1..n + 1) /\ resolved \in SUBSET (1..n + 1)
    BY DEF AlertState
  <1>4. AlertState(b, h, k, n + 1, fired, resolved)
    BY <1>1, <1>2, <1>3 DEF AlertState
  <1>5. n + 1 \in Nat \ {0}
    OBVIOUS
  <1>6. ~Streak(h, k, n + 1, "bad") /\ ~Streak(h, k, n + 1, "good")
    BY <1>5, StreakEndsNow
  <1> QED
    BY <1>4, <1>6 DEF FiringDue, ResolvedDue, b

\* A sample that says something of the key: the alert fires, or is resolved, when it is due.
LEMMA StateGrows ==
  ASSUME NEW a, NEW h, NEW k, NEW n \in Nat, NEW fired, NEW resolved,
         AlertState(a, h, k, n, fired, resolved), NEW bad,
         Verdict(h, k, n + 1) = IF bad THEN "bad" ELSE "good"
  PROVE  LET b     == Counted(a, bad)
             fires == Fires(b, n + 1)
             ends  == ~Fires(b, n + 1) /\ Resolves(b)
         IN  /\ fires <=> FiringDue(h, fired, k, n + 1)
             /\ ends <=> ResolvedDue(h, fired, resolved, k, n + 1)
             /\ AlertState(Sent(b, n + 1), h, k, n + 1,
                           With(fired, n + 1, fires), With(resolved, n + 1, ends))
  <1> DEFINE b     == Counted(a, bad)
             fires == Fires(b, n + 1)
             ends  == ~Fires(b, n + 1) /\ Resolves(b)
             c     == Sent(b, n + 1)
  <1>1. /\ DOMAIN b = {"bad", "good", "active", "lastSent"}
        /\ b.bad = (IF bad THEN Longer(a.bad) ELSE 0) /\ b.good = (IF bad THEN 0 ELSE Longer(a.good))
        /\ b.active = a.active /\ b.lastSent = a.lastSent
    BY DEF Counted, AlertState
  <1> HIDE DEF b
  <1>2. StreakIs(h, k, n + 1, b.bad, "bad") /\ StreakIs(h, k, n + 1, b.good, "good")
    BY <1>1, StreakGrows, StreakEnds DEF AlertState
  <1>3. /\ b.bad >= Consecutive <=> Streak(h, k, n + 1, "bad")
        /\ b.good >= Consecutive <=> Streak(h, k, n + 1, "good")
    BY <1>2, StreakLong
  <1>4. /\ fired \in SUBSET (1..n) /\ resolved \in SUBSET (1..n) /\ Cooldown \in Nat
        /\ fired = {} => a.lastSent = -Cooldown
        /\ fired # {} => a.lastSent \in fired /\ \A m \in fired : m <= a.lastSent
        /\ a.active <=> \E m \in fired : \A o \in resolved : ~(m < o)
    BY AlertsAssumption DEF AlertState
  <1>5. (n + 1) - a.lastSent >= Cooldown <=> \A m \in fired : m < n + 1 => (n + 1) - m >= Cooldown
    <2>1. CASE fired = {}
      BY <1>4, <2>1
    <2>2. CASE fired # {}
      <3>1. a.lastSent \in fired /\ a.lastSent \in 1..n /\ \A m \in fired : m \in 1..n /\ m <= a.lastSent
        BY <1>4, <2>2
      <3>2. \A m \in fired : (n + 1) - m >= (n + 1) - a.lastSent /\ m < n + 1
        BY <3>1
      <3>3. ASSUME (n + 1) - a.lastSent >= Cooldown, NEW m \in fired PROVE (n + 1) - m >= Cooldown
        BY <1>4, <3>1, <3>3
      <3>4. a.lastSent < n + 1
        BY <3>1
      <3> QED
        BY <3>1, <3>3, <3>4
    <2> QED
      BY <2>1, <2>2
  <1>6. fires <=> FiringDue(h, fired, k, n + 1)
    BY <1>1, <1>3, <1>5 DEF Fires, FiringDue
  <1>7. (\E m \in fired : m < n + 1 /\ \A o \in resolved : ~(m < o /\ o < n + 1)) <=> a.active
    <2>1. \A m \in fired \cup resolved : m < n + 1
      BY <1>4
    <2> QED
      BY <1>4, <2>1
  <1>8. Streak(h, k, n + 1, "good") => ~bad
    <2>1. n + 1 \in Nat \ {0}
      OBVIOUS
    <2> QED
      BY <2>1, StreakEndsNow
  <1>9. b.bad = 0 => ~fires
    BY AlertsAssumption DEF Fires
  <1>10. ends <=> ResolvedDue(h, fired, resolved, k, n + 1)
    BY <1>1, <1>3, <1>7, <1>8, <1>9 DEF Resolves, ResolvedDue
  <1>11. /\ DOMAIN c = {"bad", "good", "active", "lastSent"} /\ c.bad = b.bad /\ c.good = b.good
         /\ c.active = (IF fires THEN TRUE ELSE IF ends THEN FALSE ELSE a.active)
         /\ c.lastSent = (IF fires THEN n + 1 ELSE a.lastSent)
    BY <1>1 DEF Sent
  <1> DEFINE newFired == With(fired, n + 1, fires)
             newResolved == With(resolved, n + 1, ends)
  <1>12. ~(fires /\ ends)
    OBVIOUS
  <1> HIDE DEF fires, ends, c
  <1>13. /\ newFired = (IF fires THEN fired \cup {n + 1} ELSE fired)
         /\ newResolved = (IF ends THEN resolved \cup {n + 1} ELSE resolved)
    BY DEF With
  <1> HIDE DEF newFired, newResolved
  <1>14. newFired \in SUBSET (1..n + 1) /\ newResolved \in SUBSET (1..n + 1)
    BY <1>4, <1>13
  <1>15. c.active <=> \E m \in newFired : \A o \in newResolved : ~(m < o)
    <2>1. CASE fires
      <3>1. n + 1 \in newFired /\ newResolved = resolved /\ \A o \in resolved : ~(n + 1 < o)
        BY <1>4, <1>12, <1>13, <2>1
      <3> QED
        BY <1>11, <2>1, <3>1
    <2>2. CASE ends
      <3>1. newFired = fired /\ n + 1 \in newResolved /\ \A m \in fired : m < n + 1
        BY <1>4, <1>12, <1>13, <2>2
      <3> QED
        BY <1>11, <1>12, <2>2, <3>1
    <2>3. CASE ~fires /\ ~ends
      BY <1>4, <1>11, <1>13, <2>3
    <2> QED
      BY <2>1, <2>2, <2>3
  <1>16. /\ newFired = {} => c.lastSent = -Cooldown
         /\ newFired # {} => c.lastSent \in newFired /\ \A m \in newFired : m <= c.lastSent
    <2>1. CASE fires
      BY <1>4, <1>11, <1>13, <2>1
    <2>2. CASE ~fires
      BY <1>4, <1>11, <1>13, <2>2
    <2> QED
      BY <2>1, <2>2
  <1>17. StreakIs(h, k, n + 1, c.bad, "bad") /\ StreakIs(h, k, n + 1, c.good, "good")
    BY <1>2, <1>11
  <1>18. DOMAIN c = {"bad", "good", "active", "lastSent"}
    BY <1>11
  <1>19. AlertState(c, h, k, n + 1, newFired, newResolved)
    BY <1>14, <1>15, <1>16, <1>17, <1>18 DEF AlertState
  <1> QED
    BY <1>6, <1>10, <1>19 DEF b, c, fires, ends, newFired, newResolved

\* The latest of numbers that are bounded is one of them: the distances to the bound
\* have a least one.
LEMMA HasLatest ==
  ASSUME NEW n \in Nat, NEW P \in SUBSET (1..n), P # {}
  PROVE  Latest(P) \in P
  <1> DEFINE D == {n - m : m \in P}
  <1>1. D \in SUBSET Nat /\ D # {}
    <2>1. \A m \in P : n - m \in Nat /\ n - m \in D
      OBVIOUS
    <2> QED
      BY <2>1
  <1>2. First(D) \in D /\ \A o \in D : First(D) <= o
    BY <1>1, HasFirst
  <1>3. PICK m \in P : First(D) = n - m
    BY <1>2
  <1>4. \A o \in P : n - m <= n - o
    BY <1>2, <1>3
  <1>5. \A o \in P : m >= o
    BY <1>4
  <1> QED
    BY <1>5 DEF Latest

\* The state of an alert that nothing was said of is quiet.
StateOf(e, k) == IF k \in DOMAIN e.states THEN e.states[k] ELSE Quiet

\* Observe, for one key: what it raises is what is due, and what it keeps is right.
LEMMA ObserveIsRight ==
  ASSUME NEW e, IsEngine(e), NEW h, NEW k, IsKey(k), NEW n \in Nat, NEW s, s = h[n + 1], IsSample(s),
         NEW fired, NEW resolved,
         Knowledge(e, h, k, n), AlertState(StateOf(e, k), h, k, n, fired, resolved)
  PROVE  LET seen == Observe(e, s, n + 1) IN
           /\ k \in seen.firing <=> FiringDue(h, fired, k, n + 1)
           /\ k \in seen.resolved <=> ResolvedDue(h, fired, resolved, k, n + 1)
           /\ Knowledge(seen.engine, h, k, n + 1)
           /\ AlertState(StateOf(seen.engine, k), h, k, n + 1,
                         With(fired, n + 1, k \in seen.firing), With(resolved, n + 1, k \in seen.resolved))
  <1> DEFINE seen == Observe(e, s, n + 1)
             a    == StateOf(e, k)
             bad  == Bad(e, s, k)
  <1>1. StreakBroken(Quiet) = Quiet
    <2> DEFINE quiet(x) == [bad |-> 0, good |-> 0, active |-> FALSE, lastSent |-> x]
    <2>1. ASSUME NEW x PROVE StreakBroken(quiet(x)) = quiet(x)
      <3> DEFINE q == quiet(x)
      <3>1. DOMAIN q = {"bad", "good", "active", "lastSent"} /\ q.bad = 0 /\ q.good = 0
        OBVIOUS
      <3>2. [q EXCEPT !.bad = 0] = q
        BY <3>1
      <3>3. [q EXCEPT !.good = 0] = q
        BY <3>1
      <3> HIDE DEF q
      <3>4. [q EXCEPT !.bad = 0, !.good = 0] = [[q EXCEPT !.bad = 0] EXCEPT !.good = 0]
        OBVIOUS
      <3> QED
        BY <3>2, <3>3, <3>4 DEF StreakBroken, q
    <2>2. Quiet = quiet(-Cooldown)
      BY DEF Quiet
    <2> HIDE DEF quiet
    <2> QED
      BY <2>1, <2>2
  <1>2. Verdict(h, k, n + 1) = IF ~s.healthy \/ k \notin Told(e, s) THEN "nothing"
                               ELSE IF bad THEN "bad" ELSE "good"
    BY EngineJudges
  <1>3. CASE ~s.healthy
    <2> DEFINE f == [j \in DOMAIN e.states |-> StreakBroken(e.states[j])]
    <2>1. /\ seen.engine = [e EXCEPT !.states = f] /\ k \notin seen.firing /\ k \notin seen.resolved
      BY <1>3 DEF Observe
    <2>2. (IF s.healthy THEN Learned(e, s) ELSE e) = e
      BY <1>3
    <2>3. Knowledge([e EXCEPT !.states = f], h, k, n + 1)
      BY <2>2, KnowledgeGrows
    <2>4. seen.engine.states = f
      BY <2>1 DEF IsEngine
    <2>5. StateOf(seen.engine, k) = StreakBroken(a)
      BY <1>1, <2>4 DEF StateOf
    <2>6. Verdict(h, k, n + 1) = "nothing"
      BY <1>2, <1>3
    <2> HIDE DEF seen, a, bad
    <2>7. /\ AlertState(StreakBroken(a), h, k, n + 1, fired, resolved)
          /\ ~FiringDue(h, fired, k, n + 1) /\ ~ResolvedDue(h, fired, resolved, k, n + 1)
      BY <2>6, StateFades DEF a
    <2>8. With(fired, n + 1, k \in seen.firing) = fired /\ With(resolved, n + 1, k \in seen.resolved) = resolved
      BY <2>1 DEF With
    <2>9. Knowledge(seen.engine, h, k, n + 1)
      BY <2>1, <2>3
    <2> QED
      BY <2>1, <2>5, <2>7, <2>8, <2>9 DEF seen
  <1>4. CASE s.healthy
    <2> DEFINE keys    == Told(e, s)
               before  == [j \in keys |-> Counted(StateOf(e, j), Bad(e, s, j))]
               unheard == [j \in DOMAIN e.states \ keys |-> StreakBroken(e.states[j])]
               sent    == [j \in keys |-> Sent(before[j], n + 1)]
               f       == Over(unheard, sent)
    <2>1. /\ seen.engine = [Learned(e, s) EXCEPT !.states = f]
          /\ seen.firing = {j \in keys : Fires(before[j], n + 1)}
          /\ seen.resolved = {j \in keys : ~Fires(before[j], n + 1) /\ Resolves(before[j])}
      BY <1>4 DEF Observe, StateOf
    <2>2. (IF s.healthy THEN Learned(e, s) ELSE e) = Learned(e, s) /\ DOMAIN Learned(e, s) = DOMAIN e
      BY <1>4 DEF Learned
    <2>3. Knowledge([Learned(e, s) EXCEPT !.states = f], h, k, n + 1)
      <3> HIDE DEF f
      <3> QED
        BY <2>2, KnowledgeGrows
    <2>4. seen.engine.states = f
      BY <2>1, <2>2 DEF IsEngine
    <2>5. k \in keys => StateOf(seen.engine, k) = Sent(before[k], n + 1)
      <3>1. k \in keys => k \in DOMAIN f /\ f[k] = Sent(before[k], n + 1)
        BY DEF Over
      <3> HIDE DEF f, keys, before
      <3> QED
        BY <2>4, <3>1 DEF StateOf
    <2>6. k \notin keys => StateOf(seen.engine, k) = StreakBroken(a)
      <3>1. k \notin keys => /\ k \in DOMAIN f <=> k \in DOMAIN e.states
                             /\ k \in DOMAIN e.states => f[k] = StreakBroken(e.states[k])
        BY DEF Over
      <3> HIDE DEF f, keys
      <3> QED
        BY <1>1, <2>4, <3>1 DEF StateOf
    <2>7. k \in keys => before[k] = Counted(a, bad)
      OBVIOUS
    <2>8. Knowledge(seen.engine, h, k, n + 1)
      BY <2>1, <2>3
    <2>9. CASE k \notin keys
      <3>1. k \notin seen.firing /\ k \notin seen.resolved
        BY <2>1, <2>9
      <3>2. Verdict(h, k, n + 1) = "nothing"
        BY <1>2, <2>9
      <3> HIDE DEF seen, a, bad, keys
      <3>3. /\ AlertState(StreakBroken(a), h, k, n + 1, fired, resolved)
            /\ ~FiringDue(h, fired, k, n + 1) /\ ~ResolvedDue(h, fired, resolved, k, n + 1)
        BY <3>2, StateFades DEF a
      <3>4. With(fired, n + 1, k \in seen.firing) = fired /\ With(resolved, n + 1, k \in seen.resolved) = resolved
        BY <3>1 DEF With
      <3> QED
        BY <2>6, <2>8, <2>9, <3>1, <3>3, <3>4 DEF seen
    <2>10. CASE k \in keys
      <3> DEFINE b     == Counted(a, bad)
                 fires == Fires(b, n + 1)
                 ends  == ~Fires(b, n + 1) /\ Resolves(b)
      <3>1. Verdict(h, k, n + 1) = IF bad THEN "bad" ELSE "good"
        BY <1>2, <1>4, <2>10
      <3>3. (k \in seen.firing <=> fires) /\ (k \in seen.resolved <=> ends)
            /\ StateOf(seen.engine, k) = Sent(b, n + 1)
        BY <2>1, <2>5, <2>7, <2>10
      <3> HIDE DEF seen, a, bad, keys, before
      <3>4. /\ fires <=> FiringDue(h, fired, k, n + 1)
            /\ ends <=> ResolvedDue(h, fired, resolved, k, n + 1)
            /\ AlertState(Sent(b, n + 1), h, k, n + 1, With(fired, n + 1, fires), With(resolved, n + 1, ends))
        BY <3>1, StateGrows DEF a
      <3> HIDE DEF b, fires, ends
      <3>5. /\ With(fired, n + 1, k \in seen.firing) = With(fired, n + 1, fires)
            /\ With(resolved, n + 1, k \in seen.resolved) = With(resolved, n + 1, ends)
        BY <3>3 DEF With
      <3> QED
        BY <2>8, <3>3, <3>4, <3>5 DEF seen
    <2> QED
      BY <2>9, <2>10
  <1> QED
    BY <1>3, <1>4

-----------------------------------------------------------------------------
(* Histories that agree *)

Agree(h, g, n) == \A m \in 1..n : h[m] = g[m]

LEMMA HeardSame ==
  ASSUME NEW h, NEW g, NEW n \in Nat, Agree(h, g, n), NEW k, NEW m \in 0..n
  PROVE  Heard(h, k, m) = Heard(g, k, m)
  <1>1. \A o \in 1..m : h[o] = g[o]
    BY DEF Agree
  <1> QED
    BY <1>1 DEF Heard

LEMMA VerdictSame ==
  ASSUME NEW h, NEW g, NEW n \in Nat, Agree(h, g, n), NEW k, NEW m \in 1..n
  PROVE  Verdict(h, k, m) = Verdict(g, k, m)
  <1> DEFINE past == Heard(h, k, m - 1)
  <1>1. Heard(g, k, m - 1) = past /\ Heard(h, k, m) = Heard(g, k, m) /\ h[m] = g[m]
    <2>1. m \in 0..n /\ m - 1 \in 0..n
      OBVIOUS
    <2> QED
      BY <2>1, HeardSame DEF Agree
  <1>2. past \in SUBSET (1..n) /\ past \in SUBSET Nat
    BY DEF Heard
  <1>3. \A o \in 1..n : Value(h, k, o) = Value(g, k, o)
    BY DEF Agree, Value
  <1>4. past # {} => First(past) \in past
    BY <1>2, HasFirst
  <1>5. past # {} => Value(h, k, First(past)) = Value(g, k, First(past))
    BY <1>2, <1>3, <1>4
  <1>6. past # {} => Value(h, k, Latest(past)) = Value(g, k, Latest(past))
    BY <1>2, <1>3, HasLatest
  <1>7. Value(h, k, m) = Value(g, k, m)
    BY <1>3
  <1> HIDE DEF past
  <1>8. CASE k[1] = "bgp-neighbor-lost"
    BY <1>1, <1>8 DEF Verdict
  <1>9. CASE k[1] # "bgp-neighbor-lost" /\ (past = {} \/ m \notin Heard(h, k, m))
    BY <1>1, <1>9 DEF Verdict, past
  <1>10. CASE k[1] # "bgp-neighbor-lost" /\ past # {} /\ m \in Heard(h, k, m)
    BY <1>1, <1>5, <1>6, <1>7, <1>10 DEF Verdict, past
  <1> QED
    BY <1>8, <1>9, <1>10

LEMMA StreakSame ==
  ASSUME NEW h, NEW g, NEW n \in Nat, Agree(h, g, n), NEW k, NEW m \in 1..n, NEW verdict
  PROVE  Streak(h, k, m, verdict) <=> Streak(g, k, m, verdict)
  <1>1. m >= Consecutive => \A o \in (m - Consecutive + 1)..m : o \in 1..n
    BY AlertsAssumption
  <1> QED
    BY <1>1, VerdictSame DEF Streak

\* What is due at a sample rests on the samples to it and on the alerts before it.
LEMMA DueSame ==
  ASSUME NEW h, NEW g, NEW n \in Nat, Agree(h, g, n), NEW k, NEW m \in 1..n,
         NEW fired \in SUBSET Int, NEW resolved \in SUBSET Int,
         NEW firing \in SUBSET Int, NEW resolving \in SUBSET Int,
         \A o \in Int : o < m => (o \in fired <=> o \in firing) /\ (o \in resolved <=> o \in resolving)
  PROVE  /\ FiringDue(h, fired, k, m) <=> FiringDue(g, firing, k, m)
         /\ ResolvedDue(h, fired, resolved, k, m) <=> ResolvedDue(g, firing, resolving, k, m)
  <1>1. \A verdict : Streak(h, k, m, verdict) <=> Streak(g, k, m, verdict)
    BY StreakSame
  <1> QED
    BY <1>1 DEF FiringDue, ResolvedDue

LEMMA KnowledgeSame ==
  ASSUME NEW h, NEW g, NEW n \in Nat, Agree(h, g, n), NEW k, NEW e, Knowledge(e, h, k, n)
  PROVE  Knowledge(e, g, k, n)
  <1> DEFINE past == Heard(h, k, n)
  <1>1. Heard(g, k, n) = past
    BY HeardSame
  <1>2. past \in SUBSET (1..n) /\ past \in SUBSET Nat
    BY DEF Heard
  <1>3. \A o \in 1..n : Value(h, k, o) = Value(g, k, o)
    BY DEF Agree, Value
  <1>4. past # {} => First(past) \in past /\ Latest(past) \in past
    BY <1>2, HasFirst, HasLatest
  <1>5. past # {} => /\ Value(h, k, First(past)) = Value(g, k, First(past))
                     /\ Value(h, k, Latest(past)) = Value(g, k, Latest(past))
    BY <1>2, <1>3, <1>4
  <1> HIDE DEF past
  <1> QED
    BY <1>1, <1>5 DEF Knowledge, past

LEMMA AlertStateSame ==
  ASSUME NEW h, NEW g, NEW n \in Nat, Agree(h, g, n), NEW k, NEW a, NEW fired, NEW resolved,
         AlertState(a, h, k, n, fired, resolved)
  PROVE  AlertState(a, g, k, n, fired, resolved)
  <1>1. ASSUME NEW c, NEW verdict, StreakIs(h, k, n, c, verdict) PROVE StreakIs(g, k, n, c, verdict)
    <2>1. c \in Nat /\ c <= n
      BY <1>1, AlertsAssumption DEF StreakIs
    <2>2. \A m \in (n - c + 1)..n : m \in 1..n
      BY <2>1
    <2>3. c < n => n - c \in 1..n
      BY <2>1
    <2> QED
      BY <1>1, <2>2, <2>3, VerdictSame DEF StreakIs
  <1> QED
    BY <1>1 DEF AlertState

-----------------------------------------------------------------------------
(* Alerts on record *)

LinesIn(s) == UNION {Range(s[i].lines) : i \in DOMAIN s}
TicksIn(L) == {x \in L : IsTick(x)}
AlertsIn(L, state, k) == {x.n : x \in {l \in L : l.kind = state /\ l.key = k}}
HistoryIn(L) ==
  [n \in {x.n : x \in TicksIn(L)} |-> Samples[(CHOOSE x \in TicksIn(L) : x.n = n).key]]

\* The lines are records of the first n ticks, and of one sample for each.
Rightful(L, n) ==
  /\ \A x \in L : x.n \in 1..n /\ (IsTick(x) => x.key \in DOMAIN Samples)
  /\ \A x, y \in TicksIn(L) : x.n = y.n => x = y

\* With the records that are still to be written.
Listed(t, state, k) == {t[i].n : i \in {j \in 1..Len(t) : t[j].kind = state /\ t[j].key = k}}
Alerts(L, t, state, k) == AlertsIn(L, state, k) \cup Listed(t, state, k)

\* The alerts of the key at the m-th sample are those that are due.
Due(h, fired, resolved, k, m) ==
  /\ m \in fired <=> FiringDue(h, fired, k, m)
  /\ m \in resolved <=> ResolvedDue(h, fired, resolved, k, m)

\* No alert is missing of a tick that is over, and none is there that was not due.
Frozen(L, n) ==
  \A k \in AlertKeys : \A m \in 1..n : m < n =>
    Due(HistoryIn(L), AlertsIn(L, "firing", k), AlertsIn(L, "resolved", k), k, m)

\* The engine has judged the first n samples.
Judged(e, L, t, n, k) ==
  LET fired    == Alerts(L, t, "firing", k)
      resolved == Alerts(L, t, "resolved", k)
  IN  /\ Knowledge(e, HistoryIn(L), k, n)
      /\ AlertState(StateOf(e, k), HistoryIn(L), k, n, fired, resolved)
      /\ \A m \in 1..n : Due(HistoryIn(L), fired, resolved, k, m)

Busy(r) == pc[r] \in BetweenTicks \cup WithRecord

\* Only lines of the last tick are not flushed, and those only while they are written or
\* when the run is over.
Unflushed(r) ==
  \A i \in 1..Len(seg[r]) :
    /\ \A j \in 1..Len(seg[r][i].lines) :
         j > seg[r][i].flushed => seg[r][i].lines[j].n = tick[r]
    /\ Busy(r) => Whole(seg[r][i]) \/ (pc[r] = "sync" /\ i = Len(seg[r]))

\* The records of the tick, and which of them are in the segments.
Records(r) ==
  /\ pc[r] \in BetweenTicks => todo[r] = <<>>
  /\ pc[r] \in {"sync", "status", "deliver"} => todo[r][1] \in LinesIn(seg[r])
  /\ pc[r] \in WithRecord /\ IsTick(todo[r][1]) =>
       /\ Len(todo[r]) = 1
       /\ pc[r] \in {"append", "seal", "mark", "reopen", "write"} =>
            \A x \in TicksIn(LinesIn(seg[r])) : x.n <= last[r]
  /\ pc[r] \in WithRecord /\ ~IsTick(todo[r][1]) =>
       tick[r] # 0 /\ \A i \in 1..Len(todo[r]) : todo[r][i].n = tick[r]

Telling(r) ==
  /\ tick[r] <= last[r] + 1 /\ Rightful(LinesIn(seg[r]), tick[r])
  /\ Unflushed(r) /\ Records(r)
  /\ Frozen(LinesIn(seg[r]), tick[r])
  /\ Busy(r) => \A k \in AlertKeys : Judged(engine[r], LinesIn(seg[r]), todo[r], last[r], k)

DueInv == HealthInv /\ \A r \in Runs : Telling(r)

-----------------------------------------------------------------------------
(* Lines that are the same, and what follows of the alerts *)

LEMMA LineIn ==
  ASSUME NEW s, IsSequence(s), \A i \in 1..Len(s) : IsSegment(s[i])
  PROVE  \A x : x \in LinesIn(s) <=>
           \E i \in 1..Len(s) : \E j \in 1..Len(s[i].lines) : x = s[i].lines[j]
  <1>1. DOMAIN s = 1..Len(s) /\ \A i \in 1..Len(s) : DOMAIN s[i].lines = 1..Len(s[i].lines)
    BY SequenceDomain DEF IsSegment
  <1>2. ASSUME NEW i \in 1..Len(s), NEW x
        PROVE  x \in Range(s[i].lines) <=> \E j \in 1..Len(s[i].lines) : x = s[i].lines[j]
    BY <1>1 DEF Range
  <1>3. \A x : x \in LinesIn(s) <=> \E i \in 1..Len(s) : x \in Range(s[i].lines)
    BY <1>1 DEF LinesIn
  <1> QED
    <2> SUFFICES ASSUME NEW x
                 PROVE  x \in LinesIn(s) <=>
                          \E i \in 1..Len(s) : \E j \in 1..Len(s[i].lines) : x = s[i].lines[j]
      OBVIOUS
    <2> DEFINE In(i) == x \in Range(s[i].lines)
    <2>1. x \in LinesIn(s) <=> \E i \in 1..Len(s) : In(i)
      BY <1>3
    <2>2. \A i \in 1..Len(s) : In(i) <=> \E j \in 1..Len(s[i].lines) : x = s[i].lines[j]
      BY <1>2
    <2> HIDE DEF In
    <2> QED
      BY <2>1, <2>2

LEMMA HistoryTells ==
  ASSUME NEW L, NEW n, Rightful(L, n), NEW x \in TicksIn(L)
  PROVE  x.n \in DOMAIN HistoryIn(L) /\ HistoryIn(L)[x.n] = Samples[x.key]
  <1>1. (CHOOSE y \in TicksIn(L) : y.n = x.n) = x
    BY DEF Rightful
  <1> QED
    BY <1>1 DEF HistoryIn

\* Lines that hold the same ticks to the n-th tell the same history.
LEMMA HistoriesAgree ==
  ASSUME NEW L, NEW l, Rightful(L, l), NEW M, NEW m, Rightful(M, m), NEW n \in Nat,
         \A o \in 1..n : \E x \in TicksIn(L) : x.n = o /\ x \in TicksIn(M)
  PROVE  Agree(HistoryIn(L), HistoryIn(M), n)
  <1> SUFFICES ASSUME NEW o \in 1..n PROVE HistoryIn(L)[o] = HistoryIn(M)[o]
    BY DEF Agree
  <1>1. PICK x \in TicksIn(L) : x.n = o /\ x \in TicksIn(M)
    OBVIOUS
  <1>2. HistoryIn(L)[x.n] = Samples[x.key]
    BY HistoryTells
  <1>3. HistoryIn(M)[x.n] = Samples[x.key]
    BY <1>1, HistoryTells
  <1> QED
    BY <1>1, <1>2, <1>3

\* A tick that is over stays as it was when only lines of later ticks come or go.
LEMMA FrozenSame ==
  ASSUME NEW L, NEW M, NEW n \in Nat, Rightful(L, n), Rightful(M, n), Frozen(L, n),
         \A o \in 1..n - 1 : \E x \in TicksIn(L) : x.n = o,
         \A x \in L \cup M : x.n < n => (x \in L <=> x \in M)
  PROVE  Frozen(M, n)
  <1> SUFFICES ASSUME NEW k \in AlertKeys, NEW m \in 1..n, m < n
               PROVE  Due(HistoryIn(M), AlertsIn(M, "firing", k), AlertsIn(M, "resolved", k), k, m)
    BY DEF Frozen
  <1>1. n - 1 \in Nat /\ m \in 1..n - 1
    OBVIOUS
  <1>2. Agree(HistoryIn(L), HistoryIn(M), n - 1)
    <2>1. \A o \in 1..n - 1 : \E x \in TicksIn(L) : x.n = o /\ x \in TicksIn(M)
      <3> SUFFICES ASSUME NEW o \in 1..n - 1 PROVE \E x \in TicksIn(L) : x.n = o /\ x \in TicksIn(M)
        OBVIOUS
      <3>1. PICK x \in TicksIn(L) : x.n = o
        OBVIOUS
      <3>2. x \in L /\ x.n < n
        BY <3>1 DEF TicksIn
      <3> QED
        BY <3>1, <3>2 DEF TicksIn
    <2> QED
      BY <1>1, <2>1, HistoriesAgree
  <1>3. ASSUME NEW state, NEW o, o < n
        PROVE  o \in AlertsIn(L, state, k) <=> o \in AlertsIn(M, state, k)
    BY <1>3 DEF AlertsIn
  <1>4. \A o \in Int : o < m => o < n
    OBVIOUS
  <1>5. Due(HistoryIn(L), AlertsIn(L, "firing", k), AlertsIn(L, "resolved", k), k, m)
    BY DEF Frozen
  <1> DEFINE fired == AlertsIn(L, "firing", k)
             resolved == AlertsIn(L, "resolved", k)
             firing == AlertsIn(M, "firing", k)
             resolving == AlertsIn(M, "resolved", k)
  <1>6. \A o \in Int : o < n => (o \in fired <=> o \in firing) /\ (o \in resolved <=> o \in resolving)
    BY <1>3
  <1>9. /\ fired \in SUBSET Int /\ resolved \in SUBSET Int
        /\ firing \in SUBSET Int /\ resolving \in SUBSET Int
    BY DEF AlertsIn, Rightful
  <1> HIDE DEF fired, resolved, firing, resolving
  <1>7. /\ FiringDue(HistoryIn(L), fired, k, m) <=> FiringDue(HistoryIn(M), firing, k, m)
        /\ ResolvedDue(HistoryIn(L), fired, resolved, k, m) <=> ResolvedDue(HistoryIn(M), firing, resolving, k, m)
    BY <1>1, <1>2, <1>4, <1>6, <1>9, DueSame
  <1>8. Due(HistoryIn(M), firing, resolving, k, m)
    BY <1>5, <1>6, <1>7 DEF Due, fired, resolved
  <1> QED
    BY <1>8 DEF firing, resolving

\* So stays what the engine has judged.
LEMMA JudgedSame ==
  ASSUME NEW e, NEW L, NEW M, NEW t, NEW u, NEW n \in Nat, NEW k, Judged(e, L, t, n, k),
         Agree(HistoryIn(L), HistoryIn(M), n),
         \A state \in {"firing", "resolved"} : Alerts(L, t, state, k) = Alerts(M, u, state, k)
  PROVE  Judged(e, M, u, n, k)
  <1> DEFINE fired == Alerts(L, t, "firing", k)
             resolved == Alerts(L, t, "resolved", k)
  <1>1. Alerts(M, u, "firing", k) = fired /\ Alerts(M, u, "resolved", k) = resolved
    OBVIOUS
  <1>2. /\ Knowledge(e, HistoryIn(L), k, n)
        /\ AlertState(StateOf(e, k), HistoryIn(L), k, n, fired, resolved)
        /\ \A m \in 1..n : Due(HistoryIn(L), fired, resolved, k, m)
    BY DEF Judged
  <1> HIDE DEF fired, resolved
  <1>3. Knowledge(e, HistoryIn(M), k, n)
    BY <1>2, KnowledgeSame
  <1>4. AlertState(StateOf(e, k), HistoryIn(M), k, n, fired, resolved)
    BY <1>2, AlertStateSame
  <1>5. \A m \in 1..n : Due(HistoryIn(M), fired, resolved, k, m)
    <2> SUFFICES ASSUME NEW m \in 1..n PROVE Due(HistoryIn(M), fired, resolved, k, m)
      OBVIOUS
    <2>0. fired \in SUBSET Int /\ resolved \in SUBSET Int
      BY <1>2 DEF AlertState
    <2>1. /\ FiringDue(HistoryIn(L), fired, k, m) <=> FiringDue(HistoryIn(M), fired, k, m)
          /\ ResolvedDue(HistoryIn(L), fired, resolved, k, m) <=> ResolvedDue(HistoryIn(M), fired, resolved, k, m)
      BY <2>0, DueSame
    <2> QED
      BY <1>2, <2>1 DEF Due
  <1> QED
    BY <1>1, <1>3, <1>4, <1>5 DEF Judged, fired, resolved

-----------------------------------------------------------------------------
(* The events of a tick *)

LEMMA SetIsInSequence ==
  ASSUME NEW S, IsFiniteSet(S)
  PROVE  \A x \in S : \E i \in 1..Len(SetToSeq(S)) : SetToSeq(S)[i] = x
  <1> DEFINE n == Cardinality(S)
  <1>1. n \in Nat /\ ExistsBijection(1..n, S)
    BY FS_CardinalityType
  <1>2. \E f \in [1..n -> S] : IsInjective(f)
    BY <1>1 DEF ExistsBijection, Bijection, Injection, IsInjective
  <1>3. SetToSeq(S) \in [1..n -> S] /\ IsInjective(SetToSeq(S))
    BY <1>2 DEF SetToSeq
  <1> DEFINE f == SetToSeq(S)
  <1>4. f \in Injection(1..n, S)
    BY <1>3 DEF Injection, IsInjective
  <1>5. IsFiniteSet(1..n) /\ Cardinality(1..n) = n
    BY <1>1, FS_Interval
  <1>6. f \in Surjection(1..n, S)
    <2>1. Cardinality(1..n) = Cardinality(S)
      BY <1>5
    <2> HIDE DEF n, f
    <2> QED
      BY <1>4, <2>1, FS_Injection
  <1>7. \A x \in S : \E i \in 1..n : f[i] = x
    BY <1>6 DEF Surjection
  <1>8. Len(f) = n
    <2> HIDE DEF n
    <2>1. f \in Seq(S)
      BY <1>1, <1>3, SeqDef
    <2>2. DOMAIN f = 1..n /\ DOMAIN f = 1..Len(f) /\ Len(f) \in Nat
      BY <1>3, <2>1, LenProperties
    <2> QED
      BY <1>1, <2>2
  <1> QED
    BY <1>7, <1>8

\* The records of a tick are the alerts it has raised.
LEMMA EventsTell ==
  ASSUME NEW n, NEW seen, IsFiniteSet(seen.firing), IsFiniteSet(seen.resolved), NEW k
  PROVE  LET t == Events(n, seen) IN
           /\ \A i \in 1..Len(t) : t[i].n = n
           /\ Listed(t, "firing", k) = IF k \in seen.firing THEN {n} ELSE {}
           /\ Listed(t, "resolved", k) = IF k \in seen.resolved THEN {n} ELSE {}
  <1> DEFINE F == {AlertRecord(n, "firing", j) : j \in seen.firing}
             R == {AlertRecord(n, "resolved", j) : j \in seen.resolved}
             S == F \cup R
             t == Events(n, seen)
  <1>1. IsFiniteSet(S)
    <2>1. IsFiniteSet(F) /\ IsFiniteSet(R)
      BY RecordsAreFinite
    <2> HIDE DEF F, R
    <2> QED
      BY <2>1, FS_Union
  <1>2. /\ \A x \in S : x.n = n
        /\ \A x \in S : x.kind = "firing" /\ x.key = k => k \in seen.firing
        /\ \A x \in S : x.kind = "resolved" /\ x.key = k => k \in seen.resolved
    BY DEF AlertRecord
  <1>3. /\ k \in seen.firing => \E x \in S : x.kind = "firing" /\ x.key = k
        /\ k \in seen.resolved => \E x \in S : x.kind = "resolved" /\ x.key = k
    <2>1. \A j \in seen.firing : AlertRecord(n, "firing", j) \in S
      OBVIOUS
    <2>2. \A j \in seen.resolved : AlertRecord(n, "resolved", j) \in S
      OBVIOUS
    <2>3. \A state, j : AlertRecord(n, state, j).kind = state /\ AlertRecord(n, state, j).key = j
      BY DEF AlertRecord
    <2> HIDE DEF S
    <2> QED
      BY <2>1, <2>2, <2>3
  <1> HIDE DEF S
  <1>4. t = SetToSeq(S)
    BY DEF Events, S
  <1>5. \A i \in 1..Len(t) : t[i] \in S
    BY <1>1, <1>4, SetInSequence
  <1>6. \A x \in S : \E i \in 1..Len(t) : t[i] = x
    BY <1>1, <1>4, SetIsInSequence
  <1> HIDE DEF t
  <1>7. \A i \in 1..Len(t) : t[i].n = n
    BY <1>2, <1>5
  <1>8. /\ \A i \in 1..Len(t) : t[i].kind = "firing" /\ t[i].key = k => k \in seen.firing
        /\ \A i \in 1..Len(t) : t[i].kind = "resolved" /\ t[i].key = k => k \in seen.resolved
    BY <1>2, <1>5
  <1>9. /\ k \in seen.firing => \E i \in 1..Len(t) : t[i].kind = "firing" /\ t[i].key = k
        /\ k \in seen.resolved => \E i \in 1..Len(t) : t[i].kind = "resolved" /\ t[i].key = k
    BY <1>3, <1>6
  <1>10. Listed(t, "firing", k) = IF k \in seen.firing THEN {n} ELSE {}
    BY <1>7, <1>8, <1>9 DEF Listed
  <1>11. Listed(t, "resolved", k) = IF k \in seen.resolved THEN {n} ELSE {}
    BY <1>7, <1>8, <1>9 DEF Listed
  <1> QED
    BY <1>7, <1>10, <1>11 DEF t

-----------------------------------------------------------------------------
(* Steps that write no line *)

SameText(q) ==
  /\ Len(seg'[q]) = Len(seg[q])
  /\ \A i \in 1..Len(seg[q]) :
       seg'[q][i].lines = seg[q][i].lines /\ seg[q][i].flushed <= seg'[q][i].flushed

SameRecords(q) ==
  /\ tick'[q] = tick[q] /\ last'[q] = last[q] /\ todo'[q] = todo[q] /\ engine'[q] = engine[q]

Before == {"append", "seal", "mark", "reopen", "write"}
After  == {"sync", "status", "deliver"}

\* The run goes on, no further than it was.
NoFurther(q) ==
  /\ pc'[q] \in BetweenTicks => pc[q] \in BetweenTicks
  /\ pc'[q] \in WithRecord => pc[q] \in WithRecord
  /\ pc'[q] \in After => pc[q] \in After
  /\ pc'[q] \in Before /\ IsTick(todo[q][1]) => pc[q] \in Before

LEMMA LinesOf ==
  ASSUME Segments, NEW r \in Runs
  PROVE  \A x : x \in LinesIn(seg[r]) <=>
           \E i \in 1..Len(seg[r]) : \E j \in 1..Len(seg[r][i].lines) : x = seg[r][i].lines[j]
  <1> DEFINE s == seg[r]
  <1>1. IsSequence(s) /\ \A i \in 1..Len(s) : IsSegment(s[i])
    BY DEF Segments
  <1> HIDE DEF s
  <1>2. \A x : x \in LinesIn(s) <=>
           \E i \in 1..Len(s) : \E j \in 1..Len(s[i].lines) : x = s[i].lines[j]
    BY <1>1, LineIn
  <1> QED
    BY <1>2 DEF s

LEMMA LinesAfter ==
  ASSUME Segments', NEW r \in Runs
  PROVE  \A x : x \in LinesIn(seg'[r]) <=>
           \E i \in 1..Len(seg'[r]) : \E j \in 1..Len(seg'[r][i].lines) : x = seg'[r][i].lines[j]
  <1> DEFINE s == seg'[r]
  <1>1. IsSequence(s) /\ \A i \in 1..Len(s) : IsSegment(s[i])
    BY DEF Segments
  <1> HIDE DEF s
  <1>2. \A x : x \in LinesIn(s) <=>
           \E i \in 1..Len(s) : \E j \in 1..Len(s[i].lines) : x = s[i].lines[j]
    BY <1>1, LineIn
  <1> QED
    BY <1>2 DEF s

LEMMA SameLines ==
  ASSUME Segments, Segments', NEW r \in Runs, SameText(r)
  PROVE  LinesIn(seg'[r]) = LinesIn(seg[r])
  <1>1. ASSUME NEW x PROVE x \in LinesIn(seg'[r]) <=> x \in LinesIn(seg[r])
    <2> DEFINE s == seg[r]
               t == seg'[r]
    <2>0. /\ IsSequence(s) /\ \A i \in 1..Len(s) : IsSegment(s[i])
          /\ IsSequence(t) /\ \A i \in 1..Len(t) : IsSegment(t[i])
      BY DEF Segments
    <2>3. Len(t) = Len(s) /\ \A i \in 1..Len(s) : t[i].lines = s[i].lines
      BY DEF SameText
    <2> HIDE DEF s, t
    <2>1. x \in LinesIn(s) <=> \E i \in 1..Len(s) : \E j \in 1..Len(s[i].lines) : x = s[i].lines[j]
      BY <2>0, LineIn
    <2>2. x \in LinesIn(t) <=> \E i \in 1..Len(t) : \E j \in 1..Len(t[i].lines) : x = t[i].lines[j]
      BY <2>0, LineIn
    <2>4. (\E i \in 1..Len(t) : \E j \in 1..Len(t[i].lines) : x = t[i].lines[j])
            <=> (\E i \in 1..Len(s) : \E j \in 1..Len(s[i].lines) : x = s[i].lines[j])
      BY <2>3
    <2> QED
      BY <2>1, <2>2, <2>4 DEF s, t
  <1> QED
    BY <1>1

\* What was sampled is among the lines.
LEMMA TicksTold ==
  ASSUME HealthInv, NEW r \in Runs, NEW o \in 1..last[r]
  PROVE  \E x \in TicksIn(LinesIn(seg[r])) : x.n = o
  <1>1. Segments /\ Backed(r, o)
    BY DEF HealthInv, SealInv, Shape, Recording
  <1>2. PICK i \in 1..Len(seg[r]) : \E j \in 1..seg[r][i].flushed :
          IsTick(seg[r][i].lines[j]) /\ seg[r][i].lines[j].n = o
    BY <1>1 DEF Backed
  <1>3. PICK j \in 1..seg[r][i].flushed : IsTick(seg[r][i].lines[j]) /\ seg[r][i].lines[j].n = o
    BY <1>2
  <1>4. IsSegment(seg[r][i])
    BY <1>1 DEF Segments
  <1>5. j \in 1..Len(seg[r][i].lines)
    BY <1>4 DEF IsSegment, IsSequence
  <1>6. seg[r][i].lines[j] \in LinesIn(seg[r])
    BY <1>1, <1>5, LinesOf
  <1> QED
    BY <1>3, <1>6 DEF TicksIn

LEMMA FrozenFrame ==
  ASSUME HealthInv, NEW r \in Runs, Telling(r), tick'[r] = tick[r],
         NEW M, Rightful(M, tick[r]),
         \A x \in LinesIn(seg[r]) \cup M : x.n < tick[r] => (x \in LinesIn(seg[r]) <=> x \in M)
  PROVE  Frozen(M, tick'[r])
  <1> DEFINE L == LinesIn(seg[r])
             n == tick[r]
  <1>1. Rightful(L, n) /\ Frozen(L, n) /\ n <= last[r] + 1
    BY DEF Telling
  <1>2. n \in Nat /\ last[r] \in Nat
    BY DEF HealthInv, Recording
  <1>3. \A o \in 1..last[r] : \E x \in TicksIn(L) : x.n = o
    BY TicksTold
  <1> HIDE DEF L, n
  <1>4. \A o \in 1..n - 1 : \E x \in TicksIn(L) : x.n = o
    <2>1. \A o \in 1..n - 1 : o \in 1..last[r]
      BY <1>1, <1>2
    <2> QED
      BY <1>3, <2>1
  <1>5. Rightful(M, n) /\ \A x \in L \cup M : x.n < n => (x \in L <=> x \in M)
    BY DEF L, n
  <1>6. Frozen(M, n)
    BY <1>1, <1>2, <1>4, <1>5, FrozenSame
  <1> QED
    BY <1>6 DEF n

LEMMA NoLineOn ==
  ASSUME HealthInv, NEW r \in Runs, Telling(r), LinesIn(seg'[r]) = LinesIn(seg[r]),
         SameRecords(r), NoFurther(r), Unflushed(r)'
  PROVE  Telling(r)'
  <1>1. tick'[r] <= last'[r] + 1 /\ Rightful(LinesIn(seg'[r]), tick'[r])
    BY DEF Telling, SameRecords
  <1>2. Frozen(LinesIn(seg'[r]), tick'[r])
    BY DEF Telling, SameRecords
  <1>3. Busy(r)' => Busy(r)
    BY DEF NoFurther, Busy
  <1>4. Busy(r)' => \A k \in AlertKeys : Judged(engine'[r], LinesIn(seg'[r]), todo'[r], last'[r], k)
    BY <1>3 DEF Telling, SameRecords
  <1>5. Records(r)'
    <2>1. /\ todo'[r] = todo[r] /\ tick'[r] = tick[r] /\ last'[r] = last[r] /\ Records(r)
      BY DEF Telling, SameRecords
    <2>2. pc'[r] \in BetweenTicks => todo'[r] = <<>>
      BY <2>1 DEF Records, NoFurther
    <2>3. pc'[r] \in {"sync", "status", "deliver"} => todo'[r][1] \in LinesIn(seg'[r])
      BY <2>1 DEF Records, NoFurther, After
    <2>4. pc'[r] \in WithRecord /\ IsTick(todo'[r][1]) =>
            /\ Len(todo'[r]) = 1
            /\ pc'[r] \in {"append", "seal", "mark", "reopen", "write"} =>
                 \A x \in TicksIn(LinesIn(seg'[r])) : x.n <= last'[r]
      BY <2>1 DEF Records, NoFurther, Before
    <2>5. pc'[r] \in WithRecord /\ ~IsTick(todo'[r][1]) =>
            tick'[r] # 0 /\ \A i \in 1..Len(todo'[r]) : todo'[r][i].n = tick'[r]
      BY <2>1 DEF Records, NoFurther
    <2> QED
      BY <2>2, <2>3, <2>4, <2>5 DEF Records, TicksIn, IsTick
  <1> QED
    BY <1>1, <1>2, <1>4, <1>5 DEF Telling, Busy

LEMMA SameTextOn ==
  ASSUME HealthInv, SealInv', NEW r \in Runs, Telling(r), SameText(r), SameRecords(r), NoFurther(r),
         pc[r] = "sync" /\ pc'[r] # "sync" /\ Busy(r)' => Whole(seg'[r][Len(seg[r])])
  PROVE  Telling(r)'
  <1>1. Segments /\ Segments' /\ Unflushed(r)
    BY DEF HealthInv, SealInv, Shape, Telling
  <1>2. LinesIn(seg'[r]) = LinesIn(seg[r])
    BY <1>1, SameLines
  <1>3. Busy(r)' => Busy(r)
    BY DEF NoFurther, Busy
  <1>4. Unflushed(r)'
    <2> SUFFICES ASSUME NEW i \in 1..Len(seg'[r])
                 PROVE  /\ \A j \in 1..Len(seg'[r][i].lines) :
                             j > seg'[r][i].flushed => seg'[r][i].lines[j].n = tick'[r]
                        /\ Busy(r)' => Whole(seg'[r][i]) \/ (pc'[r] = "sync" /\ i = Len(seg'[r]))
      BY DEF Unflushed, Busy, Whole
    <2> DEFINE s == seg[r][i]
               t == seg'[r][i]
    <2>1. /\ i \in 1..Len(seg[r]) /\ Len(seg'[r]) = Len(seg[r])
          /\ t.lines = s.lines /\ s.flushed <= t.flushed
      BY DEF SameText
    <2>2. IsSegment(s) /\ IsSegment(t)
      BY <1>1, <2>1 DEF Segments
    <2>3. /\ s.flushed \in Nat /\ t.flushed \in Nat /\ Len(s.lines) \in Nat
          /\ t.flushed <= Len(s.lines)
      BY <2>1, <2>2 DEF IsSegment, IsSequence
    <2>4. tick'[r] = tick[r]
      BY DEF SameRecords
    <2>5. /\ \A j \in 1..Len(s.lines) : j > s.flushed => s.lines[j].n = tick[r]
          /\ Busy(r) => Whole(s) \/ (pc[r] = "sync" /\ i = Len(seg[r]))
      BY <1>1, <2>1 DEF Unflushed
    <2>6. Whole(s) => Whole(t)
      BY <2>1, <2>3 DEF Whole
    <2> HIDE DEF s, t
    <2>7. \A j \in 1..Len(t.lines) : j > t.flushed => t.lines[j].n = tick'[r]
      BY <2>1, <2>3, <2>4, <2>5
    <2>8. ASSUME Busy(r)' PROVE Whole(t) \/ (pc'[r] = "sync" /\ i = Len(seg'[r]))
      <3>1. CASE Whole(s)
        BY <2>6, <3>1
      <3>2. CASE pc[r] = "sync" /\ i = Len(seg[r])
        BY <2>1, <2>8, <3>2 DEF t
      <3> QED
        BY <1>3, <2>5, <2>8, <3>1, <3>2
    <2> QED
      BY <2>7, <2>8 DEF t
  <1> QED
    BY <1>2, <1>4, NoLineOn

LEMMA FlushedNumber ==
  ASSUME Segments, NEW q \in Runs, NEW i \in 1..Len(seg[q])
  PROVE  seg[q][i].flushed \in Int
  <1>1. IsSegment(seg[q][i])
    BY DEF Segments
  <1> QED
    BY <1>1 DEF IsSegment, IsSequence

LEMMA TextAlone ==
  ASSUME Segments, NEW q \in Runs, seg'[q] = seg[q]
  PROVE  SameText(q)
  <1>1. \A i \in 1..Len(seg[q]) : seg[q][i].flushed \in Int
    BY FlushedNumber
  <1> QED
    BY <1>1 DEF SameText

LEMMA TextOfLast ==
  ASSUME Segments, NEW r \in Runs, Len(seg[r]) >= 1, NEW t, t.lines = seg[r][Len(seg[r])].lines,
         seg[r][Len(seg[r])].flushed <= t.flushed,
         seg' = [seg EXCEPT ![r] = [seg[r] EXCEPT ![Len(seg[r])] = t]]
  PROVE  SameText(r) /\ seg'[r][Len(seg[r])] = t
  <1>1. IsSequence(seg[r]) /\ Len(seg[r]) \in Nat /\ DOMAIN seg = Runs
    BY DEF Segments, IsSequence
  <1>2. PICK n : n = Len(seg[r])
    OBVIOUS
  <1>3. n \in 1..Len(seg[r])
    BY <1>1, <1>2
  <1> DEFINE new == [seg[r] EXCEPT ![n] = t]
  <1>4. /\ Len(new) = Len(seg[r]) /\ new[n] = t
        /\ \A k \in 1..Len(seg[r]) : k # n => new[k] = seg[r][k]
    BY <1>1, <1>3, ReplaceOne
  <1>5. seg'[r] = new
    BY <1>1, <1>2
  <1> HIDE DEF new
  <1>6. \A i \in 1..Len(seg[r]) : seg[r][i].flushed \in Int
    BY FlushedNumber
  <1>7. \A i \in 1..Len(seg[r]) :
          seg'[r][i].lines = seg[r][i].lines /\ seg[r][i].flushed <= seg'[r][i].flushed
    <2> SUFFICES ASSUME NEW i \in 1..Len(seg[r])
                 PROVE  seg'[r][i].lines = seg[r][i].lines /\ seg[r][i].flushed <= seg'[r][i].flushed
      OBVIOUS
    <2>1. CASE i = n
      BY <1>2, <1>4, <1>5, <2>1
    <2>2. CASE i # n
      BY <1>4, <1>5, <1>6, <2>2
    <2> QED
      BY <2>1, <2>2
  <1> QED
    BY <1>2, <1>4, <1>5, <1>7 DEF SameText

LEMMA TextOfUnlink ==
  ASSUME HealthInv, NEW r \in Runs, Unlink(r), NEW q \in Runs
  PROVE  SameText(q)
  <1>1. Segments /\ Shape /\ Condemned(r) /\ Prunes(r)
    BY DEF HealthInv, SealInv, Shape, Prunes, Unlink, At
  <1>2. Names(Oldest(r))
    BY <1>1 DEF Condemned
  <1> DEFINE p == Oldest(r)[1]
             k == Oldest(r)[2]
             t == [seg[p][k] EXCEPT !.there = FALSE]
  <1>3. p \in Runs /\ k \in 1..Len(seg[p])
    BY <1>2 DEF Names
  <1>4. seg' = [seg EXCEPT ![p] = [seg[p] EXCEPT ![k] = t]]
    BY DEF Unlink
  <1>5. Len(seg'[q]) = Len(seg[q]) /\
        \A i \in 1..Len(seg[q]) : (q = p /\ i = k) \/ seg'[q][i] = seg[q][i]
    BY <1>1, <1>3, ShapeOfUnlink
  <1>6. t.lines = seg[p][k].lines /\ t.flushed = seg[p][k].flushed
    BY <1>1, <1>3 DEF Segments, IsSegment
  <1> HIDE DEF p, k, t
  <1>7. seg'[p][k] = t
    <2>1. IsSequence(seg[p]) /\ DOMAIN seg = Runs
      BY <1>1, <1>3 DEF Segments
    <2>2. [seg[p] EXCEPT ![k] = t][k] = t
      BY <1>3, <2>1, ReplaceOne
    <2> QED
      BY <1>3, <1>4, <2>1, <2>2
  <1>8. \A i \in 1..Len(seg[q]) : seg[q][i].flushed \in Int
    BY <1>1, FlushedNumber
  <1>9. \A i \in 1..Len(seg[q]) :
          seg'[q][i].lines = seg[q][i].lines /\ seg[q][i].flushed <= seg'[q][i].flushed
    <2> SUFFICES ASSUME NEW i \in 1..Len(seg[q])
                 PROVE  seg'[q][i].lines = seg[q][i].lines /\ seg[q][i].flushed <= seg'[q][i].flushed
      OBVIOUS
    <2>1. CASE q = p /\ i = k
      BY <1>6, <1>7, <1>8, <2>1
    <2>2. CASE seg'[q][i] = seg[q][i]
      BY <1>8, <2>2
    <2> QED
      BY <1>5, <2>1, <2>2
  <1> QED
    BY <1>5, <1>9 DEF SameText

\* Sealing and flushing change how much is flushed, and a line that was cut off is none.
LEMMA TextOfSteps ==
  ASSUME HealthInv, NEW r \in Runs,
         \/ Seal(r, "seal", "mark", "close") \/ Seal(r, "endseal", "endmark", "over")
         \/ Flush(r)
         \/ At(r, "write") /\ seg' = [seg EXCEPT ![r][Current(r)].torn = TRUE]
  PROVE  SameText(r)
  <1> DEFINE s == seg[r][Len(seg[r])]
  <1>1. Shape /\ Segments
    BY DEF HealthInv, SealInv, Shape
  <1>2. file[r] /\ Len(seg[r]) >= 1
    BY <1>1 DEF Shape, Opened, Writing, Seal, Flush, At
  <1>3. IsSegment(s)
    BY <1>1, <1>2 DEF Segments, IsSequence
  <1>4. CASE seg' = seg
    BY <1>1, <1>4, TextAlone
  <1>5. CASE seg' = [seg EXCEPT ![r][Current(r)].flushed = Len(seg[r][Current(r)].lines)]
    <2> DEFINE t == [s EXCEPT !.flushed = Len(s.lines)]
    <2>1. seg' = [seg EXCEPT ![r] = [seg[r] EXCEPT ![Len(seg[r])] = t]]
      BY <1>5 DEF Current
    <2>2. t.lines = s.lines /\ t.flushed = Len(s.lines)
      BY <1>3 DEF IsSegment
    <2> HIDE DEF t
    <2>3. s.flushed <= t.flushed
      BY <1>3, <2>2 DEF IsSegment, IsSequence
    <2> QED
      BY <1>1, <1>2, <2>1, <2>2, <2>3, TextOfLast
  <1>6. CASE seg' = [seg EXCEPT ![r][Current(r)].torn = TRUE]
    <2> DEFINE t == [s EXCEPT !.torn = TRUE]
    <2>1. seg' = [seg EXCEPT ![r] = [seg[r] EXCEPT ![Len(seg[r])] = t]]
      BY <1>6 DEF Current
    <2>2. t.lines = s.lines /\ t.flushed = s.flushed
      BY <1>3 DEF IsSegment
    <2> HIDE DEF t
    <2>3. s.flushed <= t.flushed
      BY <1>3, <2>2 DEF IsSegment, IsSequence
    <2> QED
      BY <1>1, <1>2, <2>1, <2>2, <2>3, TextOfLast
  <1>7. CASE Seal(r, "seal", "mark", "close") \/ Seal(r, "endseal", "endmark", "over")
    <2>1. seg' = seg \/ seg' = [seg EXCEPT ![r][Current(r)].flushed = Len(seg[r][Current(r)].lines)]
      BY <1>7 DEF Seal
    <2> QED
      BY <1>4, <1>5, <2>1
  <1>8. CASE Flush(r)
    <2>1. seg' = seg \/ seg' = [seg EXCEPT ![r][Current(r)].flushed = Len(seg[r][Current(r)].lines)]
      BY <1>8 DEF Flush, Sync
    <2> QED
      BY <1>4, <1>5, <2>1
  <1> QED
    BY <1>6, <1>7, <1>8

\* The steps of a run that write no line and end none of its records.
LEMMA StillTelling ==
  ASSUME HealthInv, SealInv', NEW r \in Runs, Telling(r),
         \/ Begin(r) \/ Keep(r) \/ Condemn(r) \/ Unlink(r) \/ Unmark(r) \/ PruneFails(r)
         \/ OpenSegmentFails(r) \/ Starting(r) \/ CloseRecorder(r) \/ Append1(r) \/ Stop(r) \/ Kill(r)
         \/ Seal(r, "seal", "mark", "close") \/ Seal(r, "endseal", "endmark", "over")
         \/ Mark(r, "mark", "reopen", "close") \/ Mark(r, "endmark", "over", "over")
         \/ Flush(r)
  PROVE  Telling(r)'
  <1> USE DEF At, Goto, recordVars, BetweenTicks, WithRecord, Before, After
  <1>1. Shape /\ Segments /\ Domains /\ DOMAIN pc = Runs
    BY DEF HealthInv, SealInv, Shape, Domains
  <1>2. UNCHANGED <<tick, last, todo, engine>> /\ NoFurther(r)
    <2>1. CASE Begin(r) \/ Keep(r) \/ Condemn(r)
      BY <1>1, <2>1 DEF Begin, Keep, Condemn, NoFurther
    <2>2. CASE Unlink(r) \/ Unmark(r) \/ PruneFails(r)
      BY <1>1, <2>2 DEF Unlink, Unmark, PruneFails, NoFurther
    <2>3. CASE OpenSegmentFails(r) \/ Starting(r) \/ CloseRecorder(r)
      BY <1>1, <2>3 DEF OpenSegmentFails, Starting, CloseRecorder, NoFurther
    <2>4. CASE Append1(r) \/ Stop(r) \/ Kill(r)
      BY <1>1, <2>4 DEF Append1, Stop, Kill, NoFurther
    <2>5. CASE Seal(r, "seal", "mark", "close") \/ Seal(r, "endseal", "endmark", "over")
      BY <1>1, <2>5 DEF Seal, NoFurther
    <2>6. CASE Mark(r, "mark", "reopen", "close") \/ Mark(r, "endmark", "over", "over")
      BY <1>1, <2>6 DEF Mark, NoFurther
    <2>7. CASE Flush(r)
      BY <1>1, <2>7 DEF Flush, NoFurther
    <2> QED
      BY <2>1, <2>2, <2>3, <2>4, <2>5, <2>6, <2>7
  <1>3. SameText(r)
    <2>1. CASE \/ Begin(r) \/ Keep(r) \/ Condemn(r) \/ Unmark(r) \/ PruneFails(r)
               \/ OpenSegmentFails(r) \/ Starting(r) \/ CloseRecorder(r) \/ Append1(r)
               \/ Stop(r) \/ Kill(r)
               \/ Mark(r, "mark", "reopen", "close") \/ Mark(r, "endmark", "over", "over")
      <3>1. seg' = seg
        BY <2>1 DEF Begin, Keep, Condemn, Unmark, PruneFails, OpenSegmentFails, Starting,
                    CloseRecorder, Append1, Stop, Kill, Mark
      <3> QED
        BY <1>1, <3>1, TextAlone
    <2>2. CASE Unlink(r)
      BY <2>2, TextOfUnlink
    <2>3. CASE Seal(r, "seal", "mark", "close") \/ Seal(r, "endseal", "endmark", "over") \/ Flush(r)
      BY <2>3, TextOfSteps
    <2> QED
      BY <2>1, <2>2, <2>3
  <1>4. pc[r] = "sync" /\ pc'[r] # "sync" /\ Busy(r)' => Whole(seg'[r][Len(seg[r])])
    <2>1. CASE Flush(r)
      <3>1. Busy(r)' => pc'[r] # "close"
        BY DEF Busy
      <3>2. pc'[r] # "close" => Whole(seg'[r][Len(seg[r])])
        BY <1>1, <2>1, ShapeOfFlush
      <3> QED
        BY <3>1, <3>2
    <2>2. CASE Kill(r)
      <3>1. pc'[r] = "dead"
        BY <1>1, <2>2 DEF Kill
      <3> QED
        BY <3>1 DEF Busy
    <2>3. CASE ~Flush(r) /\ ~Kill(r)
      BY <2>3 DEF Begin, Keep, Condemn, Unlink, Unmark, PruneFails, OpenSegmentFails, Starting,
                  CloseRecorder, Append1, Stop, Seal, Mark
    <2> QED
      BY <2>1, <2>2, <2>3
  <1>5. SameRecords(r)
    BY <1>2 DEF SameRecords
  <1> QED
    BY <1>2, <1>3, <1>4, <1>5, SameTextOn

\* A segment that is opened has no lines.
LEMMA OpenTells ==
  ASSUME HealthInv, SealInv', NEW r \in Runs, Telling(r), OpenSegment(r)
  PROVE  Telling(r)'
  <1> USE DEF BetweenTicks, WithRecord, Before, After
  <1>1. Shape /\ Segments /\ Segments' /\ Domains
    BY DEF HealthInv, SealInv, Shape
  <1>2. IsSequence(seg[r]) /\ Len(seg[r]) \in Nat /\ DOMAIN seg = Runs
    BY <1>1 DEF Segments, IsSequence
  <1> DEFINE new == Append(seg[r], NewSegment)
  <1>3. /\ Len(new) = Len(seg[r]) + 1 /\ new[Len(seg[r]) + 1] = NewSegment
        /\ \A i \in 1..Len(seg[r]) : new[i] = seg[r][i]
    BY <1>2, AppendOne
  <1>4. seg' = [seg EXCEPT ![r] = Append(seg[r], NewSegment)]
    BY <1>1, ShapeOfOpen
  <1>5. seg'[r] = new
    BY <1>2, <1>4
  <1> HIDE DEF new
  <1>6. Len(NewSegment.lines) = 0 /\ NewSegment.flushed = 0 /\ Whole(NewSegment)
    BY DEF NewSegment, Whole
  <1>7. LinesIn(seg'[r]) = LinesIn(seg[r])
    <2>1. ASSUME NEW x PROVE x \in LinesIn(new) <=> x \in LinesIn(seg[r])
      <3> DEFINE s == seg[r]
      <3>1. IsSequence(s) /\ \A i \in 1..Len(s) : IsSegment(s[i])
        BY <1>1 DEF Segments
      <3>2. IsSequence(new) /\ \A i \in 1..Len(new) : IsSegment(new[i])
        <4>1. IsSequence(seg'[r]) /\ \A i \in 1..Len(seg'[r]) : IsSegment(seg'[r][i])
          BY <1>1 DEF Segments
        <4> QED
          BY <1>5, <4>1
      <3> HIDE DEF s
      <3>3. x \in LinesIn(s) <=> \E i \in 1..Len(s) : \E j \in 1..Len(s[i].lines) : x = s[i].lines[j]
        BY <3>1, LineIn
      <3>4. x \in LinesIn(new) <=> \E i \in 1..Len(new) : \E j \in 1..Len(new[i].lines) : x = new[i].lines[j]
        BY <3>2, LineIn
      <3>5. Len(s) \in Nat /\ Len(new) = Len(s) + 1 /\ new[Len(s) + 1] = NewSegment
            /\ \A i \in 1..Len(s) : new[i] = s[i]
        BY <1>2, <1>3 DEF s
      <3>6. \A i \in 1..Len(new) : i \in 1..Len(s) \/ (i = Len(s) + 1 /\ 1..Len(new[i].lines) = {})
        BY <1>6, <3>5
      <3>7. \A i \in 1..Len(s) : i \in 1..Len(new) /\ new[i] = s[i]
        BY <3>5
      <3> QED
        BY <3>3, <3>4, <3>6, <3>7 DEF s
    <2> QED
      BY <1>5, <2>1
  <1>8. /\ (pc[r] = "prune" /\ pc'[r] = "starting") \/ (pc[r] = "reopen" /\ pc'[r] = "write")
        /\ UNCHANGED <<tick, last, todo, engine>>
    BY <1>1 DEF OpenSegment, At, Goto, recordVars, Domains
  <1>9. Unflushed(r)'
    <2>1. /\ Busy(r) /\ pc[r] # "sync" /\ tick'[r] = tick[r]
      BY <1>8 DEF Busy
    <2> SUFFICES ASSUME NEW i \in 1..Len(seg'[r])
                 PROVE  /\ \A j \in 1..Len(seg'[r][i].lines) :
                             j > seg'[r][i].flushed => seg'[r][i].lines[j].n = tick'[r]
                        /\ Whole(seg'[r][i])
      BY DEF Unflushed, Busy, Whole
    <2>2. CASE i \in 1..Len(seg[r])
      <3>1. seg'[r][i] = seg[r][i]
        BY <1>3, <1>5, <2>2
      <3>2. Whole(seg[r][i]) /\ \A j \in 1..Len(seg[r][i].lines) :
              j > seg[r][i].flushed => seg[r][i].lines[j].n = tick[r]
        BY <2>1, <2>2 DEF Telling, Unflushed
      <3> QED
        BY <2>1, <3>1, <3>2
    <2>3. CASE i = Len(seg[r]) + 1
      <3>1. seg'[r][i] = NewSegment
        BY <1>3, <1>5, <2>3
      <3> QED
        BY <1>6, <3>1
    <2> QED
      BY <1>2, <1>3, <1>5, <2>2, <2>3
  <1>10. NoFurther(r) /\ SameRecords(r)
    BY <1>8 DEF NoFurther, SameRecords
  <1> QED
    BY <1>7, <1>9, <1>10, NoLineOn

\* The line that is written.
LEMMA TextOfWrite ==
  ASSUME HealthInv, SealInv', NEW r \in Runs, pc[r] = "write", Write(r, Head(todo[r]))
  PROVE  LET n == Len(seg[r])
             s == seg[r][n]
             t == seg'[r][n]
         IN  /\ n >= 1 /\ n \in Nat /\ Len(seg'[r]) = n /\ IsSegment(s)
             /\ \A i \in 1..n : i # n => seg'[r][i] = seg[r][i]
             /\ t.flushed = s.flushed /\ Len(t.lines) = Len(s.lines) + 1
             /\ t.lines[Len(s.lines) + 1] = todo[r][1]
             /\ \A j \in 1..Len(s.lines) : t.lines[j] = s.lines[j]
             /\ LinesIn(seg'[r]) = LinesIn(seg[r]) \cup {todo[r][1]}
  <1>1. Shape /\ Segments /\ Segments' /\ Pending(r)
    BY DEF HealthInv, SealInv, Shape, Recording, WithRecord
  <1>2. PICK n : n = Len(seg[r])
    OBVIOUS
  <1>3. n >= 1 /\ n \in Nat /\ IsSequence(seg[r]) /\ DOMAIN seg = Runs /\ n \in 1..Len(seg[r])
    BY <1>1, <1>2 DEF Shape, Opened, Writing, Segments, IsSequence
  <1> DEFINE s == seg[r][n]
             head == todo[r][1]
             t == [s EXCEPT !.lines = Append(@, head)]
             new == [seg[r] EXCEPT ![n] = t]
  <1>4. IsSegment(s)
    BY <1>1, <1>3 DEF Segments
  <1>5. Head(todo[r]) = head
    BY <1>1, HeadIsFirst DEF Pending
  <1>6. seg'[r] = new
    BY <1>2, <1>3, <1>5 DEF Write, Current
  <1>7. t.lines = Append(s.lines, head) /\ t.flushed = s.flushed
    BY <1>4 DEF IsSegment
  <1>8. IsSequence(s.lines)
    BY <1>4 DEF IsSegment
  <1> HIDE DEF s, head, t
  <1>9. /\ Len(new) = Len(seg[r]) /\ new[n] = t
        /\ \A k \in 1..Len(seg[r]) : k # n => new[k] = seg[r][k]
    BY <1>3, ReplaceOne
  <1> HIDE DEF new
  <1>10. /\ Len(t.lines) = Len(s.lines) + 1 /\ t.lines[Len(s.lines) + 1] = head
         /\ \A j \in 1..Len(s.lines) : t.lines[j] = s.lines[j]
    BY <1>7, <1>8, AppendOne
  <1>11. ASSUME NEW x PROVE x \in LinesIn(new) <=> x \in LinesIn(seg[r]) \/ x = head
    <2> DEFINE old == seg[r]
    <2>1. IsSequence(old) /\ \A i \in 1..Len(old) : IsSegment(old[i])
      BY <1>1 DEF Segments
    <2>2. IsSequence(new) /\ \A i \in 1..Len(new) : IsSegment(new[i])
      <3>1. IsSequence(seg'[r]) /\ \A i \in 1..Len(seg'[r]) : IsSegment(seg'[r][i])
        BY <1>1 DEF Segments
      <3> QED
        BY <1>6, <3>1
    <2>5. /\ Len(old) = n /\ Len(new) = n /\ new[n] = t /\ old[n] = s
          /\ \A k \in 1..n : k # n => new[k] = old[k]
      BY <1>2, <1>9 DEF s
    <2> HIDE DEF old
    <2>3. x \in LinesIn(old) <=> \E i \in 1..n : \E j \in 1..Len(old[i].lines) : x = old[i].lines[j]
      BY <2>1, <2>5, LineIn
    <2>4. x \in LinesIn(new) <=> \E i \in 1..n : \E j \in 1..Len(new[i].lines) : x = new[i].lines[j]
      BY <2>2, <2>5, LineIn
    <2>6. Len(s.lines) \in Nat
      BY <1>8 DEF IsSequence
    <2> DEFINE InOld(i) == \E j \in 1..Len(old[i].lines) : x = old[i].lines[j]
               InNew(i) == \E j \in 1..Len(new[i].lines) : x = new[i].lines[j]
    <2>7. InNew(n) <=> InOld(n) \/ x = head
      <3>1. \A j \in 1..Len(t.lines) : j \in 1..Len(s.lines) \/ j = Len(s.lines) + 1
        BY <1>10, <2>6
      <3>2. \A j \in 1..Len(s.lines) : j \in 1..Len(t.lines)
        BY <1>10, <2>6
      <3>3. Len(s.lines) + 1 \in 1..Len(t.lines)
        BY <1>10, <2>6
      <3> QED
        BY <1>10, <2>5, <3>1, <3>2, <3>3
    <2>8. \A i \in 1..n : i # n => (InNew(i) <=> InOld(i))
      BY <2>5
    <2>9. n \in 1..n
      BY <1>3
    <2>10. (x \in LinesIn(old) <=> \E i \in 1..n : InOld(i)) /\ (x \in LinesIn(new) <=> \E i \in 1..n : InNew(i))
      BY <2>3, <2>4
    <2> HIDE DEF InOld, InNew
    <2> QED
      BY <2>7, <2>8, <2>9, <2>10 DEF old
  <1>12. LinesIn(seg'[r]) = LinesIn(seg[r]) \cup {head}
    BY <1>6, <1>11
  <1>13. seg'[r][n] = t /\ Len(seg'[r]) = n /\ \A i \in 1..n : i # n => seg'[r][i] = seg[r][i]
    BY <1>2, <1>6, <1>9
  <1> QED
    BY <1>2, <1>3, <1>4, <1>7, <1>10, <1>12, <1>13 DEF s, head

LEMMA WriteTells ==
  ASSUME HealthInv, SealInv', NEW r \in Runs, Telling(r), WriteLine(r)
  PROVE  Telling(r)'
  <1> USE DEF BetweenTicks, WithRecord, Before, After
  <1>1. Shape /\ Segments /\ Segments' /\ Domains /\ Recording(r) /\ pc[r] = "write" /\ Busy(r)
    BY DEF HealthInv, SealInv, Shape, WriteLine, At, Busy
  <1>2. UNCHANGED <<tick, last, todo, engine>>
    BY DEF WriteLine, recordVars
  <1>3. CASE Torn(r) /\ seg' = [seg EXCEPT ![r][Current(r)].torn = TRUE]
    <2>1. pc'[r] = "close"
      BY <1>1, <1>3 DEF Torn, Goto, Domains
    <2>2. SameText(r)
      BY <1>1, <1>3, TextOfSteps DEF At
    <2>3. NoFurther(r) /\ SameRecords(r)
      BY <1>2, <2>1 DEF NoFurther, SameRecords
    <2> QED
      BY <1>1, <2>2, <2>3, SameTextOn
  <1>4. CASE Write(r, Head(todo[r])) /\ Goto(r, "sync")
    <2>1. pc'[r] = "sync"
      BY <1>1, <1>4 DEF Goto, Domains
    <2> DEFINE L == LinesIn(seg[r])
               head == todo[r][1]
               M == L \cup {head}
               n == tick[r]
               t == todo[r]
    <2>2. LinesIn(seg'[r]) = M
      BY <1>1, <1>4, TextOfWrite
    <2>3. /\ n \in Nat /\ last[r] \in Nat /\ n <= last[r] + 1 /\ Rightful(L, n) /\ Frozen(L, n)
          /\ Pending(r) /\ Records(r) /\ Len(t) \in Nat /\ Len(t) >= 1 /\ last[r] <= n
      BY <1>1 DEF Telling, Recording, Pending, IsSequence
    <2>4. /\ IsTick(head) => n = last[r] + 1 /\ head.n = n /\ head.key \in DOMAIN Samples
          /\ IsTick(head) => \A x \in TicksIn(L) : x.n <= last[r]
          /\ ~IsTick(head) => head.n = n /\ n # 0
      BY <1>1, <2>3 DEF Pending, Records
    <2> HIDE DEF L, head, n, t
    <2>5. head.n = n /\ n \in 1..n
      BY <2>3, <2>4
    <2>6. Rightful(M, n)
      <3>1. \A x \in M : x.n \in 1..n /\ (IsTick(x) => x.key \in DOMAIN Samples)
        BY <2>3, <2>4, <2>5 DEF Rightful
      <3>2. ASSUME NEW x \in TicksIn(M), NEW y \in TicksIn(M), x.n = y.n PROVE x = y
        <4>1. CASE x \in L /\ y \in L
          BY <2>3, <3>2, <4>1 DEF Rightful, TicksIn
        <4>2. ASSUME NEW z \in TicksIn(L), IsTick(head) PROVE z.n # n
          BY <2>3, <2>4, <4>2
        <4>3. CASE x = head /\ y \in L
          BY <2>5, <3>2, <4>2, <4>3 DEF TicksIn
        <4>4. CASE x \in L /\ y = head
          BY <2>5, <3>2, <4>2, <4>4 DEF TicksIn
        <4> QED
          BY <3>2, <4>1, <4>3, <4>4 DEF TicksIn
      <3> QED
        BY <3>1, <3>2 DEF Rightful
    <2>7. Frozen(M, n)
      <3>1. \A x \in L \cup M : x.n < n => (x \in L <=> x \in M)
        BY <2>3, <2>5
      <3>2. tick'[r] = tick[r]
        BY <1>2
      <3> QED
        BY <2>6, <3>1, <3>2, FrozenFrame DEF L, n
    <2>8. \A k \in AlertKeys : Judged(engine[r], M, t, last[r], k)
      <3> SUFFICES ASSUME NEW k \in AlertKeys PROVE Judged(engine[r], M, t, last[r], k)
        OBVIOUS
      <3>1. Judged(engine[r], L, t, last[r], k)
        BY <1>1 DEF Telling, L, t
      <3>2. Agree(HistoryIn(L), HistoryIn(M), last[r])
        <4>1. \A o \in 1..last[r] : \E x \in TicksIn(L) : x.n = o
          BY TicksTold DEF L
        <4>2. \A x \in TicksIn(L) : x \in TicksIn(M)
          BY DEF TicksIn
        <4>3. \A o \in 1..last[r] : \E x \in TicksIn(L) : x.n = o /\ x \in TicksIn(M)
          BY <4>1, <4>2
        <4> HIDE DEF M
        <4> QED
          BY <2>3, <2>6, <4>3, HistoriesAgree
      <3>3. ASSUME NEW state PROVE Alerts(L, t, state, k) = Alerts(M, t, state, k)
        <4> DEFINE pending == Listed(t, state, k)
        <4>1. head.kind = state /\ head.key = k => head.n \in pending
          <5>1. 1 \in 1..Len(t) /\ t[1] = head
            BY <2>3 DEF t, head
          <5> QED
            BY <5>1 DEF Listed
        <4>2. AlertsIn(M, state, k) = AlertsIn(L, state, k)
                \cup (IF head.kind = state /\ head.key = k THEN {head.n} ELSE {})
          BY DEF AlertsIn
        <4>3. Alerts(L, t, state, k) = AlertsIn(L, state, k) \cup pending
          BY DEF Alerts
        <4>4. Alerts(M, t, state, k) = AlertsIn(M, state, k) \cup pending
          BY DEF Alerts
        <4> HIDE DEF pending, M
        <4> QED
          BY <4>1, <4>2, <4>3, <4>4
      <3> HIDE DEF M
      <3> QED
        BY <2>3, <3>1, <3>2, <3>3, JudgedSame
    <2>9. Unflushed(r)'
      <3> SUFFICES ASSUME NEW i \in 1..Len(seg'[r])
                   PROVE  /\ \A j \in 1..Len(seg'[r][i].lines) :
                               j > seg'[r][i].flushed => seg'[r][i].lines[j].n = tick'[r]
                          /\ Whole(seg'[r][i]) \/ i = Len(seg'[r])
        BY <2>1 DEF Unflushed, Busy, Whole
      <3> DEFINE m == Len(seg[r])
                 s == seg[r][m]
                 u == seg'[r][m]
      <3>1. /\ m >= 1 /\ m \in Nat /\ Len(seg'[r]) = m /\ IsSegment(s)
            /\ \A o \in 1..m : o # m => seg'[r][o] = seg[r][o]
            /\ u.flushed = s.flushed /\ Len(u.lines) = Len(s.lines) + 1
            /\ u.lines[Len(s.lines) + 1] = todo[r][1]
            /\ \A j \in 1..Len(s.lines) : u.lines[j] = s.lines[j]
        BY <1>1, <1>4, TextOfWrite
      <3>2. \A o \in 1..m : Whole(seg[r][o]) /\ \A j \in 1..Len(seg[r][o].lines) :
              j > seg[r][o].flushed => seg[r][o].lines[j].n = tick[r]
        BY <1>1 DEF Telling, Unflushed
      <3>3. CASE i # m
        <4>1. i \in 1..m /\ seg'[r][i] = seg[r][i]
          BY <3>1, <3>3
        <4>2. tick'[r] = tick[r]
          BY <1>2
        <4> QED
          BY <3>2, <4>1, <4>2
      <3>4. CASE i = m
        <4>1. s.flushed = Len(s.lines) /\ Len(s.lines) \in Nat
          <5>1. m \in 1..m
            BY <3>1
          <5>2. Whole(s)
            BY <3>2, <5>1
          <5> HIDE DEF s, m
          <5>3. Len(s.lines) \in Nat
            BY <3>1 DEF IsSegment, IsSequence
          <5> QED
            BY <5>2, <5>3 DEF Whole
        <4>2. todo[r][1].n = tick'[r]
          BY <1>2, <2>5 DEF head, n
        <4> HIDE DEF m, s, u
        <4>3. ASSUME NEW j \in 1..Len(u.lines), j > u.flushed PROVE u.lines[j].n = tick'[r]
          <5>1. j = Len(s.lines) + 1
            BY <3>1, <4>1, <4>3
          <5> QED
            BY <3>1, <4>2, <5>1
        <4> QED
          BY <3>1, <3>4, <4>3 DEF u
      <3> QED
        BY <3>3, <3>4
    <2>10. Records(r)'
      <3>1. /\ todo'[r][1] \in LinesIn(seg'[r])
            /\ IsTick(todo'[r][1]) => Len(todo'[r]) = 1
            /\ ~IsTick(todo'[r][1]) => tick'[r] # 0 /\ \A i \in 1..Len(todo'[r]) : todo'[r][i].n = tick'[r]
        BY <1>1, <1>2, <2>2, <2>3 DEF head, Records
      <3> QED
        BY <2>1, <3>1 DEF Records, IsTick
    <2>11. /\ tick'[r] <= last'[r] + 1 /\ Rightful(LinesIn(seg'[r]), tick'[r])
           /\ Frozen(LinesIn(seg'[r]), tick'[r])
      BY <1>2, <2>2, <2>3, <2>6, <2>7 DEF n
    <2>12. \A k \in AlertKeys : Judged(engine'[r], LinesIn(seg'[r]), todo'[r], last'[r], k)
      BY <1>2, <2>2, <2>8 DEF t
    <2> QED
      BY <2>9, <2>10, <2>11, <2>12 DEF Telling, Busy
  <1> QED
    BY <1>3, <1>4 DEF WriteLine

\* Between the ticks nothing is left to be written, so all that is due is in the lines.
LEMMA NewTickTells ==
  ASSUME HealthInv, SealInv', NEW r \in Runs, Telling(r), NewTick(r)
  PROVE  Telling(r)'
  <1> USE DEF BetweenTicks, WithRecord, Before, After
  <1>1. Shape /\ Segments /\ Domains /\ Recording(r) /\ pc[r] = "ready" /\ Busy(r) /\ pc'[r] = "append"
    BY DEF HealthInv, SealInv, Shape, NewTick, At, Goto, Busy, Domains
  <1>2. /\ UNCHANGED <<seg, last, engine>> /\ tick'[r] = tick[r] + 1 /\ tick[r] \in Nat
        /\ last[r] = tick[r] /\ todo[r] = <<>> /\ Records(r)
    BY <1>1 DEF NewTick, Domains, Recording, Telling, Records
  <1>3. PICK s \in DOMAIN Samples : todo'[r] = <<TickRecord(tick[r] + 1, s)>>
    BY <1>1 DEF NewTick, Domains
  <1> DEFINE L == LinesIn(seg[r])
             n == tick[r]
             x == TickRecord(n + 1, s)
  <1>4. IsTick(x) /\ x.kind = "tick"
    BY DEF TickRecord, IsTick
  <1>5. todo'[r] = <<x>> /\ Len(<<x>>) = 1 /\ <<x>>[1] = x
    BY <1>3
  <1>6. Rightful(L, n) /\ \A k \in AlertKeys : Judged(engine[r], L, <<>>, n, k)
    BY <1>1, <1>2 DEF Telling
  <1>7. /\ tick'[r] <= last'[r] + 1 /\ LinesIn(seg'[r]) = L
    BY <1>2
  <1> HIDE DEF L, x, n
  <1>8. n \in Nat
    BY <1>2 DEF n
  <1>9. ASSUME NEW state, NEW k PROVE Alerts(L, <<>>, state, k) = AlertsIn(L, state, k)
    <2>1. 1..Len(<<>>) = {}
      OBVIOUS
    <2> QED
      BY <2>1 DEF Alerts, Listed
  <1>10. ASSUME NEW state, state # "tick", NEW k
         PROVE  Alerts(L, <<x>>, state, k) = AlertsIn(L, state, k)
    <2>1. \A i \in 1..Len(<<x>>) : <<x>>[i].kind = "tick"
      BY <1>4, <1>5
    <2> QED
      BY <1>10, <2>1 DEF Alerts, Listed
  <1>11. Rightful(L, n + 1)
    BY <1>6, <1>8 DEF Rightful
  <1>12. Frozen(L, n + 1)
    <2> SUFFICES ASSUME NEW k \in AlertKeys, NEW m \in 1..n + 1, m < n + 1
                 PROVE  Due(HistoryIn(L), AlertsIn(L, "firing", k), AlertsIn(L, "resolved", k), k, m)
      BY DEF Frozen
    <2>1. m \in 1..n
      BY <1>8
    <2>2. Due(HistoryIn(L), Alerts(L, <<>>, "firing", k), Alerts(L, <<>>, "resolved", k), k, m)
      BY <1>6, <2>1 DEF Judged
    <2>3. /\ Alerts(L, <<>>, "firing", k) = AlertsIn(L, "firing", k)
          /\ Alerts(L, <<>>, "resolved", k) = AlertsIn(L, "resolved", k)
      BY <1>9
    <2> QED
      BY <2>2, <2>3
  <1>13. \A k \in AlertKeys : Judged(engine[r], L, <<x>>, n, k)
    <2> SUFFICES ASSUME NEW k \in AlertKeys PROVE Judged(engine[r], L, <<x>>, n, k)
      OBVIOUS
    <2>1. \A state \in {"firing", "resolved"} : Alerts(L, <<>>, state, k) = Alerts(L, <<x>>, state, k)
      BY <1>9, <1>10
    <2>2. Agree(HistoryIn(L), HistoryIn(L), n)
      BY DEF Agree
    <2>3. Judged(engine[r], L, <<>>, n, k)
      BY <1>6
    <2> QED
      BY <1>8, <2>1, <2>2, <2>3, JudgedSame
  <1>14. Unflushed(r)'
    <2>1. \A i \in 1..Len(seg[r]) : Whole(seg[r][i])
      BY <1>1 DEF Telling, Unflushed
    <2>2. \A i \in 1..Len(seg[r]) : IsSegment(seg[r][i])
      BY <1>1 DEF Segments
    <2>3. ASSUME NEW i \in 1..Len(seg[r]), NEW j \in 1..Len(seg[r][i].lines)
          PROVE  ~(j > seg[r][i].flushed)
      BY <2>1, <2>2 DEF Whole, IsSegment, IsSequence
    <2> QED
      BY <1>2, <2>1, <2>3 DEF Unflushed, Whole
  <1>15. Records(r)'
    <2>1. todo'[r][1] = x /\ IsTick(todo'[r][1]) /\ Len(todo'[r]) = 1
      BY <1>4, <1>5
    <2>2. \A y \in TicksIn(LinesIn(seg'[r])) : y.n <= last'[r]
      BY <1>2, <1>6, <1>7 DEF Rightful, TicksIn, n
    <2> QED
      BY <1>1, <2>1, <2>2 DEF Records, TicksIn, IsTick
  <1>16. Rightful(LinesIn(seg'[r]), tick'[r]) /\ Frozen(LinesIn(seg'[r]), tick'[r])
    BY <1>2, <1>7, <1>11, <1>12 DEF n
  <1>17. \A k \in AlertKeys : Judged(engine'[r], LinesIn(seg'[r]), todo'[r], last'[r], k)
    BY <1>2, <1>5, <1>7, <1>13 DEF n
  <1> QED
    BY <1>7, <1>14, <1>15, <1>16, <1>17 DEF Telling, Busy

-----------------------------------------------------------------------------
(* What the engine makes of a sample that was recorded *)

LEMMA KeysAreKeys ==
  ASSUME NEW k \in AlertKeys
  PROVE  IsKey(k)
  <1>1. PICK s \in DOMAIN Samples, rule \in Rules : k \in Keyed(rule, Readings(Samples[s], rule))
    BY DEF AlertKeys
  <1>2. PICK x : k = <<rule, x>>
    BY <1>1 DEF Keyed
  <1> QED
    BY <1>2 DEF IsKey

LEMMA JudgesNext ==
  ASSUME NEW e, IsEngine(e), NEW L, NEW n \in Nat, Rightful(L, n + 1),
         NEW x \in TicksIn(L), x.n = n + 1, NEW s, s = Samples[x.key], IsSample(s),
         NEW k \in AlertKeys, NEW t, Judged(e, L, t, n, k),
         \A state \in {"firing", "resolved"} : Alerts(L, t, state, k) = AlertsIn(L, state, k)
  PROVE  LET seen == Observe(e, s, n + 1) IN Judged(seen.engine, L, Events(n + 1, seen), n + 1, k)
  <1> DEFINE h        == HistoryIn(L)
             seen     == Observe(e, s, n + 1)
             fired    == AlertsIn(L, "firing", k)
             resolved == AlertsIn(L, "resolved", k)
             firing   == Alerts(L, Events(n + 1, seen), "firing", k)
             ending   == Alerts(L, Events(n + 1, seen), "resolved", k)
  <1>1. h[n + 1] = s
    BY HistoryTells
  <1>2. /\ Knowledge(e, h, k, n) /\ AlertState(StateOf(e, k), h, k, n, fired, resolved)
        /\ \A m \in 1..n : Due(h, fired, resolved, k, m)
    BY DEF Judged
  <1>3. IsFiniteSet(seen.firing) /\ IsFiniteSet(seen.resolved)
    BY ObservedIsFinite
  <1>4. firing = With(fired, n + 1, k \in seen.firing) /\ ending = With(resolved, n + 1, k \in seen.resolved)
    <2> HIDE DEF seen
    <2>1. /\ firing = fired \cup IF k \in seen.firing THEN {n + 1} ELSE {}
          /\ ending = resolved \cup IF k \in seen.resolved THEN {n + 1} ELSE {}
      BY <1>3, EventsTell DEF Alerts
    <2> QED
      BY <2>1 DEF With
  <1> HIDE DEF h
  <1>5. /\ k \in seen.firing <=> FiringDue(h, fired, k, n + 1)
        /\ k \in seen.resolved <=> ResolvedDue(h, fired, resolved, k, n + 1)
        /\ Knowledge(seen.engine, h, k, n + 1)
        /\ AlertState(StateOf(seen.engine, k), h, k, n + 1, firing, ending)
    <2> HIDE DEF fired, resolved, firing, ending
    <2> QED
      BY <1>1, <1>2, <1>4, KeysAreKeys, ObserveIsRight
  <1> HIDE DEF seen, fired, resolved, firing, ending
  <1>6. /\ fired \in SUBSET (1..n) /\ resolved \in SUBSET (1..n)
        /\ firing \in SUBSET (1..n + 1) /\ ending \in SUBSET (1..n + 1)
    BY <1>2, <1>5 DEF AlertState
  <1>7. \A o \in Int : o < n + 1 => (o \in fired <=> o \in firing) /\ (o \in resolved <=> o \in ending)
    BY <1>4 DEF With
  <1>8. Agree(h, h, n + 1)
    BY DEF Agree
  <1>9. ASSUME NEW m \in 1..n + 1
        PROVE  /\ FiringDue(h, fired, k, m) <=> FiringDue(h, firing, k, m)
               /\ ResolvedDue(h, fired, resolved, k, m) <=> ResolvedDue(h, firing, ending, k, m)
    <2>1. \A o \in Int : o < m => (o \in fired <=> o \in firing) /\ (o \in resolved <=> o \in ending)
      BY <1>7
    <2>2. /\ fired \in SUBSET Int /\ resolved \in SUBSET Int
          /\ firing \in SUBSET Int /\ ending \in SUBSET Int
      BY <1>6
    <2> QED
      BY <1>8, <2>1, <2>2, DueSame
  <1>10. \A m \in 1..n + 1 : Due(h, firing, ending, k, m)
    <2> SUFFICES ASSUME NEW m \in 1..n + 1 PROVE Due(h, firing, ending, k, m)
      OBVIOUS
    <2>1. CASE m \in 1..n
      BY <1>2, <1>7, <1>9, <2>1 DEF Due
    <2>2. CASE m = n + 1
      <3>1. m \notin fired /\ m \notin resolved
        BY <1>6, <2>2
      <3>2. (m \in firing <=> k \in seen.firing) /\ (m \in ending <=> k \in seen.resolved)
        BY <1>4, <2>2, <3>1 DEF With
      <3> QED
        BY <1>5, <1>9, <2>2, <3>2 DEF Due
    <2> QED
      BY <2>1, <2>2
  <1> QED
    BY <1>5, <1>10 DEF Judged, h, seen, firing, ending

LEMMA AdvertiseTells ==
  ASSUME HealthInv, SealInv', HealthInv', NEW r \in Runs, Telling(r), Advertise(r)
  PROVE  Telling(r)'
  <1> USE DEF BetweenTicks, WithRecord
  <1>1. /\ Shape /\ Segments /\ Domains /\ Domains' /\ Recording(r) /\ Recording(r)'
        /\ pc[r] = "status" /\ Busy(r)
    BY DEF HealthInv, SealInv, Shape, Advertise, At, Busy
  <1> DEFINE L    == LinesIn(seg[r])
             n    == last[r]
             x    == todo[r][1]
             s    == SampleOf(r)
             seen == Observe(engine[r], s, tick[r])
  <1>2. /\ UNCHANGED <<seg, tick>> /\ last'[r] = tick[r] /\ engine'[r] = seen.engine
        /\ Next1(r, Events(tick[r], seen))
    BY <1>1 DEF Advertise, Domains
  <1>3. /\ todo'[r] = Events(tick[r], seen)
        /\ pc'[r] = IF todo'[r] = <<>> THEN "ready" ELSE "append"
    BY <1>1, <1>2 DEF Next1, Goto, Domains
  <1>4. /\ Pending(r) /\ Records(r) /\ n \in Nat /\ last'[r] \in Nat
        /\ Rightful(L, tick[r]) /\ Frozen(L, tick[r])
        /\ \A k \in AlertKeys : Judged(engine[r], L, todo[r], n, k)
    BY <1>1 DEF Recording, Telling
  <1>5. IsTick(x) /\ tick[r] = n + 1 /\ x.n = n + 1 /\ x.key \in DOMAIN Samples
    BY <1>1, <1>4 DEF Pending
  <1>6. x \in TicksIn(L) /\ Len(todo[r]) = 1
    BY <1>1, <1>4, <1>5 DEF Records, TicksIn
  <1>7. s = Samples[x.key] /\ IsSample(s) /\ IsEngine(engine[r])
    <2>1. Head(todo[r]) = x
      BY <1>4, HeadIsFirst DEF Pending
    <2> QED
      BY <1>1, <1>5, <2>1, HistoryAssumption DEF SampleOf, Recording
  <1> HIDE DEF L, n, x, s
  <1>8. \A state \in {"firing", "resolved"} : \A k : Alerts(L, todo[r], state, k) = AlertsIn(L, state, k)
    <2>1. \A j \in 1..Len(todo[r]) : todo[r][j].kind = "tick"
      BY <1>5, <1>6 DEF IsTick, x
    <2> QED
      BY <2>1 DEF Alerts, Listed
  <1>9. \A k \in AlertKeys : Judged(seen.engine, L, Events(tick[r], seen), tick[r], k)
    <2> SUFFICES ASSUME NEW k \in AlertKeys
                 PROVE  Judged(seen.engine, L, Events(tick[r], seen), tick[r], k)
      OBVIOUS
    <2>1. Judged(engine[r], L, todo[r], n, k)
      BY <1>4
    <2>2. Rightful(L, n + 1)
      BY <1>4, <1>5
    <2>3. LET c == Observe(engine[r], s, n + 1) IN Judged(c.engine, L, Events(n + 1, c), n + 1, k)
      BY <1>4, <1>5, <1>6, <1>7, <1>8, <2>1, <2>2, JudgesNext
    <2> QED
      BY <1>5, <2>3
  <1>10. IsFiniteSet(seen.firing) /\ IsFiniteSet(seen.resolved)
    BY <1>7, ObservedIsFinite
  <1> HIDE DEF seen
  <1>11. \A i \in 1..Len(todo'[r]) : todo'[r][i].n = tick[r]
    BY <1>3, <1>10, EventsTell
  <1>12. Records(r)'
    <2>1. pc'[r] \in WithRecord => ~IsTick(todo'[r][1])
      <3> SUFFICES ASSUME pc'[r] \in WithRecord, todo'[r][1].kind = "tick" PROVE FALSE
        BY DEF IsTick
      <3>1. tick'[r] = last'[r] + 1
        BY <1>1 DEF Recording, Pending, IsTick
      <3> QED
        BY <1>2, <1>4, <3>1
    <2>2. tick[r] # 0
      BY <1>4, <1>5
    <2> QED
      BY <1>2, <1>3, <1>11, <2>1, <2>2 DEF Records, IsTick
  <1>13. Unflushed(r)'
    <2>1. Unflushed(r) /\ seg'[r] = seg[r] /\ tick'[r] = tick[r]
      BY <1>2 DEF Telling
    <2> QED
      BY <1>1, <2>1 DEF Unflushed, Busy, Whole
  <1>14. LinesIn(seg'[r]) = L /\ tick'[r] <= last'[r] + 1
    BY <1>2, <1>4 DEF L
  <1>15. Rightful(LinesIn(seg'[r]), tick'[r]) /\ Frozen(LinesIn(seg'[r]), tick'[r])
    BY <1>2, <1>4, <1>14
  <1>16. \A k \in AlertKeys : Judged(engine'[r], LinesIn(seg'[r]), todo'[r], last'[r], k)
    BY <1>2, <1>3, <1>9, <1>14
  <1> QED
    BY <1>12, <1>13, <1>14, <1>15, <1>16 DEF Telling, Busy

\* The sample was recorded, and the device is not polled any more.
LEMMA AdvertiseFailsTells ==
  ASSUME HealthInv, SealInv', NEW r \in Runs, Telling(r), AdvertiseFails(r)
  PROVE  Telling(r)'
  <1>1. Shape /\ Domains /\ Recording(r)
    BY DEF HealthInv, SealInv, Shape
  <1>2. /\ UNCHANGED <<seg, tick>> /\ last'[r] = tick[r] /\ pc'[r] = "close" /\ tick[r] \in Nat
    BY <1>1 DEF AdvertiseFails, Goto, Domains, Recording
  <1>3. Unflushed(r)' /\ Records(r)'
    BY <1>2 DEF Telling, Unflushed, Records, Busy, BetweenTicks, WithRecord
  <1>4. /\ tick'[r] <= last'[r] + 1 /\ Rightful(LinesIn(seg'[r]), tick'[r])
        /\ Frozen(LinesIn(seg'[r]), tick'[r])
    BY <1>2 DEF Telling
  <1>5. ~(pc'[r] \in BetweenTicks \cup WithRecord)
    BY <1>2 DEF BetweenTicks, WithRecord
  <1> QED
    BY <1>3, <1>4, <1>5 DEF Telling, Busy

\* The alert that has been recorded is left off the list.
LEMMA DeliverTells ==
  ASSUME HealthInv, SealInv', NEW r \in Runs, Telling(r), Deliver(r)
  PROVE  Telling(r)'
  <1> USE DEF BetweenTicks, WithRecord
  <1>1. /\ Shape /\ Segments /\ Domains /\ Domains' /\ Recording(r) /\ pc[r] = "deliver" /\ Busy(r)
    BY DEF HealthInv, SealInv, Shape, Deliver, At, Busy
  <1>2. UNCHANGED <<seg, tick, last, engine>>
    BY DEF Deliver
  <1>3. CASE Goto(r, "close") /\ UNCHANGED todo
    <2>1. pc'[r] = "close"
      BY <1>1, <1>3 DEF Goto, Domains
    <2>2. SameText(r) /\ SameRecords(r) /\ NoFurther(r) /\ ~Busy(r)'
      BY <1>1, <1>2, <1>3, <2>1, TextAlone DEF SameRecords, NoFurther, Before, After, Busy
    <2> QED
      BY <2>2, SameTextOn, <1>1
  <1>4. CASE Next1(r, Tail(todo[r]))
    <2> DEFINE L == LinesIn(seg[r])
               t == todo[r]
               u == Tail(t)
    <2>1. /\ Pending(r) /\ ~IsTick(t[1]) /\ Records(r) /\ last[r] \in Nat
      BY <1>1 DEF Recording, Pending, Telling
    <2>2. /\ IsSequence(t) /\ Len(t) \in Nat /\ Len(t) >= 1 /\ IsSequence(u) /\ Len(u) = Len(t) - 1
          /\ \A i \in 1..Len(u) : u[i] = t[i + 1]
          /\ Len(t) = 1 <=> u = <<>>
      BY <2>1, TailIsRest DEF Pending, IsSequence
    <2>3. todo'[r] = u /\ pc'[r] = IF u = <<>> THEN "ready" ELSE "append"
      BY <1>1, <1>4 DEF Next1, Goto, Domains
    <2>4. /\ t[1] \in L /\ tick[r] # 0 /\ \A i \in 1..Len(t) : t[i].n = tick[r]
          /\ \A i \in 2..Len(t) : ~IsTick(t[i])
      BY <1>1, <2>1 DEF Records, Pending
    <2> HIDE DEF L, t, u
    <2>5. \A state, k : Alerts(L, t, state, k) = Alerts(L, u, state, k)
      <3> SUFFICES ASSUME NEW state, NEW k PROVE Alerts(L, t, state, k) = Alerts(L, u, state, k)
        OBVIOUS
      <3>1. ASSUME NEW i \in 1..Len(t), t[i].kind = state, t[i].key = k
            PROVE  t[i].n \in AlertsIn(L, state, k) \cup Listed(u, state, k)
        <4>1. CASE i = 1
          BY <2>4, <3>1, <4>1 DEF AlertsIn
        <4>2. CASE i # 1
          <5>1. i - 1 \in 1..Len(u) /\ u[i - 1] = t[i]
            BY <2>2, <4>2
          <5> QED
            BY <3>1, <5>1 DEF Listed
        <4> QED
          BY <4>1, <4>2
      <3>2. \A i \in 1..Len(u) : i + 1 \in 1..Len(t) /\ t[i + 1] = u[i]
        BY <2>2
      <3>3. Listed(u, state, k) \subseteq Listed(t, state, k)
        BY <3>2 DEF Listed
      <3>4. Listed(t, state, k) \subseteq AlertsIn(L, state, k) \cup Listed(u, state, k)
        BY <3>1 DEF Listed
      <3> QED
        BY <3>3, <3>4 DEF Alerts
    <2>6. \A k \in AlertKeys : Judged(engine[r], L, u, last[r], k)
      <3> SUFFICES ASSUME NEW k \in AlertKeys PROVE Judged(engine[r], L, u, last[r], k)
        OBVIOUS
      <3>1. Judged(engine[r], L, t, last[r], k)
        BY <1>1 DEF Telling, L, t
      <3>2. Agree(HistoryIn(L), HistoryIn(L), last[r])
        BY DEF Agree
      <3> QED
        BY <2>1, <2>5, <3>1, <3>2, JudgedSame
    <2>7. Records(r)'
      <3>1. \A i \in 1..Len(u) : u[i].n = tick[r] /\ ~IsTick(u[i])
        <4> SUFFICES ASSUME NEW i \in 1..Len(u) PROVE u[i].n = tick[r] /\ ~IsTick(u[i])
          OBVIOUS
        <4>1. i + 1 \in 2..Len(t) /\ i + 1 \in 1..Len(t) /\ u[i] = t[i + 1]
          BY <2>2
        <4> QED
          BY <2>4, <4>1
      <3>2. u # <<>> => 1 \in 1..Len(u)
        BY <2>2
      <3>3. pc'[r] \in WithRecord => ~IsTick(todo'[r][1])
        BY <2>3, <3>1, <3>2
      <3> QED
        BY <1>2, <2>3, <2>4, <3>1, <3>3 DEF Records, IsTick
    <2>8. Unflushed(r)'
      <3>1. Unflushed(r) /\ seg'[r] = seg[r] /\ tick'[r] = tick[r]
        BY <1>2 DEF Telling
      <3> QED
        BY <1>1, <3>1 DEF Unflushed, Busy, Whole
    <2>9. /\ tick'[r] <= last'[r] + 1 /\ LinesIn(seg'[r]) = L /\ Rightful(LinesIn(seg'[r]), tick'[r])
          /\ Frozen(LinesIn(seg'[r]), tick'[r])
      BY <1>2 DEF Telling, L
    <2>10. \A k \in AlertKeys : Judged(engine'[r], LinesIn(seg'[r]), todo'[r], last'[r], k)
      BY <1>2, <2>3, <2>6, <2>9
    <2> QED
      BY <2>7, <2>8, <2>9, <2>10 DEF Telling, Busy
  <1> QED
    BY <1>3, <1>4 DEF Deliver

-----------------------------------------------------------------------------
(* The other runs, and the world *)

LEMMA OthersTell ==
  ASSUME HealthInv, SealInv', NEW r \in Runs, RunStep(r) \/ Kill(r), NEW q \in Runs, q # r, Telling(q)
  PROVE  Telling(q)'
  <1>1. Segments /\ Alone(r)
    BY RunsAreAlone DEF HealthInv, SealInv, Shape
  <1>2. SameText(q)
    <2>1. CASE Unlink(r)
      BY <2>1, TextOfUnlink
    <2>2. CASE ~Unlink(r)
      BY <1>1, <2>2, OthersSegments, TextAlone
    <2> QED
      BY <2>1, <2>2
  <1>3. SameRecords(q) /\ pc'[q] = pc[q]
    BY <1>1 DEF Alone, SameRecords
  <1>4. NoFurther(q)
    BY <1>3 DEF NoFurther
  <1> QED
    BY <1>2, <1>3, <1>4, SameTextOn

\* What is lost when the power goes off are records of the tick that was not over.
LEMMA CutTells ==
  ASSUME HealthInv, SealInv', NEW r \in Runs, Telling(r), PowerCut
  PROVE  Telling(r)'
  <1>1. /\ Shape /\ Segments /\ Segments' /\ Unflushed(r)
        /\ Rightful(LinesIn(seg[r]), tick[r]) /\ tick[r] <= last[r] + 1
    BY DEF HealthInv, SealInv, Shape, Telling
  <1>2. UNCHANGED <<tick, last, todo, engine>> /\ SameRecords(r)
    BY DEF PowerCut, recordVars, SameRecords
  <1>3. pc'[r] = "dead" \/ (pc'[r] = pc[r] /\ pc'[r] \in {"new", "failed", "over", "dead"})
    BY DEF PowerCut, Live
  <1>4. /\ Len(seg'[r]) = Len(seg[r])
        /\ \A i \in 1..Len(seg[r]) : CutShort(seg[r][i], seg'[r][i])
    BY <1>1, ShapeOfPowerCut
  <1>5. \A i \in 1..Len(seg[r]) : IsSegment(seg[r][i]) /\ IsSegment(seg'[r][i])
    BY <1>1, <1>4 DEF Segments
  <1>6. ASSUME NEW i \in 1..Len(seg[r])
        PROVE  LET s == seg[r][i]
                   t == seg'[r][i]
               IN  /\ Len(s.lines) \in Nat /\ Len(t.lines) \in Nat /\ s.flushed \in Nat
                   /\ t.flushed = s.flushed /\ s.flushed <= Len(t.lines) /\ Len(t.lines) <= Len(s.lines)
                   /\ \A j \in 1..Len(t.lines) : t.lines[j] = s.lines[j]
                   /\ Whole(s) => Len(t.lines) = Len(s.lines) /\ Whole(t)
    <2> DEFINE s == seg[r][i]
               t == seg'[r][i]
    <2>1. IsSegment(s) /\ IsSegment(t) /\ CutShort(s, t)
      BY <1>4, <1>5
    <2> HIDE DEF s, t
    <2>2. /\ Len(s.lines) \in Nat /\ Len(t.lines) \in Nat /\ s.flushed \in Nat
          /\ t.flushed = s.flushed /\ s.flushed <= Len(t.lines) /\ Len(t.lines) <= Len(s.lines)
      BY <2>1 DEF IsSegment, IsSequence, CutShort
    <2>3. \A j \in 1..Len(t.lines) : t.lines[j] = s.lines[j]
      BY <2>1 DEF CutShort
    <2>4. Whole(s) => Len(t.lines) = Len(s.lines) /\ Whole(t)
      BY <2>1, <2>2 DEF CutShort, Whole
    <2> QED
      BY <2>2, <2>3, <2>4 DEF s, t
  <1>7. \A x \in LinesIn(seg'[r]) : x \in LinesIn(seg[r])
    <2> SUFFICES ASSUME NEW x \in LinesIn(seg'[r]) PROVE x \in LinesIn(seg[r])
      OBVIOUS
    <2>0. \A y : y \in LinesIn(seg'[r]) <=>
            \E i \in 1..Len(seg'[r]) : \E j \in 1..Len(seg'[r][i].lines) : y = seg'[r][i].lines[j]
      BY <1>1, LinesAfter
    <2>1. \E i \in 1..Len(seg'[r]) : \E j \in 1..Len(seg'[r][i].lines) : x = seg'[r][i].lines[j]
      BY <2>0
    <2>2. PICK i \in 1..Len(seg[r]) : \E j \in 1..Len(seg'[r][i].lines) : x = seg'[r][i].lines[j]
      BY <1>4, <2>1
    <2>3. PICK j \in 1..Len(seg'[r][i].lines) : x = seg'[r][i].lines[j]
      BY <2>2
    <2>4. j \in 1..Len(seg[r][i].lines) /\ x = seg[r][i].lines[j]
      BY <1>6, <2>3
    <2> QED
      BY <1>1, <2>4, LinesOf
  <1>8. \A x \in LinesIn(seg[r]) : x \in LinesIn(seg'[r]) \/ x.n = tick[r]
    <2> SUFFICES ASSUME NEW x \in LinesIn(seg[r]), x.n # tick[r] PROVE x \in LinesIn(seg'[r])
      OBVIOUS
    <2>1. \E i \in 1..Len(seg[r]) : \E j \in 1..Len(seg[r][i].lines) : x = seg[r][i].lines[j]
      BY <1>1, LinesOf
    <2>2. PICK i \in 1..Len(seg[r]) : \E j \in 1..Len(seg[r][i].lines) : x = seg[r][i].lines[j]
      BY <2>1
    <2>3. PICK j \in 1..Len(seg[r][i].lines) : x = seg[r][i].lines[j]
      BY <2>2
    <2>4. ~(j > seg[r][i].flushed)
      BY <1>1, <2>3 DEF Unflushed
    <2> DEFINE s == seg[r][i]
               t == seg'[r][i]
    <2>5. /\ s.flushed \in Nat /\ s.flushed <= Len(t.lines) /\ Len(t.lines) \in Nat /\ Len(s.lines) \in Nat
          /\ \A o \in 1..Len(t.lines) : t.lines[o] = s.lines[o]
      BY <1>6
    <2>6. j \in 1..Len(s.lines) /\ ~(j > s.flushed) /\ x = s.lines[j]
      BY <2>3, <2>4
    <2> HIDE DEF s, t
    <2>7. j \in 1..Len(t.lines) /\ x = t.lines[j]
      BY <2>5, <2>6
    <2> QED
      BY <1>1, <1>4, <2>7, LinesAfter DEF t
  <1>9. Rightful(LinesIn(seg'[r]), tick[r])
    BY <1>1, <1>7 DEF Rightful, TicksIn
  <1>10. Frozen(LinesIn(seg'[r]), tick'[r])
    <2> DEFINE L == LinesIn(seg[r])
               M == LinesIn(seg'[r])
    <2>1. \A x \in L \cup M : x.n < tick[r] => (x \in L <=> x \in M)
      <3>1. tick[r] \in Nat
        BY DEF HealthInv, Recording
      <3>2. (\A x \in M : x \in L) /\ \A x \in L : x \in M \/ x.n = tick[r]
        BY <1>7, <1>8
      <3>3. \A x : x.n = tick[r] => ~(x.n < tick[r])
        BY <3>1
      <3> HIDE DEF L, M
      <3> QED
        BY <3>2, <3>3
    <2> QED
      BY <1>2, <1>9, <2>1, FrozenFrame
  <1>11. ASSUME Busy(r)' PROVE Busy(r) /\ pc'[r] = pc[r] /\ pc[r] = "new"
    BY <1>3, <1>11 DEF Busy, BetweenTicks, WithRecord
  <1>12. Unflushed(r)'
    <2> SUFFICES ASSUME NEW i \in 1..Len(seg'[r])
                 PROVE  /\ \A j \in 1..Len(seg'[r][i].lines) :
                             j > seg'[r][i].flushed => seg'[r][i].lines[j].n = tick'[r]
                        /\ Busy(r)' => Whole(seg'[r][i])
      BY DEF Unflushed, Busy, Whole
    <2>1. i \in 1..Len(seg[r])
      BY <1>4
    <2>2. /\ \A j \in 1..Len(seg[r][i].lines) : j > seg[r][i].flushed => seg[r][i].lines[j].n = tick[r]
          /\ Busy(r) => Whole(seg[r][i]) \/ pc[r] = "sync"
      BY <1>1, <2>1 DEF Unflushed
    <2>3. ASSUME NEW j \in 1..Len(seg'[r][i].lines), j > seg'[r][i].flushed
          PROVE  seg'[r][i].lines[j].n = tick'[r]
      <3> DEFINE s == seg[r][i]
                 u == seg'[r][i]
      <3>1. /\ Len(s.lines) \in Nat /\ Len(u.lines) \in Nat /\ u.flushed = s.flushed
            /\ Len(u.lines) <= Len(s.lines) /\ \A o \in 1..Len(u.lines) : u.lines[o] = s.lines[o]
        BY <1>6, <2>1
      <3>2. j \in 1..Len(u.lines) /\ j > u.flushed
        BY <2>3
      <3> HIDE DEF s, u
      <3>3. j \in 1..Len(s.lines) /\ j > s.flushed /\ u.lines[j] = s.lines[j]
        BY <3>1, <3>2
      <3> QED
        BY <1>2, <2>2, <3>3 DEF s, u
    <2>4. ASSUME Busy(r)' PROVE Whole(seg'[r][i])
      BY <1>6, <1>11, <2>1, <2>2, <2>4
    <2> QED
      BY <2>3, <2>4
  <1>13. CASE Busy(r)'
    <2>1. \A i \in 1..Len(seg[r]) : Whole(seg[r][i])
      BY <1>1, <1>11, <1>13 DEF Unflushed
    <2>2. LinesIn(seg'[r]) = LinesIn(seg[r])
      <3>1. \A x \in LinesIn(seg[r]) : x \in LinesIn(seg'[r])
        <4> SUFFICES ASSUME NEW x \in LinesIn(seg[r]) PROVE x \in LinesIn(seg'[r])
          OBVIOUS
        <4>0. \A y : y \in LinesIn(seg[r]) <=>
                \E i \in 1..Len(seg[r]) : \E j \in 1..Len(seg[r][i].lines) : y = seg[r][i].lines[j]
          BY <1>1, LinesOf
        <4>1. PICK i \in 1..Len(seg[r]) : \E j \in 1..Len(seg[r][i].lines) : x = seg[r][i].lines[j]
          BY <4>0
        <4>2. PICK j \in 1..Len(seg[r][i].lines) : x = seg[r][i].lines[j]
          BY <4>1
        <4>3. j \in 1..Len(seg'[r][i].lines) /\ x = seg'[r][i].lines[j]
          BY <1>6, <2>1, <4>2
        <4> QED
          BY <1>1, <1>4, <4>3, LinesAfter
      <3> QED
        BY <1>7, <3>1
    <2>3. NoFurther(r)
      BY <1>11, <1>13 DEF NoFurther
    <2> QED
      BY <1>2, <1>12, <2>2, <2>3, NoLineOn
  <1>14. CASE ~Busy(r)'
    <2>1. Records(r)'
      BY <1>14 DEF Records, Busy, BetweenTicks, WithRecord
    <2>2. ~(pc'[r] \in BetweenTicks \cup WithRecord)
      BY <1>14 DEF Busy
    <2>3. tick'[r] <= last'[r] + 1 /\ Rightful(LinesIn(seg'[r]), tick'[r])
      BY <1>1, <1>2, <1>9
    <2> QED
      BY <1>10, <1>12, <2>1, <2>2, <2>3 DEF Telling, Busy
  <1> QED
    BY <1>13, <1>14

LEMMA WorldTells ==
  ASSUME HealthInv, SealInv', NEW r \in Runs, Telling(r), DayPasses \/ UNCHANGED vars
  PROVE  Telling(r)'
  <1>1. Segments
    BY DEF HealthInv, SealInv, Shape
  <1>2. seg' = seg /\ pc' = pc /\ UNCHANGED <<tick, last, todo, engine>>
    BY DEF DayPasses, vars, recordVars
  <1>3. SameText(r) /\ SameRecords(r) /\ NoFurther(r)
    BY <1>1, <1>2, TextAlone DEF SameRecords, NoFurther
  <1> QED
    BY <1>2, <1>3, SameTextOn

LEMMA InitTells ==
  ASSUME Init, NEW r \in Runs
  PROVE  Telling(r)
  <1>1. /\ pc[r] = "over" \/ (pc[r] = "new" /\ r \notin Left)
        /\ engine[r] = Fresh /\ last[r] = tick[r] /\ todo[r] = <<>>
        /\ tick[r] = (IF r \in Left THEN 1 ELSE 0)
        /\ seg[r] = (IF r \in Left THEN <<Sealed>> ELSE <<>>)
    BY DEF Init
  <1>2. Records(r)
    BY <1>1 DEF Records, WithRecord
  <1>3. Frozen(LinesIn(seg[r]), tick[r]) /\ tick[r] <= last[r] + 1
    BY <1>1 DEF Frozen
  <1>4. CASE r \in Left
    <2> DEFINE x == TickRecord(1, CHOOSE s \in DOMAIN Samples : TRUE)
    <2>1. x.n = 1 /\ x.key \in DOMAIN Samples
      BY HistoryAssumption DEF TickRecord
    <2>2. Sealed.lines = <<x>> /\ Sealed.flushed = 1
      BY DEF Sealed, NewSegment
    <2> HIDE DEF x
    <2>3. Len(seg[r]) = 1 /\ seg[r][1] = Sealed /\ DOMAIN seg[r] = {1}
      BY <1>1, <1>4
    <2>4. LinesIn(seg[r]) = {x}
      BY <2>2, <2>3 DEF LinesIn, Range
    <2>5. Rightful(LinesIn(seg[r]), tick[r])
      BY <1>1, <1>4, <2>1, <2>4 DEF Rightful, TicksIn
    <2>6. Len(Sealed.lines) = 1
      BY <2>2
    <2>7. Unflushed(r)
      <3> SUFFICES ASSUME NEW i \in 1..Len(seg[r])
                   PROVE  /\ \A j \in 1..Len(seg[r][i].lines) :
                               j > seg[r][i].flushed => seg[r][i].lines[j].n = tick[r]
                          /\ Whole(seg[r][i])
        BY DEF Unflushed
      <3>1. seg[r][i] = Sealed
        BY <2>3
      <3>2. Whole(Sealed) /\ \A j \in 1..Len(Sealed.lines) : ~(j > Sealed.flushed)
        BY <2>2, <2>6 DEF Whole
      <3> QED
        BY <3>1, <3>2
    <2> QED
      BY <1>1, <1>2, <1>3, <1>4, <2>5, <2>7 DEF Telling, Busy, BetweenTicks, WithRecord
  <1>5. CASE r \notin Left
    <2>1. LinesIn(seg[r]) = {}
      BY <1>1, <1>5 DEF LinesIn
    <2>2. Rightful(LinesIn(seg[r]), tick[r]) /\ Unflushed(r)
      BY <1>1, <1>5, <2>1 DEF Rightful, TicksIn, Unflushed
    <2>3. ASSUME NEW k \in AlertKeys PROVE Judged(Fresh, {}, <<>>, 0, k)
      <3> DEFINE h == HistoryIn({})
      <3>1. \A state : Alerts({}, <<>>, state, k) = {}
        BY DEF Alerts, AlertsIn, Listed
      <3> HIDE DEF h
      <3>2. Heard(h, k, 0) = {}
        BY DEF Heard
      <3>3. ~Knows(Fresh, k)
        <4>1. /\ Fresh.neighbors = {} /\ DOMAIN Fresh.baseline = {} /\ DOMAIN Fresh.nextHops = {}
              /\ DOMAIN Fresh.counters = {}
          BY DEF Fresh
        <4>2. k[1] \in Rules
          BY KeysAreKeys DEF IsKey
        <4>3. CASE k[1] = "bgp-neighbor-lost"
          BY <4>1, <4>3 DEF Knows
        <4>4. CASE k[1] \in {"route-count-drop", "traffic-shift"}
          BY <4>1, <4>4 DEF Knows
        <4>5. CASE k[1] = "next-hop-change"
          BY <4>1, <4>5 DEF Knows
        <4>6. CASE k[1] = "interface-errors"
          BY <4>1, <4>6 DEF Knows
        <4> QED
          BY <4>2, <4>3, <4>4, <4>5, <4>6 DEF Rules
      <3>4. StateOf(Fresh, k) = Quiet
        BY DEF StateOf, Fresh
      <3>5. \A verdict : StreakIs(h, k, 0, 0, verdict)
        BY AlertsAssumption DEF StreakIs
      <3>6. AlertState(Quiet, h, k, 0, {}, {})
        BY <3>5 DEF AlertState, Quiet
      <3>7. Knowledge(Fresh, h, k, 0)
        BY <3>2, <3>3 DEF Knowledge
      <3>8. AlertState(StateOf(Fresh, k), h, k, 0, Alerts({}, <<>>, "firing", k), Alerts({}, <<>>, "resolved", k))
        BY <3>1, <3>4, <3>6
      <3>9. \A m \in 1..0 : FALSE
        OBVIOUS
      <3> QED
        BY <3>7, <3>8, <3>9 DEF Judged, h
    <2> QED
      BY <1>1, <1>2, <1>3, <1>5, <2>1, <2>2, <2>3 DEF Telling
  <1> QED
    BY <1>4, <1>5

-----------------------------------------------------------------------------
(* What is proved of the alerts *)

LEMMA TellingStep ==
  ASSUME DueInv, [Next]_vars
  PROVE  DueInv'
  <1>1. HealthInv /\ HealthInv' /\ SealInv' /\ \A r \in Runs : Telling(r)
    BY RecordingStep DEF DueInv, HealthInv
  <1>2. ASSUME NEW r \in Runs, RunStep(r) \/ Kill(r), NEW q \in Runs PROVE Telling(q)'
    <2>1. CASE q # r
      BY <1>1, <1>2, <2>1, OthersTell
    <2>2. Telling(r)'
      BY <1>1, <1>2, StillTelling, OpenTells, WriteTells, NewTickTells, AdvertiseTells,
         AdvertiseFailsTells, DeliverTells DEF RunStep
    <2> QED
      BY <2>1, <2>2
  <1>3. ASSUME PowerCut, NEW r \in Runs PROVE Telling(r)'
    BY <1>1, <1>3, CutTells
  <1>4. ASSUME DayPasses \/ UNCHANGED vars, NEW r \in Runs PROVE Telling(r)'
    BY <1>1, <1>4, WorldTells
  <1> QED
    BY <1>1, <1>2, <1>3, <1>4 DEF Next, Rest, DueInv

\* The inductive invariant of the alerts: the engine knows of a key what the samples on
\* record said of it, and of a tick that is over no alert is missing (Observe, WriteTick).
THEOREM DueInvariant == Spec => []DueInv
  <1>1. Init => DueInv
    BY InitShape, InitRecords, InitTells DEF DueInv, HealthInv, SealInv
  <1>2. DueInv /\ [Next]_vars => DueInv'
    BY TellingStep
  <1> QED
    BY <1>1, <1>2, PTL DEF Spec

\* For any number of runs, any samples and thresholds, and any failures, kills and power
\* cuts: the alerts on record are those that the samples on record make due (Observe).
THEOREM AlertsOnTime == Spec => []AlertsAreDue
  <1>1. ASSUME DueInv PROVE AlertsAreDue
    <2> SUFFICES ASSUME NEW r \in Runs, NEW k \in AlertKeys, NEW n \in 1..tick[r],
                        n < tick[r] \/ pc[r] = "ready"
                 PROVE  Due(History(r), AlertsOf(r, "firing", k), AlertsOf(r, "resolved", k), k, n)
      BY DEF AlertsAreDue, Due
    <2> DEFINE L == LinesIn(seg[r])
    <2>1. Telling(r) /\ Recording(r)
      BY <1>1 DEF DueInv, HealthInv
    <2>2. Lines(r) = L
      BY DEF Lines, LinesIn, Places
    <2> HIDE DEF L
    <2>3. TicksOf(r) = TicksIn(L) /\ \A state : AlertsOf(r, state, k) = AlertsIn(L, state, k)
      BY <2>2 DEF TicksOf, TicksIn, AlertsOf, AlertsIn, IsTick
    <2>4. History(r) = HistoryIn(L)
      BY <2>3 DEF History, HistoryIn
    <2>5. CASE n < tick[r]
      BY <2>1, <2>3, <2>4, <2>5 DEF Telling, Frozen, L
    <2>6. CASE n = tick[r] /\ pc[r] = "ready"
      <3>1. todo[r] = <<>> /\ last[r] = tick[r]
        BY <2>1, <2>6 DEF Telling, Records, Recording, BetweenTicks
      <3>2. Judged(engine[r], L, <<>>, tick[r], k)
        BY <2>1, <2>6, <3>1 DEF Telling, Busy, BetweenTicks, L
      <3>3. \A state : Alerts(L, <<>>, state, k) = AlertsIn(L, state, k)
        BY DEF Alerts, Listed
      <3> QED
        BY <2>3, <2>4, <2>6, <3>2, <3>3 DEF Judged
    <2>7. tick[r] \in Nat
      BY <2>1 DEF Recording
    <2> QED
      BY <2>5, <2>6, <2>7
  <1> QED
    BY <1>1, DueInvariant, PTL
=============================================================================
