------------------------ MODULE BroadcastRunProofs ------------------------
(***************************************************************************)
(* For any number of viewers and workers, any page size and any faults:    *)
(* the variables of a run keep their types, and the committed cursor never *)
(* passes over a viewer of the snapshot who has no delivery record.  While *)
(* no worker takes over from a live one, the counts are those of the       *)
(* records, and a broadcast that is over has dealt with everybody.         *)
(* However runs overlap, a viewer gets one message, and one more at most   *)
(* for every run that was lost and every one that took over.               *)
(***************************************************************************)
EXTENDS BroadcastRun, FiniteSetTheorems, TLAPS

----------------------------------------------------------------------------
(* Rows and counts.                                                         *)

LEMMA Finite ==
  ASSUME NEW S \in SUBSET Viewers
  PROVE  IsFiniteSet(S) /\ Cardinality(S) \in Nat
<1>1. IsFiniteSet(Viewers)
  BY FS_Interval, NType DEF Viewers
<1>. QED  BY <1>1, FS_Subset, FS_CardinalityType

LEMMA FlushType ==
  ASSUME row \in Row, NEW old \in Row, NEW new \in Row
  PROVE  Flush(old, new) \in Row
BY DEF Flush, Row

LEMMA AdvanceType ==
  ASSUME NEW c \in Row, NEW s \in Nat, NEW f \in Nat, NEW b \in Nat, NEW k \in Nat
  PROVE  /\ CheckCounts(Advance(c, s, f, b, k)) \in Row
         /\ CheckCounts(Advance(c, s, f, b, k)).cursor = k
         /\ CheckCounts(Advance(c, s, f, b, k)).max = c.max
<1>1. /\ Advance(c, s, f, b, k) \in Row
      /\ Advance(c, s, f, b, k).cursor = k
      /\ Advance(c, s, f, b, k).max = c.max
  <2>. DEFINE x == c.sent + s  y == c.failed + f  z == c.blocked + b
  <2>1. x \in Nat /\ y \in Nat /\ z \in Nat
    BY DEF Row
  <2>2. Advance(c, s, f, b, k) =
          [c EXCEPT !.sent = x, !.failed = y, !.blocked = z, !.cursor = k]
    BY DEF Advance
  <2>. HIDE DEF x, y, z
  <2>. QED  BY <2>1, <2>2 DEF Row
<1>2. ASSUME NEW d \in Row
      PROVE  /\ CheckCounts(d) \in Row
             /\ CheckCounts(d).cursor = d.cursor
             /\ CheckCounts(d).max = d.max
  <2>1. FinalStatus(d) \in RowStatuses
    BY DEF FinalStatus, RowStatuses
  <2>2. ASSUME NEW x \in RowStatuses
        PROVE  /\ [d EXCEPT !.status = x] \in Row
               /\ [d EXCEPT !.status = x].cursor = d.cursor
               /\ [d EXCEPT !.status = x].max = d.max
    BY DEF Row
  <2>. QED  BY <2>1, <2>2 DEF CheckCounts
<1>. QED  BY <1>1, <1>2

LEMMA SnapshotType ==
  ASSUME NEW c \in Row, NEW s \in Snapshots(c)
  PROVE  /\ [s EXCEPT !.status = "RUNNING"] \in Row
         /\ [s EXCEPT !.status = "RUNNING"].cursor = c.cursor
         /\ [s EXCEPT !.status = "RUNNING"].max # 0
         /\ c.max # 0 => [s EXCEPT !.status = "RUNNING"].max = c.max
<1>1. s \in Row /\ s.cursor = c.cursor /\ s.max # 0 /\ (c.max # 0 => s.max = c.max)
  <2>1. CASE c.max # 0
    BY <2>1 DEF Snapshots
  <2>2. CASE c.max = 0
    <3>1. PICK m \in Active : s = [c EXCEPT !.max = m, !.total = Cardinality(Active)]
      BY <2>2 DEF Snapshots
    <3>2. m \in Nat /\ m # 0 /\ Cardinality(Active) \in Nat
      BY Finite, NType DEF Active, Viewers
    <3>. QED  BY <2>2, <3>1, <3>2 DEF Row
  <2>. QED  BY <2>1, <2>2
<1>2. "RUNNING" \in RowStatuses
  BY DEF RowStatuses
<1>. QED  BY <1>1, <1>2 DEF Row

----------------------------------------------------------------------------
(* Types.                                                                   *)

LEMMA InitType == Init => TypeOK
<1>. SUFFICES ASSUME Init PROVE TypeOK
  OBVIOUS
<1>1. NewRow \in Row
  BY DEF NewRow, Row, RowStatuses
<1>2. NoResult \in [Viewers -> Outcomes \cup {"NONE"}]
  BY DEF NoResult
<1>. QED  BY <1>1, <1>2 DEF Init, TypeOK, PCs

LEMMA SpendType ==
  ASSUME TypeOK, NEW k \in Faults, Spend(k)
  PROVE  faults' \in [Faults -> Nat]
BY DEF TypeOK, Spend

LEMMA PassType ==
  ASSUME TypeOK, NEW w \in Workers, NEW v \in Viewers, NEW o \in Outcomes \cup {"NONE"},
         Pass(w, v, o)
  PROVE  /\ result' \in [Workers -> [Viewers -> Outcomes \cup {"NONE"}]]
         /\ todo' \in [Workers -> SUBSET Viewers]
         /\ cursor' \in [Workers -> Nat]
         /\ pc' \in [Workers -> PCs]
BY NType DEF TypeOK, Pass, PCs, Viewers

LEMMA AbandonType ==
  ASSUME TypeOK, NEW w \in Workers, Abandon(w)
  PROVE  /\ result' \in [Workers -> [Viewers -> Outcomes \cup {"NONE"}]]
         /\ todo' \in [Workers -> SUBSET Viewers]
         /\ wrote' \in [Workers -> SUBSET Viewers]
         /\ pc' \in [Workers -> PCs]
         /\ UNCHANGED <<copy, cursor, found, outcome>>
BY DEF TypeOK, Abandon, PCs, NoResult

LEMMA StepType == TypeOK /\ [Next]_vars => TypeOK'
<1>. SUFFICES ASSUME TypeOK, [Next]_vars PROVE TypeOK'
  OBVIOUS
<1>1. CASE UNCHANGED vars
  BY <1>1 DEF vars, run, TypeOK
<1>2. ASSUME NEW v \in Viewers, ViewerJoins(v) \/ ViewerLeaves(v) \/ ViewerReturns(v)
      PROVE  TypeOK'
  <2>1. faults' \in [Faults -> Nat]
    BY <1>2, SpendType DEF ViewerJoins, ViewerLeaves, ViewerReturns, Faults
  <2>. QED  BY <1>2, <2>1 DEF ViewerJoins, ViewerLeaves, ViewerReturns, TypeOK, run
<1>3. ASSUME NEW w \in Workers, Claim(w) PROVE TypeOK'
  <2>1. faults' \in [Faults -> Nat]
    BY <1>3, SpendType DEF Claim, Faults, TypeOK
  <2>2. row' \in Row
    BY <1>3 DEF Claim, TypeOK, Row, RowStatuses
  <2>. QED  BY <1>3, <2>1, <2>2 DEF Claim, TypeOK, PCs
<1>4. ASSUME NEW w \in Workers, LoadBroadcast(w) PROVE TypeOK'
  <2>1. CASE row.status = "COMPLETED"
    BY <1>4, <2>1 DEF LoadBroadcast, TypeOK, PCs
  <2>2. CASE row.status # "COMPLETED"
    <3>1. copy' \in [Workers -> Row] /\ pc' \in [Workers -> PCs]
      BY <1>4, <2>2 DEF LoadBroadcast, TypeOK, PCs
    <3>. QED  BY <1>4, <3>1 DEF LoadBroadcast, TypeOK
  <2>. QED  BY <2>1, <2>2
<1>5. ASSUME NEW w \in Workers, StartRun(w) PROVE TypeOK'
  <2>1. PICK c \in Snapshots(copy[w]) :
          /\ row' = Flush(copy[w], [c EXCEPT !.status = "RUNNING"])
          /\ copy' = [copy EXCEPT ![w] = [c EXCEPT !.status = "RUNNING"]]
    BY <1>5 DEF StartRun
  <2>2. copy[w] \in Row /\ [c EXCEPT !.status = "RUNNING"] \in Row
    BY SnapshotType DEF TypeOK
  <2>3. row' \in Row
    BY <2>1, <2>2, FlushType DEF TypeOK
  <2>4. copy[w].cursor \in Nat
    BY <2>2 DEF Row
  <2>. QED  BY <1>5, <2>1, <2>2, <2>3, <2>4 DEF StartRun, TypeOK, PCs, Active
<1>6. ASSUME NEW w \in Workers, EmptyAudience(w) PROVE TypeOK'
  <2>1. row' \in Row
    BY <1>6 DEF EmptyAudience, TypeOK, Row, RowStatuses
  <2>. QED  BY <1>6, <2>1 DEF EmptyAudience, TypeOK, PCs
<1>7. ASSUME NEW w \in Workers, FetchPage(w) PROVE TypeOK'
  BY <1>7 DEF FetchPage, TypeOK, PCs, Ahead, Active
<1>8. ASSUME NEW w \in Workers, CheckDelivery(w) PROVE TypeOK'
  <2>1. PICK v \in Viewers :
          \/ Pass(w, v, "SENT") /\ UNCHANGED found
          \/ /\ found' = [found EXCEPT ![w] = record[v]]
             /\ pc' = [pc EXCEPT ![w] = "checked"]
             /\ UNCHANGED <<todo, cursor, result>>
    BY <1>8 DEF CheckDelivery
  <2>2. CASE Pass(w, v, "SENT") /\ UNCHANGED found
    BY <1>8, <2>2, PassType DEF CheckDelivery, TypeOK, Outcomes
  <2>3. CASE /\ found' = [found EXCEPT ![w] = record[v]]
             /\ pc' = [pc EXCEPT ![w] = "checked"]
             /\ UNCHANGED <<todo, cursor, result>>
    BY <1>8, <2>3 DEF CheckDelivery, TypeOK, PCs
  <2>. QED  BY <2>1, <2>2, <2>3
<1>9. ASSUME NEW w \in Workers, Send(w) PROVE TypeOK'
  BY <1>9 DEF Send, TypeOK, PCs
<1>10. ASSUME NEW w \in Workers, RecordDelivery(w) PROVE TypeOK'
  <2>1. PICK v \in Viewers :
          /\ Pass(w, v, outcome[w])
          /\ wrote' = wrote \/ wrote' = [wrote EXCEPT ![w] = @ \cup {v}]
    BY <1>10 DEF RecordDelivery
  <2>2. wrote' \in [Workers -> SUBSET Viewers]
    <3>1. [wrote EXCEPT ![w] = @ \cup {v}] \in [Workers -> SUBSET Viewers]
      BY DEF TypeOK
    <3>. QED  BY <2>1, <3>1 DEF TypeOK
  <2>. QED  BY <1>10, <2>1, <2>2, PassType DEF RecordDelivery, TypeOK
<1>11. ASSUME NEW w \in Workers, InsertWaits(w) PROVE TypeOK'
  BY <1>11 DEF InsertWaits, TypeOK, PCs
<1>12. ASSUME NEW w \in Workers, InsertGoesThrough(w) PROVE TypeOK'
  <2>1. PICK v \in Viewers :
          /\ Pass(w, v, outcome[w])
          /\ wrote' = [wrote EXCEPT ![w] = @ \cup {v}]
    BY <1>12 DEF InsertGoesThrough
  <2>2. wrote' \in [Workers -> SUBSET Viewers]
    <3>1. [wrote EXCEPT ![w] = @ \cup {v}] \in [Workers -> SUBSET Viewers]
      BY DEF TypeOK
    <3>. QED  BY <2>1, <3>1 DEF TypeOK
  <2>. QED  BY <1>12, <2>1, <2>2, PassType DEF InsertGoesThrough, TypeOK
<1>13. ASSUME NEW w \in Workers, InsertConflicts(w) PROVE TypeOK'
  BY <1>13, AbandonType DEF InsertConflicts, TypeOK
<1>14. ASSUME NEW w \in Workers, Crash(w) PROVE TypeOK'
  <2>1. faults' \in [Faults -> Nat]
    BY <1>14, SpendType DEF Crash, Faults
  <2>. QED  BY <1>14, <2>1, AbandonType DEF Crash, TypeOK
<1>15. ASSUME NEW w \in Workers, CommitPage(w) PROVE TypeOK'
  <2>. DEFINE new == CheckCounts(Advance(copy[w], Counted(w, "SENT"), Counted(w, "FAILED"),
                                         Counted(w, "BLOCKED"), cursor[w]))
  <2>1. new \in Row
    <3>1. \A o : Counted(w, o) \in Nat
      BY Finite DEF Counted
    <3>. QED  BY <3>1, AdvanceType DEF TypeOK
  <2>2. row' \in Row /\ copy' \in [Workers -> Row]
    <3>1. row' = Flush(copy[w], new) /\ copy' = [copy EXCEPT ![w] = new]
      BY <1>15 DEF CommitPage
    <3>2. copy[w] \in Row
      BY DEF TypeOK
    <3>. HIDE DEF new
    <3>. QED  BY <2>1, <3>1, <3>2, FlushType DEF TypeOK
  <2>3. record' \in [Viewers -> Outcomes \cup {"NONE"}]
    BY <1>15 DEF CommitPage, TypeOK
  <2>4. /\ viewer' \in [Viewers -> {"ABSENT", "ACTIVE", "BLOCKED"}]
        /\ steady' \subseteq Viewers
    BY <1>15 DEF CommitPage, TypeOK
  <2>5. /\ result' \in [Workers -> [Viewers -> Outcomes \cup {"NONE"}]]
        /\ wrote' \in [Workers -> SUBSET Viewers]
        /\ pc' \in [Workers -> PCs]
    BY <1>15 DEF CommitPage, TypeOK, NoResult, PCs
  <2>6. UNCHANGED <<sends, faults, todo, cursor, found, outcome>>
    BY <1>15 DEF CommitPage
  <2>. QED  BY <2>2, <2>3, <2>4, <2>5, <2>6 DEF TypeOK
<1>16. ASSUME NEW w \in Workers, EndRun(w) PROVE TypeOK'
  <2>1. row' \in Row
    BY <1>16 DEF EndRun, FinalStatus, TypeOK, Row, RowStatuses
  <2>. QED  BY <1>16, <2>1 DEF EndRun, TypeOK, PCs
<1>. QED  BY <1>1, <1>2, <1>3, <1>4, <1>5, <1>6, <1>7, <1>8, <1>9, <1>10, <1>11,
             <1>12, <1>13, <1>14, <1>15, <1>16 DEF Next, Step

\* Every variable of a run always has its type.
THEOREM TypeCorrect == Spec => []TypeOK
BY InitType, StepType, PTL DEF Spec

----------------------------------------------------------------------------
(* The cursor.                                                              *)

Working == {"ready", "paging", "checked", "sent", "inserting"}

\* Viewers up to k who have been there since the snapshot have a record, or
\* are about to get one from the transaction that writes the records in W.
CoveredTo(k, W) == \A v \in steady : v <= k => record[v] # "NONE" \/ v \in W

\* Nobody of the snapshot is between the cursor and a viewer of the page
\* without being of the page.
NobodyLeftOut(w) ==
  \A u \in todo[w] :
    /\ cursor[w] < u
    /\ \A v \in steady : cursor[w] < v /\ v < u => v \in todo[w]

\* What holds of one worker.
WorkerInv(w) ==
  /\ pc[w] \in {"loaded"} \cup Working => CoveredTo(copy[w].cursor, {})
  /\ pc[w] \in Working => CoveredTo(cursor[w], wrote[w]) /\ NobodyLeftOut(w)
  /\ pc[w] \in Working => copy[w].max # 0
  /\ pc[w] \in {"idle", "claimed", "loaded", "ready"} => todo[w] = {} /\ wrote[w] = {}
  /\ \A v \in wrote[w] : result[w][v] # "NONE"
  /\ pc[w] \in {"sent", "inserting"} => outcome[w] # "NONE"
  /\ pc[w] \in {"checked", "sent", "inserting"} /\ found[w] # "NONE" =>
       \A v \in Viewers : IsNext(w, v) => record[v] # "NONE"

\* Before the first snapshot nothing has been processed.
NoSnapshotYet ==
  row.max = 0 =>
    /\ row.cursor = 0
    /\ \A w \in Workers : pc[w] \in {"idle", "claimed", "loaded"}
    /\ \A w \in Workers : pc[w] = "loaded" => copy[w].cursor = 0 /\ copy[w].max = 0

Covered ==
  /\ CursorCoversSteady
  /\ steady \subseteq Active
  /\ NoSnapshotYet
  /\ \A w \in Workers : WorkerInv(w)

LEMMA InitCovered == Init => Covered
<1>. SUFFICES ASSUME Init PROVE Covered
  OBVIOUS
<1>. USE DEF Init
<1>1. CursorCoversSteady /\ steady \subseteq Active
  BY DEF CursorCoversSteady
<1>2. NoSnapshotYet
  BY DEF NoSnapshotYet, NewRow
<1>3. \A w \in Workers : WorkerInv(w)
  BY DEF WorkerInv, Working
<1>. QED  BY <1>1, <1>2, <1>3 DEF Covered

\* What holds of a worker outlives the steps of others: records are not taken
\* back, and nobody joins the viewers of the snapshot.
LEMMA OtherWorker ==
  ASSUME NEW u \in Workers, WorkerInv(u), steady' \subseteq steady,
         \A v \in Viewers : record[v] # "NONE" => record'[v] # "NONE",
         steady \subseteq Viewers,
         pc'[u] = pc[u], copy'[u] = copy[u], todo'[u] = todo[u], cursor'[u] = cursor[u],
         found'[u] = found[u], outcome'[u] = outcome[u], result'[u] = result[u],
         wrote'[u] = wrote[u]
  PROVE  WorkerInv(u)'
<1>1. \A k, W : CoveredTo(k, W) => CoveredTo(k, W)'
  BY DEF CoveredTo
<1>2. NobodyLeftOut(u) => NobodyLeftOut(u)'
  BY DEF NobodyLeftOut
<1>3. \A v : IsNext(u, v)' => IsNext(u, v)
  BY DEF IsNext
<1>. QED  BY <1>1, <1>2, <1>3 DEF WorkerInv

\* No variable of a worker but w changes.
OnlyWorker(w) ==
  \A u \in Workers \ {w} :
    /\ pc'[u] = pc[u] /\ copy'[u] = copy[u] /\ todo'[u] = todo[u]
    /\ cursor'[u] = cursor[u] /\ found'[u] = found[u] /\ outcome'[u] = outcome[u]
    /\ result'[u] = result[u] /\ wrote'[u] = wrote[u]

\* A worker's step on its own variables in the middle of a run.
LEMMA OwnStep ==
  ASSUME TypeOK, Covered, NEW w \in Workers, OnlyWorker(w), pc[w] \in Working,
         UNCHANGED <<row, record, steady, viewer>>, WorkerInv(w)'
  PROVE  Covered'
<1>1. row.max # 0
  BY DEF Covered, NoSnapshotYet, Working
<1>2. CursorCoversSteady' /\ steady' \subseteq Active' /\ NoSnapshotYet'
  BY <1>1 DEF Covered, CursorCoversSteady, Active, NoSnapshotYet
<1>3. \A u \in Workers : WorkerInv(u)'
  <2>. SUFFICES ASSUME NEW u \in Workers \ {w} PROVE WorkerInv(u)'
    OBVIOUS
  <2>. QED  BY OtherWorker DEF Covered, OnlyWorker, TypeOK
<1>. QED  BY <1>2, <1>3 DEF Covered

\* The next viewer is dealt with: it has a record, or is about to get one.
LEMMA PassCovers ==
  ASSUME TypeOK, Covered, NEW w \in Workers, NEW v \in Viewers, NEW o \in Outcomes,
         pc[w] \in Working \ {"ready"}, IsNext(w, v), Pass(w, v, o),
         UNCHANGED <<record, steady, copy, outcome>>,
         wrote' = wrote \/ wrote' = [wrote EXCEPT ![w] = @ \cup {v}],
         record[v] # "NONE" \/ v \in wrote'[w]
  PROVE  WorkerInv(w)'
<1>. USE DEF TypeOK, Pass, Viewers
<1>1. WorkerInv(w) /\ pc'[w] = "paging" /\ cursor'[w] = v /\ todo'[w] = todo[w] \ {v}
  BY DEF Covered, PCs
<1>2. v \in todo[w] /\ \A u \in todo[w] : v <= u
  BY DEF IsNext
<1>3. CoveredTo(copy[w].cursor, {})' /\ copy'[w].max # 0
  BY <1>1 DEF WorkerInv, CoveredTo, Working
<1>4. wrote[w] \subseteq wrote'[w] /\ wrote'[w] \subseteq wrote[w] \cup {v}
  OBVIOUS
<1>5. CoveredTo(cursor[w], wrote[w])'
  <2>. SUFFICES ASSUME NEW u \in steady, u <= v
                PROVE  record[u] # "NONE" \/ u \in wrote'[w]
    BY <1>1 DEF CoveredTo
  <2>1. CASE u <= cursor[w]
    BY <1>1, <1>4, <2>1 DEF WorkerInv, CoveredTo
  <2>2. CASE cursor[w] < u /\ u < v
    <3>1. u \in todo[w]
      BY <1>1, <1>2, <2>2 DEF WorkerInv, NobodyLeftOut
    <3>. QED  BY <1>2, <2>2, <3>1, NType
  <2>3. CASE u = v
    BY <2>3
  <2>. QED  BY <2>1, <2>2, <2>3, NType
<1>6. NobodyLeftOut(w)'
  <2>. SUFFICES ASSUME NEW u \in todo[w] \ {v}
                PROVE  /\ v < u
                       /\ \A x \in steady : v < x /\ x < u => x \in todo[w] \ {v}
    BY <1>1 DEF NobodyLeftOut
  <2>1. v < u
    BY <1>2, NType
  <2>2. cursor[w] < v
    BY <1>1, <1>2 DEF WorkerInv, NobodyLeftOut
  <2>3. ASSUME NEW x \in steady, v < x, x < u
        PROVE  x \in todo[w] \ {v}
    <3>1. cursor[w] < x
      BY <2>2, <2>3, NType
    <3>. QED  BY <1>1, <2>3, <3>1, NType DEF WorkerInv, NobodyLeftOut
  <2>4. \A x \in steady : v < x /\ x < u => x \in todo[w] \ {v}
    BY <2>3
  <2>. QED  BY <2>1, <2>4
<1>7. \A u \in wrote'[w] : result'[w][u] # "NONE"
  <2>1. result'[w] = [result[w] EXCEPT ![v] = o]
    OBVIOUS
  <2>2. result[w] \in [Viewers -> Outcomes \cup {"NONE"}] /\ wrote'[w] \subseteq Viewers
    OBVIOUS
  <2>3. \A u \in wrote[w] : result[w][u] # "NONE"
    BY <1>1 DEF WorkerInv
  <2>. QED  BY <1>4, <2>1, <2>2, <2>3 DEF Outcomes
<1>. QED  BY <1>1, <1>3, <1>5, <1>6, <1>7 DEF WorkerInv

\* Steps of viewers: nobody joins those of the snapshot, and who leaves stops
\* being one of them.
LEMMA ViewerCovered ==
  ASSUME TypeOK, Covered, UNCHANGED <<row, record, run>>, steady' \subseteq steady,
         steady' \subseteq Active'
  PROVE  Covered'
<1>1. CursorCoversSteady' /\ NoSnapshotYet'
  BY DEF Covered, CursorCoversSteady, NoSnapshotYet, run
<1>2. \A u \in Workers : WorkerInv(u)'
  BY OtherWorker DEF Covered, TypeOK, run
<1>. QED  BY <1>1, <1>2 DEF Covered

\* A worker outside of a page stops, or takes the job, and the row keeps its
\* cursor and its snapshot.
LEMMA OutsideCovered ==
  ASSUME TypeOK, Covered, NEW w \in Workers, OnlyWorker(w),
         row'.cursor = row.cursor, row'.max = row.max,
         UNCHANGED <<record, steady, viewer>>,
         pc'[w] \in {"idle", "claimed"}, todo'[w] = {}, wrote'[w] = {}
  PROVE  Covered'
<1>1. CursorCoversSteady' /\ steady' \subseteq Active'
  BY DEF Covered, CursorCoversSteady, Active
<1>2. NoSnapshotYet'
  BY DEF Covered, NoSnapshotYet, OnlyWorker
<1>3. WorkerInv(w)'
  BY DEF WorkerInv, Working
<1>4. ASSUME NEW u \in Workers \ {w} PROVE WorkerInv(u)'
  BY OtherWorker DEF Covered, OnlyWorker, TypeOK
<1>. QED  BY <1>1, <1>2, <1>3, <1>4 DEF Covered

\* Loading the row: its cursor covers the viewers it has passed.
LEMMA LoadCovered ==
  ASSUME TypeOK, Covered, NEW w \in Workers, LoadBroadcast(w)
  PROVE  Covered'
<1>1. OnlyWorker(w) /\ UNCHANGED <<row, record, steady, viewer>>
  BY DEF LoadBroadcast, OnlyWorker, TypeOK
<1>2. todo'[w] = {} /\ wrote'[w] = {}
  BY DEF LoadBroadcast, Covered, WorkerInv
<1>3. CASE pc'[w] = "idle"
  BY <1>1, <1>2, <1>3, OutsideCovered
<1>4. CASE pc'[w] = "loaded" /\ copy'[w] = row
  <2>1. CursorCoversSteady' /\ steady' \subseteq Active'
    BY <1>1 DEF Covered, CursorCoversSteady, Active
  <2>2. NoSnapshotYet'
    BY <1>1, <1>4 DEF Covered, NoSnapshotYet, OnlyWorker
  <2>3. CoveredTo(row.cursor, {})'
    BY <1>1 DEF Covered, CursorCoversSteady, CoveredTo
  <2>4. WorkerInv(w)'
    BY <1>1, <1>2, <1>4, <2>3 DEF WorkerInv, Working
  <2>5. ASSUME NEW u \in Workers \ {w} PROVE WorkerInv(u)'
    BY <1>1, OtherWorker DEF Covered, OnlyWorker, TypeOK
  <2>. QED  BY <2>1, <2>2, <2>4, <2>5 DEF Covered
<1>5. (pc'[w] = "idle") \/ (pc'[w] = "loaded" /\ copy'[w] = row)
  BY DEF LoadBroadcast, TypeOK
<1>. QED  BY <1>3, <1>4, <1>5

\* The start of a run takes the snapshot, while nobody has processed anything,
\* or keeps the one there is; the row's cursor stays.
LEMMA StartCovered ==
  ASSUME TypeOK, Covered, NEW w \in Workers, StartRun(w)
  PROVE  Covered'
<1>1. PICK new \in Row :
        /\ row' = Flush(copy[w], new) /\ copy' = [copy EXCEPT ![w] = new]
        /\ new.cursor = copy[w].cursor /\ new.max # 0
        /\ (copy[w].max # 0 => new.max = copy[w].max)
  <2>1. copy[w] \in Row
    BY DEF TypeOK
  <2>2. PICK c \in Snapshots(copy[w]) :
          /\ row' = Flush(copy[w], [c EXCEPT !.status = "RUNNING"])
          /\ copy' = [copy EXCEPT ![w] = [c EXCEPT !.status = "RUNNING"]]
    BY DEF StartRun
  <2>. QED  BY <2>1, <2>2, SnapshotType
<1>2. copy'[w].cursor = copy[w].cursor /\ copy'[w].max # 0
  BY <1>1 DEF TypeOK
<1>3. row'.cursor = row.cursor /\ (row'.max = row.max \/ row'.max # 0)
  BY <1>1 DEF Flush
<1>4. /\ OnlyWorker(w) /\ UNCHANGED <<record, viewer>>
      /\ pc'[w] = "ready" /\ cursor'[w] = copy[w].cursor
      /\ todo'[w] = {} /\ wrote'[w] = {}
  BY DEF StartRun, OnlyWorker, TypeOK, Covered, WorkerInv
<1>5. CASE row.max = 0
  <2>1. /\ steady' = Active /\ row.cursor = 0
        /\ copy[w].cursor = 0 /\ copy[w].max = 0
        /\ \A u \in Workers : /\ pc[u] \in {"idle", "claimed", "loaded"}
                              /\ pc[u] = "loaded" => copy[u].cursor = 0
    BY <1>5 DEF StartRun, Covered, NoSnapshotYet
  <2>2. CoveredTo(0, {})'
    BY <2>1, NType DEF CoveredTo, Active, Viewers
  <2>3. CursorCoversSteady' /\ steady' \subseteq Active'
    BY <1>3, <1>4, <2>1, <2>2 DEF CursorCoversSteady, CoveredTo, Active
  <2>4. NoSnapshotYet'
    <3>1. row'.max # 0
      BY <1>1, <2>1 DEF Flush
    <3>. QED  BY <3>1 DEF NoSnapshotYet
  <2>5. WorkerInv(w)'
    <3>1. CoveredTo(copy[w].cursor, {})' /\ CoveredTo(cursor[w], wrote[w])'
      BY <1>2, <1>4, <2>1, <2>2 DEF CoveredTo
    <3>. QED  BY <1>2, <1>4, <3>1 DEF WorkerInv, NobodyLeftOut
  <2>6. ASSUME NEW u \in Workers \ {w} PROVE WorkerInv(u)'
    <3>1. pc'[u] = pc[u] /\ pc[u] \in {"idle", "claimed", "loaded"}
          /\ todo'[u] = {} /\ wrote'[u] = {}
      BY <1>4, <2>1 DEF OnlyWorker, Covered, WorkerInv
    <3>2. pc[u] = "loaded" => CoveredTo(copy[u].cursor, {})'
      BY <1>4, <2>1, <2>2 DEF OnlyWorker, CoveredTo
    <3>. QED  BY <3>1, <3>2 DEF WorkerInv, Working
  <2>. QED  BY <2>3, <2>4, <2>5, <2>6 DEF Covered
<1>6. CASE row.max # 0
  <2>1. steady' = steady
    BY <1>6 DEF StartRun
  <2>2. CursorCoversSteady' /\ steady' \subseteq Active' /\ NoSnapshotYet'
    BY <1>3, <1>4, <1>6, <2>1 DEF Covered, CursorCoversSteady, Active, NoSnapshotYet
  <2>3. WorkerInv(w)'
    <3>1. CoveredTo(copy[w].cursor, {})
      BY DEF StartRun, Covered, WorkerInv
    <3>2. CoveredTo(copy[w].cursor, {})' /\ CoveredTo(cursor[w], wrote[w])'
      BY <1>2, <1>4, <2>1, <3>1 DEF CoveredTo
    <3>. QED  BY <1>2, <1>4, <3>2 DEF WorkerInv, NobodyLeftOut
  <2>4. ASSUME NEW u \in Workers \ {w} PROVE WorkerInv(u)'
    BY <1>4, <2>1, OtherWorker DEF Covered, OnlyWorker, TypeOK
  <2>. QED  BY <2>2, <2>3, <2>4 DEF Covered
<1>. QED  BY <1>5, <1>6

\* The page holds everybody of the snapshot between the cursor and its last
\* viewer, because it is the first of them in the order of ids.
LEMMA FetchCovered ==
  ASSUME TypeOK, Covered, NEW w \in Workers, FetchPage(w)
  PROVE  Covered'
<1>1. PICK p \in SUBSET Ahead(w) :
        /\ \A v \in p, u \in Ahead(w) \ p : v < u
        /\ todo' = [todo EXCEPT ![w] = p]
  BY DEF FetchPage
<1>2. /\ OnlyWorker(w) /\ UNCHANGED <<row, record, steady, viewer>>
      /\ pc[w] = "ready" /\ pc'[w] = "paging" /\ todo'[w] = p
      /\ UNCHANGED <<copy, cursor, wrote, result>>
  BY <1>1 DEF FetchPage, OnlyWorker, TypeOK
<1>3. WorkerInv(w) /\ steady \subseteq Active
  BY DEF Covered
<1>4. NobodyLeftOut(w)'
  <2>. SUFFICES ASSUME NEW u \in p
                PROVE  /\ cursor[w] < u
                       /\ \A v \in steady : cursor[w] < v /\ v < u => v \in p
    BY <1>2 DEF NobodyLeftOut
  <2>1. cursor[w] < u /\ u <= copy[w].max /\ u \in 1 .. N
    BY DEF Ahead, Active, Viewers
  <2>2. ASSUME NEW v \in steady, cursor[w] < v, v < u
        PROVE  v \in p
    <3>1. v \in 1 .. N /\ copy[w].max \in Nat
      BY DEF TypeOK, Viewers, Row
    <3>2. v <= copy[w].max
      BY <2>1, <2>2, <3>1, NType
    <3>3. v \in Ahead(w)
      BY <1>3, <2>2, <3>2 DEF Ahead
    <3>4. ~(u < v)
      BY <2>1, <2>2, <3>1, NType
    <3>. QED  BY <1>1, <3>3, <3>4
  <2>3. \A v \in steady : cursor[w] < v /\ v < u => v \in p
    BY <2>2
  <2>. QED  BY <2>1, <2>3
<1>5. CoveredTo(copy[w].cursor, {})' /\ CoveredTo(cursor[w], wrote[w])'
  BY <1>2, <1>3 DEF WorkerInv, Working, CoveredTo
<1>6. WorkerInv(w)'
  BY <1>2, <1>3, <1>4, <1>5 DEF WorkerInv, Working
<1>. QED  BY <1>2, <1>6, OwnStep DEF Working

\* A step inside a page that leaves the page, the cursor and the records alone.
LEMMA StillCovers ==
  ASSUME TypeOK, Covered, NEW w \in Workers,
         pc[w] \in {"paging", "checked", "sent"},
         UNCHANGED <<record, steady, copy, todo, cursor, result, wrote>>,
         pc'[w] \in {"checked", "sent", "inserting"},
         pc'[w] \in {"sent", "inserting"} => outcome'[w] # "NONE",
         found'[w] # "NONE" => \A v \in Viewers : IsNext(w, v) => record[v] # "NONE"
  PROVE  WorkerInv(w)'
<1>1. WorkerInv(w)
  BY DEF Covered
<1>2. CoveredTo(copy[w].cursor, {})' /\ CoveredTo(cursor[w], wrote[w])' /\ NobodyLeftOut(w)'
  BY <1>1 DEF WorkerInv, Working, CoveredTo, NobodyLeftOut
<1>3. \A v : IsNext(w, v)' => IsNext(w, v)
  BY DEF IsNext
<1>. QED  BY <1>1, <1>2, <1>3 DEF WorkerInv, Working

LEMMA CheckCovered ==
  ASSUME TypeOK, Covered, NEW w \in Workers, CheckDelivery(w)
  PROVE  Covered'
<1>1. PICK v \in Viewers :
        /\ IsNext(w, v)
        /\ IF record[v] = "SENT"
             THEN Pass(w, v, "SENT") /\ UNCHANGED found
             ELSE /\ found' = [found EXCEPT ![w] = record[v]]
                  /\ pc' = [pc EXCEPT ![w] = "checked"]
                  /\ UNCHANGED <<todo, cursor, result>>
  BY DEF CheckDelivery
<1>2. /\ UNCHANGED <<row, record, steady, viewer, copy, outcome, wrote>>
      /\ pc[w] = "paging"
  BY DEF CheckDelivery
<1>3. CASE record[v] = "SENT"
  <2>1. OnlyWorker(w)
    BY <1>1, <1>2, <1>3 DEF OnlyWorker, Pass, TypeOK
  <2>2. WorkerInv(w)'
    BY <1>1, <1>2, <1>3, PassCovers DEF Working, Outcomes
  <2>. QED  BY <1>2, <2>1, <2>2, OwnStep DEF Working
<1>4. CASE record[v] # "SENT"
  <2>1. OnlyWorker(w) /\ pc'[w] = "checked" /\ found'[w] = record[v]
    BY <1>1, <1>2, <1>4 DEF OnlyWorker, TypeOK
  <2>2. \A u \in Viewers : IsNext(w, u) => u = v
    BY <1>1, NType DEF IsNext, Viewers
  <2>3. WorkerInv(w)'
    BY <1>1, <1>2, <1>4, <2>1, <2>2, StillCovers
  <2>. QED  BY <1>2, <2>1, <2>3, OwnStep DEF Working
<1>. QED  BY <1>3, <1>4

LEMMA SendCovered ==
  ASSUME TypeOK, Covered, NEW w \in Workers, Send(w) \/ InsertWaits(w)
  PROVE  Covered'
<1>1. /\ OnlyWorker(w)
      /\ UNCHANGED <<row, record, steady, viewer, copy, todo, cursor, found, result, wrote>>
  BY DEF Send, InsertWaits, OnlyWorker, TypeOK
<1>2. WorkerInv(w)
  BY DEF Covered
<1>3. \/ pc[w] = "checked" /\ pc'[w] = "sent"
      \/ pc[w] = "sent" /\ pc'[w] = "inserting"
  BY DEF Send, InsertWaits, TypeOK
<1>4. outcome'[w] # "NONE"
  <2>1. CASE Send(w)
    BY <2>1 DEF Send, Outcomes, TypeOK
  <2>2. CASE InsertWaits(w)
    BY <1>2, <2>2 DEF InsertWaits, WorkerInv
  <2>. QED  BY <2>1, <2>2
<1>5. found'[w] # "NONE" => \A v \in Viewers : IsNext(w, v) => record[v] # "NONE"
  BY <1>1, <1>2, <1>3 DEF WorkerInv
<1>6. WorkerInv(w)'
  BY <1>1, <1>3, <1>4, <1>5, StillCovers
<1>. QED  BY <1>1, <1>3, <1>6, OwnStep DEF Working

\* The viewer has a record, or the open transaction writes one.
LEMMA RecordCovered ==
  ASSUME TypeOK, Covered, NEW w \in Workers, RecordDelivery(w) \/ InsertGoesThrough(w)
  PROVE  Covered'
<1>1. WorkerInv(w)
  BY DEF Covered
<1>2. /\ UNCHANGED <<row, record, steady, viewer, copy, found, outcome>>
      /\ pc[w] \in {"sent", "inserting"}
  BY DEF RecordDelivery, InsertGoesThrough
<1>3. outcome[w] \in Outcomes
  BY <1>1, <1>2 DEF WorkerInv, TypeOK
<1>4. PICK v \in Viewers :
        /\ IsNext(w, v) /\ Pass(w, v, outcome[w])
        /\ \/ wrote' = wrote /\ record[v] # "NONE"
           \/ wrote' = [wrote EXCEPT ![w] = @ \cup {v}]
  BY <1>1, <1>3 DEF RecordDelivery, InsertGoesThrough, WorkerInv, Outcomes
<1>5. record[v] # "NONE" \/ v \in wrote'[w]
  BY <1>4 DEF TypeOK
<1>6. OnlyWorker(w)
  BY <1>2, <1>4 DEF OnlyWorker, Pass, TypeOK
<1>7. WorkerInv(w)'
  BY <1>2, <1>3, <1>4, <1>5, PassCovers DEF Working
<1>. QED  BY <1>2, <1>6, <1>7, OwnStep DEF Working

\* A lost worker takes nothing along that was committed.
LEMMA AbandonCovered ==
  ASSUME TypeOK, Covered, NEW w \in Workers, InsertConflicts(w) \/ Crash(w)
  PROVE  Covered'
<1>1. UNCHANGED <<row, record, steady, viewer>> /\ Abandon(w)
  BY DEF InsertConflicts, Crash
<1>2. OnlyWorker(w) /\ pc'[w] = "idle" /\ todo'[w] = {} /\ wrote'[w] = {}
  BY <1>1 DEF Abandon, OnlyWorker, TypeOK
<1>. QED  BY <1>1, <1>2, OutsideCovered

\* The commit of a page: the cursor it may write covers the viewers of the page
\* by the records it writes.
LEMMA CommitCovered ==
  ASSUME TypeOK, Covered, NEW w \in Workers, CommitPage(w)
  PROVE  Covered'
<1>1. WorkerInv(w)
  BY DEF Covered
<1>2. PICK new \in Row :
        /\ row' = Flush(copy[w], new) /\ copy' = [copy EXCEPT ![w] = new]
        /\ new.cursor = cursor[w] /\ new.max = copy[w].max
  <2>. DEFINE n == CheckCounts(Advance(copy[w], Counted(w, "SENT"), Counted(w, "FAILED"),
                                       Counted(w, "BLOCKED"), cursor[w]))
  <2>1. \A o : Counted(w, o) \in Nat
    BY Finite DEF Counted
  <2>2. n \in Row /\ n.cursor = cursor[w] /\ n.max = copy[w].max
    <3>1. copy[w] \in Row /\ cursor[w] \in Nat
      BY DEF TypeOK
    <3>2. PICK c \in Row, s \in Nat, f \in Nat, b \in Nat, k \in Nat :
            n = CheckCounts(Advance(c, s, f, b, k)) /\ c = copy[w] /\ k = cursor[w]
      BY <2>1, <3>1
    <3>. HIDE DEF n
    <3>3. /\ CheckCounts(Advance(c, s, f, b, k)) \in Row
          /\ CheckCounts(Advance(c, s, f, b, k)).cursor = k
          /\ CheckCounts(Advance(c, s, f, b, k)).max = c.max
      BY AdvanceType
    <3>. QED  BY <3>2, <3>3
  <2>3. row' = Flush(copy[w], n) /\ copy' = [copy EXCEPT ![w] = n]
    BY DEF CommitPage
  <2>. HIDE DEF n
  <2>. QED  BY <2>2, <2>3
<1>3. (row'.cursor = row.cursor \/ row'.cursor = cursor[w]) /\ row'.max = row.max
  BY <1>2 DEF Flush
<1>4. /\ OnlyWorker(w) /\ pc[w] = "paging" /\ pc'[w] = "ready"
      /\ todo[w] = {} /\ todo'[w] = {} /\ wrote'[w] = {}
      /\ cursor' = cursor /\ copy'[w].cursor = cursor[w] /\ copy'[w].max = copy[w].max
  BY <1>2 DEF CommitPage, OnlyWorker, TypeOK
<1>5. steady' \subseteq steady /\ steady' \subseteq Active'
  BY DEF CommitPage, Covered, Active, TypeOK
<1>6. /\ \A v \in Viewers : record[v] # "NONE" => record'[v] # "NONE"
      /\ \A v \in wrote[w] : record'[v] # "NONE"
  <2>1. \A v \in Viewers : record'[v] = IF v \in wrote[w] THEN result[w][v] ELSE record[v]
    BY DEF CommitPage
  <2>2. \A v \in wrote[w] : v \in Viewers /\ result[w][v] # "NONE"
    BY <1>1 DEF WorkerInv, TypeOK
  <2>. QED  BY <2>1, <2>2
<1>7. \A v \in steady' : v <= cursor[w] => record'[v] # "NONE"
  BY <1>1, <1>4, <1>5, <1>6 DEF WorkerInv, Working, CoveredTo, TypeOK
<1>8. CursorCoversSteady'
  BY <1>3, <1>5, <1>6, <1>7 DEF Covered, CursorCoversSteady, TypeOK
<1>9. NoSnapshotYet'
  BY <1>3, <1>4 DEF Covered, NoSnapshotYet
<1>10. WorkerInv(w)'
  <2>1. CoveredTo(copy[w].cursor, {})' /\ CoveredTo(cursor[w], wrote[w])'
    BY <1>4, <1>7 DEF CoveredTo
  <2>2. copy'[w].max # 0
    BY <1>1, <1>4 DEF WorkerInv, Working
  <2>. QED  BY <1>4, <2>1, <2>2 DEF WorkerInv, NobodyLeftOut
<1>11. ASSUME NEW u \in Workers \ {w} PROVE WorkerInv(u)'
  BY <1>4, <1>5, <1>6, OtherWorker DEF Covered, OnlyWorker, TypeOK
<1>. QED  BY <1>5, <1>8, <1>9, <1>10, <1>11 DEF Covered

LEMMA StepCovered == TypeOK /\ Covered /\ [Next]_vars => Covered'
<1>. SUFFICES ASSUME TypeOK, Covered, [Next]_vars PROVE Covered'
  OBVIOUS
<1>1. CASE UNCHANGED vars
  BY <1>1, ViewerCovered DEF vars, Covered, Active
<1>2. ASSUME NEW v \in Viewers, ViewerJoins(v) \/ ViewerReturns(v) PROVE Covered'
  <2>1. UNCHANGED <<row, record, run>> /\ steady' = steady
    BY <1>2 DEF ViewerJoins, ViewerReturns
  <2>2. Active \subseteq Active'
    BY <1>2 DEF ViewerJoins, ViewerReturns, Active, TypeOK
  <2>. QED  BY <2>1, <2>2, ViewerCovered DEF Covered
<1>3. ASSUME NEW v \in Viewers, ViewerLeaves(v) PROVE Covered'
  <2>1. UNCHANGED <<row, record, run>> /\ steady' = steady \ {v}
    BY <1>3 DEF ViewerLeaves
  <2>2. Active \ {v} \subseteq Active'
    BY <1>3 DEF ViewerLeaves, Active, TypeOK
  <2>. QED  BY <2>1, <2>2, ViewerCovered DEF Covered
<1>4. ASSUME NEW w \in Workers, Claim(w) PROVE Covered'
  <2>1. /\ OnlyWorker(w) /\ UNCHANGED <<record, steady, viewer>> /\ pc'[w] = "claimed"
        /\ row'.cursor = row.cursor /\ row'.max = row.max
    <3>1. row'.cursor = row.cursor /\ row'.max = row.max
      BY <1>4 DEF Claim, TypeOK, Row
    <3>2. pc' = [pc EXCEPT ![w] = "claimed"]
          /\ UNCHANGED <<record, steady, viewer, copy, todo, cursor, found, outcome,
                         result, wrote>>
      BY <1>4 DEF Claim
    <3>. QED  BY <3>1, <3>2 DEF OnlyWorker, TypeOK
  <2>2. todo'[w] = {} /\ wrote'[w] = {}
    BY <1>4 DEF Claim, Covered, WorkerInv
  <2>. QED  BY <2>1, <2>2, OutsideCovered
<1>5. ASSUME NEW w \in Workers, EmptyAudience(w) \/ EndRun(w) PROVE Covered'
  <2>1. /\ OnlyWorker(w) /\ UNCHANGED <<record, steady, viewer>> /\ pc'[w] = "idle"
        /\ row'.cursor = row.cursor /\ row'.max = row.max
    <3>1. row'.cursor = row.cursor /\ row'.max = row.max
      BY <1>5 DEF EmptyAudience, EndRun, TypeOK, Row
    <3>2. pc' = [pc EXCEPT ![w] = "idle"]
          /\ UNCHANGED <<record, steady, viewer, copy, todo, cursor, found, outcome,
                         result, wrote>>
      BY <1>5 DEF EmptyAudience, EndRun
    <3>. QED  BY <3>1, <3>2 DEF OnlyWorker, TypeOK
  <2>2. todo'[w] = {} /\ wrote'[w] = {}
    BY <1>5 DEF EmptyAudience, EndRun, Covered, WorkerInv
  <2>. QED  BY <2>1, <2>2, OutsideCovered
<1>. QED
  BY <1>1, <1>2, <1>3, <1>4, <1>5, LoadCovered, StartCovered, FetchCovered, CheckCovered,
     SendCovered, RecordCovered, AbandonCovered, CommitCovered DEF Next, Step

\* The committed cursor never passes over a viewer of the snapshot, for any
\* number of viewers and workers, any page size and any number of crashes and
\* takeovers: a run that goes on from the cursor leaves nobody out.
THEOREM CursorCovers == Spec => []CursorCoversSteady
<1>1. Covered => CursorCoversSteady
  BY DEF Covered
<1>. QED  BY <1>1, InitType, StepType, InitCovered, StepCovered, PTL DEF Spec

----------------------------------------------------------------------------
(* The counts, and what the end of a broadcast means, while no worker works *)
(* on the broadcast of another.                                             *)

Tally(o) == Cardinality({v \in Viewers : record[v] = o})

\* One worker is at work.
OneRun == \A u, w \in Workers : pc[u] # "idle" /\ pc[w] # "idle" => u = w

\* Who has a record is behind the committed cursor.
RecordsBehind == \A v \in Viewers : record[v] # "NONE" => v <= row.cursor

\* The counts are those of the records.
Tallied ==
  row.sent = Tally("SENT") /\ row.failed = Tally("FAILED") /\ row.blocked = Tally("BLOCKED")

\* The worker knows the row as it is; what it has counted is what it is about to
\* record, for viewers nobody has recorded before.
AloneWorker(w) ==
  /\ pc[w] \in {"loaded"} \cup Working => copy[w] = row
  /\ pc[w] \in Working => row.cursor <= cursor[w]
  /\ \A v \in Viewers : result[w][v] # "NONE" <=> v \in wrote[w]
  /\ \A v \in wrote[w] : row.cursor < v /\ v <= cursor[w]
  /\ pc[w] \in {"checked", "sent", "inserting"} => found[w] = "NONE"

Alone == OneRun /\ RecordsBehind /\ Tallied /\ \A w \in Workers : AloneWorker(w)

\* Whoever has a record or may still get one.
Reach == {v \in Viewers : \/ record[v] # "NONE"
                          \/ \E w \in Workers : v \in todo[w] \cup wrote[w]
                          \/ viewer[v] = "ACTIVE" /\ v <= row.max}

\* They are not more than the snapshot counted, so when as many are recorded all
\* of them are.
Audience ==
  /\ \A v \in steady : v <= row.max
  /\ row.max # 0 => Cardinality(Reach) <= row.total
  /\ row.status \in {"COMPLETED", "PARTIAL"} => \A v \in steady : record[v] # "NONE"

AloneInv == faults["takeover"] = 0 => Alone /\ (~CameIn => Audience)

\* Faults are not taken back.
LEMMA FaultsGrow ==
  ASSUME TypeOK, TypeOK', [Next]_vars
  PROVE  /\ faults'["takeover"] = 0 => faults["takeover"] = 0
         /\ ~CameIn' => ~CameIn
<1>1. UNCHANGED faults \/ \E k \in Faults : Spend(k)
  BY DEF Next, vars, ViewerJoins, ViewerLeaves, ViewerReturns, Claim, Step,
         LoadBroadcast, StartRun, EmptyAudience, FetchPage, CheckDelivery, Send,
         RecordDelivery, InsertWaits, InsertGoesThrough, InsertConflicts, CommitPage,
         EndRun, Crash, Faults
<1>2. ASSUME NEW k \in Faults, Spend(k)
      PROVE  \A f \in Faults : faults'[f] = faults[f] \/ faults'[f] = faults[f] + 1
  BY <1>2 DEF Spend, TypeOK
<1>3. \A f \in Faults : faults[f] \in Nat /\ faults'[f] >= faults[f]
  <2>1. \A f \in Faults : faults[f] \in Nat
    BY DEF TypeOK
  <2>2. \A f \in Faults : faults'[f] = faults[f] \/ faults'[f] = faults[f] + 1
    BY <1>1, <1>2
  <2>. QED  BY <2>1, <2>2
<1>4. "takeover" \in Faults /\ "return" \in Faults /\ "join" \in Faults
  BY DEF Faults
<1>5. \A f \in Faults : faults'[f] \in Nat
  BY DEF TypeOK
<1>. QED  BY <1>3, <1>4, <1>5 DEF CameIn

----------------------------------------------------------------------------
(* Counting.                                                                *)

LEMMA Disjoint ==
  ASSUME NEW S \in SUBSET Viewers, NEW T \in SUBSET Viewers, S \cap T = {}
  PROVE  Cardinality(S \cup T) = Cardinality(S) + Cardinality(T)
<1>1. /\ IsFiniteSet(S) /\ IsFiniteSet(T)
      /\ Cardinality(S) \in Nat /\ Cardinality(T) \in Nat
  BY Finite
<1>2. Cardinality(S \cup T) = Cardinality(S) + Cardinality(T) - Cardinality(S \cap T)
  BY <1>1, FS_Union
<1>3. Cardinality(S \cap T) = 0
  BY FS_EmptySet
<1>. QED  BY <1>1, <1>2, <1>3

LEMMA Smaller ==
  ASSUME NEW T \in SUBSET Viewers, NEW S \in SUBSET T
  PROVE  /\ Cardinality(S) <= Cardinality(T)
         /\ Cardinality(T) <= Cardinality(S) => S = T
<1>1. IsFiniteSet(T) /\ Cardinality(T) \in Nat
  BY Finite
<1>2. Cardinality(S) \in Nat
  BY Finite
<1>. QED  BY <1>1, <1>2, FS_Subset

\* Whoever has a record has one of the three outcomes.
LEMMA RecordedIs ==
  ASSUME NEW r \in [Viewers -> Outcomes \cup {"NONE"}]
  PROVE  Cardinality({v \in Viewers : r[v] # "NONE"}) =
           Cardinality({v \in Viewers : r[v] = "SENT"}) +
           Cardinality({v \in Viewers : r[v] = "FAILED"}) +
           Cardinality({v \in Viewers : r[v] = "BLOCKED"})
<1>. DEFINE S == {v \in Viewers : r[v] = "SENT"}
            F == {v \in Viewers : r[v] = "FAILED"}
            B == {v \in Viewers : r[v] = "BLOCKED"}
<1>1. Cardinality(S \cup F) = Cardinality(S) + Cardinality(F)
  BY Disjoint
<1>2. Cardinality((S \cup F) \cup B) = Cardinality(S \cup F) + Cardinality(B)
  <2>1. (S \cup F) \cap B = {}
    OBVIOUS
  <2>. QED  BY <2>1, Disjoint
<1>3. {v \in Viewers : r[v] # "NONE"} = (S \cup F) \cup B
  BY DEF Outcomes
<1>. QED  BY <1>1, <1>2, <1>3

----------------------------------------------------------------------------
(* What is kept.                                                            *)

\* All other workers are idle.
OthersIdle(w) == \A u \in Workers \ {w} : pc[u] = "idle"

LEMMA AloneKept ==
  ASSUME TypeOK, Covered, Alone, NEW w \in Workers, OthersIdle(w), OnlyWorker(w),
         RecordsBehind', Tallied', AloneWorker(w)'
  PROVE  Alone'
<1>1. ASSUME NEW u \in Workers \ {w} PROVE pc'[u] = "idle" /\ AloneWorker(u)'
  <2>1. /\ pc'[u] = "idle" /\ wrote'[u] = {} /\ result'[u] = result[u] /\ wrote[u] = {}
    BY DEF OthersIdle, OnlyWorker, Covered, WorkerInv
  <2>2. \A v \in Viewers : result'[u][v] # "NONE" <=> v \in wrote'[u]
    BY <2>1 DEF Alone, AloneWorker
  <2>. QED  BY <2>1, <2>2 DEF AloneWorker, Working
<1>2. OneRun'
  BY <1>1 DEF OneRun
<1>. QED  BY <1>1, <1>2 DEF Alone

\* The row's counts and cursor and the records stay.
LEMMA SameTally ==
  ASSUME Alone, UNCHANGED record, row'.cursor = row.cursor, row'.sent = row.sent,
         row'.failed = row.failed, row'.blocked = row.blocked
  PROVE  RecordsBehind' /\ Tallied'
BY DEF Alone, RecordsBehind, Tallied, Tally

LEMMA AudienceKept ==
  ASSUME TypeOK, TypeOK', Audience, Reach' \subseteq Reach, steady' \subseteq steady,
         row'.max = row.max, row'.total = row.total,
         \A v \in Viewers : record[v] # "NONE" => record'[v] # "NONE",
         \/ row'.status = row.status
         \/ row'.status = "RUNNING"
         \/ \A v \in steady' : record'[v] # "NONE"
  PROVE  Audience'
<1>1. row.max # 0 => Cardinality(Reach') <= row.total
  <2>1. Reach \in SUBSET Viewers /\ Reach' \in SUBSET Reach
    BY DEF Reach
  <2>2. Cardinality(Reach) \in Nat /\ Cardinality(Reach') \in Nat
    BY <2>1, Finite
  <2>3. Cardinality(Reach') <= Cardinality(Reach) /\ row.total \in Nat
    BY <2>1, Smaller DEF TypeOK, Row
  <2>. QED  BY <2>2, <2>3 DEF Audience
<1>2. \A v \in steady' : v <= row.max
  BY DEF Audience
<1>3. row'.status \in {"COMPLETED", "PARTIAL"} => \A v \in steady' : record'[v] # "NONE"
  BY DEF Audience, TypeOK
<1>. QED  BY <1>1, <1>2, <1>3 DEF Audience

\* The pages and the records are of the reach already.
LEMMA ReachKept ==
  ASSUME TypeOK, TypeOK', UNCHANGED record, row'.max = row.max,
         \A v \in Viewers : viewer'[v] = "ACTIVE" => viewer[v] = "ACTIVE",
         \A u \in Workers : \A v \in todo'[u] \cup wrote'[u] : v \in Reach
  PROVE  Reach' \subseteq Reach
BY DEF Reach

\* So are those of the workers that do nothing.
LEMMA InReach ==
  ASSUME TypeOK, NEW u \in Workers, NEW v \in todo[u] \cup wrote[u]
  PROVE  v \in Reach
BY DEF Reach, TypeOK

LEMMA OneRunIdle ==
  ASSUME Alone, NEW w \in Workers, pc[w] # "idle"
  PROVE  OthersIdle(w)
BY DEF Alone, OneRun, OthersIdle

\* Who is still to be dealt with is ahead of the cursors and has no record.
LEMMA NextUnrecorded ==
  ASSUME TypeOK, Covered, Alone, NEW w \in Workers, pc[w] \in Working, NEW v \in todo[w]
  PROVE  v \in Viewers /\ cursor[w] < v /\ row.cursor < v /\ record[v] = "NONE"
<1>1. v \in Viewers /\ v \in Nat /\ cursor[w] \in Nat /\ row.cursor \in Nat
  BY NType DEF TypeOK, Row, Viewers
<1>2. cursor[w] < v
  BY DEF Covered, WorkerInv, NobodyLeftOut
<1>3. row.cursor <= cursor[w]
  BY DEF Alone, AloneWorker
<1>4. row.cursor < v
  BY <1>1, <1>2, <1>3
<1>5. ~(v <= row.cursor)
  BY <1>1, <1>4
<1>. QED  BY <1>1, <1>2, <1>4, <1>5 DEF Alone, RecordsBehind

----------------------------------------------------------------------------
(* The steps.                                                               *)

LEMMA ViewerAlone ==
  ASSUME TypeOK, TypeOK', Covered, Alone, UNCHANGED <<row, record, run>>
  PROVE  Alone'
BY DEF Alone, OneRun, RecordsBehind, Tallied, Tally, AloneWorker, run

LEMMA LeavesAudience ==
  ASSUME TypeOK, TypeOK', Audience, NEW v \in Viewers, ViewerLeaves(v)
  PROVE  Audience'
<1>1. /\ UNCHANGED <<row, record, todo, wrote>> /\ steady' \subseteq steady
      /\ \A u \in Viewers : viewer'[u] = "ACTIVE" => viewer[u] = "ACTIVE"
  BY DEF ViewerLeaves, run, TypeOK
<1>2. Reach' \subseteq Reach
  BY <1>1, InReach, ReachKept
<1>. QED  BY <1>1, <1>2, AudienceKept

LEMMA ClaimAlone ==
  ASSUME TypeOK, TypeOK', Covered, Alone, NEW w \in Workers, Claim(w), faults' = faults,
         \A u \in Workers : pc[u] = "idle"
  PROVE  Alone' /\ (Audience => Audience')
<1>1. /\ pc'[w] = "claimed" /\ OnlyWorker(w) /\ OthersIdle(w)
      /\ UNCHANGED <<record, viewer, steady, todo, wrote, result>>
  BY DEF Claim, OnlyWorker, OthersIdle, TypeOK
<1>2. /\ row'.cursor = row.cursor /\ row'.sent = row.sent /\ row'.failed = row.failed
      /\ row'.blocked = row.blocked /\ row'.max = row.max /\ row'.total = row.total
      /\ row'.status = "RUNNING"
  BY DEF Claim, TypeOK, Row
<1>3. wrote[w] = {}
  BY DEF Covered, WorkerInv
<1>4. AloneWorker(w)'
  BY <1>1, <1>3 DEF Alone, AloneWorker, Working
<1>5. Alone'
  BY <1>1, <1>2, <1>4, SameTally, AloneKept
<1>6. Reach' \subseteq Reach
  BY <1>1, <1>2, InReach, ReachKept
<1>. QED  BY <1>1, <1>2, <1>5, <1>6, AudienceKept

LEMMA LoadAlone ==
  ASSUME TypeOK, TypeOK', Covered, Alone, NEW w \in Workers, LoadBroadcast(w)
  PROVE  Alone' /\ (Audience => Audience')
<1>1. /\ OnlyWorker(w)
      /\ UNCHANGED <<row, record, viewer, steady, todo, wrote, result, cursor>>
      /\ pc[w] = "claimed"
      /\ pc'[w] = "idle" \/ (pc'[w] = "loaded" /\ copy'[w] = row)
  BY DEF LoadBroadcast, OnlyWorker, TypeOK
<1>2. OthersIdle(w) /\ wrote[w] = {}
  BY <1>1, OneRunIdle DEF Covered, WorkerInv
<1>3. AloneWorker(w)'
  BY <1>1, <1>2 DEF Alone, AloneWorker, Working
<1>4. Alone'
  BY <1>1, <1>2, <1>3, SameTally, AloneKept
<1>5. Reach' \subseteq Reach
  BY <1>1, InReach, ReachKept
<1>. QED  BY <1>1, <1>4, <1>5, AudienceKept

\* A copy that is the row is written as it is.
LEMMA FlushAll ==
  ASSUME NEW new \in Row
  PROVE  Flush(row, new) = new
BY DEF Flush, Row

LEMMA StartAlone ==
  ASSUME TypeOK, TypeOK', Covered, Alone, NEW w \in Workers, StartRun(w)
  PROVE  Alone' /\ (Audience => Audience')
<1>1. /\ pc[w] = "loaded" /\ pc'[w] = "ready" /\ cursor'[w] = copy[w].cursor
      /\ UNCHANGED <<viewer, record, todo, wrote, result>> /\ OnlyWorker(w)
      /\ steady' = IF row.max = 0 THEN Active ELSE steady
  BY DEF StartRun, OnlyWorker, TypeOK
<1>2. copy[w] = row /\ row \in Row
  BY <1>1 DEF Alone, AloneWorker, TypeOK
<1>3. PICK c \in Snapshots(row) :
        /\ row' = Flush(row, [c EXCEPT !.status = "RUNNING"])
        /\ copy' = [copy EXCEPT ![w] = [c EXCEPT !.status = "RUNNING"]]
  BY <1>2 DEF StartRun
<1>4. [c EXCEPT !.status = "RUNNING"] \in Row
  BY <1>2, SnapshotType
<1>5. row' = [c EXCEPT !.status = "RUNNING"] /\ copy'[w] = row'
  BY <1>3, <1>4, FlushAll DEF TypeOK
<1>6. OthersIdle(w) /\ wrote[w] = {}
  BY <1>1, OneRunIdle DEF Covered, WorkerInv
<1>7. \/ row.max # 0 /\ c = row
      \/ /\ row.max = 0
         /\ \E m \in Active : /\ \A v \in Active : v <= m
                              /\ c = [row EXCEPT !.max = m, !.total = Cardinality(Active)]
  BY DEF Snapshots
<1>8. /\ c \in Row /\ c.cursor = row.cursor /\ c.sent = row.sent /\ c.failed = row.failed
      /\ c.blocked = row.blocked
  <2>1. CASE row.max # 0 /\ c = row
    BY <1>2, <2>1
  <2>2. ASSUME NEW m \in Active, c = [row EXCEPT !.max = m, !.total = Cardinality(Active)]
        PROVE  /\ c \in Row /\ c.cursor = row.cursor /\ c.sent = row.sent
               /\ c.failed = row.failed /\ c.blocked = row.blocked
    <3>1. m \in Nat /\ Cardinality(Active) \in Nat
      BY Finite, NType DEF Active, Viewers
    <3>. QED  BY <1>2, <2>2, <3>1 DEF Row
  <2>. QED  BY <1>7, <2>1, <2>2
<1>9. /\ row'.cursor = row.cursor /\ row'.sent = row.sent /\ row'.failed = row.failed
      /\ row'.blocked = row.blocked /\ row'.max = c.max /\ row'.total = c.total
      /\ row'.status = "RUNNING"
  BY <1>5, <1>8 DEF Row
<1>10. AloneWorker(w)'
  <2>1. cursor'[w] = row'.cursor /\ row'.cursor \in Nat
    BY <1>1, <1>2, <1>9 DEF TypeOK, Row
  <2>. QED  BY <1>1, <1>5, <1>6, <2>1 DEF Alone, AloneWorker, Working
<1>11. Alone'
  BY <1>1, <1>6, <1>9, <1>10, SameTally, AloneKept
<1>12. ASSUME Audience PROVE Audience'
  <2>1. CASE row.max # 0 /\ c = row
    <3>1. Reach' \subseteq Reach
      BY <1>1, <1>9, <2>1, InReach, ReachKept
    <3>. QED  BY <1>1, <1>9, <1>12, <2>1, <3>1, AudienceKept
  <2>2. ASSUME row.max = 0, NEW m \in Active, \A v \in Active : v <= m,
               c = [row EXCEPT !.max = m, !.total = Cardinality(Active)]
        PROVE  Audience'
    <3>1. row'.max = m /\ row'.total = Cardinality(Active) /\ steady' = Active
      BY <1>1, <1>2, <1>9, <2>2 DEF Row
    <3>2. \A v \in Viewers : record[v] = "NONE"
      <4>1. row.cursor = 0
        BY <2>2 DEF Covered, NoSnapshotYet
      <4>2. \A v \in Viewers : ~(v <= 0)
        BY NType DEF Viewers
      <4>. QED  BY <4>1, <4>2 DEF Alone, RecordsBehind
    <3>3. \A u \in Workers : todo'[u] = {} /\ wrote'[u] = {}
      BY <1>1, <1>6 DEF OthersIdle, Covered, WorkerInv
    <3>4. Reach' = Active
      BY <1>1, <2>2, <3>1, <3>2, <3>3 DEF Reach, Active
    <3>5. Cardinality(Active) \in Nat
      BY Finite DEF Active
    <3>6. Cardinality(Reach') <= row'.total
      BY <3>1, <3>4, <3>5
    <3>. QED  BY <1>9, <2>2, <3>1, <3>6 DEF Audience
  <2>. QED  BY <1>7, <2>1, <2>2
<1>. QED  BY <1>11, <1>12

LEMMA EmptyAlone ==
  ASSUME TypeOK, TypeOK', Covered, Alone, NEW w \in Workers, EmptyAudience(w)
  PROVE  Alone' /\ (Audience => Audience')
<1>1. /\ pc[w] = "loaded" /\ pc'[w] = "idle" /\ OnlyWorker(w) /\ Active = {}
      /\ UNCHANGED <<record, viewer, steady, todo, wrote, result>>
  BY DEF EmptyAudience, OnlyWorker, TypeOK
<1>2. /\ row'.cursor = row.cursor /\ row'.sent = row.sent /\ row'.failed = row.failed
      /\ row'.blocked = row.blocked /\ row'.max = row.max /\ row'.total = row.total
  BY DEF EmptyAudience, TypeOK, Row
<1>3. OthersIdle(w) /\ wrote[w] = {}
  BY <1>1, OneRunIdle DEF Covered, WorkerInv
<1>4. AloneWorker(w)'
  BY <1>1, <1>3 DEF Alone, AloneWorker, Working
<1>5. Alone'
  BY <1>1, <1>2, <1>3, <1>4, SameTally, AloneKept
<1>6. Reach' \subseteq Reach
  BY <1>1, <1>2, InReach, ReachKept
<1>7. steady' = {}
  BY <1>1 DEF Covered
<1>. QED  BY <1>1, <1>2, <1>5, <1>6, <1>7, AudienceKept

\* A page is of ACTIVE viewers up to the last of the snapshot.
LEMMA FetchAlone ==
  ASSUME TypeOK, TypeOK', Covered, Alone, NEW w \in Workers, FetchPage(w)
  PROVE  Alone' /\ (Audience => Audience')
<1>1. /\ pc[w] = "ready" /\ pc'[w] = "paging" /\ OnlyWorker(w)
      /\ UNCHANGED <<row, record, viewer, steady, wrote, result, copy, cursor>>
      /\ todo'[w] \subseteq Ahead(w)
  BY DEF FetchPage, OnlyWorker, TypeOK
<1>2. OthersIdle(w) /\ copy[w] = row
  BY <1>1, OneRunIdle DEF Alone, AloneWorker, Working
<1>3. AloneWorker(w)'
  BY <1>1 DEF Alone, AloneWorker, Working
<1>4. Alone'
  BY <1>1, <1>2, <1>3, SameTally, AloneKept
<1>5. \A v \in Ahead(w) : v \in Reach
  BY <1>2 DEF Ahead, Active, Reach
<1>6. \A u \in Workers : \A v \in todo'[u] \cup wrote'[u] : v \in Reach
  BY <1>1, <1>5, InReach DEF OnlyWorker
<1>7. Reach' \subseteq Reach
  BY <1>1, <1>6, ReachKept
<1>. QED  BY <1>1, <1>4, <1>7, AudienceKept

\* The steps inside a page that count nobody.
LEMMA LookAlone ==
  ASSUME TypeOK, TypeOK', Covered, Alone, NEW w \in Workers, OnlyWorker(w),
         pc[w] \in {"paging", "checked", "sent"},
         pc'[w] \in {"checked", "sent", "inserting"},
         UNCHANGED <<row, record, viewer, steady, copy, todo, cursor, result, wrote>>,
         found'[w] = "NONE"
  PROVE  Alone' /\ (Audience => Audience')
<1>1. OthersIdle(w)
  BY OneRunIdle
<1>2. AloneWorker(w)'
  BY DEF Alone, AloneWorker, Working
<1>3. Alone'
  BY <1>1, <1>2, SameTally, AloneKept
<1>4. Reach' \subseteq Reach
  BY InReach, ReachKept
<1>. QED  BY <1>3, <1>4, AudienceKept

\* Nobody of a page has a record yet.
LEMMA CheckAlone ==
  ASSUME TypeOK, TypeOK', Covered, Alone, NEW w \in Workers, CheckDelivery(w)
  PROVE  Alone' /\ (Audience => Audience')
<1>1. PICK v \in Viewers :
        /\ IsNext(w, v)
        /\ record[v] # "SENT" =>
             /\ found' = [found EXCEPT ![w] = record[v]]
             /\ pc' = [pc EXCEPT ![w] = "checked"]
             /\ UNCHANGED <<todo, cursor, result>>
  BY DEF CheckDelivery
<1>2. pc[w] = "paging" /\ UNCHANGED <<row, record, viewer, steady, copy, outcome, wrote>>
  BY DEF CheckDelivery
<1>3. record[v] = "NONE"
  BY <1>1, <1>2, NextUnrecorded DEF IsNext, Working
<1>4. /\ OnlyWorker(w) /\ pc'[w] = "checked" /\ found'[w] = "NONE"
      /\ UNCHANGED <<todo, cursor, result>>
  BY <1>1, <1>2, <1>3 DEF OnlyWorker, TypeOK
<1>. QED  BY <1>2, <1>4, LookAlone

LEMMA SendAlone ==
  ASSUME TypeOK, TypeOK', Covered, Alone, NEW w \in Workers, Send(w) \/ InsertWaits(w)
  PROVE  Alone' /\ (Audience => Audience')
<1>1. /\ OnlyWorker(w) /\ pc[w] \in {"checked", "sent"} /\ pc'[w] \in {"sent", "inserting"}
      /\ UNCHANGED <<row, record, viewer, steady, copy, todo, cursor, found, result, wrote>>
  BY DEF Send, InsertWaits, OnlyWorker, TypeOK
<1>2. found'[w] = "NONE"
  BY <1>1 DEF Alone, AloneWorker
<1>. QED  BY <1>1, <1>2, LookAlone

\* Who is counted is written, because there is no record yet.
LEMMA RecordAlone ==
  ASSUME TypeOK, TypeOK', Covered, Alone, NEW w \in Workers,
         RecordDelivery(w) \/ InsertGoesThrough(w)
  PROVE  Alone' /\ (Audience => Audience')
<1>1. /\ UNCHANGED <<row, record, steady, viewer, copy, found, outcome>>
      /\ pc[w] \in {"sent", "inserting"}
  BY DEF RecordDelivery, InsertGoesThrough
<1>2. outcome[w] # "NONE" /\ found[w] = "NONE" /\ copy[w] = row
  BY <1>1 DEF Covered, WorkerInv, Alone, AloneWorker, Working
<1>3. PICK v \in Viewers :
        /\ IsNext(w, v) /\ Pass(w, v, outcome[w])
        /\ record[v] # outcome[w] => wrote' = [wrote EXCEPT ![w] = @ \cup {v}]
  BY <1>2 DEF RecordDelivery, InsertGoesThrough
<1>4. cursor[w] < v /\ row.cursor < v /\ record[v] = "NONE" /\ v \in todo[w]
  BY <1>1, <1>3, NextUnrecorded DEF IsNext, Working
<1>5. /\ wrote'[w] = wrote[w] \cup {v} /\ cursor'[w] = v /\ todo'[w] = todo[w] \ {v}
      /\ result'[w] = [result[w] EXCEPT ![v] = outcome[w]] /\ pc'[w] = "paging"
  BY <1>2, <1>3, <1>4 DEF Pass, TypeOK
<1>6. OnlyWorker(w) /\ OthersIdle(w)
  BY <1>1, <1>2, <1>3, <1>4, OneRunIdle DEF OnlyWorker, Pass, TypeOK
<1>7. \A u \in Viewers : result'[w][u] # "NONE" <=> u \in wrote'[w]
  <2>1. \A u \in Viewers : result'[w][u] = IF u = v THEN outcome[w] ELSE result[w][u]
    BY <1>5 DEF TypeOK
  <2>. QED  BY <1>2, <1>5, <2>1 DEF Alone, AloneWorker
<1>8. \A u \in wrote'[w] : row.cursor < u /\ u <= v
  <2>. SUFFICES ASSUME NEW u \in wrote[w] PROVE row.cursor < u /\ u <= v
    BY <1>4, <1>5, NType DEF Viewers
  <2>1. row.cursor < u /\ u <= cursor[w]
    BY DEF Alone, AloneWorker
  <2>2. u \in Nat /\ v \in Nat /\ cursor[w] \in Nat
    BY NType DEF TypeOK, Viewers
  <2>. QED  BY <1>4, <2>1, <2>2
<1>9. row.cursor <= v
  BY <1>4, NType DEF TypeOK, Row, Viewers
<1>10. AloneWorker(w)'
  BY <1>1, <1>2, <1>5, <1>7, <1>8, <1>9 DEF AloneWorker
<1>11. Alone'
  BY <1>1, <1>6, <1>10, SameTally, AloneKept
<1>12. \A u \in Workers : \A x \in todo'[u] \cup wrote'[u] : x \in todo[u] \cup wrote[u]
  BY <1>4, <1>5, <1>6 DEF OnlyWorker
<1>13. Reach' \subseteq Reach
  BY <1>1, <1>12, InReach, ReachKept
<1>. QED  BY <1>1, <1>11, <1>13, AudienceKept

LEMMA AbandonAlone ==
  ASSUME TypeOK, TypeOK', Covered, Alone, NEW w \in Workers, pc[w] # "idle", Abandon(w),
         UNCHANGED <<viewer, row, record, steady>>
  PROVE  Alone' /\ (Audience => Audience')
<1>1. /\ pc'[w] = "idle" /\ todo'[w] = {} /\ wrote'[w] = {} /\ result'[w] = NoResult
      /\ OnlyWorker(w)
  BY DEF Abandon, OnlyWorker, TypeOK
<1>2. OthersIdle(w)
  BY OneRunIdle
<1>3. AloneWorker(w)'
  BY <1>1 DEF AloneWorker, Working, NoResult
<1>4. Alone'
  BY <1>1, <1>2, <1>3, SameTally, AloneKept
<1>5. \A u \in Workers : \A x \in todo'[u] \cup wrote'[u] : x \in todo[u] \cup wrote[u]
  BY <1>1 DEF OnlyWorker
<1>6. Reach' \subseteq Reach
  BY <1>5, InReach, ReachKept
<1>. QED  BY <1>4, <1>6, AudienceKept

\* The row a page's commit leaves: the copy was the row, so all of it is new.
LEMMA CommitRow ==
  ASSUME TypeOK, TypeOK', Alone, NEW w \in Workers, CommitPage(w)
  PROVE  /\ row' \in Row /\ copy'[w] = row'
         /\ row'.cursor = cursor[w] /\ row'.max = row.max /\ row'.total = row.total
         /\ row'.sent = row.sent + Counted(w, "SENT")
         /\ row'.failed = row.failed + Counted(w, "FAILED")
         /\ row'.blocked = row.blocked + Counted(w, "BLOCKED")
         /\ \/ row'.status = row.status
            \/ row'.sent + row'.failed + row'.blocked >= row'.total
<1>. DEFINE d == Advance(row, Counted(w, "SENT"), Counted(w, "FAILED"),
                         Counted(w, "BLOCKED"), cursor[w])
<1>1. copy[w] = row
  BY DEF CommitPage, Alone, AloneWorker, Working
<1>2. row' = Flush(row, CheckCounts(d)) /\ copy' = [copy EXCEPT ![w] = CheckCounts(d)]
  BY <1>1 DEF CommitPage
<1>3. \A o : Counted(w, o) \in Nat
  BY Finite DEF Counted
<1>4. row \in Row /\ cursor[w] \in Nat
  BY DEF TypeOK
<1>5. CheckCounts(d) \in Row
  BY <1>3, <1>4, AdvanceType
<1>6. row' = CheckCounts(d) /\ copy'[w] = row'
  <2>. HIDE DEF d
  <2>. QED  BY <1>2, <1>5, FlushAll DEF TypeOK
<1>7. /\ d \in Row
      /\ d.cursor = cursor[w] /\ d.max = row.max /\ d.total = row.total
      /\ d.sent = row.sent + Counted(w, "SENT")
      /\ d.failed = row.failed + Counted(w, "FAILED")
      /\ d.blocked = row.blocked + Counted(w, "BLOCKED") /\ d.status = row.status
  <2>. DEFINE x == row.sent + Counted(w, "SENT")  y == row.failed + Counted(w, "FAILED")
              z == row.blocked + Counted(w, "BLOCKED")
  <2>1. x \in Nat /\ y \in Nat /\ z \in Nat
    BY <1>3, <1>4 DEF Row
  <2>2. d = [row EXCEPT !.sent = x, !.failed = y, !.blocked = z, !.cursor = cursor[w]]
    BY DEF Advance
  <2>. HIDE DEF x, y, z, d
  <2>3. /\ d \in Row /\ d.cursor = cursor[w] /\ d.max = row.max /\ d.total = row.total
        /\ d.sent = x /\ d.failed = y /\ d.blocked = z /\ d.status = row.status
    BY <1>4, <2>1, <2>2 DEF Row
  <2>. QED  BY <2>3 DEF x, y, z
<1>. HIDE DEF d
<1>8. \/ row' = d
      \/ /\ row' = [d EXCEPT !.status = FinalStatus(d)]
         /\ d.sent + d.failed + d.blocked >= d.total
  BY <1>6 DEF CheckCounts
<1>9. /\ row'.cursor = d.cursor /\ row'.max = d.max /\ row'.total = d.total
      /\ row'.sent = d.sent /\ row'.failed = d.failed /\ row'.blocked = d.blocked
      /\ \/ row'.status = d.status
         \/ d.sent + d.failed + d.blocked >= d.total
  BY <1>7, <1>8 DEF Row
<1>. QED  BY <1>6, <1>7, <1>9 DEF TypeOK

\* What is counted is recorded, of viewers without a record before.
LEMMA CommitTally ==
  ASSUME TypeOK, Alone, NEW w \in Workers, CommitPage(w), NEW o \in Outcomes
  PROVE  Tally(o)' = Tally(o) + Counted(w, o)
<1>. DEFINE S == {v \in Viewers : record[v] = o}
            T == {v \in Viewers : result[w][v] = o}
<1>1. \A v \in Viewers : record'[v] = IF v \in wrote[w] THEN result[w][v] ELSE record[v]
  BY DEF CommitPage
<1>2. \A v \in Viewers : result[w][v] # "NONE" <=> v \in wrote[w]
  BY DEF Alone, AloneWorker
<1>3. \A v \in wrote[w] : v \in Viewers /\ record[v] = "NONE"
  <2>. SUFFICES ASSUME NEW v \in wrote[w] PROVE v \in Viewers /\ record[v] = "NONE"
    OBVIOUS
  <2>1. v \in Viewers /\ row.cursor < v
    BY DEF TypeOK, Alone, AloneWorker
  <2>2. ~(v <= row.cursor)
    BY <2>1, NType DEF TypeOK, Row, Viewers
  <2>. QED  BY <2>1, <2>2 DEF Alone, RecordsBehind
<1>4. o # "NONE"
  BY DEF Outcomes
<1>5. S \cap T = {}
  BY <1>2, <1>3, <1>4
<1>6. Cardinality(S \cup T) = Cardinality(S) + Cardinality(T)
  BY <1>5, Disjoint
<1>7. {v \in Viewers : record'[v] = o} = S \cup T
  BY <1>1, <1>2, <1>3, <1>4
<1>. QED  BY <1>6, <1>7 DEF Tally, Counted

\* When the counts reach the total, everybody of the reach is recorded.
LEMMA CommitAlone ==
  ASSUME TypeOK, TypeOK', Covered, Alone, NEW w \in Workers, CommitPage(w)
  PROVE  Alone' /\ (Audience => Audience')
<1>1. /\ pc[w] = "paging" /\ pc'[w] = "ready" /\ OnlyWorker(w) /\ UNCHANGED <<todo, cursor>>
      /\ wrote'[w] = {} /\ result'[w] = NoResult
      /\ steady' \subseteq steady
      /\ \A v \in Viewers : viewer'[v] = "ACTIVE" => viewer[v] = "ACTIVE"
  BY DEF CommitPage, OnlyWorker, TypeOK
<1>2. /\ copy'[w] = row' /\ row'.cursor = cursor[w] /\ row'.max = row.max
      /\ row'.total = row.total
      /\ row'.sent = row.sent + Counted(w, "SENT")
      /\ row'.failed = row.failed + Counted(w, "FAILED")
      /\ row'.blocked = row.blocked + Counted(w, "BLOCKED")
      /\ \/ row'.status = row.status
         \/ row'.sent + row'.failed + row'.blocked >= row.total
  BY CommitRow
<1>3. OthersIdle(w) /\ row.cursor <= cursor[w] /\ copy[w] = row /\ row.max # 0
  BY <1>1, OneRunIdle DEF Alone, AloneWorker, Working, Covered, WorkerInv
<1>4. AloneWorker(w)'
  <2>1. row'.cursor <= cursor'[w]
    BY <1>1, <1>2 DEF TypeOK
  <2>. QED  BY <1>1, <1>2, <2>1 DEF AloneWorker, NoResult
<1>5. \A v \in Viewers : record'[v] # "NONE" => record[v] # "NONE" \/ v \in wrote[w]
  BY DEF CommitPage
<1>6. \A v \in Viewers : record[v] # "NONE" => record'[v] # "NONE"
  BY DEF CommitPage, Alone, AloneWorker
<1>7. RecordsBehind'
  <2>. SUFFICES ASSUME NEW v \in Viewers, record'[v] # "NONE" PROVE v <= row'.cursor
    BY DEF RecordsBehind
  <2>1. CASE v \in wrote[w]
    BY <1>2, <2>1 DEF Alone, AloneWorker
  <2>2. CASE record[v] # "NONE"
    <3>1. v <= row.cursor
      BY <2>2 DEF Alone, RecordsBehind
    <3>2. v \in Nat /\ row.cursor \in Nat /\ cursor[w] \in Nat
      BY NType DEF TypeOK, Row, Viewers
    <3>. QED  BY <1>2, <1>3, <3>1, <3>2
  <2>. QED  BY <1>5, <2>1, <2>2
<1>8. Tallied'
  BY <1>2, CommitTally DEF Alone, Tallied, Outcomes
<1>9. Alone'
  BY <1>3, <1>1, <1>4, <1>7, <1>8, AloneKept
<1>10. ASSUME Audience PROVE Audience'
  <2>1. Reach' \subseteq Reach
    <3>1. \A u \in Workers : todo'[u] \cup wrote'[u] \subseteq todo[u] \cup wrote[u]
      BY <1>1 DEF OnlyWorker
    <3>. QED  BY <1>1, <1>2, <1>5, <3>1 DEF Reach
  <2>2. CASE row'.status = row.status
    BY <1>1, <1>2, <1>6, <1>10, <2>1, <2>2, AudienceKept
  <2>3. CASE row'.sent + row'.failed + row'.blocked >= row.total
    <3>. DEFINE R == {v \in Viewers : record'[v] # "NONE"}
    <3>1. Cardinality(R) = row'.sent + row'.failed + row'.blocked
      <4>1. Cardinality(R) = Tally("SENT")' + Tally("FAILED")' + Tally("BLOCKED")'
        BY RecordedIs DEF TypeOK, Tally
      <4>. QED  BY <1>8, <4>1 DEF Tallied
    <3>2. R \subseteq Reach /\ Reach \in SUBSET Viewers
      BY <1>5 DEF Reach
    <3>3. Cardinality(Reach) <= row.total
      BY <1>3, <1>10 DEF Audience
    <3>4. Cardinality(Reach) <= Cardinality(R)
      <4>1. Cardinality(Reach) \in Nat /\ Cardinality(R) \in Nat /\ row.total \in Nat
        BY <3>2, Finite DEF TypeOK, Row
      <4>. HIDE DEF R
      <4>. QED  BY <2>3, <3>1, <3>3, <4>1
    <3>5. R = Reach
      <4>. HIDE DEF R
      <4>. QED  BY <3>2, <3>4, Smaller
    <3>6. \A v \in steady : v \in Reach
      BY <1>10 DEF Audience, Covered, Active, Reach, TypeOK
    <3>7. \A v \in steady' : record'[v] # "NONE"
      BY <1>1, <3>5, <3>6
    <3>. QED  BY <1>1, <1>2, <1>6, <1>10, <2>1, <3>7, AudienceKept
  <2>. QED  BY <1>2, <2>2, <2>3
<1>. QED  BY <1>9, <1>10

\* Nobody is ahead of the cursor: whoever has been there since the snapshot is
\* behind it, and recorded.
LEMMA EndAlone ==
  ASSUME TypeOK, TypeOK', Covered, Alone, NEW w \in Workers, EndRun(w)
  PROVE  Alone' /\ (Audience => Audience')
<1>1. /\ pc[w] = "ready" /\ pc'[w] = "idle" /\ OnlyWorker(w) /\ Ahead(w) = {}
      /\ UNCHANGED <<record, viewer, steady, todo, wrote, result>>
  BY DEF EndRun, OnlyWorker, TypeOK
<1>2. /\ row'.cursor = row.cursor /\ row'.sent = row.sent /\ row'.failed = row.failed
      /\ row'.blocked = row.blocked /\ row'.max = row.max /\ row'.total = row.total
  BY DEF EndRun, TypeOK, Row
<1>3. OthersIdle(w) /\ wrote[w] = {} /\ copy[w] = row /\ CoveredTo(cursor[w], {})
  BY <1>1, OneRunIdle DEF Covered, WorkerInv, Working, Alone, AloneWorker
<1>4. AloneWorker(w)'
  BY <1>1, <1>3 DEF Alone, AloneWorker, Working
<1>5. Alone'
  BY <1>1, <1>2, <1>3, <1>4, SameTally, AloneKept
<1>6. Reach' \subseteq Reach
  BY <1>1, <1>2, InReach, ReachKept
<1>7. ASSUME Audience PROVE Audience'
  <2>1. \A v \in steady : record[v] # "NONE"
    <3>. SUFFICES ASSUME NEW v \in steady PROVE record[v] # "NONE"
      OBVIOUS
    <3>1. v \in Active /\ v <= copy[w].max
      BY <1>3, <1>7 DEF Covered, Audience
    <3>2. ~(cursor[w] < v)
      BY <1>1, <3>1 DEF Ahead
    <3>3. v <= cursor[w]
      BY <3>1, <3>2, NType DEF TypeOK, Active, Viewers
    <3>. QED  BY <1>3, <3>3 DEF CoveredTo
  <2>. QED  BY <1>1, <1>2, <1>6, <1>7, <2>1, AudienceKept
<1>. QED  BY <1>5, <1>7

LEMMA InitAlone == Init => AloneInv
<1>. SUFFICES ASSUME Init PROVE Alone /\ Audience
  BY DEF AloneInv
<1>1. Tallied
  <2>1. \A o \in Outcomes : {v \in Viewers : record[v] = o} = {}
    BY DEF Init, NoResult, Outcomes
  <2>2. \A o \in Outcomes : Tally(o) = 0
    BY <2>1, FS_EmptySet DEF Tally
  <2>. QED  BY <2>2 DEF Init, NewRow, Tallied, Outcomes
<1>2. OneRun /\ RecordsBehind /\ \A w \in Workers : AloneWorker(w)
  BY DEF Init, OneRun, RecordsBehind, AloneWorker, NoResult, Working
<1>3. Audience
  BY DEF Init, NewRow, Audience
<1>. QED  BY <1>1, <1>2, <1>3 DEF Alone

LEMMA StepAlone == TypeOK /\ TypeOK' /\ Covered /\ AloneInv /\ [Next]_vars => AloneInv'
<1>. SUFFICES ASSUME TypeOK, TypeOK', Covered, AloneInv, [Next]_vars,
                     faults'["takeover"] = 0
              PROVE  Alone' /\ (~CameIn' => Audience')
  BY DEF AloneInv
<1>1. Alone /\ (~CameIn' => Audience)
  BY FaultsGrow DEF AloneInv
<1>2. CASE UNCHANGED vars
  <2>1. Alone'
    BY <1>1, <1>2, ViewerAlone DEF vars
  <2>2. Reach' = Reach /\ UNCHANGED <<row, record, steady>>
    BY <1>2 DEF vars, run, Reach
  <2>. QED  BY <1>1, <2>1, <2>2, AudienceKept
<1>3. ASSUME NEW v \in Viewers, ViewerJoins(v) \/ ViewerReturns(v)
      PROVE  Alone' /\ CameIn'
  <2>1. Alone'
    BY <1>1, <1>3, ViewerAlone DEF ViewerJoins, ViewerReturns
  <2>2. CameIn'
    <3>1. /\ "return" \in Faults /\ "join" \in Faults
          /\ faults["return"] \in Nat /\ faults["join"] \in Nat
          /\ faults'["return"] \in Nat /\ faults'["join"] \in Nat
      BY DEF Faults, TypeOK
    <3>2. \/ faults' = [faults EXCEPT !["join"] = @ + 1]
          \/ faults' = [faults EXCEPT !["return"] = @ + 1]
      BY <1>3 DEF ViewerJoins, ViewerReturns, Spend
    <3>3. faults'["join"] = faults["join"] + 1 \/ faults'["return"] = faults["return"] + 1
      BY <3>1, <3>2 DEF TypeOK
    <3>. QED  BY <3>1, <3>3 DEF CameIn
  <2>. QED  BY <2>1, <2>2
<1>4. ASSUME NEW v \in Viewers, ViewerLeaves(v)
      PROVE  Alone' /\ (Audience => Audience')
  BY <1>1, <1>4, ViewerAlone, LeavesAudience DEF ViewerLeaves
<1>5. ASSUME NEW w \in Workers, Claim(w)
      PROVE  Alone' /\ (Audience => Audience')
  <2>1. ~Spend("takeover")
    BY DEF Spend, TypeOK, Faults
  <2>2. (\A u \in Workers : pc[u] = "idle") /\ faults' = faults
    BY <1>5, <2>1 DEF Claim
  <2>. QED  BY <1>1, <1>5, <2>2, ClaimAlone
<1>6. ASSUME NEW w \in Workers, InsertConflicts(w) \/ Crash(w)
      PROVE  Alone' /\ (Audience => Audience')
  BY <1>1, <1>6, AbandonAlone DEF InsertConflicts, Crash
<1>. QED
  BY <1>1, <1>2, <1>3, <1>4, <1>5, <1>6, LoadAlone, StartAlone, EmptyAlone, FetchAlone,
     CheckAlone, SendAlone, RecordAlone, CommitAlone, EndAlone DEF Next, Step

\* While no worker works on the broadcast of another, the counts on the row are
\* those of the delivery records, over any number of crashes: a page's counts and
\* records are committed together, and nobody is counted twice.
THEOREM CountsAreRecords == Spec => []CountsMatchRecords
<1>1. AloneInv => CountsMatchRecords
  BY DEF AloneInv, Alone, Tallied, Tally, CountsMatchRecords, Sent
<1>. QED  BY <1>1, InitType, StepType, InitCovered, StepCovered, InitAlone, StepAlone, PTL
          DEF Spec

\* A broadcast that is over has dealt with every viewer of its snapshot who is
\* still there, if nobody came in and no worker took over from a live one: the
\* counts that end it early are never ahead of the viewers that are left.
THEOREM OverReached == Spec => []OverMeansReached
<1>1. AloneInv => OverMeansReached
  BY DEF AloneInv, Audience, OverMeansReached, Over
<1>. QED  BY <1>1, InitType, StepType, InitCovered, StepCovered, InitAlone, StepAlone, PTL
          DEF Spec

----------------------------------------------------------------------------
(* Every message but one is charged to a run that was lost or taken over.   *)

\* The worker has sent to the viewer and not yet dealt with the answer.
AtViewer(w, v) == pc[w] \in {"sent", "inserting"} /\ IsNext(w, v)

\* The worker is about to find out that the viewer has no SENT record.
LooksAt(w, v) == pc[w] = "checked" /\ IsNext(w, v)

\* The viewer may still be ahead of the worker, which sends to nobody twice.
MaySend(w, v) ==
  \/ pc[w] \in {"claimed", "loaded"}
  \/ pc[w] \in Working /\ cursor[w] < v /\ ~AtViewer(w, v)

Senders(v) == {w \in Workers : MaySend(w, v)}

\* What the worker knows of the viewer, if anything, is a message sent.
TellsSent(w, v) ==
  /\ AtViewer(w, v) => outcome[w] = "SENT"
  /\ result[w][v] \in {"NONE", "SENT"}

\* A busy worker has yet to reach the viewer, or is about to commit its record.
Reaches(w, v) == pc[w] # "idle" => MaySend(w, v) \/ AtViewer(w, v) \/ v \in wrote[w]

\* The insert of the worker will conflict, and end its run.
Stuck(w) == pc[w] = "inserting" /\ \E v \in Viewers : IsNext(w, v) /\ record[v] # "NONE"

\* The viewer has a SENT record, which nobody sends or writes over.
ForGood(v) ==
  /\ record[v] = "SENT"
  /\ \A w \in Workers : TellsSent(w, v) /\ ~LooksAt(w, v)

\* Nobody has failed to send, or passed over the viewer: as long as there is no
\* SENT record, some run will store one if it is not lost.
Tight(v) ==
  /\ \A w \in Workers : TellsSent(w, v)
  /\ record[v] # "SENT" =>
       /\ \A w \in Workers : Reaches(w, v)
       /\ \E w \in Workers : pc[w] # "idle" /\ ~Stuck(w)

Charge == 1 + faults["crash"] + faults["takeover"]

\* The messages the viewer has got and may still get are paid for by the runs that
\* were lost and those that took over, with one to spare unless it is tight.
ViewerCharged(v) ==
  \/ ForGood(v) /\ sends[v] <= Charge
  \/ sends[v] + Cardinality(Senders(v)) < Charge
  \/ sends[v] + Cardinality(Senders(v)) = Charge /\ Tight(v)

Busy == {w \in Workers : pc[w] # "idle"}

\* A worker sends to nobody whose record it has found to be SENT, and remembers
\* nothing of the last page.
Forgets(w) ==
  /\ pc[w] \in {"checked", "sent", "inserting"} => found[w] # "SENT"
  /\ pc[w] \in {"idle", "claimed", "loaded", "ready"} => result[w] = NoResult

ChargeInv ==
  /\ IsFiniteSet(Busy)
  /\ \A w \in Workers : Forgets(w)
  /\ \A v \in Viewers : ViewerCharged(v)

LEMMA SendersType ==
  ASSUME IsFiniteSet(Busy), NEW v \in Viewers
  PROVE  IsFiniteSet(Senders(v)) /\ Cardinality(Senders(v)) \in Nat
<1>1. Senders(v) \subseteq Busy
  BY DEF Senders, MaySend, Busy, Working
<1>. QED  BY <1>1, FS_Subset, FS_CardinalityType

\* What becomes of the senders when one worker takes a step.
LEMMA SendersChange ==
  ASSUME IsFiniteSet(Busy), NEW w \in Workers, NEW v \in Viewers, OnlyWorker(w)
  PROVE  /\ (MaySend(w, v)' <=> MaySend(w, v)) => Senders(v)' = Senders(v)
         /\ MaySend(w, v) /\ ~MaySend(w, v)' =>
              Cardinality(Senders(v)') = Cardinality(Senders(v)) - 1
         /\ ~MaySend(w, v) /\ MaySend(w, v)' =>
              Cardinality(Senders(v)') = Cardinality(Senders(v)) + 1
<1>1. \A u \in Workers \ {w} : MaySend(u, v)' <=> MaySend(u, v)
  BY DEF OnlyWorker, MaySend, AtViewer, IsNext
<1>2. ASSUME MaySend(w, v)' <=> MaySend(w, v) PROVE Senders(v)' = Senders(v)
  BY <1>1, <1>2 DEF Senders
<1>3. ASSUME MaySend(w, v), ~MaySend(w, v)'
      PROVE  Cardinality(Senders(v)') = Cardinality(Senders(v)) - 1
  <2>1. Senders(v)' = Senders(v) \ {w} /\ w \in Senders(v)
    BY <1>1, <1>3 DEF Senders
  <2>. QED  BY <2>1, SendersType, FS_RemoveElement
<1>4. ASSUME ~MaySend(w, v), MaySend(w, v)'
      PROVE  Cardinality(Senders(v)') = Cardinality(Senders(v)) + 1
  <2>1. Senders(v)' = Senders(v) \cup {w} /\ w \notin Senders(v)
    BY <1>1, <1>4 DEF Senders
  <2>. QED  BY <2>1, SendersType, FS_AddElement
<1>. QED  BY <1>2, <1>3, <1>4

LEMMA InitCharge == Init => ChargeInv
<1>. SUFFICES ASSUME Init PROVE ChargeInv
  OBVIOUS
<1>. USE DEF Init
<1>1. IsFiniteSet(Busy)
  <2>1. Busy = {}
    BY DEF Busy
  <2>. QED  BY <2>1, FS_EmptySet
<1>2. \A w \in Workers : Forgets(w)
  BY DEF Forgets
<1>3. ASSUME NEW v \in Viewers PROVE ViewerCharged(v)
  <2>1. Senders(v) = {}
    BY DEF Senders, MaySend, Working
  <2>2. Cardinality(Senders(v)) = 0
    BY <2>1, FS_EmptySet
  <2>. QED  BY <2>2 DEF ViewerCharged, Charge, Faults
<1>. QED  BY <1>1, <1>2, <1>3 DEF ChargeInv

\* The next viewer of a worker is one, ahead of its cursor.
LEMMA OneNext ==
  ASSUME TypeOK, Covered, NEW w \in Workers, pc[w] \in Working,
         NEW v \in Viewers, IsNext(w, v)
  PROVE  /\ \A u \in Viewers : IsNext(w, u) => u = v
         /\ cursor[w] < v
<1>1. NobodyLeftOut(w)
  BY DEF Covered, WorkerInv
<1>. QED  BY <1>1, NType DEF IsNext, NobodyLeftOut, Viewers

\* What is to be shown of a worker's step for a viewer it sends nothing to.
Modest(w, v) ==
  /\ TellsSent(w, v) => TellsSent(w, v)'
  /\ record[v] = "SENT" /\ ~LooksAt(w, v) => ~LooksAt(w, v)'
  /\ MaySend(w, v)' => MaySend(w, v)
  /\ (MaySend(w, v) => MaySend(w, v)')
       /\ TellsSent(w, v) /\ record[v] # "SENT" /\ Reaches(w, v) =>
     Reaches(w, v)' /\ (Stuck(w) \/ (pc'[w] # "idle" /\ ~Stuck(w)'))

\* What is said of the other workers stays as it is.
LEMMA OthersSame ==
  ASSUME NEW w \in Workers, OnlyWorker(w), UNCHANGED record, NEW u \in Workers \ {w},
         NEW v \in Viewers
  PROVE  /\ TellsSent(u, v)' <=> TellsSent(u, v)
         /\ LooksAt(u, v)' <=> LooksAt(u, v)
         /\ MaySend(u, v)' <=> MaySend(u, v)
         /\ Reaches(u, v)' <=> Reaches(u, v)
         /\ Stuck(u)' <=> Stuck(u)
         /\ pc'[u] = pc[u]
<1>1. /\ pc'[u] = pc[u] /\ todo'[u] = todo[u] /\ cursor'[u] = cursor[u]
      /\ outcome'[u] = outcome[u] /\ result'[u] = result[u] /\ wrote'[u] = wrote[u]
  BY DEF OnlyWorker
<1>2. \A x : IsNext(u, x)' <=> IsNext(u, x)
  BY <1>1 DEF IsNext
<1>3. AtViewer(u, v)' <=> AtViewer(u, v)
  BY <1>1, <1>2 DEF AtViewer
<1>4. MaySend(u, v)' <=> MaySend(u, v)
  BY <1>1, <1>3 DEF MaySend
<1>. QED
  BY <1>1, <1>2, <1>3, <1>4 DEF TellsSent, LooksAt, Reaches, Stuck

\* A step of one worker that sends nothing to the viewer keeps its account.
LEMMA ModestStep ==
  ASSUME TypeOK, IsFiniteSet(Busy), NEW w \in Workers, NEW v \in Viewers,
         ViewerCharged(v), OnlyWorker(w), UNCHANGED record, sends'[v] = sends[v],
         Charge' = Charge, Modest(w, v)
  PROVE  ViewerCharged(v)'
<1>1. sends[v] \in Nat /\ Charge \in Nat
  BY DEF TypeOK, Charge, Faults
<1>2. Cardinality(Senders(v)) \in Nat
  BY SendersType
<1>3. \/ (MaySend(w, v) <=> MaySend(w, v)') /\ Senders(v)' = Senders(v)
      \/ /\ MaySend(w, v) /\ ~MaySend(w, v)'
         /\ Cardinality(Senders(v)') = Cardinality(Senders(v)) - 1
  BY SendersChange DEF Modest
<1>4. CASE ForGood(v) /\ sends[v] <= Charge
  <2>1. ForGood(v)'
    BY <1>4, OthersSame DEF ForGood, Modest
  <2>. QED  BY <1>4, <2>1 DEF ViewerCharged
<1>5. CASE sends[v] + Cardinality(Senders(v)) < Charge
  BY <1>1, <1>2, <1>3, <1>5 DEF ViewerCharged
<1>6. CASE sends[v] + Cardinality(Senders(v)) = Charge /\ Tight(v)
  <2>1. CASE MaySend(w, v) /\ ~MaySend(w, v)'
    BY <1>1, <1>2, <1>3, <1>6, <2>1 DEF ViewerCharged
  <2>2. CASE MaySend(w, v) <=> MaySend(w, v)'
    <3>1. \A u \in Workers : TellsSent(u, v)'
      BY <1>6, OthersSame DEF Tight, Modest
    <3>2. ASSUME record'[v] # "SENT"
          PROVE  /\ \A u \in Workers : Reaches(u, v)'
                 /\ \E u \in Workers : pc'[u] # "idle" /\ ~Stuck(u)'
      <4>1. /\ \A u \in Workers : Reaches(u, v) /\ TellsSent(u, v)
            /\ record[v] # "SENT"
        BY <1>6, <3>2 DEF Tight
      <4>2. Reaches(w, v)' /\ (Stuck(w) \/ (pc'[w] # "idle" /\ ~Stuck(w)'))
        BY <2>2, <4>1 DEF Modest
      <4>3. PICK u \in Workers : pc[u] # "idle" /\ ~Stuck(u)
        BY <1>6, <4>1 DEF Tight
      <4>. QED  BY <4>1, <4>2, <4>3, OthersSame
    <3>3. Tight(v)'
      BY <3>1, <3>2 DEF Tight
    <3>. QED  BY <1>1, <1>2, <1>3, <1>6, <2>2, <3>3 DEF ViewerCharged
  <2>. QED  BY <1>3, <2>1, <2>2
<1>. QED  BY <1>4, <1>5, <1>6 DEF ViewerCharged

\* The steps before the first page, between pages and at the end of a run, and the
\* waiting of an insert.
LEMMA PlainModest ==
  ASSUME TypeOK, Covered, NEW w \in Workers, NEW v \in Viewers,
         \/ LoadBroadcast(w) \/ StartRun(w) \/ EmptyAudience(w) \/ FetchPage(w)
         \/ InsertWaits(w) \/ EndRun(w)
  PROVE  Modest(w, v) /\ OnlyWorker(w)
<1>. USE DEF TypeOK
<1>1. CASE LoadBroadcast(w)
  <2>1. /\ OnlyWorker(w) /\ pc[w] = "claimed" /\ pc'[w] \in {"idle", "loaded"}
        /\ result' = result
    BY <1>1 DEF LoadBroadcast, OnlyWorker
  <2>. QED
    BY <2>1 DEF Modest, TellsSent, AtViewer, LooksAt, MaySend, Reaches, Stuck, Working
<1>2. CASE StartRun(w)
  <2>1. /\ OnlyWorker(w) /\ pc[w] = "loaded" /\ pc'[w] = "ready" /\ result' = result
    BY <1>2 DEF StartRun, OnlyWorker
  <2>. QED
    BY <2>1 DEF Modest, TellsSent, AtViewer, LooksAt, MaySend, Reaches, Stuck, Working
<1>3. CASE EmptyAudience(w)
  <2>1. /\ OnlyWorker(w) /\ pc[w] = "loaded" /\ pc'[w] = "idle" /\ result' = result
    BY <1>3 DEF EmptyAudience, OnlyWorker
  <2>. QED
    BY <2>1 DEF Modest, TellsSent, AtViewer, LooksAt, MaySend, Reaches, Stuck, Working
<1>4. CASE FetchPage(w)
  <2>1. /\ OnlyWorker(w) /\ pc[w] = "ready" /\ pc'[w] = "paging" /\ result' = result
        /\ cursor' = cursor /\ wrote' = wrote
    BY <1>4 DEF FetchPage, OnlyWorker
  <2>. QED
    BY <2>1 DEF Modest, TellsSent, AtViewer, LooksAt, MaySend, Reaches, Stuck, Working
<1>5. CASE EndRun(w)
  <2>1. /\ OnlyWorker(w) /\ pc[w] = "ready" /\ pc'[w] = "idle" /\ result' = result
    BY <1>5 DEF EndRun, OnlyWorker
  <2>2. wrote[w] = {}
    BY <2>1 DEF Covered, WorkerInv
  <2>. QED
    BY <2>1, <2>2 DEF Modest, TellsSent, AtViewer, LooksAt, MaySend, Reaches, Stuck, Working
<1>6. CASE InsertWaits(w)
  <2>1. /\ OnlyWorker(w) /\ pc[w] = "sent" /\ pc'[w] = "inserting"
        /\ UNCHANGED <<record, result, cursor, todo, outcome, wrote>>
    BY <1>6 DEF InsertWaits, OnlyWorker
  <2>2. \A u : IsNext(w, u)' <=> IsNext(w, u)
    BY <2>1 DEF IsNext
  <2>3. ~Stuck(w)'
    BY <1>6, <2>1, <2>2, OneNext DEF InsertWaits, Stuck, Working
  <2>. QED
    BY <2>1, <2>2, <2>3 DEF Modest, TellsSent, AtViewer, LooksAt, MaySend, Reaches, Working
<1>. QED  BY <1>1, <1>2, <1>3, <1>4, <1>5, <1>6

\* A run that ends with nothing committed forgets its page.
LEMMA ForgetsAll ==
  ASSUME TypeOK, NEW w \in Workers, NEW v \in Viewers, Abandon(w)
  PROVE  /\ OnlyWorker(w) /\ pc'[w] = "idle" /\ result'[w] = NoResult
         /\ TellsSent(w, v)' /\ ~LooksAt(w, v)' /\ ~MaySend(w, v)' /\ Reaches(w, v)'
<1>1. OnlyWorker(w) /\ pc'[w] = "idle" /\ result'[w] = NoResult
  BY DEF Abandon, OnlyWorker, TypeOK
<1>2. result'[w][v] = "NONE"
  BY <1>1 DEF NoResult
<1>. QED
  BY <1>1, <1>2 DEF TellsSent, AtViewer, LooksAt, MaySend, Reaches, Working

LEMMA ConflictModest ==
  ASSUME TypeOK, NEW w \in Workers, NEW v \in Viewers, InsertConflicts(w)
  PROVE  Modest(w, v) /\ OnlyWorker(w)
<1>1. Stuck(w)
  BY DEF InsertConflicts, Stuck
<1>. QED  BY <1>1, ForgetsAll DEF Modest, InsertConflicts

\* A viewer who was sent to, or was found with a SENT record, is dealt with.
LEMMA PassModest ==
  ASSUME TypeOK, Covered, NEW w \in Workers, NEW v \in Viewers, NEW n \in Viewers,
         NEW o \in Outcomes, pc[w] \in Working \ {"ready"}, IsNext(w, n), Pass(w, n, o),
         OnlyWorker(w), record' = record,
         wrote[w] \subseteq wrote'[w],
         pc[w] # "paging" => o = outcome[w] /\ pc[w] \in {"sent", "inserting"},
         pc[w] = "paging" => record[n] = "SENT" /\ o = "SENT",
         o # "SENT" \/ record[n] = "SENT" \/ n \in wrote'[w]
  PROVE  Modest(w, v)
<1>1. /\ pc'[w] = "paging" /\ cursor'[w] = n
      /\ result'[w] = [result[w] EXCEPT ![n] = o]
  BY DEF Pass, TypeOK
<1>2. /\ cursor[w] < n /\ (v # n => ~IsNext(w, v))
      /\ cursor[w] \in Nat /\ n \in Nat /\ v \in Nat
  BY OneNext, NType DEF Viewers, TypeOK
<1>3. TellsSent(w, v) => TellsSent(w, v)'
  <2>1. CASE v = n
    <3>1. result'[w][v] = o
      BY <1>1, <2>1 DEF TypeOK
    <3>2. TellsSent(w, v) => o = "SENT"
      BY <2>1 DEF TellsSent, AtViewer, Working
    <3>. QED  BY <1>1, <3>1, <3>2 DEF TellsSent, AtViewer
  <2>2. CASE v # n
    BY <1>1, <2>2 DEF TellsSent, AtViewer, TypeOK
  <2>. QED  BY <2>1, <2>2
<1>4. ~LooksAt(w, v)' /\ ~Stuck(w)' /\ pc'[w] # "idle" /\ ~AtViewer(w, v)'
  BY <1>1 DEF LooksAt, Stuck, AtViewer
<1>5. MaySend(w, v)' <=> n < v
  BY <1>1, <1>4 DEF MaySend, Working
<1>6. n < v => MaySend(w, v)
  BY <1>2 DEF MaySend, AtViewer, Working
<1>7. ASSUME MaySend(w, v) => n < v, TellsSent(w, v), record[v] # "SENT", Reaches(w, v)
      PROVE  Reaches(w, v)'
  <2>1. CASE n < v
    BY <1>5, <2>1 DEF Reaches
  <2>2. CASE v = n
    <3>1. o = "SENT"
      BY <1>7, <2>2 DEF TellsSent, AtViewer, Working
    <3>. QED  BY <1>7, <2>2, <3>1 DEF Reaches
  <2>3. CASE v < n
    <3>1. ~MaySend(w, v) /\ ~AtViewer(w, v)
      BY <1>2, <1>7, <2>3 DEF AtViewer
    <3>. QED  BY <1>7, <3>1 DEF Reaches, Working
  <2>. QED  BY <1>2, <2>1, <2>2, <2>3
<1>. QED  BY <1>3, <1>4, <1>5, <1>6, <1>7 DEF Modest

LEMMA CheckModest ==
  ASSUME TypeOK, Covered, NEW w \in Workers, NEW v \in Viewers, CheckDelivery(w)
  PROVE  Modest(w, v) /\ OnlyWorker(w)
<1>1. PICK n \in Viewers :
        /\ IsNext(w, n)
        /\ IF record[n] = "SENT"
             THEN Pass(w, n, "SENT") /\ UNCHANGED found
             ELSE /\ found' = [found EXCEPT ![w] = record[n]]
                  /\ pc' = [pc EXCEPT ![w] = "checked"]
                  /\ UNCHANGED <<todo, cursor, result>>
  BY DEF CheckDelivery
<1>2. UNCHANGED <<record, copy, outcome, wrote>> /\ pc[w] = "paging"
  BY DEF CheckDelivery
<1>3. CASE record[n] = "SENT"
  <2>1. OnlyWorker(w)
    BY <1>1, <1>2, <1>3 DEF OnlyWorker, Pass, TypeOK
  <2>. QED  BY <1>1, <1>2, <1>3, <2>1, PassModest DEF Working, Outcomes
<1>4. CASE record[n] # "SENT"
  <2>1. /\ OnlyWorker(w) /\ pc'[w] = "checked"
        /\ UNCHANGED <<todo, cursor, result>>
    BY <1>1, <1>2, <1>4 DEF OnlyWorker, TypeOK
  <2>2. IsNext(w, v) => record[v] # "SENT"
    BY <1>1, <1>2, <1>4, OneNext DEF Working
  <2>3. LooksAt(w, v)' => record[v] # "SENT"
    BY <2>1, <2>2 DEF LooksAt, IsNext
  <2>. QED
    BY <1>2, <2>1, <2>3 DEF Modest, TellsSent, AtViewer, MaySend, Reaches, Stuck, Working
<1>. QED  BY <1>3, <1>4

\* A SENT answer is written, unless there is a SENT record: what the worker found
\* was none.
LEMMA RecordModest ==
  ASSUME TypeOK, Covered, NEW w \in Workers, NEW v \in Viewers, Forgets(w),
         RecordDelivery(w) \/ InsertGoesThrough(w)
  PROVE  Modest(w, v) /\ OnlyWorker(w)
<1>1. UNCHANGED <<record, copy, found, outcome>> /\ pc[w] \in {"sent", "inserting"}
  BY DEF RecordDelivery, InsertGoesThrough
<1>2. outcome[w] \in Outcomes
  BY <1>1 DEF Covered, WorkerInv, TypeOK
<1>3. PICK n \in Viewers :
        /\ IsNext(w, n) /\ Pass(w, n, outcome[w])
        /\ \/ /\ wrote' = wrote
              /\ outcome[w] = IF found[w] = "NONE" THEN record[n] ELSE found[w]
           \/ wrote' = [wrote EXCEPT ![w] = @ \cup {n}]
  BY DEF RecordDelivery, InsertGoesThrough
<1>4. OnlyWorker(w)
  BY <1>1, <1>3 DEF OnlyWorker, Pass, TypeOK
<1>5. outcome[w] # "SENT" \/ record[n] = "SENT" \/ n \in wrote'[w]
  BY <1>1, <1>3 DEF Forgets, TypeOK
<1>6. wrote[w] \subseteq wrote'[w]
  BY <1>3 DEF TypeOK
<1>. QED  BY <1>1, <1>2, <1>3, <1>4, <1>5, <1>6, PassModest DEF Working

\* A message to the viewer uses up what the worker was entitled to; an answer
\* that is not a message sent leaves one to spare.
LEMMA SendCharged ==
  ASSUME TypeOK, Covered, IsFiniteSet(Busy), NEW w \in Workers, NEW v \in Viewers,
         ViewerCharged(v), Send(w)
  PROVE  ViewerCharged(v)'
<1>1. /\ OnlyWorker(w) /\ pc[w] = "checked" /\ pc'[w] = "sent"
      /\ UNCHANGED <<record, cursor, todo, result, wrote, faults>>
  BY DEF Send, OnlyWorker, TypeOK
<1>2. PICK n \in Viewers, o \in Outcomes :
        /\ IsNext(w, n) /\ outcome'[w] = o
        /\ sends' = IF o = "SENT" THEN [sends EXCEPT ![n] = @ + 1] ELSE sends
  BY DEF Send, TypeOK
<1>3. /\ \A u \in Viewers : IsNext(w, u) => u = n
      /\ cursor[w] < n
  BY <1>1, <1>2, OneNext DEF Working
<1>4. \A u : IsNext(w, u)' <=> IsNext(w, u)
  BY <1>1 DEF IsNext
<1>5. Charge' = Charge
  BY <1>1 DEF Charge
<1>6. CASE v # n
  <2>1. ~IsNext(w, v) /\ sends'[v] = sends[v]
    BY <1>2, <1>3, <1>6 DEF TypeOK
  <2>2. Modest(w, v)
    BY <1>1, <1>4, <2>1 DEF Modest, TellsSent, AtViewer, LooksAt, MaySend, Reaches, Stuck,
                            Working
  <2>. QED  BY <1>1, <1>5, <2>1, <2>2, ModestStep
<1>7. CASE v = n
  <2>1. LooksAt(w, v) /\ MaySend(w, v) /\ ~MaySend(w, v)' /\ AtViewer(w, v)'
    BY <1>1, <1>2, <1>3, <1>4, <1>7 DEF LooksAt, MaySend, AtViewer, Working
  <2>2. Cardinality(Senders(v)') = Cardinality(Senders(v)) - 1
    BY <1>1, <2>1, SendersChange
  <2>3. sends[v] \in Nat /\ Charge \in Nat /\ Cardinality(Senders(v)) \in Nat
    BY SendersType DEF TypeOK, Charge, Faults
  <2>4. ~ForGood(v)
    BY <2>1 DEF ForGood
  <2>5. sends'[v] = IF o = "SENT" THEN sends[v] + 1 ELSE sends[v]
    BY <1>2, <1>7 DEF TypeOK
  <2>6. ASSUME o = "SENT", Tight(v) PROVE Tight(v)'
    <3>1. \A u \in Workers : TellsSent(u, v)'
      <4>1. TellsSent(w, v)'
        BY <1>1, <1>2, <2>6 DEF Tight, TellsSent
      <4>. QED  BY <1>1, <2>6, <4>1, OthersSame DEF Tight
    <3>2. Reaches(w, v)' /\ ~Stuck(w)' /\ pc'[w] # "idle"
      BY <1>1, <2>1 DEF Reaches, Stuck
    <3>3. record[v] # "SENT" => \A u \in Workers : Reaches(u, v)'
      BY <1>1, <2>6, <3>2, OthersSame DEF Tight
    <3>. QED  BY <1>1, <3>1, <3>2, <3>3 DEF Tight
  <2>7. CASE o = "SENT"
    BY <1>5, <2>2, <2>3, <2>4, <2>5, <2>6, <2>7 DEF ViewerCharged
  <2>8. CASE o # "SENT"
    <3>1. sends[v] + Cardinality(Senders(v)) <= Charge
      BY <2>3, <2>4 DEF ViewerCharged
    <3>2. sends'[v] + Cardinality(Senders(v)') < Charge'
      BY <1>5, <2>2, <2>3, <2>5, <2>8, <3>1
    <3>. QED  BY <3>2 DEF ViewerCharged
  <2>. QED  BY <2>7, <2>8
<1>. QED  BY <1>6, <1>7

\* A crash pays for one more message.
LEMMA CrashCharged ==
  ASSUME TypeOK, IsFiniteSet(Busy), NEW w \in Workers, NEW v \in Viewers,
         ViewerCharged(v), Crash(w)
  PROVE  ViewerCharged(v)'
<1>1. UNCHANGED <<record, sends>> /\ Abandon(w)
  BY DEF Crash
<1>2. /\ OnlyWorker(w)
      /\ TellsSent(w, v)' /\ ~LooksAt(w, v)' /\ ~MaySend(w, v)'
  BY <1>1, ForgetsAll
<1>3. Charge' = Charge + 1
  BY DEF Crash, Spend, Charge, TypeOK, Faults
<1>4. sends[v] \in Nat /\ Charge \in Nat /\ Cardinality(Senders(v)) \in Nat
  BY SendersType DEF TypeOK, Charge, Faults
<1>5. CASE ForGood(v) /\ sends[v] <= Charge
  <2>1. ForGood(v)'
    BY <1>1, <1>2, <1>5, OthersSame DEF ForGood
  <2>2. sends'[v] <= Charge'
    BY <1>1, <1>3, <1>4, <1>5
  <2>. QED  BY <2>1, <2>2 DEF ViewerCharged
<1>6. CASE sends[v] + Cardinality(Senders(v)) <= Charge
  <2>1. \/ Senders(v)' = Senders(v)
        \/ Cardinality(Senders(v)') = Cardinality(Senders(v)) - 1
    BY <1>2, SendersChange
  <2>2. sends'[v] + Cardinality(Senders(v)') < Charge'
    BY <1>1, <1>3, <1>4, <1>6, <2>1
  <2>. QED  BY <2>2 DEF ViewerCharged
<1>. QED  BY <1>4, <1>5, <1>6 DEF ViewerCharged

\* A run that takes over pays for the message it may send.  A run that begins
\* with nobody at work finds a SENT record, or nothing sent but what was lost.
LEMMA ClaimCharged ==
  ASSUME TypeOK, ChargeInv, NEW w \in Workers, NEW v \in Viewers, Claim(w)
  PROVE  ViewerCharged(v)'
<1>1. /\ OnlyWorker(w) /\ pc[w] = "idle" /\ pc'[w] = "claimed"
      /\ UNCHANGED <<record, sends, result>>
  BY DEF Claim, OnlyWorker, TypeOK
<1>2. ViewerCharged(v) /\ IsFiniteSet(Busy) /\ \A u \in Workers : Forgets(u)
  BY DEF ChargeInv
<1>3. sends[v] \in Nat /\ Charge \in Nat /\ Cardinality(Senders(v)) \in Nat
  BY <1>2, SendersType DEF TypeOK, Charge, Faults
<1>4. ~MaySend(w, v) /\ MaySend(w, v)'
  BY <1>1 DEF MaySend, Working
<1>5. Cardinality(Senders(v)') = Cardinality(Senders(v)) + 1
  BY <1>1, <1>2, <1>4, SendersChange
<1>6. /\ TellsSent(w, v) <=> TellsSent(w, v)'
      /\ ~LooksAt(w, v)' /\ Reaches(w, v)' /\ ~Stuck(w)'
  BY <1>1, <1>4 DEF TellsSent, AtViewer, LooksAt, Reaches, Stuck
<1>7. ForGood(v) => ForGood(v)'
  BY <1>1, <1>6, OthersSame DEF ForGood
<1>8. CASE \A u \in Workers : pc[u] = "idle"
  <2>1. Charge' = Charge
    BY <1>8 DEF Claim, Charge
  <2>2. Senders(v) = {}
    BY <1>8 DEF Senders, MaySend, Working
  <2>3. Cardinality(Senders(v)) = 0
    BY <2>2, FS_EmptySet
  <2>4. \A u \in Workers : TellsSent(u, v) /\ ~LooksAt(u, v) /\ Reaches(u, v)
    <3>1. \A u \in Workers : result[u][v] = "NONE"
      BY <1>2, <1>8 DEF Forgets, NoResult
    <3>. QED  BY <1>8, <3>1 DEF TellsSent, AtViewer, LooksAt, Reaches
  <2>5. CASE ForGood(v) /\ sends[v] <= Charge
    BY <1>1, <1>7, <2>1, <2>5 DEF ViewerCharged
  <2>6. CASE sends[v] < Charge
    <3>1. Tight(v)'
      BY <1>1, <1>6, <2>4, OthersSame DEF Tight
    <3>2. sends'[v] + Cardinality(Senders(v)') <= Charge'
      BY <1>1, <1>3, <1>5, <2>1, <2>3, <2>6
    <3>. QED  BY <1>1, <1>3, <1>5, <2>1, <3>1, <3>2 DEF ViewerCharged
  <2>7. CASE sends[v] = Charge /\ Tight(v)
    <3>1. ForGood(v)
      BY <1>8, <2>4, <2>7 DEF Tight, ForGood
    <3>. QED  BY <1>1, <1>3, <1>7, <2>1, <2>7, <3>1 DEF ViewerCharged
  <2>. QED  BY <1>2, <1>3, <2>3, <2>5, <2>6, <2>7 DEF ViewerCharged
<1>9. CASE ~(\A u \in Workers : pc[u] = "idle")
  <2>1. Charge' = Charge + 1
    <3>1. faults' = [faults EXCEPT !["takeover"] = @ + 1]
      BY <1>9 DEF Claim, Spend
    <3>. QED  BY <3>1 DEF Charge, TypeOK, Faults
  <2>2. Tight(v) => Tight(v)'
    BY <1>1, <1>6, OthersSame DEF Tight
  <2>3. CASE ForGood(v) /\ sends[v] <= Charge
    BY <1>1, <1>3, <1>7, <2>1, <2>3 DEF ViewerCharged
  <2>4. CASE sends[v] + Cardinality(Senders(v)) < Charge
    BY <1>1, <1>3, <1>5, <2>1, <2>4 DEF ViewerCharged
  <2>5. CASE sends[v] + Cardinality(Senders(v)) = Charge /\ Tight(v)
    BY <1>1, <1>3, <1>5, <2>1, <2>2, <2>5 DEF ViewerCharged
  <2>. QED  BY <1>2, <2>3, <2>4, <2>5 DEF ViewerCharged
<1>. QED  BY <1>8, <1>9

\* The commit of a page stores the messages sent, and writes nothing else over a
\* SENT record, if all that is known of the viewer is messages sent.
LEMMA CommitCharged ==
  ASSUME TypeOK, Covered, IsFiniteSet(Busy), NEW w \in Workers, NEW v \in Viewers,
         ViewerCharged(v), CommitPage(w)
  PROVE  ViewerCharged(v)'
<1>1. /\ OnlyWorker(w) /\ pc[w] = "paging" /\ pc'[w] = "ready"
      /\ result'[w] = NoResult /\ UNCHANGED <<sends, faults, cursor>>
  BY DEF CommitPage, OnlyWorker, TypeOK
<1>2. record'[v] = IF v \in wrote[w] THEN result[w][v] ELSE record[v]
  BY DEF CommitPage
<1>3. v \in wrote[w] => result[w][v] # "NONE"
  BY DEF Covered, WorkerInv
<1>4. ASSUME NEW u \in Workers \ {w}
      PROVE  /\ TellsSent(u, v)' <=> TellsSent(u, v)
             /\ LooksAt(u, v)' <=> LooksAt(u, v)
             /\ Reaches(u, v)' <=> Reaches(u, v)
  BY DEF OnlyWorker, TellsSent, LooksAt, Reaches, MaySend, AtViewer, IsNext, CommitPage,
         TypeOK
<1>5. /\ TellsSent(w, v)' /\ ~LooksAt(w, v)' /\ ~Stuck(w)'
      /\ MaySend(w, v)' <=> MaySend(w, v)
      /\ ~AtViewer(w, v)
  BY <1>1 DEF TellsSent, LooksAt, Stuck, MaySend, AtViewer, Working, NoResult
<1>6. Senders(v)' = Senders(v) /\ Charge' = Charge
  BY <1>1, <1>5, SendersChange DEF Charge
<1>7. CASE ForGood(v) /\ sends[v] <= Charge
  <2>1. record'[v] = "SENT"
    BY <1>2, <1>3, <1>7 DEF ForGood, TellsSent
  <2>2. ForGood(v)'
    BY <1>4, <1>5, <1>7, <2>1 DEF ForGood
  <2>. QED  BY <1>1, <1>6, <1>7, <2>2 DEF ViewerCharged
<1>8. CASE sends[v] + Cardinality(Senders(v)) < Charge
  BY <1>1, <1>6, <1>8 DEF ViewerCharged
<1>9. CASE sends[v] + Cardinality(Senders(v)) = Charge /\ Tight(v)
  <2>1. \A u \in Workers : TellsSent(u, v)'
    BY <1>4, <1>5, <1>9 DEF Tight
  <2>2. ASSUME record'[v] # "SENT"
        PROVE  \A u \in Workers : Reaches(u, v)'
    <3>1. v \notin wrote[w] /\ record[v] # "SENT"
      BY <1>2, <1>3, <1>9, <2>2 DEF Tight, TellsSent
    <3>2. MaySend(w, v)
      BY <1>1, <1>5, <1>9, <3>1 DEF Tight, Reaches
    <3>. QED  BY <1>4, <1>5, <1>9, <3>1, <3>2 DEF Tight, Reaches
  <2>3. Tight(v)'
    BY <1>1, <1>5, <2>1, <2>2 DEF Tight
  <2>. QED  BY <1>1, <1>6, <1>9, <2>3 DEF ViewerCharged
<1>. QED  BY <1>7, <1>8, <1>9 DEF ViewerCharged

\* Viewers who come and go have no part in it.
LEMMA VisitsCharged ==
  ASSUME TypeOK, UNCHANGED <<record, sends, run>>, Charge' = Charge, NEW v \in Viewers,
         ViewerCharged(v)
  PROVE  ViewerCharged(v)'
<1>1. \A u, x : IsNext(u, x)' <=> IsNext(u, x)
  BY DEF run, IsNext
<1>2. \A u : /\ TellsSent(u, v)' <=> TellsSent(u, v)
             /\ LooksAt(u, v)' <=> LooksAt(u, v)
             /\ MaySend(u, v)' <=> MaySend(u, v)
             /\ Reaches(u, v)' <=> Reaches(u, v)
             /\ Stuck(u)' <=> Stuck(u)
  BY <1>1 DEF run, TellsSent, LooksAt, MaySend, Reaches, Stuck, AtViewer
<1>3. Senders(v)' = Senders(v)
  BY <1>2 DEF Senders
<1>4. (ForGood(v)' <=> ForGood(v)) /\ (Tight(v)' <=> Tight(v))
  BY <1>2 DEF ForGood, Tight, run
<1>. QED  BY <1>3, <1>4 DEF ViewerCharged

LEMMA StepForgets ==
  ASSUME TypeOK, \A w \in Workers : Forgets(w), [Next]_vars
  PROVE  \A w \in Workers : Forgets(w)'
<1>. USE DEF TypeOK, Forgets
<1>1. ASSUME UNCHANGED run PROVE \A w \in Workers : Forgets(w)'
  BY <1>1 DEF run
<1>2. ASSUME NEW w \in Workers, Claim(w) \/ Step(w) \/ Crash(w)
      PROVE  \A u \in Workers : Forgets(u)'
  <2>1. \A u \in Workers \ {w} :
          pc'[u] = pc[u] /\ found'[u] = found[u] /\ result'[u] = result[u]
    BY <1>2 DEF Claim, Step, LoadBroadcast, StartRun, EmptyAudience, FetchPage,
                CheckDelivery, Send, RecordDelivery, InsertWaits, InsertGoesThrough,
                InsertConflicts, CommitPage, EndRun, Crash, Abandon, Pass
  <2>2. Forgets(w)'
    <3>1. CASE Claim(w) \/ LoadBroadcast(w) \/ StartRun(w) \/ EmptyAudience(w) \/ EndRun(w)
      BY <3>1 DEF Claim, LoadBroadcast, StartRun, EmptyAudience, EndRun
    <3>2. CASE FetchPage(w) \/ Send(w) \/ InsertWaits(w)
      BY <3>2 DEF FetchPage, Send, InsertWaits
    <3>3. CASE CheckDelivery(w) \/ RecordDelivery(w) \/ InsertGoesThrough(w)
      BY <3>3 DEF CheckDelivery, RecordDelivery, InsertGoesThrough, Pass
    <3>4. CASE InsertConflicts(w) \/ Crash(w) \/ CommitPage(w)
      BY <3>4 DEF InsertConflicts, Crash, Abandon, CommitPage
    <3>. QED  BY <1>2, <3>1, <3>2, <3>3, <3>4 DEF Step
  <2>. QED  BY <2>1, <2>2
<1>3. ASSUME NEW v \in Viewers, ViewerJoins(v) \/ ViewerLeaves(v) \/ ViewerReturns(v)
      PROVE  UNCHANGED run
  BY <1>3 DEF ViewerJoins, ViewerLeaves, ViewerReturns
<1>4. UNCHANGED vars => UNCHANGED run
  BY DEF vars
<1>. QED  BY <1>1, <1>2, <1>3, <1>4 DEF Next

\* Only so many workers are busy as have come.
LEMMA StepBusy ==
  ASSUME TypeOK, IsFiniteSet(Busy), [Next]_vars
  PROVE  IsFiniteSet(Busy')
<1>1. ASSUME UNCHANGED run PROVE Busy' = Busy
  BY <1>1 DEF run, Busy
<1>2. ASSUME NEW w \in Workers, Claim(w) \/ Step(w) \/ Crash(w)
      PROVE  IsFiniteSet(Busy')
  <2>1. \A u \in Workers \ {w} : pc'[u] = pc[u]
    BY <1>2 DEF Claim, Step, LoadBroadcast, StartRun, EmptyAudience, FetchPage,
                CheckDelivery, Send, RecordDelivery, InsertWaits, InsertGoesThrough,
                InsertConflicts, CommitPage, EndRun, Crash, Abandon, Pass, TypeOK
  <2>2. Busy' \subseteq Busy \cup {w}
    BY <2>1 DEF Busy
  <2>. QED  BY <2>2, FS_AddElement, FS_Subset
<1>3. ASSUME NEW v \in Viewers, ViewerJoins(v) \/ ViewerLeaves(v) \/ ViewerReturns(v)
      PROVE  UNCHANGED run
  BY <1>3 DEF ViewerJoins, ViewerLeaves, ViewerReturns
<1>4. UNCHANGED vars => UNCHANGED run
  BY DEF vars
<1>. QED  BY <1>1, <1>2, <1>3, <1>4 DEF Next

LEMMA StepCharge == TypeOK /\ Covered /\ ChargeInv /\ [Next]_vars => ChargeInv'
<1>. SUFFICES ASSUME TypeOK, Covered, ChargeInv, [Next]_vars PROVE ChargeInv'
  OBVIOUS
<1>1. IsFiniteSet(Busy) /\ \A w \in Workers : Forgets(w)
  BY DEF ChargeInv
<1>2. IsFiniteSet(Busy)' /\ \A w \in Workers : Forgets(w)'
  BY <1>1, StepBusy, StepForgets
<1>3. ASSUME NEW v \in Viewers PROVE ViewerCharged(v)'
  <2>1. ViewerCharged(v)
    BY DEF ChargeInv
  <2>2. CASE UNCHANGED vars
    <3>1. UNCHANGED <<record, sends, run>> /\ Charge' = Charge
      BY <2>2 DEF vars, Charge
    <3>. QED  BY <2>1, <3>1, VisitsCharged
  <2>3. ASSUME NEW n \in Viewers, ViewerJoins(n) \/ ViewerLeaves(n) \/ ViewerReturns(n)
        PROVE  ViewerCharged(v)'
    <3>1. UNCHANGED <<record, sends, run>>
      BY <2>3 DEF ViewerJoins, ViewerLeaves, ViewerReturns
    <3>2. Charge' = Charge
      BY <2>3 DEF ViewerJoins, ViewerLeaves, ViewerReturns, Spend, Charge, TypeOK, Faults
    <3>. QED  BY <2>1, <3>1, <3>2, VisitsCharged
  <2>4. ASSUME NEW w \in Workers,
               \/ LoadBroadcast(w) \/ StartRun(w) \/ EmptyAudience(w) \/ FetchPage(w)
               \/ InsertWaits(w) \/ EndRun(w) \/ InsertConflicts(w) \/ CheckDelivery(w)
               \/ RecordDelivery(w) \/ InsertGoesThrough(w)
        PROVE  ViewerCharged(v)'
    <3>1. UNCHANGED <<record, sends, faults>>
      BY <2>4 DEF LoadBroadcast, StartRun, EmptyAudience, FetchPage, InsertWaits, EndRun,
                  InsertConflicts, CheckDelivery, RecordDelivery, InsertGoesThrough
    <3>2. Modest(w, v) /\ OnlyWorker(w)
      BY <1>1, <2>4, PlainModest, ConflictModest, CheckModest, RecordModest
    <3>3. sends'[v] = sends[v] /\ Charge' = Charge
      BY <3>1 DEF Charge
    <3>. QED  BY <1>1, <2>1, <3>1, <3>2, <3>3, ModestStep
  <2>5. ASSUME NEW w \in Workers, Claim(w) \/ Send(w) \/ CommitPage(w) \/ Crash(w)
        PROVE  ViewerCharged(v)'
    BY <1>1, <2>1, <2>5, ClaimCharged, SendCharged, CommitCharged, CrashCharged
  <2>. QED  BY <2>2, <2>3, <2>4, <2>5 DEF Next, Step
<1>. QED  BY <1>2, <1>3 DEF ChargeInv

LEMMA ChargeBounds == TypeOK /\ ChargeInv => ResentOnlyAfterFault
<1>. SUFFICES ASSUME TypeOK, ChargeInv, NEW v \in Viewers
              PROVE  sends[v] <= Charge
  BY DEF ResentOnlyAfterFault, Charge
<1>1. ViewerCharged(v) /\ IsFiniteSet(Busy)
  BY DEF ChargeInv
<1>2. sends[v] \in Nat /\ Charge \in Nat /\ Cardinality(Senders(v)) \in Nat
  BY <1>1, SendersType DEF TypeOK, Charge, Faults
<1>. QED  BY <1>1, <1>2 DEF ViewerCharged

\* For any number of viewers and workers, a viewer gets the broadcast once, and
\* once more at most for every run that crashed and every run that took over from
\* a live one: no interleaving of two runs sends it more often than that.
THEOREM ResentForRuns == Spec => []ResentOnlyAfterFault
<1>1. TypeOK /\ Covered /\ ChargeInv /\ [Next]_vars => TypeOK' /\ Covered' /\ ChargeInv'
  BY StepType, StepCovered, StepCharge
<1>2. TypeOK /\ ChargeInv => ResentOnlyAfterFault
  BY ChargeBounds
<1>. QED  BY InitType, InitCovered, InitCharge, <1>1, <1>2, PTL DEF Spec

=============================================================================
