------------------------- MODULE TaskServiceProofs -------------------------
(***************************************************************************)
(* Proofs about TaskService, for any contract, any number of processes,    *)
(* attempts and artifacts.                                                 *)
(***************************************************************************)
EXTENDS TaskService, FiniteSetTheorems, WellFoundedInduction, TLAPS

----------------------------------------------------------------------------
(* Sequences and numbers.  Induction is by the smallest counterexample.    *)

LEMMA SmallestMember ==
    ASSUME NEW T \in SUBSET Nat, T # {}
    PROVE  \E x \in T : \A y \in T : x <= y
<1>. DEFINE R == {r \in Nat \X Nat : r[1] < r[2]}
<1>1. IsWellFoundedOn(R, Nat)
  BY NatLessThanWellFounded DEF OpToRel
<1>2. PICK x \in T : \A y \in T : <<y, x>> \notin R
  <2>. HIDE DEF R
  <2>. QED  BY <1>1, WFMin
<1>3. ASSUME NEW y \in T
      PROVE  x <= y
  <2>1. <<y, x>> \in Nat \X Nat /\ ~(y < x)
    BY <1>2
  <2>. QED  BY <2>1
<1>. QED  BY <1>3

\* Some member of a nonempty set of places in a sequence has the largest value there.
LEMMA LargestValue ==
    ASSUME NEW n \in Nat, NEW S \in SUBSET (1 .. n), S # {}, NEW f, \A i \in S : f[i] \in Nat
    PROVE  \E i \in S : \A j \in S : f[j] <= f[i]
<1>. DEFINE Largest(A) == \E i \in A : \A j \in A : f[j] <= f[i]
            T == {m \in Nat : \E A \in SUBSET S : A # {} /\ A \subseteq 1 .. m /\ ~Largest(A)}
<1>0. ~Largest(S) => n \in T
  <2>. HIDE DEF Largest
  <2>. QED  OBVIOUS
<1>1. SUFFICES ASSUME T # {} PROVE FALSE
  <2>. HIDE DEF T
  <2>1. Largest(S) => \E i \in S : \A j \in S : f[j] <= f[i]
    OBVIOUS
  <2>. HIDE DEF Largest
  <2>. QED  BY <1>0, <2>1
<1>2. PICK m \in T : \A x \in T : m <= x
  <2>. T \in SUBSET Nat
    OBVIOUS
  <2>. HIDE DEF T
  <2>. QED  BY <1>1, SmallestMember
<1>3. PICK A \in SUBSET S : A # {} /\ A \subseteq 1 .. m /\ ~Largest(A)
  BY <1>2
<1>4. m \in Nat /\ m # 0 /\ m - 1 \in Nat /\ m - 1 \notin T
  <2>1. m \in Nat
    BY <1>2
  <2>2. m # 0
    <3>1. A # {} /\ A \subseteq 1 .. m
      BY <1>3
    <3>2. 1 .. 0 = {}
      OBVIOUS
    <3>. QED  BY <3>1, <3>2
  <2>. HIDE DEF T
  <2>. QED  BY <1>2, <2>1, <2>2
<1>5. A \ {m} \subseteq 1 .. (m - 1) /\ A \ {m} \in SUBSET S
  BY <1>3, <1>4
<1>6. CASE A \ {m} = {}
  <2>1. A = {m} /\ f[m] \in Nat
    BY <1>3, <1>6
  <2>. QED  BY <1>3, <2>1
<1>7. CASE A \ {m} # {}
  <2>1. Largest(A \ {m})
    <3>. HIDE DEF Largest
    <3>. QED  BY <1>4, <1>5, <1>7
  <2>2. PICK i \in A \ {m} : \A j \in A \ {m} : f[j] <= f[i]
    BY <2>1
  <2>3. CASE m \in A /\ f[m] > f[i]
    <3>1. \A j \in A : f[j] <= f[m]
      BY <2>2, <2>3
    <3>. QED  BY <1>3, <2>3, <3>1
  <2>4. CASE ~(m \in A /\ f[m] > f[i])
    <3>1. \A j \in A : f[j] <= f[i]
      BY <2>2, <2>4
    <3>. QED  BY <1>3, <2>2, <3>1
  <2>. QED  BY <2>3, <2>4
<1>. QED  BY <1>6, <1>7

LEMMA Grown ==
    ASSUME NEW S, NEW s \in Seq(S), NEW t \in Seq(S)
    PROVE  /\ s \o t \in Seq(S)
           /\ DOMAIN s \subseteq DOMAIN (s \o t) /\ Len(s \o t) = Len(s) + Len(t)
           /\ \A i \in DOMAIN s : (s \o t)[i] = s[i]
           /\ \A i \in DOMAIN (s \o t) \ DOMAIN s :
                  i - Len(s) \in DOMAIN t /\ (s \o t)[i] = t[i - Len(s)]
OBVIOUS

----------------------------------------------------------------------------
(* The revisions of a kind.                                                *)

LEMMA RowType ==
    ASSUME TypeOK, NEW i \in DOMAIN arts
    PROVE  /\ arts[i] \in ArtifactRow /\ arts[i].kind \in Kind
           /\ arts[i].revision \in Nat /\ arts[i].status \in ArtifactStatus
           /\ arts[i].inputs \subseteq DOMAIN arts
           /\ i \in Nat
<1>1. arts \in Seq(ArtifactRow) /\ arts[i].inputs \subseteq DOMAIN arts
  BY DEF TypeOK
<1>2. arts[i] \in ArtifactRow /\ i \in Nat
  BY <1>1
<1>. QED  BY <1>1, <1>2 DEF ArtifactRow

LEMMA LatestExists ==
    ASSUME TypeOK, NEW k, OfKind(k) # {}
    PROVE  Latest(k) # {}
<1>. DEFINE f == [i \in DOMAIN arts |-> arts[i].revision]
<1>1. Len(arts) \in Nat /\ OfKind(k) \in SUBSET (1 .. Len(arts)) /\ DOMAIN arts = 1 .. Len(arts)
  BY DEF TypeOK, OfKind
<1>2. \A i \in OfKind(k) : f[i] \in Nat /\ f[i] = arts[i].revision
  BY RowType DEF OfKind
<1>3. \E i \in OfKind(k) : \A j \in OfKind(k) : f[j] <= f[i]
  <2>. HIDE DEF f
  <2>. QED  BY <1>1, <1>2, LargestValue
<1>. QED  BY <1>2, <1>3 DEF Latest

LEMMA GateLatestIsLatest ==
    ASSUME TypeOK, NEW k, Latest(k) # {}
    PROVE  GateLatest(k) \in Latest(k)
<1>1. Latest(k) \in SUBSET Nat
  BY RowType DEF Latest, OfKind
<1>2. \E i \in Latest(k) : \A j \in Latest(k) : i <= j
  BY <1>1, SmallestMember
<1>. QED  BY <1>2 DEF GateLatest

LEMMA NextRevisionIsNew ==
    ASSUME TypeOK, NEW k
    PROVE  /\ NextRevision(k) \in Nat
           /\ \A j \in OfKind(k) : arts[j].revision < NextRevision(k)
<1>1. CASE Latest(k) = {}
  BY <1>1, LatestExists DEF NextRevision
<1>2. CASE Latest(k) # {}
  <2>. DEFINE i == CHOOSE i \in Latest(k) : TRUE
  <2>1. i \in Latest(k)
    BY <1>2
  <2>2. NextRevision(k) = 1 + arts[i].revision
    BY <1>2 DEF NextRevision
  <2>. HIDE DEF i
  <2>. QED  BY <2>1, <2>2, RowType DEF Latest, OfKind
<1>. QED  BY <1>1, <1>2

----------------------------------------------------------------------------
(* Batches of a run.                                                       *)

LEMMA BatchType ==
    ASSUME NEW p
    PROVE  /\ Batch(p) \subseteq DOMAIN RequiredOutputs
           /\ Cardinality(Batch(p)) \in Nat
<1>1. RequiredOutputs \in Seq(STRING)
  BY ServiceAssumption
<1>2. Batch(p) \subseteq 1 .. Len(RequiredOutputs) /\ Len(RequiredOutputs) \in Nat
  BY <1>1 DEF Batch, Missing
<1>3. IsFiniteSet(1 .. Len(RequiredOutputs))
  BY <1>2, FS_Interval
<1>4. IsFiniteSet(Batch(p))
  BY <1>2, <1>3, FS_Subset
<1>. QED  BY <1>1, <1>2, <1>4, FS_CardinalityType

\* The revision a run has read for its first row is still the next one.
RevisionFresh(p) == proc[p].rev = NextRevision(RequiredOutputs[First(p)])

\* What a batch adds: rows of missing kinds, one of each.
LEMMA ProducedType ==
    ASSUME TypeOK, NEW p \in Proc, NEW order \in Orders(p)
    PROVE  /\ Produced(p, order) \in Seq(ArtifactRow)
           /\ Len(Produced(p, order)) = Cardinality(Batch(p))
           /\ \A n \in DOMAIN Produced(p, order) :
                  LET row == Produced(p, order)[n]
                  IN  /\ row.kind \in Required
                      /\ \A i \in proc[p].ids : arts[i].kind # row.kind
                      /\ row.revision \in Nat
                      /\ RevisionFresh(p) => row.revision = NextRevision(row.kind)
                      /\ row.producer = "adapter"
                      /\ row.status = "approved" => Approval = "none"
                      /\ row.status \in {"awaiting_review", "approved"}
                      /\ row.inputs = proc[p].ids
           /\ \A m, n \in DOMAIN Produced(p, order) :
                  Produced(p, order)[m].kind = Produced(p, order)[n].kind => m = n
<1>. DEFINE c == Cardinality(Batch(p))
            row(n) == LET k == RequiredOutputs[order[n]]
                      IN  Artifact(k, IF order[n] = First(p) THEN proc[p].rev
                                                             ELSE NextRevision(k),
                                   IF Approval = "before_publish"
                                   THEN "awaiting_review" ELSE "approved",
                                   "adapter", proc[p].ids)
<1>1. /\ RequiredOutputs \in Seq(STRING) /\ Approval \in {"none", "before_publish"}
      /\ \A m, n \in DOMAIN RequiredOutputs : RequiredOutputs[m] = RequiredOutputs[n] => m = n
  BY ServiceAssumption
<1>2. /\ c \in Nat /\ DOMAIN order = 1 .. c
      /\ \A n \in DOMAIN order : order[n] \in Batch(p)
      /\ \A m, n \in DOMAIN order : m < n => order[m] < order[n]
      /\ Produced(p, order) = [n \in 1 .. c |-> row(n)]
  BY BatchType DEF Orders, Produced
<1>3. ASSUME NEW n \in 1 .. c
      PROVE  /\ order[n] \in DOMAIN RequiredOutputs /\ order[n] \in Nat
             /\ RequiredOutputs[order[n]] \in Required
             /\ \A i \in proc[p].ids : arts[i].kind # RequiredOutputs[order[n]]
  <2>1. order[n] \in Missing(p)
    BY <1>2 DEF Batch
  <2>2. order[n] \in DOMAIN RequiredOutputs
    BY <2>1 DEF Missing
  <2>. QED  BY <1>1, <2>1, <2>2 DEF Missing, Required
<1>4. ASSUME NEW n \in 1 .. c
      PROVE  /\ row(n) \in ArtifactRow
             /\ row(n).kind = RequiredOutputs[order[n]]
             /\ row(n).revision \in Nat
             /\ RevisionFresh(p) => row(n).revision = NextRevision(row(n).kind)
             /\ row(n).producer = "adapter"
             /\ row(n).status = "approved" => Approval = "none"
             /\ row(n).status \in {"awaiting_review", "approved"}
             /\ row(n).inputs = proc[p].ids
  <2>. DEFINE k == RequiredOutputs[order[n]]
              rev == IF order[n] = First(p) THEN proc[p].rev ELSE NextRevision(k)
  <2>1. proc[p].ids \in SUBSET Nat /\ proc[p].rev \in Nat
    BY DEF TypeOK, Call
  <2>2. /\ rev \in Nat
        /\ RevisionFresh(p) => rev = NextRevision(k)
    BY <2>1, NextRevisionIsNew DEF RevisionFresh
  <2>3. row(n) = Artifact(k, rev, IF Approval = "before_publish"
                                  THEN "awaiting_review" ELSE "approved",
                          "adapter", proc[p].ids)
    OBVIOUS
  <2>. HIDE DEF rev, row
  <2>. QED  BY <1>1, <1>3, <2>1, <2>2, <2>3
       DEF Artifact, ArtifactRow, ArtifactStatus, Kind
<1>5. ASSUME NEW m \in 1 .. c, NEW n \in 1 .. c, row(m).kind = row(n).kind
      PROVE  m = n
  <2>1. order[m] = order[n]
    BY <1>1, <1>3, <1>4, <1>5
  <2>. QED  BY <1>2, <1>3, <2>1
<1>6. /\ [n \in 1 .. c |-> row(n)] \in Seq(ArtifactRow)
      /\ DOMAIN [n \in 1 .. c |-> row(n)] = 1 .. c
      /\ Len([n \in 1 .. c |-> row(n)]) = c
  <2>. HIDE DEF row
  <2>. QED  BY <1>2, <1>4
<1>7. \A n \in 1 .. c : Produced(p, order)[n] = row(n)
  <2>. HIDE DEF row
  <2>. QED  BY <1>2
<1>8. Len(Produced(p, order)) = Cardinality(Batch(p))
  BY <1>2, <1>6
<1>. HIDE DEF row, c
<1>. QED  BY <1>2, <1>3, <1>4, <1>5, <1>6, <1>7, <1>8

----------------------------------------------------------------------------
(* Type correctness.                                                       *)

LEMMA CallTypes ==
    ASSUME TypeOK, NEW p \in Proc
    PROVE  /\ proc[p] \in Call /\ proc[p].snap \in TaskRow
           /\ proc[p].ids \in SUBSET Nat /\ proc[p].clean \in SUBSET Nat
           /\ proc[p].ids \subseteq DOMAIN arts
           /\ proc[p].decision \in Decision /\ proc[p].rev \in Nat
<1>1. proc[p] \in Call
  BY DEF TypeOK
<1>. QED  BY <1>1 DEF Call, TypeOK

LEMMA IdleType ==
    /\ NoTask \in TaskRow
    /\ Idle \in Call /\ Idle.ids = {}
    /\ \A pc \in PC : [Idle EXCEPT !.pc = pc] \in Call /\ [Idle EXCEPT !.pc = pc].ids = {}
    /\ \A pc \in PC, row \in TaskRow :
           /\ [Idle EXCEPT !.pc = pc, !.snap = row] \in Call
           /\ [Idle EXCEPT !.pc = pc, !.snap = row].ids = {}
<1>1. NoTask \in TaskRow
  BY DEF NoTask, TaskRow, TaskStatus
<1>. QED  BY <1>1 DEF Idle, Call, PC, Decision

\* A step that leaves the types of the rows alone and puts p into a proper call.
LEMMA Kept ==
    ASSUME TypeOK,
           task' \in TaskRow, project' \in ProjectStatus,
           arts' \in Seq(ArtifactRow), DOMAIN arts \subseteq DOMAIN arts',
           Len(arts') <= MaxArtifacts,
           \A i \in DOMAIN arts' : arts'[i].inputs \subseteq DOMAIN arts',
           approvals' \subseteq DOMAIN arts',
           NEW p \in Proc, NEW c \in Call, c.ids \subseteq DOMAIN arts',
           proc' = [proc EXCEPT ![p] = c]
    PROVE  TypeOK'
<1>1. proc' \in [Proc -> Call]
  BY DEF TypeOK
<1>2. ASSUME NEW q \in Proc
      PROVE  proc'[q].ids \subseteq DOMAIN arts'
  BY DEF TypeOK
<1>. QED  BY <1>1, <1>2 DEF TypeOK

LEMMA KeptRows ==
    ASSUME TypeOK, UNCHANGED rows,
           NEW p \in Proc, NEW c \in Call, c.ids \subseteq DOMAIN arts,
           proc' = [proc EXCEPT ![p] = c]
    PROVE  TypeOK'
<1>1. /\ task' \in TaskRow /\ project' \in ProjectStatus /\ arts' = arts
      /\ arts' \in Seq(ArtifactRow) /\ Len(arts') <= MaxArtifacts /\ approvals' \subseteq DOMAIN arts'
      /\ \A i \in DOMAIN arts' : arts'[i].inputs \subseteq DOMAIN arts'
  BY DEF TypeOK, rows
<1>. QED  BY <1>1, Kept

\* A method that ends, or that begins by reading columns of the task row.
LEMMA EndType ==
    ASSUME TypeOK, task' \in TaskRow, project' \in ProjectStatus,
           arts' \in Seq(ArtifactRow), DOMAIN arts \subseteq DOMAIN arts',
           Len(arts') <= MaxArtifacts,
           \A i \in DOMAIN arts' : arts'[i].inputs \subseteq DOMAIN arts',
           approvals' \subseteq DOMAIN arts',
           NEW p \in Proc, Returns(p) \/ Raises(p)
    PROVE  TypeOK'
<1>1. "returned" \in PC /\ "raised" \in PC
  BY DEF PC
<1>2. PICK pc \in PC : proc' = [proc EXCEPT ![p] = [Idle EXCEPT !.pc = pc]]
  BY <1>1 DEF Returns, Raises
<1>. DEFINE c == [Idle EXCEPT !.pc = pc]
<1>3. c \in Call /\ c.ids = {} /\ proc' = [proc EXCEPT ![p] = c]
  BY <1>2, IdleType
<1>. HIDE DEF c
<1>. QED  BY <1>3, Kept

LEMMA TablesType ==
    ASSUME TypeOK
    PROVE  /\ task \in TaskRow /\ project \in ProjectStatus /\ arts \in Seq(ArtifactRow)
           /\ DOMAIN arts \subseteq DOMAIN arts /\ approvals \subseteq DOMAIN arts
           /\ Len(arts) <= MaxArtifacts /\ Len(arts) \in Nat
           /\ \A i \in DOMAIN arts : arts[i].inputs \subseteq DOMAIN arts
           /\ task.status \in TaskStatus /\ task.attempt \in Nat /\ task.error \in BOOLEAN
           /\ Status \in TaskRow /\ Error \in TaskRow
           /\ Status.status = task.status /\ Error.error = task.error
<1>1. arts \in Seq(ArtifactRow) /\ Len(arts) <= MaxArtifacts /\ Len(arts) \in Nat
  BY DEF TypeOK
<1>. QED  BY <1>1 DEF TypeOK, TaskRow, Status, Error, NoTask, TaskStatus

LEMMA StatusType ==
    ASSUME NEW row \in TaskRow, NEW s \in TaskStatus, NEW e \in BOOLEAN
    PROVE  /\ [row EXCEPT !.status = s] \in TaskRow
           /\ [row EXCEPT !.status = s].status = s
           /\ [row EXCEPT !.status = s].error = row.error
           /\ [row EXCEPT !.status = s, !.error = e] \in TaskRow
           /\ [row EXCEPT !.status = s, !.error = e].status = s
BY DEF TaskRow

\* One more row, on rows that did not change.
LEMMA AppendType ==
    ASSUME TypeOK, NEW row \in ArtifactRow, row.inputs \subseteq DOMAIN arts,
           arts' = Append(arts, row)
    PROVE  /\ arts' \in Seq(ArtifactRow) /\ DOMAIN arts \subseteq DOMAIN arts'
           /\ \A i \in DOMAIN arts' : arts'[i].inputs \subseteq DOMAIN arts'
           /\ DOMAIN arts' = DOMAIN arts \cup {Len(arts) + 1}
           /\ Len(arts') = Len(arts) + 1
           /\ Len(arts) + 1 \notin DOMAIN arts
           /\ arts'[Len(arts) + 1] = row
           /\ \A i \in DOMAIN arts : arts'[i] = arts[i]
BY DEF TypeOK

\* Rows of which only the status may have changed.
LEMMA RestatedType ==
    ASSUME TypeOK, NEW rows2, rows2 = [i \in DOMAIN arts |-> rows2[i]],
           \A i \in DOMAIN arts :
               rows2[i] = arts[i] \/ \E s \in ArtifactStatus : rows2[i] = [arts[i] EXCEPT !.status = s]
    PROVE  /\ rows2 \in Seq(ArtifactRow) /\ Len(rows2) = Len(arts)
           /\ \A i \in DOMAIN arts : /\ rows2[i].kind = arts[i].kind
                                     /\ rows2[i].revision = arts[i].revision
                                     /\ rows2[i].producer = arts[i].producer
                                     /\ rows2[i].inputs = arts[i].inputs
<1>1. DOMAIN arts = 1 .. Len(arts) /\ Len(arts) \in Nat
  BY DEF TypeOK
<1>2. ASSUME NEW i \in DOMAIN arts
      PROVE  /\ rows2[i] \in ArtifactRow
             /\ rows2[i].kind = arts[i].kind /\ rows2[i].revision = arts[i].revision
             /\ rows2[i].producer = arts[i].producer /\ rows2[i].inputs = arts[i].inputs
  <2>1. arts[i] \in ArtifactRow
    BY RowType
  <2>. QED  BY <2>1 DEF ArtifactRow
<1>. QED  BY <1>1, <1>2

LEMMA RunType ==
    ASSUME TypeOK, NEW p \in Proc, run_read(p) \/ RunStep(p)
    PROVE  TypeOK'
<1>0. proc[p] \in Call /\ proc[p].snap \in TaskRow
  BY CallTypes
<1>1. CASE run_read(p)
  <2>. DEFINE c == [Idle EXCEPT !.pc = "run_start", !.snap = task]
  <2>1. c \in Call /\ c.ids = {}
    BY TablesType, IdleType DEF PC
  <2>2. UNCHANGED rows /\ (Raises(p) \/ proc' = [proc EXCEPT ![p] = c])
    BY <1>1 DEF run_read, Begin
  <2>. HIDE DEF c
  <2>. QED  BY <2>1, <2>2, KeptRows, EndType, TablesType DEF rows
<1>2. CASE run_start(p)
  <2>1. task' \in TaskRow /\ project' \in ProjectStatus /\ UNCHANGED <<arts, approvals>>
    <3>1. "running" \in TaskStatus /\ "running" \in ProjectStatus
      BY DEF TaskStatus, ProjectStatus
    <3>2. /\ Assign(proc[p].snap.status, task.status, "running") \in TaskStatus
          /\ Assign(proc[p].snap.error, task.error, FALSE) \in BOOLEAN
      BY <3>1, TablesType DEF Assign
    <3>3. proc[p].snap.attempt + 1 \in Nat
      BY <1>0 DEF TaskRow
    <3>. QED  BY <1>2, <3>1, <3>2, <3>3 DEF run_start, TaskRow
  <2>. DEFINE c == [proc[p] EXCEPT !.pc = "run_scan"]
  <2>2. c \in Call /\ c.ids = proc[p].ids /\ proc' = [proc EXCEPT ![p] = c]
    BY <1>0, <1>2 DEF run_start, Call, PC
  <2>. HIDE DEF c
  <2>. QED  BY <2>1, <2>2, Kept, TablesType, CallTypes
<1>3. CASE run_scan(p)
  <2>. DEFINE c == [proc[p] EXCEPT !.pc = "run_produce", !.ids = DOMAIN arts]
  <2>1. DOMAIN arts \in SUBSET Nat
    BY RowType
  <2>2. c \in Call /\ c.ids = DOMAIN arts /\ proc' = [proc EXCEPT ![p] = c]
    BY <1>0, <1>3, <2>1 DEF run_scan, Call, PC
  <2>. HIDE DEF c
  <2>. QED  BY <1>3, <2>2, KeptRows DEF run_scan
<1>7. CASE run_revision(p)
  <2>. DEFINE rev == NextRevision(RequiredOutputs[First(p)])
              c == [proc[p] EXCEPT !.rev = rev]
  <2>1. rev \in Nat
    BY NextRevisionIsNew
  <2>2. proc' = [proc EXCEPT ![p] = c] /\ UNCHANGED rows
    BY <1>0, <1>7 DEF run_revision
  <2>. HIDE DEF rev
  <2>3. c \in Call /\ c.ids = proc[p].ids
    BY <1>0, <2>1 DEF Call
  <2>. HIDE DEF c
  <2>. QED  BY <2>2, <2>3, KeptRows, CallTypes
<1>4. CASE run_produce(p)
  <2>1. PICK order \in Orders(p) : arts' = arts \o Produced(p, order)
    BY <1>4 DEF run_produce
  <2>. DEFINE t == Produced(p, order)
              c == [proc[p] EXCEPT !.ids = @ \cup (DOMAIN arts' \ DOMAIN arts), !.rev = 0]
  <2>2. /\ t \in Seq(ArtifactRow) /\ \A n \in DOMAIN t : t[n].inputs = proc[p].ids
        /\ Len(arts) + Len(t) <= MaxArtifacts
    BY <1>4, ProducedType DEF run_produce
  <2>3. arts \in Seq(ArtifactRow) /\ arts' = arts \o t
    BY <2>1, TablesType
  <2>4. /\ arts' \in Seq(ArtifactRow) /\ DOMAIN arts \subseteq DOMAIN arts'
        /\ Len(arts') <= MaxArtifacts
        /\ \A i \in DOMAIN arts : arts'[i] = arts[i]
        /\ \A i \in DOMAIN arts' \ DOMAIN arts : arts'[i].inputs = proc[p].ids
    <3>. HIDE DEF t
    <3>. QED  BY <2>2, <2>3, Grown
  <2>5. \A i \in DOMAIN arts' : arts'[i].inputs \subseteq DOMAIN arts'
    BY <2>4, TablesType, CallTypes
  <2>6. DOMAIN arts' \in SUBSET Nat
    BY <2>4
  <2>7. /\ c \in Call /\ c.ids \subseteq DOMAIN arts'
        /\ proc' = [proc EXCEPT ![p] = c]
        /\ UNCHANGED <<task, project, approvals>>
    BY <1>0, <1>4, <2>4, <2>6, CallTypes DEF run_produce, Call
  <2>. HIDE DEF c
  <2>. QED  BY <2>4, <2>5, <2>7, Kept, TablesType
<1>5. CASE run_settle(p)
  <2>1. /\ "waiting_approval" \in TaskStatus \cap ProjectStatus
        /\ "succeeded" \in TaskStatus \cap ProjectStatus
    BY DEF TaskStatus, ProjectStatus
  <2>2. PICK st \in TaskStatus \cap ProjectStatus :
            task' = [task EXCEPT !.status = st] /\ project' = task'.status
    BY <1>5, <2>1 DEF run_settle
  <2>3. task' \in TaskRow /\ project' \in ProjectStatus
    BY <2>2, TablesType, StatusType
  <2>. QED  BY <1>5, <2>3, EndType, TablesType DEF run_settle
<1>6. CASE run_fail(p)
  <2>1. task' \in TaskRow /\ project' \in ProjectStatus
    BY <1>6, TablesType, StatusType DEF run_fail, TaskStatus, ProjectStatus
  <2>. QED  BY <1>6, <2>1, EndType, TablesType DEF run_fail
<1>. QED  BY <1>1, <1>2, <1>3, <1>4, <1>5, <1>6, <1>7 DEF RunStep

LEMMA ReviewType ==
    ASSUME TypeOK, NEW p \in Proc,
           \/ \E i \in DOMAIN arts : revise_read(p, i)
           \/ revise_commit(p)
           \/ \E ids \in SUBSET DOMAIN arts, d \in Decision : approve_read(p, ids, d)
           \/ approve_commit(p)
    PROVE  TypeOK'
<1>0. /\ proc[p] \in Call /\ proc[p].snap \in TaskRow
      /\ "waiting_approval" \in TaskStatus \cap ProjectStatus
      /\ {"blocked", "succeeded"} \subseteq TaskStatus /\ "approved" \in ProjectStatus
  BY CallTypes DEF TaskStatus, ProjectStatus
<1>1. ASSUME NEW st \in TaskStatus,
             task' = [task EXCEPT !.status = Assign(proc[p].snap.status, @, st)]
      PROVE  task' \in TaskRow
  BY <1>1, TablesType, StatusType DEF Assign
<1>2. ASSUME NEW i \in DOMAIN arts, revise_read(p, i)
      PROVE  TypeOK'
  <2>. DEFINE c == [Idle EXCEPT !.pc = "revise", !.snap = Status, !.ids = {i},
                                !.clean = {j \in {i} : arts[j].status = "superseded"}]
  <2>1. c \in Call /\ c.ids = {i}
    <3>. DEFINE clean == {j \in {i} : arts[j].status = "superseded"}
    <3>1. /\ "revise" \in PC /\ Status \in TaskRow /\ {i} \in SUBSET Nat
          /\ clean \in SUBSET Nat
      BY TablesType, RowType DEF PC
    <3>2. c = [Idle EXCEPT !.pc = "revise", !.snap = Status, !.ids = {i}, !.clean = clean]
      OBVIOUS
    <3>3. "approve" \in Decision
      BY DEF Decision
    <3>. HIDE DEF clean
    <3>. QED  BY <3>1, <3>2, <3>3 DEF Idle, Call
  <2>2. UNCHANGED rows /\ (Raises(p) \/ proc' = [proc EXCEPT ![p] = c])
    BY <1>2 DEF revise_read
  <2>. HIDE DEF c
  <2>. QED  BY <2>1, <2>2, KeptRows, EndType, TablesType DEF rows
<1>3. CASE revise_commit(p)
  <2>1. PICK i \in proc[p].ids :
            arts' = Append([arts EXCEPT ![i].status = IF i \in proc[p].clean
                                                      THEN @ ELSE "superseded"],
                           Artifact(arts[i].kind, arts[i].revision + 1,
                                    "awaiting_review", "human_review", {i}))
    BY <1>3 DEF revise_commit
  <2>. DEFINE old == [arts EXCEPT ![i].status = IF i \in proc[p].clean
                                                THEN @ ELSE "superseded"]
              row == Artifact(arts[i].kind, arts[i].revision + 1,
                              "awaiting_review", "human_review", {i})
  <2>2. i \in DOMAIN arts /\ row \in ArtifactRow /\ row.inputs = {i}
    BY CallTypes, RowType DEF Artifact, ArtifactRow, ArtifactStatus
  <2>3. /\ old \in Seq(ArtifactRow) /\ DOMAIN old = DOMAIN arts
        /\ Len(old) = Len(arts)
        /\ \A j \in DOMAIN arts : old[j].inputs = arts[j].inputs
    <3>1. DOMAIN old = DOMAIN arts /\ old = [j \in DOMAIN arts |-> old[j]]
      OBVIOUS
    <3>2. ASSUME NEW j \in DOMAIN arts
          PROVE  old[j] = arts[j] \/ \E s \in ArtifactStatus : old[j] = [arts[j] EXCEPT !.status = s]
      <4>1. arts[j].status \in ArtifactStatus /\ "superseded" \in ArtifactStatus
        BY RowType DEF ArtifactStatus
      <4>. QED  BY <2>2, <4>1
    <3>. HIDE DEF old
    <3>. QED  BY <3>1, <3>2, RestatedType
  <2>4. arts' = Append(old, row)
    BY <2>1
  <2>5. /\ arts' \in Seq(ArtifactRow) /\ DOMAIN arts \subseteq DOMAIN arts'
        /\ Len(arts') <= MaxArtifacts
        /\ \A j \in DOMAIN arts' : arts'[j].inputs \subseteq DOMAIN arts'
    <3>1. \A j \in DOMAIN arts : old[j].inputs \subseteq DOMAIN arts
      BY <2>3, TablesType
    <3>2. Len(arts) < MaxArtifacts /\ Len(arts) \in Nat /\ MaxArtifacts \in Nat
      BY <1>3, TablesType, ServiceAssumption DEF revise_commit
    <3>. HIDE DEF old, row
    <3>. QED  BY <2>2, <2>3, <2>4, <3>1, <3>2
  <2>6. task' \in TaskRow /\ project' \in ProjectStatus /\ approvals' = approvals
    BY <1>0, <1>1, <1>3 DEF revise_commit
  <2>. QED  BY <1>3, <2>5, <2>6, EndType, TablesType DEF revise_commit
<1>4. ASSUME NEW ids \in SUBSET DOMAIN arts, NEW d \in Decision, approve_read(p, ids, d)
      PROVE  TypeOK'
  <2>. DEFINE c == [Idle EXCEPT !.pc = "approve", !.snap = Status, !.ids = ids,
                                !.clean = {i \in ids : arts[i].status = Verdict(d)},
                                !.decision = d]
  <2>0. ids \in SUBSET Nat
    BY RowType
  <2>1. c \in Call /\ c.ids = ids
    <3>. DEFINE clean == {i \in ids : arts[i].status = Verdict(d)}
    <3>1. "approve" \in PC /\ Status \in TaskRow /\ clean \in SUBSET Nat
      BY <2>0, TablesType DEF PC
    <3>2. c = [Idle EXCEPT !.pc = "approve", !.snap = Status, !.ids = ids,
                           !.clean = clean, !.decision = d]
      OBVIOUS
    <3>. HIDE DEF clean
    <3>. QED  BY <2>0, <3>1, <3>2 DEF Idle, Call
  <2>2. UNCHANGED rows /\ proc' = [proc EXCEPT ![p] = c]
    BY <1>4 DEF approve_read
  <2>. HIDE DEF c
  <2>. QED  BY <2>1, <2>2, KeptRows
<1>5. CASE approve_commit(p)
  <2>1. /\ arts' \in Seq(ArtifactRow) /\ DOMAIN arts' = DOMAIN arts
        /\ Len(arts') = Len(arts)
        /\ \A j \in DOMAIN arts : arts'[j].inputs = arts[j].inputs
    <3>1. arts' = [i \in DOMAIN arts |->
                      IF i \in proc[p].ids \ proc[p].clean
                      THEN [arts[i] EXCEPT !.status = Verdict(proc[p].decision)] ELSE arts[i]]
      BY <1>5 DEF approve_commit
    <3>2. /\ DOMAIN arts' = DOMAIN arts /\ arts' = [i \in DOMAIN arts |-> arts'[i]]
          /\ \A i \in DOMAIN arts : \/ arts'[i] = arts[i]
                                    \/ arts'[i] = [arts[i] EXCEPT !.status = Verdict(proc[p].decision)]
      BY <3>1
    <3>3. Verdict(proc[p].decision) \in ArtifactStatus
      BY DEF Verdict, ArtifactStatus
    <3>. QED  BY <3>2, <3>3, RestatedType
  <2>2. task' \in TaskRow /\ project' \in ProjectStatus /\ approvals' \subseteq DOMAIN arts
    BY <1>0, <1>1, <1>5, TablesType, CallTypes DEF approve_commit
  <2>. QED  BY <1>5, <2>1, <2>2, EndType, TablesType DEF approve_commit
<1>. QED  BY <1>2, <1>3, <1>4, <1>5

LEMMA ReleaseType ==
    ASSUME TypeOK, NEW p \in Proc,
           release_status(p) \/ release_read(p) \/ release_revision(p) \/ release_write(p)
    PROVE  TypeOK'
<1>0. proc[p] \in Call /\ {"release_read", "release_write"} \subseteq PC
  BY CallTypes DEF PC
<1>1. CASE release_status(p)
  BY <1>0, <1>1, IdleType, KeptRows, TablesType DEF release_status, Begin
<1>2. CASE release_read(p)
  <2>1. CASE Raises(p)
    BY <1>2, <2>1, EndType, TablesType DEF release_read, rows
  <2>2. CASE GateAllows(proc[p].snap.status)
    <3>. DEFINE c == [proc[p] EXCEPT !.pc = "release_write", !.ids = Selected]
    <3>1. Selected \subseteq DOMAIN arts
      <4>1. \A k \in Required : GateLatest(k) \in Latest(k)
        BY <2>2, GateLatestIsLatest DEF GateAllows
      <4>. QED  BY <4>1 DEF Selected, Latest, OfKind
    <3>2. Selected \in SUBSET Nat
      BY <3>1, RowType
    <3>3. c \in Call /\ c.ids = Selected /\ proc' = [proc EXCEPT ![p] = c]
      BY <1>0, <1>2, <2>2, <3>2 DEF release_read, Call
    <3>. HIDE DEF c
    <3>. QED  BY <1>2, <3>1, <3>3, KeptRows DEF release_read
  <2>. QED  BY <1>2, <2>1, <2>2 DEF release_read
<1>3. CASE release_write(p)
  <2>. DEFINE row == Artifact("release", proc[p].rev, "released", "onebridge", proc[p].ids)
  <2>0. /\ proc[p].rev \in Nat /\ "released" \in ArtifactStatus
        /\ proc[p].ids \in SUBSET Nat /\ proc[p].ids \subseteq DOMAIN arts
    BY CallTypes DEF ArtifactStatus
  <2>1. row \in ArtifactRow /\ row.inputs \subseteq DOMAIN arts
    <3>. DEFINE rev == proc[p].rev
                in == proc[p].ids
    <3>1. row = [kind |-> "release", revision |-> rev, status |-> "released",
                 producer |-> "onebridge", inputs |-> in]
      BY DEF Artifact
    <3>2. rev \in Nat /\ in \in SUBSET Nat /\ in \subseteq DOMAIN arts
      BY <2>0
    <3>3. "release" \in Kind
      BY DEF Kind
    <3>. HIDE DEF row, rev, in
    <3>. QED  BY <2>0, <3>1, <3>2, <3>3 DEF ArtifactRow
  <2>2. arts' = Append(arts, row) /\ project' \in ProjectStatus
    BY <1>3 DEF release_write, ProjectStatus
  <2>3. Len(arts) + 1 <= MaxArtifacts
    BY <1>3, TablesType, ServiceAssumption DEF release_write
  <2>. HIDE DEF row
  <2>. QED  BY <1>3, <2>1, <2>2, <2>3, AppendType, EndType, TablesType DEF release_write
<1>4. CASE release_revision(p)
  <2>. DEFINE rev == NextRevision("release")
              c == [proc[p] EXCEPT !.rev = rev]
  <2>1. rev \in Nat
    BY NextRevisionIsNew
  <2>2. proc' = [proc EXCEPT ![p] = c] /\ UNCHANGED rows
    BY <1>0, <1>4 DEF release_revision
  <2>. HIDE DEF rev
  <2>3. c \in Call /\ c.ids = proc[p].ids
    BY <1>0, <2>1 DEF Call
  <2>. HIDE DEF c
  <2>. QED  BY <2>2, <2>3, KeptRows, CallTypes
<1>. QED  BY <1>1, <1>2, <1>3, <1>4

LEMMA OtherType ==
    ASSUME TypeOK, NEW p \in Proc,
           \/ submit(p) \/ retry_read(p) \/ retry_commit(p) \/ cancel_read(p) \/ cancel_commit(p)
           \/ session_fails(p) \/ durable_raise(p) \/ Done(p) \/ Crash(p)
    PROVE  TypeOK'
<1>0. /\ {"queued", "cancelled"} \subseteq TaskStatus
      /\ {"received", "planned", "cancelled"} \subseteq ProjectStatus
      /\ {"retry", "cancel", "raised"} \subseteq PC
      /\ NoTask \in TaskRow
  BY IdleType DEF TaskStatus, ProjectStatus, PC
<1>1. CASE submit(p)
  BY <1>0, <1>1, EndType, TablesType, StatusType DEF submit
<1>2. CASE retry_read(p) \/ cancel_read(p)
  <2>1. UNCHANGED rows /\ (\/ Returns(p) \/ Raises(p)
                           \/ \E pc \in PC, row \in TaskRow : Begin(p, pc, row))
    BY <1>0, <1>2, TablesType DEF retry_read, cancel_read
  <2>. QED  BY <2>1, IdleType, KeptRows, EndType, TablesType DEF Begin, rows
<1>3. CASE retry_commit(p)
  <2>1. Assign(proc[p].snap.error, task.error, FALSE) \in BOOLEAN
    BY TablesType DEF Assign
  <2>2. task' \in TaskRow /\ project' \in ProjectStatus
    BY <1>0, <1>3, <2>1, TablesType, StatusType DEF retry_commit
  <2>. QED  BY <1>3, <2>2, EndType, TablesType DEF retry_commit
<1>4. CASE cancel_commit(p)
  BY <1>0, <1>4, EndType, TablesType, StatusType DEF cancel_commit
<1>5. CASE session_fails(p)
  BY <1>5, EndType, TablesType DEF session_fails, rows
<1>6. CASE durable_raise(p)
  <2>. DEFINE c == [proc[p] EXCEPT !.pc = "raised"]
  <2>1. c \in Call /\ c.ids = proc[p].ids
    BY <1>0, CallTypes DEF Call
  <2>2. proc' = [proc EXCEPT ![p] = c] /\ UNCHANGED rows
    BY <1>6 DEF durable_raise
  <2>. HIDE DEF c
  <2>. QED  BY <2>1, <2>2, KeptRows, CallTypes
<1>7. CASE Done(p) \/ Crash(p)
  BY <1>7, IdleType, KeptRows DEF Done, Crash
<1>. QED  BY <1>1, <1>2, <1>3, <1>4, <1>5, <1>6, <1>7

\* Every row and every call is of its type, and calls and lineage refer to artifacts
\* that exist, however the calls overlap.
THEOREM TypeCorrect == Spec => []TypeOK
<1>1. Init => TypeOK
  <2>. SUFFICES ASSUME Init PROVE TypeOK
    OBVIOUS
  <2>1. task \in TaskRow /\ project \in ProjectStatus
    BY IdleType DEF Init, ProjectStatus
  <2>2. /\ arts \in Seq(ArtifactRow) /\ DOMAIN arts = {} /\ approvals \subseteq DOMAIN arts
        /\ Len(arts) <= MaxArtifacts
    BY ServiceAssumption DEF Init
  <2>3. proc \in [Proc -> Call] /\ \A p \in Proc : proc[p].ids = {}
    BY IdleType DEF Init
  <2>. QED  BY <2>1, <2>2, <2>3 DEF TypeOK
<1>2. TypeOK /\ [Next]_vars => TypeOK'
  <2>. SUFFICES ASSUME TypeOK, [Next]_vars
                PROVE  TypeOK'
    OBVIOUS
  <2>1. CASE UNCHANGED vars
    BY <2>1 DEF vars, TypeOK
  <2>2. ASSUME NEW p \in Runner, run_read(p) \/ RunStep(p)
        PROVE  TypeOK'
    BY <2>2, RunType DEF Proc
  <2>3. ASSUME NEW p \in Caller, CallBegin(p)
        PROVE  TypeOK'
    BY <2>3, ReviewType, ReleaseType, OtherType DEF CallBegin, Proc
  <2>4. ASSUME NEW p \in Caller, CallStep(p)
        PROVE  TypeOK'
    BY <2>4, ReviewType, ReleaseType, OtherType DEF CallStep, Proc
  <2>5. ASSUME NEW p \in Proc, session_fails(p) \/ durable_raise(p) \/ Done(p) \/ Crash(p)
        PROVE  TypeOK'
    BY <2>5, OtherType
  <2>. QED  BY <2>1, <2>2, <2>3, <2>4, <2>5 DEF Next
<1>. QED  BY <1>1, <1>2, PTL DEF Spec

----------------------------------------------------------------------------
(* What the steps do to the artifacts.  Four of them write artifact rows.   *)

\* Everything about an artifact but its status stands.
Stands(i) ==
    /\ i \in DOMAIN arts'
    /\ arts'[i].kind = arts[i].kind
    /\ arts'[i].revision = arts[i].revision
    /\ arts'[i].producer = arts[i].producer
    /\ arts'[i].inputs = arts[i].inputs

LEMMA ProduceRows ==
    ASSUME TypeOK, NEW p \in Proc, run_produce(p)
    PROVE  /\ \A i \in DOMAIN arts : i \in DOMAIN arts' /\ arts'[i] = arts[i]
           /\ \A i \in DOMAIN arts' \ DOMAIN arts :
                  /\ arts'[i].kind \in Required
                  /\ \A j \in proc[p].ids : arts[j].kind # arts'[i].kind
                  /\ RevisionFresh(p) => arts'[i].revision = NextRevision(arts'[i].kind)
                  /\ arts'[i].producer = "adapter"
                  /\ arts'[i].status = "approved" => Approval = "none"
                  /\ arts'[i].status \in {"awaiting_review", "approved"}
           /\ \A i, j \in DOMAIN arts' \ DOMAIN arts : arts'[i].kind = arts'[j].kind => i = j
           /\ UNCHANGED <<task, project, approvals>>
<1>1. PICK order \in Orders(p) : arts' = arts \o Produced(p, order)
  BY DEF run_produce
<1>. DEFINE t == Produced(p, order)
<1>2. /\ t \in Seq(ArtifactRow) /\ arts \in Seq(ArtifactRow) /\ arts' = arts \o t
  BY <1>1, ProducedType, TablesType
<1>3. /\ \A n \in DOMAIN t :
             /\ t[n].kind \in Required
             /\ \A i \in proc[p].ids : arts[i].kind # t[n].kind
             /\ RevisionFresh(p) => t[n].revision = NextRevision(t[n].kind)
             /\ t[n].producer = "adapter"
             /\ t[n].status = "approved" => Approval = "none"
             /\ t[n].status \in {"awaiting_review", "approved"}
      /\ \A m, n \in DOMAIN t : t[m].kind = t[n].kind => m = n
  BY ProducedType
<1>. HIDE DEF t
<1>4. /\ \A i \in DOMAIN arts : i \in DOMAIN arts' /\ arts'[i] = arts[i]
      /\ \A i \in DOMAIN arts' \ DOMAIN arts :
             i - Len(arts) \in DOMAIN t /\ arts'[i] = t[i - Len(arts)]
  BY <1>2, Grown
<1>5. ASSUME NEW i \in DOMAIN arts' \ DOMAIN arts, NEW j \in DOMAIN arts' \ DOMAIN arts,
             arts'[i].kind = arts'[j].kind
      PROVE  i = j
  <2>1. i - Len(arts) = j - Len(arts)
    BY <1>3, <1>4, <1>5
  <2>2. i \in Int /\ j \in Int /\ Len(arts) \in Int
    BY <1>2
  <2>. QED  BY <2>1, <2>2
<1>. QED  BY <1>3, <1>4, <1>5 DEF run_produce

LEMMA ReviseRows ==
    ASSUME TypeOK, NEW p \in Proc, revise_commit(p)
    PROVE  \E j \in proc[p].ids :
               /\ j \in DOMAIN arts
               /\ \A i \in DOMAIN arts : Stands(i)
               /\ \A i \in DOMAIN arts : arts'[i].status \in {arts[i].status, "superseded"}
               /\ DOMAIN arts' = DOMAIN arts \cup {Len(arts) + 1}
               /\ Len(arts) + 1 \notin DOMAIN arts
               /\ \A i \in DOMAIN arts' \ DOMAIN arts :
                      /\ arts'[i].kind = arts[j].kind
                      /\ arts'[i].revision = arts[j].revision + 1
                      /\ arts'[i].status = "awaiting_review"
                      /\ arts'[i].producer = "human_review"
<1>1. PICK j \in proc[p].ids :
          arts' = Append([arts EXCEPT ![j].status = IF j \in proc[p].clean
                                                    THEN @ ELSE "superseded"],
                         Artifact(arts[j].kind, arts[j].revision + 1,
                                  "awaiting_review", "human_review", {j}))
  BY DEF revise_commit
<1>. DEFINE old == [arts EXCEPT ![j].status = IF j \in proc[p].clean THEN @ ELSE "superseded"]
            row == Artifact(arts[j].kind, arts[j].revision + 1,
                            "awaiting_review", "human_review", {j})
<1>2. j \in DOMAIN arts /\ Len(arts) \in Nat /\ DOMAIN arts = 1 .. Len(arts)
  BY CallTypes, TablesType
<1>3. ASSUME NEW i \in DOMAIN arts
      PROVE  \/ old[i] = arts[i]
             \/ \E s \in {arts[i].status, "superseded"} : old[i] = [arts[i] EXCEPT !.status = s]
  BY <1>2
<1>4. old = [i \in DOMAIN arts |-> old[i]]
  OBVIOUS
<1>5. ASSUME NEW i \in DOMAIN arts
      PROVE  /\ old[i].kind = arts[i].kind /\ old[i].revision = arts[i].revision
             /\ old[i].producer = arts[i].producer /\ old[i].inputs = arts[i].inputs
             /\ old[i].status \in {arts[i].status, "superseded"}
  <2>1. arts[i] \in ArtifactRow
    BY RowType
  <2>. HIDE DEF old
  <2>2. CASE old[i] = arts[i]
    BY <2>2
  <2>3. ASSUME NEW s \in {arts[i].status, "superseded"}, old[i] = [arts[i] EXCEPT !.status = s]
        PROVE  /\ old[i].kind = arts[i].kind /\ old[i].revision = arts[i].revision
               /\ old[i].producer = arts[i].producer /\ old[i].inputs = arts[i].inputs
               /\ old[i].status = s
    BY <2>1, <2>3 DEF ArtifactRow
  <2>. QED  BY <1>3, <2>2, <2>3
<1>6. old \in Seq(ArtifactRow) /\ Len(old) = Len(arts)
  <2>1. \A i \in DOMAIN arts : {arts[i].status, "superseded"} \subseteq ArtifactStatus
    BY RowType DEF ArtifactStatus
  <2>. HIDE DEF old
  <2>. QED  BY <1>3, <1>4, <2>1, RestatedType
<1>7. arts' = Append(old, row)
  BY <1>1
<1>8. /\ DOMAIN arts' = DOMAIN arts \cup {Len(arts) + 1}
      /\ Len(arts) + 1 \notin DOMAIN arts
      /\ arts'[Len(arts) + 1] = row
      /\ \A i \in DOMAIN arts : arts'[i] = old[i]
  <2>. HIDE DEF old, row
  <2>. QED  BY <1>2, <1>6, <1>7
<1>9. /\ row.kind = arts[j].kind /\ row.revision = arts[j].revision + 1
      /\ row.status = "awaiting_review" /\ row.producer = "human_review"
  BY DEF Artifact
<1>. HIDE DEF old, row
<1>. QED  BY <1>2, <1>5, <1>8, <1>9 DEF Stands

LEMMA ApproveRows ==
    ASSUME TypeOK, NEW p \in Proc, approve_commit(p)
    PROVE  /\ DOMAIN arts' = DOMAIN arts
           /\ \A i \in DOMAIN arts : Stands(i)
           /\ \A i \in DOMAIN arts :
                  arts'[i].status = IF i \in proc[p].ids \ proc[p].clean
                                    THEN Verdict(proc[p].decision) ELSE arts[i].status
<1>1. arts' = [i \in DOMAIN arts |->
                  IF i \in proc[p].ids \ proc[p].clean
                  THEN [arts[i] EXCEPT !.status = Verdict(proc[p].decision)] ELSE arts[i]]
  BY DEF approve_commit
<1>2. DOMAIN arts' = DOMAIN arts
  BY <1>1
<1>3. ASSUME NEW i \in DOMAIN arts
      PROVE  /\ Stands(i)
             /\ arts'[i].status = IF i \in proc[p].ids \ proc[p].clean
                                  THEN Verdict(proc[p].decision) ELSE arts[i].status
  <2>1. arts[i] \in ArtifactRow
    BY RowType
  <2>2. arts'[i] = IF i \in proc[p].ids \ proc[p].clean
                   THEN [arts[i] EXCEPT !.status = Verdict(proc[p].decision)] ELSE arts[i]
    BY <1>1
  <2>. QED  BY <1>2, <2>1, <2>2 DEF Stands, ArtifactRow
<1>. QED  BY <1>2, <1>3

LEMMA ReleaseRows ==
    ASSUME TypeOK, NEW p \in Proc, release_write(p)
    PROVE  /\ \A i \in DOMAIN arts : i \in DOMAIN arts' /\ arts'[i] = arts[i]
           /\ DOMAIN arts' = DOMAIN arts \cup {Len(arts) + 1}
           /\ Len(arts) + 1 \notin DOMAIN arts
           /\ \A i \in DOMAIN arts' \ DOMAIN arts :
                  /\ arts'[i].kind = "release"
                  /\ arts'[i].revision = proc[p].rev
                  /\ arts'[i].status = "released"
                  /\ arts'[i].producer = "onebridge"
                  /\ arts'[i].inputs = proc[p].ids
<1>. DEFINE row == Artifact("release", proc[p].rev, "released", "onebridge", proc[p].ids)
<1>1. arts' = Append(arts, row) /\ arts \in Seq(ArtifactRow)
  BY TablesType DEF release_write
<1>. HIDE DEF row
<1>2. /\ \A i \in DOMAIN arts : i \in DOMAIN arts' /\ arts'[i] = arts[i]
      /\ DOMAIN arts' = DOMAIN arts \cup {Len(arts) + 1}
      /\ Len(arts) + 1 \notin DOMAIN arts
      /\ arts'[Len(arts) + 1] = row
  BY <1>1
<1>3. /\ row.kind = "release" /\ row.revision = proc[p].rev
      /\ row.status = "released" /\ row.producer = "onebridge" /\ row.inputs = proc[p].ids
  BY DEF row, Artifact
<1>. QED  BY <1>2, <1>3

LEMMA OtherRows ==
    ASSUME [Next]_vars
    PROVE  \/ UNCHANGED <<arts, approvals>>
           \/ \E p \in Runner : run_produce(p)
           \/ \E p \in Caller : revise_commit(p) \/ approve_commit(p) \/ release_write(p)
BY DEF Next, RunStep, CallBegin, CallStep, run_read, run_start, run_scan, run_revision,
       run_settle, run_fail, submit, revise_read, approve_read, release_status, release_read,
       release_revision, retry_read,
       retry_commit, cancel_read, cancel_commit, session_fails, durable_raise, Done, Crash,
       rows, vars

\* No step removes an artifact, changes it but for its status, or forgets an approval.
LEMMA RowsStand ==
    ASSUME TypeOK, [Next]_vars
    PROVE  (\A i \in DOMAIN arts : Stands(i)) /\ approvals \subseteq approvals'
<1>1. CASE UNCHANGED <<arts, approvals>>
  BY <1>1 DEF Stands
<1>2. ASSUME NEW p \in Runner, run_produce(p)
      PROVE  (\A i \in DOMAIN arts : Stands(i)) /\ approvals \subseteq approvals'
  <2>. p \in Proc
    BY DEF Proc
  <2>. QED  BY <1>2, ProduceRows DEF Stands
<1>3. ASSUME NEW p \in Caller, revise_commit(p) \/ approve_commit(p) \/ release_write(p)
      PROVE  (\A i \in DOMAIN arts : Stands(i)) /\ approvals \subseteq approvals'
  <2>. p \in Proc
    BY DEF Proc
  <2>1. CASE revise_commit(p)
    BY <2>1, ReviseRows DEF revise_commit
  <2>2. CASE approve_commit(p)
    BY <2>2, ApproveRows DEF approve_commit
  <2>3. CASE release_write(p)
    BY <2>3, ReleaseRows DEF release_write, Stands
  <2>. QED  BY <1>3, <2>1, <2>2, <2>3
<1>. QED  BY <1>1, <1>2, <1>3, OtherRows

\* The control plane's own artifacts are the ones release writes.
LEMMA ReleaseMade ==
    ASSUME TypeOK, [Next]_vars,
           NEW r \in DOMAIN arts' \ DOMAIN arts, arts'[r].producer = "onebridge"
    PROVE  \E p \in Proc : release_write(p) /\ arts'[r].inputs = proc[p].ids
<1>1. ASSUME NEW p \in Runner, run_produce(p)
      PROVE  FALSE
  <2>. p \in Proc
    BY DEF Proc
  <2>. QED  BY <1>1, ProduceRows
<1>2. ASSUME NEW p \in Caller, revise_commit(p) \/ approve_commit(p)
      PROVE  FALSE
  <2>. p \in Proc
    BY DEF Proc
  <2>. QED  BY <1>2, ReviseRows, ApproveRows
<1>3. ASSUME NEW p \in Caller, release_write(p)
      PROVE  arts'[r].inputs = proc[p].ids /\ p \in Proc
  <2>. p \in Proc
    BY DEF Proc
  <2>. QED  BY <1>3, ReleaseRows
<1>. QED  BY <1>1, <1>2, <1>3, OtherRows

\* A step is one process's, and only the read of a release leads to its write.
LEMMA Moves ==
    ASSUME TypeOK, [Next]_vars
    PROVE  \/ UNCHANGED vars
           \/ \E q \in Proc :
                  /\ \A p \in Proc \ {q} : proc'[p] = proc[p]
                  /\ \/ proc'[q].pc # "release_write"
                     \/ release_read(q) \/ release_revision(q)
<1>0. proc \in [Proc -> Call]
  BY DEF TypeOK
<1>1. ASSUME NEW q \in Proc, Returns(q) \/ Raises(q)
      PROVE  (\A p \in Proc \ {q} : proc'[p] = proc[p]) /\ proc'[q].pc # "release_write"
  BY <1>0, <1>1 DEF Returns, Raises, Idle
<1>2. ASSUME NEW q \in Proc, NEW pc, NEW row, pc # "release_write", Begin(q, pc, row)
      PROVE  (\A p \in Proc \ {q} : proc'[p] = proc[p]) /\ proc'[q].pc # "release_write"
  BY <1>0, <1>2 DEF Begin, Idle
<1>3. ASSUME NEW q \in Proc, run_read(q) \/ RunStep(q)
      PROVE  (\A p \in Proc \ {q} : proc'[p] = proc[p]) /\ proc'[q].pc # "release_write"
  <2>1. CASE run_read(q) \/ run_settle(q) \/ run_fail(q)
    BY <1>1, <1>2, <2>1 DEF run_read, run_settle, run_fail
  <2>2. CASE run_start(q) \/ run_scan(q)
    BY <1>0, <2>2 DEF run_start, run_scan, Call
  <2>3. CASE run_revision(q)
    BY <1>0, <2>3 DEF run_revision, Call
  <2>4. CASE run_produce(q)
    BY <1>0, <2>4 DEF run_produce, Call
  <2>. QED  BY <1>3, <2>1, <2>2, <2>3, <2>4 DEF RunStep
<1>4. ASSUME NEW q \in Proc, CallBegin(q) \/ CallStep(q), ~release_read(q), ~release_revision(q)
      PROVE  (\A p \in Proc \ {q} : proc'[p] = proc[p]) /\ proc'[q].pc # "release_write"
  <2>1. CASE submit(q) \/ release_status(q) \/ retry_read(q) \/ cancel_read(q)
    BY <1>1, <1>2, <2>1 DEF submit, release_status, retry_read, cancel_read
  <2>2. ASSUME NEW i \in DOMAIN arts, revise_read(q, i)
        PROVE  (\A p \in Proc \ {q} : proc'[p] = proc[p]) /\ proc'[q].pc # "release_write"
    BY <1>0, <1>1, <2>2 DEF revise_read, Idle
  <2>3. ASSUME NEW ids \in SUBSET DOMAIN arts, NEW d \in Decision, approve_read(q, ids, d)
        PROVE  (\A p \in Proc \ {q} : proc'[p] = proc[p]) /\ proc'[q].pc # "release_write"
    BY <1>0, <2>3 DEF approve_read, Idle
  <2>4. CASE CallStep(q)
    BY <1>1, <1>4, <2>4
       DEF CallStep, revise_commit, approve_commit, release_write, retry_commit, cancel_commit
  <2>. QED  BY <1>4, <2>1, <2>2, <2>3, <2>4 DEF CallBegin
<1>5. ASSUME NEW q \in Proc, release_read(q)
      PROVE  \A p \in Proc \ {q} : proc'[p] = proc[p]
  BY <1>0, <1>1, <1>5 DEF release_read
<1>7. ASSUME NEW q \in Proc, release_revision(q)
      PROVE  \A p \in Proc \ {q} : proc'[p] = proc[p]
  BY <1>0, <1>7 DEF release_revision
<1>6. ASSUME NEW q \in Proc, session_fails(q) \/ durable_raise(q) \/ Done(q) \/ Crash(q)
      PROVE  (\A p \in Proc \ {q} : proc'[p] = proc[p]) /\ proc'[q].pc # "release_write"
  BY <1>0, <1>1, <1>6 DEF session_fails, durable_raise, Done, Crash, Idle, Call
<1>. QED  BY <1>3, <1>4, <1>5, <1>6, <1>7 DEF Next, Proc

\* A release that is about to be written was so before, or has just passed the gate.
LEMMA ToRelease ==
    ASSUME TypeOK, [Next]_vars, NEW p \in Proc, proc'[p].pc = "release_write"
    PROVE  \/ proc[p].pc = "release_write" /\ proc'[p].ids = proc[p].ids
           \/ /\ release_read(p) /\ GateAllows(proc[p].snap.status)
              /\ proc'[p].ids = Selected /\ proc'[p].snap = proc[p].snap
              /\ UNCHANGED rows
<1>0. proc \in [Proc -> Call]
  BY DEF TypeOK
<1>1. CASE UNCHANGED vars
  BY <1>1 DEF vars
<1>2. ASSUME NEW q \in Proc, release_read(q), \A r \in Proc \ {q} : proc'[r] = proc[r]
      PROVE  \/ proc'[p] = proc[p]
             \/ /\ release_read(p) /\ GateAllows(proc[p].snap.status)
                /\ proc'[p].ids = Selected /\ proc'[p].snap = proc[p].snap
                /\ UNCHANGED rows
  <2>1. CASE p # q
    BY <1>2, <2>1
  <2>2. CASE p = q /\ Raises(p)
    BY <1>0, <2>2 DEF Raises, Idle
  <2>3. CASE p = q /\ ~Raises(p)
    BY <1>0, <1>2, <2>3 DEF release_read, Call
  <2>. QED  BY <2>1, <2>2, <2>3
<1>3. ASSUME NEW q \in Proc, proc'[q].pc # "release_write", \A r \in Proc \ {q} : proc'[r] = proc[r]
      PROVE  proc'[p] = proc[p]
  BY <1>3
<1>4. ASSUME NEW q \in Proc, release_revision(q), \A r \in Proc \ {q} : proc'[r] = proc[r]
      PROVE  proc[p].pc = "release_write" /\ proc'[p].ids = proc[p].ids
  BY <1>0, <1>4 DEF release_revision, Call
<1>. QED  BY <1>1, <1>2, <1>3, <1>4, Moves

----------------------------------------------------------------------------
(* What is released was reviewed, however the calls overlap.  An approved  *)
(* artifact is reviewed; approvals are never forgotten; a selection that   *)
(* passed the gate is therefore a good manifest from then on.              *)

Manifest(ids) ==
    /\ {arts[i].kind : i \in ids} = Required
    /\ \A i, j \in ids : arts[i].kind = arts[j].kind => i = j
    /\ \A i \in ids : Reviewed(i)

ReviewInv ==
    /\ \A i \in DOMAIN arts : arts[i].status = "approved" => Reviewed(i)
    /\ \A p \in Proc : proc[p].pc = "release_write" => Manifest(proc[p].ids)
    /\ \A r \in DOMAIN arts : arts[r].producer = "onebridge" => Manifest(arts[r].inputs)

\* What the gate lets through is a good manifest.
LEMMA GateManifest ==
    ASSUME TypeOK, NEW status, GateAllows(status),
           \A i \in DOMAIN arts : arts[i].status = "approved" => Reviewed(i)
    PROVE  Manifest(Selected)
<1>1. ASSUME NEW k \in Required
      PROVE  /\ GateLatest(k) \in DOMAIN arts /\ arts[GateLatest(k)].kind = k
             /\ Reviewed(GateLatest(k))
  BY GateLatestIsLatest DEF GateAllows, Latest, OfKind
<1>. QED  BY <1>1 DEF Manifest, Selected

LEMMA ManifestStands ==
    ASSUME \A i \in DOMAIN arts : Stands(i), approvals \subseteq approvals',
           NEW ids \in SUBSET DOMAIN arts, Manifest(ids)
    PROVE  /\ {arts'[i].kind : i \in ids} = Required
           /\ \A i, j \in ids : arts'[i].kind = arts'[j].kind => i = j
           /\ \A i \in ids : \/ i \in approvals'
                             \/ Approval = "none" /\ arts'[i].producer = "adapter"
BY DEF Manifest, Reviewed, Stands

THEOREM ReleasesReviewed == Spec => []ReleaseReviewed
<1>1. Init => ReviewInv
  BY DEF Init, ReviewInv, Idle
<1>2. TypeOK /\ TypeOK' /\ ReviewInv /\ [Next]_vars => ReviewInv'
  <2>. SUFFICES ASSUME TypeOK, TypeOK', ReviewInv, [Next]_vars
                PROVE  ReviewInv'
    OBVIOUS
  <2>0. (\A i \in DOMAIN arts : Stands(i)) /\ approvals \subseteq approvals'
    BY RowsStand
  <2>1. ASSUME NEW i \in DOMAIN arts', arts'[i].status = "approved"
        PROVE  i \in approvals' \/ (Approval = "none" /\ arts'[i].producer = "adapter")
    <3>1. CASE i \in DOMAIN arts /\ arts[i].status = "approved"
      <4>1. Reviewed(i)
        BY <3>1 DEF ReviewInv
      <4>. QED  BY <2>0, <3>1, <4>1 DEF Reviewed, Stands
    <3>2. CASE i \notin DOMAIN arts \/ arts[i].status # "approved"
      <4>1. ASSUME NEW p \in Runner, run_produce(p)
            PROVE  Approval = "none" /\ arts'[i].producer = "adapter"
        <5>. p \in Proc
          BY DEF Proc
        <5>. QED  BY <2>1, <3>2, <4>1, ProduceRows
      <4>2. ASSUME NEW p \in Caller, revise_commit(p)
            PROVE  FALSE
        <5>. p \in Proc
          BY DEF Proc
        <5>. QED  BY <2>1, <3>2, <4>2, ReviseRows
      <4>3. ASSUME NEW p \in Caller, approve_commit(p)
            PROVE  i \in approvals'
        <5>. p \in Proc
          BY DEF Proc
        <5>1. i \in proc[p].ids /\ Verdict(proc[p].decision) = "approved"
          BY <2>1, <3>2, <4>3, ApproveRows
        <5>2. proc[p].decision = "approve"
          BY <5>1 DEF Verdict
        <5>. QED  BY <4>3, <5>1, <5>2 DEF approve_commit
      <4>4. ASSUME NEW p \in Caller, release_write(p)
            PROVE  FALSE
        <5>. p \in Proc
          BY DEF Proc
        <5>. QED  BY <2>1, <3>2, <4>4, ReleaseRows
      <4>5. ~UNCHANGED <<arts, approvals>>
        BY <2>1, <3>2
      <4>. QED  BY <4>1, <4>2, <4>3, <4>4, <4>5, OtherRows
    <3>. QED  BY <3>1, <3>2
  <2>2. ASSUME NEW p \in Proc, proc'[p].pc = "release_write"
        PROVE  Manifest(proc[p].ids)'
    <3>1. CASE proc[p].pc = "release_write" /\ proc'[p].ids = proc[p].ids
      <4>1. proc[p].ids \in SUBSET DOMAIN arts /\ Manifest(proc[p].ids)
        BY <2>2, <3>1, CallTypes DEF ReviewInv
      <4>. QED  BY <2>0, <3>1, <4>1, ManifestStands DEF Manifest, Reviewed
    <3>2. CASE GateAllows(proc[p].snap.status) /\ proc'[p].ids = Selected /\ UNCHANGED rows
      <4>1. Manifest(Selected)
        BY <3>2, GateManifest DEF ReviewInv
      <4>. QED  BY <3>2, <4>1 DEF Manifest, Reviewed, rows
    <3>. QED  BY <2>2, <3>1, <3>2, ToRelease
  <2>3. ASSUME NEW r \in DOMAIN arts', arts'[r].producer = "onebridge"
        PROVE  Manifest(arts[r].inputs)'
    <3>1. CASE r \in DOMAIN arts
      <4>1. arts'[r].inputs = arts[r].inputs /\ arts[r].producer = "onebridge"
        BY <2>0, <2>3, <3>1 DEF Stands
      <4>2. arts[r].inputs \in SUBSET DOMAIN arts /\ Manifest(arts[r].inputs)
        BY <3>1, <4>1, RowType DEF ReviewInv
      <4>. QED  BY <2>0, <4>1, <4>2, ManifestStands DEF Manifest, Reviewed
    <3>2. CASE r \notin DOMAIN arts
      <4>1. PICK p \in Proc : release_write(p) /\ arts'[r].inputs = proc[p].ids
        BY <2>3, <3>2, ReleaseMade
      <4>2. proc[p].ids \in SUBSET DOMAIN arts /\ Manifest(proc[p].ids)
        BY <4>1, CallTypes DEF ReviewInv, release_write
      <4>. QED  BY <2>0, <4>1, <4>2, ManifestStands DEF Manifest, Reviewed
    <3>. QED  BY <3>1, <3>2
  <2>. QED  BY <2>1, <2>2, <2>3 DEF ReviewInv, Reviewed
<1>3. ReviewInv => ReleaseReviewed
  BY DEF ReviewInv, ReleaseReviewed, Manifest
<1>. QED  BY <1>1, <1>2, <1>3, TypeCorrect, PTL DEF Spec

----------------------------------------------------------------------------
(* Calls that do not overlap.  With a single process, what a call has read *)
(* is still so when it writes, whatever earlier calls died half way.       *)

OneCall == \A p, q \in Proc : p = q

\* What a call in progress knows about the rows.
Current(p) ==
    /\ proc[p].pc = "run_start" => proc[p].snap = task
    /\ proc[p].pc \in {"run_scan", "run_produce"} => task.status = "running"
    /\ proc[p].pc \in {"revise", "approve", "release_read"} =>
           proc[p].snap.status = task.status
    /\ proc[p].pc = "revise" => \A i \in proc[p].ids : i \in Latest(arts[i].kind)
    /\ proc[p].pc = "approve" =>
           \A i \in proc[p].clean : arts[i].status = Verdict(proc[p].decision)
    /\ proc[p].pc = "release_write" =>
           /\ task.status = "succeeded"
           /\ \A i \in proc[p].ids : i \in Latest(arts[i].kind) /\ arts[i].status = "approved"
    /\ proc[p].rev # 0 =>
           \/ proc[p].pc = "run_produce" /\ RevisionFresh(p)
           \/ proc[p].pc = "release_write" /\ proc[p].rev = NextRevision("release")

SerialInv ==
    /\ \A p \in Proc : Current(p)
    /\ RevisionsLinear
    /\ SucceededIsApproved
    /\ ProjectAgrees

\* How a review decision settles the task.
LEMMA ApproveStatus ==
    ASSUME TypeOK, SerialInv, NEW p \in Proc, approve_commit(p)
    PROVE  \/ task'.status \in {"waiting_approval", "blocked"} /\ project' = "waiting_approval"
           \/ /\ task'.status = "succeeded" /\ project' = "approved"
              /\ proc[p].decision = "approve" /\ RequiredApproved(p, TRUE)
<1>1. proc[p].snap.status = task.status /\ task \in TaskRow
  BY TablesType DEF approve_commit, SerialInv, Current
<1>2. \A s : [task EXCEPT !.status = Assign(proc[p].snap.status, @, s)].status = s
  BY <1>1 DEF Assign, TaskRow
<1>3. PICK s \in {"blocked", "waiting_approval", "succeeded"} :
          /\ task' = [task EXCEPT !.status = Assign(proc[p].snap.status, @, s)]
          /\ \/ s # "succeeded" /\ project' = "waiting_approval"
             \/ /\ s = "succeeded" /\ project' = "approved"
                /\ proc[p].decision = "approve" /\ RequiredApproved(p, TRUE)
  BY DEF approve_commit
<1>4. task'.status = s
  BY <1>2, <1>3
<1>. QED  BY <1>3, <1>4

\* The ways in which the statuses of the task and of its project change.
LEMMA StatusSteps ==
    ASSUME TypeOK, SerialInv, [Next]_vars
    PROVE  \/ UNCHANGED <<task, project>>
           \/ task'.status = "queued" /\ project' \in {"received", "planned"}
           \/ task'.status \in {"running", "failed", "cancelled"} /\ project' = task'.status
           \/ task'.status \in {"waiting_approval", "blocked"} /\ project' = "waiting_approval"
           \/ /\ task'.status = "succeeded" /\ project' = "succeeded"
              /\ Approval # "before_publish"
           \/ /\ task'.status = "succeeded" /\ project' = "approved"
              /\ \E p \in Proc : /\ approve_commit(p) /\ proc[p].decision = "approve"
                                 /\ RequiredApproved(p, TRUE)
           \/ /\ task' = task /\ task.status = "succeeded" /\ project' = "released"
              /\ \E p \in Proc : release_write(p)
<1>0. task \in TaskRow /\ task.status \in TaskStatus
  BY TablesType
<1>1. \A s : [task EXCEPT !.status = s].status = s
  BY <1>0 DEF TaskRow
<1>2. \A s, e : [task EXCEPT !.status = s, !.error = e].status = s
  BY <1>0 DEF TaskRow
<1>3. \A s : Assign(task.status, task.status, s) = s
  BY DEF Assign
<1>4. ASSUME NEW p \in Proc, submit(p)
      PROVE  task'.status = "queued" /\ project' = "received"
  BY <1>4 DEF submit, SerialInv, ProjectAgrees, NoTask
<1>5. ASSUME NEW p \in Proc, run_start(p)
      PROVE  task'.status = "running" /\ project' = "running"
  <2>1. proc[p].snap = task
    BY <1>5 DEF run_start, SerialInv, Current
  <2>2. task'.status = Assign(proc[p].snap.status, task.status, "running")
    BY <1>5 DEF run_start
  <2>. QED  BY <1>3, <1>5, <2>1, <2>2 DEF run_start
<1>6. ASSUME NEW p \in Proc, run_settle(p)
      PROVE  /\ project' = task'.status
             /\ task'.status = IF Approval = "before_publish" THEN "waiting_approval" ELSE "succeeded"
  BY <1>1, <1>6 DEF run_settle
<1>7. ASSUME NEW p \in Proc, run_fail(p)
      PROVE  task'.status = "failed" /\ project' = "failed"
  BY <1>2, <1>7 DEF run_fail
<1>8. ASSUME NEW p \in Proc, revise_commit(p)
      PROVE  task'.status = "waiting_approval" /\ project' = "waiting_approval"
  BY <1>1, <1>3, <1>8 DEF revise_commit, SerialInv, Current
<1>9. ASSUME NEW p \in Proc, approve_commit(p)
      PROVE  \/ task'.status \in {"waiting_approval", "blocked"} /\ project' = "waiting_approval"
             \/ /\ task'.status = "succeeded" /\ project' = "approved"
                /\ proc[p].decision = "approve" /\ RequiredApproved(p, TRUE)
  BY <1>9, ApproveStatus
<1>10. ASSUME NEW p \in Proc, release_write(p)
       PROVE  task' = task /\ task.status = "succeeded" /\ project' = "released"
  BY <1>10 DEF release_write, SerialInv, Current
<1>11. ASSUME NEW p \in Proc, retry_commit(p)
       PROVE  task'.status = "queued" /\ project' = "planned"
  BY <1>2, <1>11 DEF retry_commit
<1>12. ASSUME NEW p \in Proc, cancel_commit(p)
       PROVE  task'.status = "cancelled" /\ project' = "cancelled"
  BY <1>1, <1>12 DEF cancel_commit
<1>13. \/ UNCHANGED <<task, project>>
       \/ \E p \in Proc : \/ submit(p) \/ run_start(p) \/ run_settle(p) \/ run_fail(p)
                          \/ revise_commit(p) \/ approve_commit(p) \/ release_write(p)
                          \/ retry_commit(p) \/ cancel_commit(p)
  BY DEF Next, RunStep, CallBegin, CallStep, run_read, run_scan, run_revision, run_produce,
         revise_read, approve_read, release_status, release_read, release_revision, retry_read,
         cancel_read, session_fails,
         durable_raise, Done, Crash, rows, vars, Proc
<1>. QED  BY <1>4, <1>5, <1>6, <1>7, <1>8, <1>9, <1>10, <1>11, <1>12, <1>13

LEMMA LinearKept ==
    ASSUME TypeOK, SerialInv, [Next]_vars
    PROVE  RevisionsLinear'
<1>0. \A i, j \in DOMAIN arts :
          arts[i].kind = arts[j].kind /\ arts[i].revision = arts[j].revision => i = j
  BY DEF SerialInv, RevisionsLinear
<1>1. ASSUME \A i \in DOMAIN arts : Stands(i),
             \A i \in DOMAIN arts' \ DOMAIN arts, j \in DOMAIN arts :
                 arts'[i].kind = arts[j].kind =>
                     arts[j].revision \in Nat /\ arts[j].revision < arts'[i].revision,
             \A i, j \in DOMAIN arts' \ DOMAIN arts : arts'[i].kind = arts'[j].kind => i = j
      PROVE  RevisionsLinear'
  <2>. SUFFICES ASSUME NEW i \in DOMAIN arts', NEW j \in DOMAIN arts',
                       arts'[i].kind = arts'[j].kind, arts'[i].revision = arts'[j].revision
                PROVE  i = j
    BY DEF RevisionsLinear
  <2>. QED  BY <1>0, <1>1 DEF Stands
<1>2. ASSUME NEW k, NEW j \in DOMAIN arts, arts[j].kind = k
      PROVE  arts[j].revision \in Nat /\ arts[j].revision < NextRevision(k)
  BY <1>2, NextRevisionIsNew, RowType DEF OfKind
<1>3. CASE UNCHANGED <<arts, approvals>>
  BY <1>0, <1>3 DEF RevisionsLinear
<1>4. ASSUME NEW p \in Runner, run_produce(p)
      PROVE  RevisionsLinear'
  <2>. p \in Proc
    BY DEF Proc
  <2>0. RevisionFresh(p)
    BY <1>4 DEF run_produce, SerialInv, Current
  <2>1. /\ \A i \in DOMAIN arts : Stands(i)
        /\ \A i \in DOMAIN arts' \ DOMAIN arts : arts'[i].revision = NextRevision(arts'[i].kind)
        /\ \A i, j \in DOMAIN arts' \ DOMAIN arts : arts'[i].kind = arts'[j].kind => i = j
    BY <1>4, <2>0, ProduceRows DEF Stands
  <2>. QED  BY <1>1, <1>2, <2>1
<1>5. ASSUME NEW p \in Caller, revise_commit(p)
      PROVE  RevisionsLinear'
  <2>. p \in Proc
    BY DEF Proc
  <2>1. PICK i \in proc[p].ids :
            /\ i \in DOMAIN arts
            /\ \A j \in DOMAIN arts : Stands(j)
            /\ DOMAIN arts' = DOMAIN arts \cup {Len(arts) + 1}
            /\ \A j \in DOMAIN arts' \ DOMAIN arts : /\ arts'[j].kind = arts[i].kind
                                                     /\ arts'[j].revision = arts[i].revision + 1
    BY <1>5, ReviseRows
  <2>2. i \in Latest(arts[i].kind)
    BY <1>5, <2>1 DEF revise_commit, SerialInv, Current
  <2>3. ASSUME NEW j \in DOMAIN arts, arts[j].kind = arts[i].kind
        PROVE  arts[j].revision \in Nat /\ arts[j].revision < arts[i].revision + 1
    BY <2>1, <2>2, <2>3, RowType DEF Latest, OfKind
  <2>. QED  BY <1>1, <2>1, <2>3
<1>6. ASSUME NEW p \in Caller, approve_commit(p)
      PROVE  RevisionsLinear'
  <2>. p \in Proc
    BY DEF Proc
  <2>1. DOMAIN arts' = DOMAIN arts /\ \A i \in DOMAIN arts : Stands(i)
    BY <1>6, ApproveRows
  <2>. QED  BY <1>1, <2>1
<1>7. ASSUME NEW p \in Caller, release_write(p)
      PROVE  RevisionsLinear'
  <2>. p \in Proc
    BY DEF Proc
  <2>0. proc[p].rev = NextRevision("release")
    BY <1>7 DEF release_write, SerialInv, Current
  <2>1. /\ \A i \in DOMAIN arts : Stands(i)
        /\ DOMAIN arts' = DOMAIN arts \cup {Len(arts) + 1}
        /\ \A i \in DOMAIN arts' \ DOMAIN arts : /\ arts'[i].kind = "release"
                                                 /\ arts'[i].revision = NextRevision("release")
    BY <1>7, <2>0, ReleaseRows DEF Stands
  <2>. QED  BY <1>1, <1>2, <2>1
<1>. QED  BY <1>3, <1>4, <1>5, <1>6, <1>7, OtherRows

LEMMA SucceededKept ==
    ASSUME TypeOK, SerialInv, [Next]_vars, Approval = "before_publish",
           task'.status = "succeeded", NEW k \in Required
    PROVE  \E i \in Latest(k)' : arts'[i].status = "approved"
<1>0. \/ \E p \in Proc : /\ approve_commit(p) /\ proc[p].decision = "approve"
                         /\ RequiredApproved(p, TRUE)
      \/ task' = task /\ ~\E p \in Proc : approve_commit(p)
  <2>1. CASE \E p \in Proc : approve_commit(p)
    BY <2>1, ApproveStatus
  <2>2. CASE ~\E p \in Proc : approve_commit(p)
    BY <2>2, StatusSteps
  <2>. QED  BY <2>1, <2>2
<1>1. ASSUME NEW p \in Proc, approve_commit(p), proc[p].decision = "approve",
             RequiredApproved(p, TRUE)
      PROVE  \E i \in Latest(k)' : arts'[i].status = "approved"
  <2>1. PICK i \in Latest(k) : ApprovedInSession(p, i)
    BY <1>1 DEF RequiredApproved
  <2>2. i \in DOMAIN arts /\ arts[i].kind = k
        /\ \A j \in DOMAIN arts : arts[j].kind = k => arts[j].revision <= arts[i].revision
    BY DEF Latest, OfKind
  <2>3. /\ DOMAIN arts' = DOMAIN arts /\ \A j \in DOMAIN arts : Stands(j)
        /\ arts'[i].status = IF i \in proc[p].ids \ proc[p].clean
                             THEN Verdict(proc[p].decision) ELSE arts[i].status
    BY <1>1, <2>2, ApproveRows
  <2>4. arts'[i].status = "approved"
    <3>1. Verdict(proc[p].decision) = "approved"
      BY <1>1 DEF Verdict
    <3>2. \A j \in proc[p].clean : arts[j].status = "approved"
      BY <1>1, <3>1 DEF approve_commit, SerialInv, Current
    <3>. QED  BY <2>1, <2>3, <3>1, <3>2 DEF ApprovedInSession
  <2>5. i \in Latest(k)'
    BY <2>2, <2>3 DEF Latest, OfKind, Stands
  <2>. QED  BY <2>4, <2>5
<1>2. CASE task' = task /\ ~\E p \in Proc : approve_commit(p)
  <2>1. PICK i \in Latest(k) : arts[i].status = "approved"
    BY <1>2 DEF SerialInv, SucceededIsApproved
  <2>2. i \in DOMAIN arts /\ arts[i].kind = k
        /\ \A j \in DOMAIN arts : arts[j].kind = k => arts[j].revision <= arts[i].revision
    BY <2>1 DEF Latest, OfKind
  <2>3. CASE UNCHANGED <<arts, approvals>>
    BY <2>1, <2>2, <2>3 DEF Latest, OfKind
  <2>4. ASSUME NEW p \in Runner, run_produce(p)
        PROVE  FALSE
    <3>. p \in Proc
      BY DEF Proc
    <3>. QED  BY <1>2, <2>4 DEF run_produce, SerialInv, Current
  <2>5. ASSUME NEW p \in Caller, revise_commit(p)
        PROVE  FALSE
    <3>. p \in Proc
      BY DEF Proc
    <3>1. proc[p].snap.status = task.status /\ task \in TaskRow
      BY <2>5, TablesType DEF revise_commit, SerialInv, Current
    <3>2. task' = [task EXCEPT !.status = "waiting_approval"]
      BY <2>5, <3>1 DEF revise_commit, Assign
    <3>. QED  BY <3>1, <3>2 DEF TaskRow
  <2>6. ASSUME NEW p \in Caller, release_write(p)
        PROVE  \E j \in Latest(k)' : arts'[j].status = "approved"
    <3>. p \in Proc
      BY DEF Proc
    <3>1. /\ \A j \in DOMAIN arts : j \in DOMAIN arts' /\ arts'[j] = arts[j]
          /\ \A j \in DOMAIN arts' \ DOMAIN arts : arts'[j].kind = "release"
      BY <2>6, ReleaseRows
    <3>2. k # "release"
      BY ServiceAssumption
    <3>3. i \in Latest(k)'
      BY <2>2, <3>1, <3>2 DEF Latest, OfKind
    <3>. QED  BY <2>1, <2>2, <3>1, <3>3
  <2>. QED  BY <1>2, <2>3, <2>4, <2>5, <2>6, OtherRows DEF Proc
<1>. QED  BY <1>0, <1>1, <1>2

LEMMA CurrentKept ==
    ASSUME OneCall, TypeOK, SerialInv, [Next]_vars, NEW p \in Proc
    PROVE  Current(p)'
<1>0. proc \in [Proc -> Call] /\ proc[p] \in Call /\ task \in TaskRow /\ \A q \in Proc : q = p
  BY TablesType DEF TypeOK, OneCall
<1>1. CASE UNCHANGED vars
  <2>1. /\ arts' = arts /\ proc' = proc /\ task' = task
        /\ Missing(p)' = Missing(p) /\ \A k : Latest(k)' = Latest(k)
    BY <1>1 DEF vars, Missing, Latest, OfKind
  <2>2. ASSUME NEW k
        PROVE  NextRevision(k)' = NextRevision(k)
    <3>1. Latest(k)' = Latest(k)
      BY <2>1
    <3>. QED  BY <2>1, <3>1 DEF NextRevision
  <2>5. First(p)' = First(p)
    BY <2>1 DEF First
  <2>3. RevisionFresh(p)' <=> RevisionFresh(p)
    BY <2>1, <2>2, <2>5 DEF RevisionFresh
  <2>4. Current(p)
    BY DEF SerialInv
  <2>. QED  BY <2>1, <2>2, <2>3, <2>4 DEF Current, Verdict
<1>2. CASE Returns(p) \/ Raises(p) \/ proc' = [proc EXCEPT ![p] = Idle]
  BY <1>0, <1>2 DEF Returns, Raises, Idle, Current
<1>3. CASE run_read(p) \/ RunStep(p)
  <2>1. CASE run_read(p)
    <3>1. CASE ~Raises(p)
      <4>1. proc'[p].pc = "run_start" /\ proc'[p].snap = task /\ proc'[p].rev = 0 /\ task' = task
        BY <1>0, <2>1, <3>1 DEF run_read, Begin, Idle, rows
      <4>. QED  BY <4>1 DEF Current
    <3>. QED  BY <1>2, <3>1
  <2>2. CASE run_start(p)
    <3>1. task'.status = "running" /\ proc'[p].pc = "run_scan" /\ proc'[p].rev = 0
      <4>1. proc[p].snap = task
        BY <2>2 DEF run_start, SerialInv, Current
      <4>2. proc'[p].pc = "run_scan" /\ proc'[p].rev = 0
        BY <1>0, <2>2 DEF run_start, Call, SerialInv, Current
      <4>3. task'.status = Assign(proc[p].snap.status, task.status, "running")
        BY <2>2 DEF run_start
      <4>. QED  BY <4>1, <4>2, <4>3 DEF Assign
    <3>. QED  BY <3>1 DEF Current
  <2>3. CASE run_scan(p) \/ run_produce(p)
    <3>1. task.status = "running" /\ task' = task
      BY <2>3 DEF run_scan, run_produce, rows, SerialInv, Current
    <3>2. proc'[p].pc = "run_produce" /\ proc'[p].rev = 0
      BY <1>0, <2>3 DEF run_scan, run_produce, Call, SerialInv, Current
    <3>. QED  BY <3>1, <3>2 DEF Current
  <2>4. CASE run_settle(p) \/ run_fail(p)
    BY <1>2, <2>4 DEF run_settle, run_fail
  <2>5. CASE run_revision(p)
    <3>. DEFINE rev == NextRevision(RequiredOutputs[First(p)])
    <3>1. /\ task.status = "running" /\ UNCHANGED rows
          /\ proc[p].pc = "run_produce"
          /\ proc' = [proc EXCEPT ![p].rev = rev]
      BY <2>5 DEF run_revision, SerialInv, Current
    <3>. HIDE DEF rev
    <3>2. proc'[p].pc = "run_produce" /\ proc'[p].rev = rev /\ proc'[p].ids = proc[p].ids
      BY <1>0, <3>1 DEF Call
    <3>3. Missing(p)' = Missing(p) /\ task' = task /\ arts' = arts
      BY <3>1, <3>2 DEF Missing, rows
    <3>4. RevisionFresh(p)'
      BY <3>2, <3>3 DEF RevisionFresh, First, NextRevision, Latest, OfKind, rev
    <3>. QED  BY <3>1, <3>2, <3>3, <3>4 DEF Current
  <2>. QED  BY <1>3, <2>1, <2>2, <2>3, <2>4, <2>5 DEF RunStep
<1>4. CASE CallBegin(p)
  <2>1. CASE submit(p)
    BY <1>2, <2>1 DEF submit
  <2>2. CASE release_status(p) \/ retry_read(p) \/ cancel_read(p)
    <3>1. ASSUME NEW pc \in {"retry", "cancel"}, NEW row, Begin(p, pc, row)
          PROVE  Current(p)'
      <4>1. proc'[p].pc \in {"retry", "cancel"} /\ proc'[p].rev = 0
        BY <1>0, <3>1 DEF Begin, Idle
      <4>. QED  BY <4>1 DEF Current
    <3>2. CASE release_status(p)
      <4>1. /\ proc'[p].pc = "release_read" /\ proc'[p].snap.status = task.status /\ task' = task
            /\ proc'[p].rev = 0
        BY <1>0, <3>2, TablesType DEF release_status, Begin, Idle, rows
      <4>. QED  BY <4>1 DEF Current
    <3>. QED  BY <1>2, <2>2, <3>1, <3>2 DEF retry_read, cancel_read
  <2>3. ASSUME NEW i \in DOMAIN arts, revise_read(p, i)
        PROVE  Current(p)'
    <3>1. CASE Raises(p)
      BY <1>2, <3>1
    <3>2. CASE ~Raises(p)
      <4>1. /\ proc'[p].pc = "revise" /\ proc'[p].snap.status = task.status
            /\ proc'[p].ids = {i} /\ i \in Latest(arts[i].kind) /\ proc'[p].rev = 0
            /\ UNCHANGED rows
        BY <1>0, <2>3, <3>2, TablesType DEF revise_read, Idle
      <4>. QED  BY <4>1 DEF Current, Latest, OfKind, rows
    <3>. QED  BY <3>1, <3>2
  <2>4. ASSUME NEW ids \in SUBSET DOMAIN arts, NEW d \in Decision, approve_read(p, ids, d)
        PROVE  Current(p)'
    <3>1. /\ proc'[p].pc = "approve" /\ proc'[p].snap.status = task.status
          /\ proc'[p].clean = {i \in ids : arts[i].status = Verdict(d)}
          /\ proc'[p].decision = d /\ proc'[p].rev = 0
          /\ UNCHANGED rows
      BY <1>0, <2>4, TablesType DEF approve_read, Idle
    <3>. QED  BY <3>1 DEF Current, Verdict, rows
  <2>. QED  BY <1>4, <2>1, <2>2, <2>3, <2>4 DEF CallBegin
<1>5. CASE CallStep(p)
  <2>1. CASE ~release_read(p) /\ ~release_revision(p)
    BY <1>2, <1>5, <2>1
       DEF CallStep, revise_commit, approve_commit, release_write, retry_commit, cancel_commit
  <2>2. CASE release_read(p) /\ ~Raises(p)
    <3>1. /\ GateAllows(proc[p].snap.status) /\ UNCHANGED rows
          /\ proc'[p].pc = "release_write" /\ proc'[p].ids = Selected /\ proc'[p].rev = 0
          /\ proc[p].snap.status = task.status
      BY <1>0, <2>2 DEF release_read, Call, SerialInv, Current
    <3>2. ASSUME NEW k \in Required
          PROVE  /\ GateLatest(k) \in Latest(k) /\ arts[GateLatest(k)].kind = k
                 /\ arts[GateLatest(k)].status = "approved"
      BY <3>1, GateLatestIsLatest DEF GateAllows, Latest, OfKind
    <3>3. \A i \in Selected : i \in Latest(arts[i].kind) /\ arts[i].status = "approved"
      BY <3>2 DEF Selected
    <3>4. task.status = "succeeded"
      BY <3>1 DEF GateAllows
    <3>. QED  BY <3>1, <3>3, <3>4 DEF Current, Latest, OfKind, rows
  <2>3. CASE release_revision(p)
    <3>. DEFINE rev == NextRevision("release")
    <3>1. /\ proc[p].pc = "release_write" /\ UNCHANGED rows
          /\ proc' = [proc EXCEPT ![p].rev = rev]
      BY <2>3 DEF release_revision
    <3>. HIDE DEF rev
    <3>2. proc'[p].pc = "release_write" /\ proc'[p].rev = rev /\ proc'[p].ids = proc[p].ids
      BY <1>0, <3>1 DEF Call
    <3>3. task' = task /\ arts' = arts
      BY <3>1 DEF rows
    <3>4. rev = NextRevision("release")'
      BY <3>3 DEF NextRevision, Latest, OfKind, rev
    <3>5. /\ task.status = "succeeded"
          /\ \A i \in proc[p].ids : i \in Latest(arts[i].kind) /\ arts[i].status = "approved"
      BY <3>1 DEF SerialInv, Current
    <3>. QED  BY <3>2, <3>3, <3>4, <3>5 DEF Current, Latest, OfKind
  <2>. QED  BY <1>2, <2>1, <2>2, <2>3
<1>6. CASE session_fails(p) \/ durable_raise(p) \/ Done(p) \/ Crash(p)
  <2>1. CASE durable_raise(p)
    <3>1. proc'[p].pc = "raised" /\ proc'[p].rev = 0
      BY <1>0, <2>1 DEF durable_raise, Call, SerialInv, Current
    <3>. QED  BY <3>1 DEF Current
  <2>. QED  BY <1>2, <1>6, <2>1 DEF session_fails, Done, Crash
<1>. QED  BY <1>0, <1>1, <1>3, <1>4, <1>5, <1>6 DEF Next, Proc

LEMMA SerialInvariant ==
    ASSUME OneCall
    PROVE  Spec => []SerialInv
<1>1. Init => SerialInv
  <2>. SUFFICES ASSUME Init PROVE SerialInv
    OBVIOUS
  <2>1. /\ \A p \in Proc : proc[p].pc = "idle" /\ proc[p].rev = 0
        /\ task.status = "absent" /\ project = "absent" /\ DOMAIN arts = {}
    BY DEF Init, Idle, NoTask
  <2>. QED  BY <2>1 DEF SerialInv, Current, RevisionsLinear, SucceededIsApproved, ProjectAgrees
<1>2. TypeOK /\ SerialInv /\ [Next]_vars => SerialInv'
  <2>. SUFFICES ASSUME TypeOK, SerialInv, [Next]_vars
                PROVE  SerialInv'
    OBVIOUS
  <2>1. SucceededIsApproved'
    BY SucceededKept DEF SucceededIsApproved
  <2>2. ProjectAgrees'
    <3>1. CASE UNCHANGED <<task, project>>
      BY <3>1 DEF SerialInv, ProjectAgrees
    <3>2. CASE ~UNCHANGED <<task, project>>
      BY <3>2, StatusSteps DEF ProjectAgrees
    <3>. QED  BY <3>1, <3>2
  <2>. QED  BY <2>1, <2>2, CurrentKept, LinearKept DEF SerialInv
<1>. QED  BY <1>1, <1>2, TypeCorrect, PTL DEF Spec

\* The revisions of a kind form one line when calls do not overlap.
THEOREM OneLine == OneCall /\ Spec => []RevisionsLinear
<1>. SUFFICES ASSUME OneCall PROVE Spec => []RevisionsLinear
  OBVIOUS
<1>1. SerialInv => RevisionsLinear
  BY DEF SerialInv
<1>. QED  BY <1>1, SerialInvariant, PTL

\* A task that needs approval is succeeded only while the latest revision of every
\* required kind is approved, when calls do not overlap.
THEOREM SucceededApproved == OneCall /\ Spec => []SucceededIsApproved
<1>. SUFFICES ASSUME OneCall PROVE Spec => []SucceededIsApproved
  OBVIOUS
<1>1. SerialInv => SucceededIsApproved
  BY DEF SerialInv
<1>. QED  BY <1>1, SerialInvariant, PTL

\* Task and project agree when calls do not overlap.
THEOREM TaskAndProjectAgree == OneCall /\ Spec => []ProjectAgrees
<1>. SUFFICES ASSUME OneCall PROVE Spec => []ProjectAgrees
  OBVIOUS
<1>1. SerialInv => ProjectAgrees
  BY DEF SerialInv
<1>. QED  BY <1>1, SerialInvariant, PTL

\* When calls do not overlap, a release is recorded for a succeeded task and holds
\* approved latest revisions.
THEOREM FailClosed == OneCall /\ Spec => ReleaseFailClosed
<1>. SUFFICES ASSUME OneCall PROVE Spec => ReleaseFailClosed
  OBVIOUS
<1>. DEFINE Closed == \A r \in DOMAIN arts' \ DOMAIN arts :
                arts'[r].producer = "onebridge" =>
                    /\ task.status = "succeeded"
                    /\ \A i \in arts'[r].inputs : /\ i \in Latest(arts[i].kind)
                                                  /\ arts[i].status = "approved"
<1>1. TypeOK /\ SerialInv /\ [Next]_vars => Closed
  <2>. SUFFICES ASSUME TypeOK, SerialInv, [Next]_vars,
                       NEW r \in DOMAIN arts' \ DOMAIN arts, arts'[r].producer = "onebridge"
                PROVE  /\ task.status = "succeeded"
                       /\ \A i \in arts'[r].inputs : /\ i \in Latest(arts[i].kind)
                                                     /\ arts[i].status = "approved"
    OBVIOUS
  <2>1. PICK p \in Proc : release_write(p) /\ arts'[r].inputs = proc[p].ids
    BY ReleaseMade
  <2>. QED  BY <2>1 DEF release_write, SerialInv, Current
<1>2. TypeOK /\ SerialInv /\ [Next]_vars => [Closed]_vars
  BY <1>1
<1>. QED  BY <1>2, SerialInvariant, TypeCorrect, PTL DEF Spec, ReleaseFailClosed

============================================================================
