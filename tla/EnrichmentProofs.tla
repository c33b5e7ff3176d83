--------------------------- MODULE EnrichmentProofs ---------------------------
(***************************************************************************)
(* Proofs about the rows of artists under concurrent enrichments, for any  *)
(* artists, administrators, batch sizes and faults.  What concerns the     *)
(* rows needs nothing of the batches: an UPDATE of an artist that has no   *)
(* row changes none.                                                       *)
(***************************************************************************)
EXTENDS Enrichment, FiniteSetTheorems, TLAPS

RowType == [state : {"pending", "failed", "enriched"}, tags : {"none", "plex", "lastfm"}]

\* A row with tags from Last.fm has been enriched at least once, which is what
\* the importer's upsert asks about.
RowInv ==
    /\ row \in [Artists -> RowType]
    /\ \A a \in Artists : row[a].tags = "lastfm" => row[a].state # "pending"

\* What an UPDATE makes of a row is not pending, and keeps tags from Last.fm.
LEMMA UpdatedRow ==
    ASSUME NEW r \in RowType, NEW S, NEW u \in Updated(r, S)
    PROVE  /\ u \in RowType
           /\ u.state # "pending"
           /\ r.tags = "lastfm" => u.tags = "lastfm"
<1>1. PICK t \in IF "lastfm" \in S THEN {r.tags, "lastfm"} ELSE {r.tags} :
          u = [state |-> IF S = {} THEN "failed" ELSE "enriched", tags |-> t]
  BY DEF Updated
<1>2. t \in {r.tags, "lastfm"}
  BY <1>1
<1> QED
  BY <1>1, <1>2 DEF RowType

\* The UPDATE of one caller.
LEMMA WriteStep ==
    ASSUME RowInv, NEW c \in Callers, Write(c)
    PROVE  /\ RowInv'
           /\ \A a \in Artists : row[a].tags = "lastfm" => row'[a].tags = "lastfm"
           /\ \A a \in Artists : row'[a] # row[a] => live[c] /\ artist[c] = a
<1>1. live[c]
  BY DEF Write
<1>2. PICK u \in Updated(row[artist[c]], sources[c]) : row' = [row EXCEPT ![artist[c]] = u]
  BY DEF Write
<1>3. CASE artist[c] \in Artists
  <2>1. /\ u \in RowType
        /\ u.state # "pending"
        /\ row[artist[c]].tags = "lastfm" => u.tags = "lastfm"
    BY <1>3, UpdatedRow DEF RowInv
  <2> QED
    BY <1>1, <1>2, <1>3, <2>1 DEF RowInv
<1>4. CASE artist[c] \notin Artists
  <2>1. row' = row
    BY <1>2, <1>4 DEF RowInv
  <2> QED
    BY <2>1 DEF RowInv
<1> QED
  BY <1>3, <1>4

\* The importer's upsert of one artist.
LEMMA UpsertStep ==
    ASSUME RowInv, NEW a \in Artists, Upsert(a)
    PROVE  /\ RowInv'
           /\ \A b \in Artists : row[b].tags = "lastfm" => row'[b].tags = "lastfm"
           /\ \A b \in Artists : row'[b].state = row[b].state
<1> DEFINE t == IF row[a].state = "pending" THEN "plex" ELSE row[a].tags
<1>1. row' = [row EXCEPT ![a].tags = t]
  BY DEF Upsert, ImportTags
<1>2. row[a] \in RowType
  BY DEF RowInv
<1>3. t \in {"none", "plex", "lastfm"} /\ (t = "lastfm" => row[a].tags = "lastfm")
  BY <1>2 DEF RowType
<1>4. row[a].tags = "lastfm" => t = "lastfm"
  BY DEF RowInv
<1> HIDE DEF t
<1>5. \A b \in Artists : row'[b] = IF b = a THEN [row[a] EXCEPT !.tags = t] ELSE row[b]
  BY <1>1 DEF RowInv
<1>6. /\ [row[a] EXCEPT !.tags = t] \in RowType
      /\ [row[a] EXCEPT !.tags = t].state = row[a].state
      /\ [row[a] EXCEPT !.tags = t].tags = t
  BY <1>2, <1>3 DEF RowType
<1> QED
  BY <1>1, <1>3, <1>4, <1>5, <1>6 DEF RowInv

\* Only an UPDATE and an upsert write rows.
LEMMA OthersKeepRows ==
    ASSUME [Next]_vars,
           ~ \E c \in Callers : Write(c),
           ~ \E a \in Artists : Upsert(a)
    PROVE  UNCHANGED row
<1> USE DEF db
<1>1. CASE StartBatch
  BY <1>1 DEF StartBatch
<1>2. CASE NextArtist
  BY <1>2 DEF NextArtist
<1>3. CASE EndBatch
  BY <1>3 DEF EndBatch
<1>4. ASSUME NEW c \in Admins, NEW a \in Artists, EnrichArtist(c, a) PROVE UNCHANGED row
  BY <1>4 DEF EnrichArtist
<1>5. ASSUME NEW c \in Callers, Cancel(c) PROVE UNCHANGED row
  BY <1>5 DEF Cancel
<1>6. ASSUME NEW c \in Callers, EnrichOne(c), ~Write(c) PROVE UNCHANGED row
  <2>1. CASE Info(c)
    BY <2>1 DEF Info
  <2>2. CASE Similar(c)
    BY <2>2 DEF Similar
  <2>3. ASSUME NEW a \in Artists, Store(c, a) PROVE UNCHANGED row
    BY <2>3 DEF Store
  <2>4. CASE Stored(c)
    BY <2>4 DEF Stored
  <2>5. CASE MB(c)
    BY <2>5 DEF MB
  <2>6. CASE WriteFails(c)
    BY <2>6 DEF WriteFails
  <2> QED
    BY <1>6, <2>1, <2>2, <2>3, <2>4, <2>5, <2>6 DEF EnrichOne
<1>7. CASE UNCHANGED vars
  BY <1>7 DEF vars
<1> QED
  BY <1>1, <1>2, <1>3, <1>4, <1>5, <1>6, <1>7 DEF Next

LEMMA RowInvInit == Init => RowInv
BY DEF Init, RowInv, RowType

LEMMA RowStep ==
    ASSUME RowInv, [Next]_vars
    PROVE  /\ RowInv'
           /\ \A a \in Artists : row[a].tags = "lastfm" => row'[a].tags = "lastfm"
           /\ \A a \in Artists : row'[a].state # row[a].state =>
                 \E c \in Callers : live[c] /\ artist[c] = a
<1>1. ASSUME NEW c \in Callers, Write(c)
      PROVE  /\ RowInv'
             /\ \A a \in Artists : row[a].tags = "lastfm" => row'[a].tags = "lastfm"
             /\ \A a \in Artists : row'[a].state # row[a].state =>
                   \E d \in Callers : live[d] /\ artist[d] = a
  BY <1>1, WriteStep
<1>2. ASSUME NEW a \in Artists, Upsert(a)
      PROVE  /\ RowInv'
             /\ \A b \in Artists : row[b].tags = "lastfm" => row'[b].tags = "lastfm"
             /\ \A b \in Artists : row'[b].state = row[b].state
  BY <1>2, UpsertStep
<1>3. ASSUME UNCHANGED row
      PROVE  /\ RowInv'
             /\ \A a \in Artists : row'[a] = row[a]
  BY <1>3 DEF RowInv
<1>4. \/ \E c \in Callers : Write(c)
      \/ \E a \in Artists : Upsert(a)
      \/ UNCHANGED row
  BY OthersKeepRows
<1> QED
  BY <1>1, <1>2, <1>3, <1>4

-----------------------------------------------------------------------------
(* The types.  The table only grows, so that what names a row goes on to   *)
(* name it.                                                                *)

Stages == {"idle", "next", "lastfm", "similar", "store", "mb", "write"}

TableOK == table \in Seq(Artists)

BatchOK ==
    /\ batch \in SUBSET (1..Len(table))
    /\ Cardinality(batch) <= BatchSize

CallersOK ==
    /\ pc \in [Callers -> Stages]
    /\ artist \in [Callers -> Artists \cup {Nobody}]
    /\ \A c \in Callers : pc[c] \notin {"idle", "next"} => artist[c] \in Known
    /\ sources \in [Callers -> SUBSET Sources]
    /\ similar \in [Callers -> SUBSET Artists]
    /\ live \in [Callers -> BOOLEAN]
    /\ faults \in 0..MaxFaults

\* INSERT ... ON CONFLICT adds a row at the end, or none.
LEMMA Inserted ==
    ASSUME TableOK, NEW a \in Artists, Insert(a)
    PROVE  TableOK' /\ Len(table) <= Len(table') /\ Known \subseteq Known'
<1>1. CASE table' = table
  BY <1>1 DEF TableOK, Known
<1>2. CASE table' = Append(table, a)
  <2>1. table' \in Seq(Artists) /\ Len(table') = Len(table) + 1
    BY <1>2 DEF TableOK
  <2>2. \A i \in 1..Len(table) : table'[i] = table[i]
    BY <1>2 DEF TableOK
  <2>3. Len(table) \in Nat
    BY DEF TableOK
  <2>4. 1..Len(table) \subseteq 1..Len(table')
    BY <2>1, <2>3
  <2>5. Known \subseteq Known'
    BY <2>2, <2>4 DEF Known
  <2> QED
    BY <2>1, <2>3, <2>5 DEF TableOK
<1> QED
  BY <1>1, <1>2 DEF Insert

LEMMA TableStep ==
    ASSUME TableOK, [Next]_vars
    PROVE  TableOK' /\ Len(table) <= Len(table') /\ Known \subseteq Known'
<1>1. CASE UNCHANGED table
  BY <1>1 DEF TableOK, Known
<1>2. ASSUME NEW a \in Artists, Insert(a)
      PROVE  TableOK' /\ Len(table) <= Len(table') /\ Known \subseteq Known'
  BY <1>2, Inserted
<1>3. UNCHANGED table \/ \E a \in Artists : Insert(a)
  <2> USE DEF db
  <2>1. CASE StartBatch
    BY <2>1 DEF StartBatch
  <2>2. CASE NextArtist
    BY <2>2 DEF NextArtist
  <2>3. CASE EndBatch
    BY <2>3 DEF EndBatch
  <2>4. CASE \E c \in Admins, a \in Artists : EnrichArtist(c, a)
    BY <2>4 DEF EnrichArtist
  <2>5. CASE \E c \in Callers : Cancel(c)
    BY <2>5 DEF Cancel
  <2>6. ASSUME NEW c \in Callers, EnrichOne(c)
        PROVE  UNCHANGED table \/ \E a \in Artists : Insert(a)
    BY <2>6 DEF EnrichOne, Info, Similar, Store, Stored, MB, Write, WriteFails
  <2>7. CASE \E a \in Artists : Upsert(a)
    BY <2>7 DEF Upsert
  <2>8. CASE UNCHANGED vars
    BY <2>8 DEF vars
  <2> QED
    BY <2>1, <2>2, <2>3, <2>4, <2>5, <2>6, <2>7, <2>8 DEF Next
<1> QED
  BY <1>1, <1>2, <1>3

\* Only the worker writes its batch; an artist of it that is taken leaves it.
LEMMA BatchStep ==
    ASSUME TableOK, BatchOK, [Next]_vars
    PROVE  BatchOK'
<1>1. Len(table) \in Nat /\ Len(table') \in Nat /\ Len(table) <= Len(table')
  BY TableStep DEF TableOK
<1>2. 1..Len(table) \subseteq 1..Len(table')
  BY <1>1
<1>3. IsFiniteSet(batch)
  <2>1. IsFiniteSet(1..Len(table))
    BY <1>1, FS_Interval
  <2> QED
    BY <2>1, FS_Subset DEF BatchOK
<1>4. CASE UNCHANGED batch
  BY <1>2, <1>4 DEF BatchOK
<1>5. CASE StartBatch
  <2>1. PICK S \in SUBSET Unenriched : Oldest(S, Unenriched) /\ batch' = S
    BY <1>5 DEF StartBatch
  <2> QED
    BY <1>2, <2>1 DEF Oldest, Unenriched, BatchOK
<1>6. CASE NextArtist
  <2>1. PICK i \in batch : batch' = batch \ {i}
    BY <1>6 DEF NextArtist
  <2>2. Cardinality(batch') <= Cardinality(batch)
    BY <1>3, <2>1, FS_Subset
  <2>3. Cardinality(batch) \in Nat /\ Cardinality(batch') \in Nat
    BY <1>3, <2>1, FS_RemoveElement, FS_CardinalityType
  <2> QED
    BY <1>2, <2>1, <2>2, <2>3, EnrichmentAssumption DEF BatchOK
<1>7. CASE EndBatch
  <2>1. batch' = {}
    BY <1>7 DEF EndBatch
  <2> QED
    BY <2>1, FS_EmptySet, EnrichmentAssumption DEF BatchOK
<1>8. ASSUME NEW c \in Callers, EnrichOne(c) PROVE UNCHANGED batch
  BY <1>8 DEF EnrichOne, Info, Similar, Store, Stored, MB, Write, WriteFails
<1> QED
  BY <1>4, <1>5, <1>6, <1>7, <1>8 DEF Next, EnrichArtist, Cancel, Upsert, vars

\* Each caller's step, under TypeOK; the batch's artists are in the table.
LEMMA CallersStep ==
    ASSUME TableOK, BatchOK, CallersOK, [Next]_vars
    PROVE  CallersOK'
<1> USE DEF CallersOK, Stages, Sources
<1>1. Known \subseteq Known'
  BY TableStep
<1>2. Known \subseteq Artists
  BY DEF TableOK, Known
<1>3. Worker \in Callers /\ Admins \subseteq Callers
  BY DEF Callers
<1>4. CASE StartBatch
  BY <1>1, <1>3, <1>4 DEF StartBatch, Goto, local
<1>5. CASE NextArtist
  <2>1. PICK i \in batch : Begin(Worker, table[i])
    BY <1>5 DEF NextArtist
  <2>2. table[i] \in Known
    BY <2>1 DEF BatchOK, Known
  <2> HIDE DEF Known
  <2> QED
    BY <1>1, <1>2, <1>3, <1>5, <2>1, <2>2 DEF NextArtist, Begin, Goto
<1>6. CASE EndBatch
  BY <1>1, <1>3, <1>6 DEF EndBatch, Goto, local
<1>7. ASSUME NEW c \in Admins, NEW a \in Artists, EnrichArtist(c, a) PROVE CallersOK'
  BY <1>1, <1>3, <1>7 DEF EnrichArtist, Begin, Goto
<1>8. ASSUME NEW c \in Callers, Cancel(c) PROVE CallersOK'
  BY <1>1, <1>8 DEF Cancel, local
<1>9. ASSUME NEW c \in Callers, Info(c) PROVE CallersOK'
  BY <1>1, <1>9 DEF Info, Goto
<1>10. ASSUME NEW c \in Callers, Similar(c) PROVE CallersOK'
  BY <1>1, <1>10 DEF Similar, Goto
<1>11. ASSUME NEW c \in Callers, NEW a \in Artists, Store(c, a) PROVE CallersOK'
  BY <1>1, <1>11 DEF Store
<1>12. ASSUME NEW c \in Callers, Stored(c) PROVE CallersOK'
  BY <1>1, <1>12 DEF Stored, Goto, local
<1>13. ASSUME NEW c \in Callers, MB(c) PROVE CallersOK'
  BY <1>1, <1>13 DEF MB, Goto
<1>14. ASSUME NEW c \in Callers, Write(c) PROVE CallersOK'
  BY <1>1, <1>14 DEF Write, Return, Goto
<1>15. ASSUME NEW c \in Callers, WriteFails(c) PROVE CallersOK'
  <2>1. faults' \in 0..MaxFaults
    BY <1>15, EnrichmentAssumption DEF WriteFails
  <2> QED
    BY <1>1, <1>15, <2>1 DEF WriteFails, Return, Goto
<1>16. ASSUME NEW a \in Artists, Upsert(a) PROVE CallersOK'
  BY <1>1, <1>16 DEF Upsert, local
<1>17. CASE UNCHANGED vars
  BY <1>1, <1>17 DEF vars, local
<1> QED
  BY <1>4, <1>5, <1>6, <1>7, <1>8, <1>9, <1>10, <1>11, <1>12, <1>13, <1>14, <1>15,
     <1>16, <1>17 DEF Next, EnrichOne

LEMMA TypesInit == Init => TableOK /\ BatchOK /\ CallersOK
<1> SUFFICES ASSUME Init PROVE TableOK /\ BatchOK /\ CallersOK
  OBVIOUS
<1>1. TableOK
  BY DEF Init, TableOK
<1>2. BatchOK
  BY FS_EmptySet, EnrichmentAssumption DEF Init, BatchOK
<1>3. CallersOK
  BY EnrichmentAssumption DEF Init, CallersOK, Stages, Sources
<1> QED
  BY <1>1, <1>2, <1>3

-----------------------------------------------------------------------------

\* The types hold for any numbers of artists and administrators: a batch is no
\* larger than its LIMIT, and whoever writes, after any number of upserts and new
\* stubs, writes an artist that is in the table (worker.go:73-126).
THEOREM TypeCorrect == Spec => []TypeOK
<1> DEFINE Inv == TableOK /\ BatchOK /\ CallersOK /\ RowInv
<1>1. Init => Inv
  BY TypesInit, RowInvInit
<1>2. Inv /\ [Next]_vars => Inv'
  BY TableStep, BatchStep, CallersStep, RowStep
<1>3. Inv => TypeOK
  BY DEF TableOK, BatchOK, CallersOK, RowInv, RowType, Stages, TypeOK
<1> QED
  BY <1>1, <1>2, <1>3, PTL DEF Spec

\* Tags from Last.fm are never taken back, by whichever of the concurrent
\* enrichments and upserts (importer.go:255-268, worker.go:193-208).
THEOREM TagsStay == Spec => TagsKept
<1>1. RowInv /\ [Next]_vars => RowInv'
  BY RowStep
<1>2. RowInv /\ [Next]_vars =>
        [\A a \in Artists : row[a].tags = "lastfm" => row'[a].tags = "lastfm"]_vars
  BY RowStep
<1> QED
  BY RowInvInit, <1>1, <1>2, PTL DEF Spec, TagsKept

\* An artist leaves the pending ones only by a caller that works on it and whose
\* context has not been cancelled (worker.go:191-198, 107-111).
THEOREM InterruptedStays == Spec => InterruptedStaysPending
<1>1. RowInv /\ [Next]_vars => RowInv'
  BY RowStep
<1>2. RowInv /\ [Next]_vars =>
        [\A a \in Artists : row[a].state = "pending" /\ row'[a].state # "pending" =>
            \E c \in Callers : live[c] /\ artist[c] = a]_vars
  BY RowStep
<1> QED
  BY RowInvInit, <1>1, <1>2, PTL DEF Spec, InterruptedStaysPending
=============================================================================
