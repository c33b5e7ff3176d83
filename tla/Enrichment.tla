------------------------------ MODULE Enrichment ------------------------------
(***************************************************************************)
(* The enrichment of artists from Last.fm and MusicBrainz (apps/bridge/    *)
(* enrichment): the worker's batches and an administrator's requests work  *)
(* side by side on the table artists, while the disk importer upserts the  *)
(* artists of the library.  An artist is its name.  Of a row the model     *)
(* keeps what the properties tell apart: bio, image, MBID and country are  *)
(* COALESCEd and never taken back; artist_relations is only written here.  *)
(* A call may be refused by its breaker at any time, which is more than    *)
(* CircuitBreaker allows.                                                  *)
(***************************************************************************)
EXTENDS Naturals, FiniteSets, Sequences

CONSTANTS
    Artists,     \* the names the library and Last.fm may come up with
    Worker,      \* the worker's goroutine
    Admins,      \* the handlers of forced enrichments
    BatchSize,   \* the LIMIT of a batch
    Limit,       \* the limit of a list of similar artists
    MaxFaults,   \* bound on the failures of an artist's last UPDATE
    Nobody       \* the artist of a caller that enriches none

ASSUME EnrichmentAssumption ==
    /\ Worker \notin Admins
    /\ Nobody \notin Artists
    /\ BatchSize \in Nat \ {0}
    /\ Limit \in Nat
    /\ MaxFaults \in Nat

VARIABLES
    table,       \* the names in artists, by created_at and id
    row,         \* of each: pending (enriched_at is NULL), failed or enriched,
                 \* and where its tags are from
    batch,       \* the places in table of what is left of the worker's batch
    pc,          \* where each caller is in enrichOne
    artist,      \* the artist it enriches
    sources,     \* the sources that have answered
    similar,     \* the similar artists still to be stored
    live,        \* its context has not been cancelled
    faults

db == <<table, row>>
local == <<artist, sources, similar>>
vars == <<db, batch, pc, local, live, faults>>

Callers == Admins \cup {Worker}
Sources == {"lastfm", "musicbrainz"}
Known == {table[i] : i \in 1..Len(table)}

\* INSERT ... ON CONFLICT: the row is created, pending, if there is none.
Insert(a) == table' = IF a \in Known THEN table ELSE Append(table, a)

Init ==
    /\ \E a \in Artists : table = <<a>>
    /\ row = [a \in Artists |-> [state |-> "pending", tags |-> "none"]]
    /\ batch = {}
    /\ pc = [c \in Callers |-> "idle"]
    /\ artist = [c \in Callers |-> Nobody]
    /\ sources = [c \in Callers |-> {}]
    /\ similar = [c \in Callers |-> {}]
    /\ live = [c \in Callers |-> TRUE]
    /\ faults = 0

Goto(c, l) == pc' = [pc EXCEPT ![c] = l]

Begin(c, a) ==
    /\ Goto(c, "lastfm")
    /\ artist' = [artist EXCEPT ![c] = a]
    /\ UNCHANGED <<sources, similar>>

Return(c) ==
    /\ Goto(c, IF c = Worker THEN "next" ELSE "idle")
    /\ artist' = [artist EXCEPT ![c] = Nobody]
    /\ sources' = [sources EXCEPT ![c] = {}]
    /\ UNCHANGED similar

-----------------------------------------------------------------------------
(* The worker's batches, and the administrator's request                   *)

\* The places of the artists whose enriched_at is NULL.
Unenriched == {i \in 1..Len(table) : row[table[i]].state = "pending"}

\* Variant: a batch without LIMIT.
OldestAll(S, U) == S = U

\* S are the oldest of the places in U, as many as LIMIT lets through.
Oldest(S, U) ==
    /\ S \subseteq U
    /\ \A i \in S, j \in U \ S : i < j
    /\ Cardinality(S) <= BatchSize
    /\ Cardinality(S) = BatchSize \/ S = U

\* A tick finds artists to enrich; with none, or a query that fails, it is over.
StartBatch ==
    /\ pc[Worker] = "idle"
    /\ live[Worker]
    /\ Unenriched # {}
    /\ \E S \in SUBSET Unenriched : Oldest(S, Unenriched) /\ batch' = S
    /\ Goto(Worker, "next")
    /\ UNCHANGED <<db, local, live, faults>>

\* The next artist of the batch, whatever has become of its row since.
NextArtist ==
    /\ pc[Worker] = "next"
    /\ live[Worker]
    /\ \E i \in batch :
          /\ \A j \in batch : i <= j
          /\ Begin(Worker, table[i])
          /\ batch' = batch \ {i}
    /\ UNCHANGED <<db, live, faults>>

\* The batch is complete, or the context is done.
EndBatch ==
    /\ pc[Worker] = "next"
    /\ batch = {} \/ ~live[Worker]
    /\ batch' = {}
    /\ Goto(Worker, "idle")
    /\ UNCHANGED <<db, local, live, faults>>

\* POST /api/artists/{id}/enrich, under the request's own context.
EnrichArtist(c, a) ==
    /\ pc[c] = "idle"
    /\ a \in Known
    /\ Begin(c, a)
    /\ live' = [live EXCEPT ![c] = TRUE]
    /\ UNCHANGED <<db, batch, faults>>

\* The bridge shuts down, or the administrator's browser goes away.
Cancel(c) ==
    /\ live[c]
    /\ pc[c] # "idle" \/ c = Worker
    /\ live' = [live EXCEPT ![c] = FALSE]
    /\ UNCHANGED <<db, batch, pc, local, faults>>

-----------------------------------------------------------------------------
(* enrichOne                                                               *)

\* GetArtistInfo: refused by the breaker, or failed for the network's or
\* Last.fm's reasons, by its timeout, or with its context.
Info(c) ==
    /\ pc[c] = "lastfm"
    /\ \/ /\ live[c]
          /\ sources' = [sources EXCEPT ![c] = {"lastfm"}]
          /\ Goto(c, "similar")
       \/ Goto(c, "mb") /\ UNCHANGED sources
    /\ UNCHANGED <<db, batch, artist, similar, live, faults>>

\* GetSimilarArtists, without the weak matches; the breaker is asked again.
Similar(c) ==
    /\ pc[c] = "similar"
    /\ \/ /\ live[c]
          /\ \E S \in SUBSET Artists :
                Cardinality(S) <= Limit /\ similar' = [similar EXCEPT ![c] = S]
          /\ Goto(c, "store")
       \/ Goto(c, "mb") /\ UNCHANGED similar
    /\ UNCHANGED <<db, batch, artist, sources, live, faults>>

\* One similar artist is found or created, before its relation is inserted.
Store(c, a) ==
    /\ pc[c] = "store"
    /\ a \in similar[c]
    /\ similar' = [similar EXCEPT ![c] = @ \ {a}]
    /\ \/ UNCHANGED table
       \/ /\ live[c]
          /\ Insert(a)
    /\ UNCHANGED <<row, batch, pc, artist, sources, live, faults>>

Stored(c) ==
    /\ pc[c] = "store"
    /\ similar[c] = {}
    /\ Goto(c, "mb")
    /\ UNCHANGED <<db, batch, local, live, faults>>

\* LookupArtist with Last.fm's MBID, or else SearchArtist: an MBID of the wrong
\* form, an artist not found and a weak match are failures too.
MB(c) ==
    /\ pc[c] = "mb"
    /\ \/ /\ live[c]
          /\ sources' = [sources EXCEPT ![c] = @ \cup {"musicbrainz"}]
       \/ UNCHANGED sources
    /\ Goto(c, "write")
    /\ UNCHANGED <<db, batch, artist, similar, live, faults>>

\* What the UPDATE makes of a row: Last.fm's tags, if it has sent any, and the
\* mark.
Updated(r, S) ==
    {[state |-> IF S = {} THEN "failed" ELSE "enriched", tags |-> t] :
        t \in IF "lastfm" \in S THEN {r.tags, "lastfm"} ELSE {r.tags}}

\* Variant: the row is written under a context of its own.
WriteDetached(c) ==
    /\ pc[c] = "write"
    /\ \E r \in Updated(row[artist[c]], sources[c]) : row' = [row EXCEPT ![artist[c]] = r]
    /\ Return(c)
    /\ UNCHANGED <<table, batch, live, faults>>

\* Variant: an artist of which no source knows anything is left as it is.
WriteKnownOnly(c) ==
    /\ pc[c] = "write"
    /\ live[c]
    /\ IF sources[c] = {} THEN UNCHANGED row
       ELSE \E r \in Updated(row[artist[c]], sources[c]) : row' = [row EXCEPT ![artist[c]] = r]
    /\ Return(c)
    /\ UNCHANGED <<table, batch, live, faults>>

\* The UPDATE of the row.
Write(c) ==
    /\ pc[c] = "write"
    /\ live[c]
    /\ \E r \in Updated(row[artist[c]], sources[c]) : row' = [row EXCEPT ![artist[c]] = r]
    /\ Return(c)
    /\ UNCHANGED <<table, batch, live, faults>>

\* The UPDATE fails, for its context or for the database's reasons.
WriteFails(c) ==
    /\ pc[c] = "write"
    /\ \/ ~live[c] /\ UNCHANGED faults
       \/ faults < MaxFaults /\ faults' = faults + 1
    /\ Return(c)
    /\ UNCHANGED <<db, batch, live>>

-----------------------------------------------------------------------------
(* The disk importer's upsert of an artist                                 *)

\* Variant: the importer's tags replace the row's.
ImportTagsAlways(a) == [row EXCEPT ![a].tags = "plex"]

\* Plex's tags are taken only by a row that has never been enriched.
ImportTags(a) == [row EXCEPT ![a].tags = IF row[a].state = "pending" THEN "plex" ELSE @]

Upsert(a) ==
    /\ Insert(a)
    /\ row' = ImportTags(a)
    /\ UNCHANGED <<batch, pc, local, live, faults>>

-----------------------------------------------------------------------------

EnrichOne(c) ==
    \/ Info(c) \/ Similar(c) \/ (\E a \in Artists : Store(c, a)) \/ Stored(c)
    \/ MB(c) \/ Write(c) \/ WriteFails(c)

Next ==
    \/ StartBatch \/ NextArtist \/ EndBatch
    \/ \E c \in Admins, a \in Artists : EnrichArtist(c, a)
    \/ \E c \in Callers : EnrichOne(c) \/ Cancel(c)
    \/ \E a \in Artists : Upsert(a)

Spec == Init /\ [][Next]_vars

\* The ticker goes on, and so do the steps of an enrichment: a call ends by its
\* answer or its timeout, and the database answers, if with an error.  Nothing is
\* assumed of the administrator, of what the sources answer, or of the importer.
Fairness ==
    /\ WF_vars(StartBatch)
    /\ WF_vars(NextArtist \/ EndBatch)
    /\ WF_vars(EnrichOne(Worker))

FairSpec == Spec /\ Fairness

-----------------------------------------------------------------------------
(* Properties                                                              *)

\* The types; a batch is no larger than its LIMIT, and a caller that writes has an
\* artist, which is in the table (worker.go:73-84).
TypeOK ==
    /\ table \in Seq(Artists)
    /\ row \in [Artists -> [state : {"pending", "failed", "enriched"},
                            tags : {"none", "plex", "lastfm"}]]
    /\ batch \in SUBSET (1..Len(table))
    /\ Cardinality(batch) <= BatchSize
    /\ pc \in [Callers -> {"idle", "next", "lastfm", "similar", "store", "mb", "write"}]
    /\ artist \in [Callers -> Artists \cup {Nobody}]
    /\ \A c \in Callers : pc[c] \notin {"idle", "next"} => artist[c] \in Known
    /\ sources \in [Callers -> SUBSET Sources]
    /\ similar \in [Callers -> SUBSET Artists]
    /\ live \in [Callers -> BOOLEAN]
    /\ faults \in 0..MaxFaults

\* Tags from Last.fm are kept for ever: neither the importer's upsert, every two
\* minutes, nor a later enrichment that brings none, nor one that fails and
\* marks the artist failed takes them back (importer.go:255-268,
\* worker.go:193-208).
TagsKept ==
    [][\A a \in Artists : row[a].tags = "lastfm" => row'[a].tags = "lastfm"]_vars

\* A shutdown or a closed browser, which makes both sources fail, does not mark
\* the interrupted artist failed: it stays pending and the next batch takes it
\* (worker.go:191-198, 107-111).
InterruptedStaysPending ==
    [][\A a \in Artists : row[a].state = "pending" /\ row'[a].state # "pending" =>
          \E c \in Callers : live[c] /\ artist[c] = a]_vars

\* Every artist in the table, a stub that another's enrichment has created
\* included, is enriched or marked failed: with the sources down, with breakers
\* open, and after failed UPDATEs; the batches do not come back to an artist for
\* ever while others wait (worker.go:73-84, 191-198).
EveryArtistSettles ==
    \A a \in Artists : a \in Known ~> row[a].state # "pending" \/ ~live[Worker]
=============================================================================
