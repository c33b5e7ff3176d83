------------------------------- MODULE DiskSync -------------------------------
(***************************************************************************)
(* The Plex sync and the disk importer around the webradio folder: two     *)
(* processes that share files and no lock.                                 *)
(***************************************************************************)
EXTENDS Importer

VARIABLES touched, ppc, run, left, playlist, songs, work, keep, stale

Plex == INSTANCE PlexSync

reader == <<ipc, scan, lastGeneration, db, faults>>
writer == <<folder, touched, ppc, run, left, playlist, songs, work, keep, stale>>
all == <<reader, writer, missing>>

SyncInit == Init /\ Plex!Init

\* A step of the sync; a run of the importer remembers what was missing.
Write ==
    /\ Plex!Next
    /\ missing' = IF ipc = "idle" THEN {} ELSE missing \cup (Tracks \ OnDisk')
    /\ UNCHANGED reader

Import == Next /\ UNCHANGED writer

SyncNext == Write \/ Import

SyncSpec == SyncInit /\ [][SyncNext]_all

\* The importer's ticker fires and its steps go on.  Runs of the sync and an
\* end of its crashes are not promised.
SyncFair == SyncSpec /\ WF_all((Load \/ Run) /\ UNCHANGED writer)

-----------------------------------------------------------------------------
(* Properties                                                              *)

\* The types of both processes.
TypeOK ==
    /\ Plex!TypeOK
    /\ ipc \in {"idle", "verify", "artists", "walk", "read", "delete", "prune", "finish"}
    /\ loaded \in Manifests
    /\ todo \in 0..Len(Order)
    /\ listing \in SUBSET Tracks
    /\ got \in [Tracks -> Files]
    /\ current \in SUBSET Tracks
    /\ errors \in BOOLEAN
    /\ lastGeneration \in Files
    /\ active \in SUBSET Tracks
    /\ row \in [Tracks -> Files]
    /\ member \in SUBSET Tracks
    /\ artistRows \in Files
    /\ faults \in 0..MaxFaults
    /\ missing \in SUBSET Tracks

\* The database shows what the folder holds.
Mirrors ==
    /\ active = OnDisk /\ member = OnDisk
    /\ \A t \in OnDisk : row[t] = sidecar[t]
    /\ artistRows = artists

\* The importer skips a generation only once the database mirrors the folder,
\* whatever failed, was aborted or was restarted on the way: a database error
\* never loses a generation's changes (importer.go:132-140, 216-224).
SkippedIsImported ==
    lastGeneration = manifest.gen /\ lastGeneration # 0 /\ ~touched /\ OnDisk # {}
        => Mirrors

\* A track disappears from the library only if its file or sidecar was missing
\* at some time of the run, in particular not because the walk of a playlist
\* failed (importer.go:161-171).
NoFalseDelete == [][active \ active' \subseteq missing]_all

\* A skipped generation is one whose own artists were imported
\* (importer.go:52-57, 127-140).
SkipHasArtists ==
    [][ipc = "verify" /\ ipc' = "idle" /\ Verified /\ lastGeneration' = loaded.gen
          => artistRows = loaded.artists]_all

\* Once the sync has finished and the database answers, the library mirrors the
\* folder (importer.go:115-116).
Converges ==
    []<>(touched \/ manifest.gen = 0 \/ OnDisk = {} \/ Mirrors)

\* What plex_webradio_sync.py:848-851 says of the sweep: a file it removes
\* belongs to a track Plex no longer has in the playlist.
SweepsRemovedTracks == [][ppc = "sweep" => (audio \ audio') \cap songs = {}]_all
=============================================================================
