------------------------------- MODULE Importer -------------------------------
(***************************************************************************)
(* The disk importer of the bridge (apps/bridge/disk): SyncOnce reads the  *)
(* webradio folder PlexSync writes and brings library_tracks, track_stages *)
(* and artists to it.  The mutex makes it one SyncOnce at a time.  The     *)
(* folder's variables are PlexSync's and change between any two steps.     *)
(*                                                                         *)
(* A playlist belongs to one stage, so a row of track_stages is known by   *)
(* its track.  A row's content is the run whose sidecar it was read from.  *)
(***************************************************************************)
EXTENDS Webradio, Sequences

CONSTANTS
    Order,       \* the playlists in the order of the stages
    MaxFaults    \* bound on database errors and restarts of the bridge

ASSUME ImporterAssumption ==
    /\ Order \in Seq(Playlists)
    /\ \A p \in Playlists : \E i \in DOMAIN Order : Order[i] = p
    /\ MaxFaults \in Nat

VARIABLES
    audio, sidecar, artists, index, manifest,   \* the folder, see PlexSync
    ipc,         \* where SyncOnce is
    loaded,      \* the manifest it loaded
    todo,        \* how many playlists it has walked
    listing,     \* the files ReadDir returned and it has not read yet
    got,         \* the rows of the open transaction: track to content, 0 none
    current,     \* currentPaths
    errors,      \* len(result.Errors) > 0
    lastGeneration,
    active,      \* library_tracks: the rows that are not soft-deleted
    row,         \* library_tracks: the content of each row, 0 when there is none
    member,      \* track_stages
    artistRows,  \* the artists.json that artists was last brought to
    faults,      \* database errors and restarts so far
    missing      \* history: the tracks missing from the folder at some time of SyncOnce

folder == <<audio, sidecar, artists, index, manifest>>
scan == <<loaded, todo, listing, got, current, errors>>
db == <<active, row, member, artistRows>>

Nothing == [t \in Tracks |-> 0]

\* The tracks the folder holds: an audio file with a readable sidecar.
OnDisk == {t \in audio : sidecar[t] # 0}

Init ==
    /\ ipc = "idle"
    /\ loaded = NoManifest
    /\ todo = 0
    /\ listing = {}
    /\ got = Nothing
    /\ current = {}
    /\ errors = FALSE
    /\ lastGeneration = 0
    /\ active = {}
    /\ row = Nothing
    /\ member = {}
    /\ artistRows = 0
    /\ faults = 0
    /\ missing = {}

\* A step of SyncOnce leaves the database alone and goes to another line.
Reads(from, to) ==
    /\ ipc = from /\ ipc' = to
    /\ UNCHANGED <<db, faults, lastGeneration>>

\* SyncOnce returns: its variables are gone.
Return ==
    /\ ipc' = "idle"
    /\ loaded' = NoManifest
    /\ todo' = 0
    /\ listing' = {}
    /\ got' = Nothing
    /\ current' = {}
    /\ errors' = FALSE
    /\ missing' = {}

\* SyncOnce locks mu and loads the manifest, if there is one.
Load ==
    /\ Reads("idle", "verify")
    /\ manifest.gen # 0
    /\ loaded' = manifest
    /\ missing' = Tracks \ OnDisk
    /\ UNCHANGED <<todo, listing, got, current, errors>>

\* Variant: the artifacts are not compared with the manifest.
AcceptsAll == TRUE

\* VerifyManifest.  The writer replaces the artifacts one after the other, so
\* that reading them at one time loses no outcome.
Verified == artists = loaded.artists /\ index = loaded.index

\* The verification fails, and SyncOnce returns the error.
Reject ==
    /\ ipc = "verify"
    /\ ~Verified
    /\ Return
    /\ UNCHANGED <<db, faults, lastGeneration>>

\* This generation has been imported.
Skip ==
    /\ ipc = "verify"
    /\ Verified
    /\ loaded.gen = lastGeneration
    /\ Return
    /\ UNCHANGED <<db, faults, lastGeneration>>

Begin ==
    /\ Reads("verify", "artists")
    /\ Verified
    /\ loaded.gen # lastGeneration
    /\ UNCHANGED <<scan, missing>>

\* artists.json is read once more, and upserted in one transaction.
UpsertArtists ==
    /\ ipc = "artists" /\ ipc' = "walk"
    /\ artistRows' = artists
    /\ UNCHANGED <<scan, active, row, member, faults, lastGeneration, missing>>

\* syncPlaylistFolder lists the next folder and opens a transaction.
ReadDir ==
    /\ Reads("walk", "read")
    /\ todo < Len(Order)
    /\ todo' = todo + 1
    /\ listing' = audio \cap In(Order[todo + 1])
    /\ UNCHANGED <<loaded, got, current, errors, missing>>

\* A sidecar is read and upserted; one that cannot be read is passed over.
ReadSidecar(t) ==
    /\ Reads("read", "read")
    /\ t \in listing
    /\ listing' = listing \ {t}
    /\ got' = [got EXCEPT ![t] = sidecar[t]]
    /\ UNCHANGED <<loaded, todo, current, errors, missing>>

Kept == {t \in Tracks : got[t] # 0}

\* Variant: a row that exists is not updated.
CommitInserts ==
    /\ ipc = "read" /\ listing = {}
    /\ ipc' = "walk"
    /\ active' = active \cup Kept
    /\ row' = [t \in Tracks |-> IF row[t] = 0 THEN got[t] ELSE row[t]]
    /\ member' = member \cup Kept
    /\ current' = current \cup Kept
    /\ got' = Nothing
    /\ UNCHANGED <<loaded, todo, listing, errors, artistRows, faults,
                   lastGeneration, missing>>

\* The playlist's transaction commits.
Commit ==
    /\ ipc = "read" /\ listing = {}
    /\ ipc' = "walk"
    /\ active' = active \cup Kept
    /\ row' = [t \in Tracks |-> IF t \in Kept THEN got[t] ELSE row[t]]
    /\ member' = member \cup Kept
    /\ current' = current \cup Kept
    /\ got' = Nothing
    /\ UNCHANGED <<loaded, todo, listing, errors, artistRows, faults,
                   lastGeneration, missing>>

\* materializeArtistStubs, after the last playlist.
Stubs ==
    /\ Reads("walk", "delete")
    /\ todo = Len(Order)
    /\ UNCHANGED <<scan, missing>>

\* softDeleteOrphans, which does nothing when no track was found.
SoftDelete ==
    /\ ipc = "delete" /\ ipc' = "prune"
    /\ active' = IF current = {} THEN active ELSE active \cap current
    /\ UNCHANGED <<scan, row, member, artistRows, faults, lastGeneration, missing>>

\* pruneStageMemberships of every stage.  Each stage has a statement of its
\* own; the rows of two stages are disjoint.
Prune ==
    /\ ipc = "prune" /\ ipc' = "finish"
    /\ member' = member \cap current
    /\ UNCHANGED <<scan, active, row, artistRows, faults, lastGeneration, missing>>

\* Variant: the generation counts as imported whatever failed.
FinishAnyway ==
    /\ ipc = "finish"
    /\ lastGeneration' = loaded.gen
    /\ Return
    /\ UNCHANGED <<db, faults>>

\* Only a run without errors advances lastGeneration.
Finish ==
    /\ ipc = "finish"
    /\ lastGeneration' = IF errors THEN lastGeneration ELSE loaded.gen
    /\ Return
    /\ UNCHANGED <<db, faults>>

Fault == faults < MaxFaults /\ faults' = faults + 1

\* Variant: a playlist that fails is left out and the run goes on.
AbortPlaylist ==
    /\ ipc = "read" /\ Fault
    /\ ipc' = "walk"
    /\ errors' = TRUE
    /\ listing' = {}
    /\ got' = Nothing
    /\ UNCHANGED <<loaded, todo, current, db, lastGeneration, missing>>

\* The artists' or a playlist's transaction fails: SyncOnce returns.
Abort ==
    /\ ipc \in {"artists", "read"} /\ Fault
    /\ Return
    /\ UNCHANGED <<db, lastGeneration>>

\* A later statement fails: the error is noted and the run goes on.  When a
\* prune fails, those of some stages may have succeeded.
Fails ==
    /\ \/ ipc = "walk" /\ todo = Len(Order) /\ ipc' = "delete" /\ UNCHANGED member
       \/ ipc = "delete" /\ ipc' = "prune" /\ UNCHANGED member
       \/ /\ ipc = "prune" /\ ipc' = "finish"
          /\ \E ps \in SUBSET Playlists :
                member' = member \cap (current \cup UNION {In(p) : p \in ps})
    /\ Fault
    /\ errors' = TRUE
    /\ UNCHANGED <<loaded, todo, listing, got, current, active, row, artistRows,
                   lastGeneration, missing>>

\* The bridge is restarted: what was not committed is lost.
Restart ==
    /\ Fault
    /\ lastGeneration' = 0
    /\ Return
    /\ UNCHANGED db

Run ==
    \/ Reject \/ Skip \/ Begin \/ UpsertArtists \/ ReadDir
    \/ (\E t \in Tracks : ReadSidecar(t)) \/ Commit
    \/ Stubs \/ SoftDelete \/ Prune \/ Finish

Next == Load \/ Run \/ Abort \/ Fails \/ Restart
=============================================================================
