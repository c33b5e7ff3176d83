------------------------------- MODULE PlexSync -------------------------------
(***************************************************************************)
(* The writer of the webradio folder                                       *)
(* (scripts/plex-sync/plex_webradio_sync.py).  A run mirrors playlists of  *)
(* Plex into folders of audio files with their sidecars, then writes the   *)
(* top-level artifacts, and the manifest last.  The run lock lets one run  *)
(* work at a time.                                                         *)
(***************************************************************************)
EXTENDS Webradio

VARIABLES
    audio,       \* the audio files in the folders
    sidecar,     \* the sidecar beside each
    artists,     \* artists.json
    index,       \* playlists.json, albums.json and tracks_index.json
    manifest,    \* sync_manifest.json: its generation and the files it hashes
    touched,     \* history: has the folder changed since the manifest?
    ppc,         \* where the run is
    run,         \* the number of the run
    left,        \* the playlists it has still to process
    playlist,    \* the playlist it processes
    songs,       \* what Plex returned for it
    work,        \* how far each song is in process_song
    keep,        \* keep_basenames
    stale        \* the entries _sweep_stale has still to look at

folder == <<audio, sidecar>>
artifacts == <<artists, index, manifest>>
disk == <<folder, artifacts, touched>>
job == <<run, left, playlist, songs, work, keep, stale>>
vars == <<disk, ppc, job>>

Init ==
    /\ audio = {}
    /\ sidecar = [t \in Tracks |-> 0]
    /\ artists = 0
    /\ index = 0
    /\ manifest = NoManifest
    /\ touched = FALSE
    /\ ppc = "idle"
    /\ run = 0
    /\ left = {}
    /\ playlist = NoPlaylist
    /\ songs = {}
    /\ work = [t \in Tracks |-> "out"]
    /\ keep = {}
    /\ stale = {}

\* A run takes the lock; it processes all playlists or the one chosen.
Start ==
    /\ ppc = "idle" /\ run < MaxRuns
    /\ ppc' = "playlists"
    /\ run' = run + 1
    /\ left' \in {Playlists} \cup {{p} : p \in Playlists}
    /\ UNCHANGED <<disk, playlist, songs, work, keep, stale>>

\* process_playlist: Plex lists the songs and the pool is given all of them.
BeginPlaylist(p) ==
    /\ ppc = "playlists" /\ p \in left
    /\ ppc' = "songs"
    /\ left' = left \ {p}
    /\ playlist' = p
    /\ songs' \in SUBSET In(p)
    /\ work' = [t \in Tracks |-> IF t \in songs' THEN "todo" ELSE "out"]
    /\ keep' = {}
    /\ UNCHANGED <<disk, run, stale>>

\* process_song gives a song up before keep_paths.add: no local path, no such
\* file, an exception.
SkipSong(t) ==
    /\ work[t] = "todo"
    /\ work' = [work EXCEPT ![t] = "out"]
    /\ UNCHANGED <<disk, ppc, run, left, playlist, songs, keep, stale>>

\* create_symlink removes a link to another source before it makes the new one.
Unlink(t) ==
    /\ work[t] = "todo" /\ t \in audio
    /\ work' = [work EXCEPT ![t] = "unlinked"]
    /\ audio' = audio \ {t}
    /\ touched' = TRUE
    /\ UNCHANGED <<sidecar, artifacts, ppc, run, left, playlist, songs, keep, stale>>

\* The link or the converted file is there, or could not be made; the song is
\* kept in either case.
Link(t) ==
    /\ work[t] \in {"todo", "unlinked"}
    /\ work' = [work EXCEPT ![t] = "linked"]
    /\ audio' \in {audio, audio \cup {t}}
    /\ keep' = keep \cup {t}
    /\ touched' = TRUE
    /\ UNCHANGED <<sidecar, artifacts, ppc, run, left, playlist, songs, stale>>

\* save_metadata_json replaces the sidecar atomically, or fails and leaves it.
SaveSidecar(t) ==
    /\ work[t] = "linked"
    /\ work' = [work EXCEPT ![t] = "out"]
    /\ sidecar' \in {sidecar, [sidecar EXCEPT ![t] = run]}
    /\ touched' = TRUE
    /\ UNCHANGED <<audio, artifacts, ppc, run, left, playlist, songs, keep, stale>>

\* Variant: the sweep does not wait for the pool.
EndSongsEarly ==
    /\ ppc = "songs"
    /\ ppc' = "sweep"
    /\ stale' = IF songs = {} \/ keep # {}
                THEN {t \in In(playlist) \ keep : t \in audio \/ sidecar[t] # 0}
                ELSE {}
    /\ UNCHANGED <<disk, run, left, playlist, songs, work, keep>>

\* The pool is done.  The sweep is authorised unless every song failed.
EndSongs ==
    /\ ppc = "songs"
    /\ \A t \in songs : work[t] = "out"
    /\ ppc' = "sweep"
    /\ stale' = IF songs = {} \/ keep # {}
                THEN {t \in In(playlist) \ keep : t \in audio \/ sidecar[t] # 0}
                ELSE {}
    /\ UNCHANGED <<disk, run, left, playlist, songs, work, keep>>

\* _sweep_stale removes the audio file of an entry, then its sidecar; a file
\* that cannot be removed is passed over.
SweepAudio(t) ==
    /\ ppc = "sweep" /\ t \in stale \cap audio
    /\ audio' = audio \ {t}
    /\ touched' = TRUE
    /\ UNCHANGED <<sidecar, artifacts, ppc, job>>

SweepSidecar(t) ==
    /\ ppc = "sweep" /\ t \in stale
    /\ sidecar' \in {sidecar, [sidecar EXCEPT ![t] = 0]}
    /\ stale' = stale \ {t}
    /\ touched' = TRUE
    /\ UNCHANGED <<audio, artifacts, ppc, run, left, playlist, songs, work, keep>>

EndPlaylist ==
    /\ ppc = "sweep" /\ stale = {}
    /\ ppc' = IF left = {} THEN "artists" ELSE "playlists"
    /\ playlist' = NoPlaylist
    /\ songs' = {}
    /\ keep' = {}
    /\ UNCHANGED <<disk, run, left, work, stale>>

\* save_global_metadata, artifact by artifact.
SaveArtists ==
    /\ ppc = "artists"
    /\ ppc' = "index"
    /\ artists' = run
    /\ touched' = TRUE
    /\ UNCHANGED <<folder, index, manifest, job>>

SaveIndex ==
    /\ ppc = "index"
    /\ ppc' = "manifest"
    /\ index' = run
    /\ touched' = TRUE
    /\ UNCHANGED <<folder, artists, manifest, job>>

\* write_sync_manifest hashes the artifacts and replaces the manifest.
WriteManifest ==
    /\ ppc = "manifest"
    /\ ppc' = "idle"
    /\ manifest' = [gen |-> run, artists |-> artists, index |-> index]
    /\ touched' = FALSE
    /\ UNCHANGED <<folder, artists, index, job>>

\* The run is killed, or ends with an exception; the lock goes with it.
Crash ==
    /\ ppc # "idle"
    /\ ppc' = "idle"
    /\ left' = {}
    /\ playlist' = NoPlaylist
    /\ songs' = {}
    /\ work' = [t \in Tracks |-> "out"]
    /\ keep' = {}
    /\ stale' = {}
    /\ UNCHANGED <<disk, run>>

Song(t) == SkipSong(t) \/ Unlink(t) \/ Link(t) \/ SaveSidecar(t)

Next ==
    \/ Start \/ EndSongs \/ EndPlaylist
    \/ \E p \in Playlists : BeginPlaylist(p)
    \/ \E t \in Tracks : Song(t) \/ SweepAudio(t) \/ SweepSidecar(t)
    \/ SaveArtists \/ SaveIndex \/ WriteManifest
    \/ Crash

Spec == Init /\ [][Next]_vars

-----------------------------------------------------------------------------
(* Properties                                                              *)

\* The types; no worker outlives the pool.
TypeOK ==
    /\ audio \in SUBSET Tracks
    /\ sidecar \in [Tracks -> Files]
    /\ artists \in Files
    /\ index \in Files
    /\ manifest \in Manifests
    /\ touched \in BOOLEAN
    /\ ppc \in {"idle", "playlists", "songs", "sweep", "artists", "index", "manifest"}
    /\ run \in Files
    /\ left \in SUBSET Playlists
    /\ playlist \in Playlists \cup {NoPlaylist}
    /\ songs \in SUBSET Tracks
    /\ work \in [Tracks -> {"out", "todo", "unlinked", "linked"}]
    /\ keep \in SUBSET Tracks
    /\ stale \in SUBSET Tracks
    /\ ppc # "songs" => \A t \in Tracks : work[t] = "out"
=============================================================================
