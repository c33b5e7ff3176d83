------------------------------- MODULE Webradio -------------------------------
(***************************************************************************)
(* The webradio folder, which the Plex sync writes and the bridge reads:   *)
(* one folder of audio files for each playlist, and the artifacts.         *)
(***************************************************************************)
EXTENDS Naturals

CONSTANTS
    Playlists,   \* the playlists mapped to a stage
    NoPlaylist,  \* none
    Names,       \* the audio file names of a playlist's folder
    MaxRuns      \* bound on the runs of the sync

ASSUME WebradioAssumption == NoPlaylist \notin Playlists /\ MaxRuns \in Nat

\* An audio file is known by its folder and its name.
Tracks == Playlists \X Names
In(p) == {t \in Tracks : t[1] = p}

\* A file's content is the number of the run that wrote it, 0 when it is absent.
Files == 0..MaxRuns

\* What the manifest holds of an artifact is the content that it hashed.
Manifests == [gen : Files, artists : Files, index : Files]
NoManifest == [gen |-> 0, artists |-> 0, index |-> 0]
=============================================================================
