---------------------------- MODULE DiskSyncProofs ----------------------------
(***************************************************************************)
(* Proofs about the Plex sync and the disk importer around one folder.     *)
(***************************************************************************)
EXTENDS DiskSync, SequenceTheorems, TLAPS

USE WebradioAssumption, ImporterAssumption

-----------------------------------------------------------------------------
(* The types of the sync                                                   *)

\* A song is worked on only while its playlist is.
OnlySongs == \A t \in Tracks \ songs : work[t] = "out"

PlexInv == Plex!TypeOK /\ OnlySongs

\* A step of the sync keeps its types: no worker is left when the sweep starts.
LEMMA PlexKeeps == PlexInv /\ Plex!Next => PlexInv'
<1> SUFFICES ASSUME PlexInv, Plex!Next  PROVE PlexInv'
  OBVIOUS
<1> USE DEF PlexInv, OnlySongs, Plex!TypeOK, Plex!Files, Plex!Manifests, Plex!Tracks, Tracks, Files,
            Plex!folder, Plex!artifacts, Plex!disk, Plex!job
<1>1. CASE Plex!Start
  <2>1. left' \in SUBSET Playlists
    BY <1>1 DEF Plex!Start
  <2>2. run' \in Files /\ UNCHANGED <<Plex!disk, playlist, songs, work, keep, stale>>
    BY <1>1 DEF Plex!Start
  <2>3. ppc' = "playlists" /\ ppc = "idle"
    BY <1>1 DEF Plex!Start
  <2> QED  BY <2>1, <2>2, <2>3
<1>2. CASE Plex!EndSongs
  BY <1>2 DEF Plex!EndSongs, Plex!In
<1>3. CASE Plex!EndPlaylist
  BY <1>3 DEF Plex!EndPlaylist
<1>4. ASSUME NEW p \in Playlists, Plex!BeginPlaylist(p)  PROVE PlexInv'
  BY <1>4 DEF Plex!BeginPlaylist, Plex!In
<1>5. ASSUME NEW t \in Tracks, Plex!Song(t)  PROVE PlexInv'
  <2>1. CASE Plex!SkipSong(t)
    BY <1>5, <2>1 DEF Plex!SkipSong
  <2>2. CASE Plex!Unlink(t)
    BY <1>5, <2>2 DEF Plex!Unlink
  <2>3. CASE Plex!Link(t)
    BY <1>5, <2>3 DEF Plex!Link
  <2>4. CASE Plex!SaveSidecar(t)
    <3>1. sidecar' \in [Tracks -> Files]
      <4>1. sidecar \in [Tracks -> Files] /\ run \in Files
        OBVIOUS
      <4>2. [sidecar EXCEPT ![t] = run] \in [Tracks -> Files]
        BY <4>1
      <4> QED  BY <2>4, <4>1, <4>2 DEF Plex!SaveSidecar
    <3>2. work' \in [Tracks -> {"out", "todo", "unlinked", "linked"}] /\ OnlySongs'
      BY <1>5, <2>4 DEF Plex!SaveSidecar
    <3>3. ppc' # "songs" => \A u \in Tracks : work'[u] = "out"
      BY <1>5, <2>4 DEF Plex!SaveSidecar
    <3> QED  BY <2>4, <3>1, <3>2, <3>3 DEF Plex!SaveSidecar
  <2> QED  BY <1>5, <2>1, <2>2, <2>3, <2>4 DEF Plex!Song
<1>6. ASSUME NEW t \in Tracks, Plex!SweepAudio(t)  PROVE PlexInv'
  BY <1>6 DEF Plex!SweepAudio
<1>7. ASSUME NEW t \in Tracks, Plex!SweepSidecar(t)  PROVE PlexInv'
  <2>1. sidecar' \in [Tracks -> Files]
    BY <1>7 DEF Plex!SweepSidecar
  <2> QED  BY <1>7, <2>1 DEF Plex!SweepSidecar
<1>8. CASE Plex!SaveArtists
  BY <1>8 DEF Plex!SaveArtists
<1>9. CASE Plex!SaveIndex
  BY <1>9 DEF Plex!SaveIndex
<1>10. CASE Plex!WriteManifest
  BY <1>10 DEF Plex!WriteManifest
<1>11. CASE Plex!Crash
  BY <1>11 DEF Plex!Crash
<1> QED
  BY <1>1, <1>2, <1>3, <1>4, <1>5, <1>6, <1>7, <1>8, <1>9, <1>10, <1>11
     DEF Plex!Next

-----------------------------------------------------------------------------
(* The types of the importer                                               *)

ImportTypes ==
    /\ ipc \in {"idle", "verify", "artists", "walk", "read", "delete", "prune", "finish"}
    /\ loaded \in Manifests
    /\ todo \in 0..Len(Order)
    /\ listing \in SUBSET Tracks
    /\ got \in [Tracks -> Files]
    /\ current \in SUBSET Tracks
    /\ errors \in BOOLEAN
    /\ lastGeneration \in Files
    /\ active \in SUBSET Tracks
    /\ row \in [Tracks -> Files]
    /\ member \in SUBSET Tracks
    /\ artistRows \in Files
    /\ faults \in 0..MaxFaults
    /\ missing \in SUBSET Tracks

\* The folder's part that the importer copies.
FolderTypes ==
    /\ audio \in SUBSET Tracks
    /\ sidecar \in [Tracks -> Files]
    /\ artists \in Files
    /\ manifest \in Manifests

\* What the importer reads in the folder is well typed.
LEMMA FolderTyped == Plex!TypeOK => FolderTypes
BY DEF Plex!TypeOK, FolderTypes, Plex!Files, Plex!Manifests, Plex!Tracks, Tracks, Files,
       Manifests

\* TypeOK is the sync's types and the importer's.
LEMMA TypeParts == TypeOK <=> Plex!TypeOK /\ ImportTypes
BY DEF TypeOK, ImportTypes

\* The initial values are well typed.
LEMMA Blank ==
    /\ 0 \in Files /\ 0 \in 0..Len(Order)
    /\ NoManifest \in Manifests /\ Nothing \in [Tracks -> Files]
<1>1. 0 \in Files
  BY DEF Files
<1>2. Len(Order) \in Nat
  BY LenProperties
<1> QED  BY <1>1, <1>2 DEF NoManifest, Manifests, Nothing

\* What Return leaves is well typed.
LEMMA ReturnTyped ==
    ASSUME Return
    PROVE  /\ ipc' = "idle" /\ loaded' \in Manifests /\ todo' \in 0..Len(Order)
           /\ listing' \in SUBSET Tracks /\ got' \in [Tracks -> Files]
           /\ current' \in SUBSET Tracks /\ errors' \in BOOLEAN
           /\ missing' \in SUBSET Tracks
BY Blank DEF Return

\* A step of the importer keeps its types, whatever it reads in the folder.
LEMMA ImportKeepsTypes == ImportTypes /\ FolderTypes /\ Next => ImportTypes'
<1> SUFFICES ASSUME ImportTypes, FolderTypes, Next  PROVE ImportTypes'
  OBVIOUS
<1> USE DEF ImportTypes
<1> DEFINE Same == UNCHANGED <<db, faults, lastGeneration>>
<1>1. ASSUME Return, UNCHANGED db, lastGeneration' \in Files, faults' \in 0..MaxFaults
      PROVE  ImportTypes'
  BY <1>1, ReturnTyped DEF db
<1>2. faults' = faults \/ Fault => faults' \in 0..MaxFaults
  BY DEF Fault
<1>3. CASE Load
  BY <1>3 DEF Load, Reads, FolderTypes, db
<1>4. CASE Reject
  BY <1>1, <1>4 DEF Reject
<1>5. CASE Skip
  BY <1>1, <1>5 DEF Skip
<1>6. CASE Begin
  BY <1>6 DEF Begin, Reads, scan, db
<1>7. CASE UpsertArtists
  BY <1>7 DEF UpsertArtists, FolderTypes, scan
<1>8. CASE ReadDir
  <2>1. todo' \in 0..Len(Order)
    BY <1>8 DEF ReadDir
  <2>2. listing' \in SUBSET Tracks
    BY <1>8 DEF ReadDir, FolderTypes
  <2> QED  BY <1>8, <2>1, <2>2 DEF ReadDir, Reads, db
<1>9. ASSUME NEW t \in Tracks, ReadSidecar(t)  PROVE ImportTypes'
  <2>1. got' \in [Tracks -> Files]
    BY <1>9 DEF ReadSidecar, FolderTypes
  <2> QED  BY <1>9, <2>1 DEF ReadSidecar, Reads, db
<1>10. CASE Commit
  <2>1. row' \in [Tracks -> Files] /\ got' \in [Tracks -> Files]
    BY <1>10 DEF Commit, Nothing, Files
  <2>2. Kept \in SUBSET Tracks
    BY DEF Kept
  <2>3. active' \in SUBSET Tracks /\ member' \in SUBSET Tracks /\ current' \in SUBSET Tracks
    BY <1>10, <2>2 DEF Commit
  <2> QED  BY <1>10, <2>1, <2>3 DEF Commit
<1>11. CASE Stubs
  BY <1>11 DEF Stubs, Reads, scan, db
<1>12. CASE SoftDelete
  BY <1>12 DEF SoftDelete, scan
<1>13. CASE Prune
  BY <1>13 DEF Prune, scan
<1>14. CASE Finish
  <2>1. lastGeneration' \in Files
    BY <1>14 DEF Finish, Manifests
  <2> QED  BY <1>1, <1>14, <2>1 DEF Finish
<1>15. CASE Abort
  BY <1>1, <1>2, <1>15 DEF Abort
<1>16. CASE Fails
  <2>1. ipc' \in {"delete", "prune", "finish"} /\ member' \in SUBSET Tracks
    BY <1>16 DEF Fails
  <2>2. faults' \in 0..MaxFaults /\ errors' \in BOOLEAN
    BY <1>2, <1>16 DEF Fails
  <2> QED  BY <1>16, <2>1, <2>2 DEF Fails
<1>17. CASE Restart
  <2>1. lastGeneration' \in Files
    BY <1>17 DEF Restart, Files
  <2> QED  BY <1>1, <1>2, <1>17, <2>1 DEF Restart
<1> QED
  BY <1>3, <1>4, <1>5, <1>6, <1>7, <1>8, <1>9, <1>10, <1>11, <1>12, <1>13, <1>14, <1>15,
     <1>16, <1>17 DEF Next, Run

-----------------------------------------------------------------------------
(* Type correctness of the whole                                           *)

TypeInv == TypeOK /\ OnlySongs

\* Both processes start well typed.
LEMMA TypeInit == SyncInit => TypeInv
<1> SUFFICES ASSUME SyncInit  PROVE TypeInv
  OBVIOUS
<1>1. PlexInv
  <2>1. 0 \in Plex!Files /\ Plex!NoManifest \in Plex!Manifests
    BY DEF Plex!Files, Plex!NoManifest, Plex!Manifests
  <2>2. Plex!TypeOK
    BY <2>1 DEF SyncInit, Plex!Init, Plex!TypeOK, Plex!Files
  <2> QED  BY <2>2 DEF SyncInit, Plex!Init, PlexInv, OnlySongs, Plex!Tracks, Tracks
<1>2. ImportTypes
  <2>1. faults \in 0..MaxFaults
    BY DEF SyncInit, Init
  <2>2. /\ ipc = "idle" /\ loaded \in Manifests /\ todo \in 0..Len(Order)
        /\ got \in [Tracks -> Files] /\ row \in [Tracks -> Files]
        /\ lastGeneration \in Files /\ artistRows \in Files
    BY Blank DEF SyncInit, Init
  <2> QED  BY <2>1, <2>2 DEF SyncInit, Init, ImportTypes
<1> QED  BY <1>1, <1>2, TypeParts DEF TypeInv, PlexInv

\* Either process keeps the types of both.
LEMMA TypeStep == TypeInv /\ [SyncNext]_all => TypeInv'
<1> SUFFICES ASSUME TypeInv, [SyncNext]_all  PROVE TypeInv'
  OBVIOUS
<1>1. PlexInv /\ ImportTypes /\ FolderTypes
  BY TypeParts, FolderTyped DEF TypeInv, PlexInv
<1>2. CASE Write
  <2>1. PlexInv'
    BY <1>1, <1>2, PlexKeeps DEF Write
  <2>2. missing' \in SUBSET Tracks
    BY <1>1, <1>2 DEF Write, ImportTypes
  <2>3. ImportTypes'
    BY <1>1, <1>2, <2>2 DEF Write, reader, scan, db, ImportTypes
  <2> QED  BY <2>1, <2>3, TypeParts DEF TypeInv, PlexInv, TypeOK, ImportTypes
<1>3. CASE Import
  <2>1. ImportTypes'
    BY <1>1, <1>3, ImportKeepsTypes DEF Import
  <2>2. PlexInv'
    BY <1>1, <1>3 DEF Import, writer, folder, PlexInv, OnlySongs, Plex!TypeOK
  <2> QED  BY <2>1, <2>2 DEF TypeInv, PlexInv, TypeOK, ImportTypes
<1>4. CASE UNCHANGED all
  BY <1>4 DEF all, reader, writer, scan, db, folder, TypeInv, TypeOK, OnlySongs, Plex!TypeOK
<1> QED  BY <1>2, <1>3, <1>4 DEF SyncNext

\* The variables of the sync and of the importer keep their types.
THEOREM TypeCorrect == SyncSpec => []TypeOK
<1>1. TypeInv => TypeOK
  BY DEF TypeInv
<1> QED  BY <1>1, TypeInit, TypeStep, PTL DEF SyncSpec

-----------------------------------------------------------------------------
(* No false deletion                                                       *)

\* The playlists whose transaction has been committed in this SyncOnce.
Walked(i) == i \in 1..todo /\ (i < todo \/ ipc # "read")

\* What was not found in the folder was missing from it.
NotFound ==
    /\ ipc # "idle" => Tracks \ OnDisk \subseteq missing
    /\ ipc \in {"idle", "verify", "artists"} => todo = 0
    /\ ipc = "read" => In(Order[todo]) \ (listing \cup Kept) \subseteq missing
    /\ \A i \in 1..Len(Order) : Walked(i) => In(Order[i]) \ current \subseteq missing
    /\ ipc = "delete" => Tracks \ current \subseteq missing

\* Every playlist is in the order of the stages.
LEMMA AllMapped == ASSUME NEW t \in Tracks PROVE \E i \in 1..Len(Order) : t \in In(Order[i])
<1>1. t[1] \in Playlists
  BY DEF Tracks
<1>2. PICK i \in DOMAIN Order : Order[i] = t[1]
  BY <1>1
<1> QED  BY <1>2, LenProperties DEF In

\* The folder may change, but what leaves it is remembered.
LEMMA NotFoundWrite == TypeOK /\ NotFound /\ Write => NotFound'
<1> SUFFICES ASSUME TypeOK, NotFound, Write  PROVE NotFound'
  OBVIOUS
<1>1. UNCHANGED <<ipc, todo, listing, got, current>>
  BY DEF Write, reader, scan
<1>2. CASE ipc = "idle"
  BY <1>1, <1>2 DEF NotFound, Walked, TypeOK
<1>3. CASE ipc # "idle"
  <2>1. missing \subseteq missing' /\ Tracks \ OnDisk' \subseteq missing'
    BY <1>3 DEF Write
  <2>2. Kept' = Kept /\ (\A i : Walked(i)' <=> Walked(i))
    BY <1>1 DEF Kept, Walked
  <2> QED  BY <1>1, <2>1, <2>2 DEF NotFound
<1> QED  BY <1>2, <1>3

\* A step of the importer that neither walks nor returns.
LEMMA NotFoundPlain ==
    ASSUME NotFound, UNCHANGED <<audio, sidecar, todo, listing, got, current, missing>>,
           ipc # "idle", ipc' # "idle",
           ipc' \in {"verify", "artists"} => ipc \in {"verify", "artists"},
           ipc # "read", ipc' # "read",
           ipc' = "delete" => Tracks \ current \subseteq missing
    PROVE  NotFound'
BY DEF NotFound, Walked, OnDisk

\* Nothing is remembered of a SyncOnce that has returned.
LEMMA NotFoundReturn == ASSUME Return PROVE NotFound'
BY DEF Return, NotFound, Walked

\* Once all the folders are walked, what is not in currentPaths was missing.
LEMMA AllWalked ==
    ASSUME TypeOK, NotFound, ipc = "walk", todo = Len(Order)
    PROVE  Tracks \ current \subseteq missing
<1> SUFFICES ASSUME NEW t \in Tracks \ current  PROVE t \in missing
  OBVIOUS
<1>1. PICK i \in 1..Len(Order) : t \in In(Order[i])
  BY AllMapped
<1>2. Walked(i)
  BY DEF Walked
<1> QED  BY <1>1, <1>2 DEF NotFound

\* What the importer does not find is missing, or it has yet to look.
LEMMA NotFoundImport == TypeOK /\ NotFound /\ Import => NotFound'
<1> SUFFICES ASSUME TypeOK, NotFound, Import  PROVE NotFound'
  OBVIOUS
<1>0. UNCHANGED <<audio, sidecar>> /\ OnDisk' = OnDisk
  BY DEF Import, writer, folder, OnDisk
<1>1. CASE Return
  BY <1>1, NotFoundReturn
<1>2. CASE Load
  BY <1>0, <1>2 DEF Load, Reads, NotFound, Walked
<1>3. CASE Begin \/ UpsertArtists
  <2>1. UNCHANGED <<todo, listing, got, current, missing>>
    BY <1>3 DEF Begin, UpsertArtists, scan
  <2>2. \/ ipc = "verify" /\ ipc' = "artists"
        \/ ipc = "artists" /\ ipc' = "walk"
    BY <1>3 DEF Begin, UpsertArtists, Reads
  <2> QED  BY <1>0, <2>1, <2>2, NotFoundPlain
<1>4. CASE ReadDir
  <2>1. ipc = "walk" /\ ipc' = "read" /\ todo' = todo + 1 /\ UNCHANGED <<current, missing>>
    BY <1>4 DEF ReadDir, Reads
  <2>2. In(Order[todo']) \ listing' \subseteq missing
    <3>1. listing' = audio \cap In(Order[todo'])
      BY <1>4, <2>1 DEF ReadDir
    <3>2. In(Order[todo']) \subseteq Tracks
      BY DEF In
    <3> QED  BY <2>1, <3>1, <3>2 DEF NotFound, OnDisk
  <2>3. ASSUME NEW i \in 1..Len(Order), Walked(i)'  PROVE Walked(i)
    BY <2>1, <2>3 DEF Walked, TypeOK
  <2>4. \A i \in 1..Len(Order) : Walked(i)' => In(Order[i]) \ current' \subseteq missing'
    BY <2>1, <2>3 DEF NotFound
  <2> QED  BY <1>0, <2>1, <2>2, <2>4 DEF NotFound
<1>5. ASSUME NEW t \in Tracks, ReadSidecar(t)  PROVE NotFound'
  <2>1. /\ ipc = "read" /\ ipc' = "read" /\ listing' = listing \ {t}
        /\ UNCHANGED <<todo, current, missing>>
    BY <1>5 DEF ReadSidecar, Reads
  <2>2. \A u \in Tracks \ {t} : u \in Kept' <=> u \in Kept
    BY <1>5 DEF ReadSidecar, Kept, TypeOK
  <2>3. t \in Kept' \/ t \in missing
    BY <1>5, <2>1 DEF ReadSidecar, Kept, TypeOK, NotFound, OnDisk
  <2>4. In(Order[todo']) \ (listing' \cup Kept') \subseteq missing'
    BY <2>1, <2>2, <2>3 DEF NotFound, In
  <2>5. \A i : Walked(i)' <=> Walked(i)
    BY <2>1 DEF Walked
  <2> QED  BY <1>0, <2>1, <2>4, <2>5 DEF NotFound
<1>6. CASE Commit
  <2>1. /\ ipc = "read" /\ ipc' = "walk" /\ listing = {} /\ current' = current \cup Kept
        /\ UNCHANGED <<todo, missing>>
    BY <1>6 DEF Commit
  <2>2. ASSUME NEW i \in 1..Len(Order), Walked(i)'
        PROVE  In(Order[i]) \ current' \subseteq missing'
    <3>1. i = todo \/ Walked(i)
      BY <2>1, <2>2 DEF Walked, TypeOK
    <3> QED  BY <2>1, <3>1 DEF NotFound
  <2> QED  BY <1>0, <2>1, <2>2 DEF NotFound
<1>7. CASE Stubs \/ (Fails /\ ipc = "walk")
  <2>1. /\ ipc = "walk" /\ ipc' = "delete" /\ todo = Len(Order)
        /\ UNCHANGED <<todo, listing, got, current, missing>>
    BY <1>7 DEF Stubs, Fails, Reads, scan
  <2> QED  BY <1>0, <2>1, AllWalked, NotFoundPlain
<1>8. CASE SoftDelete \/ Prune \/ (Fails /\ ipc # "walk")
  <2>1. /\ ipc \in {"delete", "prune"} /\ ipc' \in {"prune", "finish"}
        /\ UNCHANGED <<todo, listing, got, current, missing>>
    BY <1>8 DEF SoftDelete, Prune, Fails, scan
  <2> QED  BY <1>0, <2>1, NotFoundPlain
<1>9. Reject \/ Skip \/ Finish \/ Abort \/ Restart => Return
  BY DEF Reject, Skip, Finish, Abort, Restart
<1> QED
  BY <1>1, <1>2, <1>3, <1>4, <1>5, <1>6, <1>7, <1>8, <1>9 DEF Import, Next, Run

\* NotFound is inductive, given the types.
LEMMA NotFoundStep == TypeOK /\ NotFound /\ [SyncNext]_all => NotFound'
<1>1. NotFound /\ UNCHANGED all => NotFound'
  BY DEF all, reader, writer, scan, folder, NotFound, Walked, OnDisk, Kept
<1> QED  BY <1>1, NotFoundWrite, NotFoundImport DEF SyncNext

\* Only the soft delete takes rows away.
LEMMA OnlySoftDelete ==
    TypeOK /\ NotFound /\ [SyncNext]_all => active \ active' \subseteq missing
<1> SUFFICES ASSUME TypeOK, NotFound, [SyncNext]_all  PROVE active \ active' \subseteq missing
  OBVIOUS
<1>1. CASE SoftDelete
  BY <1>1 DEF SoftDelete, NotFound, TypeOK
<1>2. CASE ~SoftDelete
  <2>1. active \subseteq active'
    BY <1>2 DEF SyncNext, Write, Import, Next, Run, Load, Reject, Skip, Begin, UpsertArtists,
                ReadDir, ReadSidecar, Commit, Stubs, Prune, Finish, Abort, Fails, Restart,
                Reads, all, reader, db
  <2> QED  BY <2>1
<1> QED  BY <1>1, <1>2

\* No track is soft-deleted whose file and sidecar were in the folder during
\* the whole run, whatever the sync and the database did meanwhile.
THEOREM DeletesOnlyMissing == SyncSpec => NoFalseDelete
<1>1. SyncInit => NotFound
  BY DEF SyncInit, Init, NotFound, Walked
<1>2. TypeOK /\ NotFound /\ [SyncNext]_all => [active \ active' \subseteq missing]_all
  BY OnlySoftDelete
<1> QED  BY <1>1, <1>2, TypeCorrect, NotFoundStep, PTL DEF SyncSpec, NoFalseDelete

-----------------------------------------------------------------------------
(* What is skipped has been imported                                       *)

Importing == ipc \in {"artists", "walk", "read", "delete", "prune", "finish"}

\* Generations only grow, and a run is ahead of the manifest until it writes it.
Generations ==
    /\ manifest.gen <= run
    /\ ppc # "idle" => manifest.gen < run
    /\ lastGeneration <= manifest.gen
    /\ ipc # "idle" => lastGeneration <= loaded.gen /\ loaded.gen <= manifest.gen
    /\ Importing => lastGeneration < loaded.gen

\* The importer reads the generation that the folder still holds.
Undisturbed == ipc # "idle" /\ ~touched /\ loaded.gen = manifest.gen

\* What an undisturbed SyncOnce has copied so far.
Copies ==
    /\ ipc \notin {"verify", "artists"} => artistRows = artists
    /\ \A t \in current : t \in OnDisk /\ row[t] = sidecar[t]
    /\ current \subseteq active /\ current \subseteq member
    /\ \A i \in 1..Len(Order) : Walked(i) => In(Order[i]) \cap OnDisk \subseteq current
    /\ ipc = "read" =>
          /\ \A t \in Kept : t \in OnDisk /\ got[t] = sidecar[t]
          /\ listing \subseteq audio
          /\ In(Order[todo]) \cap OnDisk \subseteq listing \cup Kept
    /\ ipc \in {"delete", "prune", "finish"} => OnDisk \subseteq current
    /\ ipc \in {"prune", "finish"} /\ ~errors => OnDisk = {} \/ active = OnDisk
    /\ ipc = "finish" /\ ~errors => OnDisk = {} \/ member = OnDisk

\* What SyncOnce holds between its transactions.
Holds ==
    /\ ipc # "read" => got = Nothing
    /\ ipc \in {"idle", "verify", "artists"} => todo = 0 /\ current = {}

Imported == Generations /\ Holds /\ (Undisturbed => Copies) /\ SkippedIsImported

\* Generations are numbers.
LEMMA GenTyped ==
    ASSUME TypeOK
    PROVE  /\ manifest.gen \in Nat /\ loaded.gen \in Nat
           /\ lastGeneration \in Nat /\ run \in Nat
BY TypeParts, FolderTyped DEF FolderTypes, ImportTypes, Manifests, Files, Plex!TypeOK, Plex!Files

\* The sync is ahead of its manifest, and only a new manifest hides a change.
LEMMA PlexEffect ==
    ASSUME TypeInv, Generations, Plex!Next
    PROVE  /\ manifest'.gen <= run'
           /\ ppc' # "idle" => manifest'.gen < run'
           /\ manifest.gen <= manifest'.gen
           /\ \/ touched'
              \/ UNCHANGED <<audio, sidecar, artists, manifest, touched>>
              \/ manifest.gen < manifest'.gen
<1> DEFINE Goal ==
           /\ manifest'.gen <= run'
           /\ ppc' # "idle" => manifest'.gen < run'
           /\ manifest.gen <= manifest'.gen
           /\ \/ touched'
              \/ UNCHANGED <<audio, sidecar, artists, manifest, touched>>
              \/ manifest.gen < manifest'.gen
<1> USE GenTyped DEF Generations, Plex!folder, Plex!artifacts, Plex!disk, Plex!job
<1>0. TypeOK /\ (ppc # "songs" => \A t \in Tracks : work[t] = "out")
  BY DEF TypeInv, TypeOK, Plex!TypeOK, Plex!Tracks, Tracks
<1>1. CASE Plex!Start
  BY <1>0, <1>1 DEF Plex!Start
<1>2. CASE Plex!EndSongs \/ Plex!EndPlaylist \/ Plex!Crash
  BY <1>0, <1>2 DEF Plex!EndSongs, Plex!EndPlaylist, Plex!Crash
<1>3. ASSUME NEW p \in Playlists, Plex!BeginPlaylist(p)  PROVE Goal
  BY <1>0, <1>3 DEF Plex!BeginPlaylist
<1>4. ASSUME NEW t \in Tracks, Plex!Song(t)  PROVE Goal
  <2>1. UNCHANGED <<manifest, run, ppc>>
    BY <1>4 DEF Plex!Song, Plex!SkipSong, Plex!Unlink, Plex!Link, Plex!SaveSidecar
  <2>2. touched' \/ UNCHANGED <<audio, sidecar, artists, manifest, touched>>
    BY <1>4 DEF Plex!Song, Plex!SkipSong, Plex!Unlink, Plex!Link, Plex!SaveSidecar
  <2> QED  BY <1>0, <2>1, <2>2
<1>5. ASSUME NEW t \in Tracks, Plex!SweepAudio(t) \/ Plex!SweepSidecar(t)  PROVE Goal
  BY <1>0, <1>5 DEF Plex!SweepAudio, Plex!SweepSidecar
<1>6. CASE Plex!SaveArtists \/ Plex!SaveIndex
  BY <1>0, <1>6 DEF Plex!SaveArtists, Plex!SaveIndex
<1>7. CASE Plex!WriteManifest
  BY <1>0, <1>7 DEF Plex!WriteManifest
<1> QED
  BY <1>1, <1>2, <1>3, <1>4, <1>5, <1>6, <1>7 DEF Plex!Next, Plex!Tracks, Tracks

\* A step of the sync that leaves a SyncOnce undisturbed changes nothing it reads.
LEMMA ImportedWrite == TypeInv /\ Imported /\ Write => Imported'
<1> SUFFICES ASSUME TypeInv, Imported, Write  PROVE Imported'
  OBVIOUS
<1>1. /\ UNCHANGED <<ipc, loaded, todo, listing, got, current, errors, lastGeneration>>
      /\ UNCHANGED <<active, row, member, artistRows>>
  BY DEF Write, reader, scan, db
<1>2. /\ manifest'.gen <= run'
      /\ ppc' # "idle" => manifest'.gen < run'
      /\ manifest.gen <= manifest'.gen
      /\ \/ touched'
         \/ UNCHANGED <<audio, sidecar, artists, manifest, touched>>
         \/ manifest.gen < manifest'.gen
  BY PlexEffect DEF Imported, Write
<1>3. TypeOK /\ TypeOK' /\ Generations
  BY TypeStep DEF TypeInv, Imported, SyncNext
<1>9. manifest'.gen \in Nat /\ run' \in Nat
  BY <1>3 DEF TypeOK, Plex!TypeOK, Plex!Manifests, Plex!Files
<1>4. Generations'
  BY <1>1, <1>2, <1>3, <1>9, GenTyped DEF Generations, Importing
<1>5. Holds'
  BY <1>1 DEF Imported, Holds
<1>6. CASE touched'
  BY <1>4, <1>5, <1>6 DEF Imported, Undisturbed, SkippedIsImported
<1>7. CASE UNCHANGED <<audio, sidecar, artists, manifest, touched>>
  <2>1. (Undisturbed => Copies)'
    BY <1>1, <1>7 DEF Imported, Undisturbed, Copies, OnDisk, Kept, Walked
  <2>2. SkippedIsImported'
    BY <1>1, <1>7 DEF Imported, SkippedIsImported, Mirrors, OnDisk
  <2> QED  BY <1>4, <1>5, <2>1, <2>2 DEF Imported
<1>8. CASE manifest.gen < manifest'.gen
  <2>1. ~Undisturbed'
    BY <1>1, <1>3, <1>8, <1>9, GenTyped DEF Undisturbed, Generations
  <2>2. SkippedIsImported'
    BY <1>1, <1>3, <1>8, <1>9, GenTyped DEF SkippedIsImported, Generations
  <2> QED  BY <1>4, <1>5, <2>1, <2>2 DEF Imported
<1> QED  BY <1>2, <1>6, <1>7, <1>8

\* While a generation is imported it does not count as imported.
LEMMA NotYet ==
    ASSUME TypeOK, Generations, Importing  PROVE lastGeneration # manifest.gen
BY GenTyped DEF Generations, Importing

\* Steps within SyncOnce keep lastGeneration below the generation they import.
LEMMA GenerationsInside ==
    ASSUME TypeOK, Generations, Importing, Importing',
           UNCHANGED <<manifest, run, ppc, loaded, lastGeneration>>
    PROVE  Generations'
BY DEF Generations, Importing

\* A SyncOnce that gives up leaves what holds as it is.
LEMMA ImportedReturn ==
    ASSUME TypeOK, Imported, Return, UNCHANGED <<db, writer>>,
           lastGeneration' \in {lastGeneration, 0}
    PROVE  Imported'
<1>1. Generations'
  BY GenTyped DEF Imported, Generations, Importing, Return, writer, folder
<1>2. Holds' /\ ~Undisturbed'
  BY DEF Holds, Undisturbed, Return
<1>3. SkippedIsImported'
  BY DEF Imported, SkippedIsImported, Mirrors, OnDisk, writer, folder, db
<1> QED  BY <1>1, <1>2, <1>3 DEF Imported

\* The generation of a clean run was copied, or is not the folder's any more.
LEMMA ImportedFinish == ASSUME TypeOK, Imported, Finish, UNCHANGED writer  PROVE Imported'
<1>0. ipc = "finish" /\ UNCHANGED db /\ Return
  BY DEF Finish
<1>1. CASE errors
  BY <1>0, <1>1, ImportedReturn DEF Finish
<1>2. CASE ~errors
  <2>1. lastGeneration' = loaded.gen
    BY <1>2 DEF Finish
  <2>2. Generations'
    BY <1>0, <2>1, GenTyped DEF Imported, Generations, Importing, Return, writer, folder
  <2>3. Holds' /\ ~Undisturbed'
    BY <1>0 DEF Holds, Undisturbed, Return
  <2>4. ASSUME loaded.gen = manifest.gen, ~touched, OnDisk # {}  PROVE Mirrors
    <3>1. Copies
      BY <1>0, <2>4 DEF Imported, Undisturbed
    <3> QED  BY <1>0, <1>2, <2>4, <3>1 DEF Copies, Mirrors
  <2>5. SkippedIsImported'
    BY <1>0, <2>1, <2>4 DEF SkippedIsImported, Mirrors, OnDisk, writer, folder, db
  <2> QED  BY <2>2, <2>3, <2>5 DEF Imported
<1> QED  BY <1>1, <1>2

\* A SyncOnce starts with nothing copied.
LEMMA ImportedLoad == ASSUME TypeOK, Imported, Load, UNCHANGED writer  PROVE Imported'
<1>0. /\ ipc = "idle" /\ ipc' = "verify" /\ loaded' = manifest /\ UNCHANGED <<db, lastGeneration>>
      /\ UNCHANGED <<todo, listing, got, current, errors>>
  BY DEF Load, Reads
<1>1. Generations'
  BY <1>0, GenTyped DEF Imported, Generations, Importing, writer, folder
<1>2. Holds'
  BY <1>0 DEF Imported, Holds
<1>3. Copies'
  BY <1>0, <1>2 DEF Copies, Holds, Walked
<1>4. SkippedIsImported'
  BY <1>0 DEF Imported, SkippedIsImported, Mirrors, OnDisk, writer, folder, db
<1> QED  BY <1>1, <1>2, <1>3, <1>4 DEF Imported

\* Past the comparison, the generation is a newer one.
LEMMA ImportedBegin == ASSUME TypeOK, Imported, Begin, UNCHANGED writer  PROVE Imported'
<1>0. /\ ipc = "verify" /\ ipc' = "artists" /\ UNCHANGED <<scan, db, lastGeneration>>
      /\ loaded.gen # lastGeneration
  BY DEF Begin, Reads
<1>1. Generations'
  BY <1>0, GenTyped DEF Imported, Generations, Importing, writer, folder, scan
<1>2. Holds'
  BY <1>0 DEF Imported, Holds, scan
<1>3. Copies'
  BY <1>0, <1>2 DEF Copies, Holds, Walked
<1>4. SkippedIsImported'
  BY <1>0 DEF Imported, SkippedIsImported, Mirrors, OnDisk, writer, folder, db
<1> QED  BY <1>1, <1>2, <1>3, <1>4 DEF Imported

\* Inside SyncOnce the rest is what Copies says of it.
LEMMA ImportedInside ==
    ASSUME TypeOK, TypeOK', Imported, Importing, Importing', UNCHANGED writer,
           UNCHANGED <<loaded, lastGeneration>>, Holds', Copies => Copies'
    PROVE  Imported'
<1>1. Generations'
  BY GenerationsInside DEF Imported, writer, folder
<1>2. (Undisturbed => Copies)'
  BY DEF Imported, Undisturbed, Importing, writer, folder
<1>3. lastGeneration' # manifest'.gen
  BY NotYet DEF Imported, writer, folder
<1> QED  BY <1>1, <1>2, <1>3 DEF Imported, SkippedIsImported

\* A folder is listed: all that it holds is still to be read.
LEMMA CopiesReadDir ==
    ASSUME TypeOK, Holds, Copies, ReadDir, UNCHANGED writer  PROVE Copies'
<1>1. /\ ipc = "walk" /\ ipc' = "read" /\ todo' = todo + 1 /\ got' = Nothing
      /\ listing' = audio \cap In(Order[todo'])
      /\ UNCHANGED <<current, errors, audio, sidecar, artists, db>> /\ OnDisk' = OnDisk
  BY DEF ReadDir, Reads, Holds, writer, folder, OnDisk
<1>2. Kept' = {}
  BY <1>1 DEF Kept, Nothing
<1>3. ASSUME NEW i \in 1..Len(Order), Walked(i)'  PROVE Walked(i)
  BY <1>1, <1>3 DEF Walked, TypeOK
<1>4. In(Order[todo']) \cap OnDisk \subseteq listing'
  BY <1>1 DEF OnDisk
<1>5. \A i \in 1..Len(Order) : Walked(i)' => In(Order[i]) \cap OnDisk' \subseteq current'
  BY <1>1, <1>3 DEF Copies
<1> QED  BY <1>1, <1>2, <1>4, <1>5 DEF Copies, db

\* A listed file has its row, or no readable sidecar.
LEMMA CopiesReadSidecar ==
    ASSUME TypeOK, Copies, NEW t \in Tracks, ReadSidecar(t), UNCHANGED writer  PROVE Copies'
<1>1. /\ ipc = "read" /\ ipc' = "read" /\ listing' = listing \ {t} /\ t \in listing
      /\ got' = [got EXCEPT ![t] = sidecar[t]]
      /\ UNCHANGED <<todo, current, errors, audio, sidecar, artists, db>> /\ OnDisk' = OnDisk
  BY DEF ReadSidecar, Reads, writer, folder, OnDisk
<1>2. \A u \in Tracks : got'[u] = IF u = t THEN sidecar[t] ELSE got[u]
  BY <1>1 DEF TypeOK
<1>3. \A u \in Kept' : u \in OnDisk /\ got'[u] = sidecar[u]
  BY <1>1, <1>2 DEF Copies, Kept, OnDisk
<1>4. In(Order[todo]) \cap OnDisk \subseteq listing' \cup Kept'
  <2> SUFFICES ASSUME NEW u \in In(Order[todo]) \cap OnDisk, u \notin listing'
               PROVE  u \in Kept'
    OBVIOUS
  <2>1. u \in Tracks
    BY DEF In
  <2>2. CASE u = t
    BY <1>2, <2>1, <2>2 DEF Kept, OnDisk
  <2>3. CASE u # t
    BY <1>1, <1>2, <2>1, <2>3 DEF Kept, Copies
  <2> QED  BY <2>2, <2>3
<1>5. \A i : Walked(i)' <=> Walked(i)
  BY <1>1 DEF Walked
<1> QED  BY <1>1, <1>3, <1>4, <1>5 DEF Copies, db

\* A playlist's rows are committed.
LEMMA CopiesCommit ==
    ASSUME TypeOK, Copies, Commit, UNCHANGED writer  PROVE Copies'
<1>1. /\ ipc = "read" /\ ipc' = "walk" /\ listing = {} /\ current' = current \cup Kept
      /\ active' = active \cup Kept /\ member' = member \cup Kept
      /\ row' = [t \in Tracks |-> IF t \in Kept THEN got[t] ELSE row[t]]
      /\ UNCHANGED <<todo, errors, artistRows, audio, sidecar, artists>> /\ OnDisk' = OnDisk
  BY DEF Commit, writer, folder, OnDisk
<1>2. Kept \subseteq Tracks /\ current \subseteq Tracks
  BY DEF Kept, TypeOK
<1>3. \A t \in current' : t \in OnDisk /\ row'[t] = sidecar[t]
  BY <1>1, <1>2 DEF Copies
<1>4. ASSUME NEW i \in 1..Len(Order), Walked(i)'
      PROVE  In(Order[i]) \cap OnDisk \subseteq current'
  <2>1. i = todo \/ Walked(i)
    BY <1>1, <1>4 DEF Walked, TypeOK
  <2> QED  BY <1>1, <2>1 DEF Copies
<1> QED  BY <1>1, <1>3, <1>4 DEF Copies

\* Once all the folders are walked, currentPaths is what they hold.
LEMMA CopiesWalked ==
    ASSUME TypeOK, Copies, ipc = "walk", todo = Len(Order)  PROVE OnDisk \subseteq current
<1> SUFFICES ASSUME NEW t \in OnDisk  PROVE t \in current
  OBVIOUS
<1>1. t \in Tracks
  BY DEF OnDisk, TypeOK, Plex!TypeOK, Plex!Tracks, Tracks
<1>2. PICK i \in 1..Len(Order) : t \in In(Order[i])
  BY <1>1, AllMapped
<1>3. Walked(i)
  BY DEF Walked
<1> QED  BY <1>2, <1>3 DEF Copies

\* The soft delete and the prune leave exactly what was found.
LEMMA CopiesLate ==
    ASSUME TypeOK, Copies, UNCHANGED writer,
           Stubs \/ SoftDelete \/ Prune \/ Fails
    PROVE  Copies'
<1>0. /\ UNCHANGED <<todo, current, row, artistRows, audio, sidecar, artists>>
      /\ OnDisk' = OnDisk /\ ipc # "read" /\ ipc' # "read"
  BY DEF Stubs, SoftDelete, Prune, Fails, Reads, scan, db, writer, folder, OnDisk
<1>1. \A i : Walked(i)' <=> Walked(i)
  BY <1>0 DEF Walked
<1>2. ipc' \in {"delete", "prune", "finish"} /\ ipc \in {"walk", "delete", "prune"}
  BY DEF Stubs, SoftDelete, Prune, Fails, Reads
<1>3. OnDisk \subseteq current /\ current \subseteq OnDisk
  <2>1. ipc = "walk" => todo = Len(Order)
    BY DEF Stubs, SoftDelete, Prune, Fails, Reads
  <2>2. current \subseteq OnDisk
    BY DEF Copies
  <2> QED  BY <1>2, <2>1, <2>2, CopiesWalked DEF Copies
<1>4. current \subseteq active' /\ current \subseteq member'
  BY DEF Copies, Stubs, SoftDelete, Prune, Fails, Reads, db
<1>5. ipc' \in {"prune", "finish"} /\ ~errors' => OnDisk = {} \/ active' = OnDisk
  BY <1>2, <1>3, <1>4 DEF Copies, Stubs, SoftDelete, Prune, Fails, Reads, db, scan
<1>6. ipc' = "finish" /\ ~errors' => OnDisk = {} \/ member' = OnDisk
  BY <1>2, <1>3, <1>4 DEF Stubs, SoftDelete, Prune, Fails, Reads, db, scan
<1>7. artistRows = artists
  BY <1>2 DEF Copies
<1> QED  BY <1>0, <1>1, <1>2, <1>3, <1>4, <1>5, <1>6, <1>7 DEF Copies

\* Every step of the importer.
LEMMA ImportedImport ==
    ASSUME TypeOK, TypeOK', Imported, Import  PROVE Imported'
<1>0. UNCHANGED writer
  BY DEF Import
<1>1. CASE Load
  BY <1>0, <1>1, ImportedLoad
<1>2. CASE Begin
  BY <1>0, <1>2, ImportedBegin
<1>3. CASE Finish
  BY <1>0, <1>3, ImportedFinish
<1>4. CASE Reject \/ Skip \/ Abort \/ Restart
  <2>1. Return /\ UNCHANGED db /\ lastGeneration' \in {lastGeneration, 0}
    BY <1>4 DEF Reject, Skip, Abort, Restart
  <2> QED  BY <1>0, <2>1, ImportedReturn
<1>5. CASE UpsertArtists
  <2>1. /\ ipc = "artists" /\ ipc' = "walk" /\ artistRows' = artists
        /\ UNCHANGED <<scan, active, row, member, lastGeneration>>
    BY <1>5 DEF UpsertArtists
  <2>2. Holds' /\ todo = 0 /\ current = {}
    BY <2>1 DEF Imported, Holds, scan
  <2>3. Copies'
    BY <1>0, <2>1, <2>2 DEF Copies, Walked, scan, writer, folder
  <2> QED  BY <1>0, <2>1, <2>2, <2>3, ImportedInside DEF Importing, scan
<1>6. CASE ReadDir
  <2>1. Importing /\ Importing' /\ Holds' /\ UNCHANGED <<loaded, lastGeneration>>
    BY <1>6 DEF Imported, ReadDir, Reads, Importing, Holds
  <2> QED  BY <1>0, <1>6, <2>1, CopiesReadDir, ImportedInside DEF Imported
<1>7. ASSUME NEW t \in Tracks, ReadSidecar(t)  PROVE Imported'
  <2>1. Importing /\ Importing' /\ Holds' /\ UNCHANGED <<loaded, lastGeneration>>
    BY <1>7 DEF Imported, ReadSidecar, Reads, Importing, Holds
  <2> QED  BY <1>0, <1>7, <2>1, CopiesReadSidecar, ImportedInside DEF Imported
<1>8. CASE Commit
  <2>1. Importing /\ Importing' /\ Holds' /\ UNCHANGED <<loaded, lastGeneration>>
    BY <1>8 DEF Commit, Importing, Holds
  <2> QED  BY <1>0, <1>8, <2>1, CopiesCommit, ImportedInside DEF Imported
<1>9. CASE Stubs \/ SoftDelete \/ Prune \/ Fails
  <2>1. /\ Importing /\ Importing' /\ ipc' \notin {"idle", "verify", "artists"}
        /\ UNCHANGED <<got, loaded, lastGeneration>> /\ ipc # "read" /\ ipc' # "read"
    BY <1>9 DEF Stubs, SoftDelete, Prune, Fails, Reads, Importing, scan
  <2>2. Holds'
    BY <2>1 DEF Imported, Holds
  <2> QED  BY <1>0, <1>9, <2>1, <2>2, CopiesLate, ImportedInside DEF Imported
<1> QED
  BY <1>1, <1>2, <1>3, <1>4, <1>5, <1>6, <1>7, <1>8, <1>9 DEF Import, Next, Run

\* At first nothing has been imported and nothing is skipped.
LEMMA ImportedInit == SyncInit => Imported
BY DEF SyncInit, Init, Plex!Init, Plex!NoManifest, NoManifest, Imported, Generations,
       Importing, Holds, Undisturbed, SkippedIsImported

\* Imported is inductive, given the types.
LEMMA ImportedStep == TypeInv /\ Imported /\ [SyncNext]_all => Imported'
<1> SUFFICES ASSUME TypeInv, Imported, [SyncNext]_all  PROVE Imported'
  OBVIOUS
<1>1. TypeOK /\ TypeOK'
  BY TypeStep DEF TypeInv
<1>2. CASE UNCHANGED all
  BY <1>2 DEF all, reader, writer, scan, db, folder, Imported, Generations, Importing, Holds,
              Undisturbed, Copies, Walked, Kept, OnDisk, SkippedIsImported, Mirrors
<1> QED  BY <1>1, <1>2, ImportedWrite, ImportedImport DEF SyncNext

\* The generation the importer skips is one that the database mirrors, however
\* the runs of the sync and of the importer overlapped, failed and restarted.
THEOREM SkipsOnlyImported == SyncSpec => []SkippedIsImported
<1>1. Imported => SkippedIsImported
  BY DEF Imported
<1> QED  BY <1>1, TypeInit, TypeStep, ImportedInit, ImportedStep, PTL DEF SyncSpec

-----------------------------------------------------------------------------
(* What is skipped has its artists                                         *)

\* A manifest is of the run that wrote the artists; both only grow, and the
\* artists of the database are between the imported generation and the folder.
ArtistsInOrder ==
    /\ manifest.artists = manifest.gen /\ loaded.artists = loaded.gen
    /\ artists <= run
    /\ ppc \in {"index", "manifest"} => artists = run
    /\ artistRows <= artists
    /\ lastGeneration <= artistRows
    /\ ipc = "verify" => loaded.gen # 0
    /\ ipc = "artists" => loaded.gen <= artists
    /\ Importing /\ ipc # "artists" => loaded.gen <= artistRows

\* The values it compares are numbers.
LEMMA ArtistsTyped ==
    ASSUME TypeOK
    PROVE  /\ manifest.gen \in Nat /\ loaded.gen \in Nat /\ lastGeneration \in Nat
           /\ run \in Nat /\ artists \in Nat /\ artistRows \in Nat
BY TypeParts, FolderTyped DEF FolderTypes, ImportTypes, Manifests, Files, Plex!TypeOK, Plex!Files

\* The sync writes artists.json before the manifest, with a newer number.
LEMMA ArtistsWrite == TypeOK /\ ArtistsInOrder /\ Write => ArtistsInOrder'
<1> SUFFICES ASSUME TypeOK, ArtistsInOrder, Write  PROVE ArtistsInOrder'
  OBVIOUS
<1>1. UNCHANGED <<ipc, loaded, lastGeneration, artistRows>> /\ Plex!Next
  BY DEF Write, reader, scan, db
<1>2. /\ artists <= artists'
      /\ artists' <= run'
      /\ ppc' \in {"index", "manifest"} => artists' = run'
      /\ manifest'.artists = manifest'.gen
  <2> USE ArtistsTyped DEF ArtistsInOrder
  <2>1. CASE Plex!Start
    BY <2>1 DEF Plex!Start, Plex!disk, Plex!artifacts
  <2>2. CASE Plex!EndSongs \/ Plex!EndPlaylist
    BY <2>2 DEF Plex!EndSongs, Plex!EndPlaylist, Plex!disk, Plex!artifacts
  <2>3. ASSUME NEW p \in Playlists, Plex!BeginPlaylist(p)  PROVE UNCHANGED <<artists, run, manifest>> /\ ppc' = "songs"
    BY <2>3 DEF Plex!BeginPlaylist, Plex!disk, Plex!artifacts
  <2>4. ASSUME NEW t \in Plex!Tracks, Plex!Song(t) \/ Plex!SweepAudio(t) \/ Plex!SweepSidecar(t)
        PROVE  UNCHANGED <<artists, run, ppc, manifest>>
    BY <2>4 DEF Plex!Song, Plex!SkipSong, Plex!Unlink, Plex!Link, Plex!SaveSidecar,
                Plex!SweepAudio, Plex!SweepSidecar, Plex!disk, Plex!artifacts, Plex!job
  <2>5. CASE Plex!SaveArtists
    BY <2>5 DEF Plex!SaveArtists, Plex!job
  <2>6. CASE Plex!SaveIndex
    BY <2>6 DEF Plex!SaveIndex, Plex!job
  <2>7. CASE Plex!WriteManifest
    BY <2>7 DEF Plex!WriteManifest, Plex!job
  <2>8. CASE Plex!Crash
    BY <2>8 DEF Plex!Crash, Plex!disk, Plex!artifacts
  <2> QED  BY <1>1, <2>1, <2>2, <2>3, <2>4, <2>5, <2>6, <2>7, <2>8 DEF Plex!Next
<1>3. artists \in Nat /\ artists' \in Nat /\ artistRows \in Nat /\ loaded.gen \in Nat
  <2>1. artists' \in {artists, run}
    BY <1>1 DEF Plex!Next, Plex!Start, Plex!EndSongs, Plex!EndPlaylist, Plex!BeginPlaylist,
                Plex!Song, Plex!SkipSong, Plex!Unlink, Plex!Link, Plex!SaveSidecar,
                Plex!SweepAudio, Plex!SweepSidecar, Plex!SaveArtists, Plex!SaveIndex,
                Plex!WriteManifest, Plex!Crash, Plex!disk, Plex!artifacts, Plex!job
  <2> QED  BY <2>1, ArtistsTyped
<1> QED  BY <1>1, <1>2, <1>3 DEF ArtistsInOrder, Importing

\* The importer goes past its comparison with the artists of its generation or
\* newer ones, and reads the artists after it.
LEMMA ArtistsImport == TypeOK /\ ArtistsInOrder /\ Import => ArtistsInOrder'
<1> SUFFICES ASSUME TypeOK, ArtistsInOrder, Import  PROVE ArtistsInOrder'
  OBVIOUS
<1> USE ArtistsTyped DEF ArtistsInOrder, Importing
<1>0. UNCHANGED <<manifest, artists, ppc, run>>
  BY DEF Import, writer, folder
<1>1. CASE Load
  BY <1>0, <1>1 DEF Load, Reads, db
<1>2. CASE Reject \/ Skip \/ Abort
  BY <1>0, <1>2 DEF Reject, Skip, Abort, Return, NoManifest, db
<1>3. CASE Begin
  BY <1>0, <1>3 DEF Begin, Verified, Reads, db, scan
<1>4. CASE UpsertArtists
  BY <1>0, <1>4 DEF UpsertArtists, scan
<1>5. CASE ReadDir \/ (\E t \in Tracks : ReadSidecar(t)) \/ Stubs
  BY <1>0, <1>5 DEF ReadDir, ReadSidecar, Stubs, Reads, db, scan
<1>6. CASE Commit \/ SoftDelete \/ Prune \/ Fails
  BY <1>0, <1>6 DEF Commit, SoftDelete, Prune, Fails, scan
<1>7. CASE Finish
  BY <1>0, <1>7 DEF Finish, Return, NoManifest, db
<1>8. CASE Restart
  BY <1>0, <1>8 DEF Restart, Return, NoManifest, db
<1> QED
  BY <1>1, <1>2, <1>3, <1>4, <1>5, <1>6, <1>7, <1>8 DEF Import, Next, Run

\* A generation is skipped only while artists is what its artists.json said.
THEOREM SkipsWithArtists == SyncSpec => SkipHasArtists
<1>1. SyncInit => ArtistsInOrder
  BY DEF SyncInit, Init, Plex!Init, Plex!NoManifest, NoManifest, ArtistsInOrder, Importing
<1>2. TypeOK /\ ArtistsInOrder /\ [SyncNext]_all => ArtistsInOrder'
  <2> SUFFICES ASSUME TypeOK, ArtistsInOrder, [SyncNext]_all  PROVE ArtistsInOrder'
    OBVIOUS
  <2>1. CASE UNCHANGED all
    BY <2>1 DEF all, reader, writer, scan, db, folder, ArtistsInOrder, Importing
  <2> QED  BY <2>1, ArtistsWrite, ArtistsImport DEF SyncNext
<1>3. TypeOK /\ ArtistsInOrder =>
         (ipc = "verify" /\ ipc' = "idle" /\ Verified /\ lastGeneration' = loaded.gen
             /\ [SyncNext]_all => artistRows = loaded.artists)
  <2> SUFFICES ASSUME TypeOK, ArtistsInOrder, ipc = "verify", ipc' = "idle", Verified,
                      lastGeneration' = loaded.gen, [SyncNext]_all
               PROVE  artistRows = loaded.artists
    OBVIOUS
  <2>1. loaded.gen # 0 /\ artists = loaded.artists /\ loaded.artists = loaded.gen
    BY DEF ArtistsInOrder, Verified
  <2>2. lastGeneration' \in {lastGeneration, 0}
    BY DEF SyncNext, Write, Import, Next, Run, Load, Reject, Skip, Begin, UpsertArtists,
           ReadDir, ReadSidecar, Commit, Stubs, SoftDelete, Prune, Finish, Abort, Fails,
           Restart, Reads, all, reader
  <2>3. lastGeneration = loaded.gen
    BY <2>1, <2>2
  <2> QED  BY <2>1, <2>3, ArtistsTyped DEF ArtistsInOrder
<1>4. TypeOK /\ ArtistsInOrder /\ [SyncNext]_all =>
         [ipc = "verify" /\ ipc' = "idle" /\ Verified /\ lastGeneration' = loaded.gen
             => artistRows = loaded.artists]_all
  BY <1>3
<1> QED  BY <1>1, <1>2, <1>4, TypeCorrect, PTL DEF SyncSpec, SkipHasArtists
=============================================================================
