--------------------------- MODULE PlayerInstall ---------------------------
(***************************************************************************)
(* core/updates/player_install.c and its callers: the boot loader, which   *)
(* installs a player found on the card and then selects the player to run, *)
(* and the running player, which installs from the card or from a release. *)
(*                                                                         *)
(* Two file systems: the internal one (data: the installed player and the  *)
(* temporary beside it) and the card (sd: the update and its archived      *)
(* names).  An operation on a directory is on the disk after an fsync of   *)
(* it; before that a power loss may or may not undo it.  The content of a  *)
(* new file is on the disk after an fsync of the file.  Renames are        *)
(* atomic.                                                                 *)
(***************************************************************************)
EXTENDS Integers, FiniteSets

CONSTANTS
  Images,      \* player executables
  Good,        \* those with a valid ELF header and this board's marker
  Stamp,       \* their build stamps
  NoImage,
  Archives,    \* the archive names on the card (128 in the code)
  MaxFaults    \* bound: power losses, exits and changes made by the user

ASSUME PlayerInstallAssumption ==
  /\ Good \subseteq Images /\ NoImage \notin Images
  /\ Stamp \in [Images -> Nat]
  /\ Archives \in Nat \ {0} /\ MaxFaults \in Nat

VARIABLES
  data, dataDisk,   \* /usr/data, and what a power loss may leave of it
  sd, sdDisk,       \* SD/.compas, and what a power loss may leave of it
  packaged,         \* build stamp of the firmware's player
  phase,            \* off, in the loader, or with the player running
  job,              \* the player_install_fd() that runs, with its locals
  faults            \* bound

vars == <<data, dataDisk, sd, sdDisk, packaged, phase, job, faults>>
disks == <<data, dataDisk, sd, sdDisk>>

NoFile == [image |-> NoImage, whole |-> TRUE, synced |-> TRUE]
File(image, whole, synced) == [image |-> image, whole |-> whole, synced |-> synced]
Files  == [image : Images \cup {NoImage}, whole : BOOLEAN, synced : BOOLEAN]
NoJob  == [step |-> "none"]

Init ==
  /\ \E f \in {NoFile} \cup {File(i, TRUE, TRUE) : i \in Good} :
       data = [player |-> f, temp |-> NoFile]
  /\ dataDisk = {data}
  /\ \E i \in Images \cup {NoImage} : sd = [leaf |-> i, archive |-> [n \in 1..Archives |-> NoImage]]
  /\ sdDisk = {sd}
  /\ packaged = 1 /\ phase = "loader" /\ job = NoJob /\ faults = 0

SetData(d) == data' = d /\ dataDisk' = dataDisk \cup {d}
SetSd(s)   == sd' = s /\ sdDisk' = sdDisk \cup {s}
TrySyncSd  == sdDisk' = {sd'} \/ sdDisk' = sdDisk \cup {sd'}
SyncData   == dataDisk' = {data} /\ UNCHANGED data

At(step) == job.step = step
Goto(step) == job' = [job EXCEPT !.step = step]

(***************************************************************************)
(* player_install_fd(), from the loader or from the player's worker.       *)
(***************************************************************************)
Rejected(image) == image \notin Good \/ Stamp[image] < packaged

Begin(image, from) ==
  job' = [step |-> "prepare", image |-> image, from |-> from, fresh |-> TRUE,
          old |-> data.player.image, archived |-> 0]

(* sd_worker() and installer_run(): an image on the card that passes       *)
(* player_install_preflight_fd().                                          *)
InstallFromCard ==
  /\ phase \in {"loader", "running"} /\ job = NoJob
  /\ sd.leaf # NoImage /\ ~Rejected(sd.leaf)
  /\ Begin(sd.leaf, "card")
  /\ UNCHANGED <<disks, packaged, phase, faults>>

(* download_install(): a release whose digest was verified. *)
InstallOnline ==
  /\ phase = "running" /\ job = NoJob
  /\ \E i \in Good : ~Rejected(i) /\ Begin(i, "release")
  /\ UNCHANGED <<disks, packaged, phase, faults>>

(* The loader puts a rejected update aside; with the player running it is  *)
(* only reported.  The fsync of the card is not looked at.                 *)
Quarantine ==
  /\ phase = "loader" /\ job = NoJob
  /\ sd.leaf # NoImage /\ Rejected(sd.leaf)
  /\ sd' = [sd EXCEPT !.leaf = NoImage] /\ TrySyncSd
  /\ UNCHANGED <<data, dataDisk, packaged, phase, job, faults>>

(* The old temporary is removed and a new one created. *)
Prepare ==
  /\ At("prepare")
  /\ SetData([data EXCEPT !.temp = File(job.image, FALSE, FALSE)])
  /\ Goto("copy")
  /\ UNCHANGED <<sd, sdDisk, packaged, phase, faults>>

(* The loop that copies the pinned source. *)
Copy ==
  /\ At("copy")
  /\ SetData([data EXCEPT !.temp.whole = TRUE])
  /\ Goto("verify")
  /\ UNCHANGED <<sd, sdDisk, packaged, phase, faults>>

(* Variant: the copy is verified without an fsync of it. *)
Verify_NoSync ==
  /\ At("verify")
  /\ job.from = "card" => job.fresh
  /\ Goto("archive")
  /\ UNCHANGED <<disks, packaged, phase, faults>>

(* fsync of the copy, its digest, and the source unchanged meanwhile. *)
Verify ==
  /\ At("verify")
  /\ job.from = "card" => job.fresh
  /\ SetData([data EXCEPT !.temp.synced = TRUE])
  /\ Goto("archive")
  /\ UNCHANGED <<sd, sdDisk, packaged, phase, faults>>

(* A temporary that cannot be removed is what a power loss leaves, too. *)
DropTemp == SetData([data EXCEPT !.temp = NoFile])

(* Any step up to the archive may fail. *)
GiveUp ==
  /\ job.step \in {"prepare", "copy", "verify", "archive"}
  /\ DropTemp
  /\ job' = NoJob
  /\ UNCHANGED <<sd, sdDisk, packaged, phase, faults>>

FreeName == {n \in 1..Archives : sd.archive[n] = NoImage /\ \A m \in 1..n - 1 : sd.archive[m] # NoImage}

(* Variant: the card is not synced before the player is replaced. *)
SyncArchive_Later ==
  /\ At("sync archive")
  /\ Goto("commit")
  /\ UNCHANGED <<disks, packaged, phase, faults>>

(* archive_source() and archive_sd_if_present(): the update on the card is *)
(* renamed to the first free archive name.  The snapshot must still hold   *)
(* for an install from the card; a release archives whatever is there.     *)
Archive ==
  /\ At("archive")
  /\ \/ /\ job.from = "card" => job.fresh   \* from here on: the archive is unchanged
        /\ sd.leaf # NoImage
        /\ \E n \in FreeName :
             /\ SetSd([leaf |-> NoImage, archive |-> [sd.archive EXCEPT ![n] = sd.leaf]])
             /\ job' = [job EXCEPT !.step = "sync archive", !.archived = n, !.fresh = TRUE]
     \/ /\ job.from = "release" /\ sd.leaf = NoImage
        /\ Goto("commit")
        /\ UNCHANGED <<sd, sdDisk>>
  /\ UNCHANGED <<data, dataDisk, packaged, phase, faults>>

SyncArchive ==
  /\ At("sync archive")
  /\ sdDisk' = {sd}
  /\ Goto("commit")
  /\ UNCHANGED <<data, dataDisk, sd, packaged, phase, faults>>

Unarchived == [leaf    |-> sd.archive[job.archived],
               archive |-> [sd.archive EXCEPT ![job.archived] = NoImage]]

(* The fsync of the archive failed: it goes back to its name, whatever may *)
(* be there by now, and that is not synced either.                         *)
ArchiveFails ==
  /\ At("sync archive")
  /\ SetSd(Unarchived) \/ UNCHANGED <<sd, sdDisk>>
  /\ DropTemp
  /\ job' = NoJob
  /\ UNCHANGED <<packaged, phase, faults>>

(* renameat() over the installed player, which is still the one looked at. *)
Commit ==
  /\ At("commit") /\ data.player.image = job.old
  /\ SetData([player |-> data.temp, temp |-> NoFile])
  /\ Goto("sync player")
  /\ UNCHANGED <<sd, sdDisk, packaged, phase, faults>>

(* The archive goes back to its name if that is still free; the fsync of   *)
(* the card is not looked at.                                              *)
CommitFails ==
  /\ At("commit")
  /\ DropTemp
  /\ \/ /\ job.archived # 0 /\ sd.leaf = NoImage
        /\ sd' = Unarchived /\ TrySyncSd
     \/ UNCHANGED <<sd, sdDisk>>
  /\ job' = NoJob
  /\ UNCHANGED <<packaged, phase, faults>>

(* Variant: the archive is removed although the fsync failed. *)
SyncPlayer_RemovesAnyway ==
  /\ At("sync player")
  /\ SyncData \/ UNCHANGED <<data, dataDisk>>
  /\ IF job.archived = 0 THEN job' = NoJob ELSE Goto("remove archive")
  /\ UNCHANGED <<sd, sdDisk, packaged, phase, faults>>

(* fsync of the directory; after a failure the archive is kept. *)
SyncPlayer ==
  /\ At("sync player")
  /\ \/ /\ SyncData
        /\ IF job.archived = 0 THEN job' = NoJob ELSE Goto("remove archive")
     \/ /\ UNCHANGED <<data, dataDisk>>
        /\ job' = NoJob
  /\ UNCHANGED <<sd, sdDisk, packaged, phase, faults>>

(* The archive is deleted if it is still the file that was renamed and the *)
(* unlink succeeds.                                                        *)
RemoveArchive ==
  /\ At("remove archive")
  /\ \/ /\ job.fresh
        /\ sd' = [sd EXCEPT !.archive[job.archived] = NoImage]
        /\ TrySyncSd
     \/ UNCHANGED <<sd, sdDisk>>
  /\ job' = NoJob
  /\ UNCHANGED <<data, dataDisk, packaged, phase, faults>>

(***************************************************************************)
(* The loader's choice, restarts, power, and the user.                     *)
(***************************************************************************)
(* installer_select_internal_player() and run_player_supervised(): an      *)
(* installed player older than the firmware's is removed; the packaged one *)
(* also runs when there is none.                                           *)
Select ==
  /\ phase = "loader" /\ job = NoJob
  /\ phase' = "running"
  /\ LET old == data.player.image
     IN IF old # NoImage /\ Stamp[old] < packaged
        THEN \E removed, done \in BOOLEAN :
               LET d == IF removed THEN [data EXCEPT !.player = NoFile] ELSE data
               IN data' = d /\ dataDisk' = IF removed /\ done THEN {d} ELSE dataDisk \cup {d}
        ELSE UNCHANGED <<data, dataDisk>>
  /\ UNCHANGED <<sd, sdDisk, packaged, job, faults>>

Fault == faults < MaxFaults /\ faults' = faults + 1

(* The player exits or crashes, with an install under way or not: the      *)
(* supervisor syncs and reboots.                                           *)
PlayerExits ==
  /\ phase = "running" /\ Fault
  /\ phase' = "off" /\ job' = NoJob
  /\ dataDisk' = {data} /\ sdDisk' = {sd}
  /\ UNCHANGED <<data, sd, packaged>>

(* A file whose content was not on the disk is whole or not. *)
Settled(f) == IF f.synced THEN {f} ELSE {File(f.image, w, TRUE) : w \in BOOLEAN}

PowerLoss ==
  /\ phase # "off" /\ Fault
  /\ phase' = "off" /\ job' = NoJob
  /\ \E d \in dataDisk : \E p \in Settled(d.player), t \in Settled(d.temp) :
       data' = [player |-> p, temp |-> t]
  /\ dataDisk' = {data'}
  /\ sd' \in sdDisk /\ sdDisk' = {sd'}
  /\ UNCHANGED packaged

PowerOn ==
  /\ phase = "off"
  /\ phase' = "loader"
  /\ UNCHANGED <<disks, packaged, job, faults>>

(* The firmware is updated, with a newer player packaged. *)
FirmwareUpdated ==
  /\ phase = "off" /\ Fault
  /\ packaged' = packaged + 1
  /\ UNCHANGED <<disks, phase, job>>

(* The user writes or deletes the update on the card, also while it is     *)
(* being installed.                                                        *)
CardChanged ==
  /\ Fault
  /\ \E i \in Images \cup {NoImage} : sd' = [sd EXCEPT !.leaf = i] /\ sd' # sd
  /\ sdDisk' = {sd'}
  /\ job' = IF job # NoJob /\ job.archived = 0 THEN [job EXCEPT !.fresh = FALSE] ELSE job
  /\ UNCHANGED <<data, dataDisk, packaged, phase>>

Install ==
  \/ InstallFromCard \/ InstallOnline \/ Prepare \/ Copy \/ Verify \/ GiveUp
  \/ Archive \/ SyncArchive \/ ArchiveFails \/ Commit \/ CommitFails
  \/ SyncPlayer \/ RemoveArchive

Next ==
  \/ Install \/ Quarantine \/ Select
  \/ PlayerExits \/ PowerLoss \/ PowerOn \/ FirmwareUpdated \/ CardChanged

Spec == Init /\ [][Next]_vars

(***************************************************************************)
(* Properties.                                                             *)
(***************************************************************************)
Early == {"prepare", "copy", "verify", "archive"}
Late  == {"sync archive", "commit", "sync player", "remove archive"}
Jobs  == [step : Early \cup Late, image : Good, from : {"card", "release"}, fresh : BOOLEAN,
          old : Images \cup {NoImage}, archived : 0..Archives]
Datas == [player : Files, temp : Files]
Cards == [leaf : Images \cup {NoImage}, archive : [1..Archives -> Images \cup {NoImage}]]

TypeOK ==
  /\ data \in dataDisk /\ dataDisk \subseteq Datas
  /\ sd \in sdDisk /\ sdDisk \subseteq Cards
  /\ packaged \in Nat /\ faults \in Nat /\ phase \in {"off", "loader", "running"}
  /\ job \in {NoJob} \cup Jobs

(* Whenever the power fails, the name the loader executes holds no player  *)
(* or a whole one: no order of failures and reboots makes it start a       *)
(* truncated copy.                                                         *)
InstalledIsWhole ==
  \A d \in dataDisk : d.player.whole /\ d.player.synced

OnCard(s) == {s.leaf} \cup {s.archive[n] : n \in 1..Archives}

(* Whatever step an install from the card takes, and whether it succeeds,  *)
(* fails or is cut off: the image is still on the card under its name or   *)
(* an archived one, or it is the installed player, in everything a power   *)
(* loss may leave afterwards; only the user makes it disappear.            *)
UpdateIsNotLost ==
  [][job # NoJob /\ job.from = "card" /\ job.fresh /\ ~CardChanged =>
       \A d \in dataDisk', s \in sdDisk' : job.image \in OnCard(s) \cup {d.player.image}]_vars

(* "archived before commit so the legacy loader cannot reinstall it on the *)
(* next boot" (player_install.h): once an install that found an update on  *)
(* the card may have replaced the player, no power loss brings the update  *)
(* back under its name, unless the user put one there since.               *)
NotOfferedAgain ==
  job # NoJob /\ job.step \in {"sync player", "remove archive"} /\ job.archived # 0 =>
    \A s \in sdDisk : s.leaf \in {NoImage, sd.leaf}
=============================================================================
