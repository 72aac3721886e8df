------------------------ MODULE PlayerInstall_proofs ------------------------
(***************************************************************************)
(* The installer for any set of players, number of archive names and       *)
(* faults.  The data half (DataInv) says what is known of the copy at each *)
(* step, the card half (CardInv) where the update is to be found in        *)
(* everything a power loss may leave.                                      *)
(***************************************************************************)
EXTENDS PlayerInstall, TLAPS

Doing(steps) == job # NoJob /\ job.step \in steps

(* The copy is of the job's image; from the archive on it is whole and on  *)
(* the disk; the replaced player is the job's image.                       *)
CopyIsOfTheImage == Doing({"copy", "verify", "archive", "sync archive", "commit"}) => data.temp.image = job.image
CopyIsVerified   == /\ Doing({"verify", "archive", "sync archive", "commit"}) => data.temp.whole
                    /\ Doing({"archive", "sync archive", "commit"}) => data.temp.synced
PlayerIsReplaced == Doing({"sync player", "remove archive"}) => data.player.image = job.image
PlayerIsDurable  == Doing({"remove archive"}) => \A d \in dataDisk : d.player.image = job.image

DataInv ==
  /\ InstalledIsWhole
  /\ CopyIsOfTheImage /\ CopyIsVerified /\ PlayerIsReplaced /\ PlayerIsDurable

(* No archive is made early, and one is made from the card; what the card  *)
(* shows under a name, and what the job archived, is in all it may become. *)
ArchivedLate   == /\ Doing(Early) => job.archived = 0
                  /\ Doing({"sync archive", "remove archive"}) => job.archived # 0
                  /\ Doing(Late) /\ job.from = "card" => job.archived # 0
LeafIsKept     == sd.leaf # NoImage => \A s \in sdDisk : sd.leaf \in OnCard(s)
SourceIsLeaf   == Doing(Early) /\ job.from = "card" /\ job.fresh => sd.leaf = job.image
ArchiveIsKept  == Doing(Late) /\ job.archived # 0 => \A s \in sdDisk : sd.archive[job.archived] \in OnCard(s)
SourceArchived == Doing(Late) /\ job.from = "card" => sd.archive[job.archived] = job.image
LeafIsGone     == Doing({"commit", "sync player", "remove archive"}) /\ job.archived # 0 =>
                    \A s \in sdDisk : s.leaf \in {NoImage, sd.leaf}

CardInv == /\ ArchivedLate /\ LeafIsKept /\ SourceIsLeaf
           /\ ArchiveIsKept /\ SourceArchived /\ LeafIsGone

Inv == TypeOK /\ DataInv /\ CardInv

(***************************************************************************)
(* Types: what the steps make of files, directories and the job.           *)
(***************************************************************************)
LEMMA FileTypes ==
  /\ NoFile \in Files
  /\ \A i \in Images, w, s \in BOOLEAN : File(i, w, s) \in Files
  BY DEF NoFile, File, Files

LEMMA DataTypes ==
  ASSUME TypeOK
  PROVE  /\ data \in Datas /\ data.player \in Files /\ data.temp \in Files
         /\ \A f \in Files : /\ [data EXCEPT !.temp = f] \in Datas
                             /\ [data EXCEPT !.player = f] \in Datas
         /\ [data EXCEPT !.temp.whole = TRUE] \in Datas
         /\ [data EXCEPT !.temp.synced = TRUE] \in Datas
         /\ [player |-> data.temp, temp |-> NoFile] \in Datas
<1>1. data \in Datas
  BY DEF TypeOK
<1>2. data.player \in Files /\ data.temp \in Files
  BY <1>1 DEF Datas
<1>3. \A f \in Files : [data EXCEPT !.temp = f] \in Datas /\ [data EXCEPT !.player = f] \in Datas
  BY <1>1 DEF Datas
<1>4. [data.temp EXCEPT !.whole = TRUE] \in Files /\ [data.temp EXCEPT !.synced = TRUE] \in Files
  BY <1>2 DEF Files
<1>5. [data EXCEPT !.temp.whole = TRUE] \in Datas /\ [data EXCEPT !.temp.synced = TRUE] \in Datas
  BY <1>1, <1>4 DEF Datas
<1>6. [player |-> data.temp, temp |-> NoFile] \in Datas
  BY <1>2, FileTypes DEF Datas
<1> QED
  BY <1>1, <1>2, <1>3, <1>5, <1>6

LEMMA CardTypes ==
  ASSUME TypeOK
  PROVE  /\ sd \in Cards /\ sd.leaf \in Images \cup {NoImage}
         /\ sd.archive \in [1..Archives -> Images \cup {NoImage}]
         /\ \A i \in Images \cup {NoImage} : [sd EXCEPT !.leaf = i] \in Cards
         /\ \A n \in 1..Archives, i, j \in Images \cup {NoImage} :
              /\ [leaf |-> i, archive |-> [sd.archive EXCEPT ![n] = j]] \in Cards
              /\ [sd EXCEPT !.archive[n] = j] \in Cards
<1>1. sd \in Cards
  BY DEF TypeOK
<1>2. sd.leaf \in Images \cup {NoImage} /\ sd.archive \in [1..Archives -> Images \cup {NoImage}]
  BY <1>1 DEF Cards
<1>3. ASSUME NEW n \in 1..Archives, NEW i \in Images \cup {NoImage}, NEW j \in Images \cup {NoImage}
      PROVE  /\ [leaf |-> i, archive |-> [sd.archive EXCEPT ![n] = j]] \in Cards
             /\ [sd EXCEPT !.archive[n] = j] \in Cards
  <2>1. [sd.archive EXCEPT ![n] = j] \in [1..Archives -> Images \cup {NoImage}]
    BY <1>2
  <2>2. [sd EXCEPT !.archive[n] = j] = [leaf |-> sd.leaf, archive |-> [sd.archive EXCEPT ![n] = j]]
    BY <1>1 DEF Cards
  <2> QED
    BY <1>2, <2>1, <2>2 DEF Cards
<1> QED
  BY <1>1, <1>2, <1>3 DEF Cards

LEMMA JobTypes ==
  ASSUME TypeOK, job.step # "none"
  PROVE  /\ job \in Jobs /\ job # NoJob
         /\ \A s \in Early \cup Late : [job EXCEPT !.step = s] \in Jobs
         /\ [job EXCEPT !.fresh = FALSE] \in Jobs
         /\ \A n \in 0..Archives : [job EXCEPT !.step = "sync archive", !.archived = n, !.fresh = TRUE] \in Jobs
<1>1. job \in Jobs /\ job # NoJob
  BY DEF TypeOK, NoJob
<1> QED
  BY <1>1 DEF Jobs, Early, Late

(* A directory changes as SetData, SetSd and the like say; a job moves on. *)
DataType == data \in dataDisk /\ dataDisk \subseteq Datas
CardType == sd \in sdDisk /\ sdDisk \subseteq Cards
JobType  == job \in {NoJob} \cup Jobs

(* The internal file system. *)
LEMMA DataStep ==
  ASSUME TypeOK, ArchivedLate, [Next]_vars
  PROVE  DataType'
<1>t. DataType
  BY DEF TypeOK, DataType
<1>1. CASE InstallFromCard
  BY <1>1, <1>t DEF InstallFromCard, disks, DataType
<1>2. CASE InstallOnline
  BY <1>2, <1>t DEF InstallOnline, disks, DataType
<1>3. CASE Prepare
  <2>1. job.image \in Images
    BY <1>3, JobTypes, PlayerInstallAssumption DEF Prepare, At, Jobs
  <2>2. [data EXCEPT !.temp = File(job.image, FALSE, FALSE)] \in Datas
    BY <2>1, DataTypes, FileTypes
  <2> QED
    BY <1>3, <2>2, <1>t DEF Prepare, SetData, DataType
<1>4. CASE Copy
  BY <1>4, <1>t, DataTypes DEF Copy, SetData, DataType
<1>5. CASE Verify
  BY <1>5, <1>t, DataTypes DEF Verify, SetData, DataType
<1>6. CASE GiveUp
  BY <1>6, <1>t, DataTypes, FileTypes DEF GiveUp, DropTemp, SetData, DataType
<1>7. CASE Archive
  BY <1>7, <1>t DEF Archive, DataType
<1>8. CASE SyncArchive
  BY <1>8, <1>t DEF SyncArchive, DataType
<1>9. CASE ArchiveFails
  BY <1>9, <1>t, DataTypes, FileTypes DEF ArchiveFails, DropTemp, SetData, DataType
<1>10. CASE Commit
  BY <1>10, <1>t, DataTypes DEF Commit, SetData, DataType
<1>11. CASE CommitFails
  BY <1>11, <1>t, DataTypes, FileTypes DEF CommitFails, DropTemp, SetData, DataType
<1>12. CASE SyncPlayer
  BY <1>12, <1>t DEF SyncPlayer, SyncData, DataType
<1>13. CASE RemoveArchive
  BY <1>13, <1>t DEF RemoveArchive, DataType
<1>14. CASE Quarantine
  BY <1>14, <1>t DEF Quarantine, DataType
<1>15. CASE Select
  <2>1. [data EXCEPT !.player = NoFile] \in Datas
    BY DataTypes, FileTypes
  <2>2. data' \in {data, [data EXCEPT !.player = NoFile]} /\ dataDisk' \in {{data'}, dataDisk, dataDisk \cup {data'}}
    BY <1>15 DEF Select
  <2>3. data' = data \/ data' \in dataDisk'
    BY <1>15 DEF Select
  <2> QED
    BY <2>1, <2>2, <2>3, <1>t DEF DataType
<1>16. CASE PlayerExits
  BY <1>16, <1>t DEF PlayerExits, DataType
<1>17. CASE PowerLoss
  <2>1. PICK d \in dataDisk : \E p \in Settled(d.player), t \in Settled(d.temp) : data' = [player |-> p, temp |-> t]
    BY <1>17 DEF PowerLoss
  <2>2. d.player \in Files /\ d.temp \in Files
    BY DEF TypeOK, Datas
  <2>3. ASSUME NEW f \in Files, NEW g \in Settled(f) PROVE g \in Files
    <3>1. f.image \in Images \cup {NoImage} /\ \A w \in BOOLEAN : File(f.image, w, TRUE) \in Files
      BY DEF File, Files
    <3>2. CASE f.synced
      BY <3>2 DEF Settled
    <3>3. CASE ~f.synced
      BY <3>1, <3>3 DEF Settled
    <3> QED
      BY <3>2, <3>3
  <2> QED
    BY <1>17, <2>1, <2>2, <2>3 DEF PowerLoss, Datas, DataType
<1>18. CASE PowerOn
  BY <1>18, <1>t DEF PowerOn, disks, DataType
<1>19. CASE FirmwareUpdated
  BY <1>19, <1>t DEF FirmwareUpdated, disks, DataType
<1>20. CASE CardChanged
  BY <1>20, <1>t DEF CardChanged, DataType
<1>21. CASE UNCHANGED vars
  BY <1>21, <1>t DEF DataType, vars
<1> QED
  BY <1>1, <1>2, <1>3, <1>4, <1>5, <1>6, <1>7, <1>8, <1>9, <1>10, <1>11, <1>12, <1>13, <1>14, <1>15, <1>16, <1>17, <1>18, <1>19, <1>20, <1>21 DEF Next, Install

(* The card. *)
LEMMA CardStep ==
  ASSUME TypeOK, ArchivedLate, [Next]_vars
  PROVE  CardType'
<1>t. CardType
  BY DEF TypeOK, CardType
<1>1. CASE InstallFromCard
  BY <1>1, <1>t DEF InstallFromCard, disks, CardType
<1>2. CASE InstallOnline
  BY <1>2, <1>t DEF InstallOnline, disks, CardType
<1>3. CASE Prepare
  BY <1>3, <1>t DEF Prepare, CardType
<1>4. CASE Copy
  BY <1>4, <1>t DEF Copy, CardType
<1>5. CASE Verify
  BY <1>5, <1>t DEF Verify, CardType
<1>6. CASE GiveUp
  BY <1>6, <1>t DEF GiveUp, CardType
<1>7. CASE Archive
  <2>1. CASE UNCHANGED <<sd, sdDisk>>
    BY <2>1, <1>t DEF CardType
  <2>2. ASSUME NEW n \in 1..Archives, SetSd([leaf |-> NoImage, archive |-> [sd.archive EXCEPT ![n] = sd.leaf]])
        PROVE  CardType'
    BY <2>2, <1>t, CardTypes DEF SetSd, CardType
  <2> QED
    BY <1>7, <2>1, <2>2 DEF Archive, FreeName
<1>8. CASE SyncArchive
  BY <1>8, <1>t DEF SyncArchive, CardType
<1>9. CASE ArchiveFails
  <2>1. job.archived # 0 => job.archived \in 1..Archives
    <3>1. job \in Jobs
      BY <1>9, JobTypes DEF ArchiveFails, At, ArchivedLate, Doing
    <3>2. job.archived \in 0..Archives
      BY <3>1 DEF Jobs
    <3> QED
      BY <3>1, <3>2, PlayerInstallAssumption
  <2>2. job.archived # 0 => Unarchived \in Cards
    BY <2>1, CardTypes DEF Unarchived
  <2> QED
    BY <1>9, <2>2, <1>t, JobTypes DEF ArchiveFails, At, ArchivedLate, Doing, CardType, SetSd, TrySyncSd
<1>10. CASE Commit
  BY <1>10, <1>t DEF Commit, CardType
<1>11. CASE CommitFails
  <2>1. job.archived # 0 => job.archived \in 1..Archives
    <3>1. job \in Jobs
      BY <1>11, JobTypes DEF CommitFails, At, ArchivedLate, Doing
    <3>2. job.archived \in 0..Archives
      BY <3>1 DEF Jobs
    <3> QED
      BY <3>1, <3>2, PlayerInstallAssumption
  <2>2. job.archived # 0 => Unarchived \in Cards
    BY <2>1, CardTypes DEF Unarchived
  <2> QED
    BY <1>11, <2>2, <1>t, JobTypes DEF CommitFails, At, ArchivedLate, Doing, CardType, SetSd, TrySyncSd
<1>12. CASE SyncPlayer
  BY <1>12, <1>t DEF SyncPlayer, CardType
<1>13. CASE RemoveArchive
  <2>1. job.archived \in 1..Archives
    <3>1. job \in Jobs /\ job.archived # 0
      BY <1>13, JobTypes DEF RemoveArchive, At, ArchivedLate, Doing
    <3>2. job.archived \in 0..Archives
      BY <3>1 DEF Jobs
    <3> QED
      BY <3>1, <3>2, PlayerInstallAssumption
  <2>2. [sd EXCEPT !.archive[job.archived] = NoImage] \in Cards
    BY <2>1, CardTypes
  <2> QED
    BY <1>13, <2>2, <1>t DEF RemoveArchive, CardType, TrySyncSd
<1>14. CASE Quarantine
  BY <1>14, <1>t, CardTypes DEF Quarantine, TrySyncSd, CardType
<1>15. CASE Select
  BY <1>15, <1>t DEF Select, CardType
<1>16. CASE PlayerExits
  BY <1>16, <1>t DEF PlayerExits, CardType
<1>17. CASE PowerLoss
  BY <1>17, <1>t DEF PowerLoss, CardType
<1>18. CASE PowerOn
  BY <1>18, <1>t DEF PowerOn, disks, CardType
<1>19. CASE FirmwareUpdated
  BY <1>19, <1>t DEF FirmwareUpdated, disks, CardType
<1>20. CASE CardChanged
  BY <1>20, <1>t, CardTypes DEF CardChanged, CardType
<1>21. CASE UNCHANGED vars
  BY <1>21, <1>t DEF CardType, vars
<1> QED
  BY <1>1, <1>2, <1>3, <1>4, <1>5, <1>6, <1>7, <1>8, <1>9, <1>10, <1>11, <1>12, <1>13, <1>14, <1>15, <1>16, <1>17, <1>18, <1>19, <1>20, <1>21 DEF Next, Install

(* The installation. *)
LEMMA JobStep ==
  ASSUME TypeOK, ArchivedLate, [Next]_vars
  PROVE  JobType'
<1>t. JobType
  BY DEF TypeOK, JobType
<1>1. CASE InstallFromCard
  BY <1>1, <1>t, DataTypes, CardTypes, PlayerInstallAssumption DEF InstallFromCard, Begin, Rejected, Jobs, JobType, Early, Files
<1>2. CASE InstallOnline
  BY <1>2, <1>t, DataTypes, PlayerInstallAssumption DEF InstallOnline, Begin, Jobs, JobType, Early, Files
<1>3. CASE Prepare
  BY <1>3, <1>t, JobTypes DEF Prepare, At, Goto, JobType, Early, Late
<1>4. CASE Copy
  BY <1>4, <1>t, JobTypes DEF Copy, At, Goto, JobType, Early, Late
<1>5. CASE Verify
  BY <1>5, <1>t, JobTypes DEF Verify, At, Goto, JobType, Early, Late
<1>6. CASE GiveUp
  BY <1>6, <1>t DEF GiveUp, JobType
<1>7. CASE Archive
  <2>1. CASE job' = [job EXCEPT !.step = "commit"]
    BY <2>1, <1>7, JobTypes DEF Archive, At, JobType, Late
  <2>2. ASSUME NEW n \in 1..Archives, job' = [job EXCEPT !.step = "sync archive", !.archived = n, !.fresh = TRUE]
        PROVE  JobType'
    <3>1. job.step # "none"
      BY <1>7 DEF Archive, At
    <3>2. n \in 0..Archives
      BY PlayerInstallAssumption
    <3> QED
      BY <3>1, <3>2, <2>2, JobTypes DEF JobType
  <2> QED
    BY <1>7, <2>1, <2>2 DEF Archive, Goto, FreeName
<1>8. CASE SyncArchive
  BY <1>8, <1>t, JobTypes DEF SyncArchive, At, Goto, JobType, Early, Late
<1>9. CASE ArchiveFails
  BY <1>9, <1>t DEF ArchiveFails, JobType
<1>10. CASE Commit
  BY <1>10, <1>t, JobTypes DEF Commit, At, Goto, JobType, Early, Late
<1>11. CASE CommitFails
  BY <1>11, <1>t DEF CommitFails, JobType
<1>12. CASE SyncPlayer
  BY <1>12, <1>t, JobTypes DEF SyncPlayer, At, Goto, JobType, Early, Late
<1>13. CASE RemoveArchive
  BY <1>13, <1>t DEF RemoveArchive, JobType
<1>14. CASE Quarantine
  BY <1>14, <1>t DEF Quarantine, JobType
<1>15. CASE Select
  BY <1>15, <1>t DEF Select, JobType
<1>16. CASE PlayerExits
  BY <1>16, <1>t DEF PlayerExits, JobType
<1>17. CASE PowerLoss
  BY <1>17, <1>t DEF PowerLoss, JobType
<1>18. CASE PowerOn
  BY <1>18, <1>t DEF PowerOn, disks, JobType
<1>19. CASE FirmwareUpdated
  BY <1>19, <1>t DEF FirmwareUpdated, disks, JobType
<1>20. CASE CardChanged
  BY <1>20, <1>t, JobTypes DEF CardChanged, NoJob, JobType, Jobs
<1>21. CASE UNCHANGED vars
  BY <1>21, <1>t DEF JobType, vars
<1> QED
  BY <1>1, <1>2, <1>3, <1>4, <1>5, <1>6, <1>7, <1>8, <1>9, <1>10, <1>11, <1>12, <1>13, <1>14, <1>15, <1>16, <1>17, <1>18, <1>19, <1>20, <1>21 DEF Next, Install

(* When an update has been archived. *)
LEMMA ArchivedLateStep ==
  ASSUME TypeOK, ArchivedLate, [Next]_vars
  PROVE  ArchivedLate'
<1>t. ArchivedLate
  BY DEF TypeOK, ArchivedLate
<1>1. CASE InstallFromCard
  BY <1>1, <1>t DEF InstallFromCard, Begin, At, Goto, ArchivedLate, Doing, Early, Late, NoJob
<1>2. CASE InstallOnline
  BY <1>2, <1>t DEF InstallOnline, Begin, At, Goto, ArchivedLate, Doing, Early, Late, NoJob
<1>3. CASE Prepare
  BY <1>3, <1>t, JobTypes DEF Prepare, Jobs, At, Goto, ArchivedLate, Doing, Early, Late, NoJob
<1>4. CASE Copy
  BY <1>4, <1>t, JobTypes DEF Copy, Jobs, At, Goto, ArchivedLate, Doing, Early, Late, NoJob
<1>5. CASE Verify
  BY <1>5, <1>t, JobTypes DEF Verify, Jobs, At, Goto, ArchivedLate, Doing, Early, Late, NoJob
<1>6. CASE GiveUp
  BY <1>6, <1>t DEF GiveUp, ArchivedLate, Doing
<1>7. CASE Archive
  <2>1. job \in Jobs /\ job # NoJob
    BY <1>7, JobTypes DEF Archive, At
  <2>2. CASE job' = NoJob
    BY <2>2 DEF ArchivedLate, Doing
  <2>3. CASE job.from = "release" /\ job' = [job EXCEPT !.step = "commit"]
    <3>1. job'.step = "commit" /\ job'.from = job.from /\ job'.archived = job.archived
      BY <2>1, <2>3 DEF Jobs
    <3> QED
      BY <3>1, <2>1, <2>3, <1>7, <1>t DEF Archive, At, ArchivedLate, Doing, Early, Late
  <2>4. ASSUME NEW n \in 1..Archives, job' = [job EXCEPT !.step = "sync archive", !.archived = n, !.fresh = TRUE]
        PROVE  ArchivedLate'
    <3>1. job'.step = "sync archive" /\ job'.archived = n
      BY <2>1, <2>4 DEF Jobs
    <3>2. n # 0
      BY PlayerInstallAssumption
    <3> QED
      BY <3>1, <3>2 DEF ArchivedLate, Doing, Early
  <2> QED
    BY <1>7, <2>2, <2>3, <2>4 DEF Archive, Goto, FreeName
<1>8. CASE SyncArchive
  BY <1>8, <1>t, JobTypes DEF SyncArchive, Jobs, At, Goto, ArchivedLate, Doing, Early, Late, NoJob
<1>9. CASE ArchiveFails
  BY <1>9, <1>t DEF ArchiveFails, ArchivedLate, Doing
<1>10. CASE Commit
  BY <1>10, <1>t, JobTypes DEF Commit, Jobs, At, Goto, ArchivedLate, Doing, Early, Late, NoJob
<1>11. CASE CommitFails
  BY <1>11, <1>t DEF CommitFails, ArchivedLate, Doing
<1>12. CASE SyncPlayer
  <2>1. job \in Jobs /\ job # NoJob
    BY <1>12, JobTypes DEF SyncPlayer, At
  <2>2. CASE job' = NoJob
    BY <2>2 DEF ArchivedLate, Doing
  <2>3. CASE job' = [job EXCEPT !.step = "remove archive"]
    <3>1. job'.step = "remove archive" /\ job'.from = job.from /\ job'.archived = job.archived
      BY <2>1, <2>3 DEF Jobs
    <3> QED
      BY <3>1, <2>1, <2>3, <1>12, <1>t DEF SyncPlayer, At, ArchivedLate, Doing, Early, Late
  <2> QED
    BY <1>12, <2>2, <2>3 DEF SyncPlayer, Goto
<1>13. CASE RemoveArchive
  BY <1>13, <1>t DEF RemoveArchive, ArchivedLate, Doing
<1>14. CASE Quarantine
  BY <1>14, <1>t DEF Quarantine, ArchivedLate, Doing
<1>15. CASE Select
  BY <1>15, <1>t DEF Select, ArchivedLate, Doing
<1>16. CASE PlayerExits
  BY <1>16, <1>t DEF PlayerExits, ArchivedLate, Doing
<1>17. CASE PowerLoss
  BY <1>17, <1>t DEF PowerLoss, ArchivedLate, Doing
<1>18. CASE PowerOn
  BY <1>18, <1>t DEF PowerOn, disks, ArchivedLate, Doing
<1>19. CASE FirmwareUpdated
  BY <1>19, <1>t DEF FirmwareUpdated, disks, ArchivedLate, Doing
<1>20. CASE CardChanged
  <2>1. CASE job' = job
    BY <2>1, <1>t DEF ArchivedLate, Doing
  <2>2. CASE job # NoJob /\ job' = [job EXCEPT !.fresh = FALSE]
    <3>1. job \in Jobs
      BY <2>2 DEF TypeOK
    <3>2. job'.step = job.step /\ job'.from = job.from /\ job'.archived = job.archived
      BY <2>2, <3>1 DEF Jobs
    <3> QED
      BY <3>2, <2>2, <1>t DEF ArchivedLate, Doing
  <2> QED
    BY <1>20, <2>1, <2>2 DEF CardChanged
<1>21. CASE UNCHANGED vars
  BY <1>21, <1>t DEF ArchivedLate, Doing, vars
<1> QED
  BY <1>1, <1>2, <1>3, <1>4, <1>5, <1>6, <1>7, <1>8, <1>9, <1>10, <1>11, <1>12, <1>13, <1>14, <1>15, <1>16, <1>17, <1>18, <1>19, <1>20, <1>21 DEF Next, Install

(***************************************************************************)
(* The copy and the installed player.                                      *)
(***************************************************************************)
LEMMA JobMoves ==
  ASSUME TypeOK, job.step # "none", NEW s, Goto(s)
  PROVE  /\ job # NoJob /\ job' # NoJob /\ job'.step = s
         /\ job'.image = job.image /\ job'.from = job.from
         /\ job'.fresh = job.fresh /\ job'.archived = job.archived
<1>1. job \in Jobs /\ job # NoJob
  BY JobTypes
<1>2. job' = [step |-> s, image |-> job.image, from |-> job.from, fresh |-> job.fresh,
              old |-> job.old, archived |-> job.archived]
  BY <1>1 DEF Goto, Jobs
<1> QED
  BY <1>1, <1>2 DEF NoJob

LEMMA NoDoing == ASSUME NEW S, job' = NoJob PROVE ~Doing(S)'
  BY DEF Doing

LEMMA TempSet ==
  ASSUME TypeOK, NEW f, SetData([data EXCEPT !.temp = f])
  PROVE  /\ data'.temp = f /\ data'.player = data.player
         /\ InstalledIsWhole => InstalledIsWhole'
<1>1. data \in Datas
  BY DataTypes
<1>2. data'.temp = f /\ data'.player = data.player
  BY <1>1 DEF SetData, Datas
<1> QED
  BY <1>2 DEF SetData, InstalledIsWhole, TypeOK

LEMMA DataInvStep ==
  ASSUME TypeOK, DataInv, [Next]_vars
  PROVE  DataInv'
<1> USE DEF DataInv
<1>1. CASE InstallFromCard
  <2>1. job'.step = "prepare" /\ UNCHANGED <<data, dataDisk>>
    BY <1>1 DEF InstallFromCard, Begin, disks
  <2> QED
    BY <2>1 DEF CopyIsOfTheImage, CopyIsVerified, PlayerIsReplaced, PlayerIsDurable, Doing, InstalledIsWhole
<1>2. CASE InstallOnline
  <2>1. job'.step = "prepare" /\ UNCHANGED <<data, dataDisk>>
    BY <1>2 DEF InstallOnline, Begin, disks
  <2> QED
    BY <2>1 DEF CopyIsOfTheImage, CopyIsVerified, PlayerIsReplaced, PlayerIsDurable, Doing, InstalledIsWhole
<1>3. CASE Prepare
  <2>1. job.step # "none" /\ Goto("copy") /\ SetData([data EXCEPT !.temp = File(job.image, FALSE, FALSE)])
    BY <1>3 DEF Prepare, At
  <2>2. File(job.image, FALSE, FALSE).image = job.image
    BY DEF File
  <2>3. data'.temp = File(job.image, FALSE, FALSE) /\ InstalledIsWhole'
    BY <2>1, TempSet
  <2>4. job # NoJob /\ job'.step = "copy" /\ job'.image = job.image
    BY <2>1, JobMoves
  <2>5. job.step = "prepare"
    BY <1>3 DEF Prepare, At
  <2> QED
    BY <2>2, <2>3, <2>4, <2>5 DEF CopyIsOfTheImage, CopyIsVerified, PlayerIsReplaced, PlayerIsDurable, Doing
<1>4. CASE Copy
  <2>1. job.step # "none" /\ Goto("verify") /\ SetData([data EXCEPT !.temp = [data.temp EXCEPT !.whole = TRUE]])
    BY <1>4 DEF Copy, At
  <2>2. LET f == [data.temp EXCEPT !.whole = TRUE] IN f.image = data.temp.image /\ f.whole
    BY DataTypes DEF Files
  <2>3. data'.temp = [data.temp EXCEPT !.whole = TRUE] /\ InstalledIsWhole'
    BY <2>1, TempSet
  <2>4. job # NoJob /\ job'.step = "verify" /\ job'.image = job.image
    BY <2>1, JobMoves
  <2>5. job.step = "copy"
    BY <1>4 DEF Copy, At
  <2> QED
    BY <2>2, <2>3, <2>4, <2>5 DEF CopyIsOfTheImage, CopyIsVerified, PlayerIsReplaced, PlayerIsDurable, Doing
<1>5. CASE Verify
  <2>1. job.step # "none" /\ Goto("archive") /\ SetData([data EXCEPT !.temp = [data.temp EXCEPT !.synced = TRUE]])
    BY <1>5 DEF Verify, At
  <2>2. LET f == [data.temp EXCEPT !.synced = TRUE] IN f.image = data.temp.image /\ f.whole = data.temp.whole /\ f.synced
    BY DataTypes DEF Files
  <2>3. data'.temp = [data.temp EXCEPT !.synced = TRUE] /\ InstalledIsWhole'
    BY <2>1, TempSet
  <2>4. job # NoJob /\ job'.step = "archive" /\ job'.image = job.image
    BY <2>1, JobMoves
  <2>5. job.step = "verify"
    BY <1>5 DEF Verify, At
  <2> QED
    BY <2>2, <2>3, <2>4, <2>5 DEF CopyIsOfTheImage, CopyIsVerified, PlayerIsReplaced, PlayerIsDurable, Doing
<1>6. CASE GiveUp
  <2>1. job' = NoJob
    BY <1>6 DEF GiveUp
  <2>2. InstalledIsWhole'
    BY <1>6, TempSet DEF GiveUp, DropTemp
  <2> QED
    BY <2>1, <2>2, NoDoing DEF CopyIsOfTheImage, CopyIsVerified, PlayerIsReplaced, PlayerIsDurable, Doing
<1>7. CASE Archive
  <2>1. UNCHANGED <<data, dataDisk>> /\ job.step = "archive" /\ job # NoJob /\ job \in Jobs
    BY <1>7, JobTypes DEF Archive, At
  <2>2. job'.step \in {"sync archive", "commit"} /\ job'.image = job.image
    BY <1>7, <2>1 DEF Archive, Goto, Jobs
  <2> QED
    BY <2>1, <2>2 DEF InstalledIsWhole, CopyIsOfTheImage, CopyIsVerified, PlayerIsReplaced, PlayerIsDurable, Doing
<1>8. CASE SyncArchive
  <2>1. UNCHANGED <<data, dataDisk>> /\ job.step = "sync archive" /\ Goto("commit")
    BY <1>8 DEF SyncArchive, At
  <2>2. job # NoJob /\ job'.step = "commit" /\ job'.image = job.image
    BY <2>1, JobMoves
  <2> QED
    BY <2>1, <2>2 DEF InstalledIsWhole, CopyIsOfTheImage, CopyIsVerified, PlayerIsReplaced, PlayerIsDurable, Doing
<1>9. CASE ArchiveFails
  <2>1. job' = NoJob
    BY <1>9 DEF ArchiveFails
  <2>2. InstalledIsWhole'
    BY <1>9, TempSet DEF ArchiveFails, DropTemp
  <2> QED
    BY <2>1, <2>2, NoDoing DEF CopyIsOfTheImage, CopyIsVerified, PlayerIsReplaced, PlayerIsDurable, Doing
<1>10. CASE Commit
  <2>1. job.step = "commit" /\ Goto("sync player") /\ SetData([player |-> data.temp, temp |-> NoFile])
    BY <1>10 DEF Commit, At
  <2>2. job # NoJob
    BY <2>1, JobMoves
  <2>3. data'.player = data.temp
    BY <2>1 DEF SetData
  <2>4. data.temp.image = job.image /\ data.temp.whole /\ data.temp.synced
    BY <2>1, <2>2 DEF CopyIsOfTheImage, CopyIsVerified, Doing
  <2>5. InstalledIsWhole'
    BY <2>1, <2>3, <2>4 DEF SetData, InstalledIsWhole
  <2>6. job'.step = "sync player" /\ job'.image = job.image
    BY <2>1, JobMoves
  <2> QED
    BY <2>3, <2>4, <2>5, <2>6 DEF CopyIsOfTheImage, CopyIsVerified, PlayerIsReplaced, PlayerIsDurable, Doing
<1>11. CASE CommitFails
  <2>1. job' = NoJob
    BY <1>11 DEF CommitFails
  <2>2. InstalledIsWhole'
    BY <1>11, TempSet DEF CommitFails, DropTemp
  <2> QED
    BY <2>1, <2>2, NoDoing DEF CopyIsOfTheImage, CopyIsVerified, PlayerIsReplaced, PlayerIsDurable, Doing
<1>12. CASE SyncPlayer
  <2>1. job.step = "sync player" /\ job # NoJob
    BY <1>12, JobTypes DEF SyncPlayer, At
  <2>2. CASE job' = NoJob /\ (SyncData \/ UNCHANGED <<data, dataDisk>>)
    BY <2>2, NoDoing DEF SyncData, InstalledIsWhole, TypeOK, CopyIsOfTheImage, CopyIsVerified, PlayerIsReplaced, PlayerIsDurable, Doing
  <2>3. CASE Goto("remove archive") /\ SyncData
    <3>1. job'.step = "remove archive" /\ job'.image = job.image
      BY <2>1, <2>3, JobMoves
    <3>2. data' = data /\ dataDisk' = {data} /\ data \in dataDisk
      BY <2>3 DEF SyncData, TypeOK
    <3> QED
      BY <2>1, <3>1, <3>2 DEF InstalledIsWhole, CopyIsOfTheImage, CopyIsVerified, PlayerIsReplaced, PlayerIsDurable, Doing
  <2> QED
    BY <1>12, <2>2, <2>3 DEF SyncPlayer
<1>13. CASE RemoveArchive
  <2>1. job' = NoJob
    BY <1>13 DEF RemoveArchive
  <2>2. InstalledIsWhole'
    BY <1>13 DEF RemoveArchive, InstalledIsWhole
  <2> QED
    BY <2>1, <2>2, NoDoing DEF CopyIsOfTheImage, CopyIsVerified, PlayerIsReplaced, PlayerIsDurable, Doing
<1>14. CASE Quarantine
  BY <1>14 DEF Quarantine, InstalledIsWhole, CopyIsOfTheImage, CopyIsVerified, PlayerIsReplaced, PlayerIsDurable, Doing
<1>15. CASE Select
  <2>1. job' = job /\ job = NoJob
    BY <1>15 DEF Select
  <2>2. data \in Datas /\ NoFile.whole /\ NoFile.synced
    BY DataTypes DEF NoFile
  <2>3. [data EXCEPT !.player = NoFile].player = NoFile
    BY <2>2 DEF Datas
  <2>4. data' \in {data, [data EXCEPT !.player = NoFile]} /\ dataDisk' \in {{data'}, dataDisk, dataDisk \cup {data'}}
    BY <1>15 DEF Select
  <2>5. InstalledIsWhole'
    BY <2>2, <2>3, <2>4 DEF InstalledIsWhole, TypeOK
  <2> QED
    BY <2>1, <2>5 DEF CopyIsOfTheImage, CopyIsVerified, PlayerIsReplaced, PlayerIsDurable, Doing
<1>16. CASE PlayerExits
  <2>1. job' = NoJob
    BY <1>16 DEF PlayerExits
  <2>2. InstalledIsWhole'
    BY <1>16 DEF PlayerExits, InstalledIsWhole, TypeOK
  <2> QED
    BY <2>1, <2>2, NoDoing DEF CopyIsOfTheImage, CopyIsVerified, PlayerIsReplaced, PlayerIsDurable, Doing
<1>17. CASE PowerLoss
  <2>1. job' = NoJob
    BY <1>17 DEF PowerLoss
  <2>2. PICK d \in dataDisk : \E p \in Settled(d.player), t \in Settled(d.temp) : data' = [player |-> p, temp |-> t]
    BY <1>17 DEF PowerLoss
  <2>3. Settled(d.player) = {d.player}
    BY DEF Settled, InstalledIsWhole
  <2>4. data'.player = d.player /\ dataDisk' = {data'}
    BY <2>2, <2>3, <1>17 DEF PowerLoss
  <2>5. InstalledIsWhole'
    BY <2>4 DEF InstalledIsWhole
  <2> QED
    BY <2>1, <2>5, NoDoing DEF CopyIsOfTheImage, CopyIsVerified, PlayerIsReplaced, PlayerIsDurable, Doing
<1>18. CASE PowerOn
  BY <1>18 DEF PowerOn, disks, InstalledIsWhole, CopyIsOfTheImage, CopyIsVerified, PlayerIsReplaced, PlayerIsDurable, Doing
<1>19. CASE FirmwareUpdated
  BY <1>19 DEF FirmwareUpdated, disks, InstalledIsWhole, CopyIsOfTheImage, CopyIsVerified, PlayerIsReplaced, PlayerIsDurable, Doing
<1>20. CASE CardChanged
  <2>1. UNCHANGED <<data, dataDisk>>
    BY <1>20 DEF CardChanged
  <2>2. job' = job \/ (job # NoJob /\ job'.step = job.step /\ job'.image = job.image)
    BY <1>20 DEF CardChanged, TypeOK, Jobs
  <2> QED
    BY <2>1, <2>2 DEF InstalledIsWhole, CopyIsOfTheImage, CopyIsVerified, PlayerIsReplaced, PlayerIsDurable, Doing
<1>21. CASE UNCHANGED vars
  BY <1>21 DEF vars, InstalledIsWhole, CopyIsOfTheImage, CopyIsVerified, PlayerIsReplaced, PlayerIsDurable, Doing
<1> QED
  BY <1>1, <1>2, <1>3, <1>4, <1>5, <1>6, <1>7, <1>8, <1>9, <1>10, <1>11, <1>12, <1>13, <1>14, <1>15, <1>16, <1>17, <1>18, <1>19, <1>20, <1>21 DEF Next, Install

(***************************************************************************)
(* Where the update is.                                                    *)
(***************************************************************************)
LEMMA OnCardFacts == \A s : s.leaf \in OnCard(s) /\ \A n \in 1..Archives : s.archive[n] \in OnCard(s)
  BY DEF OnCard

(* The archive under its old name again, in memory or also on the disk. *)
LEMMA UnarchivedKept ==
  ASSUME TypeOK, CardInv, job.step \in {"sync archive", "commit"}, job' = NoJob,
         \/ job.archived # 0 /\ sd' = Unarchived /\ (sdDisk' = {sd'} \/ sdDisk' = sdDisk \cup {sd'})
         \/ UNCHANGED <<sd, sdDisk>>
  PROVE  LeafIsKept'
<1>1. CASE UNCHANGED <<sd, sdDisk>>
  BY <1>1 DEF LeafIsKept, CardInv
<1>2. CASE job.archived # 0 /\ sd' = Unarchived /\ (sdDisk' = {sd'} \/ sdDisk' = sdDisk \cup {sd'})
  <2>1. job # NoJob
    BY JobTypes
  <2>2. \A s \in sdDisk : sd.archive[job.archived] \in OnCard(s)
    BY <1>2, <2>1 DEF ArchiveIsKept, CardInv, Doing, Late
  <2>3. sd'.leaf = sd.archive[job.archived]
    BY <1>2 DEF Unarchived
  <2> QED
    BY <1>2, <2>2, <2>3, OnCardFacts DEF LeafIsKept
<1> QED
  BY <1>1, <1>2

LEMMA CardInvStep ==
  ASSUME TypeOK, CardInv, [Next]_vars
  PROVE  CardInv'
<1>a. ArchivedLate'
  BY ArchivedLateStep DEF CardInv
<1>b. ArchivedLate /\ LeafIsKept /\ SourceIsLeaf /\ ArchiveIsKept /\ SourceArchived /\ LeafIsGone
  BY DEF CardInv
<1>1. CASE InstallFromCard
  <2>1. job'.step = "prepare" /\ job'.image = sd.leaf /\ UNCHANGED <<sd, sdDisk>>
    BY <1>1 DEF InstallFromCard, Begin, disks
  <2> QED
    BY <1>a, <1>b, <2>1 DEF CardInv, LeafIsKept, SourceIsLeaf, ArchiveIsKept, SourceArchived, LeafIsGone, Doing, Late, Early
<1>2. CASE InstallOnline
  <2>1. job'.step = "prepare" /\ job'.from = "release" /\ UNCHANGED <<sd, sdDisk>>
    BY <1>2 DEF InstallOnline, Begin, disks
  <2> QED
    BY <1>a, <1>b, <2>1 DEF CardInv, LeafIsKept, SourceIsLeaf, ArchiveIsKept, SourceArchived, LeafIsGone, Doing, Late, Early
<1>3. CASE Prepare
  <2>1. job.step = "prepare" /\ Goto("copy") /\ UNCHANGED <<sd, sdDisk>>
    BY <1>3 DEF Prepare, At
  <2>2. /\ job # NoJob /\ job'.step = "copy" /\ job'.image = job.image /\ job'.from = job.from
        /\ job'.fresh = job.fresh /\ job'.archived = job.archived
    BY <2>1, JobMoves
  <2> QED
    BY <1>a, <1>b, <2>1, <2>2 DEF CardInv, LeafIsKept, SourceIsLeaf, ArchiveIsKept, SourceArchived, LeafIsGone, Doing, Late, Early
<1>4. CASE Copy
  <2>1. job.step = "copy" /\ Goto("verify") /\ UNCHANGED <<sd, sdDisk>>
    BY <1>4 DEF Copy, At
  <2>2. /\ job # NoJob /\ job'.step = "verify" /\ job'.image = job.image /\ job'.from = job.from
        /\ job'.fresh = job.fresh /\ job'.archived = job.archived
    BY <2>1, JobMoves
  <2> QED
    BY <1>a, <1>b, <2>1, <2>2 DEF CardInv, LeafIsKept, SourceIsLeaf, ArchiveIsKept, SourceArchived, LeafIsGone, Doing, Late, Early
<1>5. CASE Verify
  <2>1. job.step = "verify" /\ Goto("archive") /\ UNCHANGED <<sd, sdDisk>>
    BY <1>5 DEF Verify, At
  <2>2. /\ job # NoJob /\ job'.step = "archive" /\ job'.image = job.image /\ job'.from = job.from
        /\ job'.fresh = job.fresh /\ job'.archived = job.archived
    BY <2>1, JobMoves
  <2> QED
    BY <1>a, <1>b, <2>1, <2>2 DEF CardInv, LeafIsKept, SourceIsLeaf, ArchiveIsKept, SourceArchived, LeafIsGone, Doing, Late, Early
<1>6. CASE GiveUp
  <2>1. job' = NoJob /\ UNCHANGED <<sd, sdDisk>>
    BY <1>6 DEF GiveUp
  <2> QED
    BY <1>a, <1>b, <2>1, NoDoing DEF CardInv, LeafIsKept, SourceIsLeaf, ArchiveIsKept, SourceArchived, LeafIsGone, Doing
<1>7. CASE Archive
  <2>1. job.step = "archive" /\ job \in Jobs /\ job # NoJob /\ job.archived = 0
    BY <1>7, <1>b, JobTypes DEF Archive, At, ArchivedLate, Doing, Early
  <2>2. CASE job.from = "release" /\ Goto("commit") /\ UNCHANGED <<sd, sdDisk>>
    <3>1. job'.step = "commit" /\ job'.from = "release" /\ job'.archived = 0
      BY <2>1, <2>2, JobMoves
    <3> QED
      BY <1>a, <1>b, <2>2, <3>1 DEF CardInv, LeafIsKept, SourceIsLeaf, ArchiveIsKept, SourceArchived, LeafIsGone, Doing, Early
  <2>3. ASSUME NEW n \in 1..Archives, sd.leaf # NoImage, job.from = "card" => job.fresh,
               SetSd([leaf |-> NoImage, archive |-> [sd.archive EXCEPT ![n] = sd.leaf]]),
               job' = [job EXCEPT !.step = "sync archive", !.archived = n, !.fresh = TRUE]
        PROVE  CardInv'
    <3>1. job'.step = "sync archive" /\ job'.from = job.from /\ job'.archived = n /\ job'.image = job.image
      BY <2>1, <2>3 DEF Jobs
    <3>2. sd'.leaf = NoImage /\ sd'.archive[n] = sd.leaf /\ sdDisk' = sdDisk \cup {sd'}
      BY <2>3, CardTypes DEF SetSd
    <3>3. job.from = "card" => sd.leaf = job.image
      BY <1>b, <2>1, <2>3 DEF SourceIsLeaf, Doing, Early
    <3>4. \A s \in sdDisk' : sd.leaf \in OnCard(s)
      BY <1>b, <2>3, <3>2, OnCardFacts DEF LeafIsKept
    <3> QED
      BY <1>a, <3>1, <3>2, <3>3, <3>4 DEF CardInv, LeafIsKept, SourceIsLeaf, ArchiveIsKept, SourceArchived, LeafIsGone, Doing, Early
  <2> QED
    BY <1>7, <2>2, <2>3 DEF Archive, FreeName
<1>8. CASE SyncArchive
  <2>1. job.step = "sync archive" /\ Goto("commit") /\ sd' = sd /\ sdDisk' = {sd}
    BY <1>8 DEF SyncArchive, At
  <2>2. /\ job \in Jobs /\ job # NoJob /\ job'.step = "commit" /\ job'.image = job.image /\ job'.from = job.from
        /\ job'.fresh = job.fresh /\ job'.archived = job.archived
    BY <2>1, JobMoves, JobTypes
  <2>3. job.archived \in 1..Archives
    <3>1. job.archived # 0 /\ job.archived \in 0..Archives
      BY <1>b, <2>1, <2>2 DEF ArchivedLate, Doing, Jobs
    <3> QED
      BY <3>1, PlayerInstallAssumption
  <2> QED
    BY <1>a, <1>b, <2>1, <2>2, <2>3, OnCardFacts DEF CardInv, LeafIsKept, SourceIsLeaf, ArchiveIsKept, SourceArchived, LeafIsGone, Doing, Late, Early
<1>9. CASE ArchiveFails
  <2>1. job' = NoJob /\ job.step \in {"sync archive", "commit"}
    BY <1>9 DEF ArchiveFails, At
  <2>2. job.archived # 0
    BY <1>b, <1>9, JobTypes DEF ArchiveFails, At, ArchivedLate, Doing
  <2>3. LeafIsKept'
    BY <1>9, <2>1, <2>2, UnarchivedKept DEF ArchiveFails, SetSd
  <2> QED
    BY <1>a, <2>1, <2>3, NoDoing DEF CardInv, SourceIsLeaf, ArchiveIsKept, SourceArchived, LeafIsGone
<1>10. CASE Commit
  <2>1. job.step = "commit" /\ Goto("sync player") /\ UNCHANGED <<sd, sdDisk>>
    BY <1>10 DEF Commit, At
  <2>2. /\ job # NoJob /\ job'.step = "sync player" /\ job'.image = job.image /\ job'.from = job.from
        /\ job'.fresh = job.fresh /\ job'.archived = job.archived
    BY <2>1, JobMoves
  <2> QED
    BY <1>a, <1>b, <2>1, <2>2 DEF CardInv, LeafIsKept, SourceIsLeaf, ArchiveIsKept, SourceArchived, LeafIsGone, Doing, Late, Early
<1>11. CASE CommitFails
  <2>1. job' = NoJob /\ job.step \in {"sync archive", "commit"}
    BY <1>11 DEF CommitFails, At
  <2>3. LeafIsKept'
    BY <1>11, <2>1, UnarchivedKept DEF CommitFails, TrySyncSd
  <2> QED
    BY <1>a, <2>1, <2>3, NoDoing DEF CardInv, SourceIsLeaf, ArchiveIsKept, SourceArchived, LeafIsGone
<1>12. CASE SyncPlayer
  <2>1. job.step = "sync player" /\ UNCHANGED <<sd, sdDisk>>
    BY <1>12 DEF SyncPlayer, At
  <2>2. CASE job' = NoJob
    BY <1>a, <1>b, <2>1, <2>2, NoDoing DEF CardInv, LeafIsKept, SourceIsLeaf, ArchiveIsKept, SourceArchived, LeafIsGone, Doing
  <2>3. CASE Goto("remove archive")
    <3>1. /\ job # NoJob /\ job'.step = "remove archive" /\ job'.image = job.image /\ job'.from = job.from
          /\ job'.fresh = job.fresh /\ job'.archived = job.archived
      BY <2>1, <2>3, JobMoves
    <3> QED
      BY <1>a, <1>b, <2>1, <3>1 DEF CardInv, LeafIsKept, SourceIsLeaf, ArchiveIsKept, SourceArchived, LeafIsGone, Doing, Late, Early
  <2> QED
    BY <1>12, <2>2, <2>3 DEF SyncPlayer
<1>13. CASE RemoveArchive
  <2>1. job' = NoJob
    BY <1>13 DEF RemoveArchive
  <2>2. LeafIsKept'
    <3>1. sd'.leaf = sd.leaf /\ sdDisk' \in {sdDisk, {sd'}, sdDisk \cup {sd'}}
      BY <1>13, CardTypes DEF RemoveArchive, TrySyncSd, Cards
    <3> QED
      BY <1>b, <3>1, OnCardFacts DEF LeafIsKept
  <2> QED
    BY <1>a, <2>1, <2>2, NoDoing DEF CardInv, SourceIsLeaf, ArchiveIsKept, SourceArchived, LeafIsGone
<1>14. CASE Quarantine
  <2>1. job' = NoJob
    BY <1>14 DEF Quarantine
  <2>2. LeafIsKept'
    BY <1>14, CardTypes DEF Quarantine, LeafIsKept, Cards
  <2> QED
    BY <1>a, <2>1, <2>2, NoDoing DEF CardInv, SourceIsLeaf, ArchiveIsKept, SourceArchived, LeafIsGone
<1>15. CASE Select
  <2>1. UNCHANGED <<sd, sdDisk, job>>
    BY <1>15 DEF Select
  <2> QED
    BY <1>a, <1>b, <2>1 DEF CardInv, LeafIsKept, SourceIsLeaf, ArchiveIsKept, SourceArchived, LeafIsGone, Doing
<1>16. CASE PlayerExits
  <2>1. job' = NoJob
    BY <1>16 DEF PlayerExits
  <2>2. LeafIsKept'
    BY <1>16, OnCardFacts DEF PlayerExits, LeafIsKept
  <2> QED
    BY <1>a, <2>1, <2>2, NoDoing DEF CardInv, SourceIsLeaf, ArchiveIsKept, SourceArchived, LeafIsGone
<1>17. CASE PowerLoss
  <2>1. job' = NoJob
    BY <1>17 DEF PowerLoss
  <2>2. LeafIsKept'
    BY <1>17, OnCardFacts DEF PowerLoss, LeafIsKept
  <2> QED
    BY <1>a, <2>1, <2>2, NoDoing DEF CardInv, SourceIsLeaf, ArchiveIsKept, SourceArchived, LeafIsGone
<1>18. CASE PowerOn
  <2>1. UNCHANGED <<sd, sdDisk, job>>
    BY <1>18 DEF PowerOn, disks
  <2> QED
    BY <1>a, <1>b, <2>1 DEF CardInv, LeafIsKept, SourceIsLeaf, ArchiveIsKept, SourceArchived, LeafIsGone, Doing
<1>19. CASE FirmwareUpdated
  <2>1. UNCHANGED <<sd, sdDisk, job>>
    BY <1>19 DEF FirmwareUpdated, disks
  <2> QED
    BY <1>a, <1>b, <2>1 DEF CardInv, LeafIsKept, SourceIsLeaf, ArchiveIsKept, SourceArchived, LeafIsGone, Doing
<1>20. CASE CardChanged
  <2>1. sd'.archive = sd.archive /\ sdDisk' = {sd'}
    BY <1>20, CardTypes DEF CardChanged, Cards
  <2>2. LeafIsKept' /\ LeafIsGone'
    BY <2>1, OnCardFacts DEF LeafIsKept, LeafIsGone
  <2>3. job # NoJob => job \in Jobs
    BY DEF TypeOK
  <2>4. CASE job # NoJob /\ job.archived = 0 /\ job' = [job EXCEPT !.fresh = FALSE]
    <3>1. job'.step = job.step /\ job'.from = job.from /\ job'.archived = 0 /\ job'.image = job.image /\ ~job'.fresh
      BY <2>3, <2>4 DEF Jobs
    <3>2. SourceIsLeaf' /\ ArchiveIsKept'
      BY <3>1 DEF SourceIsLeaf, ArchiveIsKept
    <3>3. SourceArchived'
      BY <1>a, <3>1 DEF ArchivedLate, SourceArchived, Doing
    <3> QED
      BY <1>a, <2>2, <3>2, <3>3 DEF CardInv
  <2>5. CASE job = NoJob /\ job' = job
    BY <1>a, <2>2, <2>5, NoDoing DEF CardInv, SourceIsLeaf, ArchiveIsKept, SourceArchived
  <2>6. CASE job # NoJob /\ job.archived # 0 /\ job' = job
    <3>1. job.archived \in 1..Archives
      <4>1. job.archived \in 0..Archives
        BY <2>3, <2>6 DEF Jobs
      <4> QED
        BY <4>1, <2>6, PlayerInstallAssumption
    <3>2. SourceIsLeaf'
      BY <1>b, <2>6 DEF SourceIsLeaf, ArchivedLate, Doing
    <3>3. ArchiveIsKept' /\ SourceArchived'
      BY <1>b, <2>1, <2>6, <3>1, OnCardFacts DEF ArchiveIsKept, SourceArchived, Doing
    <3> QED
      BY <1>a, <2>2, <3>2, <3>3 DEF CardInv
  <2> QED
    BY <1>20, <2>4, <2>5, <2>6 DEF CardChanged
<1>21. CASE UNCHANGED vars
  BY <1>a, <1>b, <1>21 DEF vars, CardInv, LeafIsKept, SourceIsLeaf, ArchiveIsKept, SourceArchived, LeafIsGone, Doing
<1> QED
  BY <1>1, <1>2, <1>3, <1>4, <1>5, <1>6, <1>7, <1>8, <1>9, <1>10, <1>11, <1>12, <1>13, <1>14, <1>15, <1>16, <1>17, <1>18, <1>19, <1>20, <1>21 DEF Next, Install

(***************************************************************************)
(* The inductive invariant.                                                *)
(***************************************************************************)
LEMMA InitInv == Init => Inv
<1> SUFFICES ASSUME Init PROVE Inv
  OBVIOUS
<1>1. PICK f \in {NoFile} \cup {File(i, TRUE, TRUE) : i \in Good} : data = [player |-> f, temp |-> NoFile]
  BY DEF Init
<1>2. f \in Files /\ f.whole /\ f.synced /\ NoFile \in Files
  <2>1. CASE f = NoFile
    BY <2>1, FileTypes DEF NoFile
  <2>2. ASSUME NEW i \in Good, f = File(i, TRUE, TRUE)
        PROVE  f \in Files /\ f.whole /\ f.synced
    BY <2>2, FileTypes, PlayerInstallAssumption DEF File
  <2> QED
    BY <2>1, <2>2, FileTypes
<1>3. data \in Datas /\ data.player = f /\ dataDisk = {data}
  BY <1>1, <1>2 DEF Init, Datas
<1>4. sd \in Cards /\ sdDisk = {sd}
  BY DEF Init, Cards
<1>5. job = NoJob /\ packaged \in Nat /\ faults \in Nat /\ phase \in {"off", "loader", "running"}
  BY DEF Init
<1>6. TypeOK
  BY <1>3, <1>4, <1>5 DEF TypeOK
<1>7. DataInv
  BY <1>2, <1>3, <1>5
  DEF DataInv, InstalledIsWhole, CopyIsOfTheImage, CopyIsVerified, PlayerIsReplaced, PlayerIsDurable, Doing
<1>8. CardInv
  BY <1>4, <1>5, OnCardFacts
  DEF CardInv, ArchivedLate, LeafIsKept, SourceIsLeaf, ArchiveIsKept, SourceArchived, LeafIsGone, Doing
<1> QED
  BY <1>6, <1>7, <1>8 DEF Inv

LEMMA TypeStep ==
  ASSUME TypeOK, ArchivedLate, [Next]_vars
  PROVE  TypeOK'
<1>0. packaged \in Nat /\ faults \in Nat /\ phase \in {"off", "loader", "running"}
  BY DEF TypeOK
<1>1. DataType' /\ CardType' /\ JobType'
  BY DataStep, CardStep, JobStep
<1>2. CASE InstallFromCard \/ InstallOnline \/ Prepare \/ Copy \/ Verify \/ GiveUp \/ Archive \/ SyncArchive
  BY <1>0, <1>1, <1>2 DEF TypeOK, DataType, CardType, JobType,
     InstallFromCard, InstallOnline, Prepare, Copy, Verify, GiveUp, Archive, SyncArchive
<1>3. CASE ArchiveFails \/ Commit \/ CommitFails \/ SyncPlayer \/ RemoveArchive \/ Quarantine \/ UNCHANGED vars
  BY <1>0, <1>1, <1>3 DEF TypeOK, DataType, CardType, JobType, vars,
     ArchiveFails, Commit, CommitFails, SyncPlayer, RemoveArchive, Quarantine
<1>4. CASE Select \/ PlayerExits \/ PowerLoss \/ PowerOn \/ FirmwareUpdated \/ CardChanged
  BY <1>0, <1>1, <1>4 DEF TypeOK, DataType, CardType, JobType, Fault,
     Select, PlayerExits, PowerLoss, PowerOn, FirmwareUpdated, CardChanged
<1> QED
  BY <1>2, <1>3, <1>4 DEF Next, Install

LEMMA InvStep == Inv /\ [Next]_vars => Inv'
  BY TypeStep, DataInvStep, CardInvStep DEF Inv, CardInv

(* Inv holds in every state the installer reaches. *)
THEOREM Invariance == Spec => []Inv
<1>1. Init => Inv
  BY InitInv
<1>2. Inv /\ [Next]_vars => Inv'
  BY InvStep
<1> QED
  BY <1>1, <1>2, PTL DEF Spec

(***************************************************************************)
(* The results.                                                            *)
(***************************************************************************)
(* The two directories, what is on the disks and the installation that     *)
(* runs keep their types.                                                  *)
THEOREM TypeCorrect == Spec => []TypeOK
<1>1. Inv => TypeOK
  BY DEF Inv
<1> QED
  BY <1>1, Invariance, PTL

(* The name the loader executes holds no player or a whole, synced one in  *)
(* everything a power loss may leave of the disk (player_install_fd()).    *)
THEOREM WholePlayer == Spec => []InstalledIsWhole
<1>1. Inv => InstalledIsWhole
  BY DEF Inv, DataInv
<1> QED
  BY <1>1, Invariance, PTL

(* After the rename over the player no power loss puts an archived update  *)
(* back under the name the loader looks for (archive_source()).            *)
THEOREM OfferedOnce == Spec => []NotOfferedAgain
<1>1. Inv => NotOfferedAgain
  BY DEF Inv, CardInv, LeafIsGone, NotOfferedAgain, Doing
<1> QED
  BY <1>1, Invariance, PTL

(* An update being installed from the card is in everything the card may   *)
(* become: under its name at first, under the archived one later.          *)
LEMMA UpdateOnCard ==
  ASSUME Inv, job # NoJob, job.from = "card", job.fresh
  PROVE  \A s \in sdDisk : job.image \in OnCard(s)
<1>1. job \in Jobs /\ job.step \in Early \cup Late /\ job.image # NoImage
  BY PlayerInstallAssumption DEF Inv, TypeOK, Jobs
<1>2. CASE job.step \in Early
  BY <1>1, <1>2 DEF Inv, CardInv, SourceIsLeaf, LeafIsKept, Doing
<1>3. CASE job.step \in Late
  BY <1>1, <1>3 DEF Inv, CardInv, ArchivedLate, ArchiveIsKept, SourceArchived, Doing
<1> QED
  BY <1>1, <1>2, <1>3

(* No step of the installer, of the loader or of a power loss loses the    *)
(* update: it stays on the card until it is the player on the disk.        *)
LEMMA UpdateStep ==
  ASSUME Inv, Next, job # NoJob, job.from = "card", job.fresh, ~CardChanged
  PROVE  \A d \in dataDisk', s \in sdDisk' : job.image \in OnCard(s) \cup {d.player.image}
<1>c. \A s \in sdDisk : job.image \in OnCard(s)
  BY UpdateOnCard
<1>s. sd \in sdDisk
  BY DEF Inv, TypeOK
<1>1. CASE sdDisk' \subseteq sdDisk
  BY <1>1, <1>c
<1>2. CASE Archive
  <2>1. job.step = "archive"
    BY <1>2 DEF Archive, At
  <2>2. sd.leaf = job.image
    BY <2>1 DEF Inv, CardInv, SourceIsLeaf, Doing, Early
  <2>3. PICK n \in 1..Archives : SetSd([leaf |-> NoImage, archive |-> [sd.archive EXCEPT ![n] = sd.leaf]])
    BY <1>2 DEF Archive, FreeName
  <2>4. sd'.archive[n] = job.image
    BY <2>2, <2>3, CardTypes DEF SetSd, Inv
  <2> QED
    BY <1>c, <2>3, <2>4, OnCardFacts DEF SetSd
<1>3. ASSUME job.step \in {"sync archive", "commit"}, sd' = Unarchived, sdDisk' \subseteq sdDisk \cup {sd'}
      PROVE  \A s \in sdDisk' : job.image \in OnCard(s)
  <2>1. sd.archive[job.archived] = job.image
    BY <1>3 DEF Inv, CardInv, SourceArchived, Doing, Late
  <2>2. sd'.leaf = job.image
    BY <1>3, <2>1 DEF Unarchived
  <2> QED
    BY <1>c, <1>3, <2>2, OnCardFacts
<1>4. CASE ArchiveFails
  BY <1>1, <1>3, <1>4 DEF ArchiveFails, At, SetSd
<1>5. CASE CommitFails
  BY <1>1, <1>3, <1>5 DEF CommitFails, At, TrySyncSd
<1>6. CASE RemoveArchive
  <2>1. \A d \in dataDisk : d.player.image = job.image
    BY <1>6 DEF RemoveArchive, At, Inv, DataInv, PlayerIsDurable, Doing
  <2> QED
    BY <1>6, <2>1 DEF RemoveArchive
<1>7. CASE InstallFromCard \/ InstallOnline \/ Quarantine \/ Select
  BY <1>7 DEF InstallFromCard, InstallOnline, Quarantine, Select
<1>8. CASE Prepare \/ Copy \/ Verify \/ GiveUp \/ Commit \/ SyncPlayer \/ PowerOn \/ FirmwareUpdated
  BY <1>1, <1>8 DEF Prepare, Copy, Verify, GiveUp, Commit, SyncPlayer, PowerOn, FirmwareUpdated, disks
<1>9. CASE SyncArchive \/ PlayerExits \/ PowerLoss
  <2>1. sdDisk' = {sd} \/ (sd' \in sdDisk /\ sdDisk' = {sd'})
    BY <1>9 DEF SyncArchive, PlayerExits, PowerLoss
  <2>2. sdDisk' \subseteq sdDisk
    BY <2>1, <1>s
  <2> QED
    BY <2>2, <1>1
<1> QED
  BY <1>2, <1>4, <1>5, <1>6, <1>7, <1>8, <1>9 DEF Next, Install

(* Whatever becomes of an install from the card, the update is still there *)
(* or is the installed player (archive_source() to cleanup()).             *)
THEOREM UpdateKept == Spec => UpdateIsNotLost
<1>1. Inv /\ [Next]_vars =>
        [job # NoJob /\ job.from = "card" /\ job.fresh /\ ~CardChanged =>
           \A d \in dataDisk', s \in sdDisk' : job.image \in OnCard(s) \cup {d.player.image}]_vars
  BY UpdateStep
<1> QED
  BY <1>1, Invariance, PTL DEF Spec, UpdateIsNotLost
=============================================================================
