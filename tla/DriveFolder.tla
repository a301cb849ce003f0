----------------------------- MODULE DriveFolder -----------------------------
(***************************************************************************)
(* The Google Drive folder that exports are published to, for the one file *)
(* name they all use (DEFAULT_FILENAME).  Drive identifies files by id, a  *)
(* name is only an attribute: GoogleDriveFileExport._upload_sync first     *)
(* searches the name and then updates the file it found, or creates one.   *)
(* The two calls are separate requests made from a worker thread, so other *)
(* uploads, and people using the folder, come in between.                  *)
(***************************************************************************)
EXTENDS Integers, FiniteSets

CONSTANTS
    Writer,       \* whoever uploads: background jobs and direct requests
    FileId,       \* the ids Drive may give out (a bound on creations)
    Seed,         \* the files of that name in the folder at the start
    CanCreate     \* FALSE: a service account, which has no storage quota

ASSUME FolderAssumption ==
    /\ Seed \subseteq FileId
    /\ CanCreate \in BOOLEAN

VARIABLES
    file,         \* file[f]: "absent", "live" or "trashed"
    content,      \* content[f]: the writers whose upload f holds, {} or one
    upload,       \* upload[w]: how far the upload of w has come
    found         \* found[w]: the file the search of w returned, {} or one

folderVars == <<file, content, upload, found>>

FolderTypeOK ==
    /\ file    \in [FileId -> {"absent", "live", "trashed"}]
    /\ content \in [FileId -> SUBSET Writer]
    /\ upload  \in [Writer -> {"idle", "found", "stored"}]
    /\ found   \in [Writer -> SUBSET FileId]

FolderInit ==
    /\ file    = [f \in FileId |-> IF f \in Seed THEN "live" ELSE "absent"]
    /\ content = [f \in FileId |-> {}]
    /\ upload  = [w \in Writer |-> "idle"]
    /\ found   = [w \in Writer |-> {}]

Live == {f \in FileId : file[f] = "live"}

-----------------------------------------------------------------------------

\* Faulty variant of FindExistingFileId: a search that may miss the file.
FindMayMiss(w) ==
    /\ upload[w] = "idle"
    /\ upload' = [upload EXCEPT ![w] = "found"]
    /\ \/ \E f \in Live : found' = [found EXCEPT ![w] = {f}]
       \/ found' = [found EXCEPT ![w] = {}]
    /\ UNCHANGED <<file, content>>

\* files().list: some file of that name outside the trash, if there is one.
FindExistingFileId(w) ==
    /\ upload[w] = "idle"
    /\ upload' = [upload EXCEPT ![w] = "found"]
    /\ \/ \E f \in Live : found' = [found EXCEPT ![w] = {f}]
       \/ Live = {} /\ found' = [found EXCEPT ![w] = {}]
    /\ UNCHANGED <<file, content>>

\* files().update by id: Drive does not look at the name or the trash again.
UpdateFile(w) ==
    /\ \E f \in found[w] : content' = [content EXCEPT ![f] = {w}]
    /\ UNCHANGED file

\* files().create: a new file, whatever else has the same name by now.
CreateFile(w) ==
    /\ found[w] = {}
    /\ CanCreate
    /\ \E f \in FileId :
          /\ file[f] = "absent"
          /\ file' = [file EXCEPT ![f] = "live"]
          /\ content' = [content EXCEPT ![f] = {w}]

Store(w) ==
    /\ upload[w] = "found"
    /\ UpdateFile(w) \/ CreateFile(w)
    /\ upload' = [upload EXCEPT ![w] = "stored"]
    /\ found'  = [found EXCEPT ![w] = {}]

\* Somebody moves a file of the folder to the trash.
Trash(f) ==
    /\ file[f] = "live"
    /\ file' = [file EXCEPT ![f] = "trashed"]
    /\ UNCHANGED <<content, upload, found>>

\* A writer that is done, or whose request failed, exports again later.
ExportAgain(w) ==
    /\ upload[w] # "idle"
    /\ upload' = [upload EXCEPT ![w] = "idle"]
    /\ found'  = [found EXCEPT ![w] = {}]
    /\ UNCHANGED <<file, content>>

FolderNext ==
    \/ \E w \in Writer :
          \/ FindExistingFileId(w)
          \/ Store(w)
          \/ ExportAgain(w)
    \/ \E f \in FileId : Trash(f)

FolderSpec == FolderInit /\ [][FolderNext]_folderVars

-----------------------------------------------------------------------------

\* "The folder always converges on one current CSV per distinct filename"
\* (drive_file_export.py:52-54).  Two first uploads that both search before
\* either creates leave two files, and no later export removes one of them.
OneFilePerName == Cardinality(Live) <= 1

\* Once the file exists the promise does hold: as long as nobody trashes it,
\* every upload of every writer updates that very file.
SeededFolderStaysSingle ==
    (Seed # {} /\ \A f \in FileId : file[f] # "trashed") => Live = Seed
=============================================================================
