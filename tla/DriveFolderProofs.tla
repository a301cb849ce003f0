--------------------------- MODULE DriveFolderProofs ---------------------------
(***************************************************************************)
(* Theorems about DriveFolder, for any writers and any files.              *)
(***************************************************************************)
EXTENDS DriveFolder, FiniteSetTheorems, TLAPS

\* Every request keeps the types of the folder.
LEMMA FolderStepType ==
  ASSUME FolderTypeOK, [FolderNext]_folderVars
  PROVE  FolderTypeOK'
  <1>1. ASSUME NEW w \in Writer, FindExistingFileId(w)
        PROVE  FolderTypeOK'
    BY <1>1 DEF FolderTypeOK, FindExistingFileId, Live
  <1>2. ASSUME NEW w \in Writer, Store(w)
        PROVE  FolderTypeOK'
    BY <1>2 DEF FolderTypeOK, Store, UpdateFile, CreateFile
  <1>3. ASSUME NEW w \in Writer, ExportAgain(w)
        PROVE  FolderTypeOK'
    BY <1>3 DEF FolderTypeOK, ExportAgain
  <1>4. ASSUME NEW f \in FileId, Trash(f)
        PROVE  FolderTypeOK'
    BY <1>4 DEF FolderTypeOK, Trash
  <1>5. CASE UNCHANGED folderVars
    BY <1>5 DEF FolderTypeOK, folderVars
  <1> QED
    BY <1>1, <1>2, <1>3, <1>4, <1>5 DEF FolderNext

\* The folder starts with its types.
LEMMA FolderInitType == FolderInit => FolderTypeOK
  BY DEF FolderInit, FolderTypeOK

\* The reason why a seeded folder stays single: as long as nothing has been
\* trashed, every search under way has found a file, so nothing is created.
Seeded == Seed # {} /\ \A f \in FileId : file[f] # "trashed"

SearchesHit ==
    Seeded => /\ Live = Seed
              /\ \A w \in Writer : upload[w] = "found" => found[w] # {}

\* No step of the folder makes a search under way come back empty-handed.
LEMMA FolderStepHits ==
  ASSUME FolderTypeOK, SearchesHit, [FolderNext]_folderVars
  PROVE  SearchesHit'
  <1> SUFFICES ASSUME Seeded' PROVE /\ (Live = Seed)'
                                    /\ (\A w \in Writer :
                                          upload[w] = "found" => found[w] # {})'
    BY DEF SearchesHit
  <1>1. ASSUME NEW w \in Writer, FindExistingFileId(w)
        PROVE  Seeded /\ Live' = Live
               /\ (\A v \in Writer : upload[v] = "found" => found[v] # {})'
    <2>1. Seeded /\ Live' = Live
      BY <1>1 DEF Seeded, FindExistingFileId, Live
    <2>2. Live # {}
      BY <2>1 DEF SearchesHit, Seeded
    <2>3. found'[w] # {}
      BY <1>1, <2>2 DEF FindExistingFileId, FolderTypeOK
    <2> QED
      BY <1>1, <2>1, <2>3 DEF FindExistingFileId, FolderTypeOK, SearchesHit
  <1>2. ASSUME NEW w \in Writer, Store(w)
        PROVE  Seeded /\ Live' = Live
               /\ (\A v \in Writer : upload[v] = "found" => found[v] # {})'
    <2>1. CASE UpdateFile(w)
      BY <1>2, <2>1
      DEF Seeded, Store, UpdateFile, Live, FolderTypeOK, SearchesHit
    <2>2. CASE CreateFile(w)
      <3>1. Seeded
        BY <2>2 DEF Seeded, CreateFile, FolderTypeOK
      <3>2. found[w] # {}
        BY <1>2, <3>1 DEF SearchesHit, Store
      <3> QED
        BY <2>2, <3>2 DEF CreateFile
    <2> QED
      BY <1>2, <2>1, <2>2 DEF Store
  <1>3. ASSUME NEW w \in Writer, ExportAgain(w)
        PROVE  Seeded /\ Live' = Live
               /\ (\A v \in Writer : upload[v] = "found" => found[v] # {})'
    BY <1>3 DEF Seeded, ExportAgain, Live, FolderTypeOK, SearchesHit
  <1>4. ASSUME NEW f \in FileId, Trash(f)
        PROVE  FALSE
    BY <1>4 DEF Seeded, Trash, FolderTypeOK
  <1>5. CASE UNCHANGED folderVars
    BY <1>5 DEF Seeded, folderVars, Live, SearchesHit
  <1> QED
    BY <1>1, <1>2, <1>3, <1>4, <1>5 DEF FolderNext, SearchesHit

\* Whatever the order of searches, uploads and retries of all writers, a
\* folder that holds the file keeps holding just that file, until somebody
\* trashes it: no upload ever creates a second one.
THEOREM SeededFolder == FolderSpec => []SeededFolderStaysSingle
  <1>1. FolderInit => FolderTypeOK /\ SearchesHit
    BY FolderInitType, FolderAssumption DEF FolderInit, SearchesHit, Live, FolderTypeOK
  <1>2. FolderTypeOK /\ SearchesHit /\ [FolderNext]_folderVars
            => (FolderTypeOK /\ SearchesHit)'
    BY FolderStepType, FolderStepHits
  <1>3. SearchesHit => SeededFolderStaysSingle
    BY DEF SearchesHit, Seeded, SeededFolderStaysSingle
  <1> QED
    BY <1>1, <1>2, <1>3, PTL DEF FolderSpec

-----------------------------------------------------------------------------
\* Exports that keep apart: between the search and the upload of one no other
\* one searches.
Apart ==
    \A v, w \in Writer : upload[v] = "found" /\ upload[w] = "found" => v = w

\* Then a search that has found nothing still says so, whenever its upload
\* comes.
Alone ==
    /\ \A f, g \in Live : f = g
    /\ \A w \in Writer : upload[w] = "found" /\ found[w] = {} => Live = {}

LEMMA FolderStepAlone ==
  ASSUME FolderTypeOK, Alone, Apart, [FolderNext]_folderVars
  PROVE  Alone'
  <1>1. ASSUME NEW w \in Writer, FindExistingFileId(w)
        PROVE  Alone'
    <2>1. Live' = Live
      BY <1>1 DEF FindExistingFileId, Live
    <2>2. ASSUME NEW v \in Writer, upload'[v] = "found", found'[v] = {}
          PROVE  Live = {}
      BY <1>1, <2>2 DEF FindExistingFileId, FolderTypeOK, Alone
    <2> QED
      BY <2>1, <2>2 DEF Alone
  <1>2. ASSUME NEW w \in Writer, Store(w)
        PROVE  Alone'
    <2>1. \A v \in Writer : upload'[v] # "found"
      BY <1>2 DEF Store, Apart, FolderTypeOK
    <2>2. CASE UpdateFile(w)
      BY <2>1, <2>2 DEF UpdateFile, Live, Alone
    <2>3. CASE CreateFile(w)
      <3>1. Live = {}
        BY <1>2, <2>3 DEF CreateFile, Store, Alone
      <3>2. PICK f \in FileId : file' = [file EXCEPT ![f] = "live"]
        BY <2>3 DEF CreateFile
      <3>3. \A g \in Live' : g = f
        BY <3>1, <3>2 DEF Live, FolderTypeOK
      <3> QED
        BY <2>1, <3>3 DEF Alone
    <2> QED
      BY <1>2, <2>2, <2>3 DEF Store
  <1>3. ASSUME NEW w \in Writer, ExportAgain(w)
        PROVE  Alone'
    BY <1>3 DEF ExportAgain, Live, Alone, FolderTypeOK
  <1>4. ASSUME NEW f \in FileId, Trash(f)
        PROVE  Alone'
    BY <1>4 DEF Trash, Live, Alone, FolderTypeOK
  <1>5. CASE UNCHANGED folderVars
    BY <1>5 DEF folderVars, Live, Alone
  <1> QED
    BY <1>1, <1>2, <1>3, <1>4, <1>5 DEF FolderNext

LEMMA AloneIsOne == Alone => OneFilePerName
  <1> SUFFICES ASSUME Alone PROVE Cardinality(Live) <= 1
    BY DEF OneFilePerName
  <1>1. CASE Live = {}
    BY <1>1, FS_EmptySet
  <1>2. CASE Live # {}
    <2>1. PICK f \in Live : Live = {f}
      BY <1>2 DEF Alone
    <2> QED
      BY <2>1, FS_Singleton
  <1> QED
    BY <1>1, <1>2

\* What the run folder_duplicate refutes holds for exports that keep apart, in
\* a folder with the file or without it, and whoever trashes it meanwhile: a
\* second file takes two exports at once.
THEOREM ApartStaysSingle ==
  (\A f, g \in Seed : f = g) => (FolderSpec /\ []Apart => []OneFilePerName)
  <1> SUFFICES ASSUME \A f, g \in Seed : f = g
               PROVE  FolderSpec /\ []Apart => []OneFilePerName
    OBVIOUS
  <1>1. FolderInit => FolderTypeOK /\ Alone
    BY FolderInitType DEF FolderInit, Alone, Live
  <1>2. FolderTypeOK /\ Alone /\ Apart /\ [FolderNext]_folderVars
            => (FolderTypeOK /\ Alone)'
    BY FolderStepType, FolderStepAlone
  <1> QED
    BY <1>1, <1>2, AloneIsOne, PTL DEF FolderSpec
===============================================================================
