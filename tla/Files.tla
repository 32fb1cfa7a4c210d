-------------------------------- MODULE Files --------------------------------
(***************************************************************************)
(* Stored results: the record and the listings of a file in Redis, its     *)
(* content on the local disk and in the file canister.                     *)
(*                                                                         *)
(* services/file_service.ts and services/can_dual_storage_manager.ts, with *)
(* the retry sweeps of services/can_file_sync_service.ts: one FileService, *)
(* one owner, one job, whose directory holds files of one stem (Names are  *)
(* its extensions; the canister's key is the name too).                    *)
(*                                                                         *)
(* Calls, the synchronisation of a file, and sweeps are asynchronous       *)
(* chains: an action is one command to Redis, the disk or the canister,    *)
(* with the code up to the next (looking for a path on the disk is one).    *)
(* Which content a name holds is left out, and with it the chunk files.    *)
(***************************************************************************)
EXTENDS Naturals, FiniteSets

CONSTANTS FileIds,      \* what generateFileId may return, never twice
          FileNames,    \* the names a stem appears under
          FileCalls,    \* store, complete, read and delete calls
          FileSweeps,   \* processRetryQueue calls under way at once
          FileRetries,  \* syncRetryAttempts
          DualStorage,  \* whether the dual storage manager was set up
          NoFile, NoName,
          FileUses,     \* bound: complete, read and delete calls
          FileCrashes   \* bound: crashes of the server process

ASSUME FilesAssumption ==
    /\ NoFile \notin FileIds /\ NoName \notin FileNames
    /\ FileCalls \cap FileSweeps = {}
    /\ (FileCalls \cup FileSweeps) \cap FileIds = {}
    /\ IsFiniteSet(FileSweeps) /\ FileSweeps # {}
    /\ {FileRetries, FileUses, FileCrashes} \subseteq Nat
    /\ DualStorage \in BOOLEAN

VARIABLES
    fileData,     \* file:{id}, or NoRecord
    filesByUser,  \* the owner's index
    filesByJob,   \* the job's index
    disk,         \* names that exist in the job's directory
    canister,     \* names the canister holds
    syncQueue,    \* file -> retryCount, for the files queued for a retry
    chain,        \* where each chain stands, and what it read
    fileIds,      \* identifiers given out
    reported,     \* <<file, name on disk>> of stores that succeeded (history)
    unlinked,     \* names ever unlinked                             (history)
    deletedFiles, \* files a delete was begun on                     (history)
    cleanDeletes, \* files deleted with no write of an older copy     (history)
    attempts,     \* file -> times its content was sent              (history)
    fileUses,     \* complete, read and delete calls so far
    fileCrashes   \* crashes so far

fileStores == <<fileData, filesByUser, filesByJob, disk, canister>>
fileVars == <<fileStores, syncQueue, chain, fileIds, reported, unlinked,
              deletedFiles, cleanDeletes, attempts, fileUses, fileCrashes>>

(***************************************************************************)
(* Records and chains.                                                     *)
(***************************************************************************)
\* Strategy "none" and status "none" are the fields createFile leaves out;
\* key is the field canister_file_key.
FileRecords == [path : FileNames \cup {NoName}, name : FileNames,
                key : FileNames \cup {NoName},
                strategy : {"none", "local", "canister", "dual"},
                status : {"none", "syncing", "synced", "sync_failed",
                          "sync_failed_permanently"}]

NoRecord == [path |-> NoName]

\* What a chain holds: its file, the name it stores under, the record it read,
\* the plan of a store or the status a synchronisation found, and the entries
\* a sweep came to.
AtRest == [pc |-> "rest", file |-> NoFile, name |-> NoName, rec |-> NoRecord,
         plan |-> "none", seen |-> {}]

Chains == FileCalls \cup FileSweeps \cup FileIds

\* The record a store under the name n writes, by its plan: storeDually adds
\* to what createFile made; storeInCanister has no local path.
PlainRecord(n) == [path |-> n, name |-> n, key |-> NoName,
                   strategy |-> "none", status |-> "none"]

DualRecord(n) == [PlainRecord(n) EXCEPT !.key = n, !.strategy = "dual", !.status = "syncing"]

CanisterRecord(n) == [PlainRecord(n) EXCEPT !.path = NoName, !.key = n,
                                            !.strategy = "canister", !.status = "synced"]

\* Where a store leaves the content on the disk
LocalName(p) == IF chain[p].plan = "canister" THEN NoName ELSE chain[p].name

\* retrieveFromCanister: canister_file_key, or the name
CanisterKey(r) == IF r.key = NoName THEN r.name ELSE r.key

At(p, pc) == chain[p].pc = pc
Moves(p, next) == chain' = [chain EXCEPT ![p] = next]
Goes(p, pc) == Moves(p, [chain[p] EXCEPT !.pc = pc])
Ends(p) == Moves(p, AtRest)

\* The files whose identifier a client can have
Known == filesByUser \cup {e[1] : e \in reported}

\* The chains that made the record of f, or read it, and will write it back
Holders(f) == {p \in Chains :
    /\ chain[p].file = f
    /\ chain[p].pc \in {"create", "listUser", "listJob", "write", "hash", "dual",
                        "announce", "stamp", "mark", "open", "join", "access", "resolve"}}

Deleting(f) == \E p \in FileCalls :
    chain[p].file = f /\ chain[p].pc \in {"unlink", "del", "unlistUser", "unlistJob"}

----------------------------------------------------------------------------
(***************************************************************************)
(* createFile and writeFileData.                                           *)
(***************************************************************************)
FilePlans == {"upload"} \cup IF DualStorage THEN {"local", "canister", "dual"} ELSE {"plain"}

\* A store with an identifier of its own.  "upload" is WebSocketFileHandler;
\* the others are createFileFromJobResult, the strategy chosen by size.
Starts(p, n, plan) ==
    \E f \in FileIds \ fileIds :
        /\ fileIds' = fileIds \cup {f}
        /\ Moves(p, [AtRest EXCEPT !.pc = IF plan = "canister" THEN "put" ELSE "create",
                                 !.file = f, !.plan = plan, !.name = n])

StoreFile(p) ==
    /\ At(p, "rest")
    /\ \E n \in FileNames, plan \in FilePlans : Starts(p, n, plan)
    /\ UNCHANGED <<fileStores, syncQueue, reported, unlinked, deletedFiles, attempts, fileUses, fileCrashes>>

CreateFile(p) ==
    \/ /\ At(p, "create")
       /\ fileData' = [fileData EXCEPT ![chain[p].file] = PlainRecord(chain[p].name)]
       /\ Goes(p, "listUser")
       /\ UNCHANGED <<filesByUser, filesByJob>>
    \/ /\ At(p, "listUser")
       /\ filesByUser' = filesByUser \cup {chain[p].file}
       /\ Goes(p, "listJob")
       /\ UNCHANGED <<fileData, filesByJob>>
    \/ /\ At(p, "listJob")
       /\ filesByJob' = filesByJob \cup {chain[p].file}
       /\ Goes(p, "write")
       /\ UNCHANGED <<fileData, filesByUser>>

\* The content is on the disk.  storeDually starts storeInCanisterAsync and
\* goes on without waiting for it.
Written(p) ==
    /\ disk' = disk \cup {chain[p].name}
    /\ CASE chain[p].plan = "dual" ->
              chain' = [[chain EXCEPT ![p].pc = "dual"]
                       EXCEPT ![chain[p].file] = [AtRest EXCEPT !.pc = "sync",
                                          !.file = chain[p].file, !.name = chain[p].name]]
         [] chain[p].plan = "local" -> Goes(p, "strategy")
         [] chain[p].plan = "plain" -> Goes(p, "hash")
         [] OTHER -> Ends(p)
    /\ reported' = IF chain[p].plan = "upload"
                   THEN reported \cup {<<chain[p].file, LocalName(p)>>} ELSE reported
    /\ UNCHANGED fileIds

\* When the dual storage manager fails, createFileFromJobResult stores the
\* result again, locally and under another identifier.
Failed(p) ==
    /\ IF chain[p].plan \in {"upload", "plain"}
       THEN Ends(p) /\ UNCHANGED fileIds
       ELSE Starts(p, chain[p].name, "plain")
    /\ UNCHANGED <<disk, reported>>

WriteFileData(p) ==
    /\ At(p, "write")
    /\ Written(p) \/ Failed(p)
    /\ UNCHANGED <<fileData, filesByUser, filesByJob, canister>>

\* The last write of a plain store: its copy of the record with the hash
SetHash(p) ==
    /\ At(p, "hash")
    /\ fileData' = [fileData EXCEPT ![chain[p].file] = PlainRecord(chain[p].name)]
    /\ reported' = reported \cup {<<chain[p].file, LocalName(p)>>}
    /\ Ends(p)
    /\ UNCHANGED <<filesByUser, filesByJob, disk, canister, fileIds>>

StoreStep(p) ==
    /\ \/ CreateFile(p) /\ UNCHANGED <<disk, canister, fileIds, reported>>
       \/ WriteFileData(p)
       \/ SetHash(p)
    /\ UNCHANGED <<syncQueue, unlinked, deletedFiles, attempts, fileUses, fileCrashes>>

----------------------------------------------------------------------------
(***************************************************************************)
(* CanDualStorageManager.storeFile: the copy in the canister, and          *)
(* updateStorageStrategy.                                                  *)
(***************************************************************************)
\* canister.store_file under a key: it may fail.  (Mutant first: the answer
\* is not looked at.)
Sends_Unchecked(f, n, done, failed) ==
    /\ attempts' = [attempts EXCEPT ![f] = @ + 1]
    /\ done
    /\ \/ canister' = canister \cup {n}
       \/ UNCHANGED canister

Sends(f, n, done, failed) ==
    /\ attempts' = [attempts EXCEPT ![f] = @ + 1]
    /\ \/ done /\ canister' = canister \cup {n}
       \/ failed /\ UNCHANGED canister

\* storeInCanister: the record is set only once the canister has the content;
\* a file without a local copy is listed nowhere.
StoreInCanister(p) ==
    /\ At(p, "put")
    /\ Sends(chain[p].file, chain[p].name,
             Goes(p, "announce") /\ UNCHANGED fileIds,
             Starts(p, chain[p].name, "plain"))
    /\ UNCHANGED <<fileData, reported>>

\* updateFileMetadata writes the copy the call made
UpdateFileMetadata(p) ==
    /\ chain[p].pc \in {"announce", "dual"}
    /\ fileData' = [fileData EXCEPT ![chain[p].file] =
           IF At(p, "dual") THEN DualRecord(chain[p].name) ELSE CanisterRecord(chain[p].name)]
    /\ Goes(p, "strategy")
    /\ UNCHANGED <<canister, fileIds, reported, attempts>>

\* updateStorageStrategy reads the record and writes it with the strategy
UpdateStorageStrategy(p) ==
    LET f == chain[p].file
        r == fileData[f]
    IN
    \/ /\ At(p, "strategy") /\ r # NoRecord
       /\ Moves(p, [chain[p] EXCEPT !.pc = "stamp", !.rec = r])
       /\ UNCHANGED <<fileData, canister, fileIds, reported, attempts>>
    \/ /\ \/ At(p, "strategy") /\ r = NoRecord /\ UNCHANGED fileData
          \/ At(p, "stamp") /\ fileData' =
                 [fileData EXCEPT ![f] = [chain[p].rec EXCEPT !.strategy = chain[p].plan]]
       /\ reported' = reported \cup {<<f, LocalName(p)>>}
       /\ Ends(p)
       /\ UNCHANGED <<canister, fileIds, attempts>>

DualStep(p) ==
    /\ StoreInCanister(p) \/ UpdateFileMetadata(p) \/ UpdateStorageStrategy(p)
    /\ UNCHANGED <<filesByUser, filesByJob, disk, syncQueue, unlinked, deletedFiles,
                   fileUses, fileCrashes>>

----------------------------------------------------------------------------
(***************************************************************************)
(* storeInCanisterAsync, updateSyncStatus and processRetryQueue.           *)
(***************************************************************************)
\* The status is known: updateSyncStatus begins.  (Mutant first: it writes the
\* copy of the record at hand.)
WithStatus_Copy(p, status) ==
    [chain[p] EXCEPT !.pc = "mark", !.plan = status, !.name = NoName,
                     !.rec = DualRecord(chain[p].name)]

WithStatus(p, status) == [chain[p] EXCEPT !.pc = "status", !.plan = status, !.name = NoName]

SyncSends(p) ==
    /\ At(p, "sync")
    /\ Sends(p, chain[p].name, Moves(p, WithStatus(p, "synced")),
                               Moves(p, WithStatus(p, "sync_failed")))
    /\ UNCHANGED <<fileData, syncQueue>>

\* addToRetryQueue, after the failure is in the record
Requeue(p) ==
    syncQueue' = IF p \in FileIds /\ chain[p].plan = "sync_failed"
                 THEN [f \in DOMAIN syncQueue \cup {p} |-> IF f = p THEN 0 ELSE syncQueue[f]]
                 ELSE syncQueue

\* A sweep goes on to its next file; a synchronisation is over
Continues(p) ==
    IF p \in FileSweeps
    THEN Moves(p, [AtRest EXCEPT !.pc = "sweep", !.seen = chain[p].seen])
    ELSE Ends(p)

\* The record an updateSyncStatus leaves, given the one it read
Marked(r, status) == [r EXCEPT !.status = status]

UpdateSyncStatus(p) ==
    LET f == chain[p].file IN
    /\ UNCHANGED <<canister, attempts>>
    /\ \/ /\ At(p, "status") /\ fileData[f] # NoRecord
          /\ Moves(p, [chain[p] EXCEPT !.pc = "mark", !.rec = fileData[f]])
          /\ UNCHANGED <<fileData, syncQueue>>
       \/ /\ At(p, "status") /\ fileData[f] = NoRecord
          /\ Requeue(p) /\ Continues(p)
          /\ UNCHANGED fileData
       \/ /\ At(p, "mark")
          /\ fileData' = [fileData EXCEPT ![f] = Marked(chain[p].rec, chain[p].plan)]
          /\ Requeue(p) /\ Continues(p)

Dequeued(f) == [g \in DOMAIN syncQueue \ {f} |-> syncQueue[g]]

\* The interval starts a sweep, whether or not the last one has ended.
SweepStarts(p) ==
    /\ p \in FileSweeps /\ At(p, "rest") /\ DOMAIN syncQueue # {}
    /\ Goes(p, "sweep")
    /\ UNCHANGED <<fileData, canister, syncQueue, attempts>>

\* Whether the loop still tries f again
TriesAgain(f) == syncQueue[f] < FileRetries

\* The loop comes to the entry of f.  Entries whose file is gone stay.
SweepVisits(p) ==
    /\ At(p, "sweep")
    /\ \/ \E f \in DOMAIN syncQueue \ chain[p].seen :
           LET next == [chain[p] EXCEPT !.file = f, !.seen = @ \cup {f}] IN
           IF TriesAgain(f)
           THEN /\ Moves(p, IF fileData[f] = NoRecord THEN [next EXCEPT !.file = NoFile]
                            ELSE [next EXCEPT !.pc = "resend", !.name = fileData[f].name])
                /\ UNCHANGED syncQueue
           ELSE /\ Moves(p, [next EXCEPT !.pc = "status", !.plan = "sync_failed_permanently"])
                /\ syncQueue' = Dequeued(f)
       \/ /\ DOMAIN syncQueue \subseteq chain[p].seen
          /\ Ends(p)
          /\ UNCHANGED syncQueue
    /\ UNCHANGED <<fileData, canister, attempts>>

\* The entry's count is raised, unless another sweep has dropped the entry.
Counted(f) == IF f \in DOMAIN syncQueue
              THEN [syncQueue EXCEPT ![f] = @ + 1] ELSE syncQueue

SweepSends(p) ==
    LET f == chain[p].file IN
    /\ At(p, "resend")
    /\ Sends(f, chain[p].name,
             Moves(p, WithStatus(p, "synced")) /\ syncQueue' = Dequeued(f),
             Continues(p) /\ syncQueue' = Counted(f))
    /\ UNCHANGED fileData

SyncStep(p) ==
    /\ SyncSends(p) \/ UpdateSyncStatus(p) \/ SweepStarts(p) \/ SweepVisits(p) \/ SweepSends(p)
    /\ UNCHANGED <<filesByUser, filesByJob, disk, fileIds, reported, unlinked, deletedFiles,
                   fileUses, fileCrashes>>

----------------------------------------------------------------------------
(***************************************************************************)
(* completeFileUpload, getFileContent and deleteFile, of a file given out. *)
(***************************************************************************)
\* getFile finds the record; completeFileUpload opens, getFileContent looks
\* for and deleteFile unlinks what it names.
GetFile(p) ==
    /\ At(p, "rest") /\ fileUses < FileUses
    /\ fileUses' = fileUses + 1
    /\ \E f \in Known, pc \in {"open", "access", "unlink"} :
         /\ fileData[f] # NoRecord
         /\ Moves(p, [AtRest EXCEPT !.pc = pc, !.file = f, !.rec = fileData[f]])
         /\ deletedFiles' = IF pc = "unlink" THEN deletedFiles \cup {f} ELSE deletedFiles
    /\ UNCHANGED <<fileStores, unlinked>>

\* completeFileUpload joins whatever chunks there are into the file
CompleteFileUpload(p) ==
    \/ /\ At(p, "open")
       /\ IF chain[p].rec.path = NoName
          THEN Ends(p) /\ UNCHANGED disk
          ELSE Goes(p, "join") /\ disk' = disk \cup {chain[p].rec.path}
       /\ UNCHANGED fileData
    \/ /\ At(p, "join")
       /\ fileData' = [fileData EXCEPT ![chain[p].file] = chain[p].rec]
       /\ Ends(p)
       /\ UNCHANGED disk

\* resolveFilePathWithFallback: another file of the stem, when the path of
\* the record is missing
Alternatives(r) == IF r.path = NoName THEN {} ELSE disk

\* getFileContent, first from the disk and then from the canister
GetFileContent(p) ==
    LET f == chain[p].file
        r == chain[p].rec
    IN
    \/ /\ At(p, "access")
       /\ \/ r.path \in disk /\ Ends(p)
          \/ r.path \notin disk /\ Alternatives(r) = {} /\
                 IF DualStorage THEN Moves(p, [chain[p] EXCEPT !.pc = "fetch", !.rec = NoRecord])
                                ELSE Ends(p)
          \/ r.path \notin disk /\ \E n \in Alternatives(r) :
                 Moves(p, [chain[p] EXCEPT !.pc = "resolve", !.rec = [@ EXCEPT !.path = n,
                                                                               !.name = n]])
       /\ UNCHANGED <<fileData, disk>>
    \/ /\ At(p, "resolve")
       /\ fileData' = [fileData EXCEPT ![f] = r]
       /\ Ends(p)
       /\ UNCHANGED disk
    \/ /\ At(p, "fetch")
       /\ IF fileData[f] # NoRecord /\ CanisterKey(fileData[f]) \in canister
          THEN Goes(p, "restore") ELSE Ends(p)
       /\ UNCHANGED <<fileData, disk>>
    \/ /\ At(p, "restore")  \* restoreToLocalAsync
       /\ disk' = IF fileData[f] # NoRecord /\ fileData[f].path # NoName
                  THEN disk \cup {fileData[f].path} ELSE disk
       /\ Ends(p)
       /\ UNCHANGED fileData

\* deleteFile: the content, the record, the listings; never the canister
DeleteFile(p) ==
    LET f == chain[p].file IN
    \/ /\ At(p, "unlink")
       /\ disk' = disk \ {chain[p].rec.path}
       /\ unlinked' = unlinked \cup {chain[p].rec.path}
       /\ Moves(p, [chain[p] EXCEPT !.pc = "del", !.rec = NoRecord])
       /\ UNCHANGED <<fileData, filesByUser, filesByJob>>
    \/ /\ At(p, "del")
       /\ fileData' = [fileData EXCEPT ![f] = NoRecord]
       /\ Goes(p, "unlistUser")
       /\ UNCHANGED <<filesByUser, filesByJob, disk, unlinked>>
    \/ /\ At(p, "unlistUser")
       /\ filesByUser' = filesByUser \ {f}
       /\ Goes(p, "unlistJob")
       /\ UNCHANGED <<fileData, filesByJob, disk, unlinked>>
    \/ /\ At(p, "unlistJob")
       /\ filesByJob' = filesByJob \ {f}
       /\ Ends(p)
       /\ UNCHANGED <<fileData, filesByUser, disk, unlinked>>

UseStep(p) ==
    /\ \/ GetFile(p)
       \/ /\ CompleteFileUpload(p) \/ GetFileContent(p)
          /\ UNCHANGED <<filesByUser, filesByJob, canister, unlinked, deletedFiles, fileUses>>
       \/ /\ DeleteFile(p)
          /\ UNCHANGED <<canister, deletedFiles, fileUses>>
    /\ UNCHANGED <<syncQueue, fileIds, reported, attempts, fileCrashes>>

----------------------------------------------------------------------------
(***************************************************************************)
(* The specification.                                                      *)
(***************************************************************************)
\* A crash ends every chain and loses the retry queue, with the content in it.
FileCrash ==
    /\ fileCrashes < FileCrashes
    /\ fileCrashes' = fileCrashes + 1
    /\ chain' = [p \in Chains |-> AtRest]
    /\ syncQueue' = [f \in {} |-> 0]
    /\ UNCHANGED <<fileStores, fileIds, reported, unlinked, deletedFiles, attempts, fileUses>>

\* ids: identifiers given out by a process that crashed before it used them
FileInitWith(ids) ==
    /\ fileData = [f \in FileIds |-> NoRecord]
    /\ filesByUser = {} /\ filesByJob = {} /\ disk = {} /\ canister = {}
    /\ syncQueue = [f \in {} |-> 0]
    /\ chain = [p \in Chains |-> AtRest]
    /\ fileIds = ids /\ reported = {} /\ unlinked = {} /\ deletedFiles = {} /\ cleanDeletes = {}
    /\ attempts = [f \in FileIds |-> 0]
    /\ fileUses = 0 /\ fileCrashes = 0

FileInit == FileInitWith({})

FileStep ==
    \/ \E p \in FileCalls :
         StoreFile(p) \/ StoreStep(p) \/ DualStep(p) \/ UseStep(p)
    \/ \E p \in FileSweeps \cup FileIds : SyncStep(p)
    \/ FileCrash

\* A delete is clean if no chain holds an older copy of the record while it
\* lasts; one that a crash cuts short is not.
CleanDeletes ==
    {f \in FileIds :
        \/ f \in cleanDeletes /\ ~Deleting(f)
        \/ /\ f \in cleanDeletes \/ (Deleting(f)' /\ ~Deleting(f))
           /\ Holders(f)' = {}
           /\ fileCrashes' = fileCrashes}

FileNext == FileStep /\ cleanDeletes' = CleanDeletes

FileSpec == FileInit /\ [][FileNext]_fileVars

----------------------------------------------------------------------------
(***************************************************************************)
(* Properties.                                                             *)
(***************************************************************************)
\* The variables' types.  The content of a file is sent once, once per retry,
\* and once more for each sweep that overlaps another: the count that ends the
\* retries is raised only after the canister answered.
FileTypeOK ==
    /\ fileData \in [FileIds -> FileRecords \cup {NoRecord}]
    /\ filesByUser \subseteq fileIds /\ filesByJob \subseteq fileIds
    /\ disk \subseteq FileNames /\ canister \subseteq FileNames
    /\ DOMAIN syncQueue \subseteq FileIds
    /\ \A f \in DOMAIN syncQueue : syncQueue[f] \in 0 .. FileRetries + Cardinality(FileSweeps) - 1
    /\ DOMAIN chain = Chains
    /\ \A p \in Chains : chain[p].file \in fileIds \cup {NoFile}
    /\ fileIds \subseteq FileIds
    /\ reported \subseteq FileIds \X (FileNames \cup {NoName})
    /\ unlinked \subseteq FileNames \cup {NoName}
    /\ deletedFiles \subseteq fileIds /\ cleanDeletes \subseteq deletedFiles
    /\ \A f \in FileIds : attempts[f] \in 0 .. FileRetries + Cardinality(FileSweeps)
    /\ fileUses \in 0 .. FileUses /\ fileCrashes \in 0 .. FileCrashes

\* What a retrieval of r would find content by
Readable(r) == r.path \in disk \/ Alternatives(r) # {} \/ CanisterKey(r) \in canister

\* A file whose store reported success can be read, until it is deleted or
\* another file of its path is: its record is there and leads to content, and
\* what was written to the disk is there, whatever synchronisations, sweeps,
\* other calls and crashes overlapped (createFileFromJobResult, retrieveFile).
StoredIsReadable ==
    \A f \in FileIds, n \in FileNames \cup {NoName} :
        <<f, n>> \in reported /\ f \notin deletedFiles /\ n \notin unlinked =>
            /\ fileData[f] # NoRecord
            /\ Readable(fileData[f])
            /\ n \in disk \cup {NoName}

\* A file that was deleted while no chain held an older copy of its record
\* stays deleted and unlisted, though its synchronisation or its retries may
\* still be under way (deleteFile, updateSyncStatus, processRetryQueue).
DeletedStaysDeleted ==
    \A f \in cleanDeletes : ~Deleting(f) =>
        fileData[f] = NoRecord /\ f \notin filesByUser \cup filesByJob
=============================================================================
