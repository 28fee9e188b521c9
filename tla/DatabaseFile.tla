----------------------------- MODULE DatabaseFile -----------------------------
(***************************************************************************)
(* The files of one database: db init, the write commands, db backup and   *)
(* db restore, each run by a process of its own, step by step, with       *)
(* failures and crashes between the steps (src/src/commands_db.c,          *)
(* src/src/database.c, src/src/app.c).                                     *)
(*                                                                         *)
(* A process runs one command, so it creates at most one database file and *)
(* one write-ahead log, and commits at most one operation: files (inodes), *)
(* logs and operations are named by the process that makes them.  A file   *)
(* has pages, a log has frames: sets of operations.  `file' and `log' are  *)
(* the directory; a process keeps what it opened when a name goes to       *)
(* another file.  A log stands for the -wal file together with its -shm.   *)
(***************************************************************************)
EXTENDS Naturals, FiniteSets

CONSTANTS
    Proc,        \* the processes
    NULL,        \* no file, no log, no command
    BackupPath,  \* the paths that db backup is given
    Apart,       \* sets of commands that are not run at the same time
    MayCrash,    \* the commands that may crash
    MaxCrashes   \* bound: the crashes of a behaviour

Path == {"db", "copy"}
Command == {"init", "write", "backup", "restore"}
Ended == {"done", "open_failed", "crashed"}
Location == Ended \cup
    {"idle", "check", "open", "begin", "transaction", "close",
     "unlink_file", "unlink_log", "create", "open_copy", "copy",
     "unlink_output", "stage", "unlink_old_log", "rename"}

ASSUME DatabaseFileAssumption ==
    /\ NULL \notin Proc \cup Command
    /\ BackupPath \subseteq Path
    /\ Apart \subseteq SUBSET Command
    /\ MayCrash \subseteq Command
    /\ MaxCrashes \in Nat

VARIABLES
    file,      \* the file a path names
    log,       \* the log that the -wal name of the database names
    pages,     \* the operations in a file
    frames,    \* the operations in a log
    conn,      \* the file and the log a process has open
    command,   \* the command of a process
    output,    \* the path a backup is given
    copy,      \* the file a backup writes, and what it has read so far
    pc,        \* where a process stands
    stored,    \* history: the operations reported as stored, as of the last restore
    home       \* history: the file an operation was committed to

vars == <<file, log, pages, frames, conn, command, output, copy, pc, stored, home>>

disk == <<file, log, pages, frames>>
history == <<stored, home>>

Closed == [file |-> NULL, log |-> NULL]
NoCopy == [file |-> NULL, read |-> {}]

Active(p) == pc[p] \notin Ended \cup {"idle"}

(* What process p reads through its connection. *)
View(p) == pages[conn[p].file] \cup frames[conn[p].log]

Goto(p, l) == pc' = [pc EXCEPT ![p] = l]

Init ==
    /\ file = [path \in Path |-> NULL]
    /\ log = NULL
    /\ pages = [f \in Proc |-> {}]
    /\ frames = [l \in Proc |-> {}]
    /\ conn = [p \in Proc |-> Closed]
    /\ command = [p \in Proc |-> NULL]
    /\ output = [p \in Proc |-> NULL]
    /\ copy = [p \in Proc |-> NoCopy]
    /\ pc = [p \in Proc |-> "idle"]
    /\ stored = {}
    /\ home = [o \in Proc |-> NULL]

FirstStep(k) ==
    CASE k \in {"init", "backup"} -> "check"
      [] k = "write" -> "open"
      [] k = "restore" -> "stage"

Start(p, k) ==
    /\ pc[p] = "idle"
    /\ \A other \in Proc : Active(other) => {k, command[other]} \notin Apart
    /\ command' = [command EXCEPT ![p] = k]
    /\ Goto(p, FirstStep(k))
    /\ IF k = "backup"
       THEN \E path \in BackupPath : output' = [output EXCEPT ![p] = path]
       ELSE UNCHANGED output
    /\ UNCHANGED <<disk, conn, copy, history>>

-----------------------------------------------------------------------------
(* Connections. *)

(* The log a connection to the database uses: the one that is there, or a  *)
(* new one.                                                                *)
LogFor(p) == IF log = NULL THEN p ELSE log

Connect(p) ==
    /\ log' = LogFor(p)
    /\ conn' = [conn EXCEPT ![p] = [file |-> file["db"], log |-> LogFor(p)]]
    /\ UNCHANGED <<file, pages, frames>>

(* SQLite moves the log into the file and deletes it when the last         *)
(* connection to a file is closed, unless that connection is read-only or  *)
(* the path has meanwhile been given to another file.                      *)
Checkpoints(p) ==
    /\ command[p] # "backup"
    /\ file["db"] = conn[p].file
    /\ \A other \in Proc \ {p} : conn[other].file # conn[p].file

Disconnect(p) ==
    /\ IF Checkpoints(p)
       THEN /\ pages' = [pages EXCEPT ![conn[p].file] = View(p)]
            /\ log' = NULL
       ELSE UNCHANGED <<pages, log>>
    /\ conn' = [conn EXCEPT ![p] = Closed]
    /\ UNCHANGED <<file, frames>>

-----------------------------------------------------------------------------
(* db init and the write commands. *)

(* Mutant of InitCheck: an existing database is not noticed. *)
InitUnchecked(p) ==
    /\ pc[p] = "check"
    /\ command[p] = "init"
    /\ Goto(p, "open")
    /\ UNCHANGED <<disk, conn, command, output, copy, history>>

InitCheck(p) ==
    /\ pc[p] = "check"
    /\ command[p] = "init"
    /\ Goto(p, IF file["db"] = NULL THEN "open" ELSE "done")
    /\ UNCHANGED <<disk, conn, command, output, copy, history>>

(* A database that is created starts with a log of its own: SQLite deletes *)
(* the log it finds beside an empty file.                                  *)
InitCreate(p) ==
    /\ pc[p] = "open"
    /\ command[p] = "init"
    /\ file["db"] = NULL
    /\ file' = [file EXCEPT !["db"] = p]
    /\ log' = p
    /\ conn' = [conn EXCEPT ![p] = [file |-> p, log |-> p]]
    /\ Goto(p, "begin")
    /\ UNCHANGED <<pages, frames, command, output, copy, history>>

(* An open that fails after the file was created leaves an empty file. *)
InitOpenFails(p) ==
    /\ pc[p] = "open"
    /\ command[p] = "init"
    /\ \/ UNCHANGED file
       \/ file["db"] = NULL /\ file' = [file EXCEPT !["db"] = p]
    /\ Goto(p, "open_failed")
    /\ UNCHANGED <<log, pages, frames, conn, command, output, copy, history>>

(* Mutant of OpenExisting: a missing database is not noticed. *)
OpenAnything(p) ==
    /\ pc[p] = "open"
    /\ command[p] \in {"init", "write"}
    /\ Connect(p)
    /\ Goto(p, "begin")
    /\ UNCHANGED <<command, output, copy, history>>

OpenExisting(p) ==
    /\ pc[p] = "open"
    /\ command[p] \in {"init", "write"}
    /\ file["db"] # NULL
    /\ Connect(p)
    /\ Goto(p, "begin")
    /\ UNCHANGED <<command, output, copy, history>>

OpenNothing(p) ==
    /\ pc[p] = "open"
    /\ command[p] = "write"
    /\ file["db"] = NULL
    /\ Goto(p, "done")
    /\ UNCHANGED <<disk, conn, command, output, copy, history>>

(* The processes that hold the write lock process p asks for: the lock is  *)
(* in the -shm file that goes with the log.                                *)
Writers(p) ==
    {w \in Proc \ {p} : pc[w] = "transaction" /\ conn[w].log = conn[p].log}

Begin(p) ==
    /\ pc[p] = "begin"
    /\ Writers(p) = {}
    /\ Goto(p, "transaction")
    /\ UNCHANGED <<disk, conn, command, output, copy, history>>

(* The end of a command that failed: rollback, close, and for db init the  *)
(* removal of the database.                                                *)
Abort(p) ==
    /\ Disconnect(p)
    /\ Goto(p, IF command[p] = "init" THEN "unlink_file" ELSE "done")
    /\ UNCHANGED <<command, output, copy, history>>

(* The lock was held for the whole of the five seconds of the busy timeout. *)
Busy(p) ==
    /\ pc[p] = "begin"
    /\ Writers(p) # {}
    /\ Abort(p)

(* db init needs a database without tables, every other write one with them. *)
SchemaFits(p) == (command[p] = "init") <=> (View(p) = {})

SchemaError(p) ==
    /\ pc[p] = "transaction"
    /\ ~SchemaFits(p)
    /\ Abort(p)

(* A check of the command that fails, or an error of SQLite. *)
StatementFails(p) ==
    /\ pc[p] \in {"begin", "transaction"}
    /\ Abort(p)

Commit(p) ==
    /\ pc[p] = "transaction"
    /\ SchemaFits(p)
    /\ frames' = [frames EXCEPT ![conn[p].log] = @ \cup {p}]
    /\ stored' = stored \cup {p}
    /\ home' = [home EXCEPT ![p] = conn[p].file]
    /\ Goto(p, "close")
    /\ UNCHANGED <<file, log, pages, conn, command, output, copy>>

Close(p) ==
    /\ pc[p] = "close"
    /\ Disconnect(p)
    /\ Goto(p, "done")
    /\ UNCHANGED <<command, output, copy, history>>

(* Mutant of UnlinkFile: the database that could not be set up stays. *)
UnlinkNothing(p) ==
    /\ pc[p] = "unlink_file"
    /\ Goto(p, "unlink_log")
    /\ UNCHANGED <<disk, conn, command, output, copy, history>>

UnlinkFile(p) ==
    /\ pc[p] = "unlink_file"
    /\ file' = [file EXCEPT !["db"] = NULL]
    /\ Goto(p, "unlink_log")
    /\ UNCHANGED <<log, pages, frames, conn, command, output, copy, history>>

UnlinkLog(p) ==
    /\ pc[p] = "unlink_log"
    /\ log' = NULL
    /\ Goto(p, "done")
    /\ UNCHANGED <<file, pages, frames, conn, command, output, copy, history>>

-----------------------------------------------------------------------------
(* db backup. *)

(* A path that is taken, as the database's own is, is refused; so is a     *)
(* backup of no database.  As after any other error, the output is then    *)
(* unlinked.                                                               *)
BackupCheck(p) ==
    /\ pc[p] = "check"
    /\ command[p] = "backup"
    /\ IF output[p] = "db" \/ file[output[p]] # NULL \/ file["db"] = NULL
       THEN /\ Goto(p, "unlink_output")
            /\ UNCHANGED <<disk, conn>>
       ELSE /\ Connect(p)
            /\ Goto(p, "create")
    /\ UNCHANGED <<command, output, copy, history>>

(* The end of a backup that failed: both databases are closed, the output  *)
(* is unlinked next.                                                       *)
BackupGivesUp(p) ==
    /\ Disconnect(p)
    /\ copy' = [copy EXCEPT ![p] = NoCopy]
    /\ Goto(p, "unlink_output")
    /\ UNCHANGED <<command, output, history>>

(* The output is created exclusively. *)
BackupCreate(p) ==
    /\ pc[p] = "create"
    /\ file[output[p]] = NULL
    /\ file' = [file EXCEPT ![output[p]] = p]
    /\ Goto(p, "open_copy")
    /\ UNCHANGED <<log, pages, frames, conn, command, output, copy, history>>

BackupOpenCopy(p) ==
    /\ pc[p] = "open_copy"
    /\ file[output[p]] # NULL
    /\ copy' = [copy EXCEPT ![p] = [file |-> file[output[p]], read |-> {}]]
    /\ Goto(p, "copy")
    /\ UNCHANGED <<disk, conn, command, output, history>>

OutputConflict(p) ==
    /\ \/ pc[p] = "create" /\ file[output[p]] # NULL
       \/ pc[p] = "open_copy" /\ file[output[p]] = NULL
    /\ BackupGivesUp(p)

(* Mutant of CopyAgain: the copy goes on from what it had read. *)
CopyOn(p) == UNCHANGED copy

(* A step of the copy loop sees whether the source has changed since the   *)
(* copy began, and begins anew if it has.                                  *)
CopyAgain(p) == copy' = [copy EXCEPT ![p].read = View(p)]

BackupRestarts(p) ==
    /\ pc[p] = "copy"
    /\ copy[p].read # View(p)
    /\ CopyAgain(p)
    /\ UNCHANGED <<disk, conn, command, output, pc, history>>

BackupDone(p) ==
    /\ pc[p] = "copy"
    /\ copy[p].read = View(p)
    /\ pages' = [pages EXCEPT ![copy[p].file] = copy[p].read]
    /\ conn' = [conn EXCEPT ![p] = Closed]
    /\ copy' = [copy EXCEPT ![p] = NoCopy]
    /\ Goto(p, "done")
    /\ UNCHANGED <<file, log, frames, command, output, history>>

BackupFails(p) ==
    /\ command[p] = "backup"
    /\ pc[p] \in {"check", "create", "open_copy", "copy"}
    /\ BackupGivesUp(p)

UnlinkOutput(p) ==
    /\ pc[p] = "unlink_output"
    /\ file' = [file EXCEPT ![output[p]] = NULL]
    /\ Goto(p, "done")
    /\ UNCHANGED <<log, pages, frames, conn, command, output, copy, history>>

-----------------------------------------------------------------------------
(* db restore of the copy. *)

(* Mutant of Healthy: the source is not validated. *)
Exists(path) == file[path] # NULL

(* db doctor's checks, which only a database with its schema passes: one   *)
(* that holds what a db init committed.                                    *)
Healthy(path) ==
    /\ file[path] # NULL
    /\ \E o \in pages[file[path]] : command[o] = "init"

(* The stage is a file of this process: it becomes a checkpointed copy of  *)
(* the source with the restore's own audit row, provided the source is a   *)
(* healthy database.                                                       *)
RestoreStage(p) ==
    /\ pc[p] = "stage"
    /\ Healthy("copy")
    /\ pages' = [pages EXCEPT ![p] = pages[file["copy"]] \cup {p}]
    /\ home' = [home EXCEPT ![p] = p]
    /\ Goto(p, "unlink_old_log")
    /\ UNCHANGED <<file, log, frames, conn, command, output, copy, stored>>

RestoreRefused(p) ==
    /\ pc[p] = "stage"
    /\ ~Healthy("copy")
    /\ Goto(p, "done")
    /\ UNCHANGED <<disk, conn, command, output, copy, history>>

(* Mutant of RestoreUnlinksLog: the old log stays beside the new file. *)
RestoreKeepsLog(p) ==
    /\ pc[p] = "unlink_old_log"
    /\ Goto(p, "rename")
    /\ UNCHANGED <<disk, conn, command, output, copy, history>>

RestoreUnlinksLog(p) ==
    /\ pc[p] = "unlink_old_log"
    /\ log' = NULL
    /\ Goto(p, "rename")
    /\ UNCHANGED <<file, pages, frames, conn, command, output, copy, history>>

(* From here on what is stored is what the stage holds. *)
RestoreRename(p) ==
    /\ pc[p] = "rename"
    /\ file' = [file EXCEPT !["db"] = p]
    /\ stored' = pages[p]
    /\ Goto(p, "done")
    /\ UNCHANGED <<log, pages, frames, conn, command, output, copy, home>>

(* Building or checking the stage fails. *)
RestoreFails(p) ==
    /\ pc[p] = "stage"
    /\ Goto(p, "done")
    /\ UNCHANGED <<disk, conn, command, output, copy, history>>

-----------------------------------------------------------------------------
(* The system closes the files of a process that dies and frees its locks; *)
(* nothing is checkpointed and nothing unlinked.  A rename that fails has  *)
(* the same effect as a crash of db restore before it.                     *)
Crash(p) ==
    /\ Active(p)
    /\ command[p] \in MayCrash
    /\ Cardinality({q \in Proc : pc[q] = "crashed"}) < MaxCrashes
    /\ conn' = [conn EXCEPT ![p] = Closed]
    /\ copy' = [copy EXCEPT ![p] = NoCopy]
    /\ Goto(p, "crashed")
    /\ UNCHANGED <<disk, command, output, history>>

-----------------------------------------------------------------------------
(* Properties. *)

(* Every name means what it should, a process has a file open exactly where  *)
(* it needs one, and one process at most holds the lock of a log.            *)
Inode == Proc \cup {NULL}

TypeOK ==
    /\ file \in [Path -> Inode]
    /\ log \in Inode
    /\ pages \in [Proc -> SUBSET Proc]
    /\ frames \in [Proc -> SUBSET Proc]
    /\ conn \in [Proc -> [file : Proc, log : Proc] \cup {Closed}]
    /\ command \in [Proc -> Command \cup {NULL}]
    /\ output \in [Proc -> Path \cup {NULL}]
    /\ copy \in [Proc -> [file : Inode, read : SUBSET Proc]]
    /\ pc \in [Proc -> Location]
    /\ stored \subseteq Proc
    /\ home \in [Proc -> Inode]

(* Whatever a command has reported as stored can be read from the database,  *)
(* through the file and the log that the path names, until a restore puts    *)
(* other contents there: it survives failures of other commands, crashes,    *)
(* checkpoints and the unlinking of files.  (A restore takes the log away a   *)
(* step before it replaces the file.)                                        *)
Replacing == \E p \in Proc : pc[p] = "rename"

StoredIsVisible ==
    stored = {} \/ Replacing \/
        /\ file["db"] # NULL
        /\ stored \subseteq pages[file["db"]] \cup
                             (IF log = NULL THEN {} ELSE frames[log])

(* The log beside the database holds no change that was made to another      *)
(* file: SQLite would apply it to whatever file the path names now.          *)
LogBelongsToFile ==
    log # NULL /\ file["db"] # NULL =>
        \A o \in frames[log] : home[o] = file["db"]

(* A db init that reports failure leaves no database behind, unless its very *)
(* open failed.                                                              *)
FailedInitLeavesNothing ==
    \A p \in Proc :
        pc[p] = "done" /\ command[p] = "init" /\ file["db"] = p => home[p] = p

(* A restore never puts a database without its schema in place, such as the  *)
(* unfinished output of a backup that crashed.                               *)
RestoredIsWhole ==
    \A p \in Proc :
        command[p] = "restore" /\ file["db"] = p =>
            \E o \in pages[p] : command[o] = "init"

(* No command removes or replaces a database that another one has made and   *)
(* that holds something, but the restore that puts its stage in its place.   *)
HoldsData(f) == pages[f] # {} \/ \E o \in Proc : home[o] = f

ExistingFilesKept ==
    [][\A path \in Path :
        file[path] # NULL /\ HoldsData(file[path]) /\ file'[path] # file[path] =>
            \/ file'[path] # NULL /\ command[file'[path]] = "restore"
            \/ pc'[file[path]] # pc[file[path]]]_vars

(* Every command ends: the copy loop of a backup included, though it begins  *)
(* anew at each change, and the wait for the lock, which is cut off.         *)
EveryCommandEnds == \A p \in Proc : Active(p) ~> ~Active(p)

-----------------------------------------------------------------------------
(* The steps of a command that goes as far as it can. *)
Work(p) ==
    \/ InitCheck(p) \/ InitCreate(p) \/ OpenExisting(p) \/ OpenNothing(p)
    \/ Begin(p) \/ Busy(p) \/ SchemaError(p) \/ Commit(p) \/ Close(p)
    \/ UnlinkFile(p) \/ UnlinkLog(p)
    \/ BackupCheck(p) \/ BackupCreate(p) \/ BackupOpenCopy(p) \/ OutputConflict(p)
    \/ BackupRestarts(p) \/ BackupDone(p) \/ UnlinkOutput(p)
    \/ RestoreStage(p) \/ RestoreRefused(p) \/ RestoreUnlinksLog(p) \/ RestoreRename(p)

(* Errors that may strike at any time. *)
Failure(p) ==
    \/ InitOpenFails(p) \/ StatementFails(p) \/ BackupFails(p)
    \/ RestoreFails(p)

Next ==
    \E p \in Proc :
        \/ \E k \in Command : Start(p, k)
        \/ Work(p)
        \/ Failure(p)
        \/ Crash(p)

Spec == Init /\ [][Next]_vars

(* The system goes on running every process; no error and no crash has to  *)
(* happen.                                                                 *)
Fairness == \A p \in Proc : WF_vars(Work(p))

FairSpec == Spec /\ Fairness
=============================================================================
