-------------------------- MODULE DatabaseFileProofs --------------------------
(***************************************************************************)
(* Types and restored files, however the commands are used; and, where     *)
(* they are used with care, what was stored stays readable.                *)
(***************************************************************************)
EXTENDS DatabaseFile, TLAPS

(* Where a process has the database open, and where it has made nothing    *)
(* yet: no file, no log, no page of its own.                               *)
Opened == {"begin", "transaction", "close", "create", "open_copy", "copy"}
Fresh(p) == pc[p] \in {"idle", "check", "open", "stage"}

-----------------------------------------------------------------------------
(* However the commands are used. *)

(* A command is at one of its own locations.                               *)
Placed ==
    \A p \in Proc :
        /\ command[p] = NULL <=> pc[p] = "idle"
        /\ pc[p] = "check" => command[p] \in {"init", "backup"}
        /\ pc[p] \in {"open", "begin", "transaction", "close"} => command[p] \in {"init", "write"}
        /\ pc[p] \in {"open_failed", "unlink_file", "unlink_log"} => command[p] = "init"
        /\ pc[p] \in {"create", "open_copy", "copy", "unlink_output"} => command[p] = "backup"
        /\ pc[p] \in {"stage", "unlink_old_log", "rename"} => command[p] = "restore"

(* It has open what it needs there; a backup past its check writes a copy. *)
Holding ==
    \A p \in Proc :
        /\ conn[p] # Closed <=> pc[p] \in Opened
        /\ pc[p] \notin {"idle"} /\ command[p] = "backup" => output[p] \in BackupPath
        /\ pc[p] \in {"create", "open_copy", "copy"} => output[p] = "copy"
        /\ copy[p].file # NULL => pc[p] = "copy"

(* A database is made by an init or a restore, a copy by a backup.         *)
Database(f) ==
    \/ command[f] = "init" /\ ~ Fresh(f)
    \/ command[f] = "restore" /\ pc[f] = "done"
CopyFile(f) == command[f] = "backup" /\ ~ Fresh(f)

Named ==
    /\ file["db"] # NULL => Database(file["db"])
    /\ file["copy"] # NULL => CopyFile(file["copy"])
    /\ log # NULL => ~ Fresh(log)
    /\ \A p \in Proc :
        /\ conn[p] # Closed => Database(conn[p].file) /\ ~ Fresh(conn[p].log)
        /\ copy[p].file # NULL => CopyFile(copy[p].file)
        /\ Fresh(p) => pages[p] = {} /\ frames[p] = {}

(* What a restore has staged, and put in place, has the schema.            *)
Whole ==
    \A p \in Proc :
        command[p] = "restore" /\ (pc[p] \in {"unlink_old_log", "rename"} \/ file["db"] = p) =>
            \E o \in pages[p] : command[o] = "init"

FilesInv == TypeOK /\ Placed /\ Holding /\ Named /\ Whole

-----------------------------------------------------------------------------
(* With care. *)

(* One init at a time, a restore beside no command that writes, no restore *)
(* cut off, and no backup onto the database.                               *)
UsedWithCare ==
    /\ {{"init"}, {"restore"}, {"restore", "init"}, {"restore", "write"}} \subseteq Apart
    /\ "restore" \notin MayCrash
    /\ BackupPath \subseteq {"copy"}

Alone ==
    \A p, q \in Proc :
        p # q /\ Active(p) /\ Active(q) =>
            /\ ~ (command[p] = "init" /\ command[q] = "init")
            /\ ~ (command[p] = "restore" /\ command[q] \in {"restore", "init", "write"})

(* Frames are of operations that were committed.                           *)
Committed ==
    \A l \in Proc : \A o \in frames[l] : pc[o] \in {"close", "done", "crashed"}

NoFrames == log = NULL \/ frames[log] = {}

(* No log holds anything while there is no database, nor while a restore   *)
(* puts its own in place.                                                  *)
LogEmpty == (file["db"] = NULL \/ Replacing) => NoFrames

(* An init works on the database it has made, which is empty until it      *)
(* commits, so that removing it removes nothing.                           *)
InitWorks(p) ==
    /\ pc[p] \in {"open", "unlink_log"} => file["db"] = NULL
    /\ pc[p] \in {"begin", "transaction"} =>
           /\ file["db"] = p /\ log = p /\ conn[p] = [file |-> p, log |-> p]
           /\ pages[p] = {} /\ frames[p] = {}
           /\ \A q \in Proc : conn[q].log = p => conn[q].file = p
    /\ pc[p] = "unlink_file" =>
           /\ file["db"] = p /\ stored = {} /\ pages[p] = {} /\ NoFrames
    /\ pc[p] = "close" \/ (pc[p] = "done" /\ file["db"] = p) => home[p] = p

InitsWork == \A p \in Proc : command[p] = "init" => InitWorks(p)

(* A command that writes has the database and the log open that the path   *)
(* names, or an empty database that an init has removed; the log of such a *)
(* one is empty, and if the path still names it, so is the database there. *)
Current(p) == conn[p].file = file["db"] /\ conn[p].log = log

Stale(p) ==
    /\ conn[p].file # file["db"]
    /\ View(p) = {}
    /\ conn[p].log = log => (file["db"] = NULL \/ pages[file["db"]] = {})

WritersStand ==
    \A p \in Proc : pc[p] \in {"begin", "transaction", "close"} => Current(p) \/ Stale(p)

CareInv ==
    /\ Alone
    /\ Committed
    /\ LogEmpty
    /\ InitsWork
    /\ WritersStand
    /\ StoredIsVisible
    /\ LogBelongsToFile
-----------------------------------------------------------------------------
(* However the commands are used: FilesInv is inductive.                   *)

LEMMA ViewType ==
    ASSUME TypeOK, NEW p \in Proc, conn[p] # Closed
    PROVE  conn[p].file \in Proc /\ conn[p].log \in Proc /\ View(p) \subseteq Proc
BY DEF TypeOK, View

LEMMA InitFiles == Init => FilesInv
<1> USE DatabaseFileAssumption DEF DatabaseFileAssumption
<1> SUFFICES ASSUME Init PROVE FilesInv
  OBVIOUS
<1>1. TypeOK
  BY DEF Init, TypeOK, Inode, Path, Location, Ended, Closed, NoCopy
<1>2. Placed /\ Holding
  BY DEF Init, Placed, Holding, Opened, NoCopy, Closed
<1>3. Named
  BY DEF Init, Named, Fresh, NoCopy, Closed, Path
<1>4. Whole
  BY DEF Init, Whole, Command
<1> QED BY <1>1, <1>2, <1>3, <1>4 DEF FilesInv

LEMMA StartFiles ==
    ASSUME FilesInv, NEW p \in Proc, NEW k \in Command, Start(p, k)
    PROVE  FilesInv'
<1> USE DatabaseFileAssumption DEF DatabaseFileAssumption
<1>a. /\ pc[p] = "idle"
      /\ command' = [command EXCEPT ![p] = k]
      /\ pc' = [pc EXCEPT ![p] = FirstStep(k)]
      /\ \/ k = "backup" /\ \E path \in BackupPath : output' = [output EXCEPT ![p] = path]
         \/ k # "backup" /\ output' = output
      /\ UNCHANGED <<disk, conn, copy, history>>
  BY DEF Start, Goto
<1>b. FirstStep(k) = IF k \in {"init", "backup"} THEN "check" ELSE IF k = "write" THEN "open" ELSE "stage"
  BY DEF FirstStep, Command
<1>c. Fresh(p) /\ Fresh(p)'
  BY <1>a, <1>b DEF Fresh, FilesInv, TypeOK
<1>1. TypeOK'
  BY <1>a, <1>b DEF FilesInv, TypeOK, Location, disk, history
<1>2. Placed'
  BY <1>a, <1>b DEF FilesInv, TypeOK, Placed, Command
<1>3. Holding'
  BY <1>a, <1>b DEF FilesInv, TypeOK, Holding, Opened
<1>4. Named'
  <2>1. \A f \in Proc : /\ Database(f) => Database(f)'
                        /\ CopyFile(f) => CopyFile(f)'
                        /\ Fresh(f)' => Fresh(f)
    BY <1>a, <1>b, <1>c DEF Database, CopyFile, Fresh, FilesInv, TypeOK
  <2> QED BY <1>a, <2>1 DEF FilesInv, TypeOK, Named, disk, Inode, Closed, Path
<1>5. Whole'
  <2>1. file["db"] # p
    BY <1>c DEF FilesInv, Named, Database, Fresh
  <2>2. command[p] # "init"
    BY <1>a DEF FilesInv, Placed, Command
  <2> QED BY <1>a, <1>b, <2>1, <2>2 DEF FilesInv, TypeOK, Whole, disk
<1> QED BY <1>1, <1>2, <1>3, <1>4, <1>5 DEF FilesInv

LEMMA InitCheckFiles ==
    ASSUME FilesInv, NEW p \in Proc, InitCheck(p)
    PROVE  FilesInv'
<1> USE DatabaseFileAssumption DEF DatabaseFileAssumption
<1>1. TypeOK'
  BY DEF FilesInv, TypeOK, Inode, Path, Location, Ended, Closed, InitCheck, Goto,
     disk, history
<1>2. Placed'
  BY DEF FilesInv, TypeOK, Placed, InitCheck, Goto, disk, history
<1>3. Holding'
  BY DEF FilesInv, TypeOK, Holding, Opened, Closed, InitCheck, Goto, disk, history
<1>4. Named'
  BY DEF FilesInv, TypeOK, Named, Fresh, Database, CopyFile, Closed, InitCheck,
     Goto, disk, history
<1>5. Whole'
  BY DEF FilesInv, TypeOK, Whole, InitCheck, Goto, disk, history
<1> QED BY <1>1, <1>2, <1>3, <1>4, <1>5 DEF FilesInv

LEMMA InitCreateFiles ==
    ASSUME FilesInv, NEW p \in Proc, InitCreate(p)
    PROVE  FilesInv'
<1> USE DatabaseFileAssumption DEF DatabaseFileAssumption
<1>1. TypeOK'
  BY DEF FilesInv, TypeOK, Inode, Path, Location, Ended, Closed, InitCreate, Goto,
     history
<1>2. Placed'
  BY DEF FilesInv, TypeOK, Placed, InitCreate, Goto, history
<1>3. Holding'
  BY DEF FilesInv, TypeOK, Holding, Opened, Closed, InitCreate, Goto, history
<1>4. Named'
  BY DEF FilesInv, TypeOK, Named, Fresh, Database, CopyFile, Closed, InitCreate,
     Goto, history
<1>5. Whole'
  BY DEF FilesInv, TypeOK, Whole, InitCreate, Goto, history
<1> QED BY <1>1, <1>2, <1>3, <1>4, <1>5 DEF FilesInv

LEMMA InitOpenFailsFiles ==
    ASSUME FilesInv, NEW p \in Proc, InitOpenFails(p)
    PROVE  FilesInv'
<1> USE DatabaseFileAssumption DEF DatabaseFileAssumption
<1>1. TypeOK'
  BY DEF FilesInv, TypeOK, Inode, Path, Location, Ended, Closed, InitOpenFails,
     Goto, history
<1>2. Placed'
  BY DEF FilesInv, TypeOK, Placed, InitOpenFails, Goto, history
<1>3. Holding'
  BY DEF FilesInv, TypeOK, Holding, Opened, Closed, InitOpenFails, Goto, history
<1>4. Named'
  BY DEF FilesInv, TypeOK, Named, Fresh, Database, CopyFile, Closed, Placed,
     Holding, Opened, Path, Inode, InitOpenFails, Goto, history
<1>5. Whole'
  BY DEF FilesInv, TypeOK, Whole, InitOpenFails, Goto, history
<1> QED BY <1>1, <1>2, <1>3, <1>4, <1>5 DEF FilesInv

LEMMA OpenExistingFiles ==
    ASSUME FilesInv, NEW p \in Proc, OpenExisting(p)
    PROVE  FilesInv'
<1> USE DatabaseFileAssumption DEF DatabaseFileAssumption
<1>1. TypeOK'
  BY DEF FilesInv, TypeOK, Inode, Path, Location, Ended, Closed, OpenExisting,
     Connect, LogFor, Goto, history
<1>2. Placed'
  BY DEF FilesInv, TypeOK, Placed, OpenExisting, Connect, LogFor, Goto, history
<1>3. Holding'
  BY DEF FilesInv, TypeOK, Holding, Opened, Closed, OpenExisting, Connect, LogFor,
     Goto, history
<1>4. Named'
  BY DEF FilesInv, TypeOK, Named, Fresh, Database, CopyFile, Closed, OpenExisting,
     Connect, LogFor, Goto, history
<1>5. Whole'
  BY DEF FilesInv, TypeOK, Whole, OpenExisting, Connect, LogFor, Goto, history
<1> QED BY <1>1, <1>2, <1>3, <1>4, <1>5 DEF FilesInv

LEMMA OpenNothingFiles ==
    ASSUME FilesInv, NEW p \in Proc, OpenNothing(p)
    PROVE  FilesInv'
<1> USE DatabaseFileAssumption DEF DatabaseFileAssumption
<1>1. TypeOK'
  BY DEF FilesInv, TypeOK, Inode, Path, Location, Ended, Closed, OpenNothing, Goto,
     disk, history
<1>2. Placed'
  BY DEF FilesInv, TypeOK, Placed, OpenNothing, Goto, disk, history
<1>3. Holding'
  BY DEF FilesInv, TypeOK, Holding, Opened, Closed, OpenNothing, Goto, disk, history
<1>4. Named'
  BY DEF FilesInv, TypeOK, Named, Fresh, Database, CopyFile, Closed, OpenNothing,
     Goto, disk, history
<1>5. Whole'
  BY DEF FilesInv, TypeOK, Whole, OpenNothing, Goto, disk, history
<1> QED BY <1>1, <1>2, <1>3, <1>4, <1>5 DEF FilesInv

LEMMA BeginFiles ==
    ASSUME FilesInv, NEW p \in Proc, Begin(p)
    PROVE  FilesInv'
<1> USE DatabaseFileAssumption DEF DatabaseFileAssumption
<1>1. TypeOK'
  BY DEF FilesInv, TypeOK, Inode, Path, Location, Ended, Closed, Begin, Goto, disk,
     history
<1>2. Placed'
  BY DEF FilesInv, TypeOK, Placed, Begin, Goto, disk, history
<1>3. Holding'
  BY DEF FilesInv, TypeOK, Holding, Opened, Closed, Begin, Goto, disk, history
<1>4. Named'
  BY DEF FilesInv, TypeOK, Named, Fresh, Database, CopyFile, Closed, Begin, Goto,
     disk, history
<1>5. Whole'
  BY DEF FilesInv, TypeOK, Whole, Begin, Goto, disk, history
<1> QED BY <1>1, <1>2, <1>3, <1>4, <1>5 DEF FilesInv

LEMMA AbortFiles ==
    ASSUME FilesInv, NEW p \in Proc, pc[p] \in {"begin", "transaction"}, Abort(p)
    PROVE  FilesInv'
<1> USE DatabaseFileAssumption DEF DatabaseFileAssumption
<1>1. TypeOK'
  BY DEF FilesInv, TypeOK, Inode, Path, Location, Ended, Closed, Abort, Disconnect,
     Checkpoints, View, Goto, history
<1>2. Placed'
  BY DEF FilesInv, TypeOK, Placed, Abort, Disconnect, Checkpoints, View, Goto,
     history
<1>3. Holding'
  BY DEF FilesInv, TypeOK, Holding, Opened, Closed, Abort, Disconnect, Checkpoints,
     View, Goto, history
<1>4. Named'
  BY DEF FilesInv, TypeOK, Named, Fresh, Database, CopyFile, Closed, Placed, Abort,
     Disconnect, Checkpoints, View, Goto, history
<1>5. Whole'
  BY DEF FilesInv, TypeOK, Whole, Abort, Disconnect, Checkpoints, View, Goto,
     history
<1> QED BY <1>1, <1>2, <1>3, <1>4, <1>5 DEF FilesInv

LEMMA CommitFiles ==
    ASSUME FilesInv, NEW p \in Proc, Commit(p)
    PROVE  FilesInv'
<1> USE DatabaseFileAssumption DEF DatabaseFileAssumption
<1>1. TypeOK'
  BY DEF FilesInv, TypeOK, Inode, Path, Location, Ended, Closed, Placed, Holding,
     Opened, Commit, Goto
<1>2. Placed'
  BY DEF FilesInv, TypeOK, Placed, Commit, Goto
<1>3. Holding'
  BY DEF FilesInv, TypeOK, Holding, Opened, Closed, Commit, Goto
<1>4. Named'
  BY DEF FilesInv, TypeOK, Named, Fresh, Database, CopyFile, Closed, Commit, Goto
<1>5. Whole'
  BY DEF FilesInv, TypeOK, Whole, Commit, Goto
<1> QED BY <1>1, <1>2, <1>3, <1>4, <1>5 DEF FilesInv

LEMMA CloseFiles ==
    ASSUME FilesInv, NEW p \in Proc, Close(p)
    PROVE  FilesInv'
<1> USE DatabaseFileAssumption DEF DatabaseFileAssumption
<1>1. TypeOK'
  BY SMTT(30) DEF FilesInv, TypeOK, Inode, Path, Location, Ended, Closed, Close,
     Disconnect, Checkpoints, View, Goto, history
<1>2. Placed'
  BY DEF FilesInv, TypeOK, Placed, Close, Disconnect, Checkpoints, View, Goto,
     history
<1>3. Holding'
  BY DEF FilesInv, TypeOK, Holding, Opened, Closed, Close, Disconnect, Checkpoints,
     View, Goto, history
<1>4. Named'
  BY SMTT(30) DEF FilesInv, TypeOK, Named, Fresh, Database, CopyFile, Closed,
     Placed, Close, Disconnect, Checkpoints, View, Goto, history
<1>5. Whole'
  BY DEF FilesInv, TypeOK, Whole, Close, Disconnect, Checkpoints, View, Goto,
     history
<1> QED BY <1>1, <1>2, <1>3, <1>4, <1>5 DEF FilesInv

LEMMA UnlinkFileFiles ==
    ASSUME FilesInv, NEW p \in Proc, UnlinkFile(p)
    PROVE  FilesInv'
<1> USE DatabaseFileAssumption DEF DatabaseFileAssumption
<1>1. TypeOK'
  BY DEF FilesInv, TypeOK, Inode, Path, Location, Ended, Closed, UnlinkFile, Goto,
     history
<1>2. Placed'
  BY DEF FilesInv, TypeOK, Placed, UnlinkFile, Goto, history
<1>3. Holding'
  BY DEF FilesInv, TypeOK, Holding, Opened, Closed, UnlinkFile, Goto, history
<1>4. Named'
  BY DEF FilesInv, TypeOK, Named, Fresh, Database, CopyFile, Closed, UnlinkFile,
     Goto, history
<1>5. Whole'
  BY DEF FilesInv, TypeOK, Whole, UnlinkFile, Goto, history
<1> QED BY <1>1, <1>2, <1>3, <1>4, <1>5 DEF FilesInv

LEMMA UnlinkLogFiles ==
    ASSUME FilesInv, NEW p \in Proc, UnlinkLog(p)
    PROVE  FilesInv'
<1> USE DatabaseFileAssumption DEF DatabaseFileAssumption
<1>1. TypeOK'
  BY DEF FilesInv, TypeOK, Inode, Path, Location, Ended, Closed, UnlinkLog, Goto,
     history
<1>2. Placed'
  BY DEF FilesInv, TypeOK, Placed, UnlinkLog, Goto, history
<1>3. Holding'
  BY DEF FilesInv, TypeOK, Holding, Opened, Closed, UnlinkLog, Goto, history
<1>4. Named'
  BY DEF FilesInv, TypeOK, Named, Fresh, Database, CopyFile, Closed, UnlinkLog,
     Goto, history
<1>5. Whole'
  BY DEF FilesInv, TypeOK, Whole, UnlinkLog, Goto, history
<1> QED BY <1>1, <1>2, <1>3, <1>4, <1>5 DEF FilesInv

LEMMA BackupCheckFiles ==
    ASSUME FilesInv, NEW p \in Proc, BackupCheck(p)
    PROVE  FilesInv'
<1> USE DatabaseFileAssumption DEF DatabaseFileAssumption
<1>1. TypeOK'
  BY SMTT(30) DEF FilesInv, TypeOK, Inode, Path, Location, Ended, Closed,
     BackupCheck, Connect, LogFor, Goto, disk, history
<1>2. Placed'
  BY DEF FilesInv, TypeOK, Placed, BackupCheck, Connect, LogFor, Goto, disk, history
<1>3. Holding'
  <2> USE DatabaseFileAssumption DEF DatabaseFileAssumption
  <2>1. CASE Goto(p, "unlink_output") /\ UNCHANGED conn
    BY <2>1 DEF FilesInv, TypeOK, Holding, Opened, BackupCheck, Goto
  <2>2. CASE output[p] = "copy" /\ file["db"] # NULL /\ Connect(p) /\ Goto(p, "create")
    <3>1. conn'[p] # Closed
      BY <2>2 DEF FilesInv, TypeOK, Connect, Closed, Inode, Path
    <3> QED BY <2>2, <3>1 DEF FilesInv, TypeOK, Holding, Opened, BackupCheck, Goto, Connect
  <2>3. output[p] \in Path
    BY DEF FilesInv, Holding, BackupCheck
  <2> QED BY <2>1, <2>2, <2>3 DEF BackupCheck, Path, disk
<1>4. Named'
  BY DEF FilesInv, TypeOK, Named, Fresh, Database, CopyFile, Closed, Placed,
     Holding, Opened, Path, Inode, NoCopy, Whole, Location, Ended, BackupCheck,
     Connect, LogFor, Goto, disk, history
<1>5. Whole'
  BY DEF FilesInv, TypeOK, Whole, Placed, BackupCheck, Connect, LogFor, Goto, disk,
     history
<1> QED BY <1>1, <1>2, <1>3, <1>4, <1>5 DEF FilesInv

LEMMA BackupCreateFiles ==
    ASSUME FilesInv, NEW p \in Proc, BackupCreate(p)
    PROVE  FilesInv'
<1> USE DatabaseFileAssumption DEF DatabaseFileAssumption
<1>1. TypeOK'
  BY DEF FilesInv, TypeOK, Inode, Path, Location, Ended, Closed, Placed, Holding,
     Opened, BackupCreate, Goto, history
<1>2. Placed'
  BY DEF FilesInv, TypeOK, Placed, BackupCreate, Goto, history
<1>3. Holding'
  BY DEF FilesInv, TypeOK, Holding, Opened, Closed, BackupCreate, Goto, history
<1>4. Named'
  BY DEF FilesInv, TypeOK, Named, Fresh, Database, CopyFile, Closed, Placed,
     Holding, Opened, BackupCreate, Goto, history
<1>5. Whole'
  BY DEF FilesInv, TypeOK, Whole, Placed, BackupCreate, Goto, history
<1> QED BY <1>1, <1>2, <1>3, <1>4, <1>5 DEF FilesInv

LEMMA BackupOpenCopyFiles ==
    ASSUME FilesInv, NEW p \in Proc, BackupOpenCopy(p)
    PROVE  FilesInv'
<1> USE DatabaseFileAssumption DEF DatabaseFileAssumption
<1>1. TypeOK'
  BY DEF FilesInv, TypeOK, Inode, Path, Location, Ended, Closed, Placed, Holding,
     Opened, BackupOpenCopy, Goto, disk, history
<1>2. Placed'
  BY DEF FilesInv, TypeOK, Placed, BackupOpenCopy, Goto, disk, history
<1>3. Holding'
  BY DEF FilesInv, TypeOK, Holding, Opened, Closed, BackupOpenCopy, Goto, disk,
     history
<1>4. Named'
  BY DEF FilesInv, TypeOK, Named, Fresh, Database, CopyFile, Closed, Placed,
     Holding, Opened, BackupOpenCopy, Goto, disk, history
<1>5. Whole'
  BY DEF FilesInv, TypeOK, Whole, BackupOpenCopy, Goto, disk, history
<1> QED BY <1>1, <1>2, <1>3, <1>4, <1>5 DEF FilesInv

LEMMA BackupGivesUpFiles ==
    ASSUME FilesInv, NEW p \in Proc, command[p] = "backup",
           pc[p] \in {"check", "create", "open_copy", "copy"}, BackupGivesUp(p)
    PROVE  FilesInv'
<1> USE DatabaseFileAssumption DEF DatabaseFileAssumption
<1>1. TypeOK'
  BY DEF FilesInv, TypeOK, Inode, Path, Location, Ended, Closed, BackupGivesUp,
     Disconnect, Checkpoints, Goto, history, NoCopy
<1>2. Placed'
  BY DEF FilesInv, TypeOK, Placed, BackupGivesUp, Disconnect, Checkpoints, Goto,
     history, NoCopy
<1>3. Holding'
  BY DEF FilesInv, TypeOK, Holding, Opened, Closed, BackupGivesUp, Disconnect,
     Checkpoints, Goto, history, NoCopy
<1>4. Named'
  BY DEF FilesInv, TypeOK, Named, Fresh, Database, CopyFile, Closed, BackupGivesUp,
     Disconnect, Checkpoints, Goto, history, NoCopy
<1>5. Whole'
  BY DEF FilesInv, TypeOK, Whole, BackupGivesUp, Disconnect, Checkpoints, Goto,
     history, NoCopy
<1> QED BY <1>1, <1>2, <1>3, <1>4, <1>5 DEF FilesInv

LEMMA BackupRestartsFiles ==
    ASSUME FilesInv, NEW p \in Proc, BackupRestarts(p)
    PROVE  FilesInv'
<1> USE DatabaseFileAssumption DEF DatabaseFileAssumption
<1>1. TypeOK'
  <2>1. conn[p] # Closed
    BY DEF FilesInv, Holding, Opened, BackupRestarts
  <2>2. View(p) \subseteq Proc
    BY <2>1, ViewType DEF FilesInv
  <2>3. copy' \in [Proc -> [file : Inode, read : SUBSET Proc]]
    BY <2>2, SMTT(30) DEF FilesInv, TypeOK, BackupRestarts, CopyAgain
  <2> QED BY <2>3 DEF FilesInv, TypeOK, BackupRestarts, disk, history
<1>2. Placed'
  BY DEF FilesInv, TypeOK, Placed, BackupRestarts, CopyAgain, disk, history
<1>3. Holding'
  BY DEF FilesInv, TypeOK, Holding, Opened, Closed, BackupRestarts, CopyAgain, disk,
     history
<1>4. Named'
  BY DEF FilesInv, TypeOK, Named, Fresh, Database, CopyFile, Closed, BackupRestarts,
     CopyAgain, disk, history
<1>5. Whole'
  BY DEF FilesInv, TypeOK, Whole, BackupRestarts, CopyAgain, disk, history
<1> QED BY <1>1, <1>2, <1>3, <1>4, <1>5 DEF FilesInv

LEMMA BackupDoneFiles ==
    ASSUME FilesInv, NEW p \in Proc, BackupDone(p)
    PROVE  FilesInv'
<1> USE DatabaseFileAssumption DEF DatabaseFileAssumption
<1>1. TypeOK'
  <2>1. copy[p].read \subseteq Proc
    BY DEF FilesInv, TypeOK
  <2>2. pages' \in [Proc -> SUBSET Proc]
    BY <2>1 DEF FilesInv, TypeOK, BackupDone
  <2> QED BY <2>2 DEF FilesInv, TypeOK, BackupDone, Goto, history, Inode, Closed, NoCopy, Location, Ended
<1>2. Placed'
  BY DEF FilesInv, TypeOK, Placed, BackupDone, Goto, history, NoCopy
<1>3. Holding'
  BY DEF FilesInv, TypeOK, Holding, Opened, Closed, BackupDone, Goto, history,
     NoCopy
<1>4. Named'
  BY DEF FilesInv, TypeOK, Named, Fresh, Database, CopyFile, Closed, BackupDone,
     Goto, history, NoCopy
<1>5. Whole'
  BY DEF FilesInv, TypeOK, Whole, Placed, Holding, Opened, Closed, Named, Fresh,
     Database, CopyFile, Path, Inode, BackupDone, Goto, history, NoCopy
<1> QED BY <1>1, <1>2, <1>3, <1>4, <1>5 DEF FilesInv

LEMMA UnlinkOutputFiles ==
    ASSUME FilesInv, NEW p \in Proc, UnlinkOutput(p)
    PROVE  FilesInv'
<1> USE DatabaseFileAssumption DEF DatabaseFileAssumption
<1>1. TypeOK'
  <2>1. file' \in [Path -> Inode]
    BY DEF FilesInv, TypeOK, UnlinkOutput, Inode
  <2> QED BY <2>1 DEF FilesInv, TypeOK, UnlinkOutput, Goto, history, Location, Ended
<1>2. Placed'
  BY DEF FilesInv, TypeOK, Placed, UnlinkOutput, Goto, history
<1>3. Holding'
  BY DEF FilesInv, TypeOK, Holding, Opened, Closed, UnlinkOutput, Goto, history
<1>4. Named'
  BY DEF FilesInv, TypeOK, Named, Fresh, Database, CopyFile, Closed, UnlinkOutput,
     Goto, history
<1>5. Whole'
  BY DEF FilesInv, TypeOK, Whole, UnlinkOutput, Goto, history
<1> QED BY <1>1, <1>2, <1>3, <1>4, <1>5 DEF FilesInv

LEMMA RestoreStageFiles ==
    ASSUME FilesInv, NEW p \in Proc, RestoreStage(p)
    PROVE  FilesInv'
<1> USE DatabaseFileAssumption DEF DatabaseFileAssumption
<1>1. TypeOK'
  BY DEF FilesInv, TypeOK, Inode, Path, Location, Ended, Closed, RestoreStage,
     Healthy, Goto
<1>2. Placed'
  BY DEF FilesInv, TypeOK, Placed, RestoreStage, Healthy, Goto
<1>3. Holding'
  BY DEF FilesInv, TypeOK, Holding, Opened, Closed, RestoreStage, Healthy, Goto
<1>4. Named'
  BY DEF FilesInv, TypeOK, Named, Fresh, Database, CopyFile, Closed, RestoreStage,
     Healthy, Goto
<1>5. Whole'
  BY DEF FilesInv, TypeOK, Whole, RestoreStage, Healthy, Goto
<1> QED BY <1>1, <1>2, <1>3, <1>4, <1>5 DEF FilesInv

LEMMA RestoreRefusedFiles ==
    ASSUME FilesInv, NEW p \in Proc, RestoreRefused(p)
    PROVE  FilesInv'
<1> USE DatabaseFileAssumption DEF DatabaseFileAssumption
<1>1. TypeOK'
  BY DEF FilesInv, TypeOK, Inode, Path, Location, Ended, Closed, RestoreRefused,
     Goto, disk, history
<1>2. Placed'
  BY DEF FilesInv, TypeOK, Placed, RestoreRefused, Goto, disk, history
<1>3. Holding'
  BY DEF FilesInv, TypeOK, Holding, Opened, Closed, RestoreRefused, Goto, disk,
     history
<1>4. Named'
  BY DEF FilesInv, TypeOK, Named, Fresh, Database, CopyFile, Closed, RestoreRefused,
     Goto, disk, history
<1>5. Whole'
  BY DEF FilesInv, TypeOK, Whole, RestoreRefused, Goto, disk, history
<1> QED BY <1>1, <1>2, <1>3, <1>4, <1>5 DEF FilesInv

LEMMA RestoreUnlinksLogFiles ==
    ASSUME FilesInv, NEW p \in Proc, RestoreUnlinksLog(p)
    PROVE  FilesInv'
<1> USE DatabaseFileAssumption DEF DatabaseFileAssumption
<1>1. TypeOK'
  BY DEF FilesInv, TypeOK, Inode, Path, Location, Ended, Closed, RestoreUnlinksLog,
     Goto, history
<1>2. Placed'
  BY DEF FilesInv, TypeOK, Placed, RestoreUnlinksLog, Goto, history
<1>3. Holding'
  BY DEF FilesInv, TypeOK, Holding, Opened, Closed, RestoreUnlinksLog, Goto, history
<1>4. Named'
  BY DEF FilesInv, TypeOK, Named, Fresh, Database, CopyFile, Closed,
     RestoreUnlinksLog, Goto, history
<1>5. Whole'
  BY DEF FilesInv, TypeOK, Whole, RestoreUnlinksLog, Goto, history
<1> QED BY <1>1, <1>2, <1>3, <1>4, <1>5 DEF FilesInv

LEMMA RestoreRenameFiles ==
    ASSUME FilesInv, NEW p \in Proc, RestoreRename(p)
    PROVE  FilesInv'
<1> USE DatabaseFileAssumption DEF DatabaseFileAssumption
<1>1. TypeOK'
  BY DEF FilesInv, TypeOK, Inode, Path, Location, Ended, Closed, RestoreRename, Goto
<1>2. Placed'
  BY DEF FilesInv, TypeOK, Placed, RestoreRename, Goto
<1>3. Holding'
  BY DEF FilesInv, TypeOK, Holding, Opened, Closed, RestoreRename, Goto
<1>4. Named'
  BY DEF FilesInv, TypeOK, Named, Fresh, Database, CopyFile, Closed, Placed,
     RestoreRename, Goto
<1>5. Whole'
  BY DEF FilesInv, TypeOK, Whole, RestoreRename, Goto
<1> QED BY <1>1, <1>2, <1>3, <1>4, <1>5 DEF FilesInv

LEMMA RestoreFailsFiles ==
    ASSUME FilesInv, NEW p \in Proc, RestoreFails(p)
    PROVE  FilesInv'
<1> USE DatabaseFileAssumption DEF DatabaseFileAssumption
<1>1. TypeOK'
  BY DEF FilesInv, TypeOK, Inode, Path, Location, Ended, Closed, RestoreFails, Goto,
     disk, history
<1>2. Placed'
  BY DEF FilesInv, TypeOK, Placed, RestoreFails, Goto, disk, history
<1>3. Holding'
  BY DEF FilesInv, TypeOK, Holding, Opened, Closed, RestoreFails, Goto, disk,
     history
<1>4. Named'
  BY DEF FilesInv, TypeOK, Named, Fresh, Database, CopyFile, Closed, RestoreFails,
     Goto, disk, history
<1>5. Whole'
  BY DEF FilesInv, TypeOK, Whole, RestoreFails, Goto, disk, history
<1> QED BY <1>1, <1>2, <1>3, <1>4, <1>5 DEF FilesInv

LEMMA CrashFiles ==
    ASSUME FilesInv, NEW p \in Proc, Crash(p)
    PROVE  FilesInv'
<1> USE DatabaseFileAssumption DEF DatabaseFileAssumption
<1>1. TypeOK'
  BY DEF FilesInv, TypeOK, Inode, Path, Location, Ended, Closed, Crash, Goto, disk,
     history, NoCopy, Active
<1>2. Placed'
  BY DEF FilesInv, TypeOK, Placed, Crash, Goto, disk, history, NoCopy, Active, Ended
<1>3. Holding'
  BY DEF FilesInv, TypeOK, Holding, Opened, Closed, Crash, Goto, disk, history,
     NoCopy, Active, Ended
<1>4. Named'
  BY DEF FilesInv, TypeOK, Named, Fresh, Database, CopyFile, Closed, Crash, Goto,
     disk, history, NoCopy, Active, Ended
<1>5. Whole'
  BY DEF FilesInv, TypeOK, Whole, Crash, Goto, disk, history, NoCopy, Active, Ended
<1> QED BY <1>1, <1>2, <1>3, <1>4, <1>5 DEF FilesInv

LEMMA NextFiles == FilesInv /\ [Next]_vars => FilesInv'
<1> SUFFICES ASSUME FilesInv, [Next]_vars PROVE FilesInv'
  OBVIOUS
<1>1. CASE UNCHANGED vars
  BY <1>1 DEF FilesInv, TypeOK, Placed, Holding, Named, Whole, Fresh, Database, CopyFile, vars
<1>2. ASSUME NEW p \in Proc, NEW k \in Command, Start(p, k) PROVE FilesInv'
  BY <1>2, StartFiles
<1>3. ASSUME NEW p \in Proc, Work(p) PROVE FilesInv'
  <2>1. CASE InitCheck(p) \/ InitCreate(p) \/ OpenExisting(p) \/ OpenNothing(p) \/ Begin(p)
    BY <2>1, InitCheckFiles, InitCreateFiles, OpenExistingFiles, OpenNothingFiles, BeginFiles
  <2>2. CASE Busy(p) \/ SchemaError(p)
    BY <2>2, AbortFiles DEF Busy, SchemaError
  <2>3. CASE Commit(p) \/ Close(p) \/ UnlinkFile(p) \/ UnlinkLog(p)
    BY <2>3, CommitFiles, CloseFiles, UnlinkFileFiles, UnlinkLogFiles
  <2>4. CASE BackupCheck(p) \/ BackupCreate(p) \/ BackupOpenCopy(p) \/ BackupRestarts(p)
    BY <2>4, BackupCheckFiles, BackupCreateFiles, BackupOpenCopyFiles, BackupRestartsFiles
  <2>5. CASE OutputConflict(p)
    BY <2>5, BackupGivesUpFiles DEF OutputConflict, FilesInv, Placed
  <2>6. CASE BackupDone(p) \/ UnlinkOutput(p)
    BY <2>6, BackupDoneFiles, UnlinkOutputFiles
  <2>7. CASE \/ RestoreStage(p) \/ RestoreRefused(p) \/ RestoreUnlinksLog(p)
             \/ RestoreRename(p)
    BY <2>7, RestoreStageFiles, RestoreRefusedFiles, RestoreUnlinksLogFiles,
       RestoreRenameFiles
  <2> QED BY <1>3, <2>1, <2>2, <2>3, <2>4, <2>5, <2>6, <2>7 DEF Work
<1>4. ASSUME NEW p \in Proc, Failure(p) PROVE FilesInv'
  BY <1>4, InitOpenFailsFiles, AbortFiles, BackupGivesUpFiles, RestoreFailsFiles
     DEF Failure, StatementFails, BackupFails
<1>5. ASSUME NEW p \in Proc, Crash(p) PROVE FilesInv'
  BY <1>5, CrashFiles
<1> QED BY <1>1, <1>2, <1>3, <1>4, <1>5 DEF Next

(* Every name of a file, a log or an operation means what it should, in    *)
(* whatever way the commands are mixed, fail and crash.                    *)
THEOREM FilesTypeCorrect == Spec => []TypeOK
<1>1. FilesInv => TypeOK
  BY DEF FilesInv
<1> QED BY <1>1, InitFiles, NextFiles, PTL DEF Spec

(* A restore never puts a database without its schema in place: the copy   *)
(* may be unlinked, replaced or rewritten while the restore reads it, what *)
(* it has staged stays as it was checked.                                  *)
THEOREM RestoredWhole == Spec => []RestoredIsWhole
<1>1. FilesInv => RestoredIsWhole
  BY DEF FilesInv, Whole, RestoredIsWhole
<1> QED BY <1>1, InitFiles, NextFiles, PTL DEF Spec

-----------------------------------------------------------------------------
(* With care: CareInv is inductive beside FilesInv.                        *)

LEMMA KeepsAlone ==
    ASSUME Alone, UNCHANGED command, \A q \in Proc : Active(q)' => Active(q)
    PROVE  Alone'
BY DEF Alone, Active

LEMMA InitCare == Init => CareInv
<1> USE DatabaseFileAssumption DEF DatabaseFileAssumption
<1> SUFFICES ASSUME Init PROVE CareInv
  OBVIOUS
<1>1. Alone /\ Committed /\ LogEmpty
  BY DEF Init, Alone, Active, Committed, LogEmpty, NoFrames, Path
<1>2. InitsWork /\ WritersStand
  BY DEF Init, InitsWork, InitWorks, WritersStand, Path
<1>3. StoredIsVisible /\ LogBelongsToFile
  BY DEF Init, StoredIsVisible, LogBelongsToFile
<1> QED BY <1>1, <1>2, <1>3 DEF CareInv

LEMMA StartCare ==
    ASSUME UsedWithCare, FilesInv, CareInv, NEW p \in Proc, NEW k \in Command, Start(p, k)
    PROVE  CareInv'
<1> USE DatabaseFileAssumption DEF DatabaseFileAssumption
<1>a. /\ pc[p] = "idle" /\ command[p] = NULL
      /\ command' = [command EXCEPT ![p] = k]
      /\ pc' = [pc EXCEPT ![p] = FirstStep(k)]
      /\ \A q \in Proc : Active(q) => {k, command[q]} \notin Apart
      /\ UNCHANGED <<file, log, pages, frames, conn, stored, home>>
  BY DEF Start, Goto, disk, history, FilesInv, Placed
<1>b. FirstStep(k) =
          IF k \in {"init", "backup"} THEN "check" ELSE IF k = "write" THEN "open" ELSE "stage"
  BY DEF FirstStep, Command
<1>c. \A q \in Proc \ {p} :
          pc'[q] = pc[q] /\ command'[q] = command[q] /\ (Active(q)' <=> Active(q))
  BY <1>a DEF FilesInv, TypeOK, Active
<1>1. Alone'
  <2>1. \A q \in Proc \ {p} : Active(q) =>
            /\ ~ (k = "init" /\ command[q] = "init")
            /\ ~ (k = "restore" /\ command[q] \in {"restore", "init", "write"})
            /\ ~ (command[q] = "restore" /\ k \in {"init", "write"})
    <3> SUFFICES ASSUME NEW q \in Proc \ {p}, Active(q)
                 PROVE  /\ ~ (k = "init" /\ command[q] = "init")
                        /\ ~ (k = "restore" /\ command[q] \in {"restore", "init", "write"})
                        /\ ~ (command[q] = "restore" /\ k \in {"init", "write"})
      OBVIOUS
    <3>1. {k, command[q]} \notin {{"init"}, {"restore"}, {"restore", "init"}, {"restore", "write"}}
      BY <1>a DEF UsedWithCare
    <3> QED BY <3>1
  <2> QED BY <1>a, <1>c, <2>1 DEF Alone, CareInv, FilesInv, TypeOK
<1>2. Committed'
  BY <1>a, <1>c DEF Committed, CareInv, FilesInv, TypeOK
<1>3. LogEmpty'
  BY <1>a, <1>b, <1>c DEF LogEmpty, NoFrames, Replacing, CareInv, FilesInv, TypeOK
<1>4. InitsWork'
  <2> SUFFICES ASSUME NEW q \in Proc, command'[q] = "init" PROVE InitWorks(q)'
    BY DEF InitsWork
  <2>1. CASE q = p
    BY <1>a, <1>b, <2>1 DEF InitWorks, FilesInv, TypeOK
  <2>2. CASE q # p
    <3>1. InitWorks(q)
      BY <1>c, <2>2 DEF CareInv, InitsWork
    <3> QED BY <1>a, <1>c, <2>2, <3>1 DEF InitWorks, NoFrames
  <2> QED BY <2>1, <2>2
<1>5. WritersStand'
  BY <1>a, <1>b, <1>c DEF WritersStand, Current, Stale, View, CareInv, FilesInv, TypeOK
<1>6. StoredIsVisible'
  BY <1>a, <1>c DEF StoredIsVisible, Replacing, CareInv, FilesInv, TypeOK
<1>7. LogBelongsToFile'
  BY <1>a DEF LogBelongsToFile, CareInv
<1> QED BY <1>1, <1>2, <1>3, <1>4, <1>5, <1>6, <1>7 DEF CareInv

LEMMA InitCheckCare ==
    ASSUME UsedWithCare, FilesInv, FilesInv', CareInv, NEW p \in Proc, InitCheck(p)
    PROVE  CareInv'
<1> USE DatabaseFileAssumption DEF DatabaseFileAssumption
<1>1. Alone'
  BY KeepsAlone DEF CareInv, Active, Ended, FilesInv, TypeOK, InitCheck, Goto, disk,
     history
<1>2. Committed'
  BY DEF CareInv, Committed, InitCheck, Goto, disk, history
<1>3. LogEmpty'
  BY DEF CareInv, LogEmpty, NoFrames, Replacing, InitCheck, Goto, disk, history
<1>4. InitsWork'
  BY DEF CareInv, InitsWork, InitWorks, NoFrames, FilesInv, TypeOK, UsedWithCare,
     Named, Fresh, Database, CopyFile, Placed, Holding, Opened, Closed, Path, Inode,
     Alone, Active, Ended, InitCheck, Goto, disk, history
<1>5. WritersStand'
  BY DEF CareInv, WritersStand, Current, Stale, View, InitCheck, Goto, disk, history
<1>6. StoredIsVisible'
  BY DEF CareInv, StoredIsVisible, Replacing, InitCheck, Goto, disk, history
<1>7. LogBelongsToFile'
  BY DEF CareInv, LogBelongsToFile, InitCheck, Goto, disk, history
<1> QED BY <1>1, <1>2, <1>3, <1>4, <1>5, <1>6, <1>7 DEF CareInv

LEMMA InitCreateCare ==
    ASSUME UsedWithCare, FilesInv, FilesInv', CareInv, NEW p \in Proc, InitCreate(p)
    PROVE  CareInv'
<1> USE DatabaseFileAssumption DEF DatabaseFileAssumption
<1>a. /\ file["db"] = NULL /\ file' = [file EXCEPT !["db"] = p]
      /\ log' = p
      /\ conn' = [conn EXCEPT ![p] = [file |-> p, log |-> p]]
      /\ pc' = [pc EXCEPT ![p] = "begin"]
      /\ UNCHANGED <<pages, frames, command, stored, home>>
      /\ command[p] = "init" /\ Fresh(p) /\ Active(p)
  BY DEF InitCreate, Goto, history, Fresh, Active, Ended
<1>b. pages[p] = {} /\ frames[p] = {}
  BY <1>a DEF FilesInv, Named
<1>c. \A q \in Proc : conn[q] # Closed => conn[q].file # p /\ conn[q].log # p
  BY <1>a DEF FilesInv, Named, Database, Fresh
<1>d. \A q \in Proc \ {p} : command[q] \in {"init", "restore"} => ~ Active(q)
  BY <1>a DEF CareInv, Alone
<1>1. Alone'
  BY KeepsAlone DEF CareInv, Active, Ended, FilesInv, TypeOK, InitCreate, Goto,
     history
<1>2. Committed'
  BY DEF CareInv, Committed, InitCreate, Goto, history
<1>3. LogEmpty'
  BY DEF CareInv, LogEmpty, NoFrames, Replacing, FilesInv, TypeOK, UsedWithCare,
     Named, Fresh, Database, CopyFile, Placed, Holding, Opened, Closed, Path, Inode,
     Alone, Active, Ended, InitCreate, Goto, history
<1>4. InitsWork'
  <2>1. InitWorks(p)'
    BY <1>a, <1>b, <1>c DEF InitWorks, FilesInv, TypeOK, Closed, Path
  <2>2. ASSUME NEW q \in Proc \ {p}, command[q] = "init" PROVE InitWorks(q)'
    <3>1. ~ Active(q) /\ pc'[q] = pc[q] /\ file'["db"] = p
      BY <1>a, <1>d, <2>2 DEF FilesInv, TypeOK, Path
    <3> QED BY <3>1 DEF InitWorks, Active, Ended
  <2> QED BY <1>a, <2>1, <2>2 DEF InitsWork
<1>5. WritersStand'
  <2> SUFFICES ASSUME NEW q \in Proc, pc'[q] \in {"begin", "transaction", "close"}
               PROVE  Current(q)' \/ Stale(q)'
    BY DEF WritersStand
  <2>1. CASE q = p
    BY <1>a, <2>1 DEF Current, FilesInv, TypeOK, Path
  <2>2. CASE q # p
    <3>1. pc[q] \in {"begin", "transaction", "close"} /\ conn'[q] = conn[q]
      BY <1>a, <2>2 DEF FilesInv, TypeOK
    <3>2. conn[q] # Closed
      BY <3>1 DEF FilesInv, Holding, Opened
    <3>3. Stale(q)
      BY <1>a, <3>1, <3>2 DEF CareInv, WritersStand, Current, FilesInv, TypeOK
    <3> QED BY <1>a, <1>c, <3>1, <3>2, <3>3 DEF Stale, View, FilesInv, TypeOK, Path
  <2> QED BY <2>1, <2>2
<1>6. StoredIsVisible'
  BY DEF CareInv, StoredIsVisible, Replacing, InitCreate, Goto, history
<1>7. LogBelongsToFile'
  BY DEF CareInv, LogBelongsToFile, FilesInv, TypeOK, UsedWithCare, Named, Fresh,
     Database, CopyFile, Placed, Holding, Opened, Closed, Path, Inode, Alone,
     Active, Ended, InitCreate, Goto, history
<1> QED BY <1>1, <1>2, <1>3, <1>4, <1>5, <1>6, <1>7 DEF CareInv

LEMMA InitOpenFailsCare ==
    ASSUME UsedWithCare, FilesInv, FilesInv', CareInv, NEW p \in Proc, InitOpenFails(p)
    PROVE  CareInv'
<1> USE DatabaseFileAssumption DEF DatabaseFileAssumption
<1>1. Alone'
  BY KeepsAlone DEF CareInv, Active, Ended, FilesInv, TypeOK, InitOpenFails, Goto,
     history
<1>2. Committed'
  BY DEF CareInv, Committed, InitOpenFails, Goto, history
<1>3. LogEmpty'
  BY DEF CareInv, LogEmpty, NoFrames, Replacing, InitOpenFails, Goto, history
<1>4. InitsWork'
  <2> SUFFICES ASSUME NEW q \in Proc, command[q] = "init" PROVE InitWorks(q)'
    BY DEF InitsWork, InitOpenFails
  <2>1. CASE q = p
    BY <2>1 DEF InitWorks, InitOpenFails, Goto, FilesInv, TypeOK
  <2>2. CASE q # p
    <3>1. ~ Active(q) /\ pc'[q] = pc[q] /\ home' = home /\ (file' = file \/ file'["db"] = p)
      BY <2>2 DEF CareInv, Alone, InitOpenFails, Goto, history, Active, Ended, FilesInv, TypeOK, Path
    <3>2. InitWorks(q)
      BY DEF CareInv, InitsWork
    <3> QED BY <2>2, <3>1, <3>2 DEF InitWorks, Active, Ended
  <2> QED BY <2>1, <2>2
<1>5. WritersStand'
  BY DEF CareInv, WritersStand, Current, Stale, View, FilesInv, TypeOK,
     UsedWithCare, Named, Fresh, Database, CopyFile, Placed, Holding, Opened,
     Closed, Path, Inode, Alone, Active, Ended, InitOpenFails, Goto, history
<1>6. StoredIsVisible'
  BY DEF CareInv, StoredIsVisible, Replacing, InitOpenFails, Goto, history
<1>7. LogBelongsToFile'
  BY DEF CareInv, UsedWithCare, InitOpenFails, Goto, disk, history, Location,
     NoCopy, Alone, FilesInv, TypeOK, Placed, Holding, Named, Closed, Opened, Fresh,
     Database, CopyFile, LogEmpty, NoFrames, Replacing, Active, Ended, InitsWork,
     InitWorks, WritersStand, Current, Stale, View, Committed, StoredIsVisible,
     LogBelongsToFile, Path, Inode
<1> QED BY <1>1, <1>2, <1>3, <1>4, <1>5, <1>6, <1>7 DEF CareInv

LEMMA OpenExistingCare ==
    ASSUME UsedWithCare, FilesInv, FilesInv', CareInv, NEW p \in Proc, OpenExisting(p)
    PROVE  CareInv'
<1> USE DatabaseFileAssumption DEF DatabaseFileAssumption
<1>1. Alone'
  BY KeepsAlone DEF CareInv, Active, Ended, FilesInv, TypeOK, OpenExisting, Connect,
     LogFor, Goto, history
<1>2. Committed'
  BY DEF CareInv, Committed, OpenExisting, Connect, LogFor, Goto, history
<1>3. LogEmpty'
  BY DEF CareInv, LogEmpty, NoFrames, Replacing, FilesInv, TypeOK, UsedWithCare,
     Named, Fresh, Database, CopyFile, Placed, Holding, Opened, Closed, Path, Inode,
     Alone, Active, Ended, OpenExisting, Connect, LogFor, Goto, history
<1>4. InitsWork'
  BY DEF CareInv, InitsWork, InitWorks, NoFrames, FilesInv, TypeOK, UsedWithCare,
     Named, Fresh, Database, CopyFile, Placed, Holding, Opened, Closed, Path, Inode,
     Alone, Active, Ended, OpenExisting, Connect, LogFor, Goto, history
<1>5. WritersStand'
  BY DEF CareInv, WritersStand, Current, Stale, View, FilesInv, TypeOK,
     UsedWithCare, Named, Fresh, Database, CopyFile, Placed, Holding, Opened,
     Closed, Path, Inode, Alone, Active, Ended, OpenExisting, Connect, LogFor, Goto,
     history
<1>6. StoredIsVisible'
  BY DEF CareInv, StoredIsVisible, Replacing, OpenExisting, Connect, LogFor, Goto,
     history
<1>7. LogBelongsToFile'
  BY DEF CareInv, LogBelongsToFile, FilesInv, TypeOK, UsedWithCare, Named, Fresh,
     Database, CopyFile, Placed, Holding, Opened, Closed, Path, Inode, Alone,
     Active, Ended, OpenExisting, Connect, LogFor, Goto, history
<1> QED BY <1>1, <1>2, <1>3, <1>4, <1>5, <1>6, <1>7 DEF CareInv

LEMMA OpenNothingCare ==
    ASSUME UsedWithCare, FilesInv, FilesInv', CareInv, NEW p \in Proc, OpenNothing(p)
    PROVE  CareInv'
<1> USE DatabaseFileAssumption DEF DatabaseFileAssumption
<1>1. Alone'
  BY KeepsAlone DEF CareInv, Active, Ended, FilesInv, TypeOK, OpenNothing, Goto,
     disk, history
<1>2. Committed'
  BY DEF CareInv, Committed, OpenNothing, Goto, disk, history
<1>3. LogEmpty'
  BY DEF CareInv, LogEmpty, NoFrames, Replacing, OpenNothing, Goto, disk, history
<1>4. InitsWork'
  BY DEF CareInv, InitsWork, InitWorks, NoFrames, OpenNothing, Goto, disk, history
<1>5. WritersStand'
  BY DEF CareInv, WritersStand, Current, Stale, View, OpenNothing, Goto, disk,
     history
<1>6. StoredIsVisible'
  BY DEF CareInv, StoredIsVisible, Replacing, OpenNothing, Goto, disk, history
<1>7. LogBelongsToFile'
  BY DEF CareInv, LogBelongsToFile, OpenNothing, Goto, disk, history
<1> QED BY <1>1, <1>2, <1>3, <1>4, <1>5, <1>6, <1>7 DEF CareInv

LEMMA BeginCare ==
    ASSUME UsedWithCare, FilesInv, FilesInv', CareInv, NEW p \in Proc, Begin(p)
    PROVE  CareInv'
<1> USE DatabaseFileAssumption DEF DatabaseFileAssumption
<1>1. Alone'
  BY KeepsAlone DEF CareInv, Active, Ended, FilesInv, TypeOK, Begin, Goto, disk,
     history
<1>2. Committed'
  BY DEF CareInv, Committed, Begin, Goto, disk, history
<1>3. LogEmpty'
  BY DEF CareInv, LogEmpty, NoFrames, Replacing, Begin, Goto, disk, history
<1>4. InitsWork'
  BY DEF CareInv, InitsWork, InitWorks, NoFrames, Begin, Goto, disk, history
<1>5. WritersStand'
  BY DEF CareInv, WritersStand, Current, Stale, View, Begin, Goto, disk, history
<1>6. StoredIsVisible'
  BY DEF CareInv, StoredIsVisible, Replacing, Begin, Goto, disk, history
<1>7. LogBelongsToFile'
  BY DEF CareInv, LogBelongsToFile, Begin, Goto, disk, history
<1> QED BY <1>1, <1>2, <1>3, <1>4, <1>5, <1>6, <1>7 DEF CareInv

LEMMA AbortCare ==
    ASSUME UsedWithCare, FilesInv, FilesInv', CareInv, NEW p \in Proc, pc[p] \in {"begin", "transaction"}, Abort(p)
    PROVE  CareInv'
<1> USE DatabaseFileAssumption DEF DatabaseFileAssumption
<1>a. /\ pc' = [pc EXCEPT ![p] = IF command[p] = "init" THEN "unlink_file" ELSE "done"]
      /\ conn' = [conn EXCEPT ![p] = Closed]
      /\ UNCHANGED <<file, frames, command, stored, home>>
      /\ command[p] \in {"init", "write"}
      /\ conn[p].file \in Proc /\ conn[p].log \in Proc
  BY DEF Abort, Disconnect, Goto, history, FilesInv, TypeOK, Placed, Holding, Opened, Closed
<1>b. \/ UNCHANGED <<pages, log>>
      \/ /\ Current(p)
         /\ \A q \in Proc \ {p} : conn[q].file # file["db"]
         /\ pages' = [pages EXCEPT ![file["db"]] = @ \cup frames[log]]
         /\ log' = NULL
  BY <1>a DEF Abort, Disconnect, Checkpoints, View, CareInv, WritersStand, Current, Stale
<1>1. Alone'
  BY KeepsAlone DEF CareInv, Active, Ended, FilesInv, TypeOK, Abort, Disconnect,
     Checkpoints, View, Goto, history
<1>2. Committed'
  BY DEF CareInv, Committed, Abort, Disconnect, Checkpoints, View, Goto, history
<1>3. LogEmpty'
  BY DEF CareInv, LogEmpty, NoFrames, Replacing, Abort, Disconnect, Checkpoints,
     View, Goto, history
<1>4. InitsWork'
  <2> SUFFICES ASSUME NEW q \in Proc, command[q] = "init" PROVE InitWorks(q)'
    BY <1>a DEF InitsWork
  <2>1. InitWorks(q)
    BY DEF CareInv, InitsWork
  <2>2. CASE q = p
    <3>1. pc'[p] = "unlink_file"
      BY <1>a, <2>2 DEF FilesInv, TypeOK
    <3>2. file["db"] = p /\ log = p /\ pages[p] = {} /\ frames[p] = {}
      BY <2>1, <2>2 DEF InitWorks
    <3>3. pages'[p] = {} /\ (log' = NULL \/ frames'[log'] = {})
      BY <1>a, <1>b, <3>2 DEF FilesInv, TypeOK
    <3>4. ~ Replacing
      BY <1>a, <2>2 DEF CareInv, Alone, Active, Ended, Replacing, FilesInv, Placed
    <3>5. stored' = {}
      BY <1>a, <3>2, <3>4 DEF CareInv, StoredIsVisible
    <3> QED BY <1>a, <2>2, <3>1, <3>2, <3>3, <3>5 DEF InitWorks, NoFrames
  <2>3. CASE q # p
    <3>1. pc'[q] = pc[q]
      BY <1>a, <2>3 DEF FilesInv, TypeOK
    <3>2. CASE pc[q] \in {"begin", "transaction"}
      <4>1. file["db"] = q /\ conn[q].file = q
        BY <2>1, <3>2 DEF InitWorks
      <4>2. UNCHANGED <<pages, log>>
        BY <1>b, <2>3, <4>1
      <4> QED BY <1>a, <2>1, <2>3, <3>1, <3>2, <4>2 DEF InitWorks, Closed, FilesInv, TypeOK
    <3>3. CASE pc[q] = "unlink_file"
      <4>1. pages'[q] = {} /\ (log' = NULL \/ frames'[log'] = {})
        <5>1. file["db"] = q /\ pages[q] = {} /\ NoFrames
          BY <2>1, <3>3 DEF InitWorks
        <5>2. CASE UNCHANGED <<pages, log>>
          BY <1>a, <5>1, <5>2 DEF NoFrames
        <5>3. CASE Current(p) /\ pages' = [pages EXCEPT ![file["db"]] = @ \cup frames[log]] /\ log' = NULL
          <6>1. log # NULL
            BY <1>a, <5>3 DEF Current
          <6> QED BY <5>1, <5>3, <6>1 DEF NoFrames, FilesInv, TypeOK
        <5> QED BY <1>b, <5>2, <5>3
      <4> QED BY <1>a, <2>1, <3>1, <3>3, <4>1 DEF InitWorks, NoFrames
    <3>4. CASE pc[q] \notin {"begin", "transaction", "unlink_file"}
      BY <1>a, <2>1, <3>1, <3>4 DEF InitWorks
    <3> QED BY <3>2, <3>3, <3>4
  <2> QED BY <2>2, <2>3
<1>5. WritersStand'
  BY DEF CareInv, WritersStand, Current, Stale, View, FilesInv, TypeOK, Placed,
     Holding, Opened, Closed, Path, Inode, Abort, Disconnect, Checkpoints, Goto,
     history
<1>6. StoredIsVisible'
  BY DEF CareInv, StoredIsVisible, Replacing, FilesInv, TypeOK, WritersStand,
     Current, Stale, View, Placed, Holding, Opened, Closed, Path, Inode, Alone,
     Active, Ended, Abort, Disconnect, Checkpoints, Goto, history
<1>7. LogBelongsToFile'
  BY DEF CareInv, LogBelongsToFile, Abort, Disconnect, Checkpoints, View, Goto,
     history
<1> QED BY <1>1, <1>2, <1>3, <1>4, <1>5, <1>6, <1>7 DEF CareInv

LEMMA CommitCare ==
    ASSUME UsedWithCare, FilesInv, FilesInv', CareInv, NEW p \in Proc, Commit(p)
    PROVE  CareInv'
<1> USE DatabaseFileAssumption DEF DatabaseFileAssumption
<1>a. conn[p].file \in Proc /\ conn[p].log \in Proc /\ pc[p] = "transaction" /\ command[p] \in {"init", "write"}
  BY DEF FilesInv, TypeOK, Placed, Holding, Opened, Closed, Commit
<1>b. Current(p)
  <2>1. SUFFICES ASSUME Stale(p) PROVE FALSE
    BY <1>a DEF CareInv, WritersStand
  <2>2. command[p] = "init"
    BY <2>1 DEF Stale, Commit, SchemaFits
  <2>3. file["db"] = p /\ conn[p] = [file |-> p, log |-> p]
    BY <1>a, <2>2 DEF CareInv, InitsWork, InitWorks
  <2> QED BY <2>1, <2>3 DEF Stale
<1>c. \A q \in Proc : command[q] = "restore" => ~ Active(q)
  BY <1>a DEF CareInv, Alone, Active, Ended
<1>d. command[p] = "write" => View(p) # {}
  BY DEF Commit, SchemaFits
<1>e. \A q \in Proc \ {p} : command[q] = "init" =>
          pc[q] \notin {"begin", "transaction", "unlink_file"}
  <2> SUFFICES ASSUME NEW q \in Proc \ {p}, command[q] = "init",
                      pc[q] \in {"begin", "transaction", "unlink_file"}
               PROVE  FALSE
    OBVIOUS
  <2>1. InitWorks(q)
    BY DEF CareInv, InitsWork
  <2>2. command[p] = "write"
    BY <1>a DEF CareInv, Alone, Active, Ended
  <2> QED BY <1>a, <1>b, <1>d, <2>1, <2>2 DEF InitWorks, Current, View, NoFrames
<1>f. \A q \in Proc \ {p} : pc[q] \in {"begin", "transaction", "close"} /\ Stale(q) => conn[q].log # log
  <2> SUFFICES ASSUME NEW q \in Proc \ {p}, pc[q] \in {"begin", "transaction", "close"}, Stale(q), conn[q].log = log
               PROVE  FALSE
    OBVIOUS
  <2>1. frames[log] = {} /\ pages[file["db"]] = {}
    BY <1>a, <1>b DEF Stale, View, Current
  <2>2. View(p) = {}
    BY <1>b, <2>1 DEF View, Current
  <2>3. command[p] = "init"
    BY <1>a, <1>d, <2>2
  <2>4. file["db"] = p /\ log = p /\ conn[q].file = p
    BY <1>a, <2>3 DEF CareInv, InitsWork, InitWorks
  <2> QED BY <2>4 DEF Stale
<1>g. /\ frames' = [frames EXCEPT ![log] = @ \cup {p}]
      /\ log \in Proc /\ file["db"] \in Proc
      /\ stored' = stored \cup {p}
      /\ home' = [home EXCEPT ![p] = file["db"]]
      /\ pc' = [pc EXCEPT ![p] = "close"]
      /\ UNCHANGED <<file, log, pages, conn, command>>
  BY <1>a, <1>b DEF Commit, Goto, Current
<1>h. ~ Replacing /\ ~ Replacing'
  <2>1. \A q \in Proc : pc[q] # "rename"
    BY <1>c DEF FilesInv, Placed, Active, Ended
  <2> QED BY <1>g, <2>1 DEF Replacing, FilesInv, TypeOK
<1>1. Alone'
  BY KeepsAlone DEF CareInv, Active, Ended, FilesInv, TypeOK, Commit, Goto
<1>2. Committed'
  BY DEF CareInv, Committed, FilesInv, TypeOK, Commit, Goto
<1>3. LogEmpty'
  BY <1>g, <1>h DEF LogEmpty
<1>4. InitsWork'
  <2> SUFFICES ASSUME NEW q \in Proc, command'[q] = "init" PROVE InitWorks(q)'
    BY DEF InitsWork
  <2>1. CASE q = p
    BY <1>a, <1>b, <1>g, <2>1 DEF CareInv, InitsWork, InitWorks, FilesInv, TypeOK, Current
  <2>2. CASE q # p
    BY <1>a, <1>e, <1>g, <2>2 DEF CareInv, InitsWork, InitWorks, FilesInv, TypeOK
  <2> QED BY <2>1, <2>2
<1>5. WritersStand'
  <2> SUFFICES ASSUME NEW q \in Proc, pc'[q] \in {"begin", "transaction", "close"}
               PROVE  Current(q)' \/ Stale(q)'
    BY DEF WritersStand
  <2>1. CASE q = p
    BY <1>b, <1>g, <2>1 DEF Current
  <2>2. CASE q # p /\ Current(q)
    BY <1>g, <2>2 DEF Current
  <2>3. CASE q # p /\ Stale(q)
    <3>1. pc[q] \in {"begin", "transaction", "close"}
      BY <1>g, <2>3 DEF FilesInv, TypeOK
    <3>2. conn[q].log # log
      BY <1>f, <2>3, <3>1
    <3> QED BY <1>g, <2>3, <3>2 DEF Stale, View, FilesInv, TypeOK
  <2> QED BY <1>g, <2>1, <2>2, <2>3 DEF CareInv, WritersStand, FilesInv, TypeOK
<1>6. StoredIsVisible'
  BY <1>g, <1>h DEF CareInv, StoredIsVisible, FilesInv, TypeOK
<1>7. LogBelongsToFile'
  BY <1>a, <1>g DEF CareInv, LogBelongsToFile, Committed, FilesInv, TypeOK
<1> QED BY <1>1, <1>2, <1>3, <1>4, <1>5, <1>6, <1>7 DEF CareInv

LEMMA CloseCare ==
    ASSUME UsedWithCare, FilesInv, FilesInv', CareInv, NEW p \in Proc, Close(p)
    PROVE  CareInv'
<1> USE DatabaseFileAssumption DEF DatabaseFileAssumption
<1>1. Alone'
  BY KeepsAlone DEF CareInv, Active, Ended, FilesInv, TypeOK, Close, Disconnect,
     Checkpoints, View, Goto, history
<1>2. Committed'
  BY DEF CareInv, Committed, Close, Disconnect, Checkpoints, View, Goto, history
<1>3. LogEmpty'
  BY DEF CareInv, LogEmpty, NoFrames, Replacing, Close, Disconnect, Checkpoints,
     View, Goto, history
<1>4. InitsWork'
  <2>1. /\ pc[p] = "close" /\ pc' = [pc EXCEPT ![p] = "done"]
        /\ conn' = [conn EXCEPT ![p] = Closed]
        /\ UNCHANGED <<file, frames, command, stored, home>>
        /\ \/ UNCHANGED <<pages, log>>
           \/ /\ file["db"] = conn[p].file /\ log' = NULL
              /\ pages' = [pages EXCEPT ![conn[p].file] = View(p)]
              /\ \A q \in Proc \ {p} : conn[q].file # conn[p].file
    BY DEF Close, Disconnect, Checkpoints, Goto, history
  <2>2. conn[p].file \in Proc /\ conn[p].log \in Proc /\ (Current(p) \/ Stale(p))
    BY <2>1 DEF FilesInv, TypeOK, Holding, Opened, Closed, CareInv, WritersStand
  <2> SUFFICES ASSUME NEW q \in Proc, command'[q] = "init" PROVE InitWorks(q)'
    BY DEF InitsWork
  <2>3. InitWorks(q)
    BY <2>1 DEF CareInv, InitsWork
  <2>4. CASE q = p
    BY <2>1, <2>3, <2>4 DEF InitWorks, FilesInv, TypeOK
  <2>5. CASE q # p
    <3>1. pc'[q] = pc[q] /\ conn'[q] = conn[q]
      BY <2>1, <2>5 DEF FilesInv, TypeOK
    <3>2. CASE pc[q] \in {"begin", "transaction"}
      <4>1. UNCHANGED <<pages, log>>
        BY <2>1, <2>3, <2>5, <3>2 DEF InitWorks
      <4>2. \A o \in Proc : conn'[o].log = q => conn'[o].file = q
        BY <2>1, <2>3, <3>2 DEF InitWorks, Closed, FilesInv, TypeOK
      <4> QED BY <2>1, <2>3, <3>1, <3>2, <4>1, <4>2 DEF InitWorks
    <3>3. CASE pc[q] = "unlink_file"
      <4>1. CASE UNCHANGED <<pages, log>>
        BY <2>1, <2>3, <3>1, <3>3, <4>1 DEF InitWorks, NoFrames
      <4>2. CASE /\ file["db"] = conn[p].file /\ log' = NULL
                 /\ pages' = [pages EXCEPT ![conn[p].file] = View(p)]
        <5>1. conn[p].log = log
          BY <2>2, <4>2 DEF Current, Stale
        <5>2. View(p) = {}
          BY <2>2, <2>3, <3>3, <4>2, <5>1, DatabaseFileAssumption
             DEF View, InitWorks, NoFrames, DatabaseFileAssumption
        <5> QED BY <2>1, <2>2, <2>3, <3>1, <3>3, <4>2, <5>2
                DEF InitWorks, NoFrames, FilesInv, TypeOK
      <4> QED BY <2>1, <4>1, <4>2
    <3> QED BY <2>1, <2>3, <3>1, <3>2, <3>3 DEF InitWorks
  <2> QED BY <2>4, <2>5
<1>5. WritersStand'
  BY DEF CareInv, WritersStand, Current, Stale, View, FilesInv, TypeOK, Placed,
     Holding, Opened, Closed, Path, Inode, Close, Disconnect, Checkpoints, Goto,
     history
<1>6. StoredIsVisible'
  BY DEF CareInv, StoredIsVisible, Replacing, FilesInv, TypeOK, WritersStand,
     Current, Stale, View, Placed, Holding, Opened, Closed, Path, Inode, Alone,
     Active, Ended, Close, Disconnect, Checkpoints, Goto, history
<1>7. LogBelongsToFile'
  BY DEF CareInv, LogBelongsToFile, Close, Disconnect, Checkpoints, View, Goto,
     history
<1> QED BY <1>1, <1>2, <1>3, <1>4, <1>5, <1>6, <1>7 DEF CareInv

LEMMA UnlinkFileCare ==
    ASSUME UsedWithCare, FilesInv, FilesInv', CareInv, NEW p \in Proc, UnlinkFile(p)
    PROVE  CareInv'
<1> USE DatabaseFileAssumption DEF DatabaseFileAssumption
<1>1. Alone'
  BY KeepsAlone DEF CareInv, Active, Ended, FilesInv, TypeOK, UnlinkFile, Goto,
     history
<1>2. Committed'
  BY DEF CareInv, Committed, UnlinkFile, Goto, history
<1>3. LogEmpty'
  BY DEF CareInv, UsedWithCare, UnlinkFile, Goto, disk, history, Location, NoCopy,
     Alone, FilesInv, TypeOK, Placed, Holding, Named, Closed, Opened, Fresh,
     Database, CopyFile, LogEmpty, NoFrames, Replacing, Active, Ended, InitsWork,
     InitWorks, WritersStand, Current, Stale, View, Committed, StoredIsVisible,
     LogBelongsToFile, Path, Inode
<1>4. InitsWork'
  BY DEF CareInv, InitsWork, InitWorks, NoFrames, FilesInv, TypeOK, Placed, Holding,
     Opened, Closed, Path, Inode, UnlinkFile, Goto, history
<1>5. WritersStand'
  BY DEF CareInv, UsedWithCare, UnlinkFile, Goto, disk, history, Location, NoCopy,
     Alone, FilesInv, TypeOK, Placed, Holding, Named, Closed, Opened, Fresh,
     Database, CopyFile, LogEmpty, NoFrames, Replacing, Active, Ended, InitsWork,
     InitWorks, WritersStand, Current, Stale, View, Committed, StoredIsVisible,
     LogBelongsToFile, Path, Inode
<1>6. StoredIsVisible'
  BY DEF CareInv, UsedWithCare, UnlinkFile, Goto, disk, history, Location, NoCopy,
     Alone, FilesInv, TypeOK, Placed, Holding, Named, Closed, Opened, Fresh,
     Database, CopyFile, LogEmpty, NoFrames, Replacing, Active, Ended, InitsWork,
     InitWorks, WritersStand, Current, Stale, View, Committed, StoredIsVisible,
     LogBelongsToFile, Path, Inode
<1>7. LogBelongsToFile'
  BY DEF CareInv, LogBelongsToFile, UnlinkFile, Goto, history
<1> QED BY <1>1, <1>2, <1>3, <1>4, <1>5, <1>6, <1>7 DEF CareInv

LEMMA UnlinkLogCare ==
    ASSUME UsedWithCare, FilesInv, FilesInv', CareInv, NEW p \in Proc, UnlinkLog(p)
    PROVE  CareInv'
<1> USE DatabaseFileAssumption DEF DatabaseFileAssumption
<1>1. Alone'
  BY KeepsAlone DEF CareInv, Active, Ended, FilesInv, TypeOK, UnlinkLog, Goto,
     history
<1>2. Committed'
  BY DEF CareInv, Committed, UnlinkLog, Goto, history
<1>3. LogEmpty'
  BY DEF CareInv, LogEmpty, NoFrames, Replacing, UnlinkLog, Goto, history
<1>4. InitsWork'
  BY DEF CareInv, InitsWork, InitWorks, NoFrames, FilesInv, TypeOK, Placed, Holding,
     Opened, Closed, Path, Inode, UnlinkLog, Goto, history
<1>5. WritersStand'
  BY DEF CareInv, UsedWithCare, UnlinkLog, Goto, disk, history, Location, NoCopy,
     Alone, FilesInv, TypeOK, Placed, Holding, Named, Closed, Opened, Fresh,
     Database, CopyFile, LogEmpty, NoFrames, Replacing, Active, Ended, InitsWork,
     InitWorks, WritersStand, Current, Stale, View, Committed, StoredIsVisible,
     LogBelongsToFile, Path, Inode
<1>6. StoredIsVisible'
  BY DEF CareInv, UsedWithCare, UnlinkLog, Goto, disk, history, Location, NoCopy,
     Alone, FilesInv, TypeOK, Placed, Holding, Named, Closed, Opened, Fresh,
     Database, CopyFile, LogEmpty, NoFrames, Replacing, Active, Ended, InitsWork,
     InitWorks, WritersStand, Current, Stale, View, Committed, StoredIsVisible,
     LogBelongsToFile, Path, Inode
<1>7. LogBelongsToFile'
  BY DEF CareInv, LogBelongsToFile, UnlinkLog, Goto, history
<1> QED BY <1>1, <1>2, <1>3, <1>4, <1>5, <1>6, <1>7 DEF CareInv

LEMMA BackupCheckCare ==
    ASSUME UsedWithCare, FilesInv, FilesInv', CareInv, NEW p \in Proc, BackupCheck(p)
    PROVE  CareInv'
<1> USE DatabaseFileAssumption DEF DatabaseFileAssumption
<1>1. Alone'
  BY KeepsAlone DEF CareInv, Active, Ended, FilesInv, TypeOK, BackupCheck, Connect,
     LogFor, Goto, disk, history
<1>2. Committed'
  BY SMTT(30) DEF CareInv, Committed, FilesInv, TypeOK, BackupCheck, Connect,
     LogFor, Goto, disk, history
<1>3. LogEmpty'
  BY DEF CareInv, LogEmpty, NoFrames, Replacing, FilesInv, TypeOK, UsedWithCare,
     Named, Fresh, Database, CopyFile, Placed, Holding, Opened, Closed, Path, Inode,
     Alone, Active, Ended, BackupCheck, Connect, LogFor, Goto, disk, history
<1>4. InitsWork'
  BY DEF CareInv, InitsWork, InitWorks, NoFrames, FilesInv, TypeOK, UsedWithCare,
     Named, Fresh, Database, CopyFile, Placed, Holding, Opened, Closed, Path, Inode,
     Alone, Active, Ended, BackupCheck, Connect, LogFor, Goto, disk, history
<1>5. WritersStand'
  BY DEF CareInv, WritersStand, Current, Stale, View, FilesInv, TypeOK,
     UsedWithCare, Named, Fresh, Database, CopyFile, Placed, Holding, Opened,
     Closed, Path, Inode, Alone, Active, Ended, BackupCheck, Connect, LogFor, Goto,
     disk, history
<1>6. StoredIsVisible'
  BY DEF CareInv, StoredIsVisible, Replacing, FilesInv, TypeOK, BackupCheck,
     Connect, LogFor, Goto, disk, history
<1>7. LogBelongsToFile'
  BY DEF CareInv, LogBelongsToFile, FilesInv, TypeOK, UsedWithCare, Named, Fresh,
     Database, CopyFile, Placed, Holding, Opened, Closed, Path, Inode, Alone,
     Active, Ended, BackupCheck, Connect, LogFor, Goto, disk, history
<1> QED BY <1>1, <1>2, <1>3, <1>4, <1>5, <1>6, <1>7 DEF CareInv

LEMMA BackupCreateCare ==
    ASSUME UsedWithCare, FilesInv, FilesInv', CareInv, NEW p \in Proc, BackupCreate(p)
    PROVE  CareInv'
<1> USE DatabaseFileAssumption DEF DatabaseFileAssumption
<1>1. Alone'
  BY KeepsAlone DEF CareInv, Active, Ended, FilesInv, TypeOK, BackupCreate, Goto,
     history
<1>2. Committed'
  BY DEF CareInv, Committed, BackupCreate, Goto, history
<1>3. LogEmpty'
  BY DEF CareInv, LogEmpty, NoFrames, Replacing, BackupCreate, Goto, history
<1>4. InitsWork'
  BY DEF CareInv, InitsWork, InitWorks, NoFrames, FilesInv, TypeOK, Placed, Holding,
     Opened, Closed, Path, Inode, BackupCreate, Goto, history
<1>5. WritersStand'
  BY DEF CareInv, WritersStand, Current, Stale, View, FilesInv, TypeOK, Placed,
     Holding, Opened, Closed, Path, Inode, BackupCreate, Goto, history
<1>6. StoredIsVisible'
  BY DEF CareInv, StoredIsVisible, Replacing, BackupCreate, Goto, history
<1>7. LogBelongsToFile'
  BY DEF CareInv, LogBelongsToFile, FilesInv, TypeOK, Placed, Holding, Opened,
     Closed, Path, Inode, BackupCreate, Goto, history
<1> QED BY <1>1, <1>2, <1>3, <1>4, <1>5, <1>6, <1>7 DEF CareInv

LEMMA BackupOpenCopyCare ==
    ASSUME UsedWithCare, FilesInv, FilesInv', CareInv, NEW p \in Proc, BackupOpenCopy(p)
    PROVE  CareInv'
<1> USE DatabaseFileAssumption DEF DatabaseFileAssumption
<1>1. Alone'
  BY KeepsAlone DEF CareInv, Active, Ended, FilesInv, TypeOK, BackupOpenCopy, Goto,
     disk, history
<1>2. Committed'
  BY DEF CareInv, Committed, BackupOpenCopy, Goto, disk, history
<1>3. LogEmpty'
  BY DEF CareInv, LogEmpty, NoFrames, Replacing, BackupOpenCopy, Goto, disk, history
<1>4. InitsWork'
  BY DEF CareInv, InitsWork, InitWorks, NoFrames, BackupOpenCopy, Goto, disk,
     history
<1>5. WritersStand'
  BY DEF CareInv, WritersStand, Current, Stale, View, BackupOpenCopy, Goto, disk,
     history
<1>6. StoredIsVisible'
  BY DEF CareInv, StoredIsVisible, Replacing, BackupOpenCopy, Goto, disk, history
<1>7. LogBelongsToFile'
  BY DEF CareInv, LogBelongsToFile, BackupOpenCopy, Goto, disk, history
<1> QED BY <1>1, <1>2, <1>3, <1>4, <1>5, <1>6, <1>7 DEF CareInv

LEMMA BackupGivesUpCare ==
    ASSUME UsedWithCare, FilesInv, FilesInv', CareInv, NEW p \in Proc, command[p] = "backup",
           pc[p] \in {"check", "create", "open_copy", "copy"}, BackupGivesUp(p)
    PROVE  CareInv'
<1> USE DatabaseFileAssumption DEF DatabaseFileAssumption
<1>1. Alone'
  BY KeepsAlone DEF CareInv, Active, Ended, FilesInv, TypeOK, BackupGivesUp,
     Disconnect, Checkpoints, Goto, history, NoCopy
<1>2. Committed'
  BY DEF CareInv, Committed, BackupGivesUp, Disconnect, Checkpoints, Goto, history,
     NoCopy
<1>3. LogEmpty'
  BY DEF CareInv, LogEmpty, NoFrames, Replacing, BackupGivesUp, Disconnect,
     Checkpoints, Goto, history, NoCopy
<1>4. InitsWork'
  BY DEF CareInv, InitsWork, InitWorks, NoFrames, FilesInv, TypeOK, Path, Inode,
     Closed, BackupGivesUp, Disconnect, Checkpoints, Goto, history, NoCopy
<1>5. WritersStand'
  BY DEF CareInv, WritersStand, Current, Stale, View, BackupGivesUp, Disconnect,
     Checkpoints, Goto, history, NoCopy
<1>6. StoredIsVisible'
  BY DEF CareInv, StoredIsVisible, Replacing, BackupGivesUp, Disconnect,
     Checkpoints, Goto, history, NoCopy
<1>7. LogBelongsToFile'
  BY DEF CareInv, LogBelongsToFile, BackupGivesUp, Disconnect, Checkpoints, Goto,
     history, NoCopy
<1> QED BY <1>1, <1>2, <1>3, <1>4, <1>5, <1>6, <1>7 DEF CareInv

LEMMA BackupRestartsCare ==
    ASSUME UsedWithCare, FilesInv, FilesInv', CareInv, NEW p \in Proc, BackupRestarts(p)
    PROVE  CareInv'
<1> USE DatabaseFileAssumption DEF DatabaseFileAssumption
<1>1. Alone'
  BY KeepsAlone DEF CareInv, Active, Ended, FilesInv, TypeOK, BackupRestarts,
     CopyAgain, disk, history
<1>2. Committed'
  BY DEF CareInv, Committed, BackupRestarts, CopyAgain, disk, history
<1>3. LogEmpty'
  BY DEF CareInv, LogEmpty, NoFrames, Replacing, BackupRestarts, CopyAgain, disk,
     history
<1>4. InitsWork'
  BY DEF CareInv, InitsWork, InitWorks, NoFrames, BackupRestarts, CopyAgain, disk,
     history
<1>5. WritersStand'
  BY DEF CareInv, WritersStand, Current, Stale, View, BackupRestarts, CopyAgain,
     disk, history
<1>6. StoredIsVisible'
  BY DEF CareInv, StoredIsVisible, Replacing, BackupRestarts, CopyAgain, disk,
     history
<1>7. LogBelongsToFile'
  BY DEF CareInv, LogBelongsToFile, BackupRestarts, CopyAgain, disk, history
<1> QED BY <1>1, <1>2, <1>3, <1>4, <1>5, <1>6, <1>7 DEF CareInv

LEMMA BackupDoneCare ==
    ASSUME UsedWithCare, FilesInv, FilesInv', CareInv, NEW p \in Proc, BackupDone(p)
    PROVE  CareInv'
<1> USE DatabaseFileAssumption DEF DatabaseFileAssumption
<1>1. Alone'
  BY KeepsAlone DEF CareInv, Active, Ended, FilesInv, TypeOK, BackupDone, Goto,
     history, NoCopy
<1>2. Committed'
  BY DEF CareInv, Committed, BackupDone, Goto, history, NoCopy
<1>3. LogEmpty'
  BY DEF CareInv, LogEmpty, NoFrames, Replacing, BackupDone, Goto, history, NoCopy
<1>4. InitsWork'
  BY DEF CareInv, InitsWork, InitWorks, NoFrames, FilesInv, TypeOK, UsedWithCare,
     Named, Fresh, Database, CopyFile, Placed, Holding, Opened, Closed, Path, Inode,
     Alone, Active, Ended, BackupDone, Goto, history, NoCopy
<1>5. WritersStand'
  BY DEF CareInv, WritersStand, Current, Stale, View, FilesInv, TypeOK,
     UsedWithCare, Named, Fresh, Database, CopyFile, Placed, Holding, Opened,
     Closed, Path, Inode, Alone, Active, Ended, BackupDone, Goto, history, NoCopy
<1>6. StoredIsVisible'
  BY DEF CareInv, StoredIsVisible, Replacing, FilesInv, TypeOK, UsedWithCare, Named,
     Fresh, Database, CopyFile, Placed, Holding, Opened, Closed, Path, Inode, Alone,
     Active, Ended, BackupDone, Goto, history, NoCopy
<1>7. LogBelongsToFile'
  BY DEF CareInv, LogBelongsToFile, BackupDone, Goto, history, NoCopy
<1> QED BY <1>1, <1>2, <1>3, <1>4, <1>5, <1>6, <1>7 DEF CareInv

LEMMA UnlinkOutputCare ==
    ASSUME UsedWithCare, FilesInv, FilesInv', CareInv, NEW p \in Proc, UnlinkOutput(p)
    PROVE  CareInv'
<1> USE DatabaseFileAssumption DEF DatabaseFileAssumption
<1>1. Alone'
  BY KeepsAlone DEF CareInv, Active, Ended, FilesInv, TypeOK, UnlinkOutput, Goto,
     history
<1>2. Committed'
  BY DEF CareInv, Committed, UnlinkOutput, Goto, history
<1>3. LogEmpty'
  BY DEF CareInv, LogEmpty, NoFrames, Replacing, FilesInv, TypeOK, UsedWithCare,
     Named, Fresh, Database, CopyFile, Placed, Holding, Opened, Closed, Path, Inode,
     Alone, Active, Ended, UnlinkOutput, Goto, history
<1>4. InitsWork'
  BY DEF CareInv, InitsWork, InitWorks, NoFrames, FilesInv, TypeOK, UsedWithCare,
     Named, Fresh, Database, CopyFile, Placed, Holding, Opened, Closed, Path, Inode,
     Alone, Active, Ended, UnlinkOutput, Goto, history
<1>5. WritersStand'
  BY DEF CareInv, WritersStand, Current, Stale, View, FilesInv, TypeOK,
     UsedWithCare, Named, Fresh, Database, CopyFile, Placed, Holding, Opened,
     Closed, Path, Inode, Alone, Active, Ended, UnlinkOutput, Goto, history
<1>6. StoredIsVisible'
  BY DEF CareInv, StoredIsVisible, Replacing, FilesInv, TypeOK, UsedWithCare, Named,
     Fresh, Database, CopyFile, Placed, Holding, Opened, Closed, Path, Inode, Alone,
     Active, Ended, UnlinkOutput, Goto, history
<1>7. LogBelongsToFile'
  BY DEF CareInv, LogBelongsToFile, UnlinkOutput, Goto, history
<1> QED BY <1>1, <1>2, <1>3, <1>4, <1>5, <1>6, <1>7 DEF CareInv

LEMMA RestoreStageCare ==
    ASSUME UsedWithCare, FilesInv, FilesInv', CareInv, NEW p \in Proc, RestoreStage(p)
    PROVE  CareInv'
<1> USE DatabaseFileAssumption DEF DatabaseFileAssumption
<1>1. Alone'
  BY KeepsAlone DEF CareInv, Active, Ended, FilesInv, TypeOK, RestoreStage, Healthy,
     Goto
<1>2. Committed'
  BY DEF CareInv, Committed, RestoreStage, Healthy, Goto
<1>3. LogEmpty'
  BY DEF CareInv, LogEmpty, NoFrames, Replacing, RestoreStage, Healthy, Goto
<1>4. InitsWork'
  BY DEF CareInv, InitsWork, InitWorks, NoFrames, RestoreStage, Healthy, Goto
<1>5. WritersStand'
  BY DEF CareInv, WritersStand, Current, Stale, View, FilesInv, TypeOK,
     UsedWithCare, Named, Fresh, Database, CopyFile, Placed, Holding, Opened,
     Closed, Path, Inode, Alone, Active, Ended, RestoreStage, Healthy, Goto
<1>6. StoredIsVisible'
  BY DEF CareInv, StoredIsVisible, Replacing, FilesInv, TypeOK, UsedWithCare, Named,
     Fresh, Database, CopyFile, Placed, Holding, Opened, Closed, Path, Inode, Alone,
     Active, Ended, RestoreStage, Healthy, Goto
<1>7. LogBelongsToFile'
  <2>1. \A l \in Proc : p \notin frames[l]
    BY DEF CareInv, Committed, RestoreStage
  <2> QED BY <2>1 DEF CareInv, LogBelongsToFile, RestoreStage, FilesInv, TypeOK, Inode
<1> QED BY <1>1, <1>2, <1>3, <1>4, <1>5, <1>6, <1>7 DEF CareInv

LEMMA RestoreRefusedCare ==
    ASSUME UsedWithCare, FilesInv, FilesInv', CareInv, NEW p \in Proc, RestoreRefused(p)
    PROVE  CareInv'
<1> USE DatabaseFileAssumption DEF DatabaseFileAssumption
<1>1. Alone'
  BY KeepsAlone DEF CareInv, Active, Ended, FilesInv, TypeOK, RestoreRefused, Goto,
     disk, history
<1>2. Committed'
  BY DEF CareInv, Committed, RestoreRefused, Goto, disk, history
<1>3. LogEmpty'
  BY DEF CareInv, LogEmpty, NoFrames, Replacing, RestoreRefused, Goto, disk, history
<1>4. InitsWork'
  BY DEF CareInv, InitsWork, InitWorks, NoFrames, FilesInv, TypeOK, Placed, Holding,
     Opened, Closed, Path, Inode, RestoreRefused, Goto, disk, history
<1>5. WritersStand'
  BY DEF CareInv, WritersStand, Current, Stale, View, RestoreRefused, Goto, disk,
     history
<1>6. StoredIsVisible'
  BY DEF CareInv, StoredIsVisible, Replacing, RestoreRefused, Goto, disk, history
<1>7. LogBelongsToFile'
  BY DEF CareInv, LogBelongsToFile, RestoreRefused, Goto, disk, history
<1> QED BY <1>1, <1>2, <1>3, <1>4, <1>5, <1>6, <1>7 DEF CareInv

LEMMA RestoreUnlinksLogCare ==
    ASSUME UsedWithCare, FilesInv, FilesInv', CareInv, NEW p \in Proc, RestoreUnlinksLog(p)
    PROVE  CareInv'
<1> USE DatabaseFileAssumption DEF DatabaseFileAssumption
<1>a. \A q \in Proc \ {p} : command[q] \in {"init", "write", "restore"} => ~ Active(q)
  BY DEF CareInv, Alone, RestoreUnlinksLog, FilesInv, Placed, Active, Ended
<1>1. Alone'
  BY KeepsAlone DEF CareInv, Active, Ended, FilesInv, TypeOK, RestoreUnlinksLog,
     Goto, history
<1>2. Committed'
  BY DEF CareInv, Committed, RestoreUnlinksLog, Goto, history
<1>3. LogEmpty'
  BY DEF CareInv, LogEmpty, NoFrames, Replacing, RestoreUnlinksLog, Goto, history
<1>4. InitsWork'
  <2> SUFFICES ASSUME NEW q \in Proc, command[q] = "init" PROVE InitWorks(q)'
    BY DEF InitsWork, RestoreUnlinksLog
  <2>1. InitWorks(q) /\ q # p /\ pc'[q] = pc[q]
    BY DEF CareInv, InitsWork, RestoreUnlinksLog, Goto, FilesInv, TypeOK, Placed
  <2>2. pc[q] \in Ended \cup {"idle"}
    BY <1>a, <2>1 DEF Active
  <2> QED BY <2>1, <2>2 DEF InitWorks, RestoreUnlinksLog, Ended, FilesInv, TypeOK, Path, history
<1>5. WritersStand'
  <2>1. \A q \in Proc : pc'[q] \notin {"begin", "transaction", "close"}
    BY <1>a DEF RestoreUnlinksLog, Goto, FilesInv, TypeOK, Placed, Active, Ended
  <2> QED BY <2>1 DEF WritersStand
<1>6. StoredIsVisible'
  BY DEF CareInv, StoredIsVisible, Replacing, FilesInv, TypeOK, RestoreUnlinksLog,
     Goto, history
<1>7. LogBelongsToFile'
  BY DEF CareInv, LogBelongsToFile, RestoreUnlinksLog, Goto, history
<1> QED BY <1>1, <1>2, <1>3, <1>4, <1>5, <1>6, <1>7 DEF CareInv

LEMMA RestoreRenameCare ==
    ASSUME UsedWithCare, FilesInv, FilesInv', CareInv, NEW p \in Proc, RestoreRename(p)
    PROVE  CareInv'
<1> USE DatabaseFileAssumption DEF DatabaseFileAssumption
<1>a. \A q \in Proc \ {p} : command[q] \in {"init", "write", "restore"} => ~ Active(q)
  BY DEF CareInv, Alone, RestoreRename, FilesInv, Placed, Active, Ended
<1>1. Alone'
  BY KeepsAlone DEF CareInv, Active, Ended, FilesInv, TypeOK, RestoreRename, Goto
<1>2. Committed'
  BY DEF CareInv, Committed, RestoreRename, Goto
<1>3. LogEmpty'
  BY DEF CareInv, LogEmpty, NoFrames, Replacing, RestoreRename, Goto
<1>4. InitsWork'
  <2> SUFFICES ASSUME NEW q \in Proc, command[q] = "init" PROVE InitWorks(q)'
    BY DEF InitsWork, RestoreRename
  <2>1. InitWorks(q) /\ q # p /\ pc'[q] = pc[q]
    BY DEF CareInv, InitsWork, RestoreRename, Goto, FilesInv, TypeOK, Placed
  <2>2. pc[q] \in Ended \cup {"idle"}
    BY <1>a, <2>1 DEF Active
  <2> QED BY <2>1, <2>2 DEF InitWorks, RestoreRename, Ended, FilesInv, TypeOK, Path, history
<1>5. WritersStand'
  <2>1. \A q \in Proc : pc'[q] \notin {"begin", "transaction", "close"}
    BY <1>a DEF RestoreRename, Goto, FilesInv, TypeOK, Placed, Active, Ended
  <2> QED BY <2>1 DEF WritersStand
<1>6. StoredIsVisible'
  BY DEF CareInv, StoredIsVisible, Replacing, FilesInv, TypeOK, RestoreRename, Goto
<1>7. LogBelongsToFile'
  BY DEF CareInv, UsedWithCare, RestoreRename, Goto, disk, history, Location,
     NoCopy, Alone, FilesInv, TypeOK, Placed, Holding, Named, Closed, Opened, Fresh,
     Database, CopyFile, LogEmpty, NoFrames, Replacing, Active, Ended, InitsWork,
     InitWorks, WritersStand, Current, Stale, View, Committed, StoredIsVisible,
     LogBelongsToFile, Path, Inode
<1> QED BY <1>1, <1>2, <1>3, <1>4, <1>5, <1>6, <1>7 DEF CareInv

LEMMA RestoreFailsCare ==
    ASSUME UsedWithCare, FilesInv, FilesInv', CareInv, NEW p \in Proc, RestoreFails(p)
    PROVE  CareInv'
<1> USE DatabaseFileAssumption DEF DatabaseFileAssumption
<1>1. Alone'
  BY KeepsAlone DEF CareInv, Active, Ended, FilesInv, TypeOK, RestoreFails, Goto,
     disk, history
<1>2. Committed'
  BY DEF CareInv, Committed, RestoreFails, Goto, disk, history
<1>3. LogEmpty'
  BY DEF CareInv, LogEmpty, NoFrames, Replacing, RestoreFails, Goto, disk, history
<1>4. InitsWork'
  BY DEF CareInv, InitsWork, InitWorks, NoFrames, FilesInv, TypeOK, Placed, Holding,
     Opened, Closed, Path, Inode, RestoreFails, Goto, disk, history
<1>5. WritersStand'
  BY DEF CareInv, WritersStand, Current, Stale, View, RestoreFails, Goto, disk,
     history
<1>6. StoredIsVisible'
  BY DEF CareInv, StoredIsVisible, Replacing, RestoreFails, Goto, disk, history
<1>7. LogBelongsToFile'
  BY DEF CareInv, LogBelongsToFile, RestoreFails, Goto, disk, history
<1> QED BY <1>1, <1>2, <1>3, <1>4, <1>5, <1>6, <1>7 DEF CareInv

LEMMA CrashCare ==
    ASSUME UsedWithCare, FilesInv, FilesInv', CareInv, NEW p \in Proc, Crash(p)
    PROVE  CareInv'
<1> USE DatabaseFileAssumption DEF DatabaseFileAssumption
<1>1. Alone'
  BY KeepsAlone DEF CareInv, Active, Ended, FilesInv, TypeOK, Crash, Goto, disk,
     history, NoCopy
<1>2. Committed'
  BY DEF CareInv, Committed, Crash, Goto, disk, history, NoCopy, Active, Ended
<1>3. LogEmpty'
  BY DEF CareInv, LogEmpty, NoFrames, Replacing, Crash, Goto, disk, history, NoCopy,
     Active, Ended
<1>4. InitsWork'
  BY DEF CareInv, InitsWork, InitWorks, NoFrames, FilesInv, TypeOK, Path, Inode,
     Closed, Crash, Goto, disk, history, NoCopy, Active, Ended
<1>5. WritersStand'
  BY DEF CareInv, WritersStand, Current, Stale, View, FilesInv, TypeOK, Path, Inode,
     Closed, Crash, Goto, disk, history, NoCopy, Active, Ended
<1>6. StoredIsVisible'
  BY DEF CareInv, StoredIsVisible, Replacing, FilesInv, TypeOK, UsedWithCare, Named,
     Fresh, Database, CopyFile, Placed, Holding, Opened, Closed, Path, Inode, Alone,
     Active, Ended, Crash, Goto, disk, history, NoCopy
<1>7. LogBelongsToFile'
  BY DEF CareInv, LogBelongsToFile, Crash, Goto, disk, history, NoCopy, Active,
     Ended
<1> QED BY <1>1, <1>2, <1>3, <1>4, <1>5, <1>6, <1>7 DEF CareInv

LEMMA NextCare ==
    ASSUME UsedWithCare, FilesInv, CareInv, [Next]_vars
    PROVE  CareInv'
<1>0. FilesInv'
  BY NextFiles
<1>1. CASE UNCHANGED vars
  BY <1>1 DEF CareInv, Alone, Active, Committed, LogEmpty, NoFrames, Replacing, InitsWork,
     InitWorks, WritersStand, Current, Stale, View, StoredIsVisible, LogBelongsToFile, vars
<1>2. ASSUME NEW p \in Proc, NEW k \in Command, Start(p, k) PROVE CareInv'
  BY <1>0, <1>2, StartCare
<1>3. ASSUME NEW p \in Proc, Work(p) PROVE CareInv'
  <2>1. CASE InitCheck(p) \/ InitCreate(p) \/ OpenExisting(p) \/ OpenNothing(p) \/ Begin(p)
    BY <1>0, <2>1, InitCheckCare, InitCreateCare, OpenExistingCare, OpenNothingCare, BeginCare
  <2>2. CASE Busy(p) \/ SchemaError(p)
    BY <1>0, <2>2, AbortCare DEF Busy, SchemaError
  <2>3. CASE Commit(p) \/ Close(p) \/ UnlinkFile(p) \/ UnlinkLog(p)
    BY <1>0, <2>3, CommitCare, CloseCare, UnlinkFileCare, UnlinkLogCare
  <2>4. CASE BackupCheck(p) \/ BackupCreate(p) \/ BackupOpenCopy(p) \/ BackupRestarts(p)
    BY <1>0, <2>4, BackupCheckCare, BackupCreateCare, BackupOpenCopyCare, BackupRestartsCare
  <2>5. CASE OutputConflict(p)
    BY <1>0, <2>5, BackupGivesUpCare DEF OutputConflict, FilesInv, Placed
  <2>6. CASE BackupDone(p) \/ UnlinkOutput(p)
    BY <1>0, <2>6, BackupDoneCare, UnlinkOutputCare
  <2>7. CASE \/ RestoreStage(p) \/ RestoreRefused(p) \/ RestoreUnlinksLog(p)
             \/ RestoreRename(p)
    BY <1>0, <2>7, RestoreStageCare, RestoreRefusedCare, RestoreUnlinksLogCare,
       RestoreRenameCare
  <2> QED BY <1>3, <2>1, <2>2, <2>3, <2>4, <2>5, <2>6, <2>7 DEF Work
<1>4. ASSUME NEW p \in Proc, Failure(p) PROVE CareInv'
  BY <1>0, <1>4, InitOpenFailsCare, AbortCare, BackupGivesUpCare, RestoreFailsCare
     DEF Failure, StatementFails, BackupFails
<1>5. ASSUME NEW p \in Proc, Crash(p) PROVE CareInv'
  BY <1>0, <1>5, CrashCare
<1> QED BY <1>1, <1>2, <1>3, <1>4, <1>5 DEF Next


LEMMA Careful ==
    ASSUME UsedWithCare
    PROVE  Spec => [](FilesInv /\ CareInv)
<1>1. Init => FilesInv /\ CareInv
  BY InitFiles, InitCare
<1>2. FilesInv /\ CareInv /\ [Next]_vars => (FilesInv /\ CareInv)'
  BY NextFiles, NextCare
<1> QED BY <1>1, <1>2, PTL DEF Spec

(* What a command has reported as stored stays readable, through the       *)
(* failures, the crashes, the checkpoints and the unlinking of files of    *)
(* any number of other commands, until a restore replaces it.              *)
THEOREM StoredStays ==
    ASSUME UsedWithCare
    PROVE  Spec => []StoredIsVisible
<1>1. CareInv => StoredIsVisible
  BY DEF CareInv
<1> QED BY <1>1, Careful, PTL

(* SQLite never finds a log of another file beside the database.           *)
THEOREM LogBelongs ==
    ASSUME UsedWithCare
    PROVE  Spec => []LogBelongsToFile
<1>1. CareInv => LogBelongsToFile
  BY DEF CareInv
<1> QED BY <1>1, Careful, PTL

(* A db init that ends with its own file at the path has committed to it:  *)
(* one that fails after the open leaves none behind.                       *)
THEOREM FailedInitClean ==
    ASSUME UsedWithCare
    PROVE  Spec => []FailedInitLeavesNothing
<1>1. CareInv => FailedInitLeavesNothing
  BY DEF CareInv, InitsWork, InitWorks, FailedInitLeavesNothing
<1> QED BY <1>1, Careful, PTL
=============================================================================
