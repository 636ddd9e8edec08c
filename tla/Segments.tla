------------------------------ MODULE Segments ------------------------------
(***************************************************************************)
(* The segment manager: one active data file and a set of archived files  *)
(* per data type, the append path OpenDB.store with its rotation and      *)
(* DBFile.Write, and what Open rebuilds from the directory (logfile.Build *)
(* and NewDBFile).  Files and their scan are in DBFile.                    *)
(***************************************************************************)
EXTENDS DBFile

CONSTANTS
    MaxAppends, \* bound: records appended over a whole behaviour
    Faults,     \* the I/O failures a behaviour may meet, a subset of
                \* {"write", "open", "crash"}
    TearAt,     \* the byte counts a failed or interrupted WriteAt may have written
    MaxFaults   \* bound: failed stores over a whole behaviour

ASSUME MaxAppends \in Nat /\ Faults \subseteq {"write", "open", "crash"}
ASSUME TearAt \subseteq 0..(entryHeaderSize + 1) /\ MaxFaults \in Nat

VARIABLES
    disk,       \* disk[t][id]: the extents written to file id of type t, or NoFile
    active,     \* active[t]: the *DBFile in db.activeFile, [id, off]
    archFiles,  \* archFiles[t]: ids of db.archFiles[t]
    hist,       \* history: hist[t] is every entry whose store returned nil
    up,         \* the process is running (FALSE from a crash until Open)
    storeErr,   \* history: the store of the last step returned an error
    firstFault, \* history: firstFault[t] = n > 0 when the n-th entry acked
                \* for t came after the first write fault of family t, else 0
    faults      \* history: the number of stores that failed so far

segVars == <<disk, active, archFiles, hist, up, storeErr, firstFault, faults>>

\* fault: the file is opened without taking its size as the write offset
NewDBFileAtZero(t, id) == [id |-> id, off |-> 0]

\* fault: the write offset of a reopened file is one short of its size
NewDBFileOffByOne(t, id) ==
    [id |-> id, off |-> IF disk[t][id] = NoFile THEN 0 ELSE FileSize(disk[t][id]) - 1]

(* newInternal: open (creating if absent) and start at the file's size.   *)
NewDBFile(t, id) ==
    [id |-> id, off |-> IF disk[t][id] = NoFile THEN 0 ELSE FileSize(disk[t][id])]

-----------------------------------------------------------------------------
(* Directory (Build).                                                      *)

OnDisk(t) == FilesOf(disk, t)

\* fault: Build takes the smallest id of a type as its active file
BuildActiveIdLowest(t) == IF OnDisk(t) = {} THEN 0 ELSE Min(OnDisk(t))

\* Build: the largest id of a type is its active file, 0 if there is none
BuildActiveId(t) == IF OnDisk(t) = {} THEN 0 ELSE Max(OnDisk(t))

\* the type of the segment state when every stored entry is in Entries
SegTypeOK(Entries) ==
    /\ disk \in [DataTypes -> [FileIds -> Seq([off : Nat, rec : Entries, len : Nat]) \cup {NoFile}]]
    /\ active \in [DataTypes -> [id : FileIds, off : Nat]]
    /\ archFiles \in [DataTypes -> SUBSET FileIds]
    /\ hist \in [DataTypes -> Seq(Entries)]
    /\ up \in BOOLEAN /\ storeErr \in BOOLEAN
    /\ firstFault \in [DataTypes -> 0..(MaxAppends + 1)]
    /\ faults \in 0..MaxFaults

TotalAppends == FoldFunction(LAMBDA s, n : Len(s) + n, 0, hist)

-----------------------------------------------------------------------------
(* Operations.                                                             *)

(* Open on an empty directory: Build finds no file, NewDBFile creates file *)
(* 0 of every type, loadIdxFromFiles reads nothing.                        *)
SegInit ==
    /\ disk = [t \in DataTypes |-> [id \in FileIds |-> IF id = 0 THEN <<>> ELSE NoFile]]
    /\ active = [t \in DataTypes |-> [id |-> 0, off |-> 0]]
    /\ archFiles = [t \in DataTypes |-> {}]
    /\ hist = [t \in DataTypes |-> <<>>]
    /\ up = TRUE
    /\ storeErr = FALSE
    /\ firstFault = [t \in DataTypes |-> 0]
    /\ faults = 0

(* The size check of store(e): e does not fit the active file of e.Mark. *)
Rotates(e) == active[e.mark].off + GetSize(e) > DefaultBlockSize

\* fault: rotation reopens the active file's own id instead of id + 1
TargetSameId(e) ==
    IF Rotates(e) THEN NewDBFile(e.mark, active[e.mark].id) ELSE active[e.mark]

(* The *DBFile that store(e) writes to: NewDBFile(id+1) after rotation.   *)
Target(e) ==
    IF Rotates(e) THEN NewDBFile(e.mark, active[e.mark].id + 1) ELSE active[e.mark]

(* db.archFiles[e.Mark][activeFileId] = activeFile, done before NewDBFile *)
Archive(e) ==
    archFiles' = IF Rotates(e)
                 THEN [archFiles EXCEPT ![e.mark] = @ \cup {active[e.mark].id}]
                 ELSE archFiles

(* WriteAt of the first n bytes of e's encoding at f.Offset, in the file  *)
(* NewDBFile opened (and created when absent).                            *)
WriteBytes(e, f, n) ==
    disk' = [disk EXCEPT ![e.mark][f.id] =
                LET old == IF @ = NoFile THEN <<>> ELSE @
                IN  IF n = 0 THEN old
                    ELSE Append(old, [off |-> f.off, rec |-> e, len |-> n])]

\* a store has failed
CountFault == /\ faults < MaxFaults
              /\ faults' = faults + 1

\* a write of family t has failed: later acknowledged entries may be lost
MarkFault(t) ==
    firstFault' = [firstFault EXCEPT ![t] = IF @ = 0 THEN Len(hist[t]) + 1 ELSE @]

(* OpenDB.store(e) followed by DBFile.Write: pick the active file of type *)
(* e.Mark, rotate to id+1 when the entry would pass DefaultBlockSize, then *)
(* WriteAt(enc, Offset) and Offset += size.  Each way it can end is an     *)
(* alternative; the failing ones exist only for the Faults of the model:  *)
(*  - all bytes written: activeFile.Store, return nil;                    *)
(*  - WriteAt returns an error after n bytes: Offset += size still runs   *)
(*    on the *DBFile, which is the one in activeFile unless it was just   *)
(*    opened by a rotation (that one is dropped); return the error;        *)
(*  - NewDBFile fails after the old file was archived; return the error;  *)
(*  - the process dies after n bytes of WriteAt.                          *)
Store(e) ==
    LET t == e.mark
        f == Target(e)
    IN  /\ up
        /\ t \in DataTypes
        /\ TotalAppends < MaxAppends
        /\ Rotates(e) => active[t].id < MaxFileId
        /\ \/ /\ Archive(e)
              /\ WriteBytes(e, f, GetSize(e))
              /\ active' = [active EXCEPT ![t] = [id |-> f.id, off |-> f.off + GetSize(e)]]
              /\ hist' = [hist EXCEPT ![t] = Append(@, e)]
              /\ storeErr' = FALSE
              /\ UNCHANGED <<up, firstFault, faults>>
           \/ /\ "write" \in Faults
              /\ \E n \in TearAt : n < GetSize(e) /\ WriteBytes(e, f, n)
              /\ Archive(e)
              /\ active' = IF Rotates(e) THEN active
                           ELSE [active EXCEPT ![t].off = @ + GetSize(e)]
              /\ storeErr' = TRUE
              /\ CountFault
              /\ MarkFault(t)
              /\ UNCHANGED <<hist, up>>
           \/ /\ "open" \in Faults
              /\ Rotates(e)
              /\ Archive(e)
              /\ storeErr' = TRUE
              /\ CountFault
              /\ UNCHANGED <<disk, active, hist, up, firstFault>>
           \/ /\ "crash" \in Faults
              /\ \E n \in TearAt : n < GetSize(e) /\ WriteBytes(e, f, n)
              /\ up' = FALSE
              /\ storeErr' = TRUE
              /\ CountFault
              /\ MarkFault(t)
              /\ UNCHANGED <<active, archFiles, hist>>

(* The process stops (there is no Close) and Open runs again: Build lists *)
(* the files, the largest id of each type becomes active with Offset at   *)
(* its size, the rest are archived.  Nothing in memory survives.  After  *)
(* a crash this is the restart.                                            *)
Reopen ==
    /\ disk' = [t \in DataTypes |->
                   IF OnDisk(t) = {} THEN [disk[t] EXCEPT ![0] = <<>>] ELSE disk[t]]
    /\ active' = [t \in DataTypes |-> NewDBFile(t, BuildActiveId(t))]
    /\ archFiles' = [t \in DataTypes |-> OnDisk(t) \ {BuildActiveId(t)}]
    /\ up' = TRUE
    /\ storeErr' = FALSE
    /\ UNCHANGED <<hist, firstFault, faults>>
=============================================================================
