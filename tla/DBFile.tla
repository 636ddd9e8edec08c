------------------------------- MODULE DBFile -------------------------------
(***************************************************************************)
(* A data file as the sequence of WriteAt calls made on it, each an       *)
(* extent [off, rec, len]: len of the GetSize(rec) encoded bytes of rec   *)
(* reached the file at off (all of them, unless the write failed or the   *)
(* process died during it).  What DBFile.Read and the scan of             *)
(* loadIdxFromFiles decode from it (logfile/log_file.go, opendb.go).      *)
(* The byte at p belongs to the last extent covering it, so what a scan   *)
(* decodes stays exact even when two writes land on the same bytes.       *)
(* A directory d maps a data type and a file id to a file, or NoFile.     *)
(***************************************************************************)
EXTENDS LogEntry, Naturals, Sequences, SequencesExt, FiniteSetsExt

CONSTANTS
    DefaultBlockSize,   \* Options.DefaultBlockSize, the rotation threshold
    MaxFileId,          \* bound: largest file id a rotation may create
    NoFile,             \* the file id does not exist in the directory
    Junk                \* a key, value or extra read from bytes its entry's write never wrote

ASSUME DefaultBlockSize \in Nat /\ MaxFileId \in Nat

FileIds == 0..MaxFileId

Span(x) == x.off .. (x.off + x.len - 1)

\* os.Stat(file).Size()
FileSize(file) ==
    IF file = <<>> THEN 0
    ELSE Max({x.off + x.len : x \in Range(file)})

\* index of the extent that wrote byte p last, 0 for a hole
Writer(file, p) ==
    LET ws == {i \in DOMAIN file : p \in Span(file[i])}
    IN  IF ws = {} THEN 0 ELSE Max(ws)

Overwritten(file, i) ==
    \E j \in DOMAIN file : j > i /\ Span(file[i]) \cap Span(file[j]) # {}

(* The entry Read decodes from extent x when x's header bytes are intact: *)
(* a key, value or extra that lies past the bytes x wrote is read from     *)
(* whatever bytes follow.                                                  *)
Decoded(x) ==
    LET r    == x.rec
        kEnd == entryHeaderSize + ByteLen(r.key)
        vEnd == kEnd + ByteLen(r.value)
        xEnd == vEnd + ByteLen(r.extra)
        Field(b, end) == IF b = Empty \/ end <= x.len THEN b ELSE Junk
    IN  [r EXCEPT !.key = Field(r.key, kEnd), !.value = Field(r.value, vEnd),
                  !.extra = Field(r.extra, xEnd)]

(* DBFile.Read(offset): <<entry>>, or <<>> when a ReadAt returns io.EOF.   *)
(* The header is read, then key, value and extra: any of them past the    *)
(* end of the file is io.EOF.  Header bytes that are all zero (a hole)    *)
(* decode to ZeroEntry.  Header bytes that are not the intact header of   *)
(* the extent starting at off decode to arbitrary sizes; of the outcomes   *)
(* that can have, the model keeps the one where the declared body runs    *)
(* past the end of the file, i.e. io.EOF.                                  *)
Read(file, off) ==
    LET w == Writer(file, off)
    IN  IF off + entryHeaderSize > FileSize(file) THEN <<>>
        ELSE IF w # 0 /\ file[w].off = off /\ ~Overwritten(file, w)
                /\ file[w].len >= entryHeaderSize
             THEN IF off + GetSize(file[w].rec) > FileSize(file) THEN <<>>
                  ELSE <<Decoded(file[w])>>
        ELSE IF \A p \in off .. (off + entryHeaderSize - 1) : Writer(file, p) = 0
             THEN <<ZeroEntry>>
        ELSE <<>>

(* The inner loop of loadIdxFromFiles over one file: read from offset 0,  *)
(* advance by GetSize, stop at io.EOF or once the offset passes           *)
(* DefaultBlockSize.                                                       *)
ScanFile(file) ==
    LET past == DefaultBlockSize + 1
        scan[off \in 0..past] ==
            IF off = past THEN <<>>
            ELSE LET r == Read(file, off)
                 IN  IF r = <<>> THEN <<>>
                     ELSE <<r[1]>> \o scan[Min({off + GetSize(r[1]), past})]
    IN  scan[0]

-----------------------------------------------------------------------------
(* Replay order (loadIdxFromFiles).                                        *)

\* the ids of type t present in directory d (d is disk, or disk after a step)
FilesOf(d, t) == {id \in FileIds : d[t][id] # NoFile}

\* loadIdxFromFiles: the files of one type in sort.Ints order, each scanned
\* from offset 0; the entries in the order they are handed to buildIndex.
Replay(d, t, ids) ==
    LET order == SelectSeq([i \in 1..(MaxFileId + 1) |-> i - 1], LAMBDA id : id \in ids)
    IN  FlattenSeq([i \in DOMAIN order |-> ScanFile(d[t][order[i]])])

\* what an Open of directory d would replay for type t
Recovered(d, t) == Replay(d, t, FilesOf(d, t))
=============================================================================
