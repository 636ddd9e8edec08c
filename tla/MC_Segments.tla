---------------------------- MODULE MC_Segments -----------------------------
(***************************************************************************)
(* The segment manager alone: any of a few entries of different sizes is *)
(* stored, and the process may restart between any two stores.           *)
(***************************************************************************)
EXTENDS Segments, TLC

CONSTANTS k1, v1, f1

\* Hash entries of sizes 19, 18 and 17 and a sorted-set entry of size 19:
\* with DefaultBlockSize 36 two of them fit a file only when one is short.
SampleEntries ==
    { NewEntry(k1, v1, f1, Hash, HashHSet),
      NewEntry(k1, Empty, f1, Hash, HashHDel),
      NewEntryNoExtra(k1, Empty, Hash, HashHClear),
      NewEntry(k1, v1, 1, ZSet, ZSetZAdd) }

Init == SegInit

Next == \/ \E e \in SampleEntries : Store(e)
        \/ Reopen

Spec == Init /\ [][Next]_segVars

TypeOK == SegTypeOK(SampleEntries)

(* Every entry whose store returned nil is replayed by the next Open, in  *)
(* the order it was stored, and nothing else is: rotation, the id chosen  *)
(* for the new file, Build's choice of active file and the Offset a       *)
(* reopened file starts at together decide this.                           *)
ReplayIsHistory == \A t \in DataTypes : Recovered(disk, t) = hist[t]

(* Under write failures, interrupted writes and failed rotations, a fault *)
(* never damages what was acknowledged before it: the entries whose store  *)
(* returned nil before the first write fault of a family are replayed,    *)
(* in order, ahead of anything else, by every later Open.  The hole a     *)
(* failed WriteAt leaves (Offset += size runs anyway), the torn tail a    *)
(* crash leaves (newInternal starts at stat.Size()) and a rotation whose   *)
(* NewDBFile failed must all sit after those entries.                      *)
AckedBeforeFaultReplayed ==
    \A t \in DataTypes :
        LET n == IF firstFault[t] = 0 THEN Len(hist[t]) ELSE firstFault[t] - 1
        IN  IsPrefix(SubSeq(hist[t], 1, n), Recovered(disk, t))

-----------------------------------------------------------------------------
(***************************************************************************)
(* Beneath the extents above: the bytes.  Codec gives Encode, Decode and   *)
(* DBFile.Read on a file as its byte sequence; every file of at most two   *)
(* of the entries below, cut anywhere, is scanned here.                    *)
(***************************************************************************)
Bytes == INSTANCE Codec

\* keys of 0..2 bytes, values and extras of 0..1 bytes, and the largest
\* data type and operation codes next to 0
ByteEntries ==
    [key : {<<>>, <<1>>, <<0, 1>>}, value : {<<>>, <<7>>}, extra : {<<>>, <<2>>},
     mark : {0, 4}, type : {0, 2}]

\* the bytes of a file the entries ws were written to, one WriteAt after another
FileOf(ws) == FlattenSeq([i \in DOMAIN ws |-> Bytes!Encode(ws[i])])

\* every sample file, cut anywhere, scans as the entries written whole: a
\* constant, which TLC computes once
ByteScansWhole ==
    \A ws \in BoundedSeq(ByteEntries, 2) :
        \A c \in 0..Len(FileOf(ws)) :
            Bytes!ScanBytes(SubSeq(FileOf(ws), 1, c)) =
                SubSeq(ws, 1, Max({i \in 0..Len(ws) : Len(FileOf(SubSeq(ws, 1, i))) <= c}))

(* spec.md 4.1 and 4.3: the scan of a file reads back every entry written *)
(* to it, in order and unchanged (Encode, Decode and the field reads of   *)
(* DBFile.Read agree on sizes, order and byte order), and a file cut      *)
(* anywhere, as a crash during the last write leaves it, reads back the   *)
(* entries that were written whole and nothing of the torn one.  This is  *)
(* what Recovered, the extent-level scan, takes for granted whenever the  *)
(* running process has replayed its files.                                 *)
ScanReadsWholeEntries == up => ByteScansWhole
=============================================================================
