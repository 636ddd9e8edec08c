------------------------------- MODULE Codec --------------------------------
(***************************************************************************)
(* The record codec on bytes (logfile/log_entry.go Encode and Decode) and *)
(* DBFile.Read (logfile/log_file.go) over a file given as its byte        *)
(* sequence.  LogEntry abstracts every byte string to one model value;    *)
(* here a key, value or extra is a sequence of bytes and a file is the    *)
(* concatenation of what was written to it.                                *)
(***************************************************************************)
EXTENDS Naturals, Sequences, SequencesExt

\* 3 x uint32 sizes + 2 x uint16 (Mark, Type)
entryHeaderSize == 16

\* binary.BigEndian.PutUint32 / PutUint16: x as n bytes, most significant first
PutUint(x, n) == [i \in 1..n |-> (x \div (256 ^ (n - i))) % 256]

\* binary.BigEndian.Uint32 / Uint16
Uint(bs) == FoldLeft(LAMBDA acc, b : acc * 256 + b, 0, bs)

\* Entry.GetSize
GetSize(e) == entryHeaderSize + Len(e.key) + Len(e.value) + Len(e.extra)

(* Entry.Encode: the header, then key, value and extra.  The value is     *)
(* copied into everything after the key and the extra copied over its     *)
(* tail, which comes to the same bytes.                                    *)
Encode(e) ==
    PutUint(Len(e.key), 4) \o PutUint(Len(e.value), 4) \o PutUint(Len(e.extra), 4)
    \o PutUint(e.mark, 2) \o PutUint(e.type, 2) \o e.key \o e.value \o e.extra

\* fault: the value and extra sizes are read from each other's place
DecodeSwapped(buf) ==
    [keySize   |-> Uint(SubSeq(buf, 1, 4)),
     valueSize |-> Uint(SubSeq(buf, 9, 12)),
     extraSize |-> Uint(SubSeq(buf, 5, 8)),
     mark      |-> Uint(SubSeq(buf, 13, 14)),
     type      |-> Uint(SubSeq(buf, 15, 16))]

\* Decode: the header fields only
Decode(buf) ==
    [keySize   |-> Uint(SubSeq(buf, 1, 4)),
     valueSize |-> Uint(SubSeq(buf, 5, 8)),
     extraSize |-> Uint(SubSeq(buf, 9, 12)),
     mark      |-> Uint(SubSeq(buf, 13, 14)),
     type      |-> Uint(SubSeq(buf, 15, 16))]

(* DBFile.Read(offset): <<entry>>, or <<>> when a ReadAt returns io.EOF.   *)
(* ReadAt of n bytes at o fails when o + n passes the end of the file; a  *)
(* field of size 0 is not read and stays nil.                              *)
Read(file, off) ==
    LET h    == Decode(SubSeq(file, off + 1, off + entryHeaderSize))
        kOff == off + entryHeaderSize
        vOff == kOff + h.keySize
        xOff == vOff + h.valueSize
        Fits(o, n)  == n = 0 \/ o + n <= Len(file)
        Field(o, n) == SubSeq(file, o + 1, o + n)
    IN  IF off + entryHeaderSize > Len(file) THEN <<>>
        ELSE IF Fits(kOff, h.keySize) /\ Fits(vOff, h.valueSize) /\ Fits(xOff, h.extraSize)
             THEN <<[key |-> Field(kOff, h.keySize), value |-> Field(vOff, h.valueSize),
                     extra |-> Field(xOff, h.extraSize), mark |-> h.mark, type |-> h.type]>>
        ELSE <<>>

(* The loop of loadIdxFromFiles over one file: Read from offset 0 and     *)
(* advance by GetSize until io.EOF.  Every step advances by at least      *)
(* entryHeaderSize, so offsets past Len(file) end the scan.               *)
ScanBytes(file) ==
    LET last == Len(file) + 1
        scan[off \in 0..last] ==
            IF off = last THEN <<>>
            ELSE LET r == Read(file, off)
                 IN  IF r = <<>> THEN <<>>
                     ELSE <<r[1]>> \o scan[Min({off + GetSize(r[1]), last})]
    IN  scan[0]
=============================================================================
