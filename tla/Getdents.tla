------------------------------- MODULE Getdents -------------------------------
(***************************************************************************)
(* modified_getdents64 of LKM/fsprotection.c: the hook that takes hidden   *)
(* files out of a directory listing.  The real system call fills the       *)
(* caller's buffer, the hook copies it, closes the gaps record by record   *)
(* and copies it back.  A program lists a directory by calling until the   *)
(* result is 0; the hide rules may change between any two records.         *)
(*                                                                         *)
(* A buffer is a sequence of cells.  A record fills as many cells as its   *)
(* d_reclen says and is described in the first one.                        *)
(***************************************************************************)
EXTENDS Integers, Sequences, SequencesExt

CONSTANTS
  Dir,        \* the directory, a sequence of [ino, len]
  Count,      \* cells in the caller's buffer
  Short,      \* values of d_reclen, an unsigned short (2^16)
  Word,       \* values of an unsigned int (2^32)
  KmallocMax, \* the most kmalloc ever gives
  EINVAL

Inos == {Dir[i].ino : i \in DOMAIN Dir}

ASSUME GetdentsAssumption ==
  /\ Dir \in Seq([ino : Nat, len : 1 .. Short - 1])
  /\ Short \in Nat /\ Word \in Nat /\ Count \in Nat /\ KmallocMax \in Nat
  /\ EINVAL \in 1 .. Word \div 2 /\ Count <= KmallocMax
  /\ KmallocMax < Word - EINVAL
  /\ \A i \in DOMAIN Dir : Dir[i].len <= Count

VARIABLES
  hidden,     \* inode numbers under a hide rule
  pos,        \* records the file system has handed out to this listing
  pc,
  result,     \* what the last call returned, as the caller sees it
  dirp,       \* the caller's buffer
  dirp2,      \* the copy of it that the hook works on
  dirp3,      \* offset of the record under test
  head, prev, \* offsets; prev is -1 while it is NULL
  buf_length, modified_buf_length,
  \* history, read by no guard
  shown,      \* the records the program has met
  kept,       \* the records this call has judged visible
  always, never, \* inode numbers hidden all through, at no time of the listing
  mishaps

locals  == <<dirp2, dirp3, head, prev, buf_length, modified_buf_length, kept>>
listing == <<pos, result, dirp, shown, mishaps>>
vars    == <<hidden, pc, locals, listing, always, never>>

-----------------------------------------------------------------------------
\* A cell where no record starts: the inside of a record, or zeroes.
NoRecord == [i |-> 0, len |-> 0]
RecordCells(i) ==
  <<[i |-> i, len |-> Dir[i].len]>> \o [c \in 1 .. Dir[i].len - 1 |-> NoRecord]
Cells(first, last) == FlattenSeq([n \in 1 .. last - first + 1 |-> RecordCells(first + n - 1)])

\* The program steps from record to record by d_reclen.
Walk(buffer) ==
  LET from[o \in 0 .. Len(buffer)] ==
        IF o = Len(buffer) THEN <<>>
        ELSE LET r == buffer[o + 1] IN
             IF r.i = 0 THEN <<>>
             ELSE <<r.i>> \o IF r.len = 0 \/ o + r.len > Len(buffer) THEN <<>>
                             ELSE from[o + r.len]
  IN from[0]

\* A long made from an unsigned int of the same width.
Signed(n) == IF n >= Word \div 2 THEN n - Word ELSE n

\* The call returns n, and the program looks at that much of its buffer.
ReturnWith(n, buffer, bad) ==
  /\ result' = Signed(n)
  /\ dirp' = buffer
  /\ pc' = IF Signed(n) <= 0 THEN "over" ELSE "idle"
  /\ shown' = IF Signed(n) <= 0 THEN shown ELSE shown \o Walk(SubSeq(buffer, 1, n))
  /\ mishaps' = mishaps \cup bad
  /\ UNCHANGED pos

-----------------------------------------------------------------------------
\* origin_getdents64: the next few records, as many as fit ...
OriginGetdents(last) ==
  /\ pc = "idle"
  /\ last \in pos + 1 .. Len(Dir)
  /\ Len(Cells(pos + 1, last)) <= Count
  /\ dirp' = Cells(pos + 1, last)
  /\ buf_length' = Len(dirp')
  /\ pos' = last
  /\ pc' = "alloc"
  /\ UNCHANGED <<hidden, dirp2, dirp3, head, prev, modified_buf_length, kept,
                 result, shown, mishaps, always, never>>

\* ... or an error, stored in an unsigned int: buf_length <= 0 is false.
OriginFails ==
  /\ pc = "idle"
  /\ buf_length' = (-EINVAL) % Word
  /\ dirp' = <<>>
  /\ pc' = "alloc"
  /\ UNCHANGED <<hidden, dirp2, dirp3, head, prev, modified_buf_length, kept,
                 pos, result, shown, mishaps, always, never>>

\* ... or 0, the end of the directory, which is returned at once.
OriginEnds ==
  /\ pc = "idle"
  /\ pos = Len(Dir)
  /\ buf_length' = 0
  /\ ReturnWith(0, dirp, {})
  /\ UNCHANGED <<hidden, dirp2, dirp3, head, prev, modified_buf_length, kept, always,
                 never>>

\* Without memory the call returns what the file system said, unfiltered.
AllocFails ==
  /\ pc = "alloc"
  /\ ReturnWith(buf_length, dirp, IF Signed(buf_length) > 0 THEN {"unfiltered"} ELSE {})
  /\ UNCHANGED <<hidden, locals, always, never>>

\* copy_from_user fails: the same, and dirp2 is not freed.
CopyInFails ==
  /\ pc = "alloc" /\ buf_length <= KmallocMax
  /\ ReturnWith(buf_length, dirp, {"unfiltered"})
  /\ UNCHANGED <<hidden, locals, always, never>>

CopyIn ==
  /\ pc = "alloc" /\ buf_length <= KmallocMax
  /\ dirp2' = dirp
  /\ dirp3' = 0 /\ head' = 0 /\ prev' = -1
  /\ modified_buf_length' = buf_length
  /\ kept' = {}
  /\ pc' = "scan"
  /\ UNCHANGED <<hidden, buf_length, listing, always, never>>

Here == dirp2[dirp3 + 1]
\* Zeroes read as inode number 0.
HereIno == IF Here.i = 0 THEN 0 ELSE Dir[Here.i].ino
Scanning == pc = "scan" /\ dirp3 < buf_length /\ Here.len # 0

\* A "Slip" is a mistake that could be made in the definition below it; only
\* the experiments with the properties use it.

\* Slip: the loop stays on the record.
SameRecord(offset, record_length) == offset
NextRecord(offset, record_length) == offset + record_length

\* A visible record is what the next hidden one is merged into.
Keep ==
  /\ Scanning /\ HereIno \notin hidden
  /\ prev' = dirp3
  /\ kept' = kept \cup {Here.i}
  /\ dirp3' = NextRecord(dirp3, Here.len)
  /\ UNCHANGED <<hidden, pc, dirp2, head, buf_length, modified_buf_length, listing,
                 always, never>>

\* A hidden record in front of every visible one is cut off the front.
CutHead ==
  /\ Scanning /\ HereIno \in hidden /\ prev = -1
  /\ head' = dirp3 + Here.len
  /\ modified_buf_length' = modified_buf_length - Here.len
  /\ dirp3' = NextRecord(dirp3, Here.len)
  /\ UNCHANGED <<hidden, pc, dirp2, prev, buf_length, kept, listing, always, never>>

\* Slip: no memset.
Untouched(buffer, offset, record_length) == buffer
Zeroed(buffer, offset, record_length) ==
  [c \in DOMAIN buffer |->
     IF c \in offset + 1 .. offset + record_length THEN NoRecord ELSE buffer[c]]

Narrow(sum) == sum % Short

\* Any other one is added to the length of the visible record before it, an
\* unsigned short, and zeroed.
Merge ==
  LET sum == dirp2[prev + 1].len + Here.len IN
  /\ Scanning /\ HereIno \in hidden /\ prev # -1
  /\ dirp2' = [Zeroed(dirp2, dirp3, Here.len) EXCEPT ![prev + 1].len = Narrow(sum)]
  /\ dirp3' = NextRecord(dirp3, Here.len)
  /\ mishaps' = mishaps \cup IF sum >= Short THEN {"wrapped"} ELSE {}
  /\ UNCHANGED <<hidden, pc, head, prev, buf_length, modified_buf_length, kept, pos,
                 result, dirp, shown, always, never>>

\* Slip: the copy starts at the front of dirp2.
FromFront(offset) == 0
FromHead(offset) == offset
Remaining(m) == SubSeq(dirp2, FromHead(head) + 1, FromHead(head) + m)

\* copy_to_user copies the first m bytes; that it fell short goes unnoticed.
CopyOut(m) ==
  /\ pc = "scan" /\ ~Scanning
  /\ m \in 0 .. modified_buf_length
  /\ ReturnWith(modified_buf_length,
                Remaining(m) \o SubSeq(dirp, m + 1, Len(dirp)),
                (IF m < modified_buf_length THEN {"unfiltered"} ELSE {})
                  \cup IF modified_buf_length = 0 /\ pos < Len(Dir)
                       THEN {"swallowed"} ELSE {})
  /\ UNCHANGED <<hidden, locals, always, never>>

\* Someone else changes the rules.
ChangeRules ==
  /\ hidden' \in SUBSET Inos
  /\ always' = always \cap hidden'
  /\ never' = never \ hidden'
  /\ UNCHANGED <<pc, locals, listing>>

\* The program starts over.
Rewind ==
  /\ pc = "over"
  /\ pc' = "idle"
  /\ pos' = 0 /\ shown' = <<>> /\ mishaps' = {}
  /\ always' = hidden /\ never' = Inos \ hidden
  /\ UNCHANGED <<hidden, locals, result, dirp>>

Step ==
  \/ AllocFails \/ CopyInFails \/ CopyIn
  \/ Keep \/ CutHead \/ Merge
  \/ \E m \in 0 .. Count : CopyOut(m)

CallGetdents ==
  OriginEnds \/ OriginFails \/ \E last \in 1 .. Len(Dir) : OriginGetdents(last)

Init ==
  /\ hidden = {} /\ always = {} /\ never = Inos
  /\ pos = 0 /\ pc = "idle" /\ result = 0
  /\ dirp = <<>> /\ dirp2 = <<>> /\ dirp3 = 0
  /\ head = 0 /\ prev = -1
  /\ buf_length = 0 /\ modified_buf_length = 0
  /\ shown = <<>> /\ kept = {} /\ mishaps = {}

Next == CallGetdents \/ Step \/ ChangeRules \/ Rewind

\* A task inside a system call is run; the rules may change for ever.
Spec == Init /\ [][Next]_vars /\ WF_vars(Step)

-----------------------------------------------------------------------------
Cell == [i : 0 .. Len(Dir), len : 0 .. Short - 1]

\* Every variable has its type.
TypeOK ==
  /\ hidden \subseteq Inos /\ always \subseteq hidden /\ never \subseteq Inos \ hidden
  /\ pos \in 0 .. Len(Dir)
  /\ pc \in {"idle", "alloc", "scan", "over"}
  /\ result \in Int
  /\ dirp \in Seq(Cell) /\ dirp2 \in Seq(Cell)
  /\ buf_length \in 0 .. Word - 1 /\ modified_buf_length \in 0 .. Count
  /\ dirp3 \in 0 .. Count /\ head \in 0 .. Count /\ prev \in -1 .. Count
  /\ shown \in Seq(1 .. Len(Dir)) /\ kept \subseteq 1 .. Len(Dir)
  /\ mishaps \subseteq {"unfiltered", "wrapped", "swallowed"}

Ascending(s) == \A m, n \in DOMAIN s : m < n => s[m] < s[n]

\* When the scan is through, walking what is left of the buffer by d_reclen
\* meets exactly the records judged visible, in their order, unless a length
\* wrapped; nothing is left exactly when none was; and no length or cursor ever
\* leaves its range.
FilterExact ==
  /\ TypeOK
  /\ pc = "scan" /\ ~Scanning =>
       /\ "wrapped" \notin mishaps =>
            LET met == Walk(Remaining(modified_buf_length)) IN
            ToSet(met) = kept /\ Ascending(met)
       /\ modified_buf_length = 0 <=> kept = {}

\* A file that stays hidden all through a listing is never met in it, even when
\* a length wraps, unless some call gave up filtering.
ListingHonest ==
  "unfiltered" \notin mishaps =>
    \A n \in DOMAIN shown : Dir[shown[n]].ino \notin always

\* A listing that runs to its end with no mishap meets every file that was at no
\* time hidden, and nothing twice.
ListingComplete ==
  pc = "over" /\ result = 0 /\ mishaps = {} =>
    /\ \A i \in DOMAIN Dir : Dir[i].ino \in never => \E n \in DOMAIN shown : shown[n] = i
    /\ Ascending(shown)

\* A call returns, however the rules change under it.
CallEnds == pc = "alloc" ~> pc \in {"idle", "over"}

\* "return when error" (fsprotection.c:175): the hook asks for no memory after
\* the real call has failed.
NoAllocOnError == pc = "alloc" => Signed(buf_length) > 0
=============================================================================
