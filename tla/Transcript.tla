---------------------------- MODULE Transcript ----------------------------
(***************************************************************************)
(* The encrypted log of one session, TranscriptWriter in                   *)
(* haven-daemon/src/history.rs, with every step of append and truncate     *)
(* that can fail failing at any time.  Both the transcript and the         *)
(* activity log are one; the session's mutex makes an append one step.     *)
(*                                                                         *)
(* A chunk is its number and its length.  What the file at `path` holds is *)
(* the chunks read_all_chunks decrypts from it, the length in bytes, and   *)
(* where its end is for the reader.  An append that fails half way leaves  *)
(* a chunk that claims the first bytes of the next ones: the reader skips  *)
(* them together, and is in step again only if they end where a chunk      *)
(* ends.  Otherwise it takes a length from the middle of a ciphertext and  *)
(* reads nothing after that (that such a length should lead back to a      *)
(* chunk, or half a length prefix to a sensible one, is left out).         *)
(***************************************************************************)
EXTENDS Naturals, Sequences

CONSTANTS Lengths,     \* plaintext lengths that are appended
          Prefix,      \* LEN_PREFIX
          Overhead,    \* LEN_PREFIX + NONCE_SIZE + TAG_SIZE
          MaxSize,     \* MAX_TRANSCRIPT_SIZE
          MaxAppends,  \* bound: appends in a run
          OutOfStep    \* the reader has lost the chunk boundaries

ASSUME BoundsAssumption ==
  /\ Lengths \subseteq Nat \ {0} /\ Lengths # {}
  /\ Prefix \in Nat /\ Overhead \in Nat \ {0} /\ MaxSize \in Nat /\ MaxAppends \in Nat

VARIABLES
  chunks,         \* what a reader gets from the file at path
  gap,            \* bytes a torn chunk at the end still claims, or OutOfStep
  size,           \* length of the file at path
  orphaned,       \* self.file is no longer the file at path
  bytes_written,  \* TranscriptWriter.bytes_written
  appended,       \* chunks handed to append
  result,         \* of the last append
  faulty          \* ghost: an operation on a file has failed

vars == <<chunks, gap, size, orphaned, bytes_written, appended, result, faulty>>

Chunk == [id : Nat, len : Lengths]

TypeOK ==
  /\ chunks \in Seq(Chunk)
  /\ size \in Nat /\ bytes_written \in Nat /\ appended \in 0..MaxAppends
  /\ gap \in Nat \cup {OutOfStep}
  /\ orphaned \in BOOLEAN /\ faulty \in BOOLEAN
  /\ result \in {"none", "ok", "failed"}

(* A session's directory is new: there is no file yet.                     *)
Init ==
  /\ chunks = <<>> /\ size = 0 /\ bytes_written = 0 /\ appended = 0
  /\ gap = 0 /\ orphaned = FALSE /\ faulty = FALSE
  /\ result = "none"

-----------------------------------------------------------------------------
Log == INSTANCE TailLog WITH kept <- chunks, added <- appended

Bytes(s) == Log!Bytes(s)

From(s, i) == Log!From(s, i)

FileSize(s) == Bytes(s) + Overhead * Len(s)

StartsTooLate(s) ==   \* Faulty: the loop stops one chunk early
  {i \in 1..Len(s) : Bytes(From(s, i)) < Bytes(s) \div 2}

(* Where the kept half begins: the loop of truncate adds chunks up from    *)
(* the end until half the plaintext is reached.                            *)
Starts(s) ==
  LET enough(i) == Bytes(From(s, i)) >= Bytes(s) \div 2
  IN {i \in 1..Len(s) : enough(i) /\ \A j \in i+1..Len(s) : ~enough(j)}

(* The file at path once the chunk has been written to self.file, and what *)
(* bytes_written comes to.                                                 *)
Recorded(len) ==
  IF gap = 0 /\ ~orphaned THEN Append(chunks, [id |-> appended + 1, len |-> len])
                          ELSE chunks

(* The end of the file when bytes of a new chunk follow a torn one.        *)
GapAfter(bytes) ==
  IF gap = OutOfStep \/ orphaned THEN gap
  ELSE IF bytes > gap THEN OutOfStep ELSE gap - bytes

(* The end of the file when the new chunk is torn itself.                  *)
TornGap(len, part) ==
  IF gap # 0 \/ orphaned \/ part = 0 THEN GapAfter(part)
  ELSE IF part < Prefix THEN OutOfStep ELSE Overhead + len - part

RecordedSize(len) == IF orphaned THEN size ELSE size + Overhead + len

Counted(len) == bytes_written + Overhead + len

Takes(len) == appended < MaxAppends /\ appended' = appended + 1

Returns(r) == result' = r /\ faulty' = (faulty \/ r = "failed")

Untouched(len) ==
  /\ chunks' = Recorded(len) /\ size' = RecordedSize(len)
  /\ gap' = IF gap = 0 THEN 0 ELSE GapAfter(Overhead + len)
  /\ UNCHANGED orphaned

-----------------------------------------------------------------------------
(* One of the three writes fails, after `part` bytes of the chunk.         *)
WriteFailsCounting(len, counted) ==
  /\ Takes(len)
  /\ \E part \in 0..(Overhead + len - 1) :
       /\ gap' = TornGap(len, part)
       /\ size' = IF orphaned THEN size ELSE size + part
  /\ bytes_written' = counted
  /\ Returns("failed")
  /\ UNCHANGED <<chunks, orphaned>>

WriteFailsUndone(len) ==                                           \* Faulty
  WriteFailsCounting(len, bytes_written - Overhead - len)
WriteFails(len) == WriteFailsCounting(len, bytes_written)

AppendFits(len) ==
  /\ Takes(len)
  /\ Counted(len) <= MaxSize
  /\ Untouched(len) /\ bytes_written' = Counted(len)
  /\ Returns("ok")

-----------------------------------------------------------------------------
(* The log is too large: truncate, whose first step finds nothing to keep, *)
(* or cannot open the file, which it takes for an empty one.               *)
TruncateFindsNothing(len) ==
  /\ Takes(len)
  /\ Counted(len) > MaxSize
  /\ Untouched(len) /\ bytes_written' = Counted(len)
  /\ result' = "ok" /\ faulty' = (faulty \/ Recorded(len) # <<>>)

(* Reading the file or writing the temporary one fails.                    *)
RewriteFails(len) ==
  /\ Takes(len)
  /\ Counted(len) > MaxSize
  /\ Untouched(len) /\ bytes_written' = Counted(len)
  /\ Returns("failed")

(* The temporary file is complete and counted, but does not replace the    *)
(* other.                                                                  *)
RenameFails(len) ==
  /\ Takes(len)
  /\ Counted(len) > MaxSize
  /\ \E i \in Starts(Recorded(len)) : bytes_written' = FileSize(From(Recorded(len), i))
  /\ Untouched(len)
  /\ Returns("failed")

(* The temporary file replaces the log.                                    *)
Replaces(len) ==
  /\ Takes(len)
  /\ Counted(len) > MaxSize
  /\ \E i \in Starts(Recorded(len)) : chunks' = From(Recorded(len), i)
  /\ size' = FileSize(chunks') /\ bytes_written' = FileSize(chunks')
  /\ gap' = 0

ReopenFails(len) == Replaces(len) /\ orphaned' = TRUE /\ Returns("failed")

TruncatesWithoutReopen(len) ==    \* Faulty
  Replaces(len) /\ orphaned' = TRUE /\ Returns("ok")
Truncates(len) == Replaces(len) /\ orphaned' = FALSE /\ Returns("ok")

-----------------------------------------------------------------------------
AppendChunk(len) ==
  \/ WriteFails(len) \/ AppendFits(len) \/ TruncateFindsNothing(len)
  \/ RewriteFails(len) \/ RenameFails(len) \/ ReopenFails(len) \/ Truncates(len)

Next == \E len \in Lengths : AppendChunk(len)

Spec == Init /\ [][Next]_vars

-----------------------------------------------------------------------------
(* history.rs:94-96, 453: the log is one that forgets only its oldest      *)
(* chunks, and never more than half of its bytes at a time.                *)
TailLogSpec == Log!Spec

(* history.rs:185-236: whatever has failed, chunks are read in the order   *)
(* they were appended and none is read twice.                              *)
InOrder ==
  /\ \A i \in DOMAIN chunks : chunks[i].id \in 1..appended
  /\ \A i, j \in DOMAIN chunks : i < j => chunks[i].id < chunks[j].id

(* history.rs:205-212: while no operation fails, the readable chunks are   *)
(* the newest ones without a gap, bytes_written is the size of the file,   *)
(* and the file is within its limit when append returns.                   *)
Whole ==
  ~faulty =>
    /\ \A i \in DOMAIN chunks : chunks[i].id = appended - Len(chunks) + i
    /\ appended > 0 => chunks # <<>>
    /\ bytes_written = size /\ size <= MaxSize
=============================================================================
