-------------------------------- MODULE File --------------------------------
(***************************************************************************)
(* The bytes of a regular file: File::WriteAndReply, FileTruncate and      *)
(* ReadAndReply on the buffer m_buf, the copy constructor that checkpoint  *)
(* and restore use, and Pickle and Load.  The buffer is always a whole     *)
(* number of blocks; what lies past st_size in it, or in memory fresh from *)
(* realloc and malloc, is garbage: any bytes.                              *)
(***************************************************************************)
EXTENDS Integers, Sequences

CONSTANTS
  BlockSize,   \* BufBlockSize
  Blocks,      \* the blocks this file may have: f_bfree at first
  Byte, Zero, NoCopy, Data, Offset, Size   \* see FileSpec

FileRecord == [m_buf : Seq(Byte), st_size : Nat, st_blocks : Nat]
StoredRecord == [file : FileRecord, f_bfree : Nat]

ASSUME BlockAssumption == BlockSize \in Nat \ {0} /\ Blocks \in Nat
ASSUME ByteAssumption == Zero \in Byte
\* A write carries at least one byte: the kernel sends no empty ones.
ASSUME InputAssumption ==
  /\ Data \subseteq Seq(Byte) \ {<<>>}
  /\ Offset \subseteq Nat /\ Size \subseteq Nat
ASSUME NoCopyAssumption ==
  /\ NoCopy \notin Seq(Byte) /\ NoCopy \notin StoredRecord
  /\ NoCopy \notin [file : FileRecord, f_bfree : Nat, stored : StoredRecord \cup {NoCopy}]
  /\ NoCopy \notin [contents : Seq(Byte), saved : Seq(Byte) \cup {NoCopy}]

VARIABLES
  file,     \* the File object: m_buf, st_size, st_blocks
  f_bfree,  \* free blocks
  stored,   \* the copy a checkpoint holds, with the f_bfree stored beside it
  image,    \* the state file: the pickled file, checkpoint and f_bfree
  reply     \* to the last request

vars == <<file, f_bfree, stored, image, reply>>

-----------------------------------------------------------------------------
get_nblocks(size) == (size + BlockSize - 1) \div BlockSize

CheckHasSpaceFor(incSize) ==
  LET more == get_nblocks(file.st_size + incSize) - file.st_blocks
  IN  incSize <= 0 \/ more <= 0 \/ f_bfree >= more

\* buf with room for size bytes; the new ones are whatever junk holds.
Realloc(buf, size, junk) ==
  [k \in 1..size |-> IF k <= Len(buf) THEN buf[k] ELSE junk[k]]

\* What the buffer may hold after realloc(buf, size).
Reallocs(buf, size) ==
  {Realloc(buf, size, junk) : junk \in [(Len(buf) + 1)..size -> Byte]}

\* memset of the bytes [from, to) to zero, and memmove of data to off.
Zeroed(buf, from, to) ==
  [k \in 1..Len(buf) |-> IF from < k /\ k <= to THEN Zero ELSE buf[k]]
Moved(buf, off, data) ==
  [k \in 1..Len(buf) |->
     IF off < k /\ k <= off + Len(data) THEN data[k - off] ELSE buf[k]]

Capacity == BlockSize * file.st_blocks

Init ==
  /\ file = [m_buf |-> <<>>, st_size |-> 0, st_blocks |-> 0]
  /\ f_bfree = Blocks /\ stored = NoCopy /\ image = NoCopy /\ reply = "OK"

Fail(errno) == reply' = errno /\ UNCHANGED <<file, f_bfree, stored, image>>

-----------------------------------------------------------------------------
\* Fault: the hole that the write leaves behind the old end is not cleared.
WrittenHole(buf, off, data) == Moved(buf, off, data)
Written(buf, off, data) ==
  Moved(IF off > file.st_size THEN Zeroed(buf, file.st_size, off) ELSE buf, off, data)

\* The write goes into buf, which has grown if newSize is past the capacity.
StoreData(buf, off, data) ==
  LET newSize == off + Len(data)
      newBlocks == get_nblocks(newSize)
      grown == newSize > file.st_size
  IN  /\ file' = [m_buf |-> Written(buf, off, data),
                  st_size |-> IF grown THEN newSize ELSE file.st_size,
                  st_blocks |-> IF grown THEN newBlocks ELSE file.st_blocks]
      /\ f_bfree' = IF newSize > Capacity
                    THEN f_bfree - (newBlocks - file.st_blocks) ELSE f_bfree
      /\ reply' = "OK" /\ UNCHANGED <<stored, image>>

WriteAndReply(off, data) ==
  LET newSize == off + Len(data)
  IN  \/ newSize <= Capacity /\ StoreData(file.m_buf, off, data)
      \/ /\ newSize > Capacity
         /\ IF ~CheckHasSpaceFor(newSize - file.st_size) THEN Fail("ENOSPC")
            ELSE \/ Fail("NoBytes")
                 \/ \E buf \in Reallocs(file.m_buf, BlockSize * get_nblocks(newSize)) :
                      StoreData(buf, off, data)

\* The buffers a truncation may end up with; it clears what the file gains.
TruncatedBufs(newSize) ==
  LET newBlocks == get_nblocks(newSize)
      bufs == IF newBlocks = file.st_blocks THEN {file.m_buf}
              ELSE Reallocs(file.m_buf, BlockSize * newBlocks)
  IN  {IF newSize > file.st_size THEN Zeroed(buf, file.st_size, newSize) ELSE buf :
         buf \in bufs}

\* Fault: only a truncation that grows the file changes the free blocks.
ChargeGrowth(newBlocks) ==
  IF newBlocks > file.st_blocks THEN newBlocks - file.st_blocks ELSE 0
Charge(newBlocks) == newBlocks - file.st_blocks

\* -ENOSPC reaches the client as ERANGE; see FuseRamFs.
FileTruncate(newSize) ==
  LET newBlocks == get_nblocks(newSize)
  IN  IF ~CheckHasSpaceFor(newSize - file.st_size) THEN Fail("ERANGE")
      ELSE \/ newBlocks \notin {0, file.st_blocks} /\ Fail("EINVAL")
           \/ /\ \E buf \in TruncatedBufs(newSize) :
                   file' = [m_buf |-> buf, st_size |-> newSize, st_blocks |-> newBlocks]
              /\ f_bfree' = f_bfree - Charge(newBlocks)
              /\ reply' = "OK" /\ UNCHANGED <<stored, image>>

\* Fault: the read is cut at the end of the buffer.
BytesReadBuffer(off, size) ==
  IF off > file.st_size THEN 0
  ELSE IF off + size > Len(file.m_buf) THEN Len(file.m_buf) - off ELSE size
\* How many bytes a read returns.
BytesRead(off, size) ==
  IF off > file.st_size THEN 0
  ELSE IF off + size > file.st_size THEN file.st_size - off ELSE size

ReadAndReply(off, size) == [k \in 1..BytesRead(off, size) |-> file.m_buf[k + off]]

-----------------------------------------------------------------------------
(* Copies *)

\* Fault: the copy has the size of the contents only.
CopyTight(f) == [f EXCEPT !.m_buf = SubSeq(f.m_buf, 1, f.st_size)]
\* File(const File &): a buffer of st_blocks blocks with all their bytes.
Copy(f) ==
  [f EXCEPT !.m_buf = [k \in 1..(BlockSize * f.st_blocks) |-> f.m_buf[k]]]

\* checkpoint and restore, for this file: restore gives up what was stored.
CheckpointFile ==
  /\ stored = NoCopy
  /\ stored' = [file |-> Copy(file), f_bfree |-> f_bfree]
  /\ reply' = "OK" /\ UNCHANGED <<file, f_bfree, image>>

RestoreFile ==
  /\ stored # NoCopy
  /\ file' = Copy(stored.file) /\ f_bfree' = stored.f_bfree /\ stored' = NoCopy
  /\ reply' = "OK" /\ UNCHANGED image

\* The attributes and the st_size first bytes of the buffer.
PickleFile(f) == [f EXCEPT !.m_buf = [k \in 1..f.st_size |-> f.m_buf[k]]]

\* Into a buffer of zeros.
LoadFile(p) ==
  [p EXCEPT !.m_buf = [k \in 1..(BlockSize * p.st_blocks) |->
                         IF k <= p.st_size THEN p.m_buf[k] ELSE Zero]]

InStored(F(_)) ==
  IF stored = NoCopy THEN NoCopy ELSE [stored EXCEPT !.file = F(@)]

Pickle ==
  /\ image' = [file |-> PickleFile(file), f_bfree |-> f_bfree,
               stored |-> InStored(PickleFile)]
  /\ reply' = "OK" /\ UNCHANGED <<file, f_bfree, stored>>

Load ==
  /\ image # NoCopy
  /\ file' = LoadFile(image.file) /\ f_bfree' = image.f_bfree
  /\ stored' = IF image.stored = NoCopy THEN NoCopy
               ELSE [image.stored EXCEPT !.file = LoadFile(@)]
  /\ reply' = "OK" /\ UNCHANGED image

Next ==
  \/ \E off \in Offset, data \in Data : WriteAndReply(off, data)
  \/ \E size \in Size : FileTruncate(size)
  \/ CheckpointFile \/ RestoreFile \/ Pickle \/ Load

Spec == Init /\ [][Next]_vars

-----------------------------------------------------------------------------
(* Properties *)

ContentsOf(f) == [k \in 1..f.st_size |-> f.m_buf[k]]

Abstract == INSTANCE FileSpec WITH
  contents <- ContentsOf(file),
  saved <- IF stored = NoCopy THEN NoCopy ELSE ContentsOf(stored.file),
  pickled <- IF image = NoCopy THEN NoCopy
             ELSE [contents |-> ContentsOf(image.file),
                   saved |-> IF image.stored = NoCopy THEN NoCopy
                             ELSE ContentsOf(image.stored.file)],
  done <- reply = "OK"

\* The first st_size bytes of m_buf behave as the string of FileSpec: garbage
\* past the end, holes, reallocation, copies and reloading never show in it,
\* and a request that is refused changes none of it.
FileImplementsSpec == Abstract!Spec

\* Every read returns the bytes of the file between its offset and its end.
ReadsAgree ==
  \A off \in Offset, size \in Size :
    ReadAndReply(off, size) = Abstract!Slice(ContentsOf(file), off, size)

\* The buffer of the file, and of its checkpoint, has exactly the st_blocks
\* blocks that WriteAndReply takes for its capacity and that the copy
\* constructor reads, and st_blocks is st_size rounded up.
BufferIsBlocks(f) ==
  /\ f \in FileRecord
  /\ f.st_blocks = get_nblocks(f.st_size)
  /\ Len(f.m_buf) = BlockSize * f.st_blocks

BuffersAreBlocks ==
  BufferIsBlocks(file) /\ (stored # NoCopy => BufferIsBlocks(stored.file))

\* The blocks of the file and the free ones make up the capacity, before and
\* after a restore or a load.
BlocksAccounted ==
  /\ f_bfree \in Nat /\ f_bfree + file.st_blocks = Blocks
  /\ stored # NoCopy => stored.f_bfree + stored.file.st_blocks = Blocks

=============================================================================
