----------------------------- MODULE FileProofs -----------------------------
(***************************************************************************)
(* What the bytes of a file promise, for every block size, capacity, set   *)
(* of bytes and set of inputs: File keeps its buffers and its block counts *)
(* in step, and implements FileSpec.                                       *)
(***************************************************************************)
EXTENDS File, TLAPS

USE SMTT(60)

-----------------------------------------------------------------------------
(* Blocks *)

\* Blocks are never smaller than their number.
LEMMA BlocksScale ==
  ASSUME NEW a \in Nat, NEW b \in Nat, a <= b
  PROVE  BlockSize * a \in Nat /\ BlockSize * a <= BlockSize * b
BY BlockAssumption

\* get_nblocks rounds up: its blocks hold the size, and one block less does not.
LEMMA RoundsUp ==
  ASSUME NEW s \in Nat
  PROVE  /\ get_nblocks(s) \in Nat
         /\ s <= BlockSize * get_nblocks(s)
         /\ BlockSize * get_nblocks(s) < s + BlockSize
BY BlockAssumption DEF get_nblocks

\* A number of whole blocks is a natural number of bytes.
LEMMA BlocksOfSize ==
  ASSUME NEW s \in Nat
  PROVE  BlockSize * get_nblocks(s) \in Nat
BY RoundsUp, BlocksScale

\* get_nblocks is the least number of blocks that hold the size.
LEMMA RoundsUpLeast ==
  ASSUME NEW s \in Nat, NEW n \in Nat, s <= BlockSize * n
  PROVE  get_nblocks(s) <= n
<1>1. SUFFICES ASSUME n + 1 <= get_nblocks(s) PROVE FALSE
  BY RoundsUp
<1>2. BlockSize * (n + 1) <= BlockSize * get_nblocks(s)
  BY <1>1, RoundsUp, BlocksScale
<1>3. BlockSize * (n + 1) = BlockSize * n + BlockSize
  BY BlockAssumption
<1> QED BY <1>2, <1>3, RoundsUp, BlockAssumption, BlocksScale

\* More bytes never take fewer blocks.
LEMMA RoundsUpMonotone ==
  ASSUME NEW s \in Nat, NEW t \in Nat, s <= t
  PROVE  get_nblocks(s) <= get_nblocks(t)
<1>1. get_nblocks(t) \in Nat /\ s <= BlockSize * get_nblocks(t)
  BY RoundsUp, BlockAssumption
<1> QED BY <1>1, RoundsUpLeast

-----------------------------------------------------------------------------
(* Buffers *)

\* A buffer is a function on its positions.
LEMMA SeqParts ==
  ASSUME NEW S, NEW s \in Seq(S)
  PROVE  Len(s) \in Nat /\ DOMAIN s = 1..Len(s) /\ \A k \in 1..Len(s) : s[k] \in S
OBVIOUS

\* A function on 1..n is a sequence of length n.
LEMMA FunctionIsSeq ==
  ASSUME NEW S, NEW n \in Nat, NEW f \in [1..n -> S]
  PROVE  f \in Seq(S) /\ Len(f) = n
OBVIOUS

\* realloc keeps the bytes there are.
LEMMA ReallocKeeps ==
  ASSUME NEW buf \in Seq(Byte), NEW n \in Nat, NEW new \in Reallocs(buf, n)
  PROVE  /\ new \in Seq(Byte) /\ Len(new) = n
         /\ \A k \in 1..n : k <= Len(buf) => new[k] = buf[k]
<1>1. PICK junk \in [(Len(buf) + 1)..n -> Byte] : new = Realloc(buf, n, junk)
  BY DEF Reallocs
<1>2. Len(buf) \in Nat /\ \A k \in 1..Len(buf) : buf[k] \in Byte
  BY SeqParts
<1>3. new \in [1..n -> Byte]
  BY <1>1, <1>2 DEF Realloc
<1>4. \A k \in 1..n : k <= Len(buf) => new[k] = buf[k]
  BY <1>1 DEF Realloc
<1> QED BY <1>3, <1>4, FunctionIsSeq

\* memset changes the bytes it is told to.
LEMMA ZeroedBytes ==
  ASSUME NEW buf \in Seq(Byte), NEW from, NEW to
  PROVE  /\ Zeroed(buf, from, to) \in Seq(Byte) /\ Len(Zeroed(buf, from, to)) = Len(buf)
         /\ \A k \in 1..Len(buf) :
              Zeroed(buf, from, to)[k] = IF from < k /\ k <= to THEN Zero ELSE buf[k]
<1>1. Len(buf) \in Nat /\ \A k \in 1..Len(buf) : buf[k] \in Byte
  BY SeqParts
<1>2. Zeroed(buf, from, to) \in [1..Len(buf) -> Byte]
  BY <1>1, ByteAssumption DEF Zeroed
<1>3. \A k \in 1..Len(buf) :
        Zeroed(buf, from, to)[k] = IF from < k /\ k <= to THEN Zero ELSE buf[k]
  BY DEF Zeroed
<1> QED BY <1>1, <1>2, <1>3, FunctionIsSeq

\* So does memmove.
LEMMA MovedBytes ==
  ASSUME NEW buf \in Seq(Byte), NEW off \in Nat, NEW data \in Seq(Byte)
  PROVE  /\ Moved(buf, off, data) \in Seq(Byte) /\ Len(Moved(buf, off, data)) = Len(buf)
         /\ \A k \in 1..Len(buf) :
              Moved(buf, off, data)[k] =
                IF off < k /\ k <= off + Len(data) THEN data[k - off] ELSE buf[k]
<1>1. /\ Len(buf) \in Nat /\ \A k \in 1..Len(buf) : buf[k] \in Byte
      /\ Len(data) \in Nat /\ \A k \in 1..Len(data) : data[k] \in Byte
  BY SeqParts
<1>2. ASSUME NEW k \in 1..Len(buf), off < k, k <= off + Len(data)
      PROVE  data[k - off] \in Byte
  BY <1>1, <1>2
<1>3. Moved(buf, off, data) \in [1..Len(buf) -> Byte]
  <2>1. \A k \in 1..Len(buf) :
          (IF off < k /\ k <= off + Len(data) THEN data[k - off] ELSE buf[k]) \in Byte
    BY <1>1, <1>2
  <2> QED BY <2>1 DEF Moved
<1>4. \A k \in 1..Len(buf) :
        Moved(buf, off, data)[k] =
          IF off < k /\ k <= off + Len(data) THEN data[k - off] ELSE buf[k]
  BY DEF Moved
<1>5. Moved(buf, off, data) \in Seq(Byte) /\ Len(Moved(buf, off, data)) = Len(buf)
  BY <1>1, <1>3, FunctionIsSeq
<1> QED BY <1>4, <1>5

\* Written clears the hole between the end and the data, and lays the data.
LEMMA WrittenBytes ==
  ASSUME file.st_size \in Nat, NEW buf \in Seq(Byte), NEW off \in Nat, NEW data \in Seq(Byte)
  PROVE  /\ Written(buf, off, data) \in Seq(Byte)
         /\ Len(Written(buf, off, data)) = Len(buf)
         /\ \A k \in 1..Len(buf) :
              Written(buf, off, data)[k] =
                IF off < k /\ k <= off + Len(data) THEN data[k - off]
                ELSE IF file.st_size < k /\ k <= off THEN Zero ELSE buf[k]
<1> DEFINE under == IF off > file.st_size THEN Zeroed(buf, file.st_size, off) ELSE buf
<1>1. /\ under \in Seq(Byte) /\ Len(under) = Len(buf)
      /\ \A k \in 1..Len(buf) :
           under[k] = IF file.st_size < k /\ k <= off THEN Zero ELSE buf[k]
  <2>1. Len(buf) \in Nat
    BY SeqParts
  <2>2. CASE off > file.st_size
    BY <2>2, ZeroedBytes
  <2>3. CASE ~(off > file.st_size)
    BY <2>1, <2>3
  <2> QED BY <2>2, <2>3
<1>2. Written(buf, off, data) = Moved(under, off, data)
  BY DEF Written
<1> HIDE DEF under
<1>3. /\ Moved(under, off, data) \in Seq(Byte) /\ Len(Moved(under, off, data)) = Len(buf)
      /\ \A k \in 1..Len(buf) :
           Moved(under, off, data)[k] =
             IF off < k /\ k <= off + Len(data) THEN data[k - off] ELSE under[k]
  BY <1>1, MovedBytes
<1> QED BY <1>1, <1>2, <1>3

-----------------------------------------------------------------------------
(* Writing *)

\* The buffer that a write goes into: the old one, or one that has grown.
WriteBuffer(buf, off, data) ==
  /\ buf \in Seq(Byte)
  /\ \A k \in 1..file.st_size : buf[k] = file.m_buf[k]
  /\ Len(buf) = BlockSize * (IF off + Len(data) > Capacity THEN get_nblocks(off + Len(data))
                              ELSE file.st_blocks)

\* The size and the blocks a write leaves.
NewSize(off, data) ==
  IF off + Len(data) > file.st_size THEN off + Len(data) ELSE file.st_size

\* What BufferIsBlocks says of the sizes.
LEMMA Sizes ==
  ASSUME BufferIsBlocks(file)
  PROVE  /\ file.st_size \in Nat /\ file.st_blocks \in Nat /\ file.m_buf \in Seq(Byte)
         /\ Capacity \in Nat /\ file.st_size <= Capacity /\ Len(file.m_buf) = Capacity
         /\ file.st_blocks = get_nblocks(file.st_size)
<1>1. /\ file.st_size \in Nat /\ file.st_blocks \in Nat /\ file.m_buf \in Seq(Byte)
      /\ file.st_blocks = get_nblocks(file.st_size) /\ Len(file.m_buf) = Capacity
  BY DEF BufferIsBlocks, FileRecord, Capacity
<1>2. Capacity \in Nat
  BY <1>1, BlocksScale DEF Capacity
<1> QED BY <1>1, <1>2, RoundsUp DEF Capacity

\* After a write the blocks are those of the size, the buffer has them all,
\* and the free blocks changed with them.
LEMMA WriteSizes ==
  ASSUME BufferIsBlocks(file), NEW off \in Nat, NEW data \in Seq(Byte),
         NEW buf, WriteBuffer(buf, off, data)
  PROVE  /\ NewSize(off, data) \in Nat /\ NewSize(off, data) <= Len(buf)
         /\ off + Len(data) <= Len(buf)
         /\ Len(buf) = BlockSize * get_nblocks(NewSize(off, data))
         /\ off + Len(data) <= Capacity => get_nblocks(NewSize(off, data)) = file.st_blocks
         /\ off + Len(data) > Capacity => off + Len(data) > file.st_size
<1>1. Len(data) \in Nat /\ off + Len(data) \in Nat
  BY SeqParts
<1>2. NewSize(off, data) \in Nat /\ file.st_size <= NewSize(off, data)
  BY <1>1, Sizes DEF NewSize
<1>3. CASE off + Len(data) > Capacity
  <2>1. NewSize(off, data) = off + Len(data) /\ off + Len(data) > file.st_size
    BY <1>1, <1>3, Sizes DEF NewSize
  <2>2. Len(buf) = BlockSize * get_nblocks(off + Len(data))
    BY <1>3 DEF WriteBuffer
  <2>3. off + Len(data) <= BlockSize * get_nblocks(off + Len(data))
    BY <1>1, RoundsUp
  <2> QED BY <1>1, <1>2, <1>3, <2>1, <2>2, <2>3, Sizes
<1>4. CASE ~(off + Len(data) > Capacity)
  <2>1. NewSize(off, data) <= Capacity /\ off + Len(data) <= Capacity
    BY <1>1, <1>4, Sizes DEF NewSize
  <2>2. get_nblocks(NewSize(off, data)) <= file.st_blocks
    BY <1>2, <2>1, Sizes, RoundsUpLeast DEF Capacity
  <2>3. file.st_blocks <= get_nblocks(NewSize(off, data))
    BY <1>2, Sizes, RoundsUpMonotone
  <2>4. get_nblocks(NewSize(off, data)) = file.st_blocks
    <3>1. get_nblocks(NewSize(off, data)) \in Nat
      BY <1>2, RoundsUp, Zenon
    <3>2. file.st_blocks \in Nat
      BY Sizes, Zenon
    <3> QED BY <2>2, <2>3, <3>1, <3>2
  <2>5. Len(buf) = Capacity
    BY <1>4 DEF WriteBuffer, Capacity
  <2> QED BY <1>1, <1>2, <1>4, <2>1, <2>4, <2>5, Sizes DEF Capacity
<1> QED BY <1>3, <1>4

\* The bytes of the file are a string.
LEMMA ContentsString ==
  ASSUME NEW f, f.st_size \in Nat, f.m_buf \in Seq(Byte), f.st_size <= Len(f.m_buf)
  PROVE  /\ ContentsOf(f) \in Seq(Byte) /\ Len(ContentsOf(f)) = f.st_size
         /\ \A k \in 1..f.st_size : ContentsOf(f)[k] = f.m_buf[k]
<1>1. \A k \in 1..f.st_size : f.m_buf[k] \in Byte
  BY SeqParts
<1>2. ContentsOf(f) \in [1..f.st_size -> Byte]
  BY <1>1 DEF ContentsOf
<1>3. ContentsOf(f) \in Seq(Byte) /\ Len(ContentsOf(f)) = f.st_size
  BY <1>2, FunctionIsSeq
<1> QED BY <1>3 DEF ContentsOf

\* The string of a sound file is the first st_size bytes of its buffer.
LEMMA FileString ==
  ASSUME BufferIsBlocks(file)
  PROVE  /\ ContentsOf(file) \in Seq(Byte) /\ Len(ContentsOf(file)) = file.st_size
         /\ \A k \in 1..file.st_size : ContentsOf(file)[k] = file.m_buf[k]
BY Sizes, ContentsString

\* What a write leaves is the old string with the data laid over it.
LEMMA WriteOverlays ==
  ASSUME BufferIsBlocks(file), NEW off \in Nat, NEW data \in Seq(Byte), data # <<>>,
         NEW buf, WriteBuffer(buf, off, data)
  PROVE  [k \in 1..NewSize(off, data) |-> Written(buf, off, data)[k]]
           = Abstract!Overlay(ContentsOf(file), off, data)
<1> DEFINE c == ContentsOf(file)
           w == Written(buf, off, data)
           n == NewSize(off, data)
<1>1. Len(data) \in Nat /\ Len(c) = file.st_size /\ file.st_size \in Nat
  BY SeqParts, FileString, Sizes
<1>2. n \in Nat /\ n <= Len(buf) /\ Len(buf) \in Nat
      /\ n = IF off + Len(data) > Len(c) THEN off + Len(data) ELSE Len(c)
  <2>1. Len(buf) \in Nat
    BY SeqParts DEF WriteBuffer
  <2> QED BY <1>1, <2>1, WriteSizes DEF NewSize
<1>3. \A k \in 1..Len(buf) :
        w[k] = IF off < k /\ k <= off + Len(data) THEN data[k - off]
               ELSE IF file.st_size < k /\ k <= off THEN Zero ELSE buf[k]
  BY <1>1, WrittenBytes DEF WriteBuffer
<1>4. \A k \in 1..file.st_size : buf[k] = c[k]
  BY FileString DEF WriteBuffer
<1>5. ASSUME NEW k \in 1..n
      PROVE  w[k] = IF off < k /\ k <= off + Len(data) THEN data[k - off]
                    ELSE IF k <= Len(c) THEN c[k] ELSE Zero
  <2> HIDE DEF c, w, n
  <2>1. k \in 1..Len(buf) /\ k \in Nat
    BY <1>2
  <2>2. w[k] = IF off < k /\ k <= off + Len(data) THEN data[k - off]
               ELSE IF file.st_size < k /\ k <= off THEN Zero ELSE buf[k]
    BY <1>3, <2>1
  <2>3. CASE off < k /\ k <= off + Len(data)
    BY <2>2, <2>3
  <2>4. CASE ~(off < k /\ k <= off + Len(data)) /\ k <= Len(c)
    <3>1. buf[k] = c[k]
      BY <1>1, <1>4, <2>1, <2>4
    <3> QED BY <1>1, <2>1, <2>2, <2>4, <3>1
  <2>5. CASE ~(off < k /\ k <= off + Len(data)) /\ ~(k <= Len(c))
    BY <1>1, <1>2, <2>1, <2>2, <2>5
  <2> QED BY <2>3, <2>4, <2>5
<1> HIDE DEF c, w, n
<1>6. [k \in 1..n |-> w[k]] =
        [k \in 1..n |-> IF off < k /\ k <= off + Len(data) THEN data[k - off]
                        ELSE IF k <= Len(c) THEN c[k] ELSE Zero]
  BY <1>5
<1>7. Abstract!Overlay(c, off, data) =
        [k \in 1..n |-> IF off < k /\ k <= off + Len(data) THEN data[k - off]
                        ELSE IF k <= Len(c) THEN c[k] ELSE Zero]
  BY <1>2 DEF Abstract!Overlay
<1> QED BY <1>6, <1>7 DEF c, w, n

\* The write of WriteAndReply, into whichever buffer.
LEMMA StoreDataEffect ==
  ASSUME BufferIsBlocks(file), f_bfree \in Int,
         NEW off \in Nat, NEW data \in Seq(Byte), data # <<>>,
         NEW buf, WriteBuffer(buf, off, data), StoreData(buf, off, data)
  PROVE  /\ BufferIsBlocks(file')
         /\ f_bfree' \in Int /\ f_bfree' + file'.st_blocks = f_bfree + file.st_blocks
         /\ ContentsOf(file') = Abstract!Overlay(ContentsOf(file), off, data)
<1> DEFINE n == NewSize(off, data)
<1>1. Len(data) \in Nat /\ n \in Nat /\ get_nblocks(n) \in Nat
  BY SeqParts, WriteSizes, RoundsUp
<1>2. /\ Written(buf, off, data) \in Seq(Byte)
      /\ Len(Written(buf, off, data)) = BlockSize * get_nblocks(n)
  BY Sizes, WrittenBytes, WriteSizes DEF WriteBuffer
<1>3. file' = [m_buf |-> Written(buf, off, data), st_size |-> n, st_blocks |-> get_nblocks(n)]
  BY Sizes, Zenon DEF StoreData, NewSize
<1>4. BufferIsBlocks(file')
  BY <1>1, <1>2, <1>3 DEF BufferIsBlocks, FileRecord
<1>5. f_bfree' \in Int /\ f_bfree' + file'.st_blocks = f_bfree + file.st_blocks
  <2>1. CASE off + Len(data) > Capacity
    <3>1. n = off + Len(data)
      BY <2>1, WriteSizes DEF NewSize
    <3>2. f_bfree' = f_bfree - (get_nblocks(off + Len(data)) - file.st_blocks)
      BY <2>1 DEF StoreData
    <3> HIDE DEF n
    <3> QED BY <1>1, <1>3, <3>1, <3>2, Sizes
  <2>2. CASE ~(off + Len(data) > Capacity)
    <3>1. get_nblocks(n) = file.st_blocks
      BY <1>1, <2>2, Sizes, WriteSizes
    <3>2. f_bfree' = f_bfree
      BY <2>2 DEF StoreData
    <3> QED BY <1>3, <3>1, <3>2, Sizes
  <2> QED BY <2>1, <2>2
<1>6. ContentsOf(file') = [k \in 1..n |-> Written(buf, off, data)[k]]
  BY <1>3 DEF ContentsOf
<1> QED BY <1>4, <1>5, <1>6, WriteOverlays

\* CheckHasSpaceFor finds the blocks that the new size takes.
LEMMA SpaceIsThere ==
  ASSUME BufferIsBlocks(file), f_bfree \in Nat, NEW new \in Nat,
         CheckHasSpaceFor(new - file.st_size)
  PROVE  get_nblocks(new) - file.st_blocks <= f_bfree
<1>1. file.st_size + (new - file.st_size) = new
  BY Sizes
<1>2. get_nblocks(new) \in Nat
  BY RoundsUp
<1>3. CASE new <= file.st_size
  <2>1. get_nblocks(new) <= file.st_blocks
    BY <1>3, Sizes, RoundsUpMonotone
  <2> QED BY <1>2, <2>1, Sizes
<1>4. CASE ~(new <= file.st_size)
  <2>1. ~(new - file.st_size <= 0)
    BY <1>4, Sizes
  <2>2. get_nblocks(new) - file.st_blocks <= 0 \/ f_bfree >= get_nblocks(new) - file.st_blocks
    BY <1>1, <2>1, Zenon DEF CheckHasSpaceFor
  <2> QED BY <1>2, <2>2, Sizes
<1> QED BY <1>3, <1>4

-----------------------------------------------------------------------------
(* The invariant *)

\* The state of a file with the free blocks beside it.
Sound(f, free) == BufferIsBlocks(f) /\ free \in Nat /\ free + f.st_blocks = Blocks

\* A file as Pickle writes it: the buffer has the bytes of the string only.
SoundPickled(p, free) ==
  /\ p \in FileRecord /\ p.st_blocks = get_nblocks(p.st_size) /\ Len(p.m_buf) = p.st_size
  /\ free \in Nat /\ free + p.st_blocks = Blocks

\* BuffersAreBlocks and BlocksAccounted speak of the file and the checkpoint;
\* a load brings back what is in the state file, so that must be sound too.
IInv ==
  /\ Sound(file, f_bfree)
  /\ stored # NoCopy => stored \in StoredRecord /\ Sound(stored.file, stored.f_bfree)
  /\ image # NoCopy =>
       /\ image \in [file : FileRecord, f_bfree : Nat, stored : StoredRecord \cup {NoCopy}]
       /\ SoundPickled(image.file, image.f_bfree)
       /\ image.stored # NoCopy => SoundPickled(image.stored.file, image.stored.f_bfree)

\* A write that is refused, or one that is stored.
LEMMA WriteEffect ==
  ASSUME Sound(file, f_bfree), NEW off \in Offset, NEW data \in Data, WriteAndReply(off, data)
  PROVE  /\ UNCHANGED <<stored, image>>
         /\ \/ reply' # "OK" /\ UNCHANGED <<file, f_bfree>>
            \/ /\ reply' = "OK" /\ Sound(file', f_bfree')
               /\ ContentsOf(file') = Abstract!Overlay(ContentsOf(file), off, data)
<1> DEFINE newSize == off + Len(data)
<1>1. /\ off \in Nat /\ data \in Seq(Byte) /\ data # <<>> /\ Len(data) \in Nat
      /\ newSize \in Nat
  BY InputAssumption, SeqParts
<1>2. BufferIsBlocks(file) /\ f_bfree \in Nat /\ f_bfree + file.st_blocks = Blocks
  BY DEF Sound
<1>3. CASE newSize <= Capacity /\ StoreData(file.m_buf, off, data)
  <2>1. WriteBuffer(file.m_buf, off, data)
    <3>1. ~(off + Len(data) > Capacity)
      BY <1>1, <1>2, <1>3, Sizes
    <3> QED BY <1>2, <3>1, Sizes DEF WriteBuffer, Capacity
  <2>2. /\ BufferIsBlocks(file') /\ f_bfree' + file'.st_blocks = f_bfree + file.st_blocks
        /\ ContentsOf(file') = Abstract!Overlay(ContentsOf(file), off, data)
    BY <1>1, <1>2, <1>3, <2>1, StoreDataEffect
  <2>3. f_bfree' = f_bfree /\ reply' = "OK" /\ UNCHANGED <<stored, image>>
    BY <1>1, <1>2, <1>3, Sizes DEF StoreData
  <2> QED BY <1>2, <2>2, <2>3 DEF Sound
<1>4. CASE newSize > Capacity /\ (Fail("ENOSPC") \/ Fail("NoBytes"))
  BY <1>4 DEF Fail
<1>5. ASSUME newSize > Capacity, CheckHasSpaceFor(newSize - file.st_size),
             NEW buf \in Reallocs(file.m_buf, BlockSize * get_nblocks(newSize)),
             StoreData(buf, off, data)
      PROVE  /\ UNCHANGED <<stored, image>> /\ reply' = "OK" /\ Sound(file', f_bfree')
             /\ ContentsOf(file') = Abstract!Overlay(ContentsOf(file), off, data)
  <2>1. get_nblocks(newSize) \in Nat /\ BlockSize * get_nblocks(newSize) \in Nat
        /\ newSize <= BlockSize * get_nblocks(newSize)
    <3> HIDE DEF newSize
    <3> QED BY <1>1, RoundsUp, BlocksOfSize
  <2>2. WriteBuffer(buf, off, data)
    <3>1. /\ buf \in Seq(Byte) /\ Len(buf) = BlockSize * get_nblocks(newSize)
          /\ \A k \in 1..(BlockSize * get_nblocks(newSize)) :
               k <= Len(file.m_buf) => buf[k] = file.m_buf[k]
      BY <1>2, <1>5, <2>1, Sizes, ReallocKeeps
    <3>2. \A k \in 1..file.st_size : buf[k] = file.m_buf[k]
      BY <1>1, <1>2, <1>5, <2>1, <3>1, Sizes
    <3> QED BY <1>5, <3>1, <3>2 DEF WriteBuffer
  <2>3. /\ BufferIsBlocks(file') /\ f_bfree' + file'.st_blocks = f_bfree + file.st_blocks
        /\ ContentsOf(file') = Abstract!Overlay(ContentsOf(file), off, data)
    BY <1>1, <1>2, <1>5, <2>2, StoreDataEffect
  <2>4. f_bfree' = f_bfree - (get_nblocks(newSize) - file.st_blocks)
        /\ reply' = "OK" /\ UNCHANGED <<stored, image>>
    BY <1>5 DEF StoreData
  <2>5. get_nblocks(newSize) - file.st_blocks <= f_bfree
    BY <1>1, <1>2, <1>5, SpaceIsThere
  <2>6. f_bfree' \in Nat
    BY <1>2, <2>1, <2>4, <2>5, Sizes
  <2> QED BY <1>2, <2>3, <2>4, <2>6 DEF Sound
<1>6. \/ newSize <= Capacity /\ StoreData(file.m_buf, off, data)
      \/ newSize > Capacity /\ (Fail("ENOSPC") \/ Fail("NoBytes"))
      \/ /\ newSize > Capacity /\ CheckHasSpaceFor(newSize - file.st_size)
         /\ \E buf \in Reallocs(file.m_buf, BlockSize * get_nblocks(newSize)) :
              StoreData(buf, off, data)
  BY Zenon DEF WriteAndReply
<1> HIDE DEF newSize
<1> QED BY <1>3, <1>4, <1>5, <1>6

-----------------------------------------------------------------------------
(* Truncation *)

\* The buffers a truncation may leave have the blocks of the new size, keep the
\* bytes below both sizes and are zero from the old size to the new.
LEMMA TruncatedBytes ==
  ASSUME BufferIsBlocks(file), NEW n \in Nat, NEW buf \in TruncatedBufs(n)
  PROVE  /\ buf \in Seq(Byte) /\ Len(buf) = BlockSize * get_nblocks(n)
         /\ \A k \in 1..n : buf[k] = IF k <= file.st_size THEN file.m_buf[k] ELSE Zero
<1> DEFINE cap == BlockSize * get_nblocks(n)
<1>1. cap \in Nat /\ n <= cap /\ get_nblocks(n) \in Nat
  BY BlocksOfSize, RoundsUp
<1>2. PICK b : /\ b \in Seq(Byte) /\ Len(b) = cap
               /\ \A k \in 1..cap : k <= Capacity => b[k] = file.m_buf[k]
               /\ buf = IF n > file.st_size THEN Zeroed(b, file.st_size, n) ELSE b
  <2>1. CASE get_nblocks(n) = file.st_blocks
    <3>1. cap = Capacity
      BY <2>1 DEF Capacity
    <3>2. buf = IF n > file.st_size THEN Zeroed(file.m_buf, file.st_size, n) ELSE file.m_buf
      BY <2>1, Zenon DEF TruncatedBufs
    <3> HIDE DEF cap
    <3> QED BY <3>1, <3>2, Sizes
  <2>2. CASE get_nblocks(n) # file.st_blocks
    <3>1. PICK b \in Reallocs(file.m_buf, cap) :
            buf = IF n > file.st_size THEN Zeroed(b, file.st_size, n) ELSE b
      BY <2>2, Zenon DEF TruncatedBufs
    <3> HIDE DEF cap
    <3>2. /\ b \in Seq(Byte) /\ Len(b) = cap
          /\ \A k \in 1..cap : k <= Len(file.m_buf) => b[k] = file.m_buf[k]
      BY <1>1, Sizes, ReallocKeeps
    <3> QED BY <3>1, <3>2, Sizes
  <2> QED BY <2>1, <2>2
<1> HIDE DEF cap
<1>3. \A k \in 1..file.st_size : k \in 1..cap => b[k] = file.m_buf[k]
  BY <1>1, <1>2, Sizes
<1>4. CASE n > file.st_size
  <2>1. buf = Zeroed(b, file.st_size, n)
    BY <1>2, <1>4
  <2>2. /\ buf \in Seq(Byte) /\ Len(buf) = cap
        /\ \A k \in 1..cap : buf[k] = IF file.st_size < k /\ k <= n THEN Zero ELSE b[k]
    BY <1>2, <2>1, ZeroedBytes
  <2>3. \A k \in 1..n : buf[k] = IF k <= file.st_size THEN file.m_buf[k] ELSE Zero
    BY <1>1, <1>3, <1>4, <2>2, Sizes
  <2> QED BY <2>2, <2>3 DEF cap
<1>5. CASE ~(n > file.st_size)
  <2>1. buf = b
    BY <1>2, <1>5
  <2>2. \A k \in 1..n : buf[k] = IF k <= file.st_size THEN file.m_buf[k] ELSE Zero
    BY <1>1, <1>3, <1>5, <2>1, Sizes
  <2> QED BY <1>2, <2>1, <2>2 DEF cap
<1> QED BY <1>4, <1>5

\* A truncation that is refused, or one that leaves the string resized.
LEMMA TruncateEffect ==
  ASSUME Sound(file, f_bfree), NEW n \in Size, FileTruncate(n)
  PROVE  /\ UNCHANGED <<stored, image>>
         /\ \/ reply' # "OK" /\ UNCHANGED <<file, f_bfree>>
            \/ /\ reply' = "OK" /\ Sound(file', f_bfree')
               /\ ContentsOf(file') = Abstract!Resized(ContentsOf(file), n)
<1>1. n \in Nat /\ get_nblocks(n) \in Nat
  BY InputAssumption, RoundsUp
<1>2. BufferIsBlocks(file) /\ f_bfree \in Nat /\ f_bfree + file.st_blocks = Blocks
  BY DEF Sound
<1>3. CASE Fail("ERANGE") \/ Fail("EINVAL")
  BY <1>3 DEF Fail
<1>4. ASSUME CheckHasSpaceFor(n - file.st_size), NEW buf \in TruncatedBufs(n),
             file' = [m_buf |-> buf, st_size |-> n, st_blocks |-> get_nblocks(n)],
             f_bfree' = f_bfree - Charge(get_nblocks(n))
      PROVE  /\ Sound(file', f_bfree')
             /\ ContentsOf(file') = Abstract!Resized(ContentsOf(file), n)
  <2>1. /\ buf \in Seq(Byte) /\ Len(buf) = BlockSize * get_nblocks(n)
        /\ \A k \in 1..n : buf[k] = IF k <= file.st_size THEN file.m_buf[k] ELSE Zero
    BY <1>1, <1>2, <1>4, TruncatedBytes
  <2>2. BufferIsBlocks(file')
    BY <1>1, <1>4, <2>1 DEF BufferIsBlocks, FileRecord
  <2>3. get_nblocks(n) - file.st_blocks <= f_bfree
    BY <1>1, <1>2, <1>4, SpaceIsThere
  <2>4. f_bfree' \in Nat /\ f_bfree' + file'.st_blocks = Blocks
    BY <1>1, <1>2, <1>4, <2>3, Sizes DEF Charge
  <2>5. ContentsOf(file') = [k \in 1..n |-> buf[k]]
    BY <1>4 DEF ContentsOf
  <2>6. /\ Len(ContentsOf(file)) = file.st_size
        /\ \A k \in 1..file.st_size : ContentsOf(file)[k] = file.m_buf[k]
    BY <1>2, FileString
  <2>7. \A k \in 1..n : buf[k] = IF k <= Len(ContentsOf(file)) THEN ContentsOf(file)[k] ELSE Zero
    BY <1>1, <1>2, <2>1, <2>6, Sizes
  <2> QED BY <2>2, <2>4, <2>5, <2>7 DEF Sound, Abstract!Resized
<1>5. \/ Fail("ERANGE") \/ Fail("EINVAL")
      \/ /\ CheckHasSpaceFor(n - file.st_size)
         /\ \E buf \in TruncatedBufs(n) :
              file' = [m_buf |-> buf, st_size |-> n, st_blocks |-> get_nblocks(n)]
         /\ f_bfree' = f_bfree - Charge(get_nblocks(n))
         /\ reply' = "OK" /\ UNCHANGED <<stored, image>>
  BY Zenon DEF FileTruncate
<1> QED BY <1>3, <1>4, <1>5

-----------------------------------------------------------------------------
(* Copies *)

\* A file with another buffer.
LEMMA OtherBuffer ==
  ASSUME NEW f \in FileRecord, NEW buf
  PROVE  [f EXCEPT !.m_buf = buf] =
           [m_buf |-> buf, st_size |-> f.st_size, st_blocks |-> f.st_blocks]
BY DEF FileRecord

\* The copy constructor makes a sound file with the same string.
LEMMA CopySound ==
  ASSUME NEW f, NEW free, Sound(f, free)
  PROVE  Copy(f) \in FileRecord /\ Sound(Copy(f), free) /\ ContentsOf(Copy(f)) = ContentsOf(f)
<1>1. /\ f \in FileRecord /\ f.m_buf \in Seq(Byte) /\ f.st_size \in Nat /\ f.st_blocks \in Nat
      /\ f.st_blocks = get_nblocks(f.st_size) /\ Len(f.m_buf) = BlockSize * f.st_blocks
  BY DEF Sound, BufferIsBlocks, FileRecord
<1> DEFINE buf == [k \in 1..(BlockSize * f.st_blocks) |-> f.m_buf[k]]
<1>2. buf = f.m_buf
  BY <1>1, SeqParts
<1>3. Copy(f) = f
  BY <1>1, <1>2 DEF Copy, FileRecord
<1> QED BY <1>1, <1>3

\* Pickle keeps the string.
LEMMA PickleSound ==
  ASSUME NEW f, NEW free, Sound(f, free)
  PROVE  /\ PickleFile(f) \in FileRecord /\ SoundPickled(PickleFile(f), free)
         /\ ContentsOf(PickleFile(f)) = ContentsOf(f)
<1>1. /\ f \in FileRecord /\ f.m_buf \in Seq(Byte) /\ f.st_size \in Nat /\ f.st_blocks \in Nat
      /\ f.st_blocks = get_nblocks(f.st_size) /\ Len(f.m_buf) = BlockSize * f.st_blocks
      /\ free \in Nat /\ free + f.st_blocks = Blocks
  BY DEF Sound, BufferIsBlocks, FileRecord
<1>2. f.st_size <= Len(f.m_buf)
  BY <1>1, RoundsUp
<1>3. /\ ContentsOf(f) \in Seq(Byte) /\ Len(ContentsOf(f)) = f.st_size
      /\ \A k \in 1..f.st_size : ContentsOf(f)[k] = f.m_buf[k]
  BY <1>1, <1>2, ContentsString
<1>4. PickleFile(f) = [m_buf |-> ContentsOf(f), st_size |-> f.st_size, st_blocks |-> f.st_blocks]
  BY <1>1, OtherBuffer DEF PickleFile, ContentsOf
<1>5. PickleFile(f) \in FileRecord /\ SoundPickled(PickleFile(f), free)
  BY <1>1, <1>3, <1>4 DEF SoundPickled, FileRecord
<1>6. ContentsOf(PickleFile(f)) = [k \in 1..f.st_size |-> ContentsOf(f)[k]]
  BY <1>4 DEF ContentsOf
<1>7. [k \in 1..f.st_size |-> ContentsOf(f)[k]] = ContentsOf(f)
  BY <1>3 DEF ContentsOf
<1> QED BY <1>5, <1>6, <1>7

\* So does Load, into whole blocks.
LEMMA LoadSound ==
  ASSUME NEW p, NEW free, SoundPickled(p, free)
  PROVE  /\ LoadFile(p) \in FileRecord /\ Sound(LoadFile(p), free)
         /\ ContentsOf(LoadFile(p)) = ContentsOf(p)
<1>1. /\ p \in FileRecord /\ p.m_buf \in Seq(Byte) /\ p.st_size \in Nat /\ p.st_blocks \in Nat
      /\ p.st_blocks = get_nblocks(p.st_size) /\ Len(p.m_buf) = p.st_size
      /\ free \in Nat /\ free + p.st_blocks = Blocks
  BY DEF SoundPickled, FileRecord
<1> DEFINE cap == BlockSize * p.st_blocks
           buf == [k \in 1..cap |-> IF k <= p.st_size THEN p.m_buf[k] ELSE Zero]
<1>2. cap \in Nat /\ p.st_size <= cap
  <2>1. /\ BlockSize * get_nblocks(p.st_size) \in Nat
        /\ p.st_size <= BlockSize * get_nblocks(p.st_size)
    <3>1. p.st_size \in Nat
      BY <1>1
    <3> QED BY <3>1, RoundsUp, BlocksOfSize
  <2>2. cap = BlockSize * get_nblocks(p.st_size)
    BY <1>1
  <2> QED BY <2>1, <2>2
<1>3. LoadFile(p) = [m_buf |-> buf, st_size |-> p.st_size, st_blocks |-> p.st_blocks]
  <2>1. LoadFile(p) = [p EXCEPT !.m_buf = buf]
    BY DEF LoadFile
  <2> HIDE DEF buf
  <2> QED BY <1>1, <2>1, OtherBuffer
<1>4. buf \in Seq(Byte) /\ Len(buf) = cap
  <2>1. \A k \in 1..p.st_size : p.m_buf[k] \in Byte
    BY <1>1, SeqParts
  <2> HIDE DEF cap
  <2>2. buf \in [1..cap -> Byte]
    BY <1>1, <1>2, <2>1, ByteAssumption
  <2> HIDE DEF buf
  <2> QED BY <1>2, <2>2, FunctionIsSeq
<1>5. \A k \in 1..p.st_size : buf[k] = p.m_buf[k]
  <2> HIDE DEF cap
  <2> QED BY <1>1, <1>2
<1> HIDE DEF buf
<1>6. LoadFile(p) \in FileRecord
  BY <1>1, <1>3, <1>4 DEF FileRecord
<1>7. /\ LoadFile(p).m_buf = buf /\ LoadFile(p).st_size = p.st_size
      /\ LoadFile(p).st_blocks = p.st_blocks
  BY <1>3
<1>8. Sound(LoadFile(p), free)
  BY <1>1, <1>4, <1>6, <1>7 DEF Sound, BufferIsBlocks
<1>9. ContentsOf(LoadFile(p)) = [k \in 1..p.st_size |-> buf[k]]
  BY <1>7 DEF ContentsOf
<1>10. [k \in 1..p.st_size |-> buf[k]] = [k \in 1..p.st_size |-> p.m_buf[k]]
  BY <1>5
<1>11. ContentsOf(p) = [k \in 1..p.st_size |-> p.m_buf[k]]
  BY DEF ContentsOf
<1> QED BY <1>6, <1>8, <1>9, <1>10, <1>11

-----------------------------------------------------------------------------
(* Every step keeps the invariant and is one of FileSpec *)

\* A step of FileSpec, or none.
AbstractStep == [Abstract!Next]_(Abstract!vars)

\* The strings of checkpoint and state file, as the mapping has them.
SavedString(s) == IF s = NoCopy THEN NoCopy ELSE ContentsOf(s.file)
\* The strings in a state file.
PickledStrings(i) ==
  IF i = NoCopy THEN NoCopy
  ELSE [contents |-> ContentsOf(i.file), saved |-> SavedString(i.stored)]

\* A request that is refused.
LEMMA RefusedStep ==
  ASSUME IInv, reply' # "OK", UNCHANGED <<file, f_bfree, stored, image>>
  PROVE  IInv' /\ AbstractStep
<1>1. IInv'
  BY DEF IInv, Sound, SoundPickled, BufferIsBlocks, get_nblocks, FileRecord, StoredRecord
<1>2. Abstract!Refuse
  BY DEF Abstract!Refuse
<1> QED BY <1>1, <1>2 DEF AbstractStep, Abstract!Next

\* A request that changes the string of the file.
LEMMA ChangedStep ==
  ASSUME IInv, Sound(file', f_bfree'), reply' = "OK", UNCHANGED <<stored, image>>,
         NEW c, ContentsOf(file') = c
  PROVE  IInv' /\ Abstract!Change(c)
<1>1. IInv'
  BY DEF IInv
<1>2. Abstract!Change(c)
  BY DEF Abstract!Change
<1> QED BY <1>1, <1>2

\* FuseWrite is a write of the abstract file.
LEMMA WriteStep ==
  ASSUME IInv, NEW off \in Offset, NEW data \in Data, WriteAndReply(off, data)
  PROVE  IInv' /\ AbstractStep
<1>1. Sound(file, f_bfree)
  BY DEF IInv
<1>2. UNCHANGED <<stored, image>>
  BY <1>1, WriteEffect
<1>3. CASE reply' # "OK" /\ UNCHANGED <<file, f_bfree>>
  BY <1>2, <1>3, RefusedStep
<1>4. CASE /\ reply' = "OK" /\ Sound(file', f_bfree')
           /\ ContentsOf(file') = Abstract!Overlay(ContentsOf(file), off, data)
  <2>1. IInv' /\ Abstract!Change(Abstract!Overlay(ContentsOf(file), off, data))
    BY <1>2, <1>4, ChangedStep
  <2>2. Abstract!Write(off, data)
    BY <2>1 DEF Abstract!Write
  <2> QED BY <2>1, <2>2 DEF AbstractStep, Abstract!Next
<1> QED BY <1>1, <1>3, <1>4, WriteEffect

\* FuseSetAttr of the size is a truncation of the abstract file.
LEMMA TruncateStep ==
  ASSUME IInv, NEW n \in Size, FileTruncate(n)
  PROVE  IInv' /\ AbstractStep
<1>1. Sound(file, f_bfree)
  BY DEF IInv
<1>2. UNCHANGED <<stored, image>>
  BY <1>1, TruncateEffect
<1>3. CASE reply' # "OK" /\ UNCHANGED <<file, f_bfree>>
  BY <1>2, <1>3, RefusedStep
<1>4. CASE /\ reply' = "OK" /\ Sound(file', f_bfree')
           /\ ContentsOf(file') = Abstract!Resized(ContentsOf(file), n)
  <2>1. IInv' /\ Abstract!Change(Abstract!Resized(ContentsOf(file), n))
    BY <1>2, <1>4, ChangedStep
  <2>2. Abstract!Truncate(n)
    BY <2>1 DEF Abstract!Truncate
  <2> QED BY <2>1, <2>2 DEF AbstractStep, Abstract!Next
<1> QED BY <1>1, <1>3, <1>4, TruncateEffect

\* A checkpoint saves the abstract string.
LEMMA CheckpointStep ==
  ASSUME IInv, CheckpointFile
  PROVE  IInv' /\ AbstractStep
<1>1. /\ Sound(file, f_bfree) /\ f_bfree \in Nat
      /\ stored = NoCopy /\ stored' = [file |-> Copy(file), f_bfree |-> f_bfree]
      /\ reply' = "OK" /\ UNCHANGED <<file, f_bfree, image>>
  BY DEF IInv, Sound, CheckpointFile
<1>2. /\ Copy(file) \in FileRecord /\ Sound(Copy(file), f_bfree)
      /\ ContentsOf(Copy(file)) = ContentsOf(file)
  BY <1>1, CopySound
<1>3. /\ stored' \in StoredRecord /\ stored' # NoCopy
      /\ stored'.file = Copy(file) /\ stored'.f_bfree = f_bfree
  BY <1>1, <1>2, NoCopyAssumption DEF StoredRecord
<1>4. IInv'
  <2>1. Sound(file', f_bfree') /\ Sound(stored'.file, stored'.f_bfree)
    BY <1>1, <1>2, <1>3
  <2> QED BY <1>1, <1>3, <2>1 DEF IInv
<1>5. Abstract!Checkpoint
  BY <1>1, <1>2, <1>3 DEF Abstract!Checkpoint
<1> QED BY <1>4, <1>5 DEF AbstractStep, Abstract!Next

\* A restore brings the saved string back.
LEMMA RestoreStep ==
  ASSUME IInv, RestoreFile
  PROVE  IInv' /\ AbstractStep
<1>1. /\ stored # NoCopy /\ stored \in StoredRecord /\ Sound(stored.file, stored.f_bfree)
      /\ file' = Copy(stored.file) /\ f_bfree' = stored.f_bfree /\ stored' = NoCopy
      /\ reply' = "OK" /\ UNCHANGED image
  BY DEF IInv, RestoreFile
<1>2. Sound(Copy(stored.file), stored.f_bfree)
      /\ ContentsOf(Copy(stored.file)) = ContentsOf(stored.file)
  BY <1>1, CopySound
<1>3. IInv'
  BY <1>1, <1>2 DEF IInv
<1>4. ContentsOf(stored.file) \in Seq(Byte)
  <2>1. /\ stored.file.st_size \in Nat /\ stored.file.m_buf \in Seq(Byte)
        /\ Len(stored.file.m_buf) = BlockSize * get_nblocks(stored.file.st_size)
    BY <1>1 DEF Sound, BufferIsBlocks, FileRecord
  <2>2. stored.file.st_size <= Len(stored.file.m_buf)
    BY <2>1, RoundsUp
  <2> QED BY <2>1, <2>2, ContentsString
<1>5. Abstract!Restore
  BY <1>1, <1>2, <1>4, NoCopyAssumption DEF Abstract!Restore
<1> QED BY <1>3, <1>5 DEF AbstractStep, Abstract!Next

\* What is pickled from a sound file is a string of bytes.
LEMMA PickledString ==
  ASSUME NEW p, NEW free, SoundPickled(p, free)
  PROVE  ContentsOf(p) \in Seq(Byte)
<1>1. p.m_buf \in Seq(Byte) /\ p.st_size \in Nat /\ p.st_size <= Len(p.m_buf)
  BY DEF SoundPickled, FileRecord
<1> QED BY <1>1, ContentsString

\* The state file after Pickle holds the strings of file and checkpoint.
LEMMA PickleStep ==
  ASSUME IInv, Pickle
  PROVE  IInv' /\ AbstractStep
<1> DEFINE st == InStored(PickleFile)
           img == [file |-> PickleFile(file), f_bfree |-> f_bfree, stored |-> st]
<1>1. Sound(file, f_bfree) /\ f_bfree \in Nat
  BY DEF IInv, Sound
<1>2. image' = img /\ reply' = "OK" /\ UNCHANGED <<file, f_bfree, stored>>
  BY DEF Pickle
<1>3. /\ PickleFile(file) \in FileRecord /\ SoundPickled(PickleFile(file), f_bfree)
      /\ ContentsOf(PickleFile(file)) = ContentsOf(file)
  BY <1>1, PickleSound
<1>4. /\ st \in StoredRecord \cup {NoCopy}
      /\ st # NoCopy => SoundPickled(st.file, st.f_bfree)
      /\ SavedString(st) = SavedString(stored)
  <2>1. CASE stored = NoCopy
    BY <2>1 DEF InStored, SavedString
  <2>2. CASE stored # NoCopy
    <3>1. stored \in StoredRecord /\ Sound(stored.file, stored.f_bfree)
      BY <2>2 DEF IInv
    <3>2. st = [file |-> PickleFile(stored.file), f_bfree |-> stored.f_bfree]
      BY <2>2, <3>1 DEF InStored, StoredRecord
    <3>3. /\ PickleFile(stored.file) \in FileRecord
          /\ SoundPickled(PickleFile(stored.file), stored.f_bfree)
          /\ ContentsOf(PickleFile(stored.file)) = ContentsOf(stored.file)
      BY <3>1, PickleSound
    <3>4. st \in StoredRecord /\ st.file = PickleFile(stored.file)
          /\ st.f_bfree = stored.f_bfree
      BY <3>1, <3>2, <3>3 DEF StoredRecord
    <3>5. st # NoCopy
      BY <3>4, NoCopyAssumption
    <3> HIDE DEF st
    <3> QED BY <2>2, <3>3, <3>4, <3>5 DEF SavedString
  <2> QED BY <2>1, <2>2
<1> HIDE DEF st
<1>5. /\ img \in [file : FileRecord, f_bfree : Nat, stored : StoredRecord \cup {NoCopy}]
      /\ img.file = PickleFile(file) /\ img.f_bfree = f_bfree /\ img.stored = st
  BY <1>1, <1>3, <1>4
<1>6. img # NoCopy
  BY <1>5, NoCopyAssumption
<1> HIDE DEF img
<1>7. IInv'
  <2>1. SoundPickled(img.file, img.f_bfree)
        /\ (img.stored # NoCopy => SoundPickled(img.stored.file, img.stored.f_bfree))
    BY <1>3, <1>4, <1>5
  <2> QED BY <1>2, <1>5, <2>1 DEF IInv
<1>8. PickledStrings(img) = [contents |-> ContentsOf(file), saved |-> SavedString(stored)]
  BY <1>3, <1>4, <1>5, <1>6 DEF PickledStrings
<1>9. Abstract!Pickle
  BY <1>2, <1>8 DEF Abstract!Pickle, PickledStrings, SavedString
<1> QED BY <1>7, <1>9 DEF AbstractStep, Abstract!Next

\* Load gives file and checkpoint the strings of the state file.
LEMMA LoadStep ==
  ASSUME IInv, Load
  PROVE  IInv' /\ AbstractStep
<1> DEFINE st == IF image.stored = NoCopy THEN NoCopy
                 ELSE [image.stored EXCEPT !.file = LoadFile(@)]
<1>1. /\ image \in [file : FileRecord, f_bfree : Nat, stored : StoredRecord \cup {NoCopy}]
      /\ image # NoCopy /\ SoundPickled(image.file, image.f_bfree)
      /\ image.stored # NoCopy => SoundPickled(image.stored.file, image.stored.f_bfree)
  BY DEF IInv, Load
<1>2. /\ file' = LoadFile(image.file) /\ f_bfree' = image.f_bfree /\ stored' = st
      /\ reply' = "OK" /\ UNCHANGED image
  BY DEF Load
<1>3. /\ Sound(LoadFile(image.file), image.f_bfree)
      /\ ContentsOf(LoadFile(image.file)) = ContentsOf(image.file)
  BY <1>1, LoadSound
<1>4. /\ st # NoCopy => st \in StoredRecord /\ Sound(st.file, st.f_bfree)
      /\ SavedString(st) = SavedString(image.stored)
  <2>1. CASE image.stored = NoCopy
    BY <2>1 DEF SavedString
  <2>2. CASE image.stored # NoCopy
    <3> DEFINE old == image.stored
    <3>1. old \in StoredRecord /\ SoundPickled(old.file, old.f_bfree)
      BY <1>1, <2>2
    <3>2. st = [file |-> LoadFile(old.file), f_bfree |-> old.f_bfree]
      BY <2>2, <3>1 DEF StoredRecord
    <3>3. /\ LoadFile(old.file) \in FileRecord /\ Sound(LoadFile(old.file), old.f_bfree)
          /\ ContentsOf(LoadFile(old.file)) = ContentsOf(old.file)
      BY <3>1, LoadSound
    <3>4. st \in StoredRecord /\ st.file = LoadFile(old.file) /\ st.f_bfree = old.f_bfree
      BY <3>1, <3>2, <3>3 DEF StoredRecord
    <3>5. st # NoCopy
      BY <3>4, NoCopyAssumption
    <3> HIDE DEF st
    <3> QED BY <2>2, <3>3, <3>4, <3>5 DEF SavedString
  <2> QED BY <2>1, <2>2
<1> HIDE DEF st
<1>5. IInv'
  BY <1>1, <1>2, <1>3, <1>4 DEF IInv
<1>6. /\ PickledStrings(image) =
            [contents |-> ContentsOf(image.file), saved |-> SavedString(image.stored)]
      /\ ContentsOf(file') = PickledStrings(image).contents
      /\ SavedString(stored') = PickledStrings(image).saved
  BY <1>1, <1>2, <1>3, <1>4 DEF PickledStrings
<1>7. PickledStrings(image) # NoCopy
  <2>1. ContentsOf(image.file) \in Seq(Byte)
    BY <1>1, PickledString
  <2>2. SavedString(image.stored) \in Seq(Byte) \cup {NoCopy}
    BY <1>1, PickledString DEF SavedString
  <2> QED BY <1>6, <2>1, <2>2, NoCopyAssumption
<1>8. Abstract!Load
  BY <1>2, <1>6, <1>7 DEF Abstract!Load, PickledStrings, SavedString
<1> QED BY <1>5, <1>8 DEF AbstractStep, Abstract!Next

-----------------------------------------------------------------------------
(* The theorems *)

\* The new file satisfies the invariant and maps to the new abstract file.
LEMMA InitSound == Init => IInv /\ Abstract!Init
<1> SUFFICES ASSUME Init PROVE IInv /\ Abstract!Init
  OBVIOUS
<1>1. /\ file = [m_buf |-> <<>>, st_size |-> 0, st_blocks |-> 0]
      /\ f_bfree = Blocks /\ stored = NoCopy /\ image = NoCopy /\ reply = "OK"
  BY DEF Init
<1>2. get_nblocks(0) = 0 /\ BlockSize * 0 = 0
  BY BlockAssumption DEF get_nblocks
<1>3. Sound(file, f_bfree)
  BY <1>1, <1>2, BlockAssumption DEF Sound, BufferIsBlocks, FileRecord
<1>4. ContentsOf(file) = <<>>
  BY <1>1 DEF ContentsOf
<1> QED BY <1>1, <1>3, <1>4 DEF IInv, Abstract!Init

\* Every step keeps the invariant and maps to an abstract step.
LEMMA StepSound == IInv /\ [Next]_vars => IInv' /\ AbstractStep
<1> SUFFICES ASSUME IInv, [Next]_vars PROVE IInv' /\ AbstractStep
  OBVIOUS
<1>1. ASSUME NEW off \in Offset, NEW data \in Data, WriteAndReply(off, data)
      PROVE  IInv' /\ AbstractStep
  BY <1>1, WriteStep
<1>2. ASSUME NEW n \in Size, FileTruncate(n) PROVE IInv' /\ AbstractStep
  BY <1>2, TruncateStep
<1>3. CASE CheckpointFile
  BY <1>3, CheckpointStep
<1>4. CASE RestoreFile
  BY <1>4, RestoreStep
<1>5. CASE Pickle
  BY <1>5, PickleStep
<1>6. CASE Load
  BY <1>6, LoadStep
<1>7. CASE UNCHANGED vars
  <2>1. UNCHANGED <<file, f_bfree, stored, image, reply>>
    BY <1>7 DEF vars
  <2>2. IInv'
    BY <2>1 DEF IInv
  <2>3. UNCHANGED Abstract!vars
    BY <2>1 DEF Abstract!vars
  <2> QED BY <2>2, <2>3 DEF AbstractStep
<1> QED BY <1>1, <1>2, <1>3, <1>4, <1>5, <1>6, <1>7, Zenon DEF Next

\* A read of sound bytes is a slice of the string.
LEMMA ReadSlices == IInv => ReadsAgree
<1> SUFFICES ASSUME IInv, NEW off \in Offset, NEW n \in Size
             PROVE  ReadAndReply(off, n) = Abstract!Slice(ContentsOf(file), off, n)
  BY DEF ReadsAgree
<1>1. /\ file.m_buf \in Seq(Byte) /\ file.st_size \in Nat
      /\ Len(file.m_buf) = BlockSize * get_nblocks(file.st_size)
  BY DEF IInv, Sound, BufferIsBlocks, FileRecord
<1>2. file.st_size <= Len(file.m_buf)
  BY <1>1, RoundsUp
<1>3. /\ Len(ContentsOf(file)) = file.st_size
      /\ \A k \in 1..file.st_size : ContentsOf(file)[k] = file.m_buf[k]
  BY <1>1, <1>2, ContentsString
<1> DEFINE count == BytesRead(off, n)
<1>4. off \in Nat /\ n \in Nat
  BY InputAssumption
<1>5. count \in Nat /\ \A k \in 1..count : k + off \in 1..file.st_size
  BY <1>1, <1>4 DEF BytesRead
<1>6. Abstract!Slice(ContentsOf(file), off, n) = [k \in 1..count |-> ContentsOf(file)[k + off]]
  BY <1>3 DEF Abstract!Slice, BytesRead
<1>7. ReadAndReply(off, n) = [k \in 1..count |-> file.m_buf[k + off]]
  BY DEF ReadAndReply
<1> HIDE DEF count
<1>8. \A k \in 1..count : ContentsOf(file)[k + off] = file.m_buf[k + off]
  BY <1>3, <1>5
<1> QED BY <1>6, <1>7, <1>8

\* The strengthened invariant: the file, its checkpoint and both of their
\* images in the state file have consistent sizes, buffers and block counts.
THEOREM FileInvariant == Spec => []IInv
<1>1. Init => IInv
  BY InitSound
<1>2. IInv /\ [Next]_vars => IInv'
  BY StepSound
<1> QED BY <1>1, <1>2, PTL DEF Spec

\* The buffer of the file and of its checkpoint always has exactly st_blocks
\* blocks, so WriteAndReply never writes past it nor the copy reads past it.
THEOREM BuffersTheorem == Spec => []BuffersAreBlocks
<1>1. IInv => BuffersAreBlocks
  BY DEF IInv, Sound, BuffersAreBlocks
<1> QED BY <1>1, FileInvariant, PTL

\* Free blocks and the blocks of the file make up the capacity, whatever the
\* sequence of writes, truncations, restores and loads.
THEOREM BlocksTheorem == Spec => []BlocksAccounted
<1>1. IInv => BlocksAccounted
  BY DEF IInv, Sound, BlocksAccounted
<1> QED BY <1>1, FileInvariant, PTL

\* ReadAndReply returns the bytes of the file and none of the garbage that
\* follows them in the buffer.
THEOREM ReadsTheorem == Spec => []ReadsAgree
BY ReadSlices, FileInvariant, PTL

\* The buffer manipulation of File implements the string of FileSpec, for any
\* block size, capacity and bytes.
THEOREM FileRefinement == Spec => FileImplementsSpec
<1>1. Init => Abstract!Init
  BY InitSound
<1>2. IInv /\ [Next]_vars => [Abstract!Next]_(Abstract!vars)
  BY StepSound DEF AbstractStep
<1> QED BY <1>1, <1>2, FileInvariant, PTL DEF Spec, FileImplementsSpec, Abstract!Spec

=============================================================================
