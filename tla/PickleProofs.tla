---------------------------- MODULE PickleProofs ----------------------------
(***************************************************************************)
(* Proofs about saving and loading: what a state file that verifies holds, *)
(* and that loading it gives back the state that was saved, whatever that  *)
(* state is and whichever writes fail.  load_file_system builds its table  *)
(* in a loop, so the first part is induction over the naturals.            *)
(***************************************************************************)
EXTENDS Pickle, SequenceTheorems, WellFoundedInduction, TLAPS

-----------------------------------------------------------------------------
(* Induction *)

\* Every non-empty set of naturals has a least element.
LEMMA LeastNat ==
  ASSUME NEW T \in SUBSET Nat, T # {}
  PROVE  \E x \in T : \A y \in T : x <= y
<1>1. PICK R : IsWellFoundedOn(R, Nat) /\ \A x, y \in Nat : <<y, x>> \in R <=> y < x
  <2>1. IsWellFoundedOn(OpToRel(<, Nat), Nat)
    BY NatLessThanWellFounded
  <2>2. \A x, y \in Nat : <<y, x>> \in OpToRel(<, Nat) <=> y < x
    BY DEF OpToRel
  <2> QED
    BY <2>1, <2>2, Zenon
<1>2. PICK x \in T : \A y \in T : ~(<<y, x>> \in R)
  BY <1>1, WFMin, Zenon
<1>3. ASSUME NEW y \in T PROVE x <= y
  <2>1. x \in Nat /\ y \in Nat
    OBVIOUS
  <2>2. ~(y < x)
    BY <1>1, <1>2, <2>1, Zenon
  <2> QED
    BY <2>1, <2>2
<1> QED
  BY <1>3

\* A set with 0, and with n + 1 for each n it has, has all naturals.
LEMMA NatSetInduction ==
  ASSUME NEW T, 0 \in T, \A n \in Nat : n \in T => n + 1 \in T
  PROVE  Nat \subseteq T
<1> DEFINE U == Nat \ T
<1>1. SUFFICES ASSUME U # {} PROVE FALSE
  OBVIOUS
<1>2. PICK x \in U : \A y \in U : x <= y
  BY <1>1, LeastNat, Zenon
<1>3. x # 0 /\ x - 1 \in Nat
  OBVIOUS
<1>4. x - 1 \in T
  BY <1>2, <1>3
<1>5. (x - 1) + 1 = x
  BY <1>2
<1> QED
  BY <1>2, <1>3, <1>4, <1>5

-----------------------------------------------------------------------------
(* The table that load_file_system builds *)

\* The tables f[0], ..., f[n] after each of n slots.
TableLoop(inodes, f, n) ==
  f = [i \in 0..n |-> IF i = 0 THEN <<>>
                      ELSE IF inodes[i] = None THEN f[i - 1]
                      ELSE Append(f[i - 1], inodes[i])]

\* The loop has a result for every number of slots.
LEMMA TableLoopExists ==
  ASSUME NEW inodes, NEW n \in Nat
  PROVE  \E f : TableLoop(inodes, f, n)
<1> DEFINE T == {m \in Nat : \E f : TableLoop(inodes, f, m)}
<1>1. 0 \in T
  <2>1. TableLoop(inodes, [i \in 0..0 |-> <<>>], 0)
    BY DEF TableLoop
  <2> QED
    BY <2>1
<1>2. ASSUME NEW m \in Nat, m \in T PROVE m + 1 \in T
  <2>1. PICK f : TableLoop(inodes, f, m)
    BY <1>2
  <2> DEFINE v == IF inodes[m + 1] = None THEN f[m] ELSE Append(f[m], inodes[m + 1])
             g == [i \in 0..(m + 1) |-> IF i = m + 1 THEN v ELSE f[i]]
             Step(h, i) == IF i = 0 THEN <<>>
                           ELSE IF inodes[i] = None THEN h[i - 1]
                           ELSE Append(h[i - 1], inodes[i])
  <2>2. \A i \in 0..m : f[i] = Step(f, i)
    BY <2>1, Zenon DEF TableLoop
  <2>3. ASSUME NEW i \in 0..(m + 1) PROVE g[i] = Step(g, i)
    <3>1. CASE i = m + 1
      BY <3>1
    <3>2. CASE i \in 1..m
      <4>1. g[i] = f[i] /\ g[i - 1] = f[i - 1]
        BY <3>2
      <4> QED
        BY <2>2, <3>2, <4>1
    <3>3. CASE i = 0
      BY <2>2, <3>3
    <3> QED
      BY <3>1, <3>2, <3>3
  <2>4. TableLoop(inodes, g, m + 1)
    BY <2>3 DEF TableLoop
  <2> QED
    BY <2>4
<1>3. n \in T
  <2> HIDE DEF T
  <2> QED
    BY <1>1, <1>2, NatSetInduction
<1> QED
  BY <1>3

\* Present is the last table of the loop.
LEMMA PresentIsLoop ==
  ASSUME NEW inodes, Len(inodes) \in Nat
  PROVE  \E f : TableLoop(inodes, f, Len(inodes)) /\ Present(inodes) = f[Len(inodes)]
<1> DEFINE Body(f) == [i \in 0..Len(inodes) |-> IF i = 0 THEN <<>>
                                                ELSE IF inodes[i] = None THEN f[i - 1]
                                                ELSE Append(f[i - 1], inodes[i])]
           table == CHOOSE f : f = Body(f)
<1>1. \E f : f = Body(f)
  BY TableLoopExists, Zenon DEF TableLoop
<1>2. table = Body(table)
  BY <1>1, Zenon
<1>3. Present(inodes) = table[Len(inodes)]
  BY Zenon DEF Present
<1> QED
  BY <1>2, <1>3, Zenon DEF TableLoop

\* It is a sequence of inodes of the table that was read.
LEMMA PresentSeq ==
  ASSUME NEW S, NEW inodes \in Seq(S)
  PROVE  Present(inodes) \in Seq(S)
<1> DEFINE n == Len(inodes)
<1>1. n \in Nat
  OBVIOUS
<1>2. PICK f : TableLoop(inodes, f, n) /\ Present(inodes) = f[n]
  BY <1>1, PresentIsLoop
<1>3. \A i \in 0..n : f[i] = IF i = 0 THEN <<>>
                             ELSE IF inodes[i] = None THEN f[i - 1]
                             ELSE Append(f[i - 1], inodes[i])
  BY <1>2, Zenon DEF TableLoop
<1> DEFINE T == {m \in Nat : m <= n => f[m] \in Seq(S)}
<1>4. 0 \in T
  <2>1. f[0] = <<>>
    BY <1>1, <1>3
  <2>2. f[0] \in Seq(S)
    BY <2>1
  <2> QED
    BY <2>2
<1>5. ASSUME NEW m \in Nat, m \in T PROVE m + 1 \in T
  <2>1. SUFFICES ASSUME m + 1 <= n PROVE f[m + 1] \in Seq(S)
    OBVIOUS
  <2>2. m + 1 \in 1..n /\ f[m] \in Seq(S) /\ inodes[m + 1] \in S
    BY <1>1, <1>5, <2>1
  <2>3. f[m + 1] = IF inodes[m + 1] = None THEN f[m] ELSE Append(f[m], inodes[m + 1])
    BY <1>1, <1>3, <2>2
  <2> QED
    BY <2>2, <2>3
<1>6. n \in T
  <2> HIDE DEF T
  <2> QED
    BY <1>1, <1>4, <1>5, NatSetInduction
<1> QED
  BY <1>1, <1>2, <1>6

-----------------------------------------------------------------------------
(* Sequences *)

\* Whatever set a sequence is over, it is one over its own elements.
LEMMA SequenceOver ==
  ASSUME NEW S, NEW q \in Seq(S)
  PROVE  IsSequence(q)
<1>1. q \in Seq({q[i] : i \in DOMAIN q})
  OBVIOUS
<1> QED
  BY <1>1 DEF IsSequence

\* A sequence is the function of its elements.
LEMMA SequenceLen ==
  ASSUME NEW q, IsSequence(q)
  PROVE  Len(q) \in Nat /\ DOMAIN q = 1..Len(q) /\ q = [i \in 1..Len(q) |-> q[i]]
  BY DEF IsSequence

\* Append gives a sequence that is one longer.
LEMMA SequenceAppend ==
  ASSUME NEW q, IsSequence(q), NEW x
  PROVE  IsSequence(Append(q, x)) /\ Len(Append(q, x)) = Len(q) + 1
<1> DEFINE S == {q[i] : i \in DOMAIN q} \cup {x}
<1>1. q \in Seq(S)
  BY DEF IsSequence
<1>2. Append(q, x) \in Seq(S) /\ Len(Append(q, x)) = Len(q) + 1
  BY <1>1
<1> QED
  BY <1>2, SequenceOver, Zenon

\* A prefix of a sequence is a sequence.
LEMMA SequencePrefix ==
  ASSUME NEW q, IsSequence(q), NEW n \in 1..Len(q)
  PROVE  IsSequence(SubSeq(q, 1, n - 1))
<1> DEFINE S == {q[i] : i \in DOMAIN q}
<1>1. q \in Seq(S) /\ Len(q) \in Nat
  BY DEF IsSequence
<1> HIDE DEF S
<1>2. SubSeq(q, 1, n - 1) \in Seq(S)
  BY <1>1
<1> QED
  BY <1>2, SequenceOver, Zenon

\* The slots in use of a table are a sequence.
LEMMA SequencePresent ==
  ASSUME NEW q, IsSequence(q)
  PROVE  IsSequence(Present(q))
  BY PresentSeq, SequenceOver DEF IsSequence

-----------------------------------------------------------------------------
(* Reading what was written *)

\* Where the elements of a concatenation are.
Joined(r, p, q, k, m) ==
  /\ \A i \in 1..k : r[i] = p[i]
  /\ \A i \in 1..m : r[k + i] = q[i]

\* A concatenation has the elements of its parts in their places.
LEMMA ConcatAt ==
  ASSUME NEW S, NEW p \in Seq(S), NEW q \in Seq(S), NEW k \in Nat, NEW m \in Nat,
         Len(p) = k, Len(q) = m
  PROVE  p \o q \in Seq(S) /\ Len(p \o q) = k + m /\ Joined(p \o q, p, q, k, m)
  BY DEF Joined

\* P is a, b, c and d one after another: two, n, two and m elements.
AllAt(P, a, b, c, d, n, m) ==
  /\ P[1] = a[1] /\ P[2] = a[2] /\ P[n + 3] = c[1] /\ P[n + 4] = c[2]
  /\ \A i \in 1..n : P[2 + i] = b[i]
  /\ \A i \in 1..m : P[n + 4 + i] = d[i]

\* Four parts that are joined one by one are each in their place.
LEMMA JoinedFour ==
  ASSUME NEW a, NEW b, NEW c, NEW d, NEW ab, NEW abc, NEW P, NEW n \in Nat, NEW m \in Nat,
         Joined(ab, a, b, 2, n), Joined(abc, ab, c, n + 2, 2), Joined(P, abc, d, n + 4, m)
  PROVE  AllAt(P, a, b, c, d, n, m)
<1>1. P[1] = a[1] /\ P[2] = a[2]
  BY DEF Joined
<1>2. P[n + 3] = c[1] /\ P[n + 4] = c[2]
  <2>1. abc[(n + 2) + 1] = c[1] /\ abc[(n + 2) + 2] = c[2]
    BY DEF Joined
  <2>2. abc[n + 3] = c[1] /\ abc[n + 4] = c[2]
    BY <2>1
  <2> QED
    BY <2>2 DEF Joined
<1>3. ASSUME NEW i \in 1..n PROVE P[2 + i] = b[i]
  <2>1. 2 + i \in 1..(n + 2) /\ 2 + i \in 1..(n + 4)
    OBVIOUS
  <2> QED
    BY <2>1 DEF Joined
<1>4. \A i \in 1..m : P[n + 4 + i] = d[i]
  BY DEF Joined
<1> QED
  BY <1>1, <1>2, <1>3, <1>4 DEF AllAt

\* The pieces of a pickled state, by their place.
LEMMA PickledPieces ==
  ASSUME NEW s, IsState(s)
  PROVE  LET P == pickle_file_system(s)
             n == Len(s.inodes)
         IN  /\ IsSequence(P)
             /\ P[1] = <<"statvfs", s.stat>> /\ P[2] = <<"num_inodes", n>>
             /\ \A i \in 1..n : P[2 + i] = <<"inode", s.inodes[i]>>
             /\ P[n + 3] = <<"deleted", s.deleted>>
             /\ P[n + 4] = <<"num_state_pool", Len(s.pool)>>
             /\ \A i \in 1..Len(s.pool) : P[n + 4 + i] = <<"state", s.pool[i]>>
<1> DEFINE P == pickle_file_system(s)
           n == Len(s.inodes)
           m == Len(s.pool)
           a == <<<<"statvfs", s.stat>>, <<"num_inodes", n>>>>
           b == InodeChunks(s.inodes)
           c == <<<<"deleted", s.deleted>>, <<"num_state_pool", m>>>>
           d == PoolChunks(s.pool)
           S == {a[i] : i \in 1..2} \cup {b[i] : i \in 1..n}
                  \cup {c[i] : i \in 1..2} \cup {d[i] : i \in 1..m}
<1>1. n \in Nat /\ DOMAIN s.inodes = 1..n /\ m \in Nat /\ DOMAIN s.pool = 1..m
  BY SequenceLen DEF IsState
<1>2. b = [i \in 1..n |-> <<"inode", s.inodes[i]>>] /\ d = [i \in 1..m |-> <<"state", s.pool[i]>>]
  BY <1>1 DEF InodeChunks, PoolChunks
<1>3. /\ a \in Seq(S) /\ Len(a) = 2 /\ c \in Seq(S) /\ Len(c) = 2
      /\ b \in Seq(S) /\ Len(b) = n /\ d \in Seq(S) /\ Len(d) = m
  <2> DEFINE x1 == a[1]
             x2 == a[2]
             y1 == c[1]
             y2 == c[2]
  <2>1. x1 \in S /\ x2 \in S /\ y1 \in S /\ y2 \in S
    OBVIOUS
  <2>2. a = <<x1, x2>> /\ c = <<y1, y2>>
    OBVIOUS
  <2>3. (\A i \in 1..n : b[i] \in S) /\ (\A i \in 1..m : d[i] \in S)
    OBVIOUS
  <2>4. b \in [1..n -> S] /\ d \in [1..m -> S]
    BY <1>2, <2>3
  <2> HIDE DEF a, b, c, d, S, x1, x2, y1, y2, n, m
  <2>5. a \in Seq(S) /\ Len(a) = 2 /\ c \in Seq(S) /\ Len(c) = 2
    BY <2>1, <2>2
  <2>6. b \in Seq(S) /\ Len(b) = n /\ d \in Seq(S) /\ Len(d) = m
    BY <1>1, <2>4
  <2> QED
    BY <2>5, <2>6
<1>4. P = a \o b \o c \o d
  BY DEF pickle_file_system
<1>5. a[1] = <<"statvfs", s.stat>> /\ a[2] = <<"num_inodes", n>>
      /\ c[1] = <<"deleted", s.deleted>> /\ c[2] = <<"num_state_pool", m>>
  OBVIOUS
<1> HIDE DEF P, n, m, a, b, c, d, S
<1> DEFINE ab == a \o b
           abc == ab \o c
<1>6. ab \in Seq(S) /\ Len(ab) = 2 + n /\ Joined(ab, a, b, 2, n)
  <2> DEFINE k == 2
  <2>1. k \in Nat /\ n \in Nat /\ Len(a) = k
    BY <1>1, <1>3
  <2> HIDE DEF k
  <2>2. ab \in Seq(S) /\ Len(ab) = k + n /\ Joined(ab, a, b, k, n)
    BY <1>3, <2>1, ConcatAt
  <2> QED
    BY <2>2 DEF k
<1> HIDE DEF ab
<1>7. Len(ab) = n + 2 /\ n + 2 \in Nat /\ n + 4 \in Nat /\ (n + 2) + 2 = n + 4
  BY <1>1, <1>6
<1>8. abc \in Seq(S) /\ Len(abc) = (n + 2) + 2 /\ Joined(abc, ab, c, n + 2, 2)
  <2>1. 2 \in Nat
    OBVIOUS
  <2> QED
    BY <1>3, <1>6, <1>7, <2>1, ConcatAt, Zenon
<1> HIDE DEF abc
<1>9. abc \o d \in Seq(S) /\ Joined(abc \o d, abc, d, n + 4, m)
  BY <1>1, <1>3, <1>7, <1>8, ConcatAt
<1>10. P = abc \o d
  BY <1>4 DEF ab, abc
<1>11. P \in Seq(S) /\ Joined(P, abc, d, n + 4, m)
  BY <1>9, <1>10, Zenon
<1>12. IsSequence(P)
  BY <1>11, SequenceOver
<1>13. AllAt(P, a, b, c, d, n, m)
  BY <1>1, <1>6, <1>8, <1>11, JoinedFour, Zenon
<1>14. (\A i \in 1..n : b[i] = <<"inode", s.inodes[i]>>) /\ (\A i \in 1..m : d[i] = <<"state", s.pool[i]>>)
  BY <1>2
<1> QED
  BY <1>5, <1>12, <1>13, <1>14, Zenon DEF AllAt, P, n, m

\* A sequence is given by its elements.
Tagged(body, at, q, tag) == \A i \in 1..Len(q) : body[at + i] = <<tag, q[i]>>

\* Reading where a sequence was written gives the sequence.
LEMMA ReadBack ==
  ASSUME NEW q, IsSequence(q), NEW body, NEW at \in Nat, NEW tag, Tagged(body, at, q, tag)
  PROVE  Read(body, at, Len(q)) = q
<1>1. Len(q) \in Nat /\ DOMAIN q = 1..Len(q)
  BY SequenceLen
<1>2. q \in [1..Len(q) -> {q[i] : i \in DOMAIN q}]
  BY DEF IsSequence
<1>3. \A i \in 1..Len(q) : body[at + i][2] = q[i]
  BY DEF Tagged
<1> QED
  BY <1>2, <1>3, Zenon DEF Read

\* What Compacted makes of a state, without the LET.
LEMMA CompactedIs ==
  ASSUME NEW s, IsState(s)
  PROVE  Compacted(s) = [stat |-> s.stat, inodes |-> Present(s.inodes), deleted |-> s.deleted,
                         pool |-> [i \in DOMAIN s.pool |-> LoadState(s.pool[i])]]
<1> DEFINE pool == [i \in DOMAIN s.pool |-> LoadState(s.pool[i])]
           p == Present(s.inodes)
<1>1. s = [stat |-> s.stat, inodes |-> s.inodes, deleted |-> s.deleted, pool |-> s.pool]
  BY DEF IsState
<1>2. Compacted(s) = [s EXCEPT !.inodes = p, !.pool = pool]
  BY Zenon DEF Compacted
<1> HIDE DEF p, pool
<1>3. Compacted(s) = [stat |-> s.stat, inodes |-> p, deleted |-> s.deleted, pool |-> pool]
  BY <1>1, <1>2, Zenon
<1> QED
  BY <1>3 DEF p, pool

\* load_file_system reads from what pickle_file_system writes the same state,
\* but for the empty slots of its tables: nothing of it is lost and nothing is
\* read at the wrong place, however many inodes and checkpoints there are.
THEOREM LoadReadsWhatPickleWrites ==
  ASSUME NEW s, IsState(s)
  PROVE  load_file_system(pickle_file_system(s)) = Compacted(s)
<1> DEFINE P == pickle_file_system(s)
           n == Len(s.inodes)
           m == Len(s.pool)
           L(x) == LoadState(x)
           pool == [i \in DOMAIN s.pool |-> L(s.pool[i])]
<1>1. n \in Nat /\ m \in Nat /\ DOMAIN s.pool = 1..m /\ IsSequence(s.inodes) /\ IsSequence(s.pool)
  BY SequenceLen DEF IsState
<1>2. /\ P[1] = <<"statvfs", s.stat>> /\ P[2] = <<"num_inodes", n>>
      /\ \A i \in 1..n : P[2 + i] = <<"inode", s.inodes[i]>>
      /\ P[n + 3] = <<"deleted", s.deleted>>
      /\ P[n + 4] = <<"num_state_pool", m>>
      /\ \A i \in 1..m : P[n + 4 + i] = <<"state", s.pool[i]>>
  BY PickledPieces, Zenon
<1> HIDE DEF P
<1>3. Read(P, 2, n) = s.inodes
  <2>1. 2 \in Nat
    OBVIOUS
  <2>2. Tagged(P, 2, s.inodes, "inode")
    BY <1>2, Zenon DEF Tagged
  <2> QED
    BY <1>1, <2>1, <2>2, ReadBack, Zenon
<1>4. Read(P, n + 4, m) = s.pool
  <2>1. n + 4 \in Nat
    BY <1>1
  <2>2. Tagged(P, n + 4, s.pool, "state")
    BY <1>2, Zenon DEF Tagged
  <2> QED
    BY <1>1, <2>1, <2>2, ReadBack, Zenon
<1>5. P[1][2] = s.stat /\ P[2][2] = n /\ P[n + 3][2] = s.deleted /\ P[n + 4][2] = m
  BY <1>2
<1>6. load_file_system(P) = [stat |-> s.stat, inodes |-> Present(s.inodes),
                             deleted |-> s.deleted, pool |-> pool]
  BY <1>3, <1>4, <1>5, Zenon DEF load_file_system
<1>7. Compacted(s) = [stat |-> s.stat, inodes |-> Present(s.inodes),
                      deleted |-> s.deleted, pool |-> pool]
  BY CompactedIs, Zenon
<1> QED
  BY <1>6, <1>7, Zenon DEF P

-----------------------------------------------------------------------------
(* The inductive invariant *)

\* A state file: there may be a header, and the body is a sequence of pieces.
IsFile(f) == f = [header |-> f.header, body |-> f.body] /\ IsSequence(f.body)

\* What there is for every path.
OnPaths(f) == f = [p \in Path |-> f[p]]

\* The types of the variables.
TypeInv ==
  /\ IsState(fs)
  /\ cfg \in Path \cup {None}
  /\ OnPaths(disk) /\ OnPaths(saved)
  /\ \A p \in Path : disk[p] = None \/ IsFile(disk[p])

\* What has been hashed and what is left to write are the whole of the state;
\* after a short write the cursor is at the start of a body that has pieces.
Progress(d, f, s) ==
  \/ IsSequence(d.hash) /\ IsSequence(d.todo) /\ d.hash \o d.todo = pickle_file_system(s)
  \/ d.todo = <<>> /\ d.pos = 0 /\ Len(f.body) > 0

\* The daemon while it pickles for client c.
Pickling(c, p, k, h, t) ==
  [op |-> "pickle", client |-> c, path |-> p, pos |-> k, hash |-> h, todo |-> t]

IsPickling(d) == d = Pickling(d.client, d.path, d.pos, d.hash, d.todo)

\* While the daemon writes a state file, that has no header.
DaemonInv ==
  \/ daemon = Idle
  \/ /\ IsPickling(daemon) /\ daemon.path \in Path
     /\ IsFile(disk[daemon.path]) /\ disk[daemon.path].header = None
     /\ IsState(saved[daemon.path])
     /\ Progress(daemon, disk[daemon.path], saved[daemon.path])

\* A header has the hash of all pieces of the state, or the length zero above
\* a body that has pieces.
HeaderOf(f, s) ==
  /\ IsState(s)
  /\ f.header.hash = pickle_file_system(s) \/ (f.header.fsize = 0 /\ Len(f.body) > 0)

\* A file with a header has the header of the state that was saved in it.
HeaderInv ==
  \A p \in Path : disk[p] # None /\ disk[p].header # None => HeaderOf(disk[p], saved[p])

\* The inductive invariant.
SavedInv == TypeInv /\ DaemonInv /\ HeaderInv /\ LoadedWasSaved

\* The file system of the host with file p assigned to.
Put(f, p, x) == [f EXCEPT ![p] = x]

\* Assigning one file leaves the others.
LEMMA PathsExcept ==
  ASSUME NEW f, OnPaths(f), NEW p \in Path, NEW x
  PROVE  /\ OnPaths(Put(f, p, x)) /\ Put(f, p, x)[p] = x
         /\ \A q \in Path : q # p => Put(f, p, x)[q] = f[q]
<1>1. DOMAIN f = Path
  BY Zenon DEF OnPaths
<1> QED
  BY <1>1, Zenon DEF OnPaths, Put

\* A chunk is appended to the body of a file.
LEMMA FileWritten ==
  ASSUME NEW f, IsFile(f), NEW x
  PROVE  LET g == [f EXCEPT !.body = Append(@, x)]
         IN  IsFile(g) /\ g.header = f.header /\ Len(g.body) > 0
<1> DEFINE b == Append(f.body, x)
           g == [f EXCEPT !.body = Append(@, x)]
<1>1. IsSequence(b) /\ Len(b) = Len(f.body) + 1 /\ Len(f.body) \in Nat
  BY SequenceAppend, SequenceLen DEF IsFile
<1>2. Len(b) > 0
  BY <1>1
<1> HIDE DEF b
<1>3. g = [header |-> f.header, body |-> b]
  BY DEF IsFile, b
<1>4. g.header = f.header /\ g.body = b
  BY <1>3
<1> QED
  BY <1>1, <1>2, <1>3, <1>4, Zenon DEF IsFile

\* The header of a file is written.
LEMMA HeaderWritten ==
  ASSUME NEW f, IsFile(f), NEW h
  PROVE  LET g == [f EXCEPT !.header = h]
         IN  IsFile(g) /\ g.header = h /\ g.body = f.body
<1> DEFINE g == [f EXCEPT !.header = h]
<1>1. g = [header |-> h, body |-> f.body]
  BY DEF IsFile
<1>2. g.header = h /\ g.body = f.body
  BY <1>1
<1> QED
  BY <1>1, <1>2, Zenon DEF IsFile

\* The next piece moves from what is left to what is hashed.
LEMMA PieceMoves ==
  ASSUME NEW h, IsSequence(h), NEW t, IsSequence(t), t # <<>>
  PROVE  /\ IsSequence(Append(h, Head(t))) /\ IsSequence(Tail(t))
         /\ Append(h, Head(t)) \o Tail(t) = h \o t
<1> DEFINE S == {h[i] : i \in DOMAIN h} \cup {t[i] : i \in DOMAIN t}
           g == Append(h, Head(t))
<1>1. h \in Seq(S) /\ t \in Seq(S)
  BY DEF IsSequence
<1> HIDE DEF S
<1>2. Head(t) \in S /\ Tail(t) \in Seq(S) /\ g \in Seq(S)
  BY <1>1
<1> DEFINE x == <<Head(t)>>
<1>3. x \in Seq(S) /\ x \o Tail(t) = t
  BY <1>1, <1>2
<1>4. g = h \o x
  BY <1>1, <1>2, AppendIsConcat
<1> HIDE DEF x
<1>5. (h \o x) \o Tail(t) = h \o (x \o Tail(t))
  <2> DEFINE u == Tail(t)
  <2>1. u \in Seq(S)
    BY <1>2
  <2> HIDE DEF u
  <2>2. (h \o x) \o u = h \o (x \o u)
    BY <1>1, <1>3, <2>1, ConcatAssociative, SMTT(30)
  <2> QED
    BY <2>2, Zenon DEF u
<1> QED
  BY <1>2, <1>3, <1>4, <1>5, SequenceOver, Zenon

\* The empty sequence changes nothing it is joined to.
LEMMA EmptySequence ==
  ASSUME NEW q, IsSequence(q)
  PROVE  IsSequence(<<>>) /\ <<>> \o q = q /\ q \o <<>> = q
<1> DEFINE S == {q[i] : i \in DOMAIN q}
<1>1. q \in Seq(S) /\ <<>> \in Seq(S)
  BY DEF IsSequence
<1> HIDE DEF S
<1>2. <<>> \o q = q /\ q \o <<>> = q
  BY <1>1
<1>3. IsSequence(<<>>)
  BY <1>1, SequenceOver, Zenon
<1> QED
  BY <1>2, <1>3, Zenon

-----------------------------------------------------------------------------
(* What is loaded is a state *)

\* A checkpoint that is loaded is a checkpoint.
LEMMA LoadStateIsCheckpoint ==
  ASSUME NEW c, IsCheckpoint(c)
  PROVE  IsCheckpoint(LoadState(c))
<1> DEFINE p == Present(c.inodes)
<1>1. IsSequence(p)
  BY SequencePresent DEF IsCheckpoint
<1>2. LoadState(c) = [c EXCEPT !.inodes = p]
  BY Zenon DEF LoadState
<1> HIDE DEF p
<1>3. LoadState(c) = [key |-> c.key, stat |-> c.stat, inodes |-> p, deleted |-> c.deleted]
  BY <1>2 DEF IsCheckpoint
<1> HIDE DEF LoadState
<1>4. LoadState(c).key = c.key /\ LoadState(c).stat = c.stat /\ LoadState(c).inodes = p
      /\ LoadState(c).deleted = c.deleted
  BY <1>3
<1> QED
  BY <1>1, <1>3, <1>4, Zenon DEF IsCheckpoint

\* A state, from its parts.
LEMMA StateOf ==
  ASSUME NEW s, NEW stat, NEW inodes, NEW deleted, NEW pool,
         s = [stat |-> stat, inodes |-> inodes, deleted |-> deleted, pool |-> pool],
         IsSequence(inodes), IsSequence(pool), \A i \in DOMAIN pool : IsCheckpoint(pool[i])
  PROVE  IsState(s)
<1>1. s.stat = stat /\ s.inodes = inodes /\ s.deleted = deleted /\ s.pool = pool
  OBVIOUS
<1> QED
  BY <1>1, Zenon DEF IsState

\* A state that went through a file is a state.
LEMMA CompactedIsState ==
  ASSUME NEW s, IsState(s)
  PROVE  IsState(Compacted(s))
<1> DEFINE m == Len(s.pool)
           L(x) == LoadState(x)
           pool == [i \in DOMAIN s.pool |-> L(s.pool[i])]
<1>1. m \in Nat /\ DOMAIN s.pool = 1..m /\ IsSequence(s.inodes)
      /\ \A i \in DOMAIN s.pool : IsCheckpoint(s.pool[i])
  BY SequenceLen DEF IsState
<1>2. DOMAIN pool = 1..m /\ \A i \in DOMAIN pool : IsCheckpoint(pool[i])
  BY <1>1, LoadStateIsCheckpoint, Zenon
<1>3. IsSequence(pool)
  <2> HIDE DEF L
  <2>1. pool \in Seq({pool[i] : i \in DOMAIN pool})
    BY <1>1
  <2> HIDE DEF pool
  <2> QED
    BY <2>1, Zenon DEF IsSequence
<1>4. IsSequence(Present(s.inodes))
  BY <1>1, SequencePresent, Zenon
<1>5. Compacted(s) = [stat |-> s.stat, inodes |-> Present(s.inodes),
                      deleted |-> s.deleted, pool |-> pool]
  BY CompactedIs, Zenon
<1> HIDE DEF pool
<1> QED
  BY <1>2, <1>3, <1>4, <1>5, StateOf

\* A load that stops short leaves a state.
LEMMA CutShortIsState ==
  ASSUME NEW body, IsState(load_file_system(body)), NEW cut \in LoadCutShort(body)
  PROVE  IsState(cut)
<1> DEFINE w == load_file_system(body)
<1>1. /\ w = [stat |-> w.stat, inodes |-> w.inodes, deleted |-> w.deleted, pool |-> w.pool]
      /\ IsSequence(w.inodes) /\ IsSequence(w.pool)
      /\ \A i \in DOMAIN w.pool : IsCheckpoint(w.pool[i])
  BY DEF IsState
<1>2. \/ \E n \in DOMAIN w.inodes :
            cut = [w EXCEPT !.inodes = Append(SubSeq(@, 1, n - 1), "unread"),
                            !.deleted = <<>>, !.pool = <<>>]
      \/ \E n \in DOMAIN w.pool : cut = [w EXCEPT !.pool = SubSeq(@, 1, n - 1)]
  BY Zenon DEF LoadCutShort
<1> HIDE DEF w
<1>3. CASE \E n \in DOMAIN w.inodes :
             cut = [w EXCEPT !.inodes = Append(SubSeq(@, 1, n - 1), "unread"),
                             !.deleted = <<>>, !.pool = <<>>]
  <2> PICK n \in DOMAIN w.inodes :
             cut = [w EXCEPT !.inodes = Append(SubSeq(@, 1, n - 1), "unread"),
                             !.deleted = <<>>, !.pool = <<>>]
    BY <1>3, Zenon
  <2> DEFINE t == Append(SubSeq(w.inodes, 1, n - 1), "unread")
             e == <<>>
  <2>1. IsSequence(t)
    <3>1. IsSequence(SubSeq(w.inodes, 1, n - 1))
      BY <1>1, SequenceLen, SequencePrefix
    <3> QED
      BY <3>1, SequenceAppend, Zenon
  <2>2. IsSequence(e)
    BY <1>1, EmptySequence, Zenon
  <2>3. \A i \in DOMAIN e : IsCheckpoint(e[i])
    OBVIOUS
  <2> HIDE DEF t, e
  <2>4. cut = [stat |-> w.stat, inodes |-> t, deleted |-> e, pool |-> e]
    BY <1>1 DEF t, e
  <2> QED
    BY <2>1, <2>2, <2>3, <2>4, StateOf, Zenon
<1>4. CASE \E n \in DOMAIN w.pool : cut = [w EXCEPT !.pool = SubSeq(@, 1, n - 1)]
  <2> PICK n \in DOMAIN w.pool : cut = [w EXCEPT !.pool = SubSeq(@, 1, n - 1)]
    BY <1>4
  <2> DEFINE t == SubSeq(w.pool, 1, n - 1)
             S == {w.pool[i] : i \in DOMAIN w.pool}
  <2>1. n \in 1..Len(w.pool) /\ Len(w.pool) \in Nat /\ w.pool \in Seq(S)
    BY <1>1, SequenceLen DEF IsSequence
  <2>2. IsSequence(t)
    BY <1>1, <2>1, SequencePrefix, Zenon
  <2>3. \A x \in S : IsCheckpoint(x)
    BY <1>1, Zenon
  <2> HIDE DEF S
  <2>4. \A i \in DOMAIN t : t[i] \in S
    BY <2>1
  <2> HIDE DEF t
  <2>5. \A i \in DOMAIN t : IsCheckpoint(t[i])
    BY <2>3, <2>4, Zenon
  <2>6. cut = [stat |-> w.stat, inodes |-> w.inodes, deleted |-> w.deleted, pool |-> t]
    BY <1>1 DEF t
  <2> QED
    BY <1>1, <2>2, <2>5, <2>6, StateOf, Zenon
<1> QED
  BY <1>2, <1>3, <1>4, Zenon

-----------------------------------------------------------------------------
(* Every step keeps the invariant *)

\* A file that verifies is whole.
LEMMA Verified ==
  ASSUME NEW p \in Path, TypeInv, HeaderInv, verify_state_file(disk[p])
  PROVE  IsState(saved[p]) /\ disk[p].body = pickle_file_system(saved[p])
<1>1. disk[p] # None /\ disk[p].header # None /\ disk[p].header.fsize = Len(disk[p].body)
      /\ disk[p].header.hash = disk[p].body
  BY Zenon DEF verify_state_file
<1>2. HeaderOf(disk[p], saved[p])
  BY <1>1, Zenon DEF HeaderInv
<1>3. ~(disk[p].header.fsize = 0 /\ Len(disk[p].body) > 0)
  BY <1>1
<1> QED
  BY <1>1, <1>2, <1>3, Zenon DEF HeaderOf

\* The first state satisfies the invariant.
LEMMA InitSaved == Init => SavedInv
<1> SUFFICES ASSUME Init PROVE SavedInv
  OBVIOUS
<1>1. IsState(fs)
  BY PickleAssumption DEF Init
<1>2. OnPaths(disk) /\ OnPaths(saved) /\ \A p \in Path : disk[p] = None
  BY Zenon DEF Init, OnPaths
<1>3. LoadedWasSaved
  BY DEF Init, NotLoaded, LoadedWasSaved
<1> QED
  BY <1>1, <1>2, <1>3, Zenon DEF Init, SavedInv, TypeInv, DaemonInv, HeaderInv

\* Requests of others, the programs and a stop leave the files alone.
LEMMA OthersKeep ==
  ASSUME SavedInv, IsState(fs'), cfg' \in Path \cup {None}, daemon' = daemon \/ daemon' = Idle,
         UNCHANGED <<disk, saved>>, LoadedWasSaved'
  PROVE  SavedInv'
<1>1. TypeInv'
  BY Zenon DEF SavedInv, TypeInv, OnPaths, IsFile
<1>2. DaemonInv'
  BY Zenon DEF SavedInv, DaemonInv
<1>3. HeaderInv'
  BY Zenon DEF SavedInv, HeaderInv
<1> QED
  BY <1>1, <1>2, <1>3, Zenon DEF SavedInv

\* The requests that change the file system keep the invariant.
LEMMA OtherRequestsKeeps == ASSUME SavedInv, OtherRequests PROVE SavedInv'
<1>1. IsState(fs')
  BY PickleAssumption, Zenon DEF OtherRequests
<1>2. cfg' \in Path \cup {None} /\ daemon' = daemon /\ UNCHANGED <<disk, saved>>
  BY Zenon DEF OtherRequests, SavedInv, TypeInv
<1>3. LoadedWasSaved'
  BY DEF OtherRequests, NotLoaded, LoadedWasSaved
<1> QED
  BY <1>1, <1>2, <1>3, OthersKeep, Zenon

\* A daemon that stops keeps the invariant.
LEMMA StopKeeps == ASSUME SavedInv, Stop PROVE SavedInv'
<1>1. IsState(fs')
  BY PickleAssumption, Zenon DEF Stop
<1>2. cfg' \in Path \cup {None} /\ daemon' = Idle /\ UNCHANGED <<disk, saved>>
  BY Zenon DEF Stop, SavedInv, TypeInv
<1>3. LoadedWasSaved'
  BY DEF Stop, NotLoaded, LoadedWasSaved
<1> QED
  BY <1>1, <1>2, <1>3, OthersKeep, Zenon

\* What a client does to the config file keeps the invariant.
LEMMA ClientKeeps ==
  ASSUME SavedInv, NEW c \in Client, OpenCfg(c) \/ WriteCfg(c) \/ RunAgain(c)
  PROVE  SavedInv'
<1>1. IsState(fs') /\ cfg' \in Path \cup {None}
  BY PickleAssumption DEF SavedInv, TypeInv, OpenCfg, WriteCfg, RunAgain, Client
<1>2. daemon' = daemon /\ UNCHANGED <<fs, disk, saved, loaded>>
  BY Zenon DEF OpenCfg, WriteCfg, RunAgain
<1>3. LoadedWasSaved'
  BY <1>2, Zenon DEF SavedInv, LoadedWasSaved
<1> QED
  BY <1>1, <1>2, <1>3, OthersKeep, Zenon

\* A pickle for which memory runs out keeps the invariant.
LEMMA PickleNoMemoryKeeps == ASSUME SavedInv, PickleNoMemory PROVE SavedInv'
<1>1. daemon' = Idle /\ UNCHANGED <<fs, cfg, disk, saved, loaded>>
  BY Zenon DEF PickleNoMemory, Answer
<1>2. IsState(fs') /\ cfg' \in Path \cup {None} /\ LoadedWasSaved'
  BY <1>1, Zenon DEF SavedInv, TypeInv, LoadedWasSaved
<1> QED
  BY <1>1, <1>2, OthersKeep, Zenon

\* A load, verified or refused, keeps the invariant.
LEMMA LoadRequestKeeps ==
  ASSUME SavedInv, NEW c \in Client, LoadRequest(c)
  PROVE  SavedInv'
<1>1. daemon' = Idle /\ UNCHANGED <<cfg, disk, saved>>
  BY Zenon DEF LoadRequest, Answer
<1>2. cfg' \in Path \cup {None}
  BY <1>1, Zenon DEF SavedInv, TypeInv
<1>3. CASE UNCHANGED <<fs, loaded>>
  <2>1. IsState(fs') /\ LoadedWasSaved'
    BY <1>3, Zenon DEF SavedInv, TypeInv, LoadedWasSaved
  <2> QED
    BY <1>1, <1>2, <2>1, OthersKeep, Zenon
<1>4. CASE cfg # None /\ verify_state_file(disk[cfg])
  <2> DEFINE s == saved[cfg]
             body == disk[cfg].body
  <2>1. IsState(s) /\ body = pickle_file_system(s)
    BY <1>4, Verified, Zenon DEF SavedInv, TypeInv
  <2>2. load_file_system(body) = Compacted(s) /\ IsState(Compacted(s))
    BY <2>1, LoadReadsWhatPickleWrites, CompactedIsState, Zenon
  <2> HIDE DEF s
  <2>3. CASE fs' = load_file_system(body) /\ loaded' = [much |-> "whole", of |-> s]
    <3>1. loaded'.of = s
      BY <2>3
    <3>2. IsState(fs') /\ LoadedWasSaved'
      BY <2>2, <2>3, <3>1, Zenon DEF LoadedWasSaved
    <3> QED
      BY <1>1, <1>2, <3>2, OthersKeep, Zenon
  <2>4. CASE /\ \E cut \in LoadCutShort(body) : fs' = cut
             /\ loaded' = [much |-> "part", of |-> s]
    <3>1. loaded'.much = "part"
      BY <2>4
    <3>2. LoadedWasSaved'
      BY <3>1 DEF LoadedWasSaved
    <3>3. IsState(fs')
      BY <2>2, <2>4, CutShortIsState, Zenon
    <3> QED
      BY <1>1, <1>2, <3>2, <3>3, OthersKeep, Zenon
  <2>5. CASE UNCHANGED <<fs, loaded>>
    BY <1>3, <2>5, Zenon
  <2> QED
    BY <2>3, <2>4, <2>5, Zenon DEF LoadRequest, s
<1> QED
  BY <1>3, <1>4, Zenon DEF LoadRequest

\* One file is written.
LEMMA OneFileKeeps ==
  ASSUME SavedInv, NEW p \in Path, NEW f, IsFile(f), disk' = Put(disk, p, f),
         OnPaths(saved)', \A q \in Path : q # p => saved'[q] = saved[q],
         f.header # None => HeaderOf(f, saved'[p]),
         UNCHANGED <<fs, cfg, loaded>>, DaemonInv'
  PROVE  SavedInv'
<1>1. OnPaths(disk) /\ \A q \in Path : disk[q] = None \/ IsFile(disk[q])
  BY Zenon DEF SavedInv, TypeInv
<1>2. OnPaths(disk') /\ disk'[p] = f /\ \A q \in Path : q # p => disk'[q] = disk[q]
  BY <1>1, PathsExcept
<1>3. TypeInv'
  BY <1>1, <1>2, Zenon DEF SavedInv, TypeInv, OnPaths, IsFile
<1>4. HeaderInv'
  BY <1>2, Zenon DEF SavedInv, HeaderInv
<1>5. LoadedWasSaved'
  BY Zenon DEF SavedInv, LoadedWasSaved
<1> QED
  BY <1>3, <1>4, <1>5, Zenon DEF SavedInv

\* The start of a pickle keeps the invariant.
LEMMA StartPickleKeeps ==
  ASSUME SavedInv, NEW c \in Client, StartPickle(c)
  PROVE  SavedInv'
<1>1. UNCHANGED <<fs, cfg, loaded>>
  BY Zenon DEF StartPickle
<1>2. IsState(fs) /\ cfg \in Path \cup {None} /\ LoadedWasSaved'
  BY <1>1, Zenon DEF SavedInv, TypeInv, LoadedWasSaved
<1>3. CASE Answer(c, FALSE) /\ UNCHANGED <<disk, saved>>
  <2>1. daemon' = Idle /\ UNCHANGED <<disk, saved>>
    BY <1>3, Zenon DEF Answer
  <2> QED
    BY <1>1, <1>2, <2>1, OthersKeep, Zenon
<1>4. CASE /\ cfg # None
           /\ disk' = [disk EXCEPT ![cfg] = [header |-> None, body |-> <<>>]]
           /\ daemon' = [op |-> "pickle", client |-> c, path |-> cfg, pos |-> 0,
                         hash |-> <<>>, todo |-> pickle_file_system(fs)]
           /\ saved' = [saved EXCEPT ![cfg] = fs]
  <2> DEFINE e == <<>>
             f == [header |-> None, body |-> e]
             P == pickle_file_system(fs)
  <2>1. cfg \in Path
    BY <1>2, <1>4, Zenon
  <2>2. IsSequence(P) /\ IsSequence(e) /\ e \o P = P
    BY <1>2, PickledPieces, EmptySequence, Zenon
  <2>3. f.header = None /\ f.body = e
    OBVIOUS
  <2>4. IsFile(f)
    BY <2>2, <2>3, Zenon DEF IsFile
  <2>5. saved' = Put(saved, cfg, fs) /\ disk' = Put(disk, cfg, f)
    BY <1>4, Zenon DEF Put
  <2>6. OnPaths(saved') /\ saved'[cfg] = fs /\ \A q \in Path : q # cfg => saved'[q] = saved[q]
    BY <2>1, <2>5, PathsExcept DEF SavedInv, TypeInv
  <2> HIDE DEF e, P
  <2>7. daemon' = [op |-> "pickle", client |-> c, path |-> cfg, pos |-> 0, hash |-> e, todo |-> P]
    BY <1>4, Zenon DEF e, P
  <2>8. daemon'.client = c /\ daemon'.path = cfg /\ daemon'.pos = 0
        /\ daemon'.hash = e /\ daemon'.todo = P
    BY <2>7
  <2> HIDE DEF f
  <2>9. disk'[cfg] = f
    BY <2>1, <2>5, PathsExcept DEF SavedInv, TypeInv
  <2>10. IsPickling(daemon')
    BY <2>7, <2>8, Zenon DEF IsPickling, Pickling
  <2>11. Progress(daemon', f, fs)
    BY <2>2, <2>8, Zenon DEF Progress, P
  <2>12. DaemonInv'
    BY <1>2, <2>1, <2>3, <2>4, <2>6, <2>8, <2>9, <2>10, <2>11, Zenon DEF DaemonInv
  <2> QED
    BY <1>1, <2>1, <2>3, <2>4, <2>6, <2>12, <2>5, OneFileKeeps, Zenon DEF OnPaths
<1> QED
  BY <1>3, <1>4, Zenon DEF StartPickle

\* The daemon is writing.
LEMMA Writing ==
  ASSUME SavedInv, daemon.op = "pickle"
  PROVE  /\ IsPickling(daemon) /\ daemon.path \in Path
         /\ IsFile(disk[daemon.path]) /\ disk[daemon.path].header = None
         /\ IsState(saved[daemon.path])
         /\ Progress(daemon, disk[daemon.path], saved[daemon.path])
<1>1. daemon # Idle
  BY DEF Idle
<1> QED
  BY <1>1, Zenon DEF SavedInv, DaemonInv

\* What the daemon is doing after a write of the body.
LEMMA WriteKeeps ==
  ASSUME SavedInv, daemon.op = "pickle", NEW f, IsFile(f), f.header = None,
         disk' = Put(disk, daemon.path, f), UNCHANGED <<fs, cfg, saved, loaded>>,
         IsPickling(daemon'), daemon'.path = daemon.path,
         Progress(daemon', f, saved[daemon.path])
  PROVE  SavedInv'
<1> DEFINE p == daemon.path
<1>1. p \in Path /\ IsState(saved[p])
  BY Writing, Zenon
<1>2. OnPaths(disk) /\ OnPaths(saved)
  BY Zenon DEF SavedInv, TypeInv
<1>3. disk'[p] = f
  BY <1>1, <1>2, PathsExcept
<1>4. DaemonInv'
  BY <1>1, <1>3, Zenon DEF DaemonInv
<1> QED
  BY <1>1, <1>2, <1>4, OneFileKeeps, Zenon DEF OnPaths

\* The record of the daemon after a piece, and after a short write.
Wrote(d, t, k, h) == [d EXCEPT !.todo = t, !.pos = k, !.hash = h]
\* The daemon once it has hashed, and once it has moved in the file.
Hashed(d, t, h) == [d EXCEPT !.todo = t, !.hash = h]
Rewound(d, t, k) == [d EXCEPT !.todo = t, !.pos = k]

\* The changes of the daemon's record, field by field.
LEMMA DaemonExcept ==
  ASSUME NEW d, NEW c, NEW p, NEW k0, NEW h0, NEW t0, NEW t, NEW k, NEW h,
         d = Pickling(c, p, k0, h0, t0)
  PROVE  /\ Wrote(d, t, k, h) = Pickling(c, p, k, h, t)
         /\ Hashed(d, t, h) = Pickling(c, p, k0, h, t)
         /\ Rewound(d, t, k) = Pickling(c, p, k, h0, t)
<1> DEFINE d1 == [d EXCEPT !.todo = t]
           d2 == [d1 EXCEPT !.pos = k]
           d3 == [d2 EXCEPT !.hash = h]
           d4 == [d1 EXCEPT !.hash = h]
<1>1. d1 = Pickling(c, p, k0, h0, t)
  BY DEF Pickling
<1> HIDE DEF d1
<1>2. d2 = Pickling(c, p, k, h0, t) /\ d4 = Pickling(c, p, k0, h, t)
  BY <1>1 DEF Pickling
<1> HIDE DEF d2, d4
<1>3. d3 = Pickling(c, p, k, h, t)
  BY <1>2 DEF Pickling
<1>4. /\ d3 = Wrote(d, t, k, h)
      /\ d4 = Hashed(d, t, h) /\ d2 = Rewound(d, t, k)
  BY Zenon DEF d2, d1, d4, Wrote, Hashed, Rewound
<1> QED
  BY <1>2, <1>3, <1>4, Zenon

\* The daemon has written, hashed and left so much.
Moves(d, e, t, k, h) ==
  \/ e = Wrote(d, t, k, h)
  \/ e = Hashed(d, t, h) /\ k = d.pos
  \/ e = Rewound(d, t, k) /\ h = d.hash

\* The daemon pickles to p, at position k, with hash h, with t left to do.
StandsAt(e, p, t, k, h) ==
  IsPickling(e) /\ e.path = p /\ e.todo = t /\ e.pos = k /\ e.hash = h

\* A daemon that moves stands where it moved to.
LEMMA DaemonMoves ==
  ASSUME NEW d, IsPickling(d), NEW e, NEW t, NEW k, NEW h, Moves(d, e, t, k, h)
  PROVE  StandsAt(e, d.path, t, k, h)
<1>1. d = Pickling(d.client, d.path, d.pos, d.hash, d.todo)
  BY DEF IsPickling
<1> DEFINE c == d.client
           p == d.path
           k0 == d.pos
           h0 == d.hash
           t0 == d.todo
<1> HIDE DEF c, p, k0, h0, t0
<1>2. d = Pickling(c, p, k0, h0, t0)
  BY <1>1, Zenon DEF c, p, k0, h0, t0
<1>3. /\ Wrote(d, t, k, h) = Pickling(c, p, k, h, t) /\ Hashed(d, t, h) = Pickling(c, p, k0, h, t)
      /\ Rewound(d, t, k) = Pickling(c, p, k, h0, t)
  BY <1>2, DaemonExcept
<1>4. e = Pickling(d.client, d.path, k, h, t)
  BY <1>3, Zenon DEF Moves, c, p, k0, h0
<1>5. e.client = d.client /\ e.path = d.path /\ e.pos = k /\ e.hash = h /\ e.todo = t
  BY <1>4 DEF Pickling
<1>6. IsPickling(e)
  BY <1>4, <1>5, Zenon DEF IsPickling
<1> QED
  BY <1>5, <1>6, Zenon DEF StandsAt

\* A chunk written to the file, or an error, keeps the invariant.
LEMMA WriteChunkKeeps == ASSUME SavedInv, WriteChunk PROVE SavedInv'
<1> DEFINE p == daemon.path
           f == disk[p]
           s == saved[p]
           x == Head(daemon.todo)
           t == Tail(daemon.todo)
           h == Append(daemon.hash, x)
<1>1. daemon.op = "pickle" /\ daemon.todo # <<>> /\ UNCHANGED <<fs, cfg, saved, loaded>>
  BY Zenon DEF WriteChunk
<1>2. IsPickling(daemon) /\ p \in Path /\ IsFile(f) /\ f.header = None /\ IsState(s)
      /\ Progress(daemon, f, s)
  BY <1>1, Writing, Zenon
<1>3. IsSequence(daemon.hash) /\ IsSequence(daemon.todo)
      /\ daemon.hash \o daemon.todo = pickle_file_system(s)
  BY <1>1, <1>2, Zenon DEF Progress
<1>4. IsSequence(h) /\ IsSequence(t) /\ h \o t = pickle_file_system(s)
  BY <1>1, <1>3, PieceMoves, Zenon
<1>5. OnPaths(disk)
  BY Zenon DEF SavedInv, TypeInv
<1> HIDE DEF p, s, t, h
<1>6. ASSUME NEW k, NEW g, IsFile(g), g.header = None, disk' = Put(disk, p, g),
             Moves(daemon, daemon', t, k, h)
      PROVE  SavedInv'
  <2>1. IsPickling(daemon') /\ daemon'.path = p /\ daemon'.todo = t /\ daemon'.hash = h
    <3>1. StandsAt(daemon', daemon.path, t, k, h)
      BY <1>2, <1>6, DaemonMoves, Zenon
    <3> QED
      BY <3>1, Zenon DEF StandsAt, p
  <2>2. Progress(daemon', g, s)
    BY <1>4, <2>1, Zenon DEF Progress
  <2> QED
    BY <1>1, <1>6, <2>1, <2>2, WriteKeeps, Zenon DEF p, s
<1>7. CASE /\ disk' = [disk EXCEPT ![daemon.path].body = Append(@, Head(daemon.todo))]
           /\ daemon' = [daemon EXCEPT !.todo = Tail(@), !.pos = @ + 1,
                                       !.hash = Append(@, Head(daemon.todo))]
  <2> DEFINE g == [f EXCEPT !.body = Append(@, x)]
             k == daemon.pos + 1
  <2>1. IsFile(g) /\ g.header = None
    BY <1>2, FileWritten, Zenon
  <2>2. disk' = Put(disk, p, g)
    BY <1>7, Zenon DEF Put, p
  <2>3. Moves(daemon, daemon', t, k, h)
    BY <1>7, Zenon DEF t, h, Wrote, Moves
  <2> QED
    BY <1>6, <2>1, <2>2, <2>3, Zenon
<1>8. CASE /\ daemon' = [daemon EXCEPT !.todo = Tail(@), !.hash = Append(@, Head(daemon.todo))]
           /\ UNCHANGED disk
  <2> DEFINE k == daemon.pos
  <2>1. disk' = Put(disk, p, f)
    BY <1>2, <1>5, <1>8, Zenon DEF Put, OnPaths
  <2>2. Moves(daemon, daemon', t, k, h)
    BY <1>8, Zenon DEF t, h, Hashed, Moves
  <2> QED
    BY <1>2, <1>6, <2>1, <2>2, Zenon
<1>9. CASE ShortWrite
  <2> DEFINE y == <<"part">>
             g == [f EXCEPT !.body = Append(@, y)]
             e == <<>>
  <2>1. IsFile(g) /\ g.header = None /\ Len(g.body) > 0
    BY <1>2, FileWritten, Zenon
  <2>2. disk' = Put(disk, p, g)
    BY <1>9, Zenon DEF ShortWrite, Put, p
  <2>3. Moves(daemon, daemon', e, 0, daemon.hash)
    BY <1>9, Zenon DEF ShortWrite, Rewound, Moves
  <2> HIDE DEF e, y
  <2>4. IsPickling(daemon') /\ daemon'.path = p /\ daemon'.todo = e /\ daemon'.pos = 0
    <3>1. StandsAt(daemon', daemon.path, e, 0, daemon.hash)
      BY <1>2, <2>3, DaemonMoves, Zenon
    <3> QED
      BY <3>1, Zenon DEF StandsAt, p
  <2>5. Progress(daemon', g, s)
    BY <2>1, <2>4, Zenon DEF Progress, e
  <2> QED
    BY <1>1, <2>1, <2>2, <2>4, <2>5, WriteKeeps, Zenon DEF p, s
<1> QED
  BY <1>7, <1>8, <1>9, Zenon DEF WriteChunk

\* The header written at the end, or an error, keeps the invariant.
LEMMA WriteHeaderKeeps == ASSUME SavedInv, WriteHeader PROVE SavedInv'
<1> DEFINE p == daemon.path
           f == disk[p]
           s == saved[p]
<1>1. daemon.op = "pickle" /\ daemon.todo = <<>> /\ daemon' = Idle
      /\ UNCHANGED <<fs, cfg, saved, loaded>>
  BY Zenon DEF WriteHeader, Answer
<1>2. p \in Path /\ IsFile(f) /\ f.header = None /\ IsState(s) /\ Progress(daemon, f, s)
  BY <1>1, Writing, Zenon
<1>3. CASE UNCHANGED disk
  <2>1. IsState(fs') /\ cfg' \in Path \cup {None} /\ LoadedWasSaved'
    BY <1>1, Zenon DEF SavedInv, TypeInv, LoadedWasSaved
  <2> QED
    BY <1>1, <1>3, <2>1, OthersKeep, Zenon
<1>4. CASE disk' = [disk EXCEPT ![daemon.path].header =
                      [fsize |-> daemon.pos, hash |-> daemon.hash]]
  <2> DEFINE header == [fsize |-> daemon.pos, hash |-> daemon.hash]
             g == [f EXCEPT !.header = header]
  <2>1. header.fsize = daemon.pos /\ header.hash = daemon.hash
    OBVIOUS
  <2> HIDE DEF header
  <2>2. IsFile(g) /\ g.header = header /\ g.body = f.body
    BY <1>2, HeaderWritten, Zenon
  <2>3. disk' = Put(disk, p, g)
    BY <1>4, Zenon DEF Put, header
  <2>4. HeaderOf(g, s)
    <3>1. CASE daemon.pos = 0 /\ Len(f.body) > 0
      BY <1>2, <2>1, <2>2, <3>1, Zenon DEF HeaderOf
    <3>2. CASE IsSequence(daemon.hash) /\ daemon.hash \o daemon.todo = pickle_file_system(s)
      <4>1. daemon.hash = pickle_file_system(s)
        BY <1>1, <3>2, EmptySequence, Zenon
      <4> QED
        BY <1>2, <2>1, <2>2, <4>1, Zenon DEF HeaderOf
    <3> QED
      BY <1>2, <3>1, <3>2, Zenon DEF Progress
  <2>5. DaemonInv'
    BY <1>1, Zenon DEF DaemonInv
  <2> HIDE DEF g
  <2>6. OnPaths(saved)' /\ \A q \in Path : q # p => saved'[q] = saved[q]
    BY <1>1, Zenon DEF SavedInv, TypeInv, OnPaths
  <2>7. g.header # None => HeaderOf(g, saved'[p])
    BY <1>1, <2>4, Zenon
  <2> QED
    BY <1>1, <1>2, <2>2, <2>3, <2>5, <2>6, <2>7, OneFileKeeps, Zenon
<1> QED
  BY <1>3, <1>4, Zenon DEF WriteHeader

\* Every step keeps the invariant.
LEMMA NextSaved == SavedInv /\ [Next]_vars => SavedInv'
<1> SUFFICES ASSUME SavedInv, [Next]_vars PROVE SavedInv'
  OBVIOUS
<1>1. CASE UNCHANGED vars
  <2>1. UNCHANGED <<fs, daemon, cfg, disk, saved, loaded>>
    BY <1>1, Zenon DEF vars
  <2>2. IsState(fs') /\ cfg' \in Path \cup {None} /\ LoadedWasSaved'
    BY <2>1, Zenon DEF SavedInv, TypeInv, LoadedWasSaved
  <2> QED
    BY <2>1, <2>2, OthersKeep, Zenon
<1> QED
  BY <1>1, OtherRequestsKeeps, ClientKeeps, StartPickleKeeps, LoadRequestKeeps, WriteChunkKeeps,
     PickleNoMemoryKeeps, WriteHeaderKeeps, StopKeeps, Zenon DEF Next

-----------------------------------------------------------------------------
(* The theorems *)

\* A state file that verify_state_file accepts has all pieces of the state
\* that the last pickling to its path began with, in order.
THEOREM VerifiedFilesAreWhole == Spec => []VerifiedIsWhole
<1>1. SavedInv => VerifiedIsWhole
  BY Verified, Zenon DEF SavedInv, VerifiedIsWhole
<1> QED
  BY <1>1, InitSaved, NextSaved, PTL DEF Spec

\* What load_verifs2 loads completely is the state that the last pickling to
\* that path began with, but for its empty slots, whichever writes failed or
\* came out short and whenever the daemon stopped.
THEOREM LoadGivesBackTheSaved == Spec => []LoadedWasSaved
<1>1. SavedInv => LoadedWasSaved
  BY DEF SavedInv
<1> QED
  BY <1>1, InitSaved, NextSaved, PTL DEF Spec

=============================================================================
