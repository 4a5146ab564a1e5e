--------------------------- MODULE FuseRamFsFacts ---------------------------
(***************************************************************************)
(* What the proofs about FuseRamFs have in common: induction, remainders   *)
(* and sums; the operators of the module; what a handler knows once its    *)
(* checks have passed; and tables whose sizes and blocks are accounted.    *)
(***************************************************************************)
EXTENDS FuseRamFs, FiniteSetTheorems, WellFoundedInduction, Functions, TLAPS

-----------------------------------------------------------------------------
(* Induction *)

\* A set of naturals has a least element.
LEMMA LeastNat ==
  ASSUME NEW T \in SUBSET Nat, T # {}
  PROVE  \E x \in T : \A y \in T : x <= y
<1>1. PICK R : IsWellFoundedOn(R, Nat) /\ \A x, y \in Nat : <<y, x>> \in R <=> y < x
  <2>1. IsWellFoundedOn(OpToRel(<, Nat), Nat)
    BY NatLessThanWellFounded
  <2>2. \A x, y \in Nat : <<y, x>> \in OpToRel(<, Nat) <=> y < x
    BY DEF OpToRel
  <2> QED
    BY <2>1, <2>2, Zenon
<1>2. PICK x \in T : \A y \in T : ~(<<y, x>> \in R)
  BY <1>1, WFMin, Zenon
<1>3. ASSUME NEW y \in T PROVE x <= y
  <2>1. x \in Nat /\ y \in Nat
    OBVIOUS
  <2>2. ~(y < x)
    BY <1>1, <1>2, <2>1, Zenon
  <2> QED
    BY <2>1, <2>2
<1> QED
  BY <1>3

\* A set with 0, and with n + 1 for each n it has, has all naturals.
LEMMA NatSetInduction ==
  ASSUME NEW T, 0 \in T, \A n \in Nat : n \in T => n + 1 \in T
  PROVE  Nat \subseteq T
<1> DEFINE U == Nat \ T
<1>1. SUFFICES ASSUME U # {} PROVE FALSE
  OBVIOUS
<1>2. PICK x \in U : \A y \in U : x <= y
  BY <1>1, LeastNat, Zenon
<1>3. x # 0 /\ x - 1 \in Nat
  OBVIOUS
<1>4. x - 1 \in T
  BY <1>2, <1>3
<1>5. (x - 1) + 1 = x
  BY <1>2
<1> QED
  BY <1>2, <1>3, <1>4, <1>5

-----------------------------------------------------------------------------
(* Remainders *)

\* A number and its remainder differ by a multiple; whatever differs from a
\* small number by a multiple has it as remainder.
LEMMA Remainder ==
  ASSUME NEW m \in Nat \ {0}, NEW x \in Int
  PROVE  \E q \in Int : x = (x % m) + m * q /\ x % m \in 0..(m - 1)
<1>1. x \div m \in Int /\ x % m \in 0..(m - 1) /\ x % m = x - m * (x \div m)
  OBVIOUS
<1>2. \A q, r \in Int : r = x - m * q => x = r + m * q
  OBVIOUS
<1>3. x % m \in Int
  OBVIOUS
<1>4. x = (x % m) + m * (x \div m)
  BY <1>1, <1>2, <1>3, Zenon
<1> QED
  BY <1>1, <1>4, Zenon

\* A small number is the remainder of what differs from it by a multiple.
LEMMA RemainderOf ==
  ASSUME NEW m \in Nat \ {0}, NEW r \in 0..(m - 1), NEW q \in Int
  PROVE  (r + m * q) % m = r
  OBVIOUS

\* A remainder can be taken before an addition and again after it.
LEMMA RemainderAdd ==
  ASSUME NEW m \in Nat \ {0}, NEW x \in Int, NEW y \in Int
  PROVE  ((x % m) + y) % m = (x + y) % m
<1>1. PICK q \in Int : x = (x % m) + m * q /\ x % m \in 0..(m - 1)
  BY Remainder
<1> DEFINE r == x % m
           z == r + y
           s == z % m
<1>2. r \in Int /\ z \in Int
  BY <1>1
<1> HIDE DEF r, z
<1>3. PICK p \in Int : z = s + m * p /\ s \in 0..(m - 1)
  BY <1>2, Remainder
<1> HIDE DEF s
<1>4. x = r + m * q /\ z = r + y
  BY <1>1, Zenon DEF r, z
<1>5. q + p \in Int /\ m * (q + p) = m * q + m * p /\ m * q \in Int /\ m * p \in Int
  OBVIOUS
<1>6. x + y = s + m * (q + p)
  BY <1>2, <1>3, <1>4, <1>5
<1>7. (s + m * (q + p)) % m = s
  BY <1>3, <1>5, RemainderOf, Zenon
<1> QED
  BY <1>6, <1>7, Zenon DEF s, z, r

-----------------------------------------------------------------------------
(* Sums *)

\* The element of s that the fold of the library takes first.
Pick(s) == CHOOSE x \in s : TRUE

\* One step of the fold, and the fold's table of the sums over the subsets.
Term(f, g, s) == IF s = {} THEN 0 ELSE f[Pick(s)] + g[s \ {Pick(s)}]
SumTable(f, g, S) == g = [s \in SUBSET S |-> Term(f, g, s)]

\* The library's sum over S is the entry for S of the table of sums.
LEMMA SumIsTable ==
  ASSUME NEW f, NEW S
  PROVE  SumFunctionOnSet(f, S) = (CHOOSE g : SumTable(f, g, S))[S]
  BY Zenon DEF SumFunctionOnSet, FoldFunctionOnSet, MapThenFoldSet, SumTable, Term, Pick

\* The element picked is in the set.
LEMMA PickIn == ASSUME NEW s, s # {} PROVE Pick(s) \in s
  BY Zenon DEF Pick

\* f has integers on S, a finite set.
Summable(f, S) == IsFiniteSet(S) /\ \A x \in S : f[x] \in Int

\* What is left of a finite set once an element is picked is smaller.
LEMMA SubsetSize ==
  ASSUME NEW S, IsFiniteSet(S), NEW s \in SUBSET S
  PROVE  /\ IsFiniteSet(s) /\ Cardinality(s) \in Nat
         /\ (s = {} <=> Cardinality(s) = 0)
         /\ \A x \in s : s \ {x} \in SUBSET S /\ Cardinality(s \ {x}) = Cardinality(s) - 1
<1>1. IsFiniteSet(s) /\ Cardinality(s) \in Nat
  BY FS_Subset, FS_CardinalityType
<1>2. s = {} <=> Cardinality(s) = 0
  BY <1>1, FS_EmptySet
<1>3. ASSUME NEW x \in s PROVE s \ {x} \in SUBSET S /\ Cardinality(s \ {x}) = Cardinality(s) - 1
  BY <1>1, FS_RemoveElement
<1> QED
  BY <1>1, <1>2, <1>3

\* g has the sums of all subsets of at most k elements.
SumsUpTo(f, g, S, k) ==
  g \in [SUBSET S -> Int] /\ \A s \in SUBSET S : Cardinality(s) <= k => g[s] = Term(f, g, s)

\* One step of the fold gives an integer.
LEMMA TermType ==
  ASSUME NEW f, NEW S, Summable(f, S), NEW g \in [SUBSET S -> Int], NEW s \in SUBSET S
  PROVE  Term(f, g, s) \in Int
<1>1. CASE s = {}
  BY <1>1 DEF Term
<1>2. CASE s # {}
  <2>1. Pick(s) \in S /\ s \ {Pick(s)} \in SUBSET S
    BY <1>2, PickIn
  <2> QED
    BY <1>2, <2>1 DEF Term, Summable
<1> QED
  BY <1>1, <1>2

\* A table with the sums of all subsets of at most k elements exists.
LEMMA SumsExist ==
  ASSUME NEW f, NEW S, Summable(f, S), NEW k \in Nat
  PROVE  \E g : SumsUpTo(f, g, S, k)
<1> DEFINE T == {m \in Nat : \E g : SumsUpTo(f, g, S, m)}
<1>1. 0 \in T
  <2> DEFINE g == [s \in SUBSET S |-> 0]
  <2>1. \A s \in SUBSET S : Cardinality(s) <= 0 => s = {}
    BY SubsetSize DEF Summable
  <2>2. SumsUpTo(f, g, S, 0)
    BY <2>1 DEF SumsUpTo, Term
  <2> QED
    BY <2>2
<1>2. ASSUME NEW m \in Nat, m \in T PROVE m + 1 \in T
  <2>1. PICK g : SumsUpTo(f, g, S, m)
    BY <1>2
  <2> DEFINE h == [s \in SUBSET S |-> Term(f, g, s)]
  <2>2. g \in [SUBSET S -> Int] /\ \A s \in SUBSET S : Term(f, g, s) \in Int
    BY <2>1, TermType DEF SumsUpTo
  <2>3. h \in [SUBSET S -> Int] /\ \A s \in SUBSET S : h[s] = Term(f, g, s)
    BY <2>2
  <2>4. ASSUME NEW s \in SUBSET S, Cardinality(s) <= m + 1 PROVE h[s] = Term(f, h, s)
    <3>1. CASE s = {}
      BY <2>3, <3>1 DEF Term
    <3>2. CASE s # {}
      <4> DEFINE r == s \ {Pick(s)}
      <4>1. r \in SUBSET S /\ Cardinality(r) <= m
        <5>1. Pick(s) \in s
          BY <3>2, PickIn, Zenon
        <5>2. Cardinality(s) \in Nat /\ r \in SUBSET S /\ Cardinality(r) = Cardinality(s) - 1
          BY <5>1, SubsetSize DEF Summable
        <5> QED
          BY <2>4, <5>2
      <4>2. h[r] = g[r]
        BY <2>1, <2>3, <4>1 DEF SumsUpTo
      <4> HIDE DEF h
      <4> QED
        BY <2>3, <3>2, <4>2 DEF Term
    <3> QED
      BY <3>1, <3>2
  <2> HIDE DEF h
  <2>5. SumsUpTo(f, h, S, m + 1)
    BY <2>3, <2>4 DEF SumsUpTo
  <2> QED
    BY <2>5
<1>3. k \in T
  <2> HIDE DEF T
  <2> QED
    BY <1>1, <1>2, NatSetInduction
<1> QED
  BY <1>3

\* A table with the sums of all subsets exists, so the library's CHOOSE has one.
LEMMA TableExists ==
  ASSUME NEW f, NEW S, Summable(f, S)
  PROVE  \E g : SumTable(f, g, S) /\ g \in [SUBSET S -> Int]
<1>1. Cardinality(S) \in Nat
  BY FS_CardinalityType DEF Summable
<1>2. PICK g : SumsUpTo(f, g, S, Cardinality(S))
  BY <1>1, SumsExist
<1>3. \A s \in SUBSET S : Cardinality(s) <= Cardinality(S)
  BY FS_Subset DEF Summable
<1>4. \A s \in SUBSET S : g[s] = Term(f, g, s)
  BY <1>2, <1>3 DEF SumsUpTo
<1>5. SumTable(f, g, S)
  BY <1>2, <1>4 DEF SumTable, SumsUpTo
<1> QED
  BY <1>2, <1>5 DEF SumsUpTo

\* Tables for different sets, and for functions that agree, agree.
LEMMA TablesAgree ==
  ASSUME NEW f, NEW e, NEW S, NEW R, NEW g, NEW h, Summable(f, S), R \subseteq S,
         \A x \in R : e[x] = f[x], SumTable(f, g, S), SumTable(e, h, R)
  PROVE  \A s \in SUBSET R : h[s] = g[s]
<1> DEFINE T == {m \in Nat : \A s \in SUBSET R : Cardinality(s) = m => h[s] = g[s]}
<1>1. \A s \in SUBSET R : /\ s \in SUBSET S /\ g[s] = Term(f, g, s) /\ h[s] = Term(e, h, s)
                          /\ Cardinality(s) \in Nat
  <2>1. \A s \in SUBSET R : s \in SUBSET S
    OBVIOUS
  <2>2. \A s \in SUBSET R : g[s] = Term(f, g, s) /\ h[s] = Term(e, h, s)
    BY <2>1, Zenon DEF SumTable
  <2> QED
    BY <2>1, <2>2, SubsetSize, Zenon DEF Summable
<1>2. 0 \in T
  <2>1. \A s \in SUBSET R : Cardinality(s) = 0 => s = {}
    BY <1>1, SubsetSize, Zenon DEF Summable
  <2> QED
    BY <1>1, <2>1 DEF Term
<1>3. ASSUME NEW m \in Nat, m \in T PROVE m + 1 \in T
  <2> SUFFICES ASSUME NEW s \in SUBSET R, Cardinality(s) = m + 1 PROVE h[s] = g[s]
    OBVIOUS
  <2> DEFINE r == s \ {Pick(s)}
  <2>1. s # {}
    BY <1>1, SubsetSize DEF Summable
  <2>2. Pick(s) \in s /\ r \in SUBSET R /\ Cardinality(r) = Cardinality(s) - 1
    BY <1>1, <2>1, PickIn, SubsetSize DEF Summable
  <2>3. h[r] = g[r] /\ e[Pick(s)] = f[Pick(s)]
    BY <1>3, <2>2
  <2> QED
    BY <1>1, <2>1, <2>3, Zenon DEF Term
<1>4. Nat \subseteq T
  <2> HIDE DEF T
  <2> QED
    BY <1>2, <1>3, NatSetInduction
<1> QED
  BY <1>1, <1>4

\* The sum over S is the entry for S of a table of integers.
LEMMA SumIsEntry ==
  ASSUME NEW f, NEW S, Summable(f, S)
  PROVE  \E g : /\ SumTable(f, g, S) /\ g \in [SUBSET S -> Int]
                /\ SumFunctionOnSet(f, S) = g[S]
<1> DEFINE g == CHOOSE g : SumTable(f, g, S)
<1>1. PICK h : SumTable(f, h, S) /\ h \in [SUBSET S -> Int]
  BY TableExists, Zenon
<1>2. SumTable(f, g, S)
  BY <1>1, Zenon
<1>3. SumFunctionOnSet(f, S) = g[S]
  BY SumIsTable, Zenon
<1> HIDE DEF g
<1>4. \A s \in SUBSET S : g[s] = h[s]
  BY <1>1, <1>2, TablesAgree
<1>5. g \in [SUBSET S -> Int]
  BY <1>1, <1>2, <1>4 DEF SumTable
<1> QED
  BY <1>2, <1>3, <1>5

\* The sum of integers is one, and the sum over no set is zero.
LEMMA SumType ==
  ASSUME NEW f, NEW S, Summable(f, S)
  PROVE  SumFunctionOnSet(f, S) \in Int
<1>1. PICK g : g \in [SUBSET S -> Int] /\ SumFunctionOnSet(f, S) = g[S]
  BY SumIsEntry, Zenon
<1> QED
  BY <1>1

\* The sum over no elements is zero.
LEMMA SumEmpty == ASSUME NEW f PROVE SumFunctionOnSet(f, {}) = 0
<1> DEFINE S == {}
<1>1. Summable(f, S)
  BY FS_EmptySet DEF Summable
<1>2. PICK g : SumTable(f, g, S) /\ SumFunctionOnSet(f, S) = g[S]
  BY <1>1, SumIsEntry, Zenon
<1>3. g[S] = Term(f, g, S)
  BY <1>2, Zenon DEF SumTable
<1> QED
  BY <1>2, <1>3 DEF Term

\* Sums of functions that agree on the set are the same.
LEMMA SumSame ==
  ASSUME NEW f, NEW e, NEW S, Summable(f, S), \A x \in S : e[x] = f[x]
  PROVE  SumFunctionOnSet(e, S) = SumFunctionOnSet(f, S)
<1>1. Summable(e, S)
  BY DEF Summable
<1>2. PICK g : SumTable(f, g, S) /\ SumFunctionOnSet(f, S) = g[S]
  BY SumIsEntry, Zenon
<1>3. PICK h : SumTable(e, h, S) /\ SumFunctionOnSet(e, S) = h[S]
  BY <1>1, SumIsEntry, Zenon
<1>4. \A s \in SUBSET S : h[s] = g[s]
  BY <1>2, <1>3, TablesAgree
<1> QED
  BY <1>2, <1>3, <1>4

\* The fold takes the term it picks.
LEMMA SumPick ==
  ASSUME NEW f, NEW S, Summable(f, S), S # {}
  PROVE  SumFunctionOnSet(f, S) = f[Pick(S)] + SumFunctionOnSet(f, S \ {Pick(S)})
<1> DEFINE R == S \ {Pick(S)}
<1>1. PICK g : SumTable(f, g, S) /\ SumFunctionOnSet(f, S) = g[S]
  BY SumIsEntry, Zenon
<1>2. R \subseteq S /\ Summable(f, R)
  BY FS_Subset DEF Summable
<1>3. PICK h : SumTable(f, h, R) /\ SumFunctionOnSet(f, R) = h[R]
  BY <1>2, SumIsEntry, Zenon
<1>4. h[R] = g[R]
  BY <1>1, <1>2, <1>3, TablesAgree
<1>5. g[S] = Term(f, g, S)
  BY <1>1, Zenon DEF SumTable
<1> QED
  BY <1>1, <1>3, <1>4, <1>5 DEF Term

\* Any term of a sum can be taken out of it.
LEMMA SumRemove ==
  ASSUME NEW f, NEW S, Summable(f, S), NEW x \in S
  PROVE  SumFunctionOnSet(f, S) = f[x] + SumFunctionOnSet(f, S \ {x})
<1> DEFINE Sum(s) == SumFunctionOnSet(f, s)
           T == {m \in Nat : \A s \in SUBSET S : Cardinality(s) = m =>
                               \A y \in s : Sum(s) = f[y] + Sum(s \ {y})}
<1>1. \A s \in SUBSET S : Summable(f, s) /\ Sum(s) \in Int /\ Cardinality(s) \in Nat
  <2>1. \A s \in SUBSET S : Summable(f, s)
    BY FS_Subset DEF Summable
  <2>2. \A s \in SUBSET S : Sum(s) \in Int
    BY <2>1, SumType, Zenon
  <2> QED
    BY <2>1, <2>2, FS_CardinalityType DEF Summable
<1>2. \A s \in SUBSET S : s # {} => Sum(s) = f[Pick(s)] + Sum(s \ {Pick(s)})
  BY <1>1, SumPick, Zenon
<1> HIDE DEF Sum
<1>3. 0 \in T
  BY <1>1, SubsetSize DEF Summable
<1>4. ASSUME NEW m \in Nat, m \in T PROVE m + 1 \in T
  <2> SUFFICES ASSUME NEW s \in SUBSET S, Cardinality(s) = m + 1, NEW y \in s
               PROVE  Sum(s) = f[y] + Sum(s \ {y})
    OBVIOUS
  <2> DEFINE c == Pick(s)
  <2>1. c \in s /\ Sum(s) = f[c] + Sum(s \ {c})
    BY <1>2, PickIn
  <2> HIDE DEF c
  <2>2. CASE c = y
    BY <2>1, <2>2
  <2>3. CASE c # y
    <3>1. /\ s \ {c} \in SUBSET S /\ Cardinality(s \ {c}) = m
          /\ s \ {y} \in SUBSET S /\ Cardinality(s \ {y}) = m
      BY <2>1, SubsetSize DEF Summable
    <3>2. y \in s \ {c} /\ c \in s \ {y} /\ (s \ {c}) \ {y} = (s \ {y}) \ {c}
      BY <2>1, <2>3
    <3>3. /\ Sum(s \ {c}) = f[y] + Sum((s \ {c}) \ {y})
          /\ Sum(s \ {y}) = f[c] + Sum((s \ {y}) \ {c})
      BY <1>4, <3>1, <3>2
    <3>4. f[c] \in Int /\ f[y] \in Int /\ Sum((s \ {y}) \ {c}) \in Int
      BY <1>1, <2>1 DEF Summable
    <3> DEFINE rest == Sum((s \ {y}) \ {c})
               noC == Sum(s \ {c})
               noY == Sum(s \ {y})
    <3>5. Sum(s) = f[c] + noC /\ noC = f[y] + rest /\ noY = f[c] + rest
      BY <2>1, <3>2, <3>3, Zenon
    <3>6. f[c] \in Int /\ f[y] \in Int /\ rest \in Int
      BY <3>4, Zenon
    <3> HIDE DEF rest, noC, noY
    <3>7. Sum(s) = f[y] + noY
      BY <3>5, <3>6
    <3> QED
      BY <3>7, Zenon DEF noY
  <2> QED
    BY <2>2, <2>3
<1>5. Nat \subseteq T
  <2> HIDE DEF T
  <2> QED
    BY <1>3, <1>4, NatSetInduction
<1>6. Sum(S) = f[x] + Sum(S \ {x})
  BY <1>1, <1>5
<1> QED
  BY <1>6 DEF Sum

\* A term more.
LEMMA SumAdd ==
  ASSUME NEW f, NEW S, NEW x, x \notin S, Summable(f, S), f[x] \in Int
  PROVE  SumFunctionOnSet(f, S \cup {x}) = f[x] + SumFunctionOnSet(f, S)
<1> DEFINE U == S \cup {x}
<1>1. Summable(f, U) /\ U \ {x} = S /\ x \in U
  BY FS_AddElement DEF Summable
<1> QED
  BY <1>1, SumRemove

\* One term changes.
LEMMA SumChange ==
  ASSUME NEW f, NEW e, NEW S, Summable(f, S), NEW x \in S, e[x] \in Int,
         \A y \in S \ {x} : e[y] = f[y]
  PROVE  SumFunctionOnSet(e, S) = SumFunctionOnSet(f, S) - f[x] + e[x]
<1> DEFINE R == S \ {x}
<1>1. Summable(e, S) /\ Summable(f, R)
  BY FS_Subset DEF Summable
<1>2. SumFunctionOnSet(e, R) = SumFunctionOnSet(f, R) /\ SumFunctionOnSet(f, R) \in Int
  BY <1>1, SumSame, SumType
<1>3. SumFunctionOnSet(e, S) = e[x] + SumFunctionOnSet(e, R)
  BY <1>1, SumRemove
<1>4. SumFunctionOnSet(f, S) = f[x] + SumFunctionOnSet(f, R)
  BY SumRemove
<1>5. f[x] \in Int
  BY DEF Summable
<1> QED
  BY <1>2, <1>3, <1>4, <1>5

-----------------------------------------------------------------------------
(* Sequences *)

\* The elements of a sequence.
LEMMA SeqLen ==
  ASSUME NEW S, NEW s \in Seq(S)
  PROVE  Len(s) \in Nat /\ DOMAIN s = 1..Len(s) /\ \A i \in 1..Len(s) : s[i] \in S
  OBVIOUS

\* A sequence with one more element (push_back, push).
LEMMA SeqAppend ==
  ASSUME NEW S, NEW s \in Seq(S), NEW e \in S
  PROVE  /\ Append(s, e) \in Seq(S) /\ Len(Append(s, e)) = Len(s) + 1
         /\ \A i \in 1..Len(s) : Append(s, e)[i] = s[i]
         /\ Append(s, e)[Len(s) + 1] = e
  OBVIOUS

\* A sequence without its first element (front, pop).
LEMMA SeqTail ==
  ASSUME NEW S, NEW s \in Seq(S), s # <<>>
  PROVE  /\ Len(s) >= 1 /\ Head(s) = s[1]
         /\ Tail(s) \in Seq(S) /\ Len(Tail(s)) = Len(s) - 1
         /\ \A i \in 1..(Len(s) - 1) : Tail(s)[i] = s[i + 1]
  OBVIOUS

\* Two sequences in a row.
LEMMA SeqConcat ==
  ASSUME NEW S, NEW s \in Seq(S), NEW t \in Seq(S)
  PROVE  s \o t \in Seq(S)
  OBVIOUS

\* A sequence with one element replaced (an assignment to a slot).
LEMMA SeqExcept ==
  ASSUME NEW S, NEW s \in Seq(S), NEW i \in 1..Len(s), NEW e \in S
  PROVE  /\ [s EXCEPT ![i] = e] \in Seq(S) /\ Len([s EXCEPT ![i] = e]) = Len(s)
         /\ \A j \in 1..Len(s) : [s EXCEPT ![i] = e][j] = IF j = i THEN e ELSE s[j]
  OBVIOUS

\* The queue with a number that is not in it at its end.
LEMMA AppendQueue ==
  ASSUME NEW S, NEW q \in Seq(S), NEW i \in S, IsInjective(q), i \notin Range(q)
  PROVE  /\ Append(q, i) \in Seq(S)
         /\ IsInjective(Append(q, i))
         /\ Range(Append(q, i)) = Range(q) \cup {i}
<1> DEFINE r == Append(q, i)
<1>1. /\ r \in Seq(S) /\ Len(r) = Len(q) + 1 /\ Len(q) \in Nat
      /\ DOMAIN q = 1..Len(q) /\ DOMAIN r = 1..(Len(q) + 1)
      /\ \A k \in 1..Len(q) : r[k] = q[k]
      /\ r[Len(q) + 1] = i
  BY SeqAppend, SeqLen
<1> HIDE DEF r
<1>2. IsInjective(r)
  BY <1>1 DEF IsInjective, Range
<1>3. Range(r) = Range(q) \cup {i}
  BY <1>1 DEF Range
<1> QED BY <1>1, <1>2, <1>3 DEF r

\* The queue without its first number.
LEMMA PopQueue ==
  ASSUME NEW S, NEW q \in Seq(S), q # <<>>, IsInjective(q)
  PROVE  /\ Tail(q) \in Seq(S) /\ IsInjective(Tail(q))
         /\ Head(q) \in Range(q) /\ Range(Tail(q)) = Range(q) \ {Head(q)}
<1> DEFINE r == Tail(q)
<1>1. /\ r \in Seq(S) /\ Len(q) \in Nat /\ Len(q) >= 1 /\ Len(r) = Len(q) - 1
      /\ DOMAIN q = 1..Len(q) /\ DOMAIN r = 1..(Len(q) - 1)
      /\ \A k \in 1..(Len(q) - 1) : r[k] = q[k + 1]
      /\ Head(q) = q[1]
  BY SeqTail, SeqLen
<1> HIDE DEF r
<1>2. IsInjective(r)
  <2>1. \A j, k \in 1..Len(q) : q[j] = q[k] => j = k
    BY <1>1 DEF IsInjective
  <2>2. ASSUME NEW j \in 1..(Len(q) - 1), NEW k \in 1..(Len(q) - 1), r[j] = r[k]
        PROVE  j = k
    <3>1. j + 1 \in 1..Len(q) /\ k + 1 \in 1..Len(q) /\ q[j + 1] = q[k + 1]
      BY <1>1, <2>2
    <3> QED BY <3>1, <2>1
  <2> QED BY <1>1, <2>2 DEF IsInjective
<1>3. Head(q) \in Range(q)
  BY <1>1 DEF Range
<1>4. ASSUME NEW x \in Range(r) PROVE x \in Range(q) \ {Head(q)}
  <2>1. PICK k \in 1..(Len(q) - 1) : x = q[k + 1]
    BY <1>1 DEF Range
  <2>2. k + 1 \in 1..Len(q) /\ 1 \in 1..Len(q) /\ k + 1 # 1
    BY <1>1
  <2>3. q[k + 1] # q[1]
    BY <1>1, <2>2 DEF IsInjective
  <2> QED BY <1>1, <2>1, <2>2, <2>3 DEF Range
<1>5. ASSUME NEW x \in Range(q) \ {Head(q)} PROVE x \in Range(r)
  <2>1. PICK k \in 1..Len(q) : x = q[k]
    BY <1>1 DEF Range
  <2>2. k - 1 \in 1..(Len(q) - 1)
    BY <1>1, <2>1
  <2>3. r[k - 1] = q[k]
    BY <1>1, <2>2
  <2> QED BY <1>1, <2>1, <2>2, <2>3, Zenon DEF Range
<1> QED BY <1>1, <1>2, <1>3, <1>4, <1>5 DEF r

-----------------------------------------------------------------------------
(* The operators *)

\* Arithmetic on an unsigned counter yields an unsigned counter.
LEMMA WordType == \A x \in Int : Word(x) \in 0..(Modulus - 1)
  BY CapacityAssumption DEF Word

\* A counter that is in range is left as it is.
LEMMA WordId == \A x \in 0..(Modulus - 1) : Word(x) = x
  BY CapacityAssumption DEF Word

\* A block count (get_nblocks) is an integer.
LEMMA BlocksType == \A x \in Int : get_nblocks(x) \in Int
  BY DEF get_nblocks, BufBlockSize

\* The blank record of an empty slot is an inode record.
LEMMA NullInodeType == NullInode \in Inode
  BY CapacityAssumption DEF NullInode, Inode, Kind, NoChildren, INO_NOTFOUND

\* An inode record has the fields of the C++ object, each with its type.
LEMMA InodeFields ==
  ASSUME NEW e \in Inode
  PROVE  /\ e.kind \in Kind /\ e.nlink \in 0..(Modulus - 1) /\ e.nlink \in Int
         /\ e.nlookup \in 0..(Modulus - 1) /\ e.size \in Int /\ e.blocks \in Int
         /\ e.children \in [Name -> Nat]
  BY CapacityAssumption DEF Inode

\* A fresh inode other than a directory has its kind, one link, no lookup.
LEMMA NewNodeType ==
  ASSUME NEW kind \in Kind, NEW size \in Int
  PROVE  /\ NewNode(kind, size) \in Inode
         /\ NewNode(kind, size).kind = kind
         /\ NewNode(kind, size).nlink = 1
         /\ NewNode(kind, size).nlookup = 0
         /\ NewNode(kind, size).children = NoChildren
         /\ NewNode(kind, size).blocks \in Int
<1>1. NoChildren \in [Name -> Nat] /\ INO_NOTFOUND \in Nat
  BY DEF NoChildren, INO_NOTFOUND
<1>2. get_nblocks(size) \in Int
  BY BlocksType
<1>3. 1 \in 0..(Modulus - 1) /\ 0 \in 0..(Modulus - 1)
  BY CapacityAssumption
<1> QED
  BY <1>1, <1>2, <1>3 DEF NewNode, Inode

\* A fresh directory has two links and no lookup.
LEMMA NewDirectoryType ==
  ASSUME NEW p \in Nat
  PROVE  /\ NewDirectory(p) \in Inode
         /\ NewDirectory(p).kind = "dir"
         /\ NewDirectory(p).nlink = 2
         /\ NewDirectory(p).nlookup = 0
         /\ NewDirectory(p).children = NoChildren
         /\ NewDirectory(p).blocks \in Int
<1>1. EmptyDirSize \in Int
  BY DEF EmptyDirSize, BaseDirSize, EntrySize
<1>2. "dir" \in Kind
  BY DEF Kind
<1> DEFINE node == NewNode("dir", EmptyDirSize)
<1>3. /\ node \in Inode /\ node.kind = "dir" /\ node.nlookup = 0
      /\ node.children = NoChildren /\ node.blocks \in Int
  BY <1>1, <1>2, NewNodeType
<1>4. 2 \in 0..(Modulus - 1)
  BY CapacityAssumption
<1>5. NewDirectory(p) = [node EXCEPT !.nlink = 2, !.dotdot = p]
  BY DEF NewDirectory
<1> HIDE DEF node
<1> QED
  BY <1>3, <1>4, <1>5, Zenon DEF Inode

\* The nodes that the handlers create.
NewNodes == {node \in Inode : /\ node.kind # "null" /\ node.nlink # 0
                              /\ node.nlookup = 0 /\ node.children = NoChildren}

\* The nodes that the creating handlers register are inode records with a link.
LEMMA NewNodesType ==
  /\ \A kind \in MknodKind : NewNode(kind, 0) \in NewNodes
  /\ \A len \in LinkLen : NewSymLink(len) \in NewNodes
  /\ NewFile \in NewNodes
  /\ \A p \in Nat : NewDirectory(p) \in NewNodes
<1>1. ASSUME NEW kind \in Kind \ {"null"}, NEW size \in Int
      PROVE  NewNode(kind, size) \in NewNodes
  BY NewNodeType DEF NewNodes
<1>2. \A kind \in MknodKind : kind \in Kind \ {"null"}
  BY BoundAssumption DEF Kind
<1>3. "symlink" \in Kind \ {"null"} /\ "file" \in Kind \ {"null"}
  BY DEF Kind
<1>4. \A len \in LinkLen : len \in Int
  BY BoundAssumption
<1>5. \A p \in Nat : NewDirectory(p) \in NewNodes
  BY NewDirectoryType DEF NewNodes
<1> QED
  BY <1>1, <1>2, <1>3, <1>4, <1>5 DEF NewSymLink, NewFile

\* The size that _AddChild and _RemoveChild compute for an entry is an integer.
LEMMA ElemSizeType == \A n \in Name : ElemSize(n) \in Int
  BY NameAssumption DEF ElemSize, EntrySize

\* Adding an entry changes that entry, the size and the blocks.
LEMMA AddChildType ==
  ASSUME NEW d \in Inode, NEW n \in Name, NEW i \in Nat
  PROVE  /\ AddChild(d, n, i) \in Inode
         /\ AddChild(d, n, i).kind = d.kind
         /\ AddChild(d, n, i).nlink = d.nlink
         /\ AddChild(d, n, i).nlookup = d.nlookup
         /\ AddChild(d, n, i).children = [d.children EXCEPT ![n] = i]
         /\ AddChild(d, n, i).blocks \in Int
<1>1. get_nblocks(d.size + ElemSize(n)) \in Int /\ d.size + ElemSize(n) \in Int
  BY BlocksType, ElemSizeType DEF Inode
<1>2. [d.children EXCEPT ![n] = i] \in [Name -> Nat]
  BY DEF Inode
<1> QED
  BY <1>1, <1>2, Zenon DEF AddChild, UpdateSize, Inode

\* So does removing one.
LEMMA RemoveChildType ==
  ASSUME NEW d \in Inode, NEW n \in Name
  PROVE  /\ RemoveChild(d, n) \in Inode
         /\ RemoveChild(d, n).kind = d.kind
         /\ RemoveChild(d, n).nlink = d.nlink
         /\ RemoveChild(d, n).nlookup = d.nlookup
         /\ RemoveChild(d, n).children = [d.children EXCEPT ![n] = INO_NOTFOUND]
         /\ BlocksReturned(d, n) \in Int
<1>1. get_nblocks(d.size + -ElemSize(n)) \in Int /\ d.size + -ElemSize(n) \in Int
  BY BlocksType, ElemSizeType DEF Inode
<1>2. [d.children EXCEPT ![n] = INO_NOTFOUND] \in [Name -> Nat]
  BY DEF Inode, INO_NOTFOUND
<1>3. /\ RemoveChild(d, n) \in Inode
      /\ RemoveChild(d, n).kind = d.kind
      /\ RemoveChild(d, n).nlink = d.nlink
      /\ RemoveChild(d, n).nlookup = d.nlookup
      /\ RemoveChild(d, n).children = [d.children EXCEPT ![n] = INO_NOTFOUND]
  BY <1>1, <1>2, Zenon DEF RemoveChild, UpdateSize, Inode
<1>4. BlocksReturned(d, n) \in Int
  BY <1>3 DEF BlocksReturned, Inode
<1> QED
  BY <1>3, <1>4

-----------------------------------------------------------------------------
(* What the handlers know once their checks have passed *)

\* The reply of success is a sequence of replies.
LEMMA OkType == <<"OK">> \in Seq(Reply)
  BY DEF Reply

\* The checks of a parent directory answer with a reply.
LEMMA ParentErrnoType == \A p \in Nat : ParentErrno(p) \in Reply
  BY DEF ParentErrno, Reply

\* AddChildErrno is a reply.
LEMMA AddChildErrnoType ==
  \A d, free : \A n \in Name : AddChildErrno(d, n, free) \in Reply
  BY DEF AddChildErrno, Reply

\* The replies that symlink makes before it goes on.
LEMMA WarningsType == \A n \in Name : SymlinkWarnings(n) \in Seq(Reply)
<1> SUFFICES ASSUME NEW n \in Name PROVE SymlinkWarnings(n) \in Seq(Reply)
  OBVIOUS
<1> DEFINE a == IF CheckHasSpaceFor(NullInode, NameLen[n], f_bfree)
                THEN <<>> ELSE <<"ENOSPC">>
           b == IF f_ffree = 0 THEN <<"ENOSPC">> ELSE <<>>
<1>1. "ENOSPC" \in Reply
  BY DEF Reply
<1>2. <<>> \in Seq(Reply) /\ <<"ENOSPC">> \in Seq(Reply)
  BY <1>1
<1>3. a \in Seq(Reply) /\ b \in Seq(Reply)
  BY <1>2
<1>4. SymlinkWarnings(n) = a \o b
  BY DEF SymlinkWarnings
<1> HIDE DEF a, b
<1> QED BY <1>3, <1>4, SeqConcat

\* What the invariant says of one slot.
LEMMA SlotFacts ==
  ASSUME TableInv
  PROVE  /\ Len(Inodes) \in Nat /\ DOMAIN Inodes = 1..Len(Inodes)
         /\ Root \in 1..Len(Inodes) /\ Root \in Ino
         /\ \A i \in 1..Len(Inodes) :
              /\ i \in Ino /\ i \in Nat
              /\ Inodes[i] \in Inode
              /\ GetInode(i) = Inodes[i]
              /\ Inodes[i].nlookup = kref[i]
              /\ kref[i] \in 0..MaxLookup
              /\ Inodes[i].kind = "null" => Inodes[i] = NullInode
              /\ Inodes[i].nlink # 0 => Inodes[i].kind # "null"
              /\ kref[i] > 0 => Inodes[i].kind # "null"
         /\ \A i : i \notin 1..Len(Inodes) => GetInode(i) = NullInode
         /\ NullInode.nlink = 0 /\ NullInode.nlookup = 0 /\ NullInode.kind = "null"
<1> USE DEF TableInv, TypeOK
<1>1. Len(Inodes) \in Nat /\ DOMAIN Inodes = 1..Len(Inodes)
  BY SeqLen
<1>2. Root \in 1..Len(Inodes) /\ Root \in Ino
  BY CapacityAssumption DEF Root, Ino
<1>3. NullInode.nlink = 0 /\ NullInode.nlookup = 0 /\ NullInode.kind = "null"
  BY DEF NullInode
<1>4. ASSUME NEW i \in 1..Len(Inodes)
      PROVE  /\ i \in Ino /\ i \in Nat
             /\ Inodes[i] \in Inode
             /\ GetInode(i) = Inodes[i]
             /\ Inodes[i].nlookup = kref[i]
             /\ kref[i] \in 0..MaxLookup
             /\ Inodes[i].kind = "null" => Inodes[i] = NullInode
  <2>1. i \in Ino /\ i \in Nat
    BY <1>1, CapacityAssumption DEF Ino
  <2>2. Inodes[i] \in Inode /\ GetInode(i) = Inodes[i]
    BY <1>1, SeqLen DEF GetInode
  <2>3. Inodes[i].kind = "null" => Inodes[i] = NullInode
    BY <1>1 DEF TableShape
  <2> QED
    BY <2>1, <2>2, <2>3 DEF LookupsAgree
<1>5. \A i : i \notin 1..Len(Inodes) => GetInode(i) = NullInode
  BY <1>1 DEF GetInode
<1>6. \A i \in 1..Len(Inodes) : /\ Inodes[i].nlink # 0 => Inodes[i].kind # "null"
                                /\ kref[i] > 0 => Inodes[i].kind # "null"
  BY <1>3, <1>4
<1> QED
  BY <1>1, <1>2, <1>3, <1>4, <1>5, <1>6

\* A parent that passes its checks is a directory of the table with links.
LEMMA ParentFacts ==
  ASSUME TableInv, NEW p \in Ino, ParentErrno(p) = "OK"
  PROVE  /\ p \in 1..Len(Inodes) /\ Inodes[p].kind = "dir" /\ Inodes[p].nlink # 0
         /\ Inodes[p] \in Inode
  BY SlotFacts DEF ParentErrno, HasNoLinks

\* The number found for a name is that of a slot, not the root's, or none.
LEMMA ChildFacts ==
  ASSUME TableInv, NEW p \in Ino, NEW n \in Name
  PROVE  /\ ChildInodeNumberWithName(p, n) \in (0..Len(Inodes)) \ {Root}
         /\ ChildInodeNumberWithName(p, n) \in Nat
         /\ p \in 1..Len(Inodes) =>
              ChildInodeNumberWithName(p, n) = Inodes[p].children[n]
<1>1. CASE p \in 1..Len(Inodes)
  BY <1>1, SlotFacts DEF ChildInodeNumberWithName, TableInv, TableShape
<1>2. CASE p \notin 1..Len(Inodes)
  BY <1>2, SlotFacts DEF ChildInodeNumberWithName, NullInode, NoChildren, INO_NOTFOUND, Root
<1> QED
  BY <1>1, <1>2

\* A number that is not the root's and known, or that has links, is of an inode.
LEMMA InUse ==
  ASSUME TableInv, NEW i \in Nat, GetInode(i).nlink # 0 \/ (i \in Ino /\ kref[i] > 0)
  PROVE  /\ i \in 1..Len(Inodes) /\ Inodes[i] \in Inode /\ Inodes[i].kind # "null"
         /\ GetInode(i) = Inodes[i]
<1>1. CASE GetInode(i).nlink # 0
  BY <1>1, SlotFacts
<1>2. CASE i \in Ino /\ kref[i] > 0
  <2>1. GetInode(i).nlookup = kref[i]
    BY <1>2 DEF TableInv, LookupsAgree
  <2>2. i \in 1..Len(Inodes)
    BY <1>2, <2>1, SlotFacts
  <2> QED
    BY <1>2, <2>2, SlotFacts
<1> QED
  BY <1>1, <1>2

\* What the kernel and the handler have checked when rename changes the table.
RenameAllowed(p, n, q, m) ==
  /\ p \in 1..Len(Inodes) /\ Inodes[p].kind # "null" /\ Knows(p)
  /\ q \in 1..Len(Inodes) /\ Inodes[q].kind # "null" /\ Knows(q)
  /\ ChildInodeNumberWithName(p, n) \in (0..Len(Inodes)) \ {Root}
  /\ Inodes[p] \in Inode /\ Inodes[q] \in Inode

\* When RenameErrno finds nothing wrong, both parents are directories and the
\* source is an inode of the table.
LEMMA RenameAllows ==
  ASSUME TableInv, NEW p \in Ino, NEW n \in Name, NEW q \in Ino, NEW m \in Name,
         FuseRename(p, n, q, m), RenameErrno(p, n, q, m) = "OK"
  PROVE  RenameAllowed(p, n, q, m)
<1>1. GetInode(p).nlink # 0 /\ GetInode(q).nlink # 0
  BY DEF RenameErrno, HasNoLinks
<1>2. p \in Nat /\ q \in Nat
  BY CapacityAssumption DEF Ino
<1>3. Knows(p) /\ Knows(q)
  BY Zenon DEF FuseRename, KernelRenames, KernelWalks
<1> QED
  BY <1>1, <1>2, <1>3, InUse, ChildFacts DEF RenameAllowed

\* The length of the table once an inode has been registered.
NewLen == IF DeletedInodes = <<>> THEN Len(Inodes) + 1 ELSE Len(Inodes)

\* While inodes are free there is a slot for another one: with an empty queue
\* every slot is in use, so the table is shorter than f_files allows.
LEMMA NewSlotFacts ==
  ASSUME TableInv, f_ffree # 0
  PROVE  /\ NewIno \in 1..NewLen /\ NewLen \in Ino /\ NewLen \in Nat
         /\ NewIno \in Ino /\ NewIno \notin Live /\ NewIno # Root /\ kref[NewIno] = 0
         /\ 1..NewLen = (1..Len(Inodes)) \cup {NewIno}
         /\ DeletedInodesLeft \in Seq(Ino) /\ IsInjective(DeletedInodesLeft)
         /\ Range(DeletedInodesLeft) = ((1..Len(Inodes)) \ Live) \ {NewIno}
<1>1. /\ Len(Inodes) \in Nat /\ DOMAIN Inodes = 1..Len(Inodes) /\ Len(Inodes) \in Ino
      /\ Root \in Live
  BY SlotFacts DEF TableInv, TypeOK, Live, TableShape
<1>2. /\ DeletedInodes \in Seq(Ino) /\ IsInjective(DeletedInodes)
      /\ Range(DeletedInodes) = (1..Len(Inodes)) \ Live
  BY <1>1 DEF TableInv, TypeOK, QueueHoldsEmptySlots
<1>3. CASE DeletedInodes = <<>>
  <2>1. Range(DeletedInodes) = {}
    BY <1>3 DEF Range
  <2>2. Live = 1..Len(Inodes)
    BY <1>1, <1>2, <2>1 DEF Live
  <2>3. Cardinality(Live) = Len(Inodes)
    BY <2>2, <1>1, FS_Interval
  <2>4. Len(Inodes) + 1 \in Ino
    <3>1. f_ffree \in Nat /\ f_ffree + Len(Inodes) + 1 = Files
      BY <2>3 DEF TableInv, FreeInodesAccounted, TypeOK
    <3> QED BY <3>1, <1>1, CapacityAssumption DEF Ino
  <2>5. NewIno = Len(Inodes) + 1 /\ NewLen = Len(Inodes) + 1 /\ DeletedInodesLeft = <<>>
    BY <1>3 DEF NewIno, NewLen, DeletedInodesLeft
  <2>6. kref[Len(Inodes) + 1] = 0
    <3>1. GetInode(Len(Inodes) + 1) = NullInode
      BY <1>1, SlotFacts
    <3> QED BY <3>1, <2>4, SlotFacts DEF TableInv, LookupsAgree
  <2>7. Len(Inodes) + 1 # Root
    BY <1>1, SlotFacts DEF Root
  <2>8. Range(DeletedInodesLeft) = ((1..Len(Inodes)) \ Live) \ {NewIno}
    BY <1>2, <1>3, <2>1, <2>5
  <2> QED BY <1>1, <1>2, <1>3, <2>2, <2>4, <2>5, <2>6, <2>7, <2>8
<1>4. CASE DeletedInodes # <<>>
  <2> DEFINE h == Head(DeletedInodes)
             t == Tail(DeletedInodes)
  <2>1. NewIno = h /\ NewLen = Len(Inodes) /\ DeletedInodesLeft = t
    BY <1>4 DEF NewIno, NewLen, DeletedInodesLeft
  <2>2. t \in Seq(Ino) /\ IsInjective(t) /\ h \in Range(DeletedInodes)
        /\ Range(t) = Range(DeletedInodes) \ {h}
    BY <1>2, <1>4, PopQueue
  <2> HIDE DEF h, t
  <2>3. h \in 1..Len(Inodes) /\ h \notin Live /\ h # Root
    BY <1>1, <1>2, <2>2
  <2>4. kref[h] = 0
    BY <2>3, <1>1, SlotFacts DEF Live
  <2>5. h \in Ino
    BY <2>3, SlotFacts
  <2> QED BY <1>1, <1>2, <2>1, <2>2, <2>3, <2>4, <2>5
<1> QED BY <1>3, <1>4

\* The registered node is in the new slot, the others are as they were.
LEMMA RegisterFacts ==
  ASSUME TableInv, f_ffree # 0, NEW node \in Inode
  PROVE  /\ RegisterInode(node) \in Seq(Inode)
         /\ Len(RegisterInode(node)) = NewLen
         /\ \A j \in 1..NewLen :
              RegisterInode(node)[j] = IF j = NewIno THEN node ELSE Inodes[j]
<1>1. Inodes \in Seq(Inode) /\ Len(Inodes) \in Nat
  BY SlotFacts DEF TableInv, TypeOK
<1>2. CASE DeletedInodes = <<>>
  BY <1>1, <1>2, SeqAppend DEF RegisterInode, NewIno, NewLen
<1>3. CASE DeletedInodes # <<>>
  <2>1. NewIno \in 1..Len(Inodes) /\ NewIno = Head(DeletedInodes) /\ NewLen = Len(Inodes)
    BY <1>3, NewSlotFacts DEF NewIno, NewLen
  <2>2. RegisterInode(node) = [Inodes EXCEPT ![NewIno] = node]
    BY <1>3, <2>1 DEF RegisterInode
  <2> QED BY <1>1, <2>1, <2>2, SeqExcept
<1> QED BY <1>2, <1>3

-----------------------------------------------------------------------------
(* Sizes and blocks *)

\* Word does not tell what has wrapped before from what wraps now.
LEMMA WordAdd == \A x, y \in Int : Word(Word(x) + y) = Word(x + y)
<1>1. Modulus \in Nat \ {0}
  BY CapacityAssumption
<1> QED
  BY <1>1, RemainderAdd, Zenon DEF Word

\* Two charges to f_bfree come to one charge of their sum.
LEMMA WordCharges == \A f, a, b \in Int : Word(Word(f - a) - b) = Word(f - (a + b))
<1> SUFFICES ASSUME NEW f \in Int, NEW a \in Int, NEW b \in Int
             PROVE  Word(Word(f - a) - b) = Word(f - (a + b))
  BY Zenon
<1>1. f - a \in Int /\ -b \in Int /\ (f - a) + (-b) = f - (a + b)
  OBVIOUS
<1>2. Word(f - a) \in 0..(Modulus - 1)
  BY <1>1, WordType
<1>3. Word(f - a) - b = Word(f - a) + (-b)
  BY <1>2, CapacityAssumption
<1>4. Word(Word(f - a) + (-b)) = Word((f - a) + (-b))
  BY <1>1, WordAdd
<1> QED
  BY <1>1, <1>3, <1>4

\* f_bfree is an integer.
LEMMA FreeBlocks ==
  ASSUME TableInv
  PROVE  f_bfree \in Int
BY CapacityAssumption DEF TableInv, TypeOK

\* Counting one more lookup of a slot leaves a count that fits.
LEMMA LookupWord ==
  ASSUME NEW T \in Seq(Inode), NEW i \in 1..Len(T)
  PROVE  Word(T[i].nlookup + 1) \in 0..(Modulus - 1)
<1>1. T[i] \in Inode
  BY SeqLen
<1>2. T[i].nlookup + 1 \in Int
  BY <1>1, InodeFields, CapacityAssumption
<1> QED
  BY <1>2, WordType, Zenon

\* What SizesAccounted says of one inode.
Sized(e) ==
  /\ e.blocks = get_nblocks(e.size)
  /\ e.kind = "dir" => e.size = EmptyDirSize + EntriesSize(e.children)

\* The blocks of the inodes of a table, as UsedBlocks has them.
Used(T) == SumFunction([i \in DOMAIN T |-> T[i].blocks])

\* A table of inodes with their right sizes, and with u blocks in all.
Booked(T, u) ==
  /\ T \in Seq(Inode) /\ \A i \in 1..Len(T) : Sized(T[i])
  /\ Used(T) = u /\ u \in Int

\* The blocks in use are a sum of integers over the slots of the table.
LEMMA UsedIsSum ==
  ASSUME NEW T \in Seq(Inode)
  PROVE  /\ Used(T) = SumFunctionOnSet([i \in 1..Len(T) |-> T[i].blocks], 1..Len(T))
         /\ Summable([i \in 1..Len(T) |-> T[i].blocks], 1..Len(T))
         /\ Used(T) \in Int
<1> DEFINE f == [i \in 1..Len(T) |-> T[i].blocks]
<1>1. Len(T) \in Nat /\ DOMAIN T = 1..Len(T) /\ DOMAIN f = 1..Len(T)
  BY SeqLen
<1>2. Used(T) = SumFunctionOnSet(f, 1..Len(T))
  BY <1>1 DEF Used, SumFunction
<1>3. \A i \in 1..Len(T) : f[i] \in Int
  BY SeqLen, InodeFields
<1>4. Summable(f, 1..Len(T))
  BY <1>1, <1>3, FS_Interval DEF Summable
<1> QED
  BY <1>2, <1>4, SumType

\* A slot is assigned to.
LEMMA BookedExcept ==
  ASSUME NEW T, NEW u, Booked(T, u), NEW i \in 1..Len(T), NEW e \in Inode, Sized(e)
  PROVE  /\ Booked([T EXCEPT ![i] = e], u - T[i].blocks + e.blocks)
         /\ Len([T EXCEPT ![i] = e]) = Len(T)
         /\ \A j \in 1..Len(T) : [T EXCEPT ![i] = e][j] = IF j = i THEN e ELSE T[j]
<1> DEFINE U == [T EXCEPT ![i] = e]
           f == [j \in 1..Len(T) |-> T[j].blocks]
           g == [j \in 1..Len(U) |-> U[j].blocks]
<1>1. T \in Seq(Inode) /\ Used(T) = u /\ u \in Int
  BY DEF Booked
<1>2. /\ U \in Seq(Inode) /\ Len(U) = Len(T)
      /\ \A j \in 1..Len(T) : U[j] = IF j = i THEN e ELSE T[j]
  BY <1>1, SeqExcept
<1> HIDE DEF U
<1>3. \A j \in 1..Len(U) : Sized(U[j])
  BY <1>2 DEF Booked
<1>4. T[i] \in Inode /\ T[i].blocks \in Int /\ e.blocks \in Int
  BY <1>1, SeqLen, InodeFields
<1>5. /\ f[i] = T[i].blocks /\ g[i] = e.blocks
      /\ \A j \in (1..Len(T)) \ {i} : g[j] = f[j]
  BY <1>2
<1>6. /\ Used(T) = SumFunctionOnSet(f, 1..Len(T)) /\ Summable(f, 1..Len(T))
      /\ Used(U) = SumFunctionOnSet(g, 1..Len(T))
  BY <1>1, <1>2, UsedIsSum
<1> HIDE DEF f, g
<1>7. Used(U) = u - T[i].blocks + e.blocks
  BY <1>1, <1>4, <1>5, <1>6, SumChange
<1> QED
  BY <1>1, <1>2, <1>3, <1>4, <1>7 DEF Booked, U

\* The table with slot i assigned to.
With(T, i, e) == [T EXCEPT ![i] = e]

\* Assigning a slot changes the blocks in use by the difference.
LEMMA BookedWith ==
  ASSUME NEW T, NEW u, Booked(T, u), NEW i \in 1..Len(T), NEW e \in Inode, Sized(e)
  PROVE  Booked(With(T, i, e), u - T[i].blocks + e.blocks)
  BY BookedExcept DEF With

\* A slot is appended.
LEMMA BookedAppend ==
  ASSUME NEW T, NEW u, Booked(T, u), NEW e \in Inode, Sized(e)
  PROVE  Booked(Append(T, e), u + e.blocks)
<1> DEFINE U == Append(T, e)
           f == [j \in 1..Len(T) |-> T[j].blocks]
           g == [j \in 1..Len(U) |-> U[j].blocks]
           k == Len(T) + 1
<1>1. T \in Seq(Inode) /\ Used(T) = u /\ u \in Int /\ Len(T) \in Nat
  BY SeqLen DEF Booked
<1>2. /\ U \in Seq(Inode) /\ Len(U) = k /\ U[k] = e
      /\ \A j \in 1..Len(T) : U[j] = T[j]
  BY <1>1, SeqAppend
<1> HIDE DEF U
<1>3. 1..k = (1..Len(T)) \cup {k} /\ k \notin 1..Len(T) /\ k \in 1..k
  BY <1>1
<1> HIDE DEF k
<1>4. \A j \in 1..Len(U) : Sized(U[j])
  BY <1>2, <1>3 DEF Booked
<1>5. e.blocks \in Int
  BY InodeFields
<1>6. g[k] = e.blocks /\ \A j \in 1..Len(T) : g[j] = f[j]
  BY <1>2, <1>3
<1>7. /\ Used(T) = SumFunctionOnSet(f, 1..Len(T)) /\ Summable(f, 1..Len(T))
      /\ Used(U) = SumFunctionOnSet(g, (1..Len(T)) \cup {k})
  BY <1>1, <1>2, <1>3, UsedIsSum, Zenon
<1> HIDE DEF f, g
<1>8. Summable(g, 1..Len(T)) /\ SumFunctionOnSet(g, 1..Len(T)) = u
  <2>1. Summable(g, 1..Len(T))
    BY <1>6, <1>7 DEF Summable
  <2> QED
    BY <1>1, <1>6, <1>7, <2>1, SumSame
<1>9. Used(U) = e.blocks + u
  <2>1. g[k] \in Int
    BY <1>5, <1>6
  <2>2. SumFunctionOnSet(g, (1..Len(T)) \cup {k}) = g[k] + SumFunctionOnSet(g, 1..Len(T))
    BY <1>3, <1>8, <2>1, SumAdd, Zenon
  <2> QED
    BY <1>6, <1>7, <1>8, <2>2
<1> QED
  BY <1>1, <1>2, <1>4, <1>5, <1>9 DEF Booked, U

\* Nothing that Sized looks at is changed.
LEMMA BookedSame ==
  ASSUME NEW T, NEW u, Booked(T, u), NEW i \in 1..Len(T), NEW e \in Inode,
         e.kind = T[i].kind, e.size = T[i].size, e.blocks = T[i].blocks,
         e.kind = "dir" => EntriesSize(e.children) = EntriesSize(T[i].children)
  PROVE  /\ Booked([T EXCEPT ![i] = e], u) /\ Len([T EXCEPT ![i] = e]) = Len(T)
         /\ \A j \in 1..Len(T) : [T EXCEPT ![i] = e][j] = IF j = i THEN e ELSE T[j]
<1>1. Sized(e)
  BY Zenon DEF Booked, Sized
<1>2. u \in Int /\ e.blocks \in Int /\ u - T[i].blocks + e.blocks = u
  <2>1. u \in Int /\ e.blocks \in Int
    BY InodeFields DEF Booked
  <2> QED
    BY <2>1
<1> QED
  BY <1>1, <1>2, BookedExcept

\* Two tables whose slots differ in their link and lookup counts only.
Alike(T, U) ==
  /\ Len(U) = Len(T)
  /\ \A j \in 1..Len(T) : /\ U[j].kind = T[j].kind
                          /\ U[j].size = T[j].size
                          /\ U[j].blocks = T[j].blocks
                          /\ U[j].children = T[j].children

\* Setting a link count changes no size and no block.
LEMMA BookedNlink ==
  ASSUME NEW T, NEW u, Booked(T, u), NEW i \in 1..Len(T), NEW x \in 0..(Modulus - 1)
  PROVE  Booked([T EXCEPT ![i].nlink = x], u) /\ Alike(T, [T EXCEPT ![i].nlink = x])
<1> DEFINE e == [T[i] EXCEPT !.nlink = x]
<1>1. T[i] \in Inode
  BY SeqLen DEF Booked
<1>2. e \in Inode /\ e.kind = T[i].kind /\ e.size = T[i].size /\ e.children = T[i].children
      /\ e.blocks = T[i].blocks
  BY <1>1 DEF Inode
<1>3. [T EXCEPT ![i].nlink = x] = [T EXCEPT ![i] = e]
  OBVIOUS
<1> HIDE DEF e
<1>4. /\ Booked([T EXCEPT ![i] = e], u) /\ Len([T EXCEPT ![i] = e]) = Len(T)
      /\ \A j \in 1..Len(T) : [T EXCEPT ![i] = e][j] = IF j = i THEN e ELSE T[j]
  BY <1>2, BookedSame
<1> QED
  BY <1>2, <1>3, <1>4 DEF Alike

\* AddNlink and RemoveNlink change no size and no block.
LEMMA BookedLinks ==
  ASSUME NEW T, NEW u, Booked(T, u), NEW i \in 1..Len(T), NEW k \in Int
  PROVE  Booked(AddLinks(T, i, k), u) /\ Alike(T, AddLinks(T, i, k))
<1> DEFINE x == Word(T[i].nlink + k)
<1>1. x \in 0..(Modulus - 1)
  <2>1. T[i].nlink \in Int
    BY SeqLen, InodeFields DEF Booked
  <2> QED
    BY <2>1, WordType
<1>2. AddLinks(T, i, k) = [T EXCEPT ![i].nlink = x]
  BY DEF AddLinks
<1> HIDE DEF x
<1>3. Booked([T EXCEPT ![i].nlink = x], u) /\ Alike(T, [T EXCEPT ![i].nlink = x])
  BY <1>1, BookedNlink
<1> QED
  BY <1>2, <1>3

\* Setting a lookup count changes no size and no block.
LEMMA BookedLookup ==
  ASSUME NEW T, NEW u, Booked(T, u), NEW i \in 1..Len(T), NEW x \in 0..(Modulus - 1)
  PROVE  Booked([T EXCEPT ![i].nlookup = x], u) /\ Alike(T, [T EXCEPT ![i].nlookup = x])
<1> DEFINE e == [T[i] EXCEPT !.nlookup = x]
<1>1. T[i] \in Inode
  BY SeqLen DEF Booked
<1>2. e \in Inode /\ e.kind = T[i].kind /\ e.size = T[i].size /\ e.children = T[i].children
      /\ e.blocks = T[i].blocks
  BY <1>1 DEF Inode
<1>3. [T EXCEPT ![i].nlookup = x] = [T EXCEPT ![i] = e]
  OBVIOUS
<1> HIDE DEF e
<1>4. /\ Booked([T EXCEPT ![i] = e], u) /\ Len([T EXCEPT ![i] = e]) = Len(T)
      /\ \A j \in 1..Len(T) : [T EXCEPT ![i] = e][j] = IF j = i THEN e ELSE T[j]
  BY <1>2, BookedSame
<1> QED
  BY <1>2, <1>3, <1>4 DEF Alike

-----------------------------------------------------------------------------
(* The size of a directory *)

\* The sizes of entries are integers, and a directory has finitely many.
LEMMA SizesSummable ==
  ASSUME NEW S, S \subseteq Name
  PROVE  Summable([k \in Name |-> ElemSize(k)], S)
  BY NameAssumption, ElemSizeType, FS_Subset DEF Summable

\* An empty directory has no entries to count.
LEMMA NoEntries == EntriesSize(NoChildren) = 0
<1>1. {k \in Name : NoChildren[k] # INO_NOTFOUND} = {}
  BY DEF NoChildren
<1> QED
  BY <1>1, SumEmpty DEF EntriesSize

\* One more entry, and one less.
LEMMA OneEntryMore ==
  ASSUME NEW kids \in [Name -> Nat], NEW n \in Name, kids[n] = INO_NOTFOUND,
         NEW i \in Nat, i # INO_NOTFOUND
  PROVE  EntriesSize([kids EXCEPT ![n] = i]) = ElemSize(n) + EntriesSize(kids)
<1> DEFINE S == {k \in Name : kids[k] # INO_NOTFOUND}
           U == {k \in Name : [kids EXCEPT ![n] = i][k] # INO_NOTFOUND}
           f == [k \in Name |-> ElemSize(k)]
<1>1. U = S \cup {n} /\ n \notin S /\ S \subseteq Name
  OBVIOUS
<1>2. f[n] = ElemSize(n) /\ f[n] \in Int
  BY ElemSizeType
<1>3. /\ EntriesSize(kids) = SumFunctionOnSet(f, S)
      /\ EntriesSize([kids EXCEPT ![n] = i]) = SumFunctionOnSet(f, U)
  BY DEF EntriesSize
<1>4. Summable(f, S)
  BY <1>1, SizesSummable
<1> HIDE DEF S, U, f
<1>5. SumFunctionOnSet(f, S \cup {n}) = f[n] + SumFunctionOnSet(f, S)
  BY <1>1, <1>2, <1>4, SumAdd, Zenon
<1> QED
  BY <1>1, <1>2, <1>3, <1>5

\* Without an entry, the entries take its size less.
LEMMA OneEntryLess ==
  ASSUME NEW kids \in [Name -> Nat], NEW n \in Name, kids[n] # INO_NOTFOUND
  PROVE  /\ EntriesSize([kids EXCEPT ![n] = INO_NOTFOUND]) \in Int
         /\ EntriesSize(kids) = ElemSize(n) + EntriesSize([kids EXCEPT ![n] = INO_NOTFOUND])
<1> DEFINE less == [kids EXCEPT ![n] = INO_NOTFOUND]
           U == {k \in Name : kids[k] # INO_NOTFOUND}
           S == {k \in Name : less[k] # INO_NOTFOUND}
           f == [k \in Name |-> ElemSize(k)]
<1>1. U = S \cup {n} /\ n \notin S /\ S \subseteq Name
  OBVIOUS
<1>2. f[n] = ElemSize(n) /\ f[n] \in Int
  BY ElemSizeType
<1>3. EntriesSize(kids) = SumFunctionOnSet(f, U) /\ EntriesSize(less) = SumFunctionOnSet(f, S)
  BY DEF EntriesSize
<1>4. Summable(f, S)
  BY <1>1, SizesSummable
<1> HIDE DEF S, U, f
<1>5. /\ SumFunctionOnSet(f, S \cup {n}) = f[n] + SumFunctionOnSet(f, S)
      /\ SumFunctionOnSet(f, S) \in Int
  BY <1>1, <1>2, <1>4, SumAdd, SumType, Zenon
<1> QED
  BY <1>1, <1>2, <1>3, <1>5

\* An entry that is given another inode (_UpdateChild).
LEMMA SameEntries ==
  ASSUME NEW kids \in [Name -> Nat], NEW n \in Name, kids[n] # INO_NOTFOUND,
         NEW i \in Nat, i # INO_NOTFOUND
  PROVE  EntriesSize([kids EXCEPT ![n] = i]) = EntriesSize(kids)
<1>1. {k \in Name : [kids EXCEPT ![n] = i][k] # INO_NOTFOUND}
        = {k \in Name : kids[k] # INO_NOTFOUND}
  OBVIOUS
<1> QED
  BY <1>1 DEF EntriesSize

\* An empty slot has its right size: none.
LEMMA NullSized == Sized(NullInode)
  BY DEF Sized, NullInode, get_nblocks, BufBlockSize

\* What the creating handlers make has its right size.
LEMMA NewNodesSized ==
  /\ \A kind \in Kind \ {"dir"}, size \in Int : Sized(NewNode(kind, size))
  /\ \A p \in Nat : Sized(NewDirectory(p))
<1>1. ASSUME NEW kind \in Kind \ {"dir"}, NEW size \in Int
      PROVE  Sized(NewNode(kind, size))
  BY DEF Sized, NewNode
<1>2. ASSUME NEW p \in Nat PROVE Sized(NewDirectory(p))
  <2>1. /\ NewDirectory(p).blocks = get_nblocks(NewDirectory(p).size)
        /\ NewDirectory(p).size = EmptyDirSize /\ NewDirectory(p).children = NoChildren
    BY DEF NewDirectory, NewNode
  <2>2. EmptyDirSize \in Int /\ EmptyDirSize = EmptyDirSize + 0
    BY DEF EmptyDirSize, EntrySize, BaseDirSize
  <2> QED
    BY <2>1, <2>2, NoEntries DEF Sized
<1> QED
  BY <1>1, <1>2

\* Directory::AddChild leaves a directory with its right size and blocks.
LEMMA AddChildSized ==
  ASSUME NEW d \in Inode, Sized(d), NEW n \in Name, d.children[n] = INO_NOTFOUND,
         NEW i \in Nat, i # INO_NOTFOUND
  PROVE  Sized(AddChild(d, n, i))
<1> DEFINE e == AddChild(d, n, i)
<1>1. /\ e.kind = d.kind /\ e.children = [d.children EXCEPT ![n] = i]
      /\ d.size \in Int /\ d.children \in [Name -> Nat] /\ ElemSize(n) \in Int
  BY AddChildType, InodeFields, ElemSizeType
<1>2. e.size = d.size + ElemSize(n) /\ e.blocks = get_nblocks(e.size)
  BY DEF AddChild, UpdateSize, Inode
<1> HIDE DEF e
<1>3. EntriesSize(e.children) = ElemSize(n) + EntriesSize(d.children)
  BY <1>1, OneEntryMore
<1>4. EntriesSize(d.children) \in Int
  BY SizesSummable, SumType DEF EntriesSize
<1>5. EmptyDirSize \in Int
  BY DEF EmptyDirSize, EntrySize, BaseDirSize
<1>6. e.kind = "dir" => e.size = EmptyDirSize + EntriesSize(e.children)
  BY <1>1, <1>2, <1>3, <1>4, <1>5 DEF Sized
<1> QED
  BY <1>2, <1>6 DEF Sized, e

\* Directory::RemoveChild leaves a directory with its right size and blocks.
LEMMA RemoveChildSized ==
  ASSUME NEW d \in Inode, Sized(d), NEW n \in Name, d.children[n] # INO_NOTFOUND
  PROVE  Sized(RemoveChild(d, n))
<1> DEFINE e == RemoveChild(d, n)
<1>1. /\ e.kind = d.kind /\ e.children = [d.children EXCEPT ![n] = INO_NOTFOUND]
      /\ d.size \in Int /\ d.children \in [Name -> Nat] /\ ElemSize(n) \in Int
  BY RemoveChildType, InodeFields, ElemSizeType
<1>2. e.size = d.size + (-ElemSize(n)) /\ e.blocks = get_nblocks(e.size)
  BY DEF RemoveChild, UpdateSize, Inode
<1> HIDE DEF e
<1>3. /\ EntriesSize(d.children) = ElemSize(n) + EntriesSize(e.children)
      /\ EntriesSize(e.children) \in Int
  BY <1>1, OneEntryLess
<1>4. EmptyDirSize \in Int
  BY DEF EmptyDirSize, EntrySize, BaseDirSize
<1>5. e.kind = "dir" => e.size = EmptyDirSize + EntriesSize(e.children)
  BY <1>1, <1>2, <1>3, <1>4 DEF Sized
<1> QED
  BY <1>2, <1>5 DEF Sized, e

-----------------------------------------------------------------------------
(* What the handlers do to the table *)

\* The table with the entry n of directory p made, and given another inode.
EnterChild(T, p, n, i) == [T EXCEPT ![p] = AddChild(T[p], n, i)]
GiveChild(T, q, m, c) == [T EXCEPT ![q].children[m] = c]

\* What making the entry n of directory p does to a table with u blocks in use.
Entered(T, u, p, n, i) ==
  /\ Booked(EnterChild(T, p, n, i), u - T[p].blocks + AddChild(T[p], n, i).blocks)
  /\ Len(EnterChild(T, p, n, i)) = Len(T)
  /\ \A j \in 1..Len(T) : EnterChild(T, p, n, i)[j]
       = IF j = p THEN AddChild(T[p], n, i) ELSE T[j]
  /\ AddChild(T[p], n, i).children = [T[p].children EXCEPT ![n] = i]
  /\ AddChild(T[p], n, i).kind = T[p].kind
  /\ AddChild(T[p], n, i).blocks \in Int /\ T[p].blocks \in Int

\* AddChild, written back to the table, books the blocks the directory grew by.
LEMMA BookedAddChild ==
  ASSUME NEW T, NEW u, Booked(T, u), NEW p \in 1..Len(T), NEW n \in Name,
         T[p].children[n] = INO_NOTFOUND, NEW i \in Nat, i # INO_NOTFOUND
  PROVE  Entered(T, u, p, n, i)
<1> DEFINE e == AddChild(T[p], n, i)
<1>1. T[p] \in Inode /\ Sized(T[p])
  BY SeqLen DEF Booked
<1>2. /\ e \in Inode /\ e.children = [T[p].children EXCEPT ![n] = i]
      /\ e.kind = T[p].kind /\ e.blocks \in Int /\ T[p].blocks \in Int
  BY <1>1, AddChildType, InodeFields
<1>3. Sized(e)
  BY <1>1, AddChildSized
<1> HIDE DEF e
<1>4. /\ Booked([T EXCEPT ![p] = e], u - T[p].blocks + e.blocks)
      /\ Len([T EXCEPT ![p] = e]) = Len(T)
      /\ \A j \in 1..Len(T) : [T EXCEPT ![p] = e][j] = IF j = p THEN e ELSE T[j]
  BY <1>2, <1>3, BookedExcept
<1> QED
  BY <1>2, <1>4 DEF e, EnterChild, Entered

\* What removing the entry n of directory p does to a table with u blocks in use.
Removed(T, u, p, n) ==
  /\ Booked(RemoveEntry(T, p, n), u - BlocksReturned(T[p], n))
  /\ Len(RemoveEntry(T, p, n)) = Len(T)
  /\ BlocksReturned(T[p], n) \in Int

\* RemoveChild, written back to the table, gives back the blocks it returns.
LEMMA BookedRemoveEntry ==
  ASSUME NEW T, NEW u, Booked(T, u), NEW p \in 1..Len(T), NEW n \in Name,
         T[p].children[n] # INO_NOTFOUND
  PROVE  Removed(T, u, p, n)
<1> DEFINE e == RemoveChild(T[p], n)
<1>1. T[p] \in Inode /\ Sized(T[p])
  BY SeqLen DEF Booked
<1>2. e \in Inode /\ e.blocks \in Int /\ T[p].blocks \in Int /\ u \in Int
  BY <1>1, RemoveChildType, InodeFields DEF Booked
<1>3. Sized(e)
  BY <1>1, RemoveChildSized
<1>4. RemoveEntry(T, p, n) = [T EXCEPT ![p] = e] /\ BlocksReturned(T[p], n) = T[p].blocks - e.blocks
  BY DEF RemoveEntry, BlocksReturned
<1> HIDE DEF e
<1>5. /\ Booked([T EXCEPT ![p] = e], u - T[p].blocks + e.blocks)
      /\ Len([T EXCEPT ![p] = e]) = Len(T)
  BY <1>2, <1>3, BookedExcept
<1>6. u - T[p].blocks + e.blocks = u - (T[p].blocks - e.blocks) /\ T[p].blocks - e.blocks \in Int
  BY <1>2
<1> QED
  BY <1>4, <1>5, <1>6 DEF Removed

\* What BlocksReturned looks at.
LEMMA ReturnedAlike ==
  ASSUME NEW d \in Inode, NEW e \in Inode, d.size = e.size, d.blocks = e.blocks, NEW n \in Name
  PROVE  BlocksReturned(d, n) = BlocksReturned(e, n)
  BY DEF BlocksReturned, RemoveChild, UpdateSize, Inode

\* What giving the entry m of directory q to inode c does to a table.
Given(T, u, q, m, c) ==
  /\ Booked(GiveChild(T, q, m, c), u)
  /\ Len(GiveChild(T, q, m, c)) = Len(T)
  /\ \A j \in 1..Len(T) :
       /\ GiveChild(T, q, m, c)[j].size = T[j].size
       /\ GiveChild(T, q, m, c)[j].blocks = T[j].blocks
       /\ \A k \in Name : j # q \/ k # m =>
            GiveChild(T, q, m, c)[j].children[k] = T[j].children[k]

\* Directory::UpdateChild changes no size and no block.
LEMMA BookedUpdateChild ==
  ASSUME NEW T, NEW u, Booked(T, u), NEW q \in 1..Len(T), NEW m \in Name,
         T[q].children[m] # INO_NOTFOUND, NEW c \in Nat, c # INO_NOTFOUND
  PROVE  Given(T, u, q, m, c)
<1> DEFINE kids == [T[q].children EXCEPT ![m] = c]
           e == [T[q] EXCEPT !.children = kids]
<1>1. T[q] \in Inode /\ T[q].children \in [Name -> Nat]
  BY SeqLen, InodeFields DEF Booked
<1>2. kids \in [Name -> Nat] /\ \A k \in Name : k # m => kids[k] = T[q].children[k]
  BY <1>1
<1>3. EntriesSize(kids) = EntriesSize(T[q].children)
  BY <1>1, SameEntries
<1>4. GiveChild(T, q, m, c) = [T EXCEPT ![q] = e]
  BY DEF GiveChild
<1> HIDE DEF kids
<1>5. e \in Inode /\ e.kind = T[q].kind /\ e.size = T[q].size /\ e.children = kids
      /\ e.blocks = T[q].blocks
  BY <1>1, <1>2, Zenon DEF Inode
<1> HIDE DEF e
<1>6. /\ Booked([T EXCEPT ![q] = e], u) /\ Len([T EXCEPT ![q] = e]) = Len(T)
      /\ \A j \in 1..Len(T) : [T EXCEPT ![q] = e][j] = IF j = q THEN e ELSE T[j]
  BY <1>3, <1>5, BookedSame
<1> QED
  BY <1>2, <1>4, <1>5, <1>6 DEF Given

=============================================================================
