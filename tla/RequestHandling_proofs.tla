------------------------ MODULE RequestHandling_proofs ----------------------
(***************************************************************************)
(* Proofs about RequestHandling and the modules it is built from: the text *)
(* that requests are made of, the parser that reads them, the requests     *)
(* forwarded and the answers framed.  Text is a sequence over any alphabet *)
(* and a feed may cut it anywhere; induction over it is by sets, which the *)
(* library's lemmas on numbers and well-founded relations justify.         *)
(***************************************************************************)
EXTENDS RequestHandling, SequenceTheorems, NaturalsInduction, WellFoundedInduction, TLAPS

-----------------------------------------------------------------------------
(* Induction, with sets in place of predicates *)

\* A nonempty set of numbers has a least element.
LEMMA LeastOfNat ==
  ASSUME NEW S \in SUBSET Nat, S # {}
  PROVE  \E x \in S : \A y \in S : x <= y
  <1> DEFINE R == OpToRel(<, Nat)
  <1>1. IsWellFoundedOn(R, Nat)
    BY NatLessThanWellFounded
  <1>2. PICK x \in S : \A y \in S : ~(<<y, x>> \in R)
    BY <1>1, WFMin
  <1>3. ASSUME NEW y \in S, y < x PROVE FALSE
    <2>1. <<y, x>> \in R
      BY <1>3 DEF OpToRel
    <2> QED
      BY <1>2, <2>1
  <1> QED
    BY <1>3

\* A set of numbers that holds 0 and every successor holds all of them.
LEMMA NatSetInduction ==
  ASSUME NEW S \in SUBSET Nat, 0 \in S, \A n \in S : n + 1 \in S
  PROVE  S = Nat
  <1> SUFFICES ASSUME Nat \ S # {} PROVE FALSE
    OBVIOUS
  <1>1. PICK x \in Nat \ S : \A y \in Nat \ S : x <= y
    BY LeastOfNat
  <1>2. x # 0 /\ x - 1 \in Nat /\ x - 1 < x
    OBVIOUS
  <1>3. x - 1 \in S
    BY <1>1, <1>2
  <1> QED
    BY <1>2, <1>3

\* The same, up to a bound.
LEMMA UpToInduction ==
  ASSUME NEW N \in Nat, NEW S, 0 \in S, \A n \in 0..(N - 1) : n \in S => n + 1 \in S
  PROVE  \A n \in 0..N : n \in S
  <1> DEFINE T == {n \in Nat : n <= N => n \in S}
  <1>1. T \in SUBSET Nat /\ 0 \in T
    OBVIOUS
  <1>2. ASSUME NEW n \in T PROVE n + 1 \in T
    <2> SUFFICES ASSUME n + 1 <= N PROVE n + 1 \in S
      OBVIOUS
    <2>1. n \in S /\ n \in 0..(N - 1)
      BY <1>2
    <2> QED
      BY <2>1
  <1> HIDE DEF T
  <1>3. T = Nat
    BY <1>1, <1>2, NatSetInduction
  <1> QED
    BY <1>3 DEF T

\* Min and Max are what they say.
LEMMA MinOfNat ==
  ASSUME NEW S \in SUBSET Nat, S # {}
  PROVE  Min(S) \in S /\ \A y \in S : Min(S) <= y
  BY LeastOfNat DEF Min

LEMMA MaxOfNat ==
  ASSUME NEW N \in Nat, NEW S \in SUBSET (0..N), S # {}
  PROVE  Max(S) \in S /\ \A y \in S : y <= Max(S)
  <1> DEFINE T == {k \in Nat : \E y \in S : k = N - y}
  <1>1. T \in SUBSET Nat /\ T # {}
    <2>1. PICK s \in S : TRUE
      OBVIOUS
    <2>2. N - s \in T
      OBVIOUS
    <2> QED
      BY <2>2
  <1>2. PICK x \in T : \A y \in T : x <= y
    BY <1>1, LeastOfNat
  <1>3. PICK z \in S : x = N - z
    OBVIOUS
  <1>4. ASSUME NEW y \in S PROVE z >= y
    <2>1. N - z <= N - y
      BY <1>2, <1>3
    <2> QED
      BY <2>1
  <1>5. \E m \in S : \A y \in S : m >= y
    BY <1>4
  <1>6. Max(S) \in S /\ \A y \in S : Max(S) >= y
    BY <1>5 DEF Max
  <1> QED
    BY <1>6

\* A set of sequences that holds <<>> and every extension by one element holds
\* all of them.
LEMMA SeqSetInduction ==
  ASSUME NEW A, NEW S, <<>> \in S,
         \A s \in Seq(A), e \in A : s \in S => Append(s, e) \in S
  PROVE  Seq(A) \subseteq S
  <1> DEFINE T == {n \in Nat : \A s \in Seq(A) : Len(s) = n => s \in S}
  <1>1. 0 \in T
    BY EmptySeq
  <1>2. ASSUME NEW n \in T PROVE n + 1 \in T
    <2> SUFFICES ASSUME NEW s \in Seq(A), Len(s) = n + 1 PROVE s \in S
      OBVIOUS
    <2>1. PICK r \in Seq(A), e \in A : s = Append(r, e)
      BY EmptySeq, SequenceEmptyOrAppend
    <2>2. Len(r) = n
      BY <2>1, AppendProperties, LenProperties
    <2> QED
      BY <1>2, <2>1, <2>2
  <1> HIDE DEF T
  <1>3. T = Nat
    <2>1. T \in SUBSET Nat
      BY DEF T
    <2> QED
      BY <1>1, <1>2, <2>1, NatSetInduction
  <1> QED
    BY <1>3, LenProperties DEF T

\* f is defined by recursion on the length of a prefix.
Follows(f, N, b, step) == f[0] = b /\ \A n \in 1..N : f[n] = step[n][f[n - 1]]

\* There is such a function.
LEMMA PrefixRecursion ==
  ASSUME NEW N \in Nat, NEW T, NEW b \in T, NEW step \in [1..N -> [T -> T]]
  PROVE  \E f \in [0..N -> T] : Follows(f, N, b, step)
  <1> DEFINE S == {k \in 0..N : \E f \in [0..k -> T] :
                      f[0] = b /\ \A n \in 1..k : f[n] = step[n][f[n - 1]]}
  <1>1. 0 \in S
    <2> DEFINE f == [n \in 0..0 |-> b]
    <2>1. f \in [0..0 -> T] /\ f[0] = b /\ 1..0 = {} /\ 0 \in 0..N
      OBVIOUS
    <2> HIDE DEF f
    <2> QED
      BY <2>1
  <1>2. ASSUME NEW k \in 0..(N - 1), k \in S PROVE k + 1 \in S
    <2>1. PICK f \in [0..k -> T] : f[0] = b /\ \A n \in 1..k : f[n] = step[n][f[n - 1]]
      BY <1>2
    <2> DEFINE g == [n \in 0..(k + 1) |-> IF n <= k THEN f[n] ELSE step[k + 1][f[k]]]
    <2>2. k + 1 \in 1..N /\ f[k] \in T
      OBVIOUS
    <2>3. step[k + 1][f[k]] \in T
      BY <2>2
    <2>4. g \in [0..(k + 1) -> T]
      BY <2>3
    <2>5. g[0] = b
      BY <2>1
    <2>6. ASSUME NEW n \in 1..(k + 1) PROVE g[n] = step[n][g[n - 1]]
      <3>1. CASE n <= k
        BY <2>1, <3>1
      <3>2. CASE n = k + 1
        BY <3>2
      <3> QED
        BY <3>1, <3>2
    <2>7. k + 1 \in 0..N
      OBVIOUS
    <2> HIDE DEF g
    <2> QED
      BY <2>4, <2>5, <2>6, <2>7
  <1> HIDE DEF S
  <1>3. N \in 0..N
    OBVIOUS
  <1>4. \A n \in 0..N : n \in S
    BY <1>1, <1>2, UpToInduction
  <1> QED
    BY <1>3, <1>4 DEF S, Follows

-----------------------------------------------------------------------------
(* Pieces of a text *)

Pieces(A) == Seq(Seq(A)) \ {<<>>}

LEMMA ExtendPieces ==
  ASSUME NEW A, NEW D, NEW parts \in Pieces(A), NEW c \in A \cup D
  PROVE  /\ Extend(parts, c, D) \in Pieces(A)
         /\ c \in D => Extend(parts, c, D) = Append(parts, <<>>)
         /\ c \notin D => /\ Len(Extend(parts, c, D)) = Len(parts)
                          /\ Len(parts) \in 1..Len(parts)
                          /\ \A i \in 1..Len(parts) : Extend(parts, c, D)[i] =
                               IF i = Len(parts) THEN Append(parts[Len(parts)], c) ELSE parts[i]
  <1>1. Len(parts) \in Nat \ {0}
    BY EmptySeq DEF Pieces
  <1>2. parts[Len(parts)] \in Seq(A)
    BY <1>1, ElementOfSeq DEF Pieces
  <1>3. c \notin D => Append(parts[Len(parts)], c) \in Seq(A)
    BY <1>2, AppendProperties
  <1>4. CASE c \in D
    <2>1. <<>> \in Seq(A)
      BY EmptySeq
    <2>2. Extend(parts, c, D) = Append(parts, <<>>)
      BY <1>4, Zenon DEF Extend
    <2> QED
      BY <1>4, <2>1, <2>2, AppendProperties DEF Pieces
  <1>5. CASE c \notin D
    <2>1. Extend(parts, c, D) = [parts EXCEPT ![Len(parts)] = Append(parts[Len(parts)], c)]
      BY <1>5 DEF Extend
    <2>2. Len(parts) \in 1..Len(parts)
      BY <1>1
    <2>3. /\ Extend(parts, c, D) \in Seq(Seq(A))
          /\ Len(Extend(parts, c, D)) = Len(parts)
          /\ \A i \in 1..Len(parts) : Extend(parts, c, D)[i] =
                IF i = Len(parts) THEN Append(parts[Len(parts)], c) ELSE parts[i]
      BY <1>3, <1>5, <2>1, <2>2, ExceptSeq DEF Pieces
    <2> QED
      BY <1>1, <1>5, <2>2, <2>3, EmptySeq DEF Pieces
  <1> QED
    BY <1>4, <1>5

LEMMA ExtendTyped ==
  ASSUME NEW A, NEW D, NEW parts \in Pieces(A), NEW c \in A \cup D
  PROVE  Extend(parts, c, D) \in Pieces(A)
  BY ExtendPieces

\* The last piece of new has one symbol more.
Longer(new, parts, c) ==
  /\ Len(new) = Len(parts)
  /\ \A i \in 1..Len(parts) : i # Len(parts) => new[i] = parts[i]
  /\ new[Len(parts)] = Append(parts[Len(parts)], c)

LEMMA ExtendLast ==
  ASSUME NEW A, NEW D, NEW parts \in Pieces(A), NEW c \in A, c \notin D
  PROVE  Longer(Extend(parts, c, D), parts, c)
  <1> DEFINE e == Append(parts[Len(parts)], c)
  <1>1. Len(parts) \in Nat \ {0} /\ Len(parts) \in 1..Len(parts)
    BY EmptySeq DEF Pieces
  <1>2. e \in Seq(A)
    BY <1>1, ElementOfSeq, AppendProperties DEF Pieces
  <1>3. Extend(parts, c, D) = [parts EXCEPT ![Len(parts)] = e]
    BY DEF Extend
  <1> HIDE DEF e
  <1> QED
    BY <1>1, <1>2, <1>3, ExceptSeq DEF Pieces, Longer, e

\* SplitAt is what its recursion says.
LEMMA SplitParts ==
  ASSUME NEW A, NEW s \in Seq(A), NEW D
  PROVE  \E parts \in [0..Len(s) -> Pieces(A \ D)] :
           /\ parts[0] = << <<>> >>
           /\ \A n \in 1..Len(s) : parts[n] = Extend(parts[n - 1], s[n], D)
           /\ SplitAt(s, D) = parts[Len(s)]
  <1> DEFINE N == Len(s)
             T == Pieces(A \ D)
             step == [n \in 1..N |-> [p \in T |-> Extend(p, s[n], D)]]
             Is(p) == p = [n \in 0..N |-> IF n = 0 THEN << <<>> >> ELSE Extend(p[n - 1], s[n], D)]
             parts == CHOOSE p : Is(p)
  <1>1. N \in Nat /\ \A n \in 1..N : s[n] \in A
    BY LenProperties, ElementOfSeq
  <1>2. << <<>> >> \in T
    <2>1. <<>> \in Seq(A \ D)
      BY EmptySeq
    <2> QED
      BY <2>1 DEF Pieces
  <1>3. step \in [1..N -> [T -> T]]
    BY <1>1, ExtendPieces
  <1>4. PICK f \in [0..N -> T] : f[0] = << <<>> >> /\ \A n \in 1..N : f[n] = step[n][f[n - 1]]
    <2> DEFINE one == << <<>> >>
    <2>1. one \in T /\ N \in Nat /\ step \in [1..N -> [T -> T]]
      BY <1>1, <1>2, <1>3
    <2> HIDE DEF N, T, step, one
    <2>2. PICK f \in [0..N -> T] : Follows(f, N, one, step)
      BY <2>1, PrefixRecursion
    <2> QED
      BY <2>2 DEF Follows, one
  <1>5. ASSUME NEW n \in 1..N PROVE f[n] = Extend(f[n - 1], s[n], D)
    <2>1. n - 1 \in 0..N
      BY <1>1
    <2>2. f[n - 1] \in T
      BY <2>1
    <2> QED
      BY <1>4, <2>2
  <1>6. Is(f)
    <2> DEFINE g == [n \in 0..N |-> IF n = 0 THEN << <<>> >> ELSE Extend(f[n - 1], s[n], D)]
    <2>1. \A n \in 0..N : n = 0 \/ n \in 1..N
      BY <1>1
    <2>2. \A n \in 0..N : g[n] = f[n]
      BY <1>4, <1>5, <2>1, Zenon
    <2>3. DOMAIN f = 0..N /\ DOMAIN g = 0..N /\ f = [n \in 0..N |-> f[n]] /\ g = [n \in 0..N |-> g[n]]
      BY <1>4
    <2>4. f = g
      <3> HIDE DEF g, N
      <3> QED
        BY <2>2, <2>3
    <2> QED
      BY <2>4
  <1>7. Is(parts)
    BY <1>6
  <1>8. SplitAt(s, D) = parts[N]
    BY DEF SplitAt
  <1> HIDE DEF parts
  <1>9. /\ DOMAIN parts = 0..N /\ parts[0] = << <<>> >>
        /\ \A n \in 1..N : parts[n] = Extend(parts[n - 1], s[n], D)
    <2>1. DOMAIN parts = 0..N
      BY <1>7, Zenon
    <2>2. \A n \in 0..N : parts[n] = IF n = 0 THEN << <<>> >> ELSE Extend(parts[n - 1], s[n], D)
      BY <1>7, Zenon
    <2>3. 0 \in 0..N /\ \A n \in 1..N : n # 0 /\ n \in 0..N
      BY <1>1
    <2> QED
      BY <2>1, <2>2, <2>3, Zenon
  <1> DEFINE S == {n \in 0..N : parts[n] \in T}
  <1>10. 0 \in S
    BY <1>1, <1>2, <1>9, SMTT(30)
  <1>11. ASSUME NEW n \in 0..(N - 1), n \in S PROVE n + 1 \in S
    <2>1. n + 1 \in 1..N /\ n + 1 \in 0..N /\ s[n + 1] \in (A \ D) \cup D /\ (n + 1) - 1 = n
      BY <1>1
    <2>2. parts[n + 1] = Extend(parts[n], s[n + 1], D)
      BY <1>9, <2>1
    <2>3. parts[n] \in T
      BY <1>11
    <2>4. parts[n + 1] \in T
      BY <2>1, <2>2, <2>3, ExtendTyped
    <2> QED
      BY <2>1, <2>4
  <1> HIDE DEF S
  <1>12. \A n \in 0..N : n \in S
    BY <1>1, <1>10, <1>11, UpToInduction
  <1>13. parts \in [0..N -> T]
    BY <1>7, <1>12 DEF S
  <1> QED
    BY <1>8, <1>9, <1>13

\* What SplitAt gives, one symbol at a time.
LEMMA SplitStep ==
  ASSUME NEW A, NEW s \in Seq(A), NEW D
  PROVE  /\ SplitAt(<<>>, D) = << <<>> >>
         /\ SplitAt(s, D) \in Pieces(A \ D)
         /\ \A c \in A : SplitAt(Append(s, c), D) = Extend(SplitAt(s, D), c, D)
  <1>1. SplitAt(<<>>, D) = << <<>> >>
    <2>1. PICK e \in Seq(A) : e = <<>> /\ Len(e) = 0
      BY EmptySeq
    <2>2. PICK p \in [0..Len(e) -> Pieces(A \ D)] :
             /\ p[0] = << <<>> >>
             /\ \A n \in 1..Len(e) : p[n] = Extend(p[n - 1], e[n], D)
             /\ SplitAt(e, D) = p[Len(e)]
      BY SplitParts
    <2> QED
      BY <2>1, <2>2
  <1>2. PICK p \in [0..Len(s) -> Pieces(A \ D)] :
           /\ p[0] = << <<>> >>
           /\ \A n \in 1..Len(s) : p[n] = Extend(p[n - 1], s[n], D)
           /\ SplitAt(s, D) = p[Len(s)]
    BY SplitParts
  <1>3. Len(s) \in Nat
    BY LenProperties
  <1>4. ASSUME NEW c \in A PROVE SplitAt(Append(s, c), D) = Extend(SplitAt(s, D), c, D)
    <2> DEFINE N == Len(s)
               t == Append(s, c)
    <2>1. t \in Seq(A) /\ Len(t) = N + 1 /\ t[N + 1] = c /\ \A n \in 1..N : t[n] = s[n]
      BY AppendProperties
    <2>2. PICK q \in [0..Len(t) -> Pieces(A \ D)] :
             /\ q[0] = << <<>> >>
             /\ \A n \in 1..Len(t) : q[n] = Extend(q[n - 1], t[n], D)
             /\ SplitAt(t, D) = q[Len(t)]
      BY <2>1, SplitParts
    <2> HIDE DEF t
    <2> DEFINE S == {n \in 0..N : p[n] = q[n]}
    <2>3. 0 \in S
      <3>1. 0 \in 0..N /\ p[0] = q[0]
        BY <1>2, <1>3, <2>2
      <3> QED
        BY <3>1
    <2>4. ASSUME NEW n \in 0..(N - 1), n \in S PROVE n + 1 \in S
      <3>1. n + 1 \in 1..N /\ n + 1 \in 1..Len(t) /\ (n + 1) - 1 = n
        BY <1>3, <2>1
      <3>2. p[n + 1] = Extend(p[n], s[n + 1], D) /\ q[n + 1] = Extend(q[n], t[n + 1], D)
        BY <1>2, <2>2, <3>1
      <3> QED
        BY <2>1, <2>4, <3>1, <3>2
    <2> HIDE DEF S
    <2>5. \A n \in 0..N : n \in S
      BY <1>3, <2>3, <2>4, UpToInduction
    <2>6. p[N] = q[N]
      BY <1>3, <2>5 DEF S
    <2>7. N + 1 \in 1..Len(t) /\ (N + 1) - 1 = N
      BY <1>3, <2>1
    <2>8. q[N + 1] = Extend(q[N], c, D)
      BY <2>1, <2>2, <2>7
    <2> QED
      BY <1>2, <2>1, <2>2, <2>6, <2>8 DEF t
  <1>5. SplitAt(s, D) \in Pieces(A \ D)
    <2>1. Len(s) \in 0..Len(s)
      BY <1>3
    <2> QED
      BY <1>2, <2>1, Zenon
  <1> QED
    BY <1>1, <1>4, <1>5

\* A text without symbols of D is one piece.
LEMMA SplitWhole ==
  ASSUME NEW A, NEW D, NEW s \in Seq(A), \A i \in 1..Len(s) : s[i] \notin D
  PROVE  SplitAt(s, D) = <<s>>
  <1> DEFINE S == {r \in Seq(A \ D) : SplitAt(r, D) = <<r>>}
  <1>1. <<>> \in S
    BY EmptySeq, SplitStep
  <1>2. ASSUME NEW r \in Seq(A \ D), NEW e \in A \ D, r \in S PROVE Append(r, e) \in S
    <2>1. SplitAt(Append(r, e), D) = Extend(<<r>>, e, D)
      BY <1>2, SplitStep, ZenonT(60)
    <2>2. Extend(<<r>>, e, D) = <<Append(r, e)>>
      BY DEF Extend
    <2>3. Append(r, e) \in Seq(A \ D)
      BY AppendProperties
    <2> QED
      BY <2>1, <2>2, <2>3
  <1> HIDE DEF S
  <1>3. Seq(A \ D) \subseteq S
    BY <1>1, <1>2, SeqSetInduction
  <1>4. s \in Seq(A \ D)
    <2>1. /\ SubSeq(s, 1, Len(s)) = s
          /\ Len(s) \in Nat
          /\ \A i \in 1..Len(s) : s[i] \in A \ D
      BY SubSeqFull, LenProperties, ElementOfSeq
    <2> QED
      BY <2>1, SubSeqProperties
  <1> QED
    BY <1>3, <1>4 DEF S

\* Three or four sequences after each other, however they are grouped.
Associates(k, v, b) == (k \o v) \o b = k \o (v \o b)

LEMMA ConcatThree ==
  ASSUME NEW A, NEW k \in Seq(A), NEW v \in Seq(A), NEW b \in Seq(A)
  PROVE  Associates(k, v, b)
  BY ConcatAssociative, SMTT(30) DEF Associates

Regroups(l, c, v, b) == ((l \o c) \o v) \o b = l \o (c \o (v \o b))

LEMMA ConcatFour ==
  ASSUME NEW A, NEW l \in Seq(A), NEW c \in Seq(A), NEW v \in Seq(A), NEW b \in Seq(A)
  PROVE  Regroups(l, c, v, b)
  <1>1. l \o c \in Seq(A) /\ v \o b \in Seq(A)
    BY ConcatProperties
  <1>2. Associates(l \o c, v, b) /\ Associates(l, c, v \o b)
    BY <1>1, ConcatThree
  <1> QED
    BY <1>2 DEF Associates, Regroups

\* A symbol of D separates.
LEMMA SplitConcat ==
  ASSUME NEW A, NEW D, NEW s \in Seq(A), NEW c \in A \cap D, NEW t \in Seq(A)
  PROVE  SplitAt(Append(s, c) \o t, D) = SplitAt(s, D) \o SplitAt(t, D)
  <1> DEFINE P == SplitAt(s, D)
             u == Append(s, c)
             S == {r \in Seq(A) : SplitAt(u \o r, D) = P \o SplitAt(r, D)}
  <1>1. P \in Pieces(A \ D) /\ u \in Seq(A)
    BY SplitStep, AppendProperties
  <1>2. <<>> \in S
    <2>1. SplitAt(u, D) = Append(P, <<>>)
      BY SplitStep, Zenon DEF Extend
    <2>2. Append(P, <<>>) = P \o << <<>> >>
      BY <1>1, AppendIsConcat, EmptySeq DEF Pieces
    <2>3. u \o <<>> = u /\ <<>> \in Seq(A)
      BY <1>1, ConcatEmptySeq, EmptySeq
    <2>4. SplitAt(<<>>, D) = << <<>> >>
      BY SplitStep
    <2> HIDE DEF P, u
    <2> QED
      BY <2>1, <2>2, <2>3, <2>4
  <1>3. ASSUME NEW r \in Seq(A), NEW e \in A, r \in S PROVE Append(r, e) \in S
    <2> DEFINE Q == SplitAt(r, D)
    <2>1. u \o r \in Seq(A)
      BY <1>1, ConcatProperties
    <2>2. SplitAt(Append(u \o r, e), D) = Extend(P \o Q, e, D)
      BY <1>3, <2>1, SplitStep, ZenonT(60)
    <2>3. SplitAt(Append(r, e), D) = Extend(Q, e, D)
      BY <1>3, SplitStep, ZenonT(60)
    <2>4. u \o Append(r, e) = Append(u \o r, e) /\ Append(r, e) \in Seq(A)
      <3>1. <<e>> \in Seq(A) /\ Append(r, e) = r \o <<e>> /\ Append(u \o r, e) = (u \o r) \o <<e>>
        BY <2>1, AppendIsConcat
      <3> HIDE DEF u
      <3>2. (u \o r) \o <<e>> = u \o (r \o <<e>>)
        <4>1. Associates(u, r, <<e>>)
          BY <1>1, <3>1, ConcatThree
        <4> QED
          BY <4>1 DEF Associates
      <3> QED
        BY <3>1, <3>2, AppendProperties
    <2>5. Extend(P \o Q, e, D) = P \o Extend(Q, e, D)
      <3>1. Q \in Pieces(A \ D) /\ Len(Q) \in Nat \ {0} /\ Len(P) \in Nat
        BY <1>1, SplitStep, EmptySeq, LenProperties DEF Pieces
      <3> HIDE DEF P, Q
      <3> DEFINE B == Seq(A \ D)
      <3>8. e \in (A \ D) \cup D
        OBVIOUS
      <3>2. P \in Seq(B) /\ Q \in Seq(B) /\ P \o Q \in Seq(B) /\ Len(P \o Q) = Len(P) + Len(Q)
        BY <1>1, <3>1, ConcatProperties DEF Pieces
      <3>3. P \o Q \in Pieces(A \ D)
        BY <3>1, <3>2, EmptySeq DEF Pieces
      <3>4. Extend(Q, e, D) \in Seq(B) /\ Extend(P \o Q, e, D) \in Seq(B)
        BY <3>1, <3>3, <3>8, ExtendPieces DEF Pieces
      <3>5. P \o Extend(Q, e, D) \in Seq(B) /\ Len(P \o Extend(Q, e, D)) = Len(P) + Len(Extend(Q, e, D))
        BY <3>2, <3>4, ConcatProperties
      <3>6. CASE e \in D
        <4>1. <<>> \in B /\ << <<>> >> \in Seq(B)
          BY EmptySeq
        <4>2. Extend(Q, e, D) = Q \o << <<>> >> /\ Extend(P \o Q, e, D) = (P \o Q) \o << <<>> >>
          BY <3>2, <3>6, <4>1, AppendIsConcat DEF Extend
        <4> HIDE DEF B
        <4>3. (P \o Q) \o << <<>> >> = P \o (Q \o << <<>> >>)
          <5>1. Associates(P, Q, << <<>> >>)
            BY <3>2, <4>1, ConcatThree
          <5> QED
            BY <5>1 DEF Associates
        <4> QED
          BY <4>2, <4>3
      <3>7. CASE e \notin D
        <4>9. e \in A \ D
          BY <3>7
        <4>10. Longer(Extend(Q, e, D), Q, e)
          BY <3>1, <3>7, <4>9, ExtendLast
        <4>11. Longer(Extend(P \o Q, e, D), P \o Q, e)
          BY <3>3, <3>7, <4>9, ExtendLast
        <4>1. /\ Len(Extend(Q, e, D)) = Len(Q)
              /\ \A i \in 1..Len(Q) : Extend(Q, e, D)[i] =
                    IF i = Len(Q) THEN Append(Q[Len(Q)], e) ELSE Q[i]
          BY <4>10 DEF Longer
        <4>2. /\ Len(Extend(P \o Q, e, D)) = Len(P \o Q)
              /\ \A i \in 1..Len(P \o Q) : Extend(P \o Q, e, D)[i] =
                    IF i = Len(P \o Q) THEN Append((P \o Q)[Len(P \o Q)], e) ELSE (P \o Q)[i]
          BY <4>11 DEF Longer
        <4>3. \A i \in 1..(Len(P) + Len(Q)) : (P \o Q)[i] = IF i <= Len(P) THEN P[i] ELSE Q[i - Len(P)]
          BY <3>2, ConcatProperties
        <4>4. \A i \in 1..(Len(P) + Len(Q)) : (P \o Extend(Q, e, D))[i] =
                 IF i <= Len(P) THEN P[i] ELSE Extend(Q, e, D)[i - Len(P)]
          BY <3>2, <3>4, <4>1, ConcatProperties
        <4>5. ASSUME NEW i \in 1..(Len(P) + Len(Q))
              PROVE  (P \o Extend(Q, e, D))[i] = Extend(P \o Q, e, D)[i]
          <5>1. CASE i <= Len(P)
            <6>1. i # Len(P \o Q)
              BY <3>1, <3>2, <5>1
            <6> QED
              BY <3>2, <4>2, <4>3, <4>4, <5>1, <6>1
          <5>2. CASE i > Len(P)
            <6>1. i - Len(P) \in 1..Len(Q) /\ ~(i <= Len(P))
              BY <3>1, <5>2
            <6>2. (P \o Extend(Q, e, D))[i] = IF i - Len(P) = Len(Q) THEN Append(Q[Len(Q)], e) ELSE Q[i - Len(P)]
              BY <4>1, <4>4, <6>1
            <6>3. i - Len(P) = Len(Q) <=> i = Len(P \o Q)
              BY <3>1, <3>2
            <6>4. (P \o Q)[i] = Q[i - Len(P)]
              BY <4>3, <6>1
            <6> QED
              BY <3>2, <4>2, <6>2, <6>3, <6>4
          <5>3. i <= Len(P) \/ i > Len(P)
            BY <3>1
          <5> QED
            BY <5>1, <5>2, <5>3, Zenon
        <4>6. Len(P \o Extend(Q, e, D)) = Len(Extend(P \o Q, e, D)) /\ Len(P \o Extend(Q, e, D)) = Len(P) + Len(Q)
          BY <3>2, <3>5, <4>1, <4>2
        <4> HIDE DEF B
        <4> QED
          BY <3>4, <3>5, <4>5, <4>6, SeqEqual
      <3> QED
        BY <3>6, <3>7
    <2> QED
      BY <2>2, <2>3, <2>4, <2>5
  <1> HIDE DEF S
  <1>4. Seq(A) \subseteq S
    BY <1>2, <1>3, SeqSetInduction
  <1> QED
    BY <1>4 DEF S

\* NonEmpty is what its recursion says.
LEMMA KeptParts ==
  ASSUME NEW B, NEW s \in Seq(B)
  PROVE  \E kept \in [0..Len(s) -> Seq(B \ {<<>>})] :
           /\ kept[0] = <<>>
           /\ \A n \in 1..Len(s) : kept[n] = Keep(kept[n - 1], s[n])
           /\ NonEmpty(s) = kept[Len(s)]
  <1> DEFINE N == Len(s)
             T == Seq(B \ {<<>>})
             step == [n \in 1..N |-> [p \in T |-> Keep(p, s[n])]]
             Is(p) == p = [n \in 0..N |-> IF n = 0 THEN <<>> ELSE Keep(p[n - 1], s[n])]
             kept == CHOOSE p : Is(p)
  <1>1. N \in Nat /\ \A n \in 1..N : s[n] \in B
    BY LenProperties, ElementOfSeq
  <1>2. <<>> \in T
    BY EmptySeq
  <1>3. \A p \in T : \A b \in B : Keep(p, b) \in T
    BY AppendProperties DEF Keep
  <1>4. step \in [1..N -> [T -> T]]
    BY <1>1, <1>3
  <1>5. PICK f \in [0..N -> T] : f[0] = <<>> /\ \A n \in 1..N : f[n] = step[n][f[n - 1]]
    <2> DEFINE one == <<>>
    <2>1. one \in T /\ N \in Nat /\ step \in [1..N -> [T -> T]]
      BY <1>1, <1>2, <1>4
    <2> HIDE DEF N, T, step, one
    <2>2. PICK f \in [0..N -> T] : Follows(f, N, one, step)
      BY <2>1, PrefixRecursion
    <2> QED
      BY <2>2 DEF Follows, one
  <1>6. ASSUME NEW n \in 1..N PROVE f[n] = Keep(f[n - 1], s[n])
    <2>1. n - 1 \in 0..N
      BY <1>1
    <2>2. f[n - 1] \in T
      BY <2>1
    <2> QED
      BY <1>5, <2>2
  <1>7. Is(f)
    <2> DEFINE g == [n \in 0..N |-> IF n = 0 THEN <<>> ELSE Keep(f[n - 1], s[n])]
    <2>1. \A n \in 0..N : n = 0 \/ n \in 1..N
      BY <1>1
    <2>2. \A n \in 0..N : g[n] = f[n]
      BY <1>5, <1>6, <2>1, Zenon
    <2>3. DOMAIN f = 0..N /\ DOMAIN g = 0..N /\ f = [n \in 0..N |-> f[n]] /\ g = [n \in 0..N |-> g[n]]
      BY <1>5
    <2>4. f = g
      <3> HIDE DEF g, N
      <3> QED
        BY <2>2, <2>3
    <2> QED
      BY <2>4
  <1>8. Is(kept)
    BY <1>7
  <1>9. NonEmpty(s) = kept[N]
    BY DEF NonEmpty
  <1> HIDE DEF kept
  <1>10. /\ DOMAIN kept = 0..N /\ kept[0] = <<>>
         /\ \A n \in 1..N : kept[n] = Keep(kept[n - 1], s[n])
    <2>1. DOMAIN kept = 0..N
      BY <1>8, Zenon
    <2>2. \A n \in 0..N : kept[n] = IF n = 0 THEN <<>> ELSE Keep(kept[n - 1], s[n])
      BY <1>8, Zenon
    <2>3. 0 \in 0..N /\ \A n \in 1..N : n # 0 /\ n \in 0..N
      BY <1>1
    <2> QED
      BY <2>1, <2>2, <2>3, Zenon
  <1> DEFINE S == {n \in 0..N : kept[n] \in T}
  <1>11. 0 \in S
    <2>1. 0 \in 0..N
      BY <1>1
    <2>2. kept[0] \in T
      BY <1>2, <1>10, Zenon
    <2> QED
      BY <2>1, <2>2
  <1>12. ASSUME NEW n \in 0..(N - 1), n \in S PROVE n + 1 \in S
    <2>1. n + 1 \in 1..N /\ n + 1 \in 0..N /\ s[n + 1] \in B /\ (n + 1) - 1 = n
      BY <1>1
    <2>2. kept[n + 1] = Keep(kept[n], s[n + 1])
      BY <1>10, <2>1
    <2>3. kept[n] \in T
      BY <1>12
    <2>4. kept[n + 1] \in T
      BY <1>3, <2>1, <2>2, <2>3
    <2> QED
      BY <2>1, <2>4
  <1> HIDE DEF S
  <1>13. \A n \in 0..N : n \in S
    BY <1>1, <1>11, <1>12, UpToInduction
  <1>14. kept \in [0..N -> T]
    BY <1>8, <1>13 DEF S
  <1> QED
    BY <1>9, <1>10, <1>14

LEMMA KeptStep ==
  ASSUME NEW B, NEW s \in Seq(B)
  PROVE  /\ NonEmpty(<<>>) = <<>>
         /\ NonEmpty(s) \in Seq(B \ {<<>>})
         /\ \A b \in B : NonEmpty(Append(s, b)) = Keep(NonEmpty(s), b)
  <1>1. NonEmpty(<<>>) = <<>>
    <2>1. PICK e \in Seq(B) : e = <<>> /\ Len(e) = 0
      BY EmptySeq
    <2>2. PICK p \in [0..Len(e) -> Seq(B \ {<<>>})] :
             /\ p[0] = <<>>
             /\ \A n \in 1..Len(e) : p[n] = Keep(p[n - 1], e[n])
             /\ NonEmpty(e) = p[Len(e)]
      BY KeptParts
    <2> QED
      BY <2>1, <2>2
  <1>2. PICK p \in [0..Len(s) -> Seq(B \ {<<>>})] :
           /\ p[0] = <<>>
           /\ \A n \in 1..Len(s) : p[n] = Keep(p[n - 1], s[n])
           /\ NonEmpty(s) = p[Len(s)]
    BY KeptParts
  <1>3. Len(s) \in Nat
    BY LenProperties
  <1>4. ASSUME NEW b \in B PROVE NonEmpty(Append(s, b)) = Keep(NonEmpty(s), b)
    <2> DEFINE N == Len(s)
               t == Append(s, b)
    <2>1. t \in Seq(B) /\ Len(t) = N + 1 /\ t[N + 1] = b /\ \A n \in 1..N : t[n] = s[n]
      BY AppendProperties
    <2>2. PICK q \in [0..Len(t) -> Seq(B \ {<<>>})] :
             /\ q[0] = <<>>
             /\ \A n \in 1..Len(t) : q[n] = Keep(q[n - 1], t[n])
             /\ NonEmpty(t) = q[Len(t)]
      BY <2>1, KeptParts
    <2> HIDE DEF t
    <2> DEFINE S == {n \in 0..N : p[n] = q[n]}
    <2>3. 0 \in S
      <3>1. 0 \in 0..N /\ p[0] = q[0]
        BY <1>2, <1>3, <2>2
      <3> QED
        BY <3>1
    <2>4. ASSUME NEW n \in 0..(N - 1), n \in S PROVE n + 1 \in S
      <3>1. n + 1 \in 1..N /\ n + 1 \in 1..Len(t) /\ (n + 1) - 1 = n
        BY <1>3, <2>1
      <3>2. p[n + 1] = Keep(p[n], s[n + 1]) /\ q[n + 1] = Keep(q[n], t[n + 1])
        BY <1>2, <2>2, <3>1
      <3> QED
        BY <2>1, <2>4, <3>1, <3>2
    <2> HIDE DEF S
    <2>5. \A n \in 0..N : n \in S
      BY <1>3, <2>3, <2>4, UpToInduction
    <2>6. p[N] = q[N]
      BY <1>3, <2>5 DEF S
    <2>7. N + 1 \in 1..Len(t) /\ (N + 1) - 1 = N
      BY <1>3, <2>1
    <2>8. q[N + 1] = Keep(q[N], b)
      BY <2>1, <2>2, <2>7
    <2> QED
      BY <1>2, <2>1, <2>2, <2>6, <2>8 DEF t
  <1>5. NonEmpty(s) \in Seq(B \ {<<>>})
    <2>1. Len(s) \in 0..Len(s)
      BY <1>3
    <2> QED
      BY <1>2, <2>1, Zenon
  <1> QED
    BY <1>1, <1>4, <1>5

\* FlattenSeq is what its recursion says.
LEMMA FlattenParts ==
  ASSUME NEW A, NEW s \in Seq(Seq(A)), Len(s) # 0
  PROVE  \E flat \in [1..Len(s) -> Seq(A)] :
           /\ flat[1] = s[1]
           /\ \A n \in 2..Len(s) : flat[n] = flat[n - 1] \o s[n]
           /\ FlattenSeq(s) = flat[Len(s)]
  <1> DEFINE N == Len(s)
             T == Seq(A)
             step == [n \in 1..N |-> [p \in T |-> p \o s[n]]]
             Is(p) == p = [n \in 1..N |-> IF n = 1 THEN s[n] ELSE p[n - 1] \o s[n]]
             flat == CHOOSE p : Is(p)
  <1>1. N \in Nat \ {0} /\ \A n \in 1..N : s[n] \in T
    BY LenProperties, ElementOfSeq
  <1>2. <<>> \in T
    BY EmptySeq
  <1>3. \A p, q \in T : p \o q \in T
    BY ConcatProperties
  <1>4. step \in [1..N -> [T -> T]]
    BY <1>1, <1>3
  <1>5. PICK f \in [0..N -> T] : f[0] = <<>> /\ \A n \in 1..N : f[n] = step[n][f[n - 1]]
    <2> DEFINE one == <<>>
    <2>1. one \in T /\ N \in Nat /\ step \in [1..N -> [T -> T]]
      BY <1>1, <1>2, <1>4
    <2> HIDE DEF N, T, step, one
    <2>2. PICK f \in [0..N -> T] : Follows(f, N, one, step)
      BY <2>1, PrefixRecursion
    <2> QED
      BY <2>2 DEF Follows, one
  <1>6. ASSUME NEW n \in 1..N PROVE f[n] = f[n - 1] \o s[n]
    <2>1. n - 1 \in 0..N
      BY <1>1
    <2>2. f[n - 1] \in T
      BY <2>1
    <2> QED
      BY <1>5, <2>2
  <1>7. f[1] = s[1]
    <2>1. 1 \in 1..N /\ 1 - 1 = 0
      BY <1>1
    <2>2. f[1] = f[0] \o s[1]
      BY <1>6, <2>1
    <2>3. s[1] \in T
      BY <1>1, <2>1
    <2> QED
      BY <1>5, <2>2, <2>3, ConcatEmptySeq
  <1> DEFINE g == [n \in 1..N |-> f[n]]
  <1>8. g \in [1..N -> T] /\ \A n \in 1..N : g[n] = f[n]
    BY <1>1
  <1>9. Is(g)
    <2> DEFINE h == [n \in 1..N |-> IF n = 1 THEN s[n] ELSE g[n - 1] \o s[n]]
    <2>1. ASSUME NEW n \in 1..N PROVE h[n] = g[n]
      <3>1. CASE n = 1
        BY <1>7, <1>8, <3>1
      <3>2. CASE n # 1
        <4>1. n - 1 \in 1..N
          BY <1>1, <3>2
        <4> QED
          BY <1>6, <1>8, <3>2, <4>1
      <3> QED
        BY <3>1, <3>2
    <2>2. DOMAIN g = 1..N /\ DOMAIN h = 1..N /\ g = [n \in 1..N |-> g[n]] /\ h = [n \in 1..N |-> h[n]]
      OBVIOUS
    <2>3. g = h
      <3> HIDE DEF g, h
      <3> QED
        BY <2>1, <2>2
    <2> QED
      BY <2>3
  <1> HIDE DEF g
  <1>10. Is(flat)
    BY <1>9, Zenon
  <1>11. FlattenSeq(s) = flat[N]
    <2>1. FlattenSeq(s) = IF Len(s) = 0 THEN s ELSE flat[Len(s)]
      BY Zenon DEF FlattenSeq
    <2> QED
      BY <2>1
  <1> HIDE DEF flat
  <1>12. /\ DOMAIN flat = 1..N
         /\ \A n \in 1..N : flat[n] = IF n = 1 THEN s[n] ELSE flat[n - 1] \o s[n]
    <2>1. DOMAIN flat = 1..N
      BY <1>10, Zenon
    <2>2. \A n \in 1..N : flat[n] = IF n = 1 THEN s[n] ELSE flat[n - 1] \o s[n]
      BY <1>10, Zenon
    <2> QED
      BY <2>1, <2>2
  <1>13. flat[1] = s[1] /\ \A n \in 2..N : flat[n] = flat[n - 1] \o s[n]
    <2>1. 1 \in 1..N /\ \A n \in 2..N : n # 1 /\ n \in 1..N
      BY <1>1
    <2> QED
      BY <1>12, <2>1, Zenon
  <1> DEFINE S == {n \in 0..N : n = 0 \/ flat[n] \in T}
  <1>14. 0 \in S
    BY <1>1
  <1>15. ASSUME NEW n \in 0..(N - 1), n \in S PROVE n + 1 \in S
    <2>1. n + 1 \in 1..N /\ n + 1 \in 0..N /\ s[n + 1] \in T /\ (n + 1) - 1 = n
      BY <1>1
    <2>2. CASE n = 0
      BY <1>13, <2>1, <2>2
    <2>3. CASE n # 0
      <3>1. n + 1 \in 2..N
        BY <1>1, <2>3
      <3>2. flat[n + 1] = flat[n] \o s[n + 1] /\ flat[n] \in T
        BY <1>13, <1>15, <2>1, <2>3, <3>1
      <3> QED
        BY <1>3, <2>1, <3>2
    <2> QED
      BY <2>2, <2>3
  <1> HIDE DEF S
  <1>16. \A n \in 0..N : n \in S
    BY <1>1, <1>14, <1>15, UpToInduction
  <1>17. flat \in [1..N -> T]
    <2>1. \A n \in 1..N : flat[n] \in T
      BY <1>16 DEF S
    <2>2. flat = [n \in 1..N |-> flat[n]]
      BY <1>10, <1>12
    <2> QED
      BY <1>12, <2>1, <2>2
  <1> QED
    BY <1>11, <1>13, <1>17

LEMMA FlattenStep ==
  ASSUME NEW A, NEW s \in Seq(Seq(A))
  PROVE  /\ FlattenSeq(<<>>) = <<>>
         /\ FlattenSeq(s) \in Seq(A)
         /\ \A t \in Seq(A) : FlattenSeq(Append(s, t)) = FlattenSeq(s) \o t
  <1>1. FlattenSeq(<<>>) = <<>>
    <2>1. PICK e \in Seq(A) : e = <<>> /\ Len(e) = 0
      BY EmptySeq
    <2>2. FlattenSeq(e) = e
      BY <2>1 DEF FlattenSeq
    <2> QED
      BY <2>1, <2>2
  <1>2. Len(s) \in Nat
    BY LenProperties
  <1>3. FlattenSeq(s) \in Seq(A)
    <2>1. CASE Len(s) = 0
      <3>1. s = <<>>
        BY <2>1, EmptySeq
      <3> QED
        BY <1>1, <3>1, EmptySeq
    <2>2. CASE Len(s) # 0
      <3>1. PICK p \in [1..Len(s) -> Seq(A)] :
              /\ p[1] = s[1]
              /\ \A n \in 2..Len(s) : p[n] = p[n - 1] \o s[n]
              /\ FlattenSeq(s) = p[Len(s)]
        BY <2>2, FlattenParts
      <3>2. Len(s) \in 1..Len(s)
        BY <1>2, <2>2
      <3> QED
        BY <3>1, <3>2
    <2> QED
      BY <2>1, <2>2
  <1>4. ASSUME NEW e \in Seq(A) PROVE FlattenSeq(Append(s, e)) = FlattenSeq(s) \o e
    <2> DEFINE N == Len(s)
               t == Append(s, e)
    <2>1. t \in Seq(Seq(A)) /\ Len(t) = N + 1 /\ t[N + 1] = e /\ \A n \in 1..N : t[n] = s[n]
      BY AppendProperties
    <2>2. PICK q \in [1..Len(t) -> Seq(A)] :
             /\ q[1] = t[1]
             /\ \A n \in 2..Len(t) : q[n] = q[n - 1] \o t[n]
             /\ FlattenSeq(t) = q[Len(t)]
      <3> HIDE DEF t
      <3>1. Len(t) # 0
        BY <1>2, <2>1
      <3> QED
        BY <2>1, <3>1, FlattenParts
    <2> HIDE DEF t
    <2>3. CASE N = 0
      <3>1. s = <<>>
        BY <2>3, EmptySeq
      <3>2. FlattenSeq(s) = <<>>
        BY <1>1, <3>1
      <3>3. FlattenSeq(t) = e
        BY <2>1, <2>2, <2>3
      <3> QED
        BY <3>2, <3>3, ConcatEmptySeq DEF t
    <2>4. CASE N # 0
      <3>1. PICK p \in [1..Len(s) -> Seq(A)] :
              /\ p[1] = s[1]
              /\ \A n \in 2..Len(s) : p[n] = p[n - 1] \o s[n]
              /\ FlattenSeq(s) = p[Len(s)]
        BY <2>4, FlattenParts
      <3> DEFINE S == {n \in 0..N : n = 0 \/ p[n] = q[n]}
      <3>2. 0 \in S
        BY <1>2
      <3>3. ASSUME NEW n \in 0..(N - 1), n \in S PROVE n + 1 \in S
        <4>1. n + 1 \in 1..N /\ n + 1 \in 0..N /\ (n + 1) - 1 = n
          BY <1>2
        <4>2. CASE n = 0
          BY <2>1, <2>2, <3>1, <4>1, <4>2
        <4>3. CASE n # 0
          <5>3. N = Len(s) /\ N \in Nat /\ Len(t) >= N /\ n \in 0..(N - 1)
            BY <1>2, <2>1, <3>3
          <5> HIDE DEF N
          <5>1. n + 1 \in 2..Len(s) /\ n + 1 \in 2..Len(t)
            BY <4>3, <5>3
          <5>2. p[n + 1] = p[n] \o s[n + 1] /\ q[n + 1] = q[n] \o t[n + 1] /\ p[n] = q[n]
            BY <2>2, <3>1, <3>3, <4>1, <4>3, <5>1
          <5> QED
            BY <2>1, <4>1, <5>2
        <4> QED
          BY <4>2, <4>3
      <3> HIDE DEF S
      <3>4. \A n \in 0..N : n \in S
        BY <1>2, <3>2, <3>3, UpToInduction
      <3>5. p[N] = q[N]
        <4>1. N \in S
          BY <1>2, <3>4
        <4> QED
          BY <2>4, <4>1 DEF S
      <3>6. N + 1 \in 2..Len(t) /\ (N + 1) - 1 = N
        BY <1>2, <2>1, <2>4
      <3>7. q[N + 1] = q[N] \o e
        BY <2>1, <2>2, <3>6
      <3> QED
        BY <2>1, <2>2, <3>1, <3>5, <3>7 DEF t
    <2> QED
      BY <2>3, <2>4
  <1> QED
    BY <1>1, <1>3, <1>4

LEMMA FlattenConcat ==
  ASSUME NEW A, NEW s \in Seq(Seq(A)), NEW t \in Seq(Seq(A))
  PROVE  FlattenSeq(s \o t) = FlattenSeq(s) \o FlattenSeq(t)
  <1> DEFINE B == Seq(A)
             S == {r \in Seq(B) : FlattenSeq(s \o r) = FlattenSeq(s) \o FlattenSeq(r)}
  <1>1. FlattenSeq(s) \in B
    BY FlattenStep
  <1>2. <<>> \in S
    <2>1. FlattenSeq(<<>>) = <<>> /\ s \o <<>> = s /\ <<>> \in Seq(B)
      BY FlattenStep, ConcatEmptySeq, EmptySeq
    <2>2. FlattenSeq(s) \o <<>> = FlattenSeq(s)
      BY <1>1, ConcatEmptySeq
    <2> QED
      BY <2>1, <2>2
  <1>3. ASSUME NEW r \in Seq(B), NEW e \in B, r \in S PROVE Append(r, e) \in S
    <2>1. s \o r \in Seq(B) /\ FlattenSeq(r) \in B /\ Append(r, e) \in Seq(B)
      BY ConcatProperties, FlattenStep, AppendProperties
    <2>2. FlattenSeq(Append(s \o r, e)) = FlattenSeq(s \o r) \o e
      BY <2>1, FlattenStep
    <2>3. FlattenSeq(Append(r, e)) = FlattenSeq(r) \o e
      BY FlattenStep
    <2>4. s \o Append(r, e) = Append(s \o r, e)
      <3>1. <<e>> \in Seq(B) /\ Append(r, e) = r \o <<e>> /\ Append(s \o r, e) = (s \o r) \o <<e>>
        BY <2>1, AppendIsConcat
      <3> HIDE DEF B
      <3>2. s \in Seq(B)
        BY DEF B
      <3>3. (s \o r) \o <<e>> = s \o (r \o <<e>>)
        <4>1. Associates(s, r, <<e>>)
          BY <3>1, <3>2, ConcatThree
        <4> QED
          BY <4>1 DEF Associates
      <3> QED
        BY <3>1, <3>3
    <2>5. (FlattenSeq(s) \o FlattenSeq(r)) \o e = FlattenSeq(s) \o (FlattenSeq(r) \o e)
      <3>1. Associates(FlattenSeq(s), FlattenSeq(r), e)
        BY <1>1, <2>1, ConcatThree
      <3> QED
        BY <3>1 DEF Associates
    <2> QED
      BY <1>3, <2>1, <2>2, <2>3, <2>4, <2>5
  <1> HIDE DEF S
  <1>4. Seq(B) \subseteq S
    BY <1>2, <1>3, SeqSetInduction
  <1> QED
    BY <1>4 DEF S

-----------------------------------------------------------------------------
(* Parts of a text *)

\* A stretch of a text.
LEMMA Stretch ==
  ASSUME NEW A, NEW s \in Seq(A), NEW i \in 1..(Len(s) + 1), NEW j \in 0..Len(s)
  PROVE  /\ SubSeq(s, i, j) \in Seq(A)
         /\ Len(SubSeq(s, i, j)) = IF i <= j THEN j - i + 1 ELSE 0
         /\ \A n \in 1..(j - i + 1) : SubSeq(s, i, j)[n] = s[i + n - 1]
  <1>1. Len(s) \in Nat /\ i \in Int /\ j \in Int
    BY LenProperties
  <1>2. \A n \in i..j : s[n] \in A
    BY <1>1, ElementOfSeq
  <1> QED
    BY <1>1, <1>2, SubSeqProperties

\* A prefix, symbol by symbol.
LEMMA PrefixSymbols ==
  ASSUME NEW A, NEW s \in Seq(A), NEW t \in Seq(A)
  PROVE  IsPrefix(s, t) <=> Len(s) <= Len(t) /\ \A i \in 1..Len(s) : s[i] = t[i]
  <1>1. Len(s) \in Nat /\ Len(t) \in Nat
    BY LenProperties
  <1> SUFFICES ASSUME Len(s) <= Len(t)
               PROVE  SubSeq(s, 1, Len(s)) = SubSeq(t, 1, Len(s)) <=> \A i \in 1..Len(s) : s[i] = t[i]
    BY DEF IsPrefix
  <1> DEFINE u == SubSeq(s, 1, Len(s))
             v == SubSeq(t, 1, Len(s))
  <1>2. u = s
    BY SubSeqFull
  <1>3. v \in Seq(A) /\ Len(v) = Len(s) /\ \A i \in 1..Len(s) : v[i] = t[i]
    <2>1. 1 \in 1..(Len(t) + 1) /\ Len(s) \in 0..Len(t)
      BY <1>1
    <2>2. /\ SubSeq(t, 1, Len(s)) \in Seq(A)
          /\ Len(SubSeq(t, 1, Len(s))) = IF 1 <= Len(s) THEN Len(s) - 1 + 1 ELSE 0
          /\ \A n \in 1..(Len(s) - 1 + 1) : SubSeq(t, 1, Len(s))[n] = t[1 + n - 1]
      BY <2>1, Stretch
    <2> HIDE DEF v
    <2> QED
      BY <1>1, <2>2 DEF v
  <1> HIDE DEF u, v
  <1>4. s = v <=> \A i \in 1..Len(s) : s[i] = v[i]
    BY <1>3, SeqEqual
  <1> QED
    BY <1>2, <1>3, <1>4 DEF u, v

\* A text around one of its symbols.
LEMMA CutAt ==
  ASSUME NEW A, NEW s \in Seq(A), NEW k \in 1..Len(s)
  PROVE  /\ SubSeq(s, 1, k - 1) \in Seq(A) /\ SubSeq(s, k + 1, Len(s)) \in Seq(A) /\ s[k] \in A
         /\ s = Append(SubSeq(s, 1, k - 1), s[k]) \o SubSeq(s, k + 1, Len(s))
  <1> DEFINE u == SubSeq(s, 1, k - 1)
             v == SubSeq(s, k + 1, Len(s))
             w == Append(u, s[k])
  <1>1. Len(s) \in Nat /\ s[k] \in A
    BY LenProperties, ElementOfSeq
  <1>2. 1 \in 1..(Len(s) + 1) /\ k - 1 \in 0..Len(s) /\ k + 1 \in 1..(Len(s) + 1) /\ Len(s) \in 0..Len(s)
    BY <1>1
  <1>3. /\ u \in Seq(A) /\ Len(u) = (IF 1 <= k - 1 THEN k - 1 - 1 + 1 ELSE 0)
        /\ \A n \in 1..(k - 1 - 1 + 1) : u[n] = s[1 + n - 1]
    BY <1>2, Stretch
  <1>4. /\ v \in Seq(A) /\ Len(v) = (IF k + 1 <= Len(s) THEN Len(s) - (k + 1) + 1 ELSE 0)
        /\ \A n \in 1..(Len(s) - (k + 1) + 1) : v[n] = s[k + 1 + n - 1]
    BY <1>2, Stretch
  <1> HIDE DEF u, v
  <1>5. Len(u) = k - 1 /\ Len(v) = Len(s) - k
    BY <1>1, <1>3, <1>4
  <1>6. /\ w \in Seq(A) /\ Len(w) = k
        /\ w[k] = s[k] /\ \A n \in 1..(k - 1) : w[n] = u[n]
    BY <1>1, <1>3, <1>5, AppendProperties
  <1> HIDE DEF w
  <1>7. /\ w \o v \in Seq(A) /\ Len(w \o v) = Len(s)
        /\ \A i \in 1..Len(s) : (w \o v)[i] = IF i <= k THEN w[i] ELSE v[i - k]
    <2>1. /\ w \o v \in Seq(A) /\ Len(w \o v) = Len(w) + Len(v)
          /\ \A i \in 1..Len(w) + Len(v) : (w \o v)[i] = IF i <= Len(w) THEN w[i] ELSE v[i - Len(w)]
      BY <1>4, <1>6, ConcatProperties
    <2>2. Len(w) + Len(v) = Len(s)
      <3>1. Len(w) = k /\ Len(v) = Len(s) - k
        BY <1>5, <1>6
      <3>2. Len(s) \in Int /\ k \in Int
        BY <1>1
      <3>3. \A x, y \in Int : x + (y - x) = y
        OBVIOUS
      <3> QED
        BY <3>1, <3>2, <3>3, Zenon
    <2> QED
      BY <1>6, <2>1, <2>2
  <1>8. ASSUME NEW i \in 1..Len(s) PROVE s[i] = (w \o v)[i]
    <2>1. CASE i < k
      <3>1. i \in 1..(k - 1) /\ i <= k /\ 1 + i - 1 = i /\ i \in 1..(k - 1 - 1 + 1)
        BY <1>1, <2>1
      <3> QED
        BY <1>3, <1>6, <1>7, <3>1
    <2>2. CASE i = k
      BY <1>6, <1>7, <2>2
    <2>3. CASE i > k
      <3>1. i - k \in 1..(Len(s) - (k + 1) + 1) /\ ~(i <= k) /\ k + 1 + (i - k) - 1 = i
        BY <1>1, <2>3
      <3>2. v[i - k] = s[k + 1 + (i - k) - 1]
        BY <1>4, <3>1
      <3> QED
        BY <1>7, <3>1, <3>2
    <2>4. i < k \/ i = k \/ i > k
      <3>1. Len(s) \in Int /\ i \in Int /\ k \in Int
        BY <1>1
      <3> QED
        BY <3>1
    <2> QED
      BY <2>1, <2>2, <2>3, <2>4, Zenon
  <1>9. s = w \o v
    BY <1>7, <1>8, SeqEqual
  <1> QED
    BY <1>1, <1>3, <1>4, <1>9 DEF u, v, w

\* A text after its first symbol.
LEMMA TailOfText ==
  ASSUME NEW A, NEW s \in Seq(A), s # <<>>
  PROVE  /\ Len(s) \in Nat \ {0} /\ s[1] \in A
         /\ Tail(s) \in Seq(A) /\ Len(Tail(s)) = Len(s) - 1
         /\ \A i \in 1..(Len(s) - 1) : Tail(s)[i] = s[i + 1]
         /\ s = <<s[1]>> \o Tail(s)
  <1>1. Len(s) \in Nat \ {0}
    BY EmptySeq
  <1>2. 1 \in 1..Len(s) /\ Len(s) \in 1..Len(s)
    BY <1>1
  <1>3. s[1] \in A
    BY <1>2, ElementOfSeq
  <1>4. Tail(s) \in Seq(A) /\ Len(Tail(s)) = Len(s) - 1 /\ \A i \in 1..Len(Tail(s)) : Tail(s)[i] = s[i + 1]
    BY HeadTailProperties
  <1>5. SubSeq(s, 1, Len(s)) = <<s[1]>> \o SubSeq(s, 1 + 1, Len(s))
    BY <1>2, SubSeqRecursiveFirst
  <1>6. SubSeq(s, 1, Len(s)) = s /\ Tail(s) = SubSeq(s, 2, Len(s)) /\ 1 + 1 = 2
    BY SubSeqFull, TailIsSubSeq
  <1> QED
    BY <1>1, <1>3, <1>4, <1>5, <1>6

\* SelectInSeq and SelectLastInSeq find a symbol.
LEMMA FirstFound ==
  ASSUME NEW A, NEW s \in Seq(A), NEW c
  PROVE  LET at == SelectInSeq(s, LAMBDA x : x = c)
         IN /\ at \in 0..Len(s)
            /\ at = 0 => \A i \in 1..Len(s) : s[i] # c
            /\ at # 0 => at \in 1..Len(s) /\ s[at] = c /\ \A i \in 1..(at - 1) : s[i] # c
  <1> DEFINE I == {i \in 1..Len(s) : s[i] = c}
             at == SelectInSeq(s, LAMBDA x : x = c)
  <1>1. Len(s) \in Nat
    BY LenProperties
  <1>2. at = IF I # {} THEN Min(I) ELSE 0
    BY Zenon DEF SelectInSeq
  <1> HIDE DEF at
  <1>3. CASE I = {}
    <2>1. at = 0 /\ \A i \in 1..Len(s) : s[i] # c
      BY <1>2, <1>3
    <2> QED
      BY <1>1, <2>1 DEF at
  <1>4. CASE I # {}
    <2>1. I \in SUBSET Nat
      BY <1>1
    <2>2. at = Min(I)
      BY <1>2, <1>4
    <2> HIDE DEF I
    <2>3. at \in I /\ \A i \in I : at <= i
      BY <1>4, <2>1, <2>2, MinOfNat
    <2>4. at \in 1..Len(s) /\ s[at] = c
      BY <2>3 DEF I
    <2>5. ASSUME NEW i \in 1..(at - 1) PROVE s[i] # c
      <3>1. i \in 1..Len(s) /\ ~(at <= i)
        BY <1>1, <2>4
      <3>2. i \notin I
        BY <2>3, <3>1
      <3> QED
        BY <3>1, <3>2 DEF I
    <2>6. at \in 0..Len(s) /\ at # 0
      BY <1>1, <2>4
    <2> QED
      BY <2>4, <2>5, <2>6, Zenon DEF at
  <1> QED
    BY <1>3, <1>4

LEMMA LastFound ==
  ASSUME NEW A, NEW s \in Seq(A), NEW c
  PROVE  LET at == SelectLastInSeq(s, LAMBDA x : x = c)
         IN /\ at \in 0..Len(s)
            /\ at = 0 => \A i \in 1..Len(s) : s[i] # c
            /\ at # 0 => at \in 1..Len(s) /\ s[at] = c /\ \A i \in (at + 1)..Len(s) : s[i] # c
  <1> DEFINE I == {i \in 1..Len(s) : s[i] = c}
             at == SelectLastInSeq(s, LAMBDA x : x = c)
  <1>1. Len(s) \in Nat
    BY LenProperties
  <1>2. at = IF I # {} THEN Max(I) ELSE 0
    BY Zenon DEF SelectLastInSeq
  <1> HIDE DEF at
  <1>3. CASE I = {}
    <2>1. at = 0 /\ \A i \in 1..Len(s) : s[i] # c
      BY <1>2, <1>3
    <2> QED
      BY <1>1, <2>1 DEF at
  <1>4. CASE I # {}
    <2>1. I \in SUBSET (0..Len(s))
      BY <1>1
    <2>2. at = Max(I)
      BY <1>2, <1>4
    <2> HIDE DEF I
    <2>3. at \in I /\ \A i \in I : i <= at
      BY <1>1, <1>4, <2>1, <2>2, MaxOfNat
    <2>4. at \in 1..Len(s) /\ s[at] = c
      BY <2>3 DEF I
    <2>5. ASSUME NEW i \in (at + 1)..Len(s) PROVE s[i] # c
      <3>1. i \in 1..Len(s) /\ ~(i <= at)
        BY <1>1, <2>4
      <3>2. i \notin I
        BY <2>3, <3>1
      <3> QED
        BY <3>1, <3>2 DEF I
    <2>6. at \in 0..Len(s) /\ at # 0
      BY <1>1, <2>4
    <2> QED
      BY <2>4, <2>5, <2>6, Zenon DEF at
  <1> QED
    BY <1>3, <1>4

\* Trim gives a stretch, too.
LEMMA TrimText ==
  ASSUME NEW A, NEW s \in Seq(A), NEW D
  PROVE  Trim(s, D) \in Seq(A)
  <1> DEFINE kept == {i \in DOMAIN s : s[i] \notin D}
             first == CHOOSE i \in kept : \A j \in kept : i <= j
             last == CHOOSE i \in kept : \A j \in kept : i >= j
  <1>1. Len(s) \in Nat /\ DOMAIN s = 1..Len(s)
    BY LenProperties
  <1>2. CASE kept = {}
    BY <1>2, EmptySeq DEF Trim
  <1>3. CASE kept # {}
    <2>1. first = Min(kept) /\ last = Max(kept)
      BY DEF Min, Max
    <2>2. kept \in SUBSET (0..Len(s)) /\ kept \in SUBSET Nat
      BY <1>1
    <2> HIDE DEF first, last, kept
    <2>3. first \in kept /\ last \in kept
      BY <1>1, <1>3, <2>1, <2>2, MinOfNat, MaxOfNat
    <2>4. first \in 1..(Len(s) + 1) /\ last \in 0..Len(s)
      BY <1>1, <2>3 DEF kept
    <2>5. Trim(s, D) = SubSeq(s, first, last)
      BY <1>3 DEF Trim, kept, first, last
    <2> QED
      BY <2>4, <2>5, Stretch
  <1> QED
    BY <1>2, <1>3

\* FindCrlf gives the first line's end.
LEMMA CrlfFound ==
  ASSUME NEW A, NEW b \in Seq(A)
  PROVE  LET at == FindCrlf(b)
         IN /\ at \in 0..Len(b)
            /\ at = 0 => \A i \in 1..(Len(b) - 1) : ~(b[i] = "CR" /\ b[i + 1] = "LF")
            /\ at # 0 => /\ at \in 1..(Len(b) - 1) /\ b[at] = "CR" /\ b[at + 1] = "LF"
                         /\ \A i \in 1..(at - 1) : ~(b[i] = "CR" /\ b[i + 1] = "LF")
  <1> DEFINE ends == {i \in 1..(Len(b) - 1) : b[i] = "CR" /\ b[i + 1] = "LF"}
             first == CHOOSE i \in ends : \A j \in ends : i <= j
  <1>1. Len(b) \in Nat
    BY LenProperties
  <1>2. CASE ends = {}
    BY <1>1, <1>2 DEF FindCrlf
  <1>3. CASE ends # {}
    <2>1. first = Min(ends) /\ ends \in SUBSET Nat
      BY <1>1 DEF Min
    <2> HIDE DEF first, ends
    <2>2. first \in ends /\ \A i \in ends : first <= i
      BY <1>3, <2>1, MinOfNat
    <2>3. FindCrlf(b) = first
      BY <1>3 DEF FindCrlf, first, ends
    <2>4. first \in 1..(Len(b) - 1) /\ b[first] = "CR" /\ b[first + 1] = "LF"
      BY <2>2 DEF ends
    <2>5. ASSUME NEW i \in 1..(first - 1) PROVE ~(b[i] = "CR" /\ b[i + 1] = "LF")
      <3>1. i \in 1..(Len(b) - 1) /\ ~(first <= i)
        BY <1>1, <2>4
      <3>2. i \notin ends
        BY <2>2, <3>1
      <3> QED
        BY <3>1, <3>2 DEF ends
    <2> QED
      BY <1>1, <2>3, <2>4, <2>5
  <1> QED
    BY <1>2, <1>3

-----------------------------------------------------------------------------
(* Texts put together from pieces *)

LEMMA MapSeq ==
  ASSUME NEW S, NEW n \in Nat, NEW f \in [1..n -> S]
  PROVE  f \in Seq(S) /\ Len(f) = n /\ DOMAIN f = 1..n
  <1>1. f \in Seq(S)
    BY SeqDef
  <1>2. Len(f) \in Nat /\ DOMAIN f = 1..Len(f) /\ DOMAIN f = 1..n
    BY <1>1, LenProperties
  <1> QED
    BY <1>1, <1>2

\* The elements of x, each turned into the text that F has for it.
Maps(B, C) == [B -> C]
Images(F, x) == [i \in 1..Len(x) |-> F[x[i]]]
Written(F, x) == FlattenSeq(Images(F, x))

IsImages(g, F, x) == Len(g) = Len(x) /\ \A i \in 1..Len(x) : g[i] = F[x[i]]

LEMMA ImagesParts ==
  ASSUME NEW B, NEW C, NEW F \in Maps(B, C), NEW x \in Seq(B)
  PROVE  Images(F, x) \in Seq(C) /\ IsImages(Images(F, x), F, x)
  <1>1. Len(x) \in Nat /\ \A i \in 1..Len(x) : x[i] \in B
    BY LenProperties, ElementOfSeq
  <1>2. Images(F, x) \in [1..Len(x) -> C]
    BY <1>1 DEF Images, Maps
  <1>3. \A i \in 1..Len(x) : Images(F, x)[i] = F[x[i]]
    BY DEF Images
  <1> QED
    BY <1>1, <1>2, <1>3, MapSeq DEF IsImages

LEMMA ImagesConcat ==
  ASSUME NEW B, NEW C, NEW F \in Maps(B, C), NEW x \in Seq(B), NEW y \in Seq(B)
  PROVE  Images(F, x \o y) = Images(F, x) \o Images(F, y)
  <1> DEFINE u == Images(F, x)
             v == Images(F, y)
             w == Images(F, x \o y)
  <1>1. /\ x \o y \in Seq(B) /\ Len(x \o y) = Len(x) + Len(y)
        /\ \A i \in 1..(Len(x) + Len(y)) : (x \o y)[i] = IF i <= Len(x) THEN x[i] ELSE y[i - Len(x)]
        /\ Len(x) \in Nat /\ Len(y) \in Nat
    BY ConcatProperties, LenProperties
  <1>7. u \in Seq(C) /\ IsImages(u, F, x) /\ v \in Seq(C) /\ IsImages(v, F, y)
    BY ImagesParts
  <1>8. w \in Seq(C) /\ IsImages(w, F, x \o y)
    BY <1>1, ImagesParts
  <1> HIDE DEF u, v, w
  <1>2. /\ Len(u) = Len(x) /\ \A i \in 1..Len(x) : u[i] = F[x[i]]
        /\ Len(v) = Len(y) /\ \A i \in 1..Len(y) : v[i] = F[y[i]]
    BY <1>7 DEF IsImages
  <1>3. Len(w) = Len(x) + Len(y) /\ \A i \in 1..(Len(x) + Len(y)) : w[i] = F[(x \o y)[i]]
    BY <1>1, <1>8 DEF IsImages
  <1>4. /\ u \o v \in Seq(C) /\ Len(u \o v) = Len(x) + Len(y)
        /\ \A i \in 1..(Len(x) + Len(y)) : (u \o v)[i] = IF i <= Len(x) THEN u[i] ELSE v[i - Len(x)]
    <2>1. /\ u \o v \in Seq(C) /\ Len(u \o v) = Len(u) + Len(v)
          /\ \A i \in 1..Len(u) + Len(v) : (u \o v)[i] = IF i <= Len(u) THEN u[i] ELSE v[i - Len(u)]
      BY <1>7, ConcatProperties
    <2> QED
      BY <1>2, <2>1
  <1>5. ASSUME NEW i \in 1..(Len(x) + Len(y)) PROVE w[i] = (u \o v)[i]
    <2>1. CASE i <= Len(x)
      <3>1. i \in 1..Len(x)
        BY <1>1, <2>1
      <3> QED
        BY <1>1, <1>2, <1>3, <1>4, <2>1, <3>1
    <2>2. CASE ~(i <= Len(x))
      <3>1. i - Len(x) \in 1..Len(y)
        BY <1>1, <2>2
      <3> DEFINE n == i - Len(x)
      <3> HIDE DEF n
      <3>2. (x \o y)[i] = y[n] /\ (u \o v)[i] = v[n] /\ n \in 1..Len(y)
        BY <1>1, <1>2, <1>3, <1>4, <2>2, <3>1 DEF n
      <3> QED
        BY <1>1, <1>2, <1>3, <3>2
    <2> QED
      BY <2>1, <2>2
  <1>6. w = u \o v
    BY <1>3, <1>4, <1>5, <1>8, SeqEqual
  <1> QED
    BY <1>6 DEF u, v, w

LEMMA WrittenParts ==
  ASSUME NEW A, NEW B, NEW F \in Maps(B, Seq(A)), NEW x \in Seq(B)
  PROVE  /\ Written(F, x) \in Seq(A) /\ Written(F, <<>>) = <<>>
         /\ \A e \in B : Written(F, <<e>>) = F[e]
         /\ \A y \in Seq(B) : Written(F, x \o y) = Written(F, x) \o Written(F, y)
  <1>1. Written(F, x) \in Seq(A)
    <2>1. Images(F, x) \in Seq(Seq(A))
      BY ImagesParts
    <2> QED
      BY <2>1, FlattenStep DEF Written
  <1>2. Written(F, <<>>) = <<>>
    <2>1. PICK e \in Seq(B) : e = <<>> /\ Len(e) = 0
      BY EmptySeq
    <2>5. Images(F, e) \in Seq(Seq(A)) /\ IsImages(Images(F, e), F, e)
      BY ImagesParts, Zenon
    <2>2. Images(F, e) \in Seq(Seq(A)) /\ Len(Images(F, e)) = 0
      BY <2>1, <2>5 DEF IsImages
    <2>3. Images(F, e) = <<>>
      BY <2>2, EmptySeq
    <2>4. FlattenSeq(<<>>) = <<>>
      <3>1. <<>> \in Seq(Seq(A))
        BY EmptySeq
      <3> QED
        BY <3>1, FlattenStep
    <2> QED
      BY <2>1, <2>3, <2>4 DEF Written
  <1>3. ASSUME NEW e \in B PROVE Written(F, <<e>>) = F[e]
    <2>1. <<e>> \in Seq(B) /\ Len(<<e>>) = 1 /\ <<e>>[1] = e
      OBVIOUS
    <2>2. F[e] \in Seq(A) /\ <<>> \in Seq(Seq(A)) /\ <<F[e]>> \in Seq(Seq(A))
      BY EmptySeq DEF Maps
    <2>3. Images(F, <<e>>) = <<F[e]>>
      <3> DEFINE o == <<e>>
                 g == <<F[e]>>
      <3>1. o \in Seq(B) /\ Len(o) = 1 /\ o[1] = e /\ g \in Seq(Seq(A)) /\ Len(g) = 1 /\ g[1] = F[e]
        BY <2>1, <2>2
      <3> HIDE DEF o, g
      <3>4. Images(F, o) \in Seq(Seq(A)) /\ IsImages(Images(F, o), F, o)
        BY <3>1, ImagesParts
      <3>2. Len(Images(F, o)) = 1 /\ Images(F, o)[1] = F[e]
        BY <3>1, <3>4 DEF IsImages
      <3>3. Images(F, o) = g
        BY <3>1, <3>2, <3>4, SeqEqual
      <3> QED
        BY <3>3 DEF o, g
    <2>4. Append(<<>>, F[e]) = <<F[e]>>
      OBVIOUS
    <2>5. FlattenSeq(Append(<<>>, F[e])) = FlattenSeq(<<>>) \o F[e] /\ FlattenSeq(<<>>) = <<>>
      BY <2>2, FlattenStep
    <2>6. <<>> \o F[e] = F[e]
      BY <2>2, ConcatEmptySeq
    <2> QED
      BY <2>3, <2>4, <2>5, <2>6 DEF Written
  <1>4. ASSUME NEW y \in Seq(B) PROVE Written(F, x \o y) = Written(F, x) \o Written(F, y)
    <2>1. Images(F, x) \in Seq(Seq(A)) /\ Images(F, y) \in Seq(Seq(A))
      BY ImagesParts
    <2> QED
      <3>1. Images(F, x \o y) = Images(F, x) \o Images(F, y)
        BY ImagesConcat
      <3>2. FlattenSeq(Images(F, x) \o Images(F, y)) = FlattenSeq(Images(F, x)) \o FlattenSeq(Images(F, y))
        BY <2>1, FlattenConcat
      <3> QED
        BY <3>1, <3>2 DEF Written
  <1> QED
    BY <1>1, <1>2, <1>3, <1>4

\* A text split in two.
LEMMA CutAfter ==
  ASSUME NEW A, NEW s \in Seq(A), NEW k \in 0..Len(s)
  PROVE  /\ SubSeq(s, 1, k) \in Seq(A) /\ Len(SubSeq(s, 1, k)) = k
         /\ SubSeq(s, k + 1, Len(s)) \in Seq(A) /\ Len(SubSeq(s, k + 1, Len(s))) = Len(s) - k
         /\ s = SubSeq(s, 1, k) \o SubSeq(s, k + 1, Len(s))
  <1>1. Len(s) \in Nat
    BY LenProperties
  <1>2. 1 \in 1..(Len(s) + 1) /\ k + 1 \in 1..(Len(s) + 1) /\ Len(s) \in 0..Len(s)
    BY <1>1
  <1>3. SubSeq(s, 1, k) \in Seq(A) /\ Len(SubSeq(s, 1, k)) = (IF 1 <= k THEN k - 1 + 1 ELSE 0)
    BY <1>2, Stretch
  <1>4. /\ SubSeq(s, k + 1, Len(s)) \in Seq(A)
        /\ Len(SubSeq(s, k + 1, Len(s))) = (IF k + 1 <= Len(s) THEN Len(s) - (k + 1) + 1 ELSE 0)
    BY <1>2, Stretch
  <1>5. SubSeq(s, 1, k) \o SubSeq(s, k + 1, Len(s)) = SubSeq(s, 1, Len(s))
    <2>1. 1 \in 1..Len(s) + 1 /\ k \in (1 - 1)..Len(s) /\ Len(s) \in k..Len(s)
      BY <1>1
    <2> QED
      BY <2>1, ConcatAdjacentSubSeq
  <1>6. SubSeq(s, 1, Len(s)) = s
    BY SubSeqFull
  <1>7. (IF 1 <= k THEN k - 1 + 1 ELSE 0) = k
    OBVIOUS
  <1>8. (IF k + 1 <= Len(s) THEN Len(s) - (k + 1) + 1 ELSE 0) = Len(s) - k
    <2>1. \A x \in Nat : \A y \in 0..x : (IF y + 1 <= x THEN x - (y + 1) + 1 ELSE 0) = x - y
      OBVIOUS
    <2> QED
      BY <1>1, <2>1, Zenon
  <1> QED
    <2>1. Len(SubSeq(s, 1, k)) = k
      BY <1>3, <1>7
    <2>2. Len(SubSeq(s, k + 1, Len(s))) = Len(s) - k
      BY <1>4, <1>8
    <2>3. s = SubSeq(s, 1, k) \o SubSeq(s, k + 1, Len(s))
      BY <1>5, <1>6, Zenon
    <2> QED
      BY <1>3, <1>4, <2>1, <2>2, <2>3

\* One more element before a prefix, or off what is left.
LEMMA CutStep ==
  ASSUME NEW A, NEW s \in Seq(A), NEW k \in 1..Len(s)
  PROVE  /\ s[k] \in A
         /\ SubSeq(s, 1, k) = SubSeq(s, 1, k - 1) \o <<s[k]>>
         /\ SubSeq(s, k, Len(s)) = <<s[k]>> \o SubSeq(s, k + 1, Len(s))
  <1>1. Len(s) \in Nat
    BY LenProperties
  <1>2. 1 \in 1..Len(s) /\ k \in 1..k /\ Len(s) \in k..Len(s)
    BY <1>1
  <1>3. SubSeq(s, 1, k) = SubSeq(s, 1, k - 1) \o <<s[k]>>
    BY <1>2, SubSeqRecursiveSecond
  <1> QED
    BY <1>2, <1>3, SubSeqRecursiveFirst, ElementOfSeq

-----------------------------------------------------------------------------
(* What a parser holds is text *)

\* The symbols: strings, and those that the code itself spells.
Symbols == STRING \cup {"SP", "CR", "LF", "/", "HTTP/", "1.1", ":", "?", ".", "..", "a", "%", "index.html"} \cup Methods
Texts == Seq(Symbols)

Fields == UNION {[N -> Texts] : N \in SUBSET Symbols}
Requests == [method : Methods, target : Texts, version : Texts, headers : Fields, body : Texts]
ParserStates == {"RequestLine", "Headers", "Body", "Complete", "Error"}
Parsers == [state : ParserStates, request : Requests, buffer : Texts, count : Nat, total : Nat]

LEMMA FreshParserTyped == FreshParser \in Parsers
  <1>1. <<"/">> \in Texts /\ <<"HTTP/", "1.1">> \in Texts /\ <<>> \in Texts
    <2>1. "/" \in Symbols /\ "HTTP/" \in Symbols /\ "1.1" \in Symbols
      BY DEF Symbols
    <2> QED
      BY <2>1, EmptySeq DEF Texts
  <1>2. NoHeaders \in Fields
    <2>1. NoHeaders \in [{} -> Texts] /\ {} \in SUBSET Symbols
      BY DEF NoHeaders
    <2> QED
      BY <2>1 DEF Fields
  <1>3. EmptyRequest \in Requests
    BY <1>1, <1>2 DEF EmptyRequest, Requests, Methods
  <1> QED
    BY <1>1, <1>3 DEF FreshParser, Parsers, ParserStates

LEMMA SetHeaderTyped ==
  ASSUME NEW h \in Fields, NEW name \in Symbols, NEW value \in Texts
  PROVE  SetHeader(h, name, value) \in Fields
  <1>1. PICK N \in SUBSET Symbols : h \in [N -> Texts]
    BY DEF Fields
  <1>2. SetHeader(h, name, value) \in [N \cup {name} -> Texts] /\ N \cup {name} \in SUBSET Symbols
    BY <1>1 DEF SetHeader
  <1> QED
    BY <1>2 DEF Fields

LEMMA GetTyped ==
  ASSUME NEW h \in Fields, NEW name
  PROVE  Get(h, name) \in Texts
  <1>1. PICK N \in SUBSET Symbols : h \in [N -> Texts]
    BY DEF Fields
  <1>2. <<>> \in Texts
    BY EmptySeq DEF Texts
  <1>3. CASE name \in DOMAIN h
    BY <1>1, <1>3 DEF Get
  <1>4. CASE name \notin DOMAIN h
    BY <1>2, <1>4 DEF Get
  <1> QED
    BY <1>3, <1>4

\* What a parser is made of.
LEMMA ParserParts ==
  ASSUME NEW p \in Parsers
  PROVE  /\ p.state \in ParserStates /\ p.buffer \in Texts /\ p.count \in Nat /\ p.total \in Nat
         /\ p.request \in Requests
         /\ p.request.method \in Methods /\ p.request.target \in Texts
         /\ p.request.version \in Texts /\ p.request.headers \in Fields /\ p.request.body \in Texts
  BY DEF Parsers, Requests

LEMMA SetErrorTyped ==
  ASSUME NEW p \in Parsers
  PROVE  SetError(p) \in Parsers
  BY DEF SetError, Parsers, ParserStates

LEMMA ConsumeTyped ==
  ASSUME NEW p \in Parsers, NEW n \in 0..Len(p.buffer)
  PROVE  ConsumeBytes(p, n) \in Parsers
  <1>1. p.buffer \in Seq(Symbols) /\ Len(p.buffer) \in Nat
    BY ParserParts, LenProperties DEF Texts
  <1>2. n + 1 \in 1..(Len(p.buffer) + 1) /\ Len(p.buffer) \in 0..Len(p.buffer)
    BY <1>1
  <1>3. SubSeq(p.buffer, n + 1, Len(p.buffer)) \in Texts
    BY <1>1, <1>2, Stretch DEF Texts
  <1> QED
    BY <1>3 DEF ConsumeBytes, Parsers

LEMMA WordsTyped ==
  ASSUME NEW line \in Texts
  PROVE  Words(line) \in Seq(Texts \ {<<>>})
  <1>1. SplitAt(line, White) \in Seq(Seq(Symbols \ White))
    BY SplitStep DEF Pieces, Texts
  <1>2. Seq(Symbols \ White) \subseteq Texts
    BY SeqMonotonic DEF Texts
  <1>3. SplitAt(line, White) \in Seq(Texts)
    BY <1>1, <1>2, SeqMonotonic
  <1> QED
    BY <1>3, KeptStep DEF Words

LEMMA RequestLineTyped ==
  ASSUME NEW p \in Parsers
  PROVE  ParseRequestLine(p) \in Parsers
  <1> DEFINE at == FindCrlf(p.buffer)
             line == SubSeq(p.buffer, 1, at - 1)
             words == Words(line)
             rest == ConsumeBytes(p, at + 1)
  <1>1. p.buffer \in Seq(Symbols) /\ Len(p.buffer) \in Nat
    BY ParserParts, LenProperties DEF Texts
  <1>2. at \in 0..Len(p.buffer) /\ (at # 0 => at \in 1..(Len(p.buffer) - 1))
    BY <1>1, CrlfFound
  <1>3. CASE at = 0
    BY <1>3, SetErrorTyped DEF ParseRequestLine
  <1>4. CASE at # 0
    <2> HIDE DEF at
    <2>1. at - 1 \in 0..Len(p.buffer) /\ 1 \in 1..(Len(p.buffer) + 1) /\ at + 1 \in 0..Len(p.buffer)
      BY <1>1, <1>2, <1>4
    <2>2. line \in Texts
      BY <1>1, <2>1, Stretch DEF Texts
    <2>3. words \in Seq(Texts \ {<<>>})
      BY <2>2, WordsTyped
    <2>4. rest \in Parsers
      BY <2>1, ConsumeTyped
    <2> HIDE DEF line, words, rest
    <2> DEFINE good == Len(words) >= 3 /\ KnownMethod(words[1]) /\ Head(words[3]) = "HTTP/"
               next == [rest EXCEPT !.state = "Headers",
                                    !.request.method = StringToMethod(words[1]),
                                    !.request.target = words[2],
                                    !.request.version = words[3]]
    <2>5. ParseRequestLine(p) = IF good THEN next ELSE SetError(rest)
      BY <1>4 DEF ParseRequestLine, at, line, words, rest
    <2>6. CASE good
      <3>1. words[1] \in Texts /\ words[2] \in Texts /\ words[3] \in Texts
        <4>1. Len(words) \in Nat
          BY <2>3, LenProperties
        <4>2. 1 \in 1..Len(words) /\ 2 \in 1..Len(words) /\ 3 \in 1..Len(words)
          BY <2>6, <4>1
        <4> QED
          BY <2>3, <4>2, ElementOfSeq
      <3>2. StringToMethod(words[1]) \in Methods
        BY <2>6 DEF KnownMethod, StringToMethod, Spelled, Methods
      <3>3. next \in Parsers
        BY <2>4, <3>1, <3>2 DEF Parsers, Requests, ParserStates
      <3> QED
        BY <2>5, <2>6, <3>3
    <2>7. CASE ~good
      BY <2>4, <2>5, <2>7, SetErrorTyped
    <2> QED
      BY <2>6, <2>7
  <1> QED
    BY <1>3, <1>4

LEMMA StoreHeaderTyped ==
  ASSUME NEW p \in Parsers, NEW line \in Texts
  PROVE  StoreHeader(p, line) \in Parsers
  <1> DEFINE I == {i \in 1..Len(line) : line[i] = ":"}
             colon == IF I # {} THEN Min(I) ELSE 0
             name == Trim(SubSeq(line, 1, colon - 1), {"SP"})
             value == Trim(SubSeq(line, colon + 1, Len(line)), White)
             good == /\ p.count < MaxHeaderCount
                     /\ colon > 0
                     /\ ValidName(name)
                     /\ p.total + Len(line) <= MaxTotalHeader
             next == [p EXCEPT !.request.headers = SetHeader(@, name[1], value),
                               !.count = @ + 1,
                               !.total = @ + Len(line)]
  <1>1. StoreHeader(p, line) = IF good THEN next ELSE SetError(p)
    BY Zenon DEF StoreHeader, SelectInSeq
  <1>2. Len(line) \in Nat
    BY LenProperties DEF Texts
  <1>3. colon \in 0..Len(line)
    <2>1. I \in SUBSET Nat /\ I \subseteq 1..Len(line)
      BY <1>2
    <2>2. I # {} => Min(I) \in I
      <3> HIDE DEF I
      <3> QED
        BY <2>1, MinOfNat
    <2> HIDE DEF I
    <2>3. CASE I = {}
      BY <1>2, <2>3
    <2>4. CASE I # {}
      <3>1. Min(I) \in 1..Len(line) /\ colon = Min(I)
        BY <2>1, <2>2, <2>4
      <3> QED
        BY <1>2, <3>1
    <2> QED
      BY <2>3, <2>4
  <1> HIDE DEF I, colon
  <1>4. CASE good
    <2>1. colon - 1 \in 0..Len(line) /\ 1 \in 1..(Len(line) + 1)
      BY <1>2, <1>3, <1>4
    <2>2. colon + 1 \in 1..(Len(line) + 1) /\ Len(line) \in 0..Len(line)
      BY <1>2, <1>3
    <2>3. SubSeq(line, 1, colon - 1) \in Texts /\ SubSeq(line, colon + 1, Len(line)) \in Texts
      BY <2>1, <2>2, Stretch DEF Texts
    <2>4. name \in Texts /\ value \in Texts
      BY <2>3, TrimText DEF Texts
    <2> HIDE DEF name, value
    <2>5. name[1] \in Symbols
      <3>1. 1 \in 1..Len(name)
        BY <1>4 DEF ValidName
      <3> QED
        BY <2>4, <3>1, ElementOfSeq DEF Texts
    <2>6. SetHeader(p.request.headers, name[1], value) \in Fields
      BY <2>4, <2>5, ParserParts, SetHeaderTyped
    <2> DEFINE headers == SetHeader(p.request.headers, name[1], value)
    <2>7. ASSUME NEW h \in Fields, NEW l \in Nat
          PROVE  [p EXCEPT !.request.headers = h, !.count = @ + 1, !.total = @ + l] \in Parsers
      <3>1. [p.request EXCEPT !.headers = h] \in Requests
        BY ParserParts DEF Requests
      <3>2. p.count + 1 \in Nat /\ p.total + l \in Nat
        BY ParserParts
      <3> QED
        BY <3>1, <3>2 DEF Parsers
    <2>8. next \in Parsers
      BY <1>2, <2>6, <2>7
    <2> QED
      BY <1>1, <1>4, <2>8
  <1>5. CASE ~good
    BY <1>1, <1>5, SetErrorTyped
  <1> QED
    BY <1>4, <1>5

LEMMA EndOfHeadersTyped ==
  ASSUME NEW p \in Parsers
  PROVE  EndOfHeaders(p) \in Parsers
  <1>1. CASE p.state = "Headers" /\ FindCrlf(p.buffer) = 1
    <2>1. 2 \in 0..Len(p.buffer)
      <3>1. p.buffer \in Seq(Symbols) /\ Len(p.buffer) \in Nat
        BY ParserParts, LenProperties DEF Texts
      <3> QED
        BY <1>1, <3>1, CrlfFound
    <2>2. ConsumeBytes(p, 2) \in Parsers
      BY <2>1, ConsumeTyped
    <2> QED
      BY <1>1, <2>2 DEF EndOfHeaders, Parsers, ParserStates
  <1>2. CASE ~(p.state = "Headers" /\ FindCrlf(p.buffer) = 1)
    BY <1>2 DEF EndOfHeaders
  <1> QED
    BY <1>1, <1>2

LEMMA HeaderTyped ==
  ASSUME NEW p \in Parsers
  PROVE  ParseHeader(p) \in Parsers
  <1> DEFINE at == FindCrlf(p.buffer)
  <1>1. p.buffer \in Seq(Symbols) /\ Len(p.buffer) \in Nat
    BY ParserParts, LenProperties DEF Texts
  <1>2. at \in 0..Len(p.buffer) /\ (at # 0 => at \in 1..(Len(p.buffer) - 1))
    BY <1>1, CrlfFound
  <1>3. CASE at = 0
    BY <1>3, SetErrorTyped DEF ParseHeader
  <1>4. CASE at = 1
    BY <1>4, EndOfHeadersTyped DEF ParseHeader
  <1>5. CASE at \notin {0, 1}
    <2> DEFINE line == SubSeq(p.buffer, 1, at - 1)
               rest == ConsumeBytes(p, at + 1)
    <2>1. ParseHeader(p) = EndOfHeaders(StoreHeader(rest, line))
      BY <1>5, Zenon DEF ParseHeader
    <2> HIDE DEF at
    <2>2. at - 1 \in 0..Len(p.buffer) /\ 1 \in 1..(Len(p.buffer) + 1) /\ at + 1 \in 0..Len(p.buffer)
      BY <1>1, <1>2, <1>5
    <2>3. line \in Texts /\ rest \in Parsers
      BY <1>1, <2>2, Stretch, ConsumeTyped DEF Texts
    <2> HIDE DEF line, rest
    <2> QED
      BY <2>1, <2>3, StoreHeaderTyped, EndOfHeadersTyped
  <1> QED
    BY <1>3, <1>4, <1>5

\* What stoul reads is a digit, or has wrapped around.
LEMMA StoulIsNumber ==
  ASSUME NEW v, IsNumber(v)
  PROVE  Stoul(v) \in (0..9) \cup {Wrapped}
  <1> DEFINE D(d) == CHOOSE i \in DOMAIN Numerals : Numerals[i] = d
  <1>1. \A d \in Range(Numerals) : Digit(d) \in 0..9
    <2> SUFFICES ASSUME NEW d \in Range(Numerals) PROVE Digit(d) \in 0..9
      OBVIOUS
    <2>1. \E i \in DOMAIN Numerals : Numerals[i] = d
      BY DEF Range
    <2>2. D(d) \in DOMAIN Numerals
      BY <2>1
    <2>3. DOMAIN Numerals = 1..10
      BY DEF Numerals
    <2>4. Digit(d) = D(d) - 1
      BY DEF Digit
    <2> HIDE DEF D
    <2> QED
      BY <2>2, <2>3, <2>4
  <1> HIDE DEF D
  <1>2. CASE v[1] \notin {"+", "-"}
    <2>1. v[1] \in Range(Numerals)
      BY <1>2 DEF IsNumber
    <2> QED
      BY <1>1, <1>2, <2>1 DEF Stoul
  <1>3. CASE v[1] = "-"
    BY <1>3 DEF Stoul
  <1>4. CASE v[1] = "+"
    <2>1. "+" \notin Range(Numerals)
      BY DEF Range, Numerals
    <2>2. v[2] \in Range(Numerals)
      BY <1>4, <2>1 DEF IsNumber
    <2> QED
      BY <1>1, <1>4, <2>2 DEF Stoul
  <1> QED
    BY <1>2, <1>3, <1>4

LEMMA BodyTyped ==
  ASSUME NEW p \in Parsers
  PROVE  ParseBody(p) \in Parsers
  <1> DEFINE cl == Get(p.request.headers, "content-length")
             n == Stoul(cl)
  <1>1. p.buffer \in Seq(Symbols) /\ Len(p.buffer) \in Nat
    BY ParserParts, LenProperties DEF Texts
  <1>2. CASE cl = <<>>
    BY <1>2 DEF ParseBody, Parsers, ParserStates
  <1>3. CASE cl # <<>> /\ (~IsNumber(cl) \/ n > MaxBodyBytes)
    BY <1>3, SetErrorTyped DEF ParseBody
  <1>4. CASE cl # <<>> /\ ~(~IsNumber(cl) \/ n > MaxBodyBytes) /\ Len(p.buffer) < n
    BY <1>4 DEF ParseBody
  <1>5. CASE cl # <<>> /\ ~(~IsNumber(cl) \/ n > MaxBodyBytes) /\ ~(Len(p.buffer) < n)
    <2>1. n \in 0..9
      <3>1. IsNumber(cl) /\ ~(n > MaxBodyBytes)
        BY <1>5
      <3>2. n \in (0..9) \cup {Wrapped}
        BY <3>1, StoulIsNumber
      <3> HIDE DEF n
      <3> QED
        BY <3>1, <3>2, LimitsAssumption DEF Wrapped
    <2> HIDE DEF cl, n
    <2>2. n \in 0..Len(p.buffer) /\ 1 \in 1..(Len(p.buffer) + 1)
      BY <1>1, <1>5, <2>1
    <2>3. SubSeq(p.buffer, 1, n) \in Texts /\ ConsumeBytes(p, n) \in Parsers
      BY <1>1, <2>2, Stretch, ConsumeTyped DEF Texts
    <2>4. ParseBody(p) = [ConsumeBytes(p, n) EXCEPT !.state = "Complete",
                                                   !.request.body = SubSeq(p.buffer, 1, n)]
      BY <1>5 DEF ParseBody, cl, n
    <2>5. ASSUME NEW q \in Parsers, NEW b \in Texts
          PROVE  [q EXCEPT !.state = "Complete", !.request.body = b] \in Parsers
      <3>1. [q.request EXCEPT !.body = b] \in Requests
        BY ParserParts DEF Requests
      <3> QED
        BY <3>1 DEF Parsers, ParserStates
    <2>6. [ConsumeBytes(p, n) EXCEPT !.state = "Complete", !.request.body = SubSeq(p.buffer, 1, n)] \in Parsers
      BY <2>3, <2>5, Zenon
    <2> QED
      BY <2>4, <2>6, Zenon
  <1> QED
    BY <1>2, <1>3, <1>4, <1>5

LEMMA TurnTyped ==
  ASSUME NEW p \in Parsers
  PROVE  Turn(p) \in Parsers
  <1>1. CASE p.state = "RequestLine"
    BY <1>1, RequestLineTyped DEF Turn
  <1>2. CASE p.state = "Headers"
    BY <1>2, HeaderTyped DEF Turn
  <1>3. CASE p.state = "Body"
    BY <1>3, BodyTyped DEF Turn
  <1>4. CASE p.state \notin {"RequestLine", "Headers", "Body"}
    BY <1>4 DEF Turn
  <1> QED
    BY <1>1, <1>2, <1>3, <1>4

LEMMA TurnCount ==
  \A n \in Nat : 3 + n \div 2 \in Nat /\ 3 + n \div 2 \in 0..(3 + n \div 2)
  <1> SUFFICES ASSUME NEW n \in Nat
               PROVE  3 + n \div 2 \in Nat /\ 3 + n \div 2 \in 0..(3 + n \div 2)
    OBVIOUS
  <1>1. n \div 2 \in Nat
    OBVIOUS
  <1> DEFINE h == n \div 2
  <1>2. h \in Nat
    BY <1>1
  <1> HIDE DEF h
  <1>3. 3 + h \in Nat /\ 3 + h \in 0..(3 + h)
    BY <1>2
  <1> QED
    BY <1>3 DEF h

\* Turns is what its recursion says, in any set of parsers that a turn does not
\* leave.
LEMMA TurnsFollow ==
  ASSUME NEW T, NEW p \in T, Len(p.buffer) \in Nat, \A q \in T : Turn(q) \in T
  PROVE  \E after \in [0..(3 + Len(p.buffer) \div 2) -> T] :
           /\ after[0] = p
           /\ \A n \in 1..(3 + Len(p.buffer) \div 2) : after[n] = Turn(after[n - 1])
           /\ Turns(p) = after[3 + Len(p.buffer) \div 2]
  <1> DEFINE N == 3 + Len(p.buffer) \div 2
             step == [n \in 1..N |-> [q \in T |-> Turn(q)]]
             Is(f) == f = [k \in 0..N |-> IF k = 0 THEN p ELSE Turn(f[k - 1])]
             after == CHOOSE f : Is(f)
  <1>1. N \in Nat
    BY TurnCount, Zenon
  <1>2. Turns(p) = after[N]
    BY DEF Turns
  <1> HIDE DEF N
  <1>3. step \in [1..N -> [T -> T]]
    OBVIOUS
  <1>4. PICK f \in [0..N -> T] : f[0] = p /\ \A n \in 1..N : f[n] = step[n][f[n - 1]]
    <2> HIDE DEF step
    <2>1. PICK f \in [0..N -> T] : Follows(f, N, p, step)
      BY <1>1, <1>3, PrefixRecursion
    <2> QED
      BY <2>1 DEF Follows
  <1>5. ASSUME NEW n \in 1..N PROVE f[n] = Turn(f[n - 1])
    <2>1. n - 1 \in 0..N
      BY <1>1
    <2>2. f[n - 1] \in T
      BY <2>1
    <2> QED
      BY <1>4, <2>2
  <1>6. Is(f)
    <2> DEFINE g == [k \in 0..N |-> IF k = 0 THEN p ELSE Turn(f[k - 1])]
    <2>1. \A n \in 0..N : n = 0 \/ n \in 1..N
      BY <1>1
    <2>2. \A n \in 0..N : g[n] = f[n]
      BY <1>4, <1>5, <2>1, Zenon
    <2>3. DOMAIN f = 0..N /\ DOMAIN g = 0..N /\ f = [n \in 0..N |-> f[n]] /\ g = [n \in 0..N |-> g[n]]
      BY <1>4
    <2>4. f = g
      <3> HIDE DEF g
      <3> QED
        BY <2>2, <2>3
    <2> QED
      BY <2>4
  <1>7. Is(after)
    BY <1>6
  <1> HIDE DEF after
  <1>8. /\ DOMAIN after = 0..N /\ after[0] = p
        /\ \A n \in 1..N : after[n] = Turn(after[n - 1])
    <2>1. DOMAIN after = 0..N
      BY <1>7, Zenon
    <2>2. \A n \in 0..N : after[n] = IF n = 0 THEN p ELSE Turn(after[n - 1])
      BY <1>7, Zenon
    <2>3. 0 \in 0..N /\ \A n \in 1..N : n # 0 /\ n \in 0..N
      BY <1>1
    <2> QED
      BY <2>1, <2>2, <2>3, Zenon
  <1> DEFINE S == {n \in 0..N : after[n] \in T}
  <1>9. 0 \in S
    BY <1>1, <1>8
  <1>10. ASSUME NEW n \in 0..(N - 1), n \in S PROVE n + 1 \in S
    <2>1. n + 1 \in 1..N /\ n + 1 \in 0..N /\ (n + 1) - 1 = n
      BY <1>1
    <2>2. after[n + 1] = Turn(after[n])
      BY <1>8, <2>1
    <2> QED
      BY <1>10, <2>1, <2>2
  <1> HIDE DEF S
  <1>11. \A n \in 0..N : n \in S
    BY <1>1, <1>9, <1>10, UpToInduction
  <1>12. after \in [0..N -> T]
    BY <1>7, <1>11 DEF S
  <1> QED
    BY <1>2, <1>8, <1>12 DEF N

LEMMA FeedTyped ==
  ASSUME NEW p \in Parsers, NEW data \in Texts
  PROVE  Feed(p, data) \in Parsers
  <1> DEFINE q == IF p.state = "Complete" THEN FreshParser ELSE p
             r == [q EXCEPT !.buffer = @ \o data]
             N == 3 + Len(r.buffer) \div 2
  <1>1. q \in Parsers
    BY FreshParserTyped
  <1>2. r \in Parsers
    <2> HIDE DEF q
    <2>1. q.buffer \o data \in Texts
      BY <1>1, ParserParts, ConcatProperties DEF Texts
    <2> QED
      BY <1>1, <2>1 DEF Parsers
  <1>3. Feed(p, data) = IF p.state = "Error" THEN p ELSE Turns(r)
    BY DEF Feed
  <1> HIDE DEF r
  <1>4. Len(r.buffer) \in Nat
    BY <1>2, ParserParts, LenProperties DEF Texts
  <1>5. PICK after \in [0..N -> Parsers] :
          /\ after[0] = r
          /\ \A n \in 1..N : after[n] = Turn(after[n - 1])
          /\ Turns(r) = after[N]
    BY <1>2, <1>4, TurnTyped, TurnsFollow
  <1>6. N \in 0..N
    BY <1>4, TurnCount, Zenon
  <1> QED
    BY <1>3, <1>5, <1>6

-----------------------------------------------------------------------------
(* The text of a message *)

\* A message is text, and none of its lines holds a CR or is empty; it has a
\* body only where one is due and announced.
TextMessage(m) ==
  /\ m.method \in Symbols /\ m.version \in Symbols
  /\ m.target \in Texts /\ m.body \in Texts
  /\ m.fields \in Seq(Symbols \X Texts) /\ m.other \in Seq(Texts)
OneLine(line) == \A i \in 1..Len(line) : line[i] # "CR"
OneMessage(m) ==
  /\ TextMessage(m)
  /\ OneLine(RequestLine(m))
  /\ \A i \in 1..Len(HeaderLines(m)) : HeaderLines(m)[i] # <<>> /\ OneLine(HeaderLines(m)[i])
  /\ m.body # <<>> =>
       /\ Proper(m) /\ RequiresBody(Spelled[m.method])
       /\ Get(HeadersOf(m.fields), "content-length") # <<>>
       /\ Stoul(Get(HeadersOf(m.fields), "content-length")) >= Len(m.body)

Ended == [l \in Texts |-> l \o Crlf]
OfFields == [f \in Symbols \X Texts |-> FieldLine(f)]

LEMMA CrlfTyped == Crlf \in Texts /\ Len(Crlf) = 2 /\ Crlf[1] = "CR" /\ Crlf[2] = "LF"
  <1>1. "CR" \in Symbols /\ "LF" \in Symbols
    BY DEF Symbols
  <1> QED
    BY <1>1 DEF Crlf, Texts

LEMMA EndedTyped == Ended \in Maps(Texts, Texts)
  <1>1. \A l \in Texts : l \o Crlf \in Texts
    BY CrlfTyped, ConcatProperties DEF Texts
  <1> QED
    BY <1>1 DEF Ended, Maps

LEMMA FieldLineTyped ==
  ASSUME NEW f \in Symbols \X Texts
  PROVE  /\ f[1] \in Symbols /\ f[2] \in Texts
         /\ <<f[1], ":", "SP">> \in Texts /\ FieldLine(f) \in Texts
  <1>1. ":" \in Symbols /\ "SP" \in Symbols
    BY DEF Symbols
  <1>2. <<f[1], ":", "SP">> \in Texts /\ f[2] \in Texts
    BY <1>1 DEF Texts
  <1>3. FieldLine(f) \in Texts
    BY <1>2, ConcatProperties DEF FieldLine, Texts
  <1> QED
    BY <1>2, <1>3

LEMMA OfFieldsTyped == OfFields \in Maps(Symbols \X Texts, Texts)
  BY FieldLineTyped DEF OfFields, Maps

LEMMA BlockImages ==
  ASSUME NEW x \in Seq(Texts)
  PROVE  Block(x) = Written(Ended, x)
  <1> DEFINE g == [i \in 1..Len(x) |-> x[i] \o Crlf]
             h == [i \in 1..Len(x) |-> Ended[x[i]]]
  <1>1. \A i \in 1..Len(x) : x[i] \in Texts
    BY ElementOfSeq
  <1>2. \A i \in 1..Len(x) : x[i] \o Crlf = Ended[x[i]]
    BY <1>1 DEF Ended
  <1>3. g = h
    BY <1>2
  <1>4. Images(Ended, x) = h
    BY DEF Images
  <1>5. Block(x) = FlattenSeq(g)
    BY DEF Block
  <1> HIDE DEF g, h
  <1> QED
    BY <1>3, <1>4, <1>5 DEF Written

LEMMA FieldImages ==
  ASSUME NEW x \in Seq(Symbols \X Texts)
  PROVE  FieldLines(x) = Images(OfFields, x)
  <1>1. \A i \in 1..Len(x) : x[i] \in Symbols \X Texts
    BY ElementOfSeq
  <1>2. \A i \in 1..Len(x) : FieldLine(x[i]) = OfFields[x[i]]
    BY <1>1 DEF OfFields
  <1> QED
    BY <1>2 DEF Images, FieldLines

LEMMA BlockParts ==
  ASSUME NEW x \in Seq(Texts)
  PROVE  /\ Block(x) \in Texts /\ Block(<<>>) = <<>>
         /\ \A l \in Texts : Block(<<l>>) = l \o Crlf
         /\ \A y \in Seq(Texts) : Block(x \o y) = Block(x) \o Block(y)
  <1>1. Block(x) \in Texts
    BY BlockImages, EndedTyped, WrittenParts DEF Texts
  <1>2. Block(<<>>) = <<>>
    <2>1. <<>> \in Seq(Texts)
      BY EmptySeq
    <2>2. Block(<<>>) = Written(Ended, <<>>)
      BY <2>1, BlockImages
    <2>3. Ended \in Maps(Texts, Seq(Symbols))
      BY EndedTyped DEF Texts
    <2> QED
      BY <2>2, <2>3, WrittenParts
  <1>3. ASSUME NEW l \in Texts PROVE Block(<<l>>) = l \o Crlf
    <2>1. <<l>> \in Seq(Texts)
      OBVIOUS
    <2>2. Block(<<l>>) = Written(Ended, <<l>>)
      BY <2>1, BlockImages
    <2>3. Ended \in Maps(Texts, Seq(Symbols))
      BY EndedTyped DEF Texts
    <2>4. Written(Ended, <<l>>) = Ended[l]
      BY <2>3, WrittenParts
    <2>5. Ended[l] = l \o Crlf
      BY DEF Ended
    <2> QED
      BY <2>2, <2>4, <2>5
  <1>4. ASSUME NEW y \in Seq(Texts) PROVE Block(x \o y) = Block(x) \o Block(y)
    <2>1. x \o y \in Seq(Texts)
      BY ConcatProperties
    <2>2. /\ Block(x \o y) = Written(Ended, x \o y)
          /\ Block(x) = Written(Ended, x) /\ Block(y) = Written(Ended, y)
      BY <2>1, BlockImages
    <2>3. Ended \in Maps(Texts, Seq(Symbols))
      BY EndedTyped DEF Texts
    <2>4. Written(Ended, x \o y) = Written(Ended, x) \o Written(Ended, y)
      BY <2>3, WrittenParts
    <2> QED
      BY <2>2, <2>4
  <1> QED
    BY <1>1, <1>2, <1>3, <1>4

\* The lines of the fields, and their length.
Total(fields) == Len(FlattenSeq(FieldLines(fields)))

LEMMA FieldLinesParts ==
  ASSUME NEW x \in Seq(Symbols \X Texts)
  PROVE  /\ FieldLines(x) \in Seq(Texts) /\ Len(FieldLines(x)) = Len(x)
         /\ \A i \in 1..Len(x) : FieldLines(x)[i] = FieldLine(x[i])
         /\ Total(x) \in Nat /\ Total(<<>>) = 0
         /\ \A f \in Symbols \X Texts : Total(x \o <<f>>) = Total(x) + Len(FieldLine(f))
         /\ \A y \in Seq(Symbols \X Texts) : Total(x \o y) = Total(x) + Total(y)
  <1> DEFINE B == Symbols \X Texts
  <1>1. FieldLines(x) \in Seq(Texts) /\ Len(FieldLines(x)) = Len(x)
    <2>1. Images(OfFields, x) \in Seq(Texts) /\ IsImages(Images(OfFields, x), OfFields, x)
      BY OfFieldsTyped, ImagesParts
    <2> QED
      BY <2>1, FieldImages DEF IsImages
  <1>2. \A i \in 1..Len(x) : FieldLines(x)[i] = FieldLine(x[i])
    BY DEF FieldLines
  <1>3. \A y \in Seq(B) : Total(y) = Len(Written(OfFields, y))
    BY FieldImages DEF Total, Written
  <1>4. OfFields \in Maps(B, Seq(Symbols))
    BY OfFieldsTyped DEF Texts
  <1> HIDE DEF B
  <1>5. x \in Seq(B)
    BY DEF B
  <1>6. /\ Written(OfFields, x) \in Seq(Symbols) /\ Written(OfFields, <<>>) = <<>>
        /\ \A e \in B : Written(OfFields, <<e>>) = OfFields[e]
        /\ \A y \in Seq(B) : Written(OfFields, x \o y) = Written(OfFields, x) \o Written(OfFields, y)
    BY <1>4, <1>5, WrittenParts
  <1>7. Total(x) \in Nat
    BY <1>3, <1>5, <1>6, LenProperties
  <1>8. Total(<<>>) = 0
    <2>1. <<>> \in Seq(B) /\ Len(<<>>) = 0
      BY EmptySeq
    <2>2. Total(<<>>) = Len(Written(OfFields, <<>>))
      BY <1>3, <2>1
    <2> QED
      BY <1>6, <2>1, <2>2
  <1>9. ASSUME NEW y \in Seq(B) PROVE Total(x \o y) = Total(x) + Total(y)
    <2>1. x \o y \in Seq(B) /\ Written(OfFields, y) \in Seq(Symbols)
      BY <1>4, <1>5, ConcatProperties, WrittenParts
    <2>2. Len(Written(OfFields, x) \o Written(OfFields, y)) = Len(Written(OfFields, x)) + Len(Written(OfFields, y))
      BY <1>6, <2>1, ConcatProperties
    <2>3. Total(x \o y) = Len(Written(OfFields, x \o y))
      BY <1>3, <2>1
    <2> QED
      BY <1>3, <1>5, <1>6, <2>2, <2>3
  <1>10. ASSUME NEW f \in B PROVE Total(x \o <<f>>) = Total(x) + Len(FieldLine(f))
    <2>1. <<f>> \in Seq(B)
      OBVIOUS
    <2>2. Total(<<f>>) = Len(Written(OfFields, <<f>>))
      BY <1>3, <2>1
    <2>3. Written(OfFields, <<f>>) = OfFields[f]
      BY <1>6
    <2>4. OfFields[f] = FieldLine(f)
      BY DEF OfFields, B
    <2> QED
      BY <1>9, <2>1, <2>2, <2>3, <2>4
  <1> QED
    BY <1>1, <1>2, <1>7, <1>8, <1>9, <1>10 DEF B

LEMMA LinesTyped ==
  ASSUME NEW m, TextMessage(m)
  PROVE  /\ RequestLine(m) \in Texts
         /\ HeaderLines(m) \in Seq(Texts) /\ Render(m) \in Texts
         /\ Block(HeaderLines(m)) \o (Crlf \o m.body) \in Texts
         /\ Render(m) = RequestLine(m) \o (Crlf \o (Block(HeaderLines(m)) \o (Crlf \o m.body)))
         /\ Proper(m) => HeaderLines(m) = FieldLines(m.fields)
  <1> DEFINE r == RequestLine(m)
             h == HeaderLines(m)
             b == Crlf \o m.body
  <1>1. r \in Texts
    <2>1. "SP" \in Symbols /\ "HTTP/" \in Symbols
      BY DEF Symbols
    <2>2. <<m.method, "SP">> \in Texts /\ <<"SP", "HTTP/", m.version>> \in Texts
      BY <2>1 DEF TextMessage, Texts
    <2> QED
      BY <2>2, ConcatProperties DEF RequestLine, TextMessage, Texts
  <1>2. FieldLines(m.fields) \in Seq(Texts)
    BY FieldLinesParts DEF TextMessage
  <1>3. h \in Seq(Texts)
    BY <1>2, ConcatProperties DEF HeaderLines, TextMessage
  <1>4. b \in Texts
    BY CrlfTyped, ConcatProperties DEF TextMessage, Texts
  <1>5. Proper(m) => h = FieldLines(m.fields)
    BY <1>2, ConcatEmptySeq DEF Proper, HeaderLines
  <1>6. Render(m) = Block(<<r>> \o h) \o b
    BY DEF Render
  <1> HIDE DEF r, h, b
  <1>7. Block(h) \in Texts /\ <<r>> \in Seq(Texts)
    BY <1>1, <1>3, BlockParts
  <1>8. Block(<<r>> \o h) = Block(<<r>>) \o Block(h) /\ Block(<<r>>) = r \o Crlf
    BY <1>1, <1>3, <1>7, BlockParts
  <1>9. ((r \o Crlf) \o Block(h)) \o b = r \o (Crlf \o (Block(h) \o b))
    <2>1. r \in Seq(Symbols) /\ Crlf \in Seq(Symbols) /\ Block(h) \in Seq(Symbols) /\ b \in Seq(Symbols)
      BY <1>1, <1>4, <1>7, CrlfTyped DEF Texts
    <2>2. Regroups(r, Crlf, Block(h), b)
      BY <2>1, ConcatFour
    <2> QED
      BY <2>2 DEF Regroups
  <1>10. Block(h) \o b \in Texts
    BY <1>4, <1>7, ConcatProperties DEF Texts
  <1>11. r \o (Crlf \o (Block(h) \o b)) \in Texts
    <2>1. r \in Seq(Symbols) /\ Crlf \in Seq(Symbols) /\ Block(h) \o b \in Seq(Symbols)
      BY <1>1, <1>10, CrlfTyped DEF Texts
    <2>2. Crlf \o (Block(h) \o b) \in Seq(Symbols)
      BY <2>1, ConcatProperties
    <2> QED
      BY <2>1, <2>2, ConcatProperties DEF Texts
  <1>12. Render(m) = r \o (Crlf \o (Block(h) \o b))
    BY <1>6, <1>8, <1>9
  <1> QED
    BY <1>1, <1>3, <1>5, <1>10, <1>11, <1>12 DEF r, h, b

-----------------------------------------------------------------------------
(* The first line of what is read *)

\* What b and w together hold, symbol by symbol.
Holds(t, b, w) ==
  /\ Len(b) \in Nat /\ Len(w) \in Nat /\ Len(t) = Len(b) + Len(w)
  /\ \A i \in 1..Len(b) : b[i] = t[i]
  /\ \A i \in 1..Len(w) : w[i] = t[Len(b) + i]

LEMMA ConcatSymbols ==
  ASSUME NEW A, NEW b \in Seq(A), NEW w \in Seq(A)
  PROVE  Holds(b \o w, b, w)
  <1> DEFINE t == b \o w
  <1>1. /\ Len(b) \in Nat /\ Len(w) \in Nat
        /\ Len(t) = Len(b) + Len(w)
        /\ \A i \in 1..Len(b) + Len(w) : t[i] = IF i <= Len(b) THEN b[i] ELSE w[i - Len(b)]
    BY ConcatProperties, LenProperties
  <1> HIDE DEF t
  <1>2. ASSUME NEW i \in 1..Len(b) PROVE b[i] = t[i]
    <2>1. i \in 1..Len(b) + Len(w) /\ i <= Len(b)
      BY <1>1
    <2> QED
      BY <1>1, <2>1
  <1>3. ASSUME NEW i \in 1..Len(w) PROVE w[i] = t[Len(b) + i]
    <2>1. Len(b) + i \in 1..Len(b) + Len(w) /\ ~(Len(b) + i <= Len(b)) /\ Len(b) + i - Len(b) = i
      BY <1>1
    <2>2. t[Len(b) + i] = w[Len(b) + i - Len(b)]
      BY <1>1, <2>1
    <2> QED
      BY <2>1, <2>2
  <1>4. Holds(t, b, w)
    BY <1>1, <1>2, <1>3 DEF Holds
  <1> QED
    BY <1>4 DEF t

\* A line, its end and the rest.
HoldsLine(t, line, rest) ==
  /\ Len(line) \in Nat /\ Len(rest) \in Nat
  /\ Len(t) = Len(line) + 2 + Len(rest)
  /\ \A i \in 1..Len(line) : t[i] = line[i]
  /\ t[Len(line) + 1] = "CR" /\ t[Len(line) + 2] = "LF"
  /\ \A i \in 1..Len(rest) : t[Len(line) + 2 + i] = rest[i]

LEMMA LineSymbols ==
  ASSUME NEW line \in Texts, NEW rest \in Texts
  PROVE  /\ line \o (Crlf \o rest) \in Texts
         /\ HoldsLine(line \o (Crlf \o rest), line, rest)
  <1> DEFINE t == line \o (Crlf \o rest)
             u == Crlf \o rest
             c == Crlf
  <1>1. c \in Seq(Symbols) /\ Len(c) = 2 /\ c[1] = "CR" /\ c[2] = "LF"
    BY CrlfTyped DEF Texts
  <1> HIDE DEF c
  <1>2. c \o rest = u
    BY DEF c
  <1>3. u \in Seq(Symbols)
    BY <1>1, <1>2, ConcatProperties DEF Texts
  <1> HIDE DEF u
  <1>4. /\ Len(rest) \in Nat /\ Len(u) = 2 + Len(rest)
        /\ \A i \in 1..2 : c[i] = u[i]
        /\ \A i \in 1..Len(rest) : rest[i] = u[2 + i]
    <2>1. Holds(c \o rest, c, rest)
      BY <1>1, ConcatSymbols DEF Texts
    <2>2. Holds(u, c, rest)
      BY <1>2, <2>1, Zenon
    <2> QED
      BY <1>1, <2>2 DEF Holds
  <1>5. line \o u = t
    BY DEF u
  <1> HIDE DEF t
  <1>6. /\ Len(line) \in Nat /\ Len(t) = Len(line) + Len(u)
        /\ \A i \in 1..Len(line) : line[i] = t[i]
        /\ \A i \in 1..Len(u) : u[i] = t[Len(line) + i]
    <2>1. Holds(line \o u, line, u)
      BY <1>3, ConcatSymbols DEF Texts
    <2>2. Holds(t, line, u)
      BY <1>5, <2>1, Zenon
    <2> QED
      BY <2>2 DEF Holds
  <1>7. t \in Texts
    BY <1>3, <1>5, ConcatProperties DEF Texts
  <1>8. t[Len(line) + 1] = "CR" /\ t[Len(line) + 2] = "LF"
    <2>1. 1 \in 1..Len(u) /\ 2 \in 1..Len(u) /\ 1 \in 1..2 /\ 2 \in 1..2
      BY <1>4
    <2>2. u[1] = t[Len(line) + 1] /\ u[2] = t[Len(line) + 2] /\ c[1] = u[1] /\ c[2] = u[2]
      BY <1>4, <1>6, <2>1
    <2> QED
      BY <1>1, <2>2
  <1>9. ASSUME NEW i \in 1..Len(rest) PROVE t[Len(line) + 2 + i] = rest[i]
    <2>1. 2 + i \in 1..Len(u) /\ Len(line) + (2 + i) = Len(line) + 2 + i
      BY <1>4, <1>6
    <2>2. u[2 + i] = t[Len(line) + (2 + i)]
      BY <1>6, <2>1
    <2> QED
      BY <1>4, <2>1, <2>2
  <1>10. Len(t) = Len(line) + 2 + Len(rest)
    BY <1>4, <1>6
  <1>11. HoldsLine(t, line, rest)
    BY <1>4, <1>6, <1>8, <1>9, <1>10 DEF HoldsLine
  <1> QED
    BY <1>7, <1>11 DEF t

\* Of a line that has no CR inside, FindCrlf finds the end, unless part of it has
\* still to come.
LEMMA FirstLine ==
  ASSUME NEW b \in Texts, NEW w \in Texts, NEW line \in Texts, NEW rest \in Texts,
         b \o w = line \o (Crlf \o rest), OneLine(line)
  PROVE  LET at == FindCrlf(b)
         IN /\ Len(b) \in Nat /\ Len(line) \in Nat /\ at \in 0..Len(b)
            /\ at = 0 => Len(b) <= Len(line) + 1 /\ w # <<>>
            /\ at # 0 => /\ at = Len(line) + 1 /\ at + 1 \in 0..Len(b)
                         /\ SubSeq(b, 1, at - 1) = line
                         /\ SubSeq(b, at + 2, Len(b)) \in Texts
                         /\ SubSeq(b, at + 2, Len(b)) \o w = rest
                         /\ Len(SubSeq(b, at + 2, Len(b))) = Len(b) - (at + 1)
  <1> DEFINE t == b \o w
             at == FindCrlf(b)
             L == Len(line)
             N == Len(b)
  <1>1. t = line \o (Crlf \o rest) /\ b \o w = t
    OBVIOUS
  <1> HIDE DEF t
  <1>2. /\ N \in Nat /\ Len(w) \in Nat /\ Len(t) = N + Len(w)
        /\ \A i \in 1..N : b[i] = t[i]
        /\ \A i \in 1..Len(w) : w[i] = t[N + i]
    <2>1. Holds(b \o w, b, w)
      BY ConcatSymbols DEF Texts
    <2>2. Holds(t, b, w)
      BY <1>1, <2>1, Zenon
    <2> QED
      BY <2>2 DEF Holds
  <1>3. /\ t \in Texts /\ L \in Nat /\ Len(rest) \in Nat
        /\ Len(t) = L + 2 + Len(rest)
        /\ \A i \in 1..L : t[i] = line[i]
        /\ t[L + 1] = "CR" /\ t[L + 2] = "LF"
        /\ \A i \in 1..Len(rest) : t[L + 2 + i] = rest[i]
    <2>1. t \in Texts /\ HoldsLine(t, line, rest)
      BY <1>1, LineSymbols, Zenon
    <2> QED
      BY <2>1 DEF HoldsLine
  <1>4. /\ at \in 0..N
        /\ at = 0 => \A i \in 1..(N - 1) : ~(b[i] = "CR" /\ b[i + 1] = "LF")
        /\ at # 0 => /\ at \in 1..(N - 1) /\ b[at] = "CR" /\ b[at + 1] = "LF"
                     /\ \A i \in 1..(at - 1) : ~(b[i] = "CR" /\ b[i + 1] = "LF")
    BY CrlfFound DEF Texts
  <1> HIDE DEF at
  <1>5. ASSUME N >= L + 2 PROVE L + 1 \in 1..(N - 1) /\ b[L + 1] = "CR" /\ b[L + 1 + 1] = "LF"
    <2>1. L + 1 \in 1..(N - 1) /\ L + 1 \in 1..N /\ L + 2 \in 1..N /\ L + 1 + 1 = L + 2
      BY <1>2, <1>3, <1>5
    <2> QED
      BY <1>2, <1>3, <2>1
  <1>6. at = 0 => N <= L + 1
    <2> SUFFICES ASSUME at = 0, N >= L + 2 PROVE FALSE
      BY <1>2, <1>3
    <2> QED
      BY <1>4, <1>5
  <1>7. at = 0 => w # <<>>
    <2>1. w = <<>> => Len(w) = 0
      BY EmptySeq
    <2> QED
      BY <1>2, <1>3, <1>6, <2>1
  <1>8. ASSUME at # 0 PROVE at = L + 1 /\ N >= L + 2
    <2>1. at > L
      <3> SUFFICES ASSUME at <= L PROVE FALSE
        BY <1>3, <1>4
      <3>1. at \in 1..L /\ at \in 1..N
        BY <1>2, <1>3, <1>4, <1>8
      <3>2. line[at] = "CR"
        BY <1>2, <1>3, <1>4, <1>8, <3>1
      <3> QED
        BY <3>1, <3>2 DEF OneLine
    <2>2. N >= L + 2
      BY <1>2, <1>3, <1>4, <1>8, <2>1
    <2>3. ~(at > L + 1)
      <3> SUFFICES ASSUME at > L + 1 PROVE FALSE
        OBVIOUS
      <3>1. L + 1 \in 1..(at - 1)
        BY <1>3, <1>4
      <3> QED
        BY <1>4, <1>5, <1>8, <2>2, <3>1
    <2> QED
      BY <1>3, <1>4, <2>1, <2>2, <2>3
  <1>9. ASSUME at # 0
        PROVE  /\ at = L + 1 /\ at + 1 \in 0..N
               /\ SubSeq(b, 1, at - 1) = line
               /\ SubSeq(b, at + 2, N) \in Texts
               /\ SubSeq(b, at + 2, N) \o w = rest
               /\ Len(SubSeq(b, at + 2, N)) = N - (at + 1)
    <2> DEFINE u == SubSeq(b, 1, L)
               v == SubSeq(b, L + 3, N)
               s == v \o w
    <2>1. N >= L + 2
      BY <1>8, <1>9
    <2>2. at = L + 1 /\ at + 1 \in 0..N /\ at - 1 = L /\ at + 2 = L + 3
      BY <1>2, <1>3, <1>8, <1>9
    <2>3. L \in 0..N /\ 1 \in 1..(N + 1) /\ L + 3 \in 1..(N + 1) /\ N \in 0..N
      BY <1>2, <1>3, <2>1
    <2>4. /\ u \in Seq(Symbols) /\ Len(u) = (IF 1 <= L THEN L - 1 + 1 ELSE 0)
          /\ \A n \in 1..(L - 1 + 1) : u[n] = b[1 + n - 1]
      BY <2>3, Stretch DEF Texts
    <2>5. /\ v \in Seq(Symbols) /\ Len(v) = (IF L + 3 <= N THEN N - (L + 3) + 1 ELSE 0)
          /\ \A n \in 1..(N - (L + 3) + 1) : v[n] = b[L + 3 + n - 1]
      BY <2>3, Stretch DEF Texts
    <2> HIDE DEF u, v
    <2>6. Len(u) = L /\ \A n \in 1..L : u[n] = b[n]
      BY <1>3, <2>4
    <2>7. Len(v) = N - L - 2 /\ \A n \in 1..(N - L - 2) : v[n] = b[L + 2 + n]
      <3>1. Len(v) = N - L - 2
        BY <1>2, <1>3, <2>1, <2>5
      <3>2. ASSUME NEW n \in 1..(N - L - 2) PROVE v[n] = b[L + 2 + n]
        <4>1. n \in 1..(N - (L + 3) + 1) /\ L + 3 + n - 1 = L + 2 + n
          BY <1>2, <1>3
        <4> QED
          BY <2>5, <4>1
      <3> QED
        BY <3>1, <3>2
    <2>8. u = line
      <3>1. \A n \in 1..L : u[n] = line[n]
        <4> TAKE n \in 1..L
        <4>1. n \in 1..N
          BY <2>3
        <4> QED
          BY <1>2, <1>3, <2>6, <4>1
      <3> QED
        BY <2>4, <2>6, <3>1, SeqEqual DEF Texts
    <2>9. s \in Seq(Symbols) /\ Len(s) = Len(rest)
      <3>1. v \o w \in Seq(Symbols) /\ Len(v \o w) = Len(v) + Len(w)
        BY <2>5, ConcatProperties DEF Texts
      <3>2. Len(v) + Len(w) = Len(rest)
        <4>1. \A n, l, x, y \in Int : n + x = l + 2 + y => n - l - 2 + x = y
          OBVIOUS
        <4>2. N \in Int /\ L \in Int /\ Len(w) \in Int /\ Len(rest) \in Int
              /\ N + Len(w) = L + 2 + Len(rest)
          BY <1>2, <1>3
        <4>3. N - L - 2 + Len(w) = Len(rest)
          BY <4>1, <4>2
        <4> QED
          BY <2>7, <4>3
      <3> QED
        BY <3>1, <3>2
    <2>10. \A i \in 1..Len(rest) : s[i] = rest[i]
      <3> TAKE i \in 1..Len(rest)
      <3>1. \A n \in 1..Len(v) + Len(w) : (v \o w)[n] = IF n <= Len(v) THEN v[n] ELSE w[n - Len(v)]
        BY <2>5, ConcatProperties DEF Texts
      <3>2. i \in 1..Len(v) + Len(w)
        BY <1>2, <1>3, <2>7
      <3>3. t[L + 2 + i] = rest[i]
        BY <1>3
      <3>4. CASE i <= Len(v)
        <4>1. i \in 1..(N - L - 2) /\ L + 2 + i \in 1..N
          BY <1>2, <1>3, <2>7, <3>4
        <4> QED
          BY <1>2, <2>7, <3>1, <3>2, <3>3, <3>4, <4>1
      <3>5. CASE ~(i <= Len(v))
        <4>1. i - Len(v) \in 1..Len(w) /\ N + (i - Len(v)) = L + 2 + i
          BY <1>2, <1>3, <2>7, <3>2, <3>5
        <4>2. w[i - Len(v)] = t[N + (i - Len(v))]
          BY <1>2, <4>1
        <4> QED
          BY <3>1, <3>2, <3>3, <3>5, <4>1, <4>2
      <3> QED
        BY <3>4, <3>5
    <2> HIDE DEF s
    <2>11. s = rest
      BY <2>9, <2>10, SeqEqual DEF Texts
    <2>12. Len(v) = N - (at + 1)
      BY <1>2, <1>3, <2>2, <2>7
    <2> QED
      BY <2>2, <2>5, <2>8, <2>11, <2>12, Zenon DEF u, v, s, Texts
  <1> QED
    BY <1>2, <1>3, <1>4, <1>6, <1>7, <1>9, Zenon DEF at

-----------------------------------------------------------------------------
(* What the lines of a proper message say *)

\* Trim takes off exactly what it should.
LEMMA TrimEnds ==
  ASSUME NEW A, NEW s \in Seq(A), NEW D, NEW k \in 1..Len(s),
         s[k] \notin D, s[Len(s)] \notin D, \A i \in 1..(k - 1) : s[i] \in D
  PROVE  Trim(s, D) = SubSeq(s, k, Len(s))
  <1> DEFINE kept == {i \in DOMAIN s : s[i] \notin D}
             first == CHOOSE i \in kept : \A j \in kept : i <= j
             last == CHOOSE i \in kept : \A j \in kept : i >= j
  <1>1. Len(s) \in Nat /\ DOMAIN s = 1..Len(s)
    BY LenProperties
  <1>2. k \in kept /\ Len(s) \in kept
    BY <1>1
  <1>3. first = Min(kept) /\ last = Max(kept)
    BY DEF Min, Max
  <1>4. kept \in SUBSET (0..Len(s)) /\ kept \in SUBSET Nat
    BY <1>1
  <1>5. Trim(s, D) = SubSeq(s, first, last)
    <2>1. kept # {}
      BY <1>2
    <2> QED
      BY <2>1 DEF Trim
  <1>6. \A i \in kept : i \in 1..Len(s) /\ ~(i \in 1..(k - 1))
    BY <1>1
  <1> HIDE DEF first, last, kept
  <1>7. /\ first \in kept /\ \A i \in kept : first <= i
        /\ last \in kept /\ \A i \in kept : i <= last
    BY <1>1, <1>2, <1>3, <1>4, MinOfNat, MaxOfNat
  <1>8. first = k
    <2>1. first <= k /\ first \in 1..Len(s) /\ ~(first \in 1..(k - 1))
      BY <1>2, <1>6, <1>7
    <2>2. \A x, y \in Int : x <= y /\ 1 <= x /\ ~(x \in 1..(y - 1)) => x = y
      OBVIOUS
    <2>3. first \in Int /\ k \in Int /\ 1 <= first
      BY <1>1, <2>1
    <2> QED
      BY <2>1, <2>2, <2>3
  <1>9. last = Len(s)
    <2>1. Len(s) <= last /\ last \in 1..Len(s)
      BY <1>2, <1>6, <1>7
    <2>2. \A x, y \in Int : x <= y /\ y <= x => x = y
      OBVIOUS
    <2>3. last \in Int /\ Len(s) \in Int /\ last <= Len(s)
      BY <1>1, <2>1
    <2> QED
      BY <2>1, <2>2, <2>3
  <1> QED
    BY <1>5, <1>8, <1>9

\* What Append gives, from its elements.
LEMMA OneMore ==
  ASSUME NEW B, NEW s \in Seq(B), NEW t \in B, NEW z \in Seq(B), Len(z) = Len(s) + 1,
         \A i \in 1..Len(s) : z[i] = s[i], z[Len(s) + 1] = t
  PROVE  Append(s, t) = z
  <1>2. Append(s, t) \in Seq(B) /\ Len(Append(s, t)) = Len(z)
    BY AppendProperties
  <1>3. \A i \in 1..Len(s) : Append(s, t)[i] = s[i]
    BY AppendProperties
  <1>4. Append(s, t)[Len(s) + 1] = t
    BY AppendProperties
  <1>5. Len(s) \in Nat
    BY LenProperties
  <1> DEFINE y == Append(s, t)
  <1> HIDE DEF y
  <1>6. \A i \in 1..Len(z) : y[i] = z[i]
    BY <1>3, <1>4, <1>5 DEF y
  <1> QED
    BY <1>2, <1>6, SeqEqual DEF y

LEMMA AppendSecond ==
  ASSUME NEW B, NEW a \in B, NEW t \in B
  PROVE  Append(<<a>>, t) = <<a, t>>
  <1> DEFINE x == <<a>>
             z == <<a, t>>
  <1>1. x \in Seq(B) /\ Len(x) = 1 /\ x[1] = a
    OBVIOUS
  <1>2. z \in Seq(B) /\ Len(z) = 2 /\ z[1] = a /\ z[2] = t
    OBVIOUS
  <1> HIDE DEF x, z
  <1>3. Len(z) = Len(x) + 1 /\ (\A i \in 1..Len(x) : z[i] = x[i]) /\ z[Len(x) + 1] = t
    BY <1>1, <1>2
  <1>4. Append(x, t) = z
    BY <1>1, <1>2, <1>3, OneMore
  <1> QED
    BY <1>4 DEF x, z

LEMMA AppendThird ==
  ASSUME NEW B, NEW a \in B, NEW t \in B, NEW v \in B
  PROVE  Append(<<a, t>>, v) = <<a, t, v>>
  <1> DEFINE x == <<a, t>>
             z == <<a, t, v>>
  <1>1. x \in Seq(B) /\ Len(x) = 2 /\ x[1] = a /\ x[2] = t
    OBVIOUS
  <1>2. z \in Seq(B) /\ Len(z) = 3 /\ z[1] = a /\ z[2] = t /\ z[3] = v
    OBVIOUS
  <1> HIDE DEF x, z
  <1>3. Len(z) = Len(x) + 1 /\ (\A i \in 1..Len(x) : z[i] = x[i]) /\ z[Len(x) + 1] = v
    BY <1>1, <1>2
  <1>4. Append(x, v) = z
    BY <1>1, <1>2, <1>3, OneMore
  <1> QED
    BY <1>4 DEF x, z

\* The three words of a proper request line.
LEMMA WordsOfLine ==
  ASSUME NEW m, TextMessage(m), Proper(m)
  PROVE  Words(RequestLine(m)) = << <<m.method>>, m.target, <<"HTTP/", m.version>> >>
  <1> DEFINE a == <<m.method>>
             t == m.target
             v == <<"HTTP/", m.version>>
             D == White
  <1>1. PICK c \in Symbols \cap D : c = "SP"
    BY DEF Symbols, White
  <1>2. a \in Seq(Symbols) /\ t \in Seq(Symbols) /\ v \in Seq(Symbols)
    BY DEF TextMessage, Texts, Symbols
  <1>3. /\ \A i \in 1..Len(a) : a[i] \notin D
        /\ \A i \in 1..Len(t) : t[i] \notin D
        /\ \A i \in 1..Len(v) : v[i] \notin D
    BY DEF Proper, Spelled, Methods, White
  <1>4. a # <<>> /\ t # <<>> /\ v # <<>>
    BY DEF Proper
  <1>5. <<m.method, "SP">> = Append(a, c) /\ <<"SP", "HTTP/", m.version>> = <<c>> \o v
    BY <1>1
  <1>6. RequestLine(m) = Append(a, c) \o t \o (<<c>> \o v)
    BY <1>5 DEF RequestLine
  <1> HIDE DEF a, t, v, D
  <1>7. RequestLine(m) = Append(a, c) \o (Append(t, c) \o v)
    <2>1. /\ Append(a, c) \in Seq(Symbols) /\ <<c>> \in Seq(Symbols) /\ <<c>> \o v \in Seq(Symbols)
      BY <1>2, ConcatProperties
    <2> DEFINE p == Append(a, c)
               o == <<c>>
    <2>2. p \in Seq(Symbols) /\ o \in Seq(Symbols) /\ o \o v \in Seq(Symbols)
      BY <2>1
    <2>3. Append(t, c) = t \o o
      BY <1>2, AppendIsConcat
    <2> HIDE DEF p, o
    <2>4. (p \o t) \o (o \o v) = p \o (t \o (o \o v))
      <3> DEFINE u == o \o v
      <3>1. u \in Seq(Symbols)
        BY <2>2
      <3> HIDE DEF u
      <3>2. (p \o t) \o u = p \o (t \o u)
        <4>1. Associates(p, t, u)
          BY <1>2, <2>2, <3>1, ConcatThree
        <4> QED
          BY <4>1 DEF Associates
      <3> QED
        BY <3>2 DEF u
    <2>5. (t \o o) \o v = t \o (o \o v)
      <3>1. Associates(t, o, v)
        BY <1>2, <2>2, ConcatThree
      <3> QED
        BY <3>1 DEF Associates
    <2> QED
      BY <1>6, <2>3, <2>4, <2>5 DEF p, o
  <1>8. SplitAt(RequestLine(m), D) = <<a>> \o (<<t>> \o <<v>>)
    <2>1. Append(t, c) \o v \in Seq(Symbols)
      BY <1>2, AppendProperties, ConcatProperties
    <2>2. SplitAt(Append(t, c) \o v, D) = SplitAt(t, D) \o SplitAt(v, D)
      BY <1>2, SplitConcat
    <2> DEFINE r == Append(t, c) \o v
    <2>3. r \in Seq(Symbols)
      BY <2>1
    <2> HIDE DEF r
    <2>4. SplitAt(Append(a, c) \o r, D) = SplitAt(a, D) \o SplitAt(r, D)
      BY <1>2, <2>3, SplitConcat, SMTT(30)
    <2>5. SplitAt(a, D) = <<a>> /\ SplitAt(t, D) = <<t>> /\ SplitAt(v, D) = <<v>>
      BY <1>2, <1>3, SplitWhole
    <2> QED
      BY <1>7, <2>2, <2>4, <2>5 DEF r
  <1>11. Append(Append(Append(<<>>, a), t), v) = <<a, t, v>>
    <2> DEFINE B == Seq(Symbols)
    <2>1. a \in B /\ t \in B /\ v \in B
      BY <1>2
    <2>2. Append(<<>>, a) = <<a>>
      OBVIOUS
    <2> HIDE DEF B
    <2>3. Append(<<a>>, t) = <<a, t>>
      BY <2>1, AppendSecond
    <2>4. Append(<<a, t>>, v) = <<a, t, v>>
      BY <2>1, AppendThird
    <2> QED
      BY <2>2, <2>3, <2>4
  <1>9. NonEmpty(Append(Append(Append(<<>>, a), t), v)) = <<a, t, v>>
    <2> DEFINE B == Seq(Symbols)
               e == <<>>
    <2>1. e \in Seq(B) /\ NonEmpty(e) = e
      BY EmptySeq, KeptStep
    <2>2. a \in B /\ t \in B /\ v \in B
      BY <1>2
    <2> HIDE DEF B, e
    <2> DEFINE e1 == Append(e, a)
               e2 == Append(e1, t)
               e3 == Append(e2, v)
    <2>3. e1 \in Seq(B)
      BY <2>1, <2>2, AppendProperties
    <2>4. NonEmpty(e1) = Keep(NonEmpty(e), a)
      BY <2>1, <2>2, KeptStep
    <2> HIDE DEF e1
    <2>5. e2 \in Seq(B)
      BY <2>2, <2>3, AppendProperties
    <2>6. NonEmpty(e2) = Keep(NonEmpty(e1), t)
      BY <2>2, <2>3, KeptStep
    <2> HIDE DEF e2
    <2>7. NonEmpty(e3) = Keep(NonEmpty(e2), v)
      BY <2>2, <2>5, KeptStep
    <2>8. NonEmpty(e3) = Append(Append(Append(e, a), t), v)
      BY <1>4, <2>1, <2>4, <2>6, <2>7 DEF Keep
    <2> QED
      BY <1>11, <2>8, Zenon DEF e, e1, e2
  <1>10. <<a>> \o (<<t>> \o <<v>>) = Append(Append(Append(<<>>, a), t), v)
    OBVIOUS
  <1> QED
    BY <1>8, <1>9, <1>10 DEF Words, a, t, v, D

\* A field is stored under its name, if the limits allow.
Fits(p, f) == p.count < MaxHeaderCount /\ p.total + Len(FieldLine(f)) <= MaxTotalHeader

LEMMA FieldRead ==
  ASSUME NEW f \in Symbols \X Texts, ValidName(<<f[1]>>), Bare(f[2]), NEW p
  PROVE  StoreHeader(p, FieldLine(f)) =
           IF Fits(p, f) THEN [p EXCEPT !.request.headers = SetHeader(@, f[1], f[2]),
                                        !.count = @ + 1,
                                        !.total = @ + Len(FieldLine(f))]
           ELSE SetError(p)
  <1> DEFINE line == FieldLine(f)
             h == <<f[1], ":", "SP">>
             v == f[2]
             at == SelectInSeq(line, LAMBDA x : x = ":")
             name == Trim(SubSeq(line, 1, 1), {"SP"})
             value == Trim(SubSeq(line, 3, Len(line)), White)
  <1>1. h \in Texts /\ v \in Texts /\ line \in Texts /\ line = h \o v
    BY FieldLineTyped DEF FieldLine
  <1>2. Len(h) = 3 /\ h[1] = f[1] /\ h[2] = ":" /\ h[3] = "SP"
    OBVIOUS
  <1>3. f[1] # ":" /\ f[1] # "SP"
    BY DEF ValidName, White
  <1> HIDE DEF line, h
  <1>4. Holds(line, h, v)
    <2>1. Holds(h \o v, h, v)
      BY <1>1, ConcatSymbols DEF Texts
    <2> QED
      BY <1>1, <2>1, Zenon
  <1>5. /\ Len(v) \in Nat /\ Len(line) = 3 + Len(v)
        /\ line[1] = f[1] /\ line[2] = ":" /\ line[3] = "SP"
        /\ \A i \in 1..Len(v) : v[i] = line[3 + i]
    <2>1. 1 \in 1..3 /\ 2 \in 1..3 /\ 3 \in 1..3
      OBVIOUS
    <2> QED
      BY <1>2, <1>4, <2>1 DEF Holds
  <1>6. at = 2
    <2>1. /\ at \in 0..Len(line)
          /\ at = 0 => \A i \in 1..Len(line) : line[i] # ":"
          /\ at # 0 => at \in 1..Len(line) /\ line[at] = ":" /\ \A i \in 1..(at - 1) : line[i] # ":"
      <3>1. line \in Seq(Symbols)
        BY <1>1 DEF Texts
      <3> QED
        BY <3>1, FirstFound, Zenon
    <2> HIDE DEF at
    <2>2. 2 \in 1..Len(line)
      BY <1>5
    <2>3. at # 0
      BY <1>5, <2>1, <2>2
    <2>4. at # 1
      BY <1>3, <1>5, <2>1
    <2>5. ~(at > 2)
      <3> SUFFICES ASSUME at > 2 PROVE FALSE
        OBVIOUS
      <3>1. 2 \in 1..(at - 1)
        BY <1>5, <2>1, <2>3
      <3> QED
        BY <1>5, <2>1, <2>3, <3>1
    <2> QED
      BY <1>5, <2>1, <2>3, <2>4, <2>5
  <1>7. name = <<f[1]>>
    <2> DEFINE s == SubSeq(line, 1, 1)
    <2>1. s = <<f[1]>> /\ s \in Seq(Symbols) /\ Len(s) = 1 /\ s[1] = f[1]
      <3>1. 1 \in 1..(Len(line) + 1) /\ 1 \in 0..Len(line)
        BY <1>5
      <3>2. s \in Seq(Symbols) /\ Len(s) = (IF 1 <= 1 THEN 1 - 1 + 1 ELSE 0)
            /\ \A n \in 1..(1 - 1 + 1) : s[n] = line[1 + n - 1]
        BY <1>1, <3>1, Stretch DEF Texts
      <3> HIDE DEF s
      <3>3. Len(s) = 1 /\ s[1] = f[1]
        BY <1>5, <3>2
      <3>4. <<f[1]>> \in Seq(Symbols) /\ Len(<<f[1]>>) = 1 /\ <<f[1]>>[1] = f[1]
        OBVIOUS
      <3>5. \A i \in 1..Len(s) : s[i] = <<f[1]>>[i]
        BY <3>3, <3>4
      <3>6. s = <<f[1]>>
        BY <3>2, <3>3, <3>4, <3>5, SeqEqual
      <3> QED
        BY <3>2, <3>3, <3>6
    <2> HIDE DEF s
    <2>2. s[1] \notin {"SP"} /\ s[Len(s)] \notin {"SP"} /\ 1 \in 1..Len(s) /\ \A i \in 1..(1 - 1) : s[i] \in {"SP"}
      BY <1>3, <2>1
    <2>3. Trim(s, {"SP"}) = SubSeq(s, 1, Len(s))
      BY <2>1, <2>2, TrimEnds
    <2>4. SubSeq(s, 1, Len(s)) = s
      BY <2>1, SubSeqFull
    <2> QED
      BY <2>1, <2>3, <2>4 DEF s
  <1>8. value = v
    <2> DEFINE s == SubSeq(line, 3, Len(line))
    <2>1. s \in Seq(Symbols) /\ Len(s) = Len(v) + 1 /\ s[1] = "SP" /\ \A i \in 1..Len(v) : s[i + 1] = v[i]
      <3>1. 3 \in 1..(Len(line) + 1) /\ Len(line) \in 0..Len(line)
        BY <1>5
      <3>2. s \in Seq(Symbols) /\ Len(s) = (IF 3 <= Len(line) THEN Len(line) - 3 + 1 ELSE 0)
            /\ \A n \in 1..(Len(line) - 3 + 1) : s[n] = line[3 + n - 1]
        BY <1>1, <3>1, Stretch DEF Texts
      <3> HIDE DEF s
      <3>3. Len(s) = Len(v) + 1
        BY <1>5, <3>2
      <3>4. s[1] = "SP"
        <4>1. 1 \in 1..(Len(line) - 3 + 1) /\ 3 + 1 - 1 = 3
          BY <1>5
        <4> QED
          BY <1>5, <3>2, <4>1
      <3>5. ASSUME NEW i \in 1..Len(v) PROVE s[i + 1] = v[i]
        <4>1. i + 1 \in 1..(Len(line) - 3 + 1) /\ 3 + (i + 1) - 1 = 3 + i
          BY <1>5
        <4>2. s[i + 1] = line[3 + (i + 1) - 1]
          BY <3>2, <4>1
        <4> QED
          BY <1>5, <4>1, <4>2
      <3> QED
        BY <3>2, <3>3, <3>4, <3>5
    <2> HIDE DEF s, v
    <2>2. CASE v = <<>>
      <3>1. Len(s) = 1 /\ DOMAIN s = 1..1
        BY <2>1, <2>2, LenProperties
      <3>2. \A i \in DOMAIN s : s[i] \in White
        BY <2>1, <3>1 DEF White
      <3>3. Trim(s, White) = <<>>
        BY <3>2 DEF Trim
      <3> QED
        BY <2>2, <3>3 DEF s
    <2>3. CASE v # <<>>
      <3>1. Len(v) \in Nat \ {0}
        BY <1>1, <2>3, EmptySeq DEF Texts
      <3>2. v[1] \notin White /\ v[Len(v)] \notin White
        BY <2>3 DEF Bare, v
      <3>3. 1 \in 1..Len(v) /\ Len(v) \in 1..Len(v) /\ 2 \in 1..Len(s)
        BY <2>1, <3>1
      <3>4. s[2] = v[1] /\ s[Len(s)] = v[Len(v)]
        BY <2>1, <3>3
      <3>5. \A i \in 1..(2 - 1) : s[i] \in White
        BY <2>1 DEF White
      <3>6. Trim(s, White) = SubSeq(s, 2, Len(s))
        BY <2>1, <3>2, <3>3, <3>4, <3>5, TrimEnds
      <3> DEFINE u == SubSeq(s, 2, Len(s))
      <3>7. u = v
        <4>1. 2 \in 1..(Len(s) + 1) /\ Len(s) \in 0..Len(s)
          BY <2>1, <3>1
        <4>2. u \in Seq(Symbols) /\ Len(u) = (IF 2 <= Len(s) THEN Len(s) - 2 + 1 ELSE 0)
              /\ \A n \in 1..(Len(s) - 2 + 1) : u[n] = s[2 + n - 1]
          BY <2>1, <4>1, Stretch
        <4> HIDE DEF u
        <4>3. Len(u) = Len(v)
          BY <2>1, <3>1, <4>2
        <4>4. ASSUME NEW i \in 1..Len(v) PROVE u[i] = v[i]
          <5>1. i \in 1..(Len(s) - 2 + 1) /\ 2 + i - 1 = i + 1
            BY <2>1, <3>1
          <5> QED
            BY <2>1, <4>2, <5>1
        <4> QED
          BY <1>1, <4>2, <4>3, <4>4, SeqEqual DEF Texts
      <3> QED
        BY <3>6, <3>7 DEF s
    <2> QED
      BY <2>2, <2>3
  <1> DEFINE next(n, w) == [p EXCEPT !.request.headers = SetHeader(@, n, w),
                                     !.count = @ + 1,
                                     !.total = @ + Len(line)]
             colon == SelectInSeq(line, LAMBDA x : x = ":")
             first == Trim(SubSeq(line, 1, colon - 1), {"SP"})
             second == Trim(SubSeq(line, colon + 1, Len(line)), White)
  <1>9. StoreHeader(p, line) =
          IF /\ p.count < MaxHeaderCount /\ colon > 0 /\ ValidName(first)
             /\ p.total + Len(line) <= MaxTotalHeader
          THEN next(first[1], second) ELSE SetError(p)
    BY Zenon DEF StoreHeader
  <1>10. colon = 2 /\ colon - 1 = 1 /\ colon + 1 = 3
    BY <1>6
  <1> HIDE DEF colon, next
  <1>11. first = <<f[1]>> /\ second = v
    BY <1>7, <1>8, <1>10
  <1> HIDE DEF first, second
  <1>12. first[1] = f[1] /\ ValidName(first) /\ colon > 0
    BY <1>10, <1>11
  <1>13. StoreHeader(p, line) = IF Fits(p, f) THEN next(f[1], f[2]) ELSE SetError(p)
    BY <1>9, <1>11, <1>12 DEF Fits, line
  <1> QED
    BY <1>13 DEF line, next

\* The last field of a name is there, and there is one such.
LEMMA LastOfIs ==
  ASSUME NEW seen \in Seq(Symbols \X Texts), NEW k \in 1..Len(seen)
  PROVE  /\ LastOf(seen, seen[k][1]) \in 1..Len(seen)
         /\ seen[LastOf(seen, seen[k][1])][1] = seen[k][1]
         /\ \A j \in 1..Len(seen) : seen[j][1] = seen[k][1] => j <= LastOf(seen, seen[k][1])
  <1> DEFINE n == seen[k][1]
             I == {i \in 1..Len(seen) : seen[i][1] = n}
  <1>1. Len(seen) \in Nat
    BY LenProperties
  <1>2. I \in SUBSET (0..Len(seen)) /\ I # {}
    BY <1>1
  <1>3. \A i \in I : i \in 1..Len(seen) /\ seen[i][1] = n
    OBVIOUS
  <1>4. \A j \in 1..Len(seen) : seen[j][1] = n => j \in I
    OBVIOUS
  <1> HIDE DEF I
  <1>5. Max(I) \in I /\ \A j \in I : j <= Max(I)
    BY <1>1, <1>2, MaxOfNat
  <1>6. \E i \in 1..Len(seen) : seen[i][1] = n /\ \A j \in 1..Len(seen) : seen[j][1] = n => j <= i
    BY <1>3, <1>4, <1>5
  <1> HIDE DEF n
  <1>7. /\ LastOf(seen, n) \in 1..Len(seen) /\ seen[LastOf(seen, n)][1] = n
        /\ \A j \in 1..Len(seen) : seen[j][1] = n => j <= LastOf(seen, n)
    BY <1>6, Zenon DEF LastOf
  <1> QED
    BY <1>7 DEF n

\* One more field.
LEMMA HeadersAppend ==
  ASSUME NEW seen \in Seq(Symbols \X Texts), NEW f \in Symbols \X Texts
  PROVE  HeadersOf(seen \o <<f>>) = SetHeader(HeadersOf(seen), f[1], f[2])
  <1> DEFINE B == Symbols \X Texts
             gs == seen \o <<f>>
             N == Len(seen)
             Names(hs) == {hs[i][1] : i \in 1..Len(hs)}
  <1>1. <<f>> \in Seq(B) /\ N \in Nat
    BY LenProperties
  <1>2. gs = Append(seen, f)
    BY AppendIsConcat
  <1> HIDE DEF gs
  <1>3. gs \in Seq(B) /\ Len(gs) = N + 1
    BY <1>2, AppendProperties
  <1>4. \A i \in 1..N : gs[i] = seen[i]
    BY <1>2, AppendProperties
  <1>5. gs[N + 1] = f
    BY <1>2, AppendProperties
  <1>6. \A i \in 1..(N + 1) : i \in 1..N \/ i = N + 1
    BY <1>1
  <1>7. N + 1 \in 1..(N + 1) /\ \A i \in 1..N : i \in 1..(N + 1)
    BY <1>1
  <1>8. Names(gs) = Names(seen) \cup {f[1]}
    <2>1. ASSUME NEW n \in Names(gs) PROVE n \in Names(seen) \cup {f[1]}
      <3>1. PICK i \in 1..(N + 1) : n = gs[i][1]
        BY <1>3
      <3>2. CASE i \in 1..N
        BY <1>4, <3>1, <3>2
      <3>3. CASE i = N + 1
        BY <1>5, <3>1, <3>3
      <3> QED
        BY <1>6, <3>2, <3>3
    <2>2. ASSUME NEW n \in Names(seen) PROVE n \in Names(gs)
      <3>1. PICK i \in 1..N : n = seen[i][1]
        OBVIOUS
      <3>2. i \in 1..Len(gs) /\ n = gs[i][1]
        BY <1>3, <1>4, <1>7, <3>1
      <3> QED
        BY <3>2
    <2>3. f[1] \in Names(gs)
      <3>1. N + 1 \in 1..Len(gs)
        BY <1>3, <1>7
      <3> QED
        BY <1>5, <3>1
    <2> QED
      BY <2>1, <2>2, <2>3
  <1>9. LastOf(gs, f[1]) = N + 1
    <2>1. N + 1 \in 1..Len(gs)
      BY <1>3, <1>7
    <2>2. /\ LastOf(gs, gs[N + 1][1]) \in 1..Len(gs)
          /\ \A j \in 1..Len(gs) : gs[j][1] = gs[N + 1][1] => j <= LastOf(gs, gs[N + 1][1])
      BY <1>3, <2>1, LastOfIs
    <2>3. LastOf(gs, f[1]) \in 1..(N + 1) /\ N + 1 <= LastOf(gs, f[1])
      BY <1>3, <1>5, <2>1, <2>2
    <2> QED
      BY <1>1, <2>3
  <1>10. ASSUME NEW n \in Names(seen), n # f[1] PROVE gs[LastOf(gs, n)] = seen[LastOf(seen, n)]
    <2>1. PICK k \in 1..N : n = seen[k][1]
      OBVIOUS
    <2> DEFINE a == LastOf(seen, n)
               b == LastOf(gs, n)
    <2>2. a \in 1..N /\ seen[a][1] = n /\ \A j \in 1..N : seen[j][1] = n => j <= a
      BY <2>1, LastOfIs
    <2>3. k \in 1..Len(gs) /\ gs[k][1] = n
      BY <1>3, <1>4, <1>7, <2>1
    <2>4. b \in 1..Len(gs) /\ gs[b][1] = n /\ \A j \in 1..Len(gs) : gs[j][1] = n => j <= b
      BY <1>3, <2>3, LastOfIs
    <2> HIDE DEF a, b
    <2>5. b \in 1..N
      BY <1>3, <1>5, <1>6, <1>10, <2>4
    <2>6. seen[b][1] = n /\ b <= a
      BY <1>4, <2>2, <2>4, <2>5
    <2>7. a \in 1..Len(gs) /\ gs[a][1] = n
      BY <1>3, <1>4, <1>7, <2>2
    <2>8. a <= b
      BY <2>4, <2>7
    <2>9. a = b
      BY <1>1, <2>2, <2>5, <2>6, <2>8
    <2>10. gs[b] = seen[a]
      BY <1>4, <2>5, <2>9
    <2> QED
      BY <2>10 DEF a, b
  <1> DEFINE h == HeadersOf(seen)
             g == HeadersOf(gs)
             s == SetHeader(h, f[1], f[2])
  <1>11. DOMAIN h = Names(seen) /\ \A n \in Names(seen) : h[n] = seen[LastOf(seen, n)][2]
    BY DEF HeadersOf
  <1>12. g = [n \in Names(gs) |-> gs[LastOf(gs, n)][2]]
    BY DEF HeadersOf
  <1> HIDE DEF h, g, Names
  <1>13. s = [n \in Names(gs) |-> IF n = f[1] THEN f[2] ELSE h[n]]
    BY <1>8, <1>11 DEF SetHeader
  <1>14. ASSUME NEW n \in Names(gs)
         PROVE  gs[LastOf(gs, n)][2] = IF n = f[1] THEN f[2] ELSE h[n]
    <2>1. CASE n = f[1]
      BY <1>5, <1>9, <2>1
    <2>2. CASE n # f[1]
      <3>1. n \in Names(seen)
        BY <1>8, <2>2
      <3> QED
        BY <1>10, <1>11, <2>2, <3>1
    <2> QED
      BY <2>1, <2>2
  <1>15. g = s
    BY <1>12, <1>13, <1>14
  <1> QED
    BY <1>15 DEF g, h, gs

LEMMA NoHeadersAtAll == HeadersOf(<<>>) = NoHeaders
  <1>1. Len(<<>>) = 0 /\ 1..0 = {}
    BY EmptySeq
  <1> DEFINE e == <<>>
             N == {e[i][1] : i \in 1..Len(e)}
  <1>2. N = {}
    BY <1>1
  <1>3. HeadersOf(e) = [n \in N |-> e[LastOf(e, n)][2]]
    BY DEF HeadersOf
  <1> HIDE DEF e, N
  <1>4. HeadersOf(e) = NoHeaders
    BY <1>2, <1>3 DEF NoHeaders
  <1> QED
    BY <1>4 DEF e

\* to_string and stoul agree.
LEMMA DecimalIsNumber ==
  ASSUME NEW n \in 0..9
  PROVE  IsNumber(Decimal(n)) /\ Stoul(Decimal(n)) = n
  <1>1. DOMAIN Numerals = 1..10 /\ n + 1 \in 1..10
    BY DEF Numerals
  <1> DEFINE d == Numerals[n + 1]
             Is(i) == i \in DOMAIN Numerals /\ Numerals[i] = d
             at == CHOOSE i \in DOMAIN Numerals : Numerals[i] = d
  <1>2. d \in Range(Numerals) /\ d # "-" /\ d # "+"
    BY <1>1 DEF Range, Numerals
  <1>3. \A i, j \in 1..10 : Numerals[i] = Numerals[j] => i = j
    BY DEF Numerals
  <1>4. at \in DOMAIN Numerals /\ Numerals[at] = d
    <2>1. \E i \in DOMAIN Numerals : Numerals[i] = d
      BY <1>1
    <2> HIDE DEF d
    <2> QED
      BY <2>1
  <1>9. Digit(d) = at - 1
    BY DEF Digit
  <1> HIDE DEF at
  <1>5. at = n + 1
    BY <1>1, <1>3, <1>4
  <1>6. Digit(d) = n
    BY <1>5, <1>9
  <1>7. Decimal(n) = <<d>>
    BY DEF Decimal
  <1> HIDE DEF d
  <1>8. <<d>>[1] = d /\ <<d>> # <<>>
    OBVIOUS
  <1> QED
    BY <1>2, <1>6, <1>7, <1>8 DEF IsNumber, Stoul

-----------------------------------------------------------------------------
(* How far a parser has come with a message *)

\* What comes after j of the header lines.
After(m, j) ==
  Block(SubSeq(HeaderLines(m), j + 1, Len(HeaderLines(m)))) \o (Crlf \o m.body)

\* The request line was read as it was meant.
Said(r, m) ==
  /\ r.method = Spelled[m.method] /\ r.target = m.target
  /\ r.version = <<"HTTP/", m.version>> /\ r.body = <<>>

\* j header lines have been read.
AtHeader(p, w, m, j) ==
  /\ p.buffer \o w = After(m, j)
  /\ Proper(m) => /\ Said(p.request, m)
                  /\ p.request.headers = HeadersOf(SubSeq(m.fields, 1, j))
                  /\ p.count = j /\ p.total = Total(SubSeq(m.fields, 1, j))

\* Where a parser is that has seen all of the message but w.
Reads(p, w, m) ==
  /\ p.state = "Error" => ~WellFormed(m)
  /\ p.state = "RequestLine" =>
       p.buffer \o w = Render(m) /\ p.request = EmptyRequest /\ p.count = 0 /\ p.total = 0
  /\ p.state = "Headers" => \E j \in 0..Len(HeaderLines(m)) : AtHeader(p, w, m, j)
  /\ p.state = "Body" =>
       /\ p.buffer \o w = m.body /\ RequiresBody(p.request.method)
       /\ Proper(m) => Said(p.request, m) /\ p.request.headers = HeadersOf(m.fields)
  /\ p.state = "Complete" =>
       p.buffer \o w = <<>> /\ (WellFormed(m) => p.request = Meaning(m))

\* With nothing left on its way, every turn takes two symbols at least.
Advances(q, p, w) == w = <<>> => Len(q.buffer) + 2 <= Len(p.buffer)

LEMMA AfterText ==
  ASSUME NEW m, OneMessage(m), NEW j \in 0..Len(HeaderLines(m))
  PROVE  /\ After(m, j) \in Texts /\ m.body \in Texts
         /\ j < Len(HeaderLines(m)) =>
              /\ HeaderLines(m)[j + 1] \in Texts /\ HeaderLines(m)[j + 1] # <<>>
              /\ OneLine(HeaderLines(m)[j + 1])
              /\ After(m, j + 1) \in Texts
              /\ After(m, j) = HeaderLines(m)[j + 1] \o (Crlf \o After(m, j + 1))
         /\ j = Len(HeaderLines(m)) => After(m, j) = <<>> \o (Crlf \o m.body)
         /\ After(m, 0) = Block(HeaderLines(m)) \o (Crlf \o m.body)
  <1> DEFINE h == HeaderLines(m)
             N == Len(h)
             b == Crlf \o m.body
             From(k) == SubSeq(h, k + 1, N)
  <1>1. h \in Seq(Texts) /\ m.body \in Texts
    BY LinesTyped DEF OneMessage, TextMessage
  <1>2. N \in Nat
    BY <1>1, LenProperties
  <1>3. b \in Seq(Symbols)
    BY <1>1, CrlfTyped, ConcatProperties DEF Texts
  <1>4. \A k \in 0..N : From(k) \in Seq(Texts)
    BY <1>1, CutAfter
  <1>5. \A k \in 0..N : Block(From(k)) \in Seq(Symbols)
    BY <1>4, BlockParts DEF Texts
  <1>6. \A k : After(m, k) = Block(From(k)) \o b
    BY DEF After
  <1>7. \A k \in 0..N : After(m, k) \in Texts
    <2> HIDE DEF b, From
    <2> QED
      BY <1>3, <1>5, <1>6, ConcatProperties DEF Texts
  <1>8. ASSUME j < N
        PROVE  /\ h[j + 1] \in Texts /\ h[j + 1] # <<>> /\ OneLine(h[j + 1])
               /\ After(m, j) = h[j + 1] \o (Crlf \o After(m, j + 1))
    <2> DEFINE l == h[j + 1]
               v == Block(From(j + 1))
               c == Crlf
    <2>1. j + 1 \in 1..N /\ j + 1 \in 0..N
      BY <1>2, <1>8
    <2>2. l \in Texts /\ From(j) = <<l>> \o From(j + 1)
      BY <1>1, <2>1, CutStep
    <2>3. l # <<>> /\ OneLine(l)
      BY <2>1 DEF OneMessage
    <2>4. <<l>> \in Seq(Texts) /\ From(j + 1) \in Seq(Texts)
      BY <1>4, <2>1, <2>2
    <2>5. Block(<<l>> \o From(j + 1)) = Block(<<l>>) \o v /\ Block(<<l>>) = l \o Crlf
      <3> HIDE DEF l, From
      <3> QED
        BY <2>2, <2>4, BlockParts
    <2>6. v \in Seq(Symbols) /\ c \in Seq(Symbols) /\ l \in Seq(Symbols)
      BY <1>5, <2>1, <2>2, CrlfTyped DEF Texts
    <2>7. After(m, j) = Block(From(j)) \o b /\ After(m, j + 1) = v \o b
      BY <1>6
    <2>8. Block(From(j)) = (l \o c) \o v
      BY <2>2, <2>5
    <2> HIDE DEF b, l, v, c, From
    <2>9. ((l \o c) \o v) \o b = l \o (c \o (v \o b))
      <3>1. Regroups(l, c, v, b)
        BY <1>3, <2>6, ConcatFour
      <3> QED
        BY <3>1 DEF Regroups
    <2> QED
      BY <2>2, <2>3, <2>7, <2>8, <2>9, Zenon DEF l, c
  <1>9. ASSUME j = N PROVE After(m, j) = <<>> \o b
    <2>1. From(j) = <<>>
      BY <1>2, <1>9, SubSeqEmpty
    <2>2. Block(<<>>) = <<>>
      BY <1>1, BlockParts
    <2> QED
      BY <1>6, <2>1, <2>2
  <1>10. After(m, 0) = Block(h) \o b
    <2>1. SubSeq(h, 1, N) = h /\ 0 + 1 = 1
      BY <1>1, SubSeqFull
    <2> QED
      BY <1>6, <2>1
  <1>11. j < N => j + 1 \in 0..N
    BY <1>2
  <1> QED
    BY <1>1, <1>7, <1>8, <1>9, <1>10, <1>11

\* What is taken off the buffer.
LEMMA ConsumedParts ==
  ASSUME NEW p \in Parsers, NEW n \in 0..Len(p.buffer)
  PROVE  LET r == ConsumeBytes(p, n)
         IN /\ r \in Parsers /\ r.buffer = SubSeq(p.buffer, n + 1, Len(p.buffer))
            /\ r.state = p.state /\ r.request = p.request /\ r.count = p.count /\ r.total = p.total
  BY ConsumeTyped DEF ConsumeBytes, Parsers

\* What a buffer holds that begins with a line, as far as the line has come.
Cuts(b, w, line, after) ==
  /\ Len(b) \in Nat /\ Len(line) \in Nat /\ FindCrlf(b) \in 0..Len(b)
  /\ FindCrlf(b) = 0 => Len(b) <= Len(line) + 1 /\ w # <<>>
  /\ FindCrlf(b) # 0 =>
       /\ FindCrlf(b) = Len(line) + 1 /\ FindCrlf(b) + 1 \in 0..Len(b)
       /\ SubSeq(b, 1, FindCrlf(b) - 1) = line
       /\ SubSeq(b, FindCrlf(b) + 2, Len(b)) \in Texts
       /\ SubSeq(b, FindCrlf(b) + 2, Len(b)) \o w = after
       /\ Len(SubSeq(b, FindCrlf(b) + 2, Len(b))) = Len(b) - (FindCrlf(b) + 1)

LEMMA LineCuts ==
  ASSUME NEW b \in Texts, NEW w \in Texts, NEW line \in Texts, OneLine(line),
         NEW after \in Texts, b \o w = line \o (Crlf \o after)
  PROVE  Cuts(b, w, line, after)
  BY FirstLine, ZenonT(60) DEF Cuts

LEMMA RequestLineReads ==
  ASSUME NEW p \in Parsers, NEW w \in Texts, NEW m, OneMessage(m),
         p.state = "RequestLine", Reads(p, w, m)
  PROVE  Reads(ParseRequestLine(p), w, m) /\ Advances(ParseRequestLine(p), p, w)
  <1> DEFINE b == p.buffer
             at == FindCrlf(b)
             line == RequestLine(m)
             rest == ConsumeBytes(p, at + 1)
  <1>1. /\ b \in Texts /\ line \in Texts /\ OneLine(line) /\ After(m, 0) \in Texts
        /\ Render(m) = line \o (Crlf \o After(m, 0))
        /\ Len(HeaderLines(m)) \in Nat
    <2>1. TextMessage(m) /\ OneLine(line)
      BY DEF OneMessage
    <2>2. HeaderLines(m) \in Seq(Texts) /\ line \in Texts
      BY <2>1, LinesTyped
    <2>3. Len(HeaderLines(m)) \in Nat /\ 0 \in 0..Len(HeaderLines(m))
      BY <2>2, LenProperties
    <2>4. After(m, 0) \in Texts /\ After(m, 0) = Block(HeaderLines(m)) \o (Crlf \o m.body)
      BY <2>3, AfterText
    <2>5. Render(m) = line \o (Crlf \o (Block(HeaderLines(m)) \o (Crlf \o m.body)))
      BY <2>1, LinesTyped
    <2> QED
      BY <2>1, <2>2, <2>3, <2>4, <2>5, ParserParts
  <1>2. b \o w = line \o (Crlf \o After(m, 0)) /\ p.request = EmptyRequest /\ p.count = 0 /\ p.total = 0
    BY <1>1 DEF Reads
  <1>3. /\ Len(b) \in Nat /\ Len(line) \in Nat /\ at \in 0..Len(b)
        /\ at = 0 => Len(b) <= Len(line) + 1 /\ w # <<>>
        /\ at # 0 => /\ at = Len(line) + 1 /\ at + 1 \in 0..Len(b)
                     /\ SubSeq(b, 1, at - 1) = line
                     /\ SubSeq(b, at + 2, Len(b)) \in Texts
                     /\ SubSeq(b, at + 2, Len(b)) \o w = After(m, 0)
                     /\ Len(SubSeq(b, at + 2, Len(b))) = Len(b) - (at + 1)
    <2> HIDE DEF b, line
    <2>1. Cuts(b, w, line, After(m, 0))
      BY <1>1, <1>2, LineCuts
    <2> QED
      BY <2>1 DEF Cuts
  <1>4. WellFormed(m) => Proper(m) /\ Len(line) < MaxRequestLine
    BY DEF WellFormed
  <1>5. CASE at = 0
    <2>1. ParseRequestLine(p) = IF Len(b) > MaxRequestLine THEN SetError(p) ELSE p
      BY <1>5 DEF ParseRequestLine
    <2>2. w # <<>>
      BY <1>3, <1>5
    <2>3. CASE Len(b) > MaxRequestLine
      <3>1. ~WellFormed(m)
        <4>1. Len(b) <= Len(line) + 1
          BY <1>3, <1>5
        <4> HIDE DEF b, line, at
        <4> QED
          BY <1>3, <1>4, <2>3, <4>1, LimitsAssumption
      <3>2. SetError(p).state = "Error"
        BY DEF SetError, Parsers
      <3> QED
        BY <2>1, <2>2, <2>3, <3>1, <3>2 DEF Reads, Advances
    <2>4. CASE ~(Len(b) > MaxRequestLine)
      BY <2>1, <2>2, <2>4 DEF Advances
    <2> QED
      BY <2>3, <2>4
  <1>6. CASE at # 0
    <2> HIDE DEF at
    <2>1. at = Len(line) + 1 /\ at + 1 \in 0..Len(b) /\ at + 1 + 1 = at + 2 /\ SubSeq(b, 1, at - 1) = line
      BY <1>3, <1>6
    <2>2. /\ rest \in Parsers /\ rest.buffer = SubSeq(b, at + 2, Len(b))
          /\ rest.state = p.state /\ rest.request = p.request /\ rest.count = p.count /\ rest.total = p.total
      BY <2>1, ConsumedParts
    <2>3. rest.buffer \o w = After(m, 0) /\ Len(rest.buffer) = Len(b) - (at + 1)
      BY <1>3, <1>6, <2>2
    <2> HIDE DEF rest
    <2> DEFINE words == Words(line)
               good == Len(words) >= 3 /\ KnownMethod(words[1]) /\ Head(words[3]) = "HTTP/"
               next == [rest EXCEPT !.state = "Headers",
                                    !.request.method = StringToMethod(words[1]),
                                    !.request.target = words[2],
                                    !.request.version = words[3]]
    <2>4. ParseRequestLine(p) = IF good THEN next ELSE SetError(rest)
      BY <1>6, <2>1 DEF ParseRequestLine, at, rest
    <2>5. Len(rest.buffer) + 2 <= Len(b)
      BY <1>3, <2>1, <2>3
    <2>6. Proper(m) => /\ good /\ StringToMethod(words[1]) = Spelled[m.method]
                       /\ words[2] = m.target /\ words[3] = <<"HTTP/", m.version>>
      <3> SUFFICES ASSUME Proper(m)
                   PROVE  /\ good /\ StringToMethod(words[1]) = Spelled[m.method]
                          /\ words[2] = m.target /\ words[3] = <<"HTTP/", m.version>>
        OBVIOUS
      <3> DEFINE a == <<m.method>>
                 v == <<"HTTP/", m.version>>
      <3>1. words = <<a, m.target, v>>
        BY WordsOfLine DEF OneMessage
      <3>2. a[1] = m.method /\ Len(a) = 1 /\ Head(v) = "HTTP/"
        OBVIOUS
      <3>3. m.method \in DOMAIN Spelled
        BY DEF Proper
      <3> HIDE DEF words, a, v
      <3>4. Len(words) = 3 /\ words[1] = a /\ words[2] = m.target /\ words[3] = v
        BY <3>1
      <3>5. KnownMethod(a) /\ StringToMethod(a) = Spelled[m.method]
        BY <3>2, <3>3 DEF KnownMethod, StringToMethod
      <3> QED
        BY <3>2, <3>4, <3>5 DEF v
    <2> HIDE DEF words
    <2>7. CASE good
      <3>1. /\ next.state = "Headers" /\ next.buffer = rest.buffer
            /\ next.count = rest.count /\ next.total = rest.total
            /\ next.request.method = StringToMethod(words[1])
            /\ next.request.target = words[2] /\ next.request.version = words[3]
            /\ next.request.headers = rest.request.headers
            /\ next.request.body = rest.request.body
        BY <2>2 DEF Parsers, Requests
      <3> HIDE DEF next
      <3>2. next.buffer \o w = After(m, 0)
        BY <2>3, <3>1
      <3>3. rest.request.headers = NoHeaders /\ rest.request.body = <<>> /\ rest.count = 0 /\ rest.total = 0
        BY <1>2, <2>2 DEF EmptyRequest
      <3>4. ASSUME Proper(m)
            PROVE  /\ Said(next.request, m)
                   /\ next.request.headers = HeadersOf(SubSeq(m.fields, 1, 0))
                   /\ next.count = 0 /\ next.total = Total(SubSeq(m.fields, 1, 0))
        <4>1. Said(next.request, m)
          BY <2>6, <3>1, <3>3, <3>4 DEF Said
        <4>2. SubSeq(m.fields, 1, 0) = <<>>
          BY SubSeqEmpty
        <4>3. m.fields \in Seq(Symbols \X Texts)
          BY DEF OneMessage, TextMessage
        <4>4. Total(<<>>) = 0
          BY <4>3, FieldLinesParts
        <4> QED
          BY <3>1, <3>3, <4>1, <4>2, <4>4, NoHeadersAtAll
      <3>5. AtHeader(next, w, m, 0)
        BY <3>2, <3>4 DEF AtHeader
      <3>6. 0 \in 0..Len(HeaderLines(m))
        BY <1>1
      <3>7. Reads(next, w, m)
        BY <3>1, <3>5, <3>6 DEF Reads
      <3>8. Advances(next, p, w)
        BY <2>5, <3>1 DEF Advances
      <3>9. ParseRequestLine(p) = next
        BY <2>4, <2>7
      <3> QED
        BY <3>7, <3>8, <3>9
    <2>8. CASE ~good
      <3>1. ~WellFormed(m)
        BY <1>4, <2>6, <2>8
      <3>2. SetError(rest).state = "Error" /\ SetError(rest).buffer = rest.buffer
        BY <2>2 DEF SetError, Parsers
      <3>3. ParseRequestLine(p) = SetError(rest)
        BY <2>4, <2>8
      <3> QED
        BY <2>5, <3>1, <3>2, <3>3 DEF Reads, Advances
    <2> QED
      BY <2>7, <2>8
  <1> QED
    BY <1>5, <1>6

\* A message that keeps the limits has room for every field.
LEMMA FieldsFit ==
  ASSUME NEW m, OneMessage(m), Proper(m), NEW j \in 0..(Len(HeaderLines(m)) - 1)
  PROVE  /\ Len(HeaderLines(m)) = Len(m.fields) /\ j + 1 \in 1..Len(m.fields)
         /\ m.fields[j + 1] \in Symbols \X Texts
         /\ HeaderLines(m)[j + 1] = FieldLine(m.fields[j + 1])
         /\ ValidName(<<m.fields[j + 1][1]>>) /\ Bare(m.fields[j + 1][2])
         /\ HeadersOf(SubSeq(m.fields, 1, j + 1)) =
              SetHeader(HeadersOf(SubSeq(m.fields, 1, j)), m.fields[j + 1][1], m.fields[j + 1][2])
         /\ Total(SubSeq(m.fields, 1, j + 1)) =
              Total(SubSeq(m.fields, 1, j)) + Len(FieldLine(m.fields[j + 1]))
         /\ Total(SubSeq(m.fields, 1, j + 1)) <= Total(m.fields)
  <1> DEFINE seen == m.fields
             f == seen[j + 1]
             N == Len(seen)
             before == SubSeq(seen, 1, j)
             upto == SubSeq(seen, 1, j + 1)
             after == SubSeq(seen, j + 2, N)
             B == Symbols \X Texts
  <1>1. seen \in Seq(B)
    BY DEF OneMessage, TextMessage
  <1>2. HeaderLines(m) = FieldLines(seen)
    BY LinesTyped DEF OneMessage
  <1>3. Len(FieldLines(seen)) = N /\ \A i \in 1..N : FieldLines(seen)[i] = FieldLine(seen[i])
    BY <1>1, FieldLinesParts
  <1>4. N \in Nat /\ Len(HeaderLines(m)) = N
    BY <1>1, <1>2, <1>3, LenProperties
  <1>5. j + 1 \in 1..N /\ j + 1 \in 0..N /\ j \in 0..N /\ (j + 1) - 1 = j /\ (j + 1) + 1 = j + 2
    BY <1>4
  <1>6. f \in B
    BY <1>1, <1>5, ElementOfSeq
  <1>7. HeaderLines(m)[j + 1] = FieldLine(f)
    BY <1>2, <1>3, <1>5
  <1>8. ValidName(<<f[1]>>) /\ Bare(f[2])
    BY <1>5 DEF Proper
  <1>9. upto = before \o <<f>>
    BY <1>1, <1>5, CutStep
  <1>10. before \in Seq(B)
    BY <1>1, <1>5, CutAfter
  <1>11. upto \in Seq(B) /\ after \in Seq(B) /\ seen = upto \o after
    BY <1>1, <1>5, CutAfter, ZenonT(60)
  <1> HIDE DEF seen, f, before, upto, after, B
  <1>12. HeadersOf(before \o <<f>>) = SetHeader(HeadersOf(before), f[1], f[2])
    BY <1>6, <1>10, HeadersAppend DEF B
  <1>13. Total(before \o <<f>>) = Total(before) + Len(FieldLine(f))
    BY <1>6, <1>10, FieldLinesParts DEF B
  <1>14. Total(upto) <= Total(seen)
    <2>1. Total(upto \o after) = Total(upto) + Total(after)
      BY <1>11, FieldLinesParts DEF B
    <2>2. Total(upto) \in Nat /\ Total(after) \in Nat
      BY <1>11, FieldLinesParts DEF B
    <2>3. Total(seen) = Total(upto) + Total(after)
      BY <1>11, <2>1, Zenon
    <2> QED
      BY <2>2, <2>3
  <1>15. HeadersOf(upto) = SetHeader(HeadersOf(before), f[1], f[2])
    BY <1>9, <1>12
  <1>16. Total(upto) = Total(before) + Len(FieldLine(f))
    BY <1>9, <1>13
  <1> QED
    BY <1>4, <1>5, <1>6, <1>7, <1>8, <1>14, <1>15, <1>16, Zenon DEF seen, f, before, upto, B

\* A header line is stored.
LEMMA StoreReads ==
  ASSUME NEW r \in Parsers, NEW m, OneMessage(m), NEW j \in 0..(Len(HeaderLines(m)) - 1),
         r.state = "Headers",
         Proper(m) => /\ Said(r.request, m)
                      /\ r.request.headers = HeadersOf(SubSeq(m.fields, 1, j))
                      /\ r.count = j /\ r.total = Total(SubSeq(m.fields, 1, j))
  PROVE  LET q == StoreHeader(r, HeaderLines(m)[j + 1])
         IN /\ q.buffer = r.buffer /\ q.state \in {"Headers", "Error"}
            /\ q.state = "Error" => ~WellFormed(m)
            /\ q.state = "Headers" /\ Proper(m) =>
                 /\ Said(q.request, m)
                 /\ q.request.headers = HeadersOf(SubSeq(m.fields, 1, j + 1))
                 /\ q.count = j + 1 /\ q.total = Total(SubSeq(m.fields, 1, j + 1))
  <1> DEFINE line == HeaderLines(m)[j + 1]
             q == StoreHeader(r, line)
             f == m.fields[j + 1]
  <1>1. q.buffer = r.buffer /\ q.state \in {"Headers", "Error"}
    <2>1. \E n, v : q \in {SetError(r), [r EXCEPT !.request.headers = SetHeader(@, n, v),
                                                 !.count = @ + 1,
                                                 !.total = @ + Len(line)]}
      <3> HIDE DEF line
      <3>1. \E good, name, value : StoreHeader(r, line) =
              IF good THEN [r EXCEPT !.request.headers = SetHeader(@, name[1], value),
                                     !.count = @ + 1,
                                     !.total = @ + Len(line)]
              ELSE SetError(r)
        BY Zenon DEF StoreHeader
      <3> QED
        BY <3>1
    <2>2. SetError(r).buffer = r.buffer /\ SetError(r).state = "Error"
      BY DEF SetError, Parsers
    <2>3. ASSUME NEW n, NEW v
          PROVE  LET s == [r EXCEPT !.request.headers = SetHeader(@, n, v), !.count = @ + 1,
                                    !.total = @ + Len(line)]
                 IN s.buffer = r.buffer /\ s.state = "Headers"
      BY DEF Parsers
    <2>4. PICK n, v : q \in {SetError(r), [r EXCEPT !.request.headers = SetHeader(@, n, v),
                                                   !.count = @ + 1,
                                                   !.total = @ + Len(line)]}
      BY <2>1
    <2> DEFINE s == [r EXCEPT !.request.headers = SetHeader(@, n, v),
                              !.count = @ + 1, !.total = @ + Len(line)]
    <2>5. s.buffer = r.buffer /\ s.state = "Headers"
      BY <2>3
    <2>6. q \in {SetError(r), s}
      BY <2>4
    <2> HIDE DEF q, line, s
    <2>7. CASE q = SetError(r)
      BY <2>2, <2>7
    <2>8. CASE q = s
      BY <2>5, <2>8
    <2> QED
      BY <2>6, <2>7, <2>8
  <1>2. ~Proper(m) => ~WellFormed(m)
    BY DEF WellFormed
  <1>3. CASE Proper(m)
    <2> DEFINE next == [r EXCEPT !.request.headers = SetHeader(@, f[1], f[2]),
                                 !.count = @ + 1,
                                 !.total = @ + Len(FieldLine(f))]
    <2>1. /\ Len(HeaderLines(m)) = Len(m.fields) /\ j + 1 \in 1..Len(m.fields)
          /\ f \in Symbols \X Texts /\ line = FieldLine(f)
          /\ ValidName(<<f[1]>>) /\ Bare(f[2])
          /\ HeadersOf(SubSeq(m.fields, 1, j + 1)) = SetHeader(HeadersOf(SubSeq(m.fields, 1, j)), f[1], f[2])
          /\ Total(SubSeq(m.fields, 1, j + 1)) = Total(SubSeq(m.fields, 1, j)) + Len(FieldLine(f))
          /\ Total(SubSeq(m.fields, 1, j + 1)) <= Total(m.fields)
      BY <1>3, FieldsFit
    <2> HIDE DEF line, f
    <2>2. StoreHeader(r, FieldLine(f)) = IF Fits(r, f) THEN next ELSE SetError(r)
      BY <2>1, FieldRead
    <2>3. /\ next.state = "Headers"
          /\ next.request.method = r.request.method /\ next.request.target = r.request.target
          /\ next.request.version = r.request.version /\ next.request.body = r.request.body
          /\ next.request.headers = SetHeader(r.request.headers, f[1], f[2])
          /\ next.count = r.count + 1 /\ next.total = r.total + Len(FieldLine(f))
      BY DEF Parsers, Requests
    <2> HIDE DEF next
    <2>4. /\ Said(next.request, m)
          /\ next.request.headers = HeadersOf(SubSeq(m.fields, 1, j + 1))
          /\ next.count = j + 1 /\ next.total = Total(SubSeq(m.fields, 1, j + 1))
      BY <1>3, <2>1, <2>3 DEF Said
    <2>5. WellFormed(m) => Fits(r, f)
      <3> SUFFICES ASSUME WellFormed(m) PROVE Fits(r, f)
        OBVIOUS
      <3>1. Len(m.fields) <= MaxHeaderCount /\ Total(m.fields) <= MaxTotalHeader
        BY DEF WellFormed, Total
      <3>2. m.fields \in Seq(Symbols \X Texts)
        BY DEF OneMessage, TextMessage
      <3>3. Total(m.fields) \in Nat /\ Len(m.fields) \in Nat
        BY <3>2, FieldLinesParts, LenProperties
      <3>4. r.count < MaxHeaderCount
        BY <1>3, <2>1, <3>1, <3>3, LimitsAssumption
      <3>5. r.total + Len(FieldLine(f)) = Total(SubSeq(m.fields, 1, j + 1)) /\ r.total + Len(FieldLine(f)) \in Nat
        <4>1. FieldLine(f) \in Texts
          BY <2>1, FieldLineTyped
        <4>2. r.total \in Nat /\ Len(FieldLine(f)) \in Nat
          BY <4>1, ParserParts, LenProperties DEF Texts
        <4> QED
          BY <1>3, <2>1, <4>2
      <3>6. r.total + Len(FieldLine(f)) <= MaxTotalHeader
        BY <2>1, <3>1, <3>3, <3>5, LimitsAssumption
      <3> QED
        BY <3>4, <3>6 DEF Fits
    <2>6. SetError(r).state = "Error"
      BY DEF SetError, Parsers
    <2>7. q = IF Fits(r, f) THEN next ELSE SetError(r)
      BY <2>1, <2>2
    <2> HIDE DEF q
    <2>8. /\ q.state = "Error" => ~WellFormed(m)
          /\ q.state = "Headers" =>
               /\ Said(q.request, m)
               /\ q.request.headers = HeadersOf(SubSeq(m.fields, 1, j + 1))
               /\ q.count = j + 1 /\ q.total = Total(SubSeq(m.fields, 1, j + 1))
      <3>1. CASE Fits(r, f)
        BY <2>3, <2>4, <2>7, <3>1
      <3>2. CASE ~Fits(r, f)
        BY <2>5, <2>6, <2>7, <3>2
      <3> QED
        BY <3>1, <3>2
    <2> QED
      BY <1>1, <2>8, Zenon DEF q, line
  <1>4. CASE ~Proper(m)
    BY <1>1, <1>2, <1>4, Zenon
  <1> QED
    BY <1>3, <1>4

\* A message without a body where none is due, or announced.
LEMMA NoBodyDue ==
  ASSUME NEW m, OneMessage(m), NEW r, Proper(m) => r.method = Spelled[m.method],
         ~RequiresBody(r.method)
  PROVE  m.body = <<>>
  BY DEF OneMessage

\* The empty line.
LEMMA EndReads ==
  ASSUME NEW p \in Parsers, NEW w \in Texts, NEW m, OneMessage(m), p.state = "Headers",
         NEW j \in 0..Len(HeaderLines(m)), AtHeader(p, w, m, j)
  PROVE  /\ Reads(EndOfHeaders(p), w, m)
         /\ Len(EndOfHeaders(p).buffer) <= Len(p.buffer)
         /\ FindCrlf(p.buffer) = 1 => Len(EndOfHeaders(p).buffer) + 2 <= Len(p.buffer)
  <1> DEFINE b == p.buffer
             at == FindCrlf(b)
             N == Len(HeaderLines(m))
             rest == ConsumeBytes(p, 2)
             to == IF RequiresBody(p.request.method) THEN "Body" ELSE "Complete"
             next == [rest EXCEPT !.state = to]
  <1>1. b \in Texts /\ Len(b) \in Nat
    BY ParserParts, LenProperties DEF Texts
  <1>2. CASE at # 1
    <2>1. EndOfHeaders(p) = p
      BY <1>2 DEF EndOfHeaders
    <2>2. Reads(p, w, m)
      BY DEF Reads
    <2> QED
      BY <1>1, <1>2, <2>1, <2>2
  <1>3. CASE at = 1
    <2>1. EndOfHeaders(p) = next
      BY <1>3 DEF EndOfHeaders
    <2>2. N \in Nat
      <3>1. HeaderLines(m) \in Seq(Texts)
        BY LinesTyped DEF OneMessage
      <3> QED
        BY <3>1, LenProperties
    <2>3. m.body \in Texts /\ b \o w = After(m, j)
      BY AfterText DEF AtHeader
    <2>4. j = N
      <3> SUFFICES ASSUME j < N PROVE FALSE
        BY <2>2
      <3> DEFINE line == HeaderLines(m)[j + 1]
                 t == After(m, j + 1)
      <3>1. /\ line \in Texts /\ line # <<>> /\ OneLine(line) /\ t \in Texts
            /\ b \o w = line \o (Crlf \o t)
        BY <2>3, AfterText
      <3> HIDE DEF b, line, t
      <3>2. Len(line) \in Nat \ {0}
        BY <3>1, EmptySeq DEF Texts
      <3>3. Cuts(b, w, line, t)
        BY <1>1, <3>1, LineCuts
      <3>4. 1 = Len(line) + 1
        BY <1>3, <3>3 DEF Cuts
      <3> QED
        BY <3>2, <3>4
    <2>5. b \o w = <<>> \o (Crlf \o m.body)
      BY <2>3, <2>4, AfterText
    <2>6. /\ 2 \in 0..Len(b) /\ SubSeq(b, 3, Len(b)) \o w = m.body
          /\ Len(SubSeq(b, 3, Len(b))) = Len(b) - 2
      <3> DEFINE e == <<>>
      <3>1. e \in Texts /\ OneLine(e) /\ Len(e) = 0
        BY EmptySeq DEF Texts, OneLine
      <3>2. b \o w = e \o (Crlf \o m.body)
        BY <2>5
      <3> HIDE DEF b, e
      <3>3. Cuts(b, w, e, m.body)
        BY <1>1, <2>3, <3>1, <3>2, LineCuts
      <3>4. FindCrlf(b) = 1 /\ 1 + 2 = 3 /\ 1 + 1 = 2
        BY <1>3
      <3> QED
        BY <3>3, <3>4 DEF Cuts
    <2>7. /\ rest \in Parsers /\ rest.buffer = SubSeq(b, 3, Len(b)) /\ rest.request = p.request
      <3>1. 2 + 1 = 3
        OBVIOUS
      <3> QED
        BY <2>6, <3>1, ConsumedParts
    <2> HIDE DEF rest
    <2>8. next.state = to /\ next.buffer = rest.buffer /\ next.request = p.request
      BY <2>7 DEF Parsers
    <2> HIDE DEF next
    <2>9. next.buffer \o w = m.body /\ Len(next.buffer) = Len(b) - 2
      BY <2>6, <2>7, <2>8
    <2>10. Proper(m) => Said(p.request, m) /\ p.request.headers = HeadersOf(m.fields)
      <3> SUFFICES ASSUME Proper(m) PROVE Said(p.request, m) /\ p.request.headers = HeadersOf(m.fields)
        OBVIOUS
      <3>1. Said(p.request, m) /\ p.request.headers = HeadersOf(SubSeq(m.fields, 1, N))
        BY <2>4 DEF AtHeader
      <3>2. m.fields \in Seq(Symbols \X Texts)
        BY DEF OneMessage, TextMessage
      <3>3. N = Len(m.fields)
        <4>1. HeaderLines(m) = FieldLines(m.fields)
          BY LinesTyped DEF OneMessage
        <4>2. Len(FieldLines(m.fields)) = Len(m.fields)
          BY <3>2, FieldLinesParts
        <4> QED
          BY <4>1, <4>2
      <3>4. SubSeq(m.fields, 1, Len(m.fields)) = m.fields
        BY <3>2, SubSeqFull
      <3> QED
        BY <3>1, <3>3, <3>4
    <2>11. CASE RequiresBody(p.request.method)
      <3>1. next.state = "Body"
        BY <2>8, <2>11
      <3> QED
        BY <1>1, <2>1, <2>8, <2>9, <2>10, <2>11, <3>1 DEF Reads
    <2>12. CASE ~RequiresBody(p.request.method)
      <3>1. next.state = "Complete"
        BY <2>8, <2>12
      <3>2. m.body = <<>>
        BY <2>10, <2>12, NoBodyDue DEF Said
      <3>3. WellFormed(m) => next.request = Meaning(m)
        <4> SUFFICES ASSUME WellFormed(m) PROVE p.request = Meaning(m)
          BY <2>8
        <4>1. Said(p.request, m) /\ p.request.headers = HeadersOf(m.fields)
          BY <2>10 DEF WellFormed
        <4>2. p.request \in Requests
          BY ParserParts
        <4> QED
          BY <3>2, <4>1, <4>2 DEF Said, Meaning, Requests
      <3>4. Reads(next, w, m)
        BY <2>9, <3>1, <3>2, <3>3 DEF Reads
      <3> QED
        BY <1>1, <2>1, <2>9, <3>4
    <2> QED
      BY <2>11, <2>12
  <1> QED
    BY <1>2, <1>3

\* A turn on a header line.
LEMMA HeaderReads ==
  ASSUME NEW p \in Parsers, NEW w \in Texts, NEW m, OneMessage(m),
         p.state = "Headers", Reads(p, w, m)
  PROVE  Reads(ParseHeader(p), w, m) /\ Advances(ParseHeader(p), p, w)
  <1> DEFINE b == p.buffer
             N == Len(HeaderLines(m))
  <1>1. b \in Texts /\ Len(b) \in Nat /\ N \in Nat
    <2>1. HeaderLines(m) \in Seq(Texts)
      BY LinesTyped DEF OneMessage
    <2> QED
      BY <2>1, ParserParts, LenProperties DEF Texts
  <1>2. PICK j \in 0..N : AtHeader(p, w, m, j)
    BY DEF Reads
  <1>3. /\ b \o w = After(m, j) /\ After(m, j) \in Texts /\ m.body \in Texts
        /\ j < N => /\ HeaderLines(m)[j + 1] \in Texts /\ HeaderLines(m)[j + 1] # <<>>
                    /\ OneLine(HeaderLines(m)[j + 1]) /\ After(m, j + 1) \in Texts
                    /\ After(m, j) = HeaderLines(m)[j + 1] \o (Crlf \o After(m, j + 1))
        /\ j = N => After(m, j) = <<>> \o (Crlf \o m.body)
    BY <1>2, AfterText DEF AtHeader
  <1> DEFINE line == IF j < N THEN HeaderLines(m)[j + 1] ELSE <<>>
             t == IF j < N THEN After(m, j + 1) ELSE m.body
             at == FindCrlf(b)
  <1>4. /\ line \in Texts /\ t \in Texts /\ OneLine(line) /\ b \o w = line \o (Crlf \o t)
        /\ j < N => line # <<>>
    <2>1. CASE j < N
      BY <1>3, <2>1
    <2>2. CASE ~(j < N)
      <3>1. j = N
        BY <1>1, <2>2
      <3>2. <<>> \in Texts /\ OneLine(<<>>)
        BY EmptySeq DEF Texts, OneLine
      <3> QED
        BY <1>3, <2>2, <3>1, <3>2
    <2> QED
      BY <2>1, <2>2
  <1>5. Cuts(b, w, line, t)
    <2> HIDE DEF b, line, t
    <2> QED
      BY <1>1, <1>4, LineCuts
  <1>6. WellFormed(m) => Len(line) < MaxHeaderField
    <2> SUFFICES ASSUME WellFormed(m) PROVE Len(line) < MaxHeaderField
      OBVIOUS
    <2>1. CASE j < N
      <3>1. Proper(m) /\ \A i \in 1..Len(m.fields) : Len(FieldLine(m.fields[i])) < MaxHeaderField
        BY DEF WellFormed
      <3>2. j \in 0..(N - 1)
        BY <1>1, <2>1
      <3>3. j + 1 \in 1..Len(m.fields) /\ HeaderLines(m)[j + 1] = FieldLine(m.fields[j + 1])
        BY <3>1, <3>2, FieldsFit
      <3>4. Len(FieldLine(m.fields[j + 1])) < MaxHeaderField
        BY <3>1, <3>3
      <3> QED
        BY <2>1, <3>3, <3>4
    <2>2. CASE ~(j < N)
      <3>1. Len(line) = 0
        BY <2>2, EmptySeq
      <3> QED
        BY <3>1, LimitsAssumption
    <2> QED
      BY <2>1, <2>2
  <1> HIDE DEF line, t
  <1>7. CASE at = 0
    <2>1. ParseHeader(p) = IF Len(b) > MaxHeaderField THEN SetError(p) ELSE p
      BY <1>7 DEF ParseHeader
    <2>2. w # <<>> /\ Len(b) <= Len(line) + 1 /\ Len(line) \in Nat
      BY <1>5, <1>7 DEF Cuts
    <2>3. CASE Len(b) > MaxHeaderField
      <3>1. ~WellFormed(m)
        <4> HIDE DEF b
        <4> QED
          BY <1>1, <1>6, <2>2, <2>3, LimitsAssumption
      <3>2. SetError(p).state = "Error"
        BY DEF SetError, Parsers
      <3> QED
        BY <2>1, <2>2, <2>3, <3>1, <3>2 DEF Reads, Advances
    <2>4. CASE ~(Len(b) > MaxHeaderField)
      BY <2>1, <2>2, <2>4 DEF Advances
    <2> QED
      BY <2>3, <2>4
  <1>8. CASE at = 1
    <2>1. ParseHeader(p) = EndOfHeaders(p)
      BY <1>8 DEF ParseHeader
    <2>2. Reads(EndOfHeaders(p), w, m) /\ Len(EndOfHeaders(p).buffer) + 2 <= Len(b)
      BY <1>2, <1>8, EndReads
    <2> QED
      BY <2>1, <2>2 DEF Advances
  <1>9. CASE at # 0 /\ at # 1
    <2> DEFINE r == ConsumeBytes(p, at + 1)
               q == StoreHeader(r, line)
    <2>1. /\ at = Len(line) + 1 /\ at + 1 \in 0..Len(b) /\ SubSeq(b, 1, at - 1) = line
          /\ SubSeq(b, at + 2, Len(b)) \o w = t /\ Len(line) \in Nat
          /\ Len(SubSeq(b, at + 2, Len(b))) = Len(b) - (at + 1)
      BY <1>5, <1>9 DEF Cuts
    <2>2. ParseHeader(p) = EndOfHeaders(q)
      BY <1>9, <2>1 DEF ParseHeader
    <2>3. j < N
      <3> SUFFICES ASSUME ~(j < N) PROVE FALSE
        OBVIOUS
      <3>1. Len(line) = 0
        BY EmptySeq DEF line
      <3> QED
        BY <1>9, <2>1, <3>1
    <2>4. line = HeaderLines(m)[j + 1] /\ t = After(m, j + 1) /\ j \in 0..(N - 1) /\ j + 1 \in 0..N
      BY <1>1, <2>3 DEF line, t
    <2> HIDE DEF at
    <2>5. at + 1 + 1 = at + 2
      BY <2>1
    <2>6. /\ r \in Parsers /\ r.buffer = SubSeq(b, at + 2, Len(b))
          /\ r.state = "Headers" /\ r.request = p.request /\ r.count = p.count /\ r.total = p.total
      BY <2>1, <2>5, ConsumedParts
    <2> HIDE DEF r
    <2>7. Proper(m) => /\ Said(r.request, m)
                       /\ r.request.headers = HeadersOf(SubSeq(m.fields, 1, j))
                       /\ r.count = j /\ r.total = Total(SubSeq(m.fields, 1, j))
      BY <1>2, <2>6 DEF AtHeader
    <2>8. /\ q.buffer = r.buffer /\ q.state \in {"Headers", "Error"}
          /\ q.state = "Error" => ~WellFormed(m)
          /\ q.state = "Headers" /\ Proper(m) =>
               /\ Said(q.request, m)
               /\ q.request.headers = HeadersOf(SubSeq(m.fields, 1, j + 1))
               /\ q.count = j + 1 /\ q.total = Total(SubSeq(m.fields, 1, j + 1))
      BY <2>4, <2>6, <2>7, StoreReads
    <2>9. q \in Parsers
      BY <1>4, <2>6, StoreHeaderTyped
    <2> HIDE DEF q
    <2>10. q.buffer \o w = After(m, j + 1) /\ Len(q.buffer) + 2 <= Len(b)
      <3> DEFINE u == SubSeq(b, at + 2, Len(b))
      <3>1. q.buffer = u /\ u \o w = After(m, j + 1) /\ Len(u) = Len(b) - (at + 1)
        BY <2>1, <2>4, <2>6, <2>8
      <3>2. at \in Nat /\ at >= 1
        BY <2>1
      <3> HIDE DEF u, b
      <3>3. Len(u) + 2 <= Len(b)
        BY <1>1, <3>1, <3>2
      <3> QED
        BY <3>1, <3>3
    <2>11. CASE q.state = "Headers"
      <3>1. AtHeader(q, w, m, j + 1)
        BY <2>8, <2>10, <2>11 DEF AtHeader
      <3>2. Reads(EndOfHeaders(q), w, m) /\ Len(EndOfHeaders(q).buffer) <= Len(q.buffer)
        BY <2>4, <2>9, <2>11, <3>1, EndReads
      <3>3. EndOfHeaders(q) \in Parsers
        BY <2>9, EndOfHeadersTyped
      <3>4. Len(EndOfHeaders(q).buffer) \in Nat /\ Len(q.buffer) \in Nat
        BY <2>9, <3>3, ParserParts, LenProperties DEF Texts
      <3>5. Len(EndOfHeaders(q).buffer) + 2 <= Len(b)
        BY <1>1, <2>10, <3>2, <3>4
      <3> QED
        BY <2>2, <3>2, <3>5 DEF Advances
    <2>12. CASE q.state = "Error"
      <3>1. EndOfHeaders(q) = q
        BY <2>12 DEF EndOfHeaders
      <3>2. Reads(q, w, m)
        BY <2>8, <2>12 DEF Reads
      <3> QED
        BY <2>2, <2>10, <3>1, <3>2 DEF Advances
    <2> QED
      BY <2>8, <2>11, <2>12
  <1> QED
    BY <1>7, <1>8, <1>9

\* Where a body is due, a promised message announces it.
LEMMA BodyDue ==
  ASSUME NEW m, OneMessage(m), WellFormed(m), RequiresBody(Spelled[m.method]),
         Get(HeadersOf(m.fields), "content-length") # <<>>
  PROVE  LET cl == Get(HeadersOf(m.fields), "content-length")
         IN IsNumber(cl) /\ Stoul(cl) = Len(m.body) /\ Stoul(cl) <= MaxBodyBytes
  <1> DEFINE cl == Get(HeadersOf(m.fields), "content-length")
  <1>1. Meaning(m).headers = HeadersOf(m.fields)
    BY DEF Meaning
  <1>2. cl = Decimal(Len(m.body)) /\ Len(m.body) <= MaxBodyBytes
    BY <1>1 DEF WellFormed
  <1>3. Len(m.body) \in 0..9
    <2>1. m.body \in Texts
      BY DEF OneMessage, TextMessage
    <2>2. Len(m.body) \in Nat
      BY <2>1, LenProperties DEF Texts
    <2> DEFINE L == Len(m.body)
    <2>3. L \in Nat /\ L <= MaxBodyBytes
      BY <1>2, <2>2
    <2> HIDE DEF L
    <2>4. L \in 0..9
      BY <2>3, LimitsAssumption
    <2> QED
      BY <2>4 DEF L
  <1>4. IsNumber(Decimal(Len(m.body))) /\ Stoul(Decimal(Len(m.body))) = Len(m.body)
    BY <1>3, DecimalIsNumber
  <1> QED
    BY <1>2, <1>4

\* A turn on the body.
LEMMA BodyReads ==
  ASSUME NEW p \in Parsers, NEW w \in Texts, NEW m, OneMessage(m),
         p.state = "Body", Reads(p, w, m)
  PROVE  /\ Reads(ParseBody(p), w, m)
         /\ WellFormed(m) /\ w = <<>> => ParseBody(p).state = "Complete"
  <1> DEFINE b == p.buffer
             h == p.request.headers
             cl == Get(p.request.headers, "content-length")
             said == Get(HeadersOf(m.fields), "content-length")
             n == Stoul(cl)
  <1>1. /\ b \in Texts /\ m.body \in Texts /\ h \in Fields /\ p.request \in Requests
        /\ Len(b) \in Nat /\ Len(m.body) \in Nat /\ Len(w) \in Nat
    BY ParserParts, LenProperties DEF Texts, OneMessage, TextMessage, Requests
  <1>2. b \o w = m.body /\ RequiresBody(p.request.method)
    BY DEF Reads
  <1>3. Proper(m) => Said(p.request, m) /\ cl = said
    BY DEF Reads
  <1>4. Len(m.body) = Len(b) + Len(w)
    <2> HIDE DEF b
    <2> QED
      BY <1>1, <1>2, ConcatProperties DEF Texts
  <1>5. m.body # <<>> => cl # <<>> /\ n >= Len(m.body)
    BY <1>3 DEF OneMessage
  <1>6. WellFormed(m) /\ cl # <<>> => IsNumber(cl) /\ n = Len(m.body) /\ n <= MaxBodyBytes
    <2> SUFFICES ASSUME WellFormed(m), cl # <<>>
                 PROVE  IsNumber(cl) /\ n = Len(m.body) /\ n <= MaxBodyBytes
      OBVIOUS
    <2>1. Proper(m)
      BY DEF WellFormed
    <2>2. cl = said /\ RequiresBody(Spelled[m.method])
      BY <1>2, <1>3, <2>1 DEF Said
    <2> QED
      BY <2>2, BodyDue
  <1>7. WellFormed(m) => /\ p.request.method = Spelled[m.method] /\ p.request.target = m.target
                         /\ p.request.version = <<"HTTP/", m.version>> /\ p.request.body = <<>>
                         /\ p.request.headers = HeadersOf(m.fields)
    BY DEF WellFormed, Reads, Said
  <1>8. CASE cl = <<>>
    <2> DEFINE q == [p EXCEPT !.state = "Complete"]
    <2>1. ParseBody(p) = q
      BY <1>8 DEF ParseBody
    <2>2. m.body = <<>>
      BY <1>5, <1>8
    <2>3. q.state = "Complete" /\ q.buffer = b /\ q.request = p.request
      BY DEF Parsers
    <2>4. WellFormed(m) => p.request = Meaning(m)
      BY <1>1, <1>7, <2>2 DEF Meaning, Requests
    <2> HIDE DEF q
    <2>5. q.buffer \o w = <<>>
      BY <1>2, <2>2, <2>3
    <2> QED
      BY <2>1, <2>3, <2>4, <2>5 DEF Reads
  <1>9. CASE cl # <<>> /\ (~IsNumber(cl) \/ n > MaxBodyBytes)
    <2>1. ParseBody(p) = SetError(p)
      BY <1>9 DEF ParseBody
    <2>2. SetError(p).state = "Error"
      BY DEF SetError, Parsers
    <2>3. ~WellFormed(m)
      <3>1. WellFormed(m) => IsNumber(cl) /\ n <= MaxBodyBytes /\ n = Len(m.body)
        BY <1>6, <1>9
      <3> HIDE DEF n, cl
      <3> QED
        BY <1>1, <1>9, <3>1, LimitsAssumption
    <2> QED
      BY <2>1, <2>2, <2>3 DEF Reads
  <1>10. CASE cl # <<>> /\ IsNumber(cl) /\ ~(n > MaxBodyBytes)
    <2>1. cl \in Texts
      BY <1>1, GetTyped
    <2>2. n \in Nat
      <3>1. n \in (0..9) \cup {Wrapped}
        BY <1>10, StoulIsNumber
      <3> HIDE DEF n
      <3> QED
        BY <3>1 DEF Wrapped
    <2>3. Len(b) <= Len(m.body) /\ (w = <<>> => Len(b) = Len(m.body)) /\ Len(m.body) <= n
      <3>1. w = <<>> => Len(w) = 0
        BY EmptySeq
      <3>2. m.body = <<>> => Len(m.body) = 0
        BY EmptySeq
      <3> HIDE DEF b, n
      <3> QED
        BY <1>1, <1>4, <1>5, <2>2, <3>1, <3>2
    <2>4. CASE Len(b) < n
      <3>1. ParseBody(p) = p
        BY <1>10, <2>4 DEF ParseBody
      <3>2. ~(WellFormed(m) /\ w = <<>>)
        <4> HIDE DEF b, n, cl
        <4> QED
          BY <1>1, <1>6, <1>10, <2>2, <2>3, <2>4
      <3> QED
        BY <3>1, <3>2
    <2>5. CASE ~(Len(b) < n)
      <3> DEFINE rest == ConsumeBytes(p, n)
                 q == [rest EXCEPT !.state = "Complete", !.request.body = SubSeq(b, 1, n)]
      <3>1. n = Len(b) /\ Len(m.body) = Len(b) /\ Len(w) = 0
        <4> HIDE DEF b, n
        <4> QED
          BY <1>1, <1>4, <2>2, <2>3, <2>5
      <3>2. w = <<>>
        BY <3>1, EmptySeq DEF Texts
      <3>3. SubSeq(b, 1, n) = m.body
        <4>1. b = m.body
          <5> HIDE DEF b
          <5> QED
            BY <1>1, <1>2, <3>2, ConcatEmptySeq DEF Texts
        <4> QED
          BY <1>1, <3>1, <4>1, SubSeqFull DEF Texts
      <3>4. ParseBody(p) = q
        BY <1>10, <2>5 DEF ParseBody
      <3>5. rest \in Parsers /\ rest.buffer = SubSeq(b, n + 1, Len(b)) /\ rest.request = p.request
        <4>1. n \in 0..Len(b)
          BY <1>1, <3>1
        <4> HIDE DEF n
        <4> QED
          BY <4>1, ConsumedParts
      <3>6. SubSeq(b, n + 1, Len(b)) = <<>>
        <4> HIDE DEF b, n
        <4> QED
          BY <1>1, <3>1, SubSeqEmpty
      <3> HIDE DEF rest, n, b
      <3>7. /\ q.state = "Complete" /\ q.buffer = rest.buffer
            /\ q.request.method = p.request.method /\ q.request.target = p.request.target
            /\ q.request.version = p.request.version /\ q.request.headers = p.request.headers
            /\ q.request.body = SubSeq(b, 1, n)
        BY <3>5 DEF Parsers, Requests
      <3>8. q.request \in Requests
        BY <1>1, <3>3, <3>5 DEF Parsers, Requests
      <3> HIDE DEF q
      <3>9. WellFormed(m) => q.request = Meaning(m)
        BY <1>7, <3>3, <3>7, <3>8 DEF Meaning, Requests
      <3>10. q.buffer \o w = <<>>
        BY <3>2, <3>5, <3>6, <3>7, ConcatEmptySeq, EmptySeq
      <3> QED
        BY <3>4, <3>7, <3>9, <3>10 DEF Reads
    <2> QED
      BY <2>4, <2>5
  <1> QED
    BY <1>8, <1>9, <1>10

\* Every turn keeps to the message; with all of it here, it completes the request
\* or takes two symbols.
LEMMA TurnReads ==
  ASSUME NEW p \in Parsers, NEW w \in Texts, NEW m, OneMessage(m), Reads(p, w, m)
  PROVE  /\ Reads(Turn(p), w, m)
         /\ WellFormed(m) /\ w = <<>> =>
              Turn(p).state = "Complete" \/ Len(Turn(p).buffer) + 2 <= Len(p.buffer)
  <1>1. p.state \in ParserStates
    BY DEF Parsers
  <1>2. CASE p.state = "RequestLine"
    <2>1. Turn(p) = ParseRequestLine(p)
      BY <1>2 DEF Turn
    <2> QED
      BY <1>2, <2>1, RequestLineReads DEF Advances
  <1>3. CASE p.state = "Headers"
    <2>1. Turn(p) = ParseHeader(p)
      BY <1>3 DEF Turn
    <2> QED
      BY <1>3, <2>1, HeaderReads DEF Advances
  <1>4. CASE p.state = "Body"
    <2>1. Turn(p) = ParseBody(p)
      BY <1>4 DEF Turn
    <2> QED
      BY <1>4, <2>1, BodyReads
  <1>5. CASE p.state \in {"Complete", "Error"}
    <2>1. Turn(p) = p
      BY <1>5 DEF Turn
    <2>2. WellFormed(m) => p.state = "Complete"
      BY <1>5 DEF Reads
    <2> QED
      BY <2>1, <2>2
  <1> QED
    BY <1>1, <1>2, <1>3, <1>4, <1>5 DEF ParserStates

\* The turns that feed() takes are enough for a promised message.
LEMMA TurnsRead ==
  ASSUME NEW p \in Parsers, NEW w \in Texts, NEW m, OneMessage(m), Reads(p, w, m)
  PROVE  /\ Turns(p) \in Parsers /\ Reads(Turns(p), w, m)
         /\ WellFormed(m) /\ w = <<>> => Turns(p).state = "Complete"
  <1> DEFINE T == {q \in Parsers : Reads(q, w, m)}
             L == Len(p.buffer)
             N == 3 + L \div 2
  <1>1. \A q \in T : Turn(q) \in T
    BY TurnTyped, TurnReads
  <1>2. L \in Nat
    BY ParserParts, LenProperties DEF Texts
  <1>3. p \in T /\ T \subseteq Parsers /\ \A q \in T : Reads(q, w, m)
    OBVIOUS
  <1>4. N \in Nat /\ N \in 0..N
    BY <1>2, TurnCount, Zenon
  <1>5. 2 * N > L
    <2> DEFINE h == L \div 2
    <2>1. h \in Nat /\ 2 * h + 1 >= L
      <3>1. \A n \in Nat : n \div 2 \in Nat /\ 2 * (n \div 2) + 1 >= n
        OBVIOUS
      <3> QED
        BY <1>2, <3>1, Zenon
    <2> HIDE DEF h
    <2>2. 2 * (3 + h) > L
      BY <1>2, <2>1
    <2> QED
      BY <2>2 DEF h
  <1> HIDE DEF T
  <1>6. PICK after \in [0..N -> T] :
          /\ after[0] = p
          /\ \A n \in 1..N : after[n] = Turn(after[n - 1])
          /\ Turns(p) = after[N]
    BY <1>1, <1>2, <1>3, TurnsFollow
  <1> HIDE DEF N
  <1>7. Turns(p) \in T
    BY <1>4, <1>6
  <1>8. ASSUME WellFormed(m), w = <<>> PROVE Turns(p).state = "Complete"
    <2> DEFINE Length(n) == Len(after[n].buffer)
               S == {n \in 0..N : after[n].state = "Complete" \/ 2 * n + Length(n) <= L}
    <2>1. \A n \in 0..N : after[n] \in Parsers /\ Reads(after[n], w, m) /\ Length(n) \in Nat
      <3> SUFFICES ASSUME NEW n \in 0..N
                   PROVE  after[n] \in Parsers /\ Reads(after[n], w, m) /\ Length(n) \in Nat
        OBVIOUS
      <3>1. after[n] \in Parsers /\ Reads(after[n], w, m)
        BY <1>3, <1>6
      <3>2. after[n].buffer \in Seq(Symbols)
        BY <3>1, ParserParts DEF Texts
      <3> QED
        BY <3>1, <3>2, LenProperties
    <2>2. 0 \in S
      <3>1. 0 \in 0..N /\ Length(0) = L
        BY <1>4, <1>6
      <3> HIDE DEF Length
      <3>2. 2 * 0 + Length(0) <= L
        BY <1>2, <3>1
      <3> QED
        BY <3>1, <3>2
    <2>3. ASSUME NEW n \in 0..(N - 1), n \in S PROVE n + 1 \in S
      <3>1. n \in 0..N /\ n + 1 \in 0..N /\ n + 1 \in 1..N /\ (n + 1) - 1 = n /\ n \in Nat
        BY <1>4
      <3>2. after[n + 1] = Turn(after[n])
        BY <1>6, <3>1
      <3>3. after[n] \in Parsers /\ Reads(after[n], w, m)
        BY <2>1, <3>1
      <3>4. CASE after[n].state = "Complete"
        <4>1. Turn(after[n]) = after[n]
          BY <3>4 DEF Turn
        <4> QED
          BY <3>1, <3>2, <3>4, <4>1
      <3>5. CASE after[n].state # "Complete"
        <4>1. Turn(after[n]).state = "Complete"
              \/ Len(Turn(after[n]).buffer) + 2 <= Len(after[n].buffer)
          BY <1>8, <3>3, TurnReads
        <4>2. after[n + 1].state = "Complete" \/ Length(n + 1) + 2 <= Length(n)
          BY <3>2, <4>1
        <4>3. 2 * n + Length(n) <= L /\ Length(n) \in Nat /\ Length(n + 1) \in Nat
          BY <2>1, <2>3, <3>1, <3>5
        <4> HIDE DEF Length
        <4>4. Length(n + 1) + 2 <= Length(n) => 2 * (n + 1) + Length(n + 1) <= L
          BY <1>2, <3>1, <4>3
        <4> QED
          BY <3>1, <4>2, <4>4
      <3> QED
        BY <3>4, <3>5
    <2> HIDE DEF S
    <2>4. \A n \in 0..N : n \in S
      BY <1>4, <2>2, <2>3, UpToInduction
    <2>5. after[N].state = "Complete" \/ 2 * N + Length(N) <= L
      BY <1>4, <2>4 DEF S
    <2>6. Length(N) \in Nat
      BY <1>4, <2>1
    <2> HIDE DEF Length
    <2>7. ~(2 * N + Length(N) <= L)
      BY <1>2, <1>4, <1>5, <2>6
    <2> QED
      BY <1>6, <2>5, <2>7
  <1> QED
    BY <1>7, <1>8 DEF T

\* A new parser has seen nothing of the message.
LEMMA FreshReads ==
  ASSUME NEW m, OneMessage(m)
  PROVE  Reads(FreshParser, Render(m), m)
  <1>1. Render(m) \in Texts
    BY LinesTyped DEF OneMessage
  <1>2. <<>> \o Render(m) = Render(m)
    BY <1>1, ConcatEmptySeq DEF Texts
  <1>3. /\ FreshParser.state = "RequestLine" /\ FreshParser.buffer = <<>>
        /\ FreshParser.request = EmptyRequest /\ FreshParser.count = 0 /\ FreshParser.total = 0
    BY DEF FreshParser
  <1> HIDE DEF FreshParser
  <1> QED
    BY <1>2, <1>3 DEF Reads

\* What has been read of a message does not depend on how it was cut.
LEMMA FeedReads ==
  ASSUME NEW p \in Parsers, NEW data \in Texts, NEW w \in Texts, NEW m, OneMessage(m),
         p.state \notin {"Complete", "Error"}, Reads(p, data \o w, m)
  PROVE  /\ Reads(Feed(p, data), w, m)
         /\ WellFormed(m) /\ w = <<>> => Feed(p, data).state = "Complete"
  <1> DEFINE b == p.buffer
             r == [p EXCEPT !.buffer = @ \o data]
  <1>1. b \in Texts /\ b \o data \in Texts
    BY ParserParts, ConcatProperties DEF Texts
  <1>2. Feed(p, data) = Turns(r)
    BY DEF Feed
  <1>3. r \in Parsers
    BY <1>1 DEF Parsers
  <1>4. /\ r.state = p.state /\ r.request = p.request /\ r.count = p.count /\ r.total = p.total
        /\ r.buffer = b \o data
    BY DEF Parsers
  <1>5. (b \o data) \o w = b \o (data \o w)
    <2> HIDE DEF b
    <2>1. Associates(b, data, w)
      BY <1>1, ConcatThree DEF Texts
    <2> QED
      BY <2>1 DEF Associates
  <1> HIDE DEF r
  <1>6. r.buffer \o w = p.buffer \o (data \o w)
    BY <1>4, <1>5
  <1>7. Reads(r, w, m)
    <2>1. \A j : AtHeader(p, data \o w, m, j) => AtHeader(r, w, m, j)
      BY <1>4, <1>6 DEF AtHeader
    <2> QED
      BY <1>4, <1>6, <2>1 DEF Reads
  <1> QED
    BY <1>2, <1>3, <1>7, TurnsRead

-----------------------------------------------------------------------------
(* Answers and their framing *)

ResponseFields == {"status", "headers", "body", "head"}

\* A new response has a Content-Length exactly when there is a body.
LEMMA NewResponseFields ==
  ASSUME NEW status, NEW n
  PROVE  LET r == NewResponse(status, n)
         IN /\ DOMAIN r = ResponseFields
            /\ r.status = status /\ r.body = n /\ ~r.head
            /\ n > 0 => /\ DOMAIN r.headers = {"content-length"}
                        /\ r.headers["content-length"] = Decimal(n)
            /\ ~(n > 0) => DOMAIN r.headers = {}
  <1> DEFINE r == NewResponse(status, n)
             with == SetHeader(NoHeaders, "content-length", Decimal(n))
             without == RemoveHeader(NoHeaders, "content-length")
  <1>1. DOMAIN r = ResponseFields /\ r.status = status /\ r.body = n
    BY DEF NewResponse, SetBody, ResponseFields
  <1>2. ~r.head
    BY DEF NewResponse, SetBody
  <1>3. r.headers = IF n > 0 THEN with ELSE without
    BY DEF NewResponse, SetBody
  <1>4. DOMAIN NoHeaders = {}
    BY DEF NoHeaders
  <1>5. DOMAIN with = {"content-length"} /\ with["content-length"] = Decimal(n)
    BY <1>4 DEF SetHeader
  <1>6. DOMAIN without = {}
    BY <1>4 DEF RemoveHeader, Restrict
  <1> HIDE DEF r, with, without
  <1>7. n > 0 => r.headers = with
    BY <1>3
  <1>8. ~(n > 0) => r.headers = without
    BY <1>3
  <1> QED
    BY <1>1, <1>2, <1>5, <1>6, <1>7, <1>8, Zenon DEF r

\* The connection policy is a header of its own.
LEMMA PolicyFields ==
  ASSUME NEW r, DOMAIN r = ResponseFields, NEW keep
  PROVE  LET p == SetPolicy(r, keep)
         IN /\ DOMAIN p = ResponseFields
            /\ p.status = r.status /\ p.body = r.body /\ (p.head <=> r.head)
            /\ DOMAIN p.headers = DOMAIN r.headers \cup {"connection"}
            /\ \A n \in DOMAIN r.headers : n # "connection" => p.headers[n] = r.headers[n]
  BY DEF SetPolicy, SetHeader, ResponseFields

\* What serialize writes of a response with a body: its Content-Length is the
\* length of the body, or there is no answer at all.
LEMMA SerializedBody ==
  ASSUME NEW r, NEW n, Serialize(r) # <<>>, ~r.head,
         "content-length" \in DOMAIN r.headers,
         r.headers["content-length"] = Decimal(n)
  PROVE  /\ Serialize(r)[1].status = r.status
         /\ Serialize(r)[1].body = r.body
         /\ Get(Serialize(r)[1].headers, "content-length") # <<>>
         /\ Stoul(Get(Serialize(r)[1].headers, "content-length")) = r.body
  <1>1. Get(r.headers, "content-length") = Decimal(n)
    BY DEF Get
  <1>2. Decimal(n) # <<>>
    BY DEF Decimal
  <1>3. IsValid(r)
    BY DEF Serialize
  <1>4. Stoul(Get(r.headers, "content-length")) = r.body
    BY <1>1, <1>2, <1>3 DEF IsValid
  <1> QED
    BY <1>1, <1>2, <1>3, <1>4 DEF Serialize

\* A text, or a file, that goes out with its length.
LEMMA SizedAnswer ==
  ASSUME NEW status, NEW n, n > 0, NEW keep,
         Serialize(SetPolicy(NewResponse(status, n), keep)) # <<>>
  PROVE  LET r == Serialize(SetPolicy(NewResponse(status, n), keep))[1]
         IN /\ r.status = status
            /\ Get(r.headers, "content-length") # <<>>
            /\ Stoul(Get(r.headers, "content-length")) = r.body
  <1> DEFINE new == NewResponse(status, n)
             r == SetPolicy(new, keep)
  <1>1. /\ DOMAIN new = ResponseFields /\ new.status = status /\ ~new.head
        /\ DOMAIN new.headers = {"content-length"}
        /\ new.headers["content-length"] = Decimal(n)
    BY NewResponseFields
  <1> HIDE DEF new
  <1>2. /\ r.status = status /\ ~r.head
        /\ "content-length" \in DOMAIN r.headers
        /\ r.headers["content-length"] = Decimal(n)
    BY <1>1, PolicyFields
  <1>3. Serialize(r) # <<>>
    BY DEF new
  <1> HIDE DEF r
  <1>4. /\ Serialize(r)[1].status = status
        /\ Get(Serialize(r)[1].headers, "content-length") # <<>>
        /\ Stoul(Get(Serialize(r)[1].headers, "content-length")) = Serialize(r)[1].body
    BY <1>2, <1>3, SerializedBody
  <1> QED
    BY <1>4, Zenon DEF r, new

\* Nothing is written before there is an answer, and a request that was
\* forwarded is one the upstream is still to answer or has answered.
AnswersInTurn ==
  /\ phase \in {"reading", "proxying", "working"} => out = <<>>
  /\ phase \in {"reading", "working"} => forwarded = <<>>
  /\ phase = "proxying" => forwarded # <<>>

\* A file that is served has bytes, and every other end of serve_file is an error.
JobFields == {"pc", "target", "root", "path", "found", "status", "size", "served"}
JobSettles ==
  /\ DOMAIN job = JobFields
  /\ job.pc = "done" => \/ job.status = 200 /\ job.size > 0
                        \/ job.status \in {400, 403, 404, 500}

FramingInv == AnswersInTurn /\ JobSettles /\ BodiesDelimited

\* A serialized answer of the server's own, to anything but HEAD.
LEMMA OwnAnswerDelimited ==
  ASSUME NEW status, NEW n, n > 0, NEW keep, NEW req,
         AnswerWith(SetPolicy(NewResponse(status, n), keep)),
         status \notin {101, 204, 304},
         request' = <<req>>, req.method # "HEAD"
  PROVE  BodiesDelimited'
  <1> SUFFICES ASSUME out' # <<>>
               PROVE  ClientReads(request[1].method, out[1])' = <<out[1].body>>'
    BY DEF BodiesDelimited
  <1>1. out' = Serialize(SetPolicy(NewResponse(status, n), keep))
    BY DEF AnswerWith
  <1>2. /\ out'[1].status = status
        /\ Get(out'[1].headers, "content-length") # <<>>
        /\ Stoul(Get(out'[1].headers, "content-length")) = out'[1].body
    BY <1>1, SizedAnswer
  <1> QED
    BY <1>2 DEF ClientReads

\* An error of the server's own, whatever the method.
LEMMA OwnErrorDelimited ==
  ASSUME NEW status \in Nat, status >= 400, NEW n, n > 0, NEW keep, NEW req,
         AnswerWith(SetPolicy(NewResponse(status, n), keep)),
         request' = <<req>>, forwarded' = <<>>
  PROVE  BodiesDelimited'
  <1>1. CASE req.method # "HEAD"
    <2>1. status \notin {101, 204, 304}
      OBVIOUS
    <2> QED
      BY <1>1, <2>1, OwnAnswerDelimited
  <1>2. CASE req.method = "HEAD"
    <2>1. out' # <<>> => out'[1].status = status
      BY SizedAnswer DEF AnswerWith
    <2> QED
      BY <1>2, <2>1 DEF BodiesDelimited
  <1> QED
    BY <1>1, <1>2

\* evaluate_upgrade gives one of its own verdicts.
LEMMA UpgradeVerdicts ==
  ASSUME NEW req, NEW c
  PROVE  EvaluateUpgrade(req, c) \in {"Accepted", "NotAnUpgrade"} \cup DOMAIN RejectionStatus
  <1> DEFINE checks == UpgradeChecks(req, c)
             I == {i \in 1..Len(checks) : ~checks[i].pass}
  <1>1. Len(checks) = 8
    BY DEF UpgradeChecks
  <1>2. \A i \in 1..8 : checks[i].verdict \in {"NotAnUpgrade"} \cup DOMAIN RejectionStatus
    BY DEF UpgradeChecks, RejectionStatus
  <1>3. EvaluateUpgrade(req, c) = IF I = {} THEN "Accepted" ELSE checks[Min(I)].verdict
    <2>1. EvaluateUpgrade(req, c) =
            IF (IF I # {} THEN Min(I) ELSE 0) = 0 THEN "Accepted"
            ELSE checks[IF I # {} THEN Min(I) ELSE 0].verdict
      BY Zenon DEF EvaluateUpgrade, SelectInSeq
    <2>2. I # {} => Min(I) # 0
      <3> SUFFICES ASSUME I # {} PROVE Min(I) # 0
        OBVIOUS
      <3> QED
        BY <1>1, MinOfNat
    <2> QED
      BY <2>1, <2>2
  <1>4. I # {} => Min(I) \in 1..8
    BY <1>1, MinOfNat
  <1> HIDE DEF I, checks
  <1> QED
    BY <1>2, <1>3, <1>4

\* build_proxy_response: a response to HEAD is marked as one; another has its
\* length when it has a body.
LEMMA ProxyResponseFields ==
  ASSUME NEW o, NEW keep, o.status \in DOMAIN FailureStatus \cup {"Success"},
         o.status = "Success" => o.body \in Nat
  PROVE  LET r == BuildProxyResponse(o, keep, TextBytes)
         IN /\ r.head <=> o.head
            /\ r.status = IF o.status = "Success" THEN o.code ELSE FailureStatus[o.status]
            /\ ~o.head => \/ o.status = "Success" /\ r.body = o.body /\ o.body = 0
                          \/ /\ o.status = "Success" => o.body # 0
                             /\ "content-length" \in DOMAIN r.headers
                             /\ \E n : r.headers["content-length"] = Decimal(n)
  <1> DEFINE r == BuildProxyResponse(o, keep, TextBytes)
  <1>1. CASE o.status = "Success"
    <2> DEFINE new == NewResponse(o.code, o.body)
               full == [new EXCEPT !.headers = Overlay(RelayedHeaders(o.headers), @)]
               mine == IF o.head THEN RelayHead(full, o.headers) ELSE full
    <2>1. r = SetPolicy(mine, keep)
      BY <1>1, Zenon DEF BuildProxyResponse
    <2>2. /\ DOMAIN new = ResponseFields /\ new.status = o.code /\ new.body = o.body /\ ~new.head
          /\ o.body > 0 => /\ DOMAIN new.headers = {"content-length"}
                           /\ new.headers["content-length"] = Decimal(o.body)
      BY NewResponseFields
    <2> HIDE DEF new
    <2>3. /\ DOMAIN full = ResponseFields /\ full.status = o.code /\ full.body = o.body /\ ~full.head
          /\ full.headers = Overlay(RelayedHeaders(o.headers), new.headers)
      BY <2>2 DEF ResponseFields
    <2>4. "content-length" \notin DOMAIN RelayedHeaders(o.headers)
      BY DEF RelayedHeaders, RestrictDomain, Restrict
    <2>5. o.body > 0 => /\ "content-length" \in DOMAIN full.headers
                        /\ full.headers["content-length"] = Decimal(o.body)
      BY <2>2, <2>3, <2>4 DEF Overlay
    <2> HIDE DEF full
    <2>6. DOMAIN mine = ResponseFields /\ mine.status = o.code /\ (mine.head <=> o.head)
      BY <2>3 DEF RelayHead, ResponseFields
    <2>7. ~o.head => mine = full
      OBVIOUS
    <2> HIDE DEF mine
    <2>8. /\ r.status = o.code /\ r.body = mine.body /\ (r.head <=> o.head)
          /\ DOMAIN r.headers = DOMAIN mine.headers \cup {"connection"}
          /\ \A n \in DOMAIN mine.headers : n # "connection" => r.headers[n] = mine.headers[n]
      BY <2>1, <2>6, PolicyFields
    <2>9. o.body > 0 \/ o.body = 0
      BY <1>1
    <2>10. ~o.head /\ o.body > 0 => /\ o.body # 0
                                    /\ "content-length" \in DOMAIN r.headers
                                    /\ r.headers["content-length"] = Decimal(o.body)
      BY <1>1, <2>5, <2>7, <2>8
    <2>11. ~o.head /\ o.body = 0 => r.body = o.body
      BY <2>3, <2>7, <2>8
    <2> HIDE DEF r
    <2> QED
      BY <1>1, <2>8, <2>9, <2>10, <2>11 DEF r
  <1>2. CASE o.status # "Success"
    <2> DEFINE new == NewResponse(FailureStatus[o.status], TextBytes)
               mine == [new EXCEPT !.head = o.head]
    <2>1. r = SetPolicy(mine, FALSE)
      BY <1>2, Zenon DEF BuildProxyResponse
    <2>2. /\ DOMAIN new = ResponseFields /\ new.status = FailureStatus[o.status]
          /\ DOMAIN new.headers = {"content-length"}
          /\ new.headers["content-length"] = Decimal(TextBytes)
      BY NewResponseFields DEF TextBytes
    <2> HIDE DEF new
    <2>3. /\ DOMAIN mine = ResponseFields /\ mine.status = FailureStatus[o.status]
          /\ (mine.head <=> o.head) /\ mine.headers = new.headers
      BY <2>2 DEF ResponseFields
    <2> HIDE DEF mine
    <2>4. ASSUME NEW k
          PROVE  /\ SetPolicy(mine, k).status = FailureStatus[o.status]
                 /\ SetPolicy(mine, k).head <=> o.head
                 /\ "content-length" \in DOMAIN SetPolicy(mine, k).headers
                 /\ SetPolicy(mine, k).headers["content-length"] = Decimal(TextBytes)
      BY <2>2, <2>3, PolicyFields
    <2>5. /\ r.status = FailureStatus[o.status] /\ (r.head <=> o.head)
          /\ "content-length" \in DOMAIN r.headers
          /\ r.headers["content-length"] = Decimal(TextBytes)
      BY <2>1, <2>4, Zenon
    <2> HIDE DEF r
    <2> QED
      BY <1>2, <2>5 DEF r
  <1> QED
    BY <1>1, <1>2

\* The upstream's answer, or the error in its place.
LEMMA RelayedDelimited ==
  ASSUME NEW o \in Outcomes, UpstreamSettles(o), AnswersInTurn
  PROVE  BodiesDelimited'
  <1> DEFINE head == request[1].method = "HEAD"
             outcome == [o EXCEPT !.head = head, !.body = IF head THEN 0 ELSE @]
             r == BuildProxyResponse(outcome, keepAlive, TextBytes)
  <1> SUFFICES ASSUME out' # <<>> PROVE BodiesDelimited'
    BY DEF BodiesDelimited
  <1>1. out' = Serialize(r) /\ request' = request /\ forwarded' = forwarded /\ forwarded # <<>>
    BY Zenon DEF UpstreamSettles, AnswerWith, AnswersInTurn, exchangeVars
  <1>2. DOMAIN o = {"status", "code", "headers", "body", "head"}
    BY OutcomesAssumption DEF Outcome
  <1>3. /\ outcome.status = o.status /\ outcome.code = o.code
        /\ (outcome.head <=> head) /\ outcome.body = IF head THEN 0 ELSE o.body
    BY <1>2
  <1>4. /\ o.status \in DOMAIN FailureStatus \cup {"Success"}
        /\ o.status = "Success" => o.body \in Nat /\ o.code # 101
        /\ o.status = "Success" /\ o.code \in {204, 304} => o.body = 0
    BY OutcomesAssumption
  <1> HIDE DEF outcome
  <1>41. outcome.status = "Success" => outcome.body \in Nat
    BY <1>3, <1>4
  <1>5. /\ r.head <=> head
        /\ r.status = IF o.status = "Success" THEN o.code ELSE FailureStatus[o.status]
        /\ ~head => \/ o.status = "Success" /\ r.body = o.body /\ o.body = 0
                    \/ /\ o.status = "Success" => o.body # 0
                       /\ "content-length" \in DOMAIN r.headers
                       /\ \E n : r.headers["content-length"] = Decimal(n)
    <2>1. /\ r.head <=> outcome.head
          /\ r.status = IF outcome.status = "Success" THEN outcome.code ELSE FailureStatus[outcome.status]
          /\ ~outcome.head =>
               \/ outcome.status = "Success" /\ r.body = outcome.body /\ outcome.body = 0
               \/ /\ outcome.status = "Success" => outcome.body # 0
                  /\ "content-length" \in DOMAIN r.headers
                  /\ \E n : r.headers["content-length"] = Decimal(n)
      BY <1>3, <1>4, <1>41, ProxyResponseFields
    <2> HIDE DEF r
    <2> QED
      BY <2>1, <1>3
  <1> HIDE DEF r
  <1>6. CASE head
    <2>1. out'[1].body = 0
      BY <1>1, <1>5, <1>6 DEF Serialize
    <2>2. ClientReads(request[1].method, out[1])' = <<0>>
      BY <1>1, <1>6 DEF ClientReads
    <2> QED
      BY <2>1, <2>2 DEF BodiesDelimited
  <1>7. CASE ~head /\ o.status = "Success" /\ r.body = o.body /\ o.body = 0
    <2>1. out'[1].body = 0
      BY <1>1, <1>5, <1>7 DEF Serialize
    <2> QED
      BY <1>1, <1>7, <2>1 DEF BodiesDelimited
  <1>8. CASE ~head /\ ~(o.status = "Success" /\ r.body = o.body /\ o.body = 0)
    <2>1. PICK n : r.headers["content-length"] = Decimal(n)
      BY <1>5, <1>8
    <2>2. /\ out'[1].status = r.status /\ out'[1].body = r.body
          /\ Get(out'[1].headers, "content-length") # <<>>
          /\ Stoul(Get(out'[1].headers, "content-length")) = r.body
      BY <1>1, <1>5, <1>8, <2>1, SerializedBody
    <2>3. r.status \notin {101, 204, 304}
      <3>1. CASE o.status = "Success"
        BY <1>4, <1>5, <1>8, <3>1
      <3>2. CASE o.status # "Success"
        <4>1. r.status = FailureStatus[o.status] /\ o.status \in DOMAIN FailureStatus
          BY <1>4, <1>5, <3>2
        <4> QED
          BY <4>1 DEF FailureStatus
      <3> QED
        BY <3>1, <3>2
    <2>4. ClientReads(request[1].method, out[1])' = <<r.body>>
      BY <1>1, <1>8, <2>2, <2>3 DEF ClientReads
    <2> QED
      BY <2>2, <2>4 DEF BodiesDelimited
  <1> QED
    BY <1>6, <1>7, <1>8

\* Every way to dispatch a request keeps the invariant.
LEMMA DispatchFramed ==
  ASSUME FramingInv, phase = "reading", NEW req, Dispatch(req)
  PROVE  FramingInv'
  <1>1. request' = <<req>> /\ out = <<>> /\ forwarded = <<>> /\ JobSettles
    BY DEF Dispatch, FramingInv, AnswersInTurn
  <1>2. CASE AnswerRoute(req)
    <2>1. req.method # "HEAD"
      BY <1>2 DEF AnswerRoute, HasRoute, Routes
    <2>2. PICK status, keep : /\ status \in {200, 400, 401, 404}
                              /\ AnswerWith(SetPolicy(NewResponse(status, TextBytes), keep))
      <3>1. PICK status \in IF IsAdmin(req) THEN AdminStatuses(req) ELSE {200} :
              AnswerWith(SetPolicy(NewResponse(status, TextBytes), TRUE))
        BY <1>2, Zenon DEF AnswerRoute
      <3>2. status \in {200, 400, 401, 404}
        BY DEF AdminStatuses
      <3> DEFINE keep == TRUE
      <3>3. AnswerWith(SetPolicy(NewResponse(status, TextBytes), keep))
        BY <3>1
      <3> HIDE DEF keep
      <3> QED
        BY <3>2, <3>3
    <2>3. forwarded' = forwarded /\ job' = job
      BY <1>2 DEF AnswerRoute
    <2>4. status \notin {101, 204, 304} /\ TextBytes > 0
      BY <2>2 DEF TextBytes
    <2>5. BodiesDelimited'
      BY <1>1, <2>1, <2>2, <2>4, OwnAnswerDelimited
    <2> QED
      BY <1>1, <2>2, <2>3, <2>5 DEF FramingInv, AnswersInTurn, JobSettles, AnswerWith
  <1>3. CASE AnswerUpgrade(req)
    <2>1. forwarded' = forwarded /\ job' = job
      BY <1>3 DEF AnswerUpgrade
    <2>2. phase' \in {"writing", "closed"}
      BY <1>3 DEF AnswerUpgrade, AnswerWith
    <2>3. CASE EvaluateUpgrade(req, cfg) = "Accepted"
      <3>1. out' = <<SwitchingProtocols>>
        BY <1>3, <2>3 DEF AnswerUpgrade
      <3>2. SwitchingProtocols.status = 101 /\ SwitchingProtocols.body = 0
        BY DEF SwitchingProtocols
      <3>3. ClientReads(request[1].method, out[1])' = <<0>>
        BY <3>1, <3>2 DEF ClientReads
      <3> QED
        BY <1>1, <2>1, <2>2, <3>1, <3>2, <3>3
           DEF FramingInv, AnswersInTurn, JobSettles, BodiesDelimited
    <2>4. CASE EvaluateUpgrade(req, cfg) # "Accepted"
      <3>1. PICK verdict \in DOMAIN RejectionStatus : AnswerWith(RejectionResponse(verdict, TextBytes))
        BY <1>3, <2>4, UpgradeVerdicts DEF AnswerUpgrade
      <3>2. PICK status \in Nat : status = RejectionStatus[verdict] /\ status >= 400
        BY DEF RejectionStatus
      <3>3. AnswerWith(SetPolicy(NewResponse(status, TextBytes), FALSE))
        BY <3>1, <3>2, Zenon DEF RejectionResponse
      <3>4. TextBytes > 0
        BY DEF TextBytes
      <3>5. \A keep : AnswerWith(SetPolicy(NewResponse(status, TextBytes), keep)) => BodiesDelimited'
        BY <1>1, <2>1, <3>2, <3>4, OwnErrorDelimited
      <3>6. BodiesDelimited'
        BY <3>3, <3>5, Zenon
      <3> QED
        BY <1>1, <2>1, <2>2, <3>6 DEF FramingInv, AnswersInTurn, JobSettles
    <2> QED
      BY <2>3, <2>4
  <1>4. CASE RefuseProxy(req)
    <2>1. forwarded' = forwarded /\ job' = job
      BY <1>4 DEF RefuseProxy
    <2>2. PICK why \in {"NotConfigured", "BadGateway"} :
            AnswerWith(BuildProxyResponse([status |-> why, head |-> FALSE], keepAlive', TextBytes))
      BY <1>4, Zenon DEF RefuseProxy
    <2>3. PICK status \in Nat : status = FailureStatus[why] /\ status >= 400
      BY DEF FailureStatus
    <2> DEFINE o == [status |-> why, head |-> FALSE]
               r == BuildProxyResponse(o, keepAlive', TextBytes)
    <2>4. o.status = why /\ ~o.head
      OBVIOUS
    <2>5. why \in DOMAIN FailureStatus /\ why # "Success"
      BY DEF FailureStatus
    <2>6. out' = Serialize(r) /\ phase' \in {"writing", "closed"}
      BY <2>2 DEF AnswerWith
    <2> HIDE DEF o
    <2>7. /\ ~r.head /\ r.status = status
          /\ "content-length" \in DOMAIN r.headers
          /\ \E n : r.headers["content-length"] = Decimal(n)
      BY <2>3, <2>4, <2>5, ProxyResponseFields
    <2> HIDE DEF r
    <2>8. BodiesDelimited'
      <3> SUFFICES ASSUME out' # <<>> PROVE BodiesDelimited'
        BY DEF BodiesDelimited
      <3>1. PICK n : r.headers["content-length"] = Decimal(n)
        BY <2>7
      <3>2. /\ out'[1].status = status /\ out'[1].body = r.body
            /\ Get(out'[1].headers, "content-length") # <<>>
            /\ Stoul(Get(out'[1].headers, "content-length")) = r.body
        BY <2>6, <2>7, <3>1, SerializedBody
      <3>3. status \notin {101, 204, 304}
        BY <2>3
      <3>4. CASE req.method = "HEAD"
        BY <1>1, <2>1, <2>3, <3>2, <3>4 DEF BodiesDelimited
      <3>5. CASE req.method # "HEAD"
        <4>1. ClientReads(request[1].method, out[1])' = <<r.body>>
          BY <1>1, <3>2, <3>3, <3>5 DEF ClientReads
        <4> QED
          BY <3>2, <4>1 DEF BodiesDelimited
      <3> QED
        BY <3>4, <3>5
    <2> QED
      BY <1>1, <2>1, <2>6, <2>8 DEF FramingInv, AnswersInTurn, JobSettles
  <1>5. CASE StartProxy(req)
    <2>1. out' = <<>> /\ forwarded' # <<>> /\ phase' = "proxying" /\ job' = job
      BY <1>1, <1>5 DEF StartProxy
    <2> QED
      BY <1>1, <2>1 DEF FramingInv, AnswersInTurn, JobSettles, BodiesDelimited
  <1>6. CASE StartFile(req)
    <2>1. out' = <<>> /\ forwarded' = <<>> /\ phase' \in {"working", "closed"}
      BY <1>1, <1>6 DEF StartFile
    <2>2. JobSettles'
      <3>1. CASE job' = NewJob(cfg.root, req.target)
        <4>1. DOMAIN NewJob(cfg.root, req.target) = JobFields /\ NewJob(cfg.root, req.target).pc = "open"
          BY DEF NewJob, NoJob, JobFields
        <4> QED
          BY <3>1, <4>1 DEF JobSettles
      <3>2. CASE job' = job
        BY <1>1, <3>2 DEF JobSettles
      <3> QED
        BY <1>6, <3>1, <3>2, Zenon DEF StartFile
    <2> QED
      BY <2>1, <2>2 DEF FramingInv, AnswersInTurn, BodiesDelimited
  <1> QED
    BY <1>2, <1>3, <1>4, <1>5, <1>6 DEF Dispatch

\* Every step of serve_file, and what it can end with.
LEMMA FileSettlesOnce ==
  ASSUME JobSettles, StepFile
  PROVE  JobSettles'
  <1>1. ASSUME NEW s, Finish(s), s \in {400, 403, 404, 500} PROVE JobSettles'
    BY <1>1 DEF Finish, JobSettles, JobFields
  <1>2. ASSUME NEW s, Go(s), s # "done" PROVE JobSettles'
    BY <1>2 DEF Go, JobSettles, JobFields
  <1>3. CASE job.pc = "open"
    <2>1. Go("resolve") \/ Finish(500)
      BY <1>3, Zenon DEF StepFile
    <2> QED
      BY <1>1, <1>2, <2>1
  <1>4. CASE job.pc = "resolve"
    <2>1. \/ Finish(400)
          \/ job' = [job EXCEPT !.pc = "validate", !.path = ResolvePath(job.root, job.target)]
      BY <1>4 DEF StepFile
    <2>2. ASSUME NEW path, job' = [job EXCEPT !.pc = "validate", !.path = path] PROVE JobSettles'
      BY <2>2 DEF JobSettles, JobFields
    <2> QED
      BY <1>1, <2>1, <2>2, ZenonT(60)
  <1>8. CASE job.pc = "validate"
    <2>1. Finish(403) \/ job' = [job EXCEPT !.pc = "exists", !.found = Exists(job.path)]
      BY <1>8 DEF StepFile
    <2>2. ASSUME NEW f, job' = [job EXCEPT !.pc = "exists", !.found = f] PROVE JobSettles'
      BY <2>2 DEF JobSettles, JobFields
    <2> QED
      BY <1>1, <2>1, <2>2, ZenonT(60)
  <1>5. CASE job.pc \in {"exists", "directory", "regular"}
    <2>1. \/ \E s \in {403, 404} : Finish(s)
          \/ \E s \in {"directory", "regular", "read"} : Go(s)
      BY <1>5 DEF StepFile
    <2> QED
      BY <1>1, <1>2, <2>1
  <1>6. CASE job.pc = "read"
    <2>1. \/ Finish(500)
          \/ \E size, served : /\ size > 0
                               /\ job' = [job EXCEPT !.pc = "done", !.status = 200,
                                                     !.size = size, !.served = served]
      BY <1>6, ZenonT(30) DEF StepFile
    <2>2. ASSUME NEW size, NEW served, size > 0,
                 job' = [job EXCEPT !.pc = "done", !.status = 200, !.size = size, !.served = served]
          PROVE  JobSettles'
      <3>1. DOMAIN job' = JobFields /\ job'.status = 200 /\ job'.size = size
        BY <2>2 DEF JobSettles, JobFields
      <3> QED
        BY <2>2, <3>1 DEF JobSettles
    <2> QED
      BY <1>1, <2>1, <2>2, ZenonT(60)
  <1>7. job.pc \in {"open", "resolve", "validate", "exists", "directory", "regular", "read"}
    BY DEF StepFile
  <1> QED
    BY <1>3, <1>4, <1>5, <1>6, <1>7, <1>8

\* Every step keeps it.
LEMMA FramingStep == FramingInv /\ [Next]_vars => FramingInv'
  <1> SUFFICES ASSUME FramingInv, [Next]_vars PROVE FramingInv'
    OBVIOUS
  <1>1. AnswersInTurn /\ JobSettles /\ BodiesDelimited
    BY DEF FramingInv
  <1>2. ASSUME NEW m, Send(m) PROVE FramingInv'
    <2>1. phase' = phase /\ out' = out /\ forwarded' = forwarded /\ job' = job /\ out = <<>>
      BY <1>1, <1>2 DEF Send, exchangeVars, fileVars, AnswersInTurn
    <2> QED
      BY <1>1, <2>1 DEF FramingInv, AnswersInTurn, JobSettles, BodiesDelimited
  <1>3. CASE Leave
    <2>1. phase' = "closed" /\ out' = out /\ forwarded' = forwarded /\ job' = job /\ out = <<>>
      BY <1>1, <1>3 DEF Leave, exchangeVars, fileVars, AnswersInTurn
    <2> QED
      BY <1>1, <2>1 DEF FramingInv, AnswersInTurn, JobSettles, BodiesDelimited
  <1>4. ASSUME NEW n, Receive(n) PROVE FramingInv'
    <2>1. CASE Dispatch(parser'.request)
      BY <1>4, <2>1, DispatchFramed DEF Receive
    <2>2. CASE ~Dispatch(parser'.request)
      <3>1. /\ phase = "reading" /\ phase' \in {"reading", "closed"}
            /\ out' = out /\ forwarded' = forwarded /\ job' = job
        BY <1>4, <2>2 DEF Receive, exchangeVars
      <3> QED
        BY <1>1, <3>1 DEF FramingInv, AnswersInTurn, JobSettles, BodiesDelimited
    <2> QED
      BY <2>1, <2>2
  <1>5. ASSUME NEW o \in Outcomes, UpstreamSettles(o) PROVE FramingInv'
    <2>1. BodiesDelimited'
      BY <1>1, <1>5, RelayedDelimited
    <2>2. phase' \in {"writing", "closed"} /\ job' = job
      BY <1>5, Zenon DEF UpstreamSettles, AnswerWith, fileVars
    <2> QED
      BY <1>1, <2>1, <2>2 DEF FramingInv, AnswersInTurn, JobSettles
  <1>6. CASE Work
    <2>1. /\ phase = "working" /\ phase' = phase /\ out' = out /\ forwarded' = forwarded
      BY <1>6, Zenon DEF Work, exchangeVars
    <2>2. CASE StepFile
      <3>7. JobSettles'
        BY <1>1, <2>2, FileSettlesOnce
      <3> QED
        BY <1>1, <2>1, <3>7 DEF FramingInv, AnswersInTurn, BodiesDelimited
    <2>3. CASE job' = job
      BY <1>1, <2>1, <2>3 DEF FramingInv, AnswersInTurn, JobSettles, BodiesDelimited
    <2> QED
      BY <1>6, <2>2, <2>3, Zenon DEF Work, Withdraw, Deploy
  <1>7. CASE FileSettles
    <2>1. /\ phase = "working" /\ forwarded' = <<>> /\ job' = job
          /\ phase' \in {"writing", "closed"} /\ request' = request /\ job.pc = "done"
      BY <1>1, <1>7, Zenon DEF FileSettles, AnswerWith, AnswersInTurn, exchangeVars, fileVars
    <2> SUFFICES BodiesDelimited'
      BY <1>1, <2>1 DEF FramingInv, AnswersInTurn, JobSettles
    <2> DEFINE head == request[1].method = "HEAD"
    <2>2. CASE job.status = 200
      <3> DEFINE bytes == IF head THEN 0 ELSE job.size
                 new == NewResponse(200, bytes)
                 r == SetPolicy(new, keepAlive)
      <3>1. out' = Serialize(r)
        BY <1>7, <2>2, Zenon DEF FileSettles, AnswerWith
      <3>2. DOMAIN new = ResponseFields /\ new.status = 200 /\ new.body = bytes /\ ~new.head
        BY NewResponseFields
      <3>3. CASE head
        <4> HIDE DEF new
        <4>1. r.status = 200 /\ r.body = 0 /\ ~r.head
          BY <3>2, <3>3, PolicyFields
        <4> HIDE DEF r
        <4>2. out' # <<>> => out'[1].body = 0
          BY <3>1, <4>1 DEF Serialize
        <4> QED
          BY <2>1, <3>3, <4>2 DEF BodiesDelimited, ClientReads
      <3>4. CASE ~head
        <4>1. bytes > 0
          BY <1>1, <2>1, <2>2, <3>4 DEF JobSettles
        <4> HIDE DEF bytes
        <4>2. out' # <<>> => /\ out'[1].status = 200
                            /\ Get(out'[1].headers, "content-length") # <<>>
                            /\ Stoul(Get(out'[1].headers, "content-length")) = out'[1].body
          BY <3>1, <4>1, SizedAnswer
        <4> QED
          BY <2>1, <3>4, <4>2 DEF BodiesDelimited, ClientReads
      <3> QED
        BY <3>3, <3>4
    <2>3. CASE job.status # 200
      <3>1. PICK status \in Nat : status = job.status /\ status \in {400, 403, 404, 500}
        BY <1>1, <2>1, <2>3 DEF JobSettles
      <3>2. out' = Serialize(SetPolicy(NewResponse(status, TextBytes), FALSE))
        BY <1>7, <2>3, <3>1, SMT DEF FileSettles, AnswerWith
      <3>3. \A keep : LET s == Serialize(SetPolicy(NewResponse(status, TextBytes), keep))
                     IN s # <<>> => /\ s[1].status = status
                                    /\ Get(s[1].headers, "content-length") # <<>>
                                    /\ Stoul(Get(s[1].headers, "content-length")) = s[1].body
        BY SizedAnswer DEF TextBytes
      <3>4. out' # <<>> => /\ out'[1].status = status
                          /\ Get(out'[1].headers, "content-length") # <<>>
                          /\ Stoul(Get(out'[1].headers, "content-length")) = out'[1].body
        BY <3>2, <3>3, Zenon
      <3> QED
        BY <2>1, <3>1, <3>4 DEF BodiesDelimited, ClientReads
    <2> QED
      BY <2>2, <2>3
  <1>8. CASE Flush
    <2>1. CASE phase' = "reading"
      <3>1. out' = <<>> /\ forwarded' = <<>> /\ job' = NoJob
        BY <1>8, <2>1 DEF Flush
      <3> QED
        BY <3>1, <2>1 DEF FramingInv, AnswersInTurn, JobSettles, JobFields, NoJob, BodiesDelimited
    <2>2. CASE phase' # "reading"
      <3>1. /\ phase' \in {"frames", "closed"} /\ out' = out /\ forwarded' = forwarded /\ job' = job
            /\ request' = request /\ keepAlive' = keepAlive
        BY <1>8, <2>2 DEF Flush, exchangeVars
      <3> QED
        BY <1>1, <3>1 DEF FramingInv, AnswersInTurn, JobSettles, BodiesDelimited, ClientReads
    <2> QED
      BY <2>1, <2>2
  <1>9. CASE UNCHANGED vars
    BY <1>1, <1>9
       DEF vars, exchangeVars, fileVars, FramingInv, AnswersInTurn, JobSettles, BodiesDelimited, ClientReads
  <1> QED
    BY <1>2, <1>3, <1>4, <1>5, <1>6, <1>7, <1>8, <1>9 DEF Next, Gone

\* The client takes exactly the bytes the server writes, in every answer but the
\* two kinds that BodiesDelimited names: whatever the messages, the files and
\* the upstream's answers, Content-Length is absent or the length of the body.
THEOREM BodiesAlwaysDelimited == Spec => []BodiesDelimited
  <1>1. Init => FramingInv
    BY DEF Init, FramingInv, AnswersInTurn, JobSettles, JobFields, NoJob, BodiesDelimited
  <1>2. FramingInv => BodiesDelimited
    BY DEF FramingInv
  <1> QED
    BY <1>1, <1>2, FramingStep, PTL DEF Spec

-----------------------------------------------------------------------------
(* Everything that is read is text *)

\* The messages, over the prover's alphabet.
LEMMA MessageTyped ==
  ASSUME NEW m \in Messages \cup Followups
  PROVE  /\ m.method \in Symbols /\ m.version \in Symbols
         /\ m.target \in Texts /\ m.body \in Texts
         /\ m.fields \in Seq(Symbols \X Texts) /\ m.other \in Seq(Texts)
  <1>1. STRING \subseteq Symbols
    BY DEF Symbols
  <1>2. Seq(STRING) \subseteq Texts
    BY <1>1, SeqMonotonic DEF Texts
  <1>3. (STRING \X Seq(STRING)) \subseteq (Symbols \X Texts)
    BY <1>1, <1>2
  <1>4. m.fields \in Seq(Symbols \X Texts) /\ m.other \in Seq(Texts)
    BY <1>2, <1>3, TextAssumption, SeqMonotonic
  <1> QED
    BY <1>1, <1>2, <1>4, TextAssumption

LEMMA ConfigTyped ==
  ASSUME NEW c \in Configs
  PROVE  c.token \in Texts /\ c.source \in Texts /\ c.prefix \in Texts
  <1>1. STRING \subseteq Symbols
    BY DEF Symbols
  <1>2. Seq(STRING) \subseteq Texts
    BY <1>1, SeqMonotonic DEF Texts
  <1> QED
    BY <1>2, TextAssumption

\* They are messages as the parser's lemmas take them.
LEMMA MessageParts ==
  ASSUME NEW m \in Messages \cup Followups
  PROVE  TextMessage(m) /\ OneMessage(m) /\ Render(m) \in Texts
  <1> DEFINE line == RequestLine(m)
             h == HeaderLines(m)
             all == <<line>> \o h
  <1>1. TextMessage(m)
    BY MessageTyped DEF TextMessage
  <1>2. line \in Texts /\ h \in Seq(Texts) /\ Render(m) \in Texts
    BY <1>1, LinesTyped
  <1>3. \A l \in Range(all) : l # <<>> /\ "CR" \notin Range(l)
    BY HandlingAssumption
  <1>4. m.body # <<>> =>
          /\ Proper(m) /\ RequiresBody(Spelled[m.method])
          /\ Get(HeadersOf(m.fields), "content-length") # <<>>
          /\ Stoul(Get(HeadersOf(m.fields), "content-length")) >= Len(m.body)
    BY HandlingAssumption
  <1> HIDE DEF line, h
  <1>5. Len(h) \in Nat /\ DOMAIN all = 1..(Len(h) + 1) /\ all[1] = line /\ \A i \in 1..Len(h) : all[i + 1] = h[i]
    <2>1. <<line>> \in Seq(Texts) /\ Len(<<line>>) = 1 /\ <<line>>[1] = line
      BY <1>2
    <2>2. Len(h) \in Nat
      BY <1>2, LenProperties
    <2>3. /\ all \in Seq(Texts) /\ Len(all) = 1 + Len(h)
          /\ \A i \in 1..(1 + Len(h)) : all[i] = IF i <= 1 THEN <<line>>[i] ELSE h[i - 1]
      BY <1>2, <2>1, ConcatProperties
    <2> HIDE DEF all
    <2>4. DOMAIN all = 1..(Len(h) + 1)
      BY <2>2, <2>3, LenProperties
    <2>5. all[1] = line
      BY <2>1, <2>2, <2>3
    <2>6. ASSUME NEW i \in 1..Len(h) PROVE all[i + 1] = h[i]
      <3>1. i + 1 \in 1..(1 + Len(h)) /\ ~(i + 1 <= 1) /\ (i + 1) - 1 = i
        BY <2>2
      <3> QED
        BY <2>3, <3>1
    <2> QED
      BY <2>2, <2>4, <2>5, <2>6
  <1> HIDE DEF all
  <1>6. line \in Range(all) /\ \A i \in 1..Len(h) : h[i] \in Range(all)
    <2>1. 1 \in DOMAIN all /\ \A i \in 1..Len(h) : i + 1 \in DOMAIN all
      BY <1>5
    <2> QED
      BY <1>5, <2>1 DEF Range
  <1>7. \A l : "CR" \notin Range(l) => \A i \in DOMAIN l : l[i] # "CR"
    BY DEF Range
  <1>8. ASSUME NEW l \in Texts, l \in Range(all) PROVE l # <<>> /\ OneLine(l)
    <2>1. DOMAIN l = 1..Len(l)
      BY <1>8, LenProperties DEF Texts
    <2> QED
      BY <1>3, <1>7, <1>8, <2>1 DEF OneLine
  <1>9. OneLine(line) /\ \A i \in 1..Len(h) : h[i] # <<>> /\ OneLine(h[i])
    <2>1. \A i \in 1..Len(h) : h[i] \in Texts
      BY <1>2, ElementOfSeq
    <2> QED
      BY <1>2, <1>6, <1>8, <2>1
  <1>10. OneMessage(m)
    BY <1>1, <1>4, <1>9 DEF OneMessage, line, h
  <1> QED
    BY <1>1, <1>2, <1>10

\* What has been received and what is on its way is text.
TextInv == cfg \in Configs /\ parser \in Parsers /\ wire \in Texts

LEMMA ReceiveTyped ==
  ASSUME TextInv, NEW n \in Segments, Receive(n)
  PROVE  TextInv' /\ n \in 1..Len(wire) /\ Len(wire) \in Nat
  <1>1. wire \in Seq(Symbols) /\ Len(wire) \in Nat \ {0}
    BY EmptySeq DEF TextInv, Texts, Receive
  <1>2. n \in 1..Len(wire)
    BY <1>1 DEF Segments
  <1>3. SubSeq(wire, 1, n) \in Texts /\ SubSeq(wire, n + 1, Len(wire)) \in Texts
    <2>1. 1 \in 1..(Len(wire) + 1) /\ n \in 0..Len(wire) /\ n + 1 \in 1..(Len(wire) + 1)
          /\ Len(wire) \in 0..Len(wire)
      BY <1>1, <1>2
    <2> QED
      BY <1>1, <2>1, Stretch DEF Texts
  <1>4. parser' \in Parsers
    BY <1>3, FeedTyped, Zenon DEF Receive, TextInv
  <1> QED
    BY <1>1, <1>2, <1>3, <1>4 DEF Receive, TextInv

LEMMA TextStep == TextInv /\ [Next]_vars => TextInv'
  <1> SUFFICES ASSUME TextInv, [Next]_vars PROVE TextInv'
    OBVIOUS
  <1>1. ASSUME NEW m \in Messages \cup Followups, Send(m) PROVE TextInv'
    BY <1>1, MessageParts DEF Send, TextInv
  <1>2. ASSUME NEW n \in Segments, Receive(n) PROVE TextInv'
    BY <1>2, ReceiveTyped
  <1>3. CASE Flush
    BY <1>3, FreshParserTyped DEF Flush, TextInv
  <1>4. ASSUME NEW o \in Outcomes, UpstreamSettles(o) PROVE TextInv'
    BY <1>4, Zenon DEF UpstreamSettles, TextInv
  <1>5. CASE Leave \/ Work \/ FileSettles \/ UNCHANGED vars
    BY <1>5, Zenon DEF Leave, Work, FileSettles, TextInv, vars
  <1> QED
    BY <1>1, <1>2, <1>3, <1>4, <1>5 DEF Next, Gone

-----------------------------------------------------------------------------
(* The admin reload *)

\* The components of a text that does not hold a symbol.
LEMMA NoSuchPiece ==
  ASSUME NEW A, NEW s \in Seq(A), NEW c, \A i \in 1..Len(s) : s[i] # c, NEW D
  PROVE  <<c>> \notin Range(SplitAt(s, D))
  <1> DEFINE B == A \ {c}
             parts == SplitAt(s, D)
  <1>1. s \in Seq(B)
    <2>1. /\ SubSeq(s, 1, Len(s)) = s
          /\ Len(s) \in Nat
          /\ \A i \in 1..Len(s) : s[i] \in B
      BY SubSeqFull, LenProperties, ElementOfSeq
    <2> QED
      BY <2>1, SubSeqProperties
  <1> HIDE DEF B
  <1>2. parts \in Seq(Seq(B \ D))
    BY <1>1, SplitStep DEF Pieces
  <1> HIDE DEF parts
  <1> SUFFICES ASSUME NEW i \in DOMAIN parts, parts[i] = <<c>> PROVE FALSE
    BY DEF Range, parts
  <1>3. parts[i] \in Seq(B \ D)
    BY <1>2, LenProperties, ElementOfSeq
  <1>4. PICK p \in Seq(B \ D) : p = <<c>>
    BY <1>3
  <1>5. Len(p) = 1 /\ p[1] = c
    BY <1>4
  <1>6. p[1] \in B
    <2>1. 1 \in 1..Len(p)
      BY <1>5
    <2>2. p[1] \in B \ D
      BY <2>1, ElementOfSeq
    <2> QED
      BY <2>2
  <1> QED
    BY <1>5, <1>6 DEF B

\* Splitting around a separator.
LEMMA SplitAround ==
  ASSUME NEW A, NEW s \in Seq(A), NEW D, NEW k \in 1..Len(s), s[k] \in D
  PROVE  LET left == SubSeq(s, 1, k - 1)
             right == SubSeq(s, k + 1, Len(s))
         IN SplitAt(s, D) = SplitAt(left, D) \o SplitAt(right, D)
  <1> DEFINE left == SubSeq(s, 1, k - 1)
             right == SubSeq(s, k + 1, Len(s))
  <1>1. left \in Seq(A) /\ right \in Seq(A) /\ s[k] \in A /\ s = Append(left, s[k]) \o right
    BY CutAt
  <1> HIDE DEF left, right
  <1>2. SplitAt(Append(left, s[k]) \o right, D) = SplitAt(left, D) \o SplitAt(right, D)
    BY <1>1, SplitConcat
  <1> QED
    BY <1>1, <1>2 DEF left, right

\* What precedes the last piece.
LEMMA FrontOfConcat ==
  ASSUME NEW B, NEW p \in Seq(B), NEW q \in Seq(B), q # <<>>
  PROVE  /\ Front(p \o q) \in Seq(B) /\ IsPrefix(p, Front(p \o q))
         /\ Len(q) = 1 => Front(p \o q) = p
  <1> DEFINE r == p \o q
             f == Front(r)
  <1>1. Len(p) \in Nat /\ Len(q) \in Nat \ {0}
    BY EmptySeq, LenProperties
  <1>2. /\ r \in Seq(B) /\ Len(r) = Len(p) + Len(q)
        /\ \A i \in 1..(Len(p) + Len(q)) : r[i] = IF i <= Len(p) THEN p[i] ELSE q[i - Len(p)]
    BY ConcatProperties
  <1> HIDE DEF r
  <1>3. 1 \in 1..(Len(r) + 1) /\ Len(r) - 1 \in 0..Len(r) /\ Len(r) \in Nat \ {0}
    BY <1>1, <1>2
  <1>4. /\ f \in Seq(B) /\ Len(f) = IF 1 <= Len(r) - 1 THEN Len(r) - 1 - 1 + 1 ELSE 0
        /\ \A n \in 1..(Len(r) - 1 - 1 + 1) : f[n] = r[1 + n - 1]
    BY <1>2, <1>3, Stretch DEF Front
  <1> HIDE DEF f
  <1>5. Len(f) = Len(p) + Len(q) - 1
    BY <1>1, <1>2, <1>4
  <1>6. Len(p) <= Len(f)
    BY <1>1, <1>5
  <1>7. ASSUME NEW i \in 1..Len(p) PROVE p[i] = f[i]
    <2>1. i \in 1..(Len(r) - 1 - 1 + 1) /\ 1 + i - 1 = i /\ i \in 1..(Len(p) + Len(q)) /\ i <= Len(p)
      BY <1>1, <1>2
    <2>2. f[i] = r[i]
      BY <1>4, <2>1
    <2> QED
      BY <1>2, <2>1, <2>2
  <1>8. IsPrefix(p, f)
    BY <1>4, <1>6, <1>7, PrefixSymbols
  <1>9. Len(q) = 1 => f = p
    <2> SUFFICES ASSUME Len(q) = 1 PROVE f = p
      OBVIOUS
    <2>1. Len(f) = Len(p)
      BY <1>1, <1>5
    <2> QED
      BY <1>4, <1>7, <2>1, SeqEqual
  <1> QED
    BY <1>4, <1>8, <1>9 DEF f, r

\* reload_path_allowed keeps a path in the directory of the configured file.
LEMMA AllowedIsInside ==
  ASSUME NEW path \in Texts, NEW source \in Texts,
         ReloadPathAllowed(path, source), path # <<>>
  PROVE  /\ DotDot \notin Range(Components(path))
         /\ IsPrefix(Front(Components(source)), Front(Components(path)))
  <1> DEFINE slash == SelectLastInSeq(source, LAMBDA c : c = "/")
             directory == SubSeq(source, 1, slash)
             D == {"/"}
             tp == Tail(path)
             ts == Tail(source)
  <1>1. /\ path[1] = "/" /\ ".." \notin Range(path)
        /\ source # <<>> /\ source[1] = "/"
        /\ IsPrefix(directory, path) /\ Len(path) > Len(directory)
    BY Zenon DEF ReloadPathAllowed
  <1>2. /\ Len(path) \in Nat \ {0} /\ tp \in Seq(Symbols) /\ Len(tp) = Len(path) - 1
        /\ \A i \in 1..(Len(path) - 1) : tp[i] = path[i + 1]
    BY TailOfText DEF Texts
  <1>3. /\ Len(source) \in Nat \ {0} /\ ts \in Seq(Symbols) /\ Len(ts) = Len(source) - 1
        /\ \A i \in 1..(Len(source) - 1) : ts[i] = source[i + 1]
    BY <1>1, TailOfText DEF Texts
  <1>4. /\ slash \in 1..Len(source) /\ source[slash] = "/"
        /\ \A i \in (slash + 1)..Len(source) : source[i] # "/"
    <2>1. /\ slash \in 0..Len(source)
          /\ slash = 0 => \A i \in 1..Len(source) : source[i] # "/"
          /\ slash # 0 => /\ slash \in 1..Len(source) /\ source[slash] = "/"
                          /\ \A i \in (slash + 1)..Len(source) : source[i] # "/"
      BY LastFound, Zenon DEF Texts
    <2> HIDE DEF slash
    <2>2. slash # 0
      <3>1. 1 \in 1..Len(source)
        BY <1>3
      <3> QED
        BY <1>1, <2>1, <3>1
    <2> QED
      BY <2>1, <2>2
  <1> HIDE DEF slash
  <1>5. /\ directory \in Seq(Symbols) /\ Len(directory) = slash
        /\ \A i \in 1..slash : directory[i] = source[i]
    <2>1. 1 \in 1..(Len(source) + 1) /\ slash \in 0..Len(source) /\ slash \in Nat \ {0}
      BY <1>3, <1>4
    <2>2. /\ directory \in Seq(Symbols)
          /\ Len(directory) = IF 1 <= slash THEN slash - 1 + 1 ELSE 0
          /\ \A n \in 1..(slash - 1 + 1) : directory[n] = source[1 + n - 1]
      BY <2>1, Stretch DEF Texts
    <2> HIDE DEF directory
    <2> QED
      BY <2>1, <2>2
  <1> HIDE DEF directory
  <1>6. Len(path) > slash /\ \A i \in 1..slash : path[i] = source[i]
    BY <1>1, <1>5, PrefixSymbols DEF Texts
  <1> HIDE DEF tp, ts
  <1>7. DotDot \notin Range(Components(path))
    <2>1. ASSUME NEW i \in 1..Len(tp) PROVE tp[i] # ".."
      <3>1. i + 1 \in 1..Len(path) /\ i \in 1..(Len(path) - 1)
        BY <1>2
      <3>2. path[i + 1] \in Range(path)
        BY <3>1, LenProperties DEF Range, Texts
      <3> QED
        BY <1>1, <1>2, <3>1, <3>2
    <2> QED
      BY <1>2, <2>1, NoSuchPiece DEF Components, DotDot, tp
  <1>8. CASE slash = 1
    <2>1. ASSUME NEW i \in 1..Len(ts) PROVE ts[i] \notin D
      BY <1>3, <1>4, <1>8
    <2>2. SplitAt(ts, D) = <<ts>>
      BY <1>3, <2>1, SplitWhole
    <2>3. Front(<<ts>>) = <<>>
      BY DEF Front
    <2>4. Front(Components(source)) = <<>>
      BY <2>2, <2>3 DEF Components, ts
    <2>5. SplitAt(tp, D) \in Seq(Seq(Symbols \ D)) /\ SplitAt(tp, D) # <<>>
      BY <1>2, SplitStep DEF Pieces
    <2> DEFINE B == Seq(Symbols \ D)
    <2>6. PICK e \in Seq(B) : e = <<>>
      BY EmptySeq
    <2>7. Front(SplitAt(tp, D)) \in Seq(B) /\ IsPrefix(e, Front(e \o SplitAt(tp, D)))
      <3>1. e \o SplitAt(tp, D) = SplitAt(tp, D)
        BY <2>5, <2>6, ConcatEmptySeq
      <3> QED
        BY <2>5, <3>1, FrontOfConcat
    <2>8. e \o SplitAt(tp, D) = SplitAt(tp, D)
      BY <2>5, <2>6, ConcatEmptySeq
    <2>9. IsPrefix(e, Front(SplitAt(tp, D)))
      BY <2>7, <2>8
    <2> QED
      BY <1>7, <2>4, <2>6, <2>9 DEF Components, tp
  <1>9. CASE slash # 1
    <2> DEFINE k == slash - 1
               left == SubSeq(ts, 1, k - 1)
               name == SubSeq(ts, k + 1, Len(ts))
               rest == SubSeq(tp, k + 1, Len(tp))
    <2>1. k \in 1..Len(ts) /\ k \in 1..Len(tp) /\ k + 1 = slash
      BY <1>2, <1>3, <1>4, <1>6, <1>9
    <2>2. ts[k] \in D /\ tp[k] \in D
      <3>1. k \in 1..(Len(source) - 1) /\ k \in 1..(Len(path) - 1) /\ slash \in 1..slash
        BY <1>2, <1>3, <1>4, <2>1
      <3>2. ts[k] = source[slash] /\ tp[k] = path[slash] /\ path[slash] = source[slash]
        BY <1>2, <1>3, <1>6, <2>1, <3>1
      <3> QED
        BY <1>4, <3>2
    <2>3. SplitAt(ts, D) = SplitAt(left, D) \o SplitAt(name, D)
      BY <1>3, <2>1, <2>2, SplitAround
    <2>4. SplitAt(tp, D) = SplitAt(SubSeq(tp, 1, k - 1), D) \o SplitAt(rest, D)
      BY <1>2, <2>1, <2>2, SplitAround
    <2>5. left \in Seq(Symbols) /\ name \in Seq(Symbols) /\ rest \in Seq(Symbols)
          /\ SubSeq(tp, 1, k - 1) \in Seq(Symbols)
      BY <1>2, <1>3, <2>1, CutAt
    <2>6. left = SubSeq(tp, 1, k - 1)
      <3>1. /\ Len(left) = (IF 1 <= k - 1 THEN k - 1 - 1 + 1 ELSE 0)
            /\ \A n \in 1..(k - 1 - 1 + 1) : left[n] = ts[1 + n - 1]
        <4>1. 1 \in 1..(Len(ts) + 1) /\ k - 1 \in 0..Len(ts)
          BY <1>3, <2>1
        <4> QED
          BY <1>3, <4>1, Stretch
      <3>2. /\ Len(SubSeq(tp, 1, k - 1)) = (IF 1 <= k - 1 THEN k - 1 - 1 + 1 ELSE 0)
            /\ \A n \in 1..(k - 1 - 1 + 1) : SubSeq(tp, 1, k - 1)[n] = tp[1 + n - 1]
        <4>1. 1 \in 1..(Len(tp) + 1) /\ k - 1 \in 0..Len(tp)
          BY <1>2, <2>1
        <4> QED
          BY <1>2, <4>1, Stretch
      <3>3. PICK other \in Seq(Symbols) : other = SubSeq(tp, 1, k - 1)
        BY <2>5
      <3> HIDE DEF left
      <3>4. ASSUME NEW n \in 1..Len(left) PROVE left[n] = other[n]
        <4>1. Len(source) \in Int /\ Len(path) \in Int /\ slash \in Int /\ k \in Int /\ k = slash - 1
              /\ slash <= Len(source) /\ Len(path) > slash
          BY <1>2, <1>3, <1>4, <1>6
        <4>2. n \in Int /\ 1 <= n /\ n <= k - 1
          BY <3>1, <4>1
        <4>3. n \in 1..(k - 1 - 1 + 1) /\ 1 + n - 1 = n
              /\ n \in 1..(Len(source) - 1) /\ n \in 1..(Len(path) - 1) /\ n + 1 \in 1..slash
          BY <4>1, <4>2
        <4>4. left[n] = ts[n] /\ other[n] = tp[n]
          BY <3>1, <3>2, <3>3, <4>3
        <4>5. ts[n] = source[n + 1] /\ tp[n] = path[n + 1] /\ path[n + 1] = source[n + 1]
          BY <1>2, <1>3, <1>6, <4>3
        <4> QED
          BY <4>4, <4>5
      <3>5. Len(left) = Len(other)
        BY <3>1, <3>2, <3>3
      <3> QED
        BY <2>5, <3>3, <3>4, <3>5, SeqEqual
    <2>7. SplitAt(name, D) = <<name>>
      <3>1. ASSUME NEW i \in 1..Len(name) PROVE name[i] \notin D
        <4>1. /\ Len(name) = (IF k + 1 <= Len(ts) THEN Len(ts) - (k + 1) + 1 ELSE 0)
              /\ \A n \in 1..(Len(ts) - (k + 1) + 1) : name[n] = ts[k + 1 + n - 1]
          <5>1. k + 1 \in 1..(Len(ts) + 1) /\ Len(ts) \in 0..Len(ts)
            BY <1>3, <2>1
          <5> QED
            BY <1>3, <5>1, Stretch
        <4> HIDE DEF name
        <4>2. i \in 1..(Len(ts) - (k + 1) + 1) /\ k + 1 + i - 1 = k + i
              /\ k + i \in 1..(Len(source) - 1) /\ k + i + 1 \in (slash + 1)..Len(source)
          BY <1>3, <1>4, <2>1, <4>1
        <4>3. name[i] = source[k + i + 1]
          BY <1>3, <4>1, <4>2
        <4> QED
          BY <1>4, <4>2, <4>3
      <3> QED
        BY <2>5, <3>1, SplitWhole
    <2>8. /\ SplitAt(left, D) \in Seq(Seq(Symbols \ D))
          /\ SplitAt(rest, D) \in Seq(Seq(Symbols \ D)) /\ SplitAt(rest, D) # <<>>
          /\ SplitAt(name, D) \in Seq(Seq(Symbols \ D)) /\ SplitAt(name, D) # <<>>
      BY <2>5, SplitStep DEF Pieces
    <2>9. Front(SplitAt(ts, D)) = SplitAt(left, D)
      <3>1. Len(SplitAt(name, D)) = 1
        BY <2>7
      <3> QED
        BY <2>3, <2>8, <3>1, FrontOfConcat
    <2>10. IsPrefix(SplitAt(left, D), Front(SplitAt(tp, D)))
      BY <2>4, <2>6, <2>8, FrontOfConcat
    <2> QED
      BY <1>7, <2>9, <2>10 DEF Components, tp, ts
  <1> QED
    BY <1>8, <1>9

\* A token that is accepted was presented in one of two headers.
LEMMA AcceptedToken ==
  ASSUME NEW req \in Requests, AdminTokenOk(req), cfg.token # <<>>
  PROVE  \E n \in {"authorization", "x-aevrix-token"} :
           Get(req.headers, n) \in {cfg.token, <<"Bearer">> \o cfg.token}
  <1> DEFINE auth == Get(req.headers, "authorization")
             token == Get(req.headers, "x-aevrix-token")
  <1>1. auth \in Texts /\ token \in Texts
    BY GetTyped DEF Requests
  <1>2. Presented(req) = cfg.token
    BY DEF AdminTokenOk
  <1>3. CASE auth # <<>> /\ auth[1] = "Bearer"
    <2>1. Tail(auth) = cfg.token
      BY <1>2, <1>3 DEF Presented
    <2> HIDE DEF auth
    <2>2. auth = <<"Bearer">> \o cfg.token
      BY <1>1, <1>3, <2>1, TailOfText DEF Texts
    <2> QED
      BY <2>2 DEF auth
  <1>4. CASE ~(auth # <<>> /\ auth[1] = "Bearer")
    <2>1. auth = cfg.token \/ token = cfg.token
      BY <1>2, <1>4 DEF Presented
    <2> QED
      BY <2>1
  <1> QED
    BY <1>3, <1>4

LEMMA RequestedTyped ==
  ASSUME NEW req \in Requests
  PROVE  RequestedConfigPath(req) \in Texts
  <1> DEFINE query == QueryOf(req.target)
             text == Trim(req.body, White)
  <1>1. req.target \in Texts /\ req.body \in Texts
    BY DEF Requests
  <1>2. query \in Texts
    <2> DEFINE at == QueryAt(req.target)
    <2>1. Len(req.target) \in Nat
      BY <1>1, LenProperties DEF Texts
    <2>2. at \in 0..Len(req.target)
      <3>1. /\ at \in 0..Len(req.target)
            /\ at = 0 => \A i \in 1..Len(req.target) : req.target[i] # "?"
            /\ at # 0 => /\ at \in 1..Len(req.target) /\ req.target[at] = "?"
                         /\ \A i \in 1..(at - 1) : req.target[i] # "?"
        BY <1>1, FirstFound, Zenon DEF QueryAt, Texts
      <3> QED
        BY <3>1
    <2>3. CASE at = 0
      BY <2>3, EmptySeq DEF QueryOf, Texts
    <2>4. CASE at # 0
      <3> HIDE DEF at
      <3>1. at \in 1..(Len(req.target) + 1) /\ Len(req.target) \in 0..Len(req.target)
        BY <2>1, <2>2, <2>4
      <3>2. SubSeq(req.target, at, Len(req.target)) \in Texts
        BY <1>1, <3>1, Stretch DEF Texts
      <3> QED
        BY <2>4, <3>2 DEF QueryOf, at
    <2> QED
      BY <2>3, <2>4
  <1>3. text \in Texts
    BY <1>1, TrimText DEF Texts
  <1> HIDE DEF query, text
  <1>4. CASE Len(query) > 1 /\ query[2] = "path="
    <2>1. Len(query) \in Nat
      BY <1>2, LenProperties DEF Texts
    <2>2. 3 \in 1..(Len(query) + 1) /\ Len(query) \in 0..Len(query)
      BY <1>4, <2>1
    <2>3. SubSeq(query, 3, Len(query)) \in Texts
      BY <1>2, <2>2, Stretch DEF Texts
    <2> QED
      BY <1>4, <2>3 DEF RequestedConfigPath, query
  <1>5. CASE ~(Len(query) > 1 /\ query[2] = "path=")
    <2>1. RequestedConfigPath(req) = IF text # <<>> /\ text[1] = "path=" THEN Tail(text) ELSE text
      BY <1>5 DEF RequestedConfigPath, query, text
    <2>2. text # <<>> => Tail(text) \in Texts
      BY <1>3, TailOfText DEF Texts
    <2> QED
      BY <1>3, <2>1, <2>2
  <1> QED
    BY <1>4, <1>5

\* A reload is asked for only together with its request.
ReloadsInTurn == phase \in {"reading", "proxying", "working"} => reloaded = <<>>

AdminInv == TextInv /\ ReloadsInTurn /\ AdminReloadGuarded

LEMMA AdminDispatch ==
  ASSUME AdminInv, phase = "reading", NEW req \in Requests, Dispatch(req), cfg' = cfg
  PROVE  ReloadsInTurn' /\ AdminReloadGuarded'
  <1>1. reloaded = <<>> /\ request' = <<req>> /\ cfg \in Configs
    BY DEF AdminInv, ReloadsInTurn, Dispatch, TextInv
  <1>2. CASE AnswerRoute(req)
    <2> DEFINE path == RequestedConfigPath(req)
    <2>1. phase' \in {"writing", "closed"}
      BY <1>2, Zenon DEF AnswerRoute, AnswerWith
    <2>2. CASE reloaded' = <<>>
      BY <2>1, <2>2 DEF ReloadsInTurn, AdminReloadGuarded
    <2>3. CASE reloaded' # <<>>
      <3>1. /\ reloaded' = <<path>>
            /\ IsAdmin(req) /\ req.method = "POST" /\ AdminStatuses(req) = {200, 400}
        BY <1>2, <2>3, Zenon DEF AnswerRoute
      <3>2. cfg.adminEnabled /\ AdminTokenOk(req) /\ ReloadPathAllowed(path, cfg.source)
        <4>1. 200 \in AdminStatuses(req) /\ 400 \in AdminStatuses(req)
          BY <3>1
        <4> QED
          BY <3>1, <4>1 DEF AdminStatuses
      <3>3. path \in Texts /\ cfg.source \in Texts
        BY <1>1, RequestedTyped, ConfigTyped
      <3> HIDE DEF path
      <3>4. path # <<>> => /\ DotDot \notin Range(Components(path))
                           /\ IsPrefix(Front(Components(cfg.source)), Front(Components(path)))
        BY <3>2, <3>3, AllowedIsInside
      <3>5. cfg.token # <<>> => \E n \in {"authorization", "x-aevrix-token"} :
                                  Get(req.headers, n) \in {cfg.token, <<"Bearer">> \o cfg.token}
        BY <3>2, AcceptedToken
      <3>6. reloaded'[1] = path /\ request'[1] = req
        BY <1>1, <3>1
      <3> QED
        BY <2>1, <3>2, <3>4, <3>5, <3>6 DEF ReloadsInTurn, AdminReloadGuarded
    <2> QED
      BY <2>2, <2>3
  <1>3. CASE ~AnswerRoute(req)
    <2>1. reloaded' = reloaded
      BY <1>3 DEF Dispatch, AnswerUpgrade, RefuseProxy, StartProxy, StartFile
    <2> QED
      BY <1>1, <2>1 DEF ReloadsInTurn, AdminReloadGuarded
  <1> QED
    BY <1>2, <1>3

LEMMA AdminStep == AdminInv /\ [Next]_vars => AdminInv'
  <1> SUFFICES ASSUME AdminInv, [Next]_vars PROVE AdminInv'
    OBVIOUS
  <1>1. TextInv'
    BY TextStep DEF AdminInv
  <1> SUFFICES ReloadsInTurn' /\ AdminReloadGuarded'
    BY <1>1 DEF AdminInv
  <1>2. ReloadsInTurn /\ AdminReloadGuarded
    BY DEF AdminInv
  <1>3. ASSUME NEW n, Receive(n) PROVE ReloadsInTurn' /\ AdminReloadGuarded'
    <2>1. phase = "reading" /\ cfg' = cfg
      BY <1>3 DEF Receive
    <2>2. CASE Dispatch(parser'.request)
      <3>1. parser'.request \in Requests
        BY <1>1, ParserParts DEF TextInv
      <3> QED
        BY <2>1, <2>2, <3>1, AdminDispatch
    <2>3. CASE ~Dispatch(parser'.request)
      <3>1. reloaded' = reloaded
        BY <1>3, <2>3 DEF Receive, exchangeVars
      <3> QED
        BY <1>2, <2>1, <3>1 DEF ReloadsInTurn, AdminReloadGuarded
    <2> QED
      BY <2>2, <2>3
  <1>4. CASE Flush
    <2>1. CASE phase' = "reading"
      BY <1>4, <2>1 DEF Flush, ReloadsInTurn, AdminReloadGuarded
    <2>2. CASE phase' # "reading"
      <3>1. phase' \in {"frames", "closed"} /\ reloaded' = reloaded /\ request' = request /\ cfg' = cfg
        BY <1>4, <2>2 DEF Flush, exchangeVars
      <3> QED
        BY <1>2, <3>1 DEF ReloadsInTurn, AdminReloadGuarded
    <2> QED
      BY <2>1, <2>2
  <1>5. CASE /\ reloaded' = reloaded /\ request' = request /\ cfg' = cfg
             /\ phase' \in {"reading", "proxying", "working"} => phase \in {"reading", "proxying", "working"}
    BY <1>2, <1>5 DEF ReloadsInTurn, AdminReloadGuarded
  <1>6. ASSUME NEW m, Send(m) PROVE ReloadsInTurn' /\ AdminReloadGuarded'
    BY <1>5, <1>6 DEF Send, exchangeVars
  <1>7. ASSUME NEW o, UpstreamSettles(o) PROVE ReloadsInTurn' /\ AdminReloadGuarded'
    <2>1. reloaded' = reloaded /\ request' = request /\ cfg' = cfg /\ phase = "proxying"
      BY <1>7, Zenon DEF UpstreamSettles, exchangeVars
    <2> QED
      BY <1>5, <2>1
  <1>8. CASE FileSettles
    <2>1. reloaded' = reloaded /\ request' = request /\ cfg' = cfg /\ phase = "working"
      BY <1>8, Zenon DEF FileSettles, exchangeVars
    <2> QED
      BY <1>5, <2>1
  <1>9. CASE Leave \/ Work \/ UNCHANGED vars
    <2>1. /\ reloaded' = reloaded /\ request' = request /\ cfg' = cfg
          /\ phase' = phase \/ phase' = "closed"
      BY <1>9, Zenon DEF Leave, Work, vars, exchangeVars
    <2> QED
      BY <1>5, <2>1
  <1> QED
    BY <1>3, <1>4, <1>6, <1>7, <1>8, <1>9 DEF Next, Gone

\* A reload that an admin request starts was asked for with the token, and reads
\* the configured file or one in its directory, whatever the path and however
\* the request was spelled (admin_token_ok, reload_path_allowed).
THEOREM AdminReloadAlwaysGuarded == Spec => []AdminReloadGuarded
  <1>1. Init => AdminInv
    BY FreshParserTyped, EmptySeq
       DEF Init, AdminInv, TextInv, Texts, ReloadsInTurn, AdminReloadGuarded
  <1>2. AdminInv => AdminReloadGuarded
    BY DEF AdminInv
  <1> QED
    BY <1>1, <1>2, AdminStep, PTL DEF Spec
-----------------------------------------------------------------------------
(* Paths, component by component *)

\* What follows a prefix.
LEMMA AfterPrefix ==
  ASSUME NEW A, NEW x \in Seq(A), NEW y \in Seq(A)
  PROVE  /\ SubSeq(x \o y, Len(x) + 1, Len(x \o y)) = y
         /\ IsPrefix(x, x \o y)
  <1> DEFINE z == x \o y
             w == SubSeq(z, Len(x) + 1, Len(z))
  <1>1. Len(x) \in Nat /\ Len(y) \in Nat
    BY LenProperties
  <1>2. /\ z \in Seq(A) /\ Len(z) = Len(x) + Len(y)
        /\ \A i \in 1..(Len(x) + Len(y)) : z[i] = IF i <= Len(x) THEN x[i] ELSE y[i - Len(x)]
    BY ConcatProperties
  <1> HIDE DEF z
  <1>3. Len(x) + 1 \in 1..(Len(z) + 1) /\ Len(z) \in 0..Len(z)
    BY <1>1, <1>2
  <1>4. /\ w \in Seq(A) /\ Len(w) = IF Len(x) + 1 <= Len(z) THEN Len(z) - (Len(x) + 1) + 1 ELSE 0
        /\ \A n \in 1..(Len(z) - (Len(x) + 1) + 1) : w[n] = z[Len(x) + 1 + n - 1]
    BY <1>2, <1>3, Stretch
  <1> HIDE DEF w
  <1>5. Len(w) = Len(y)
    BY <1>1, <1>2, <1>4
  <1>6. ASSUME NEW i \in 1..Len(w) PROVE w[i] = y[i]
    <2>1. /\ i \in 1..(Len(z) - (Len(x) + 1) + 1) /\ Len(x) + 1 + i - 1 = Len(x) + i
          /\ Len(x) + i \in 1..(Len(x) + Len(y)) /\ ~(Len(x) + i <= Len(x)) /\ Len(x) + i - Len(x) = i
      BY <1>1, <1>2, <1>5
    <2>2. w[i] = z[Len(x) + i]
      BY <1>4, <2>1
    <2>3. z[Len(x) + i] = y[Len(x) + i - Len(x)]
      BY <1>2, <2>1
    <2> QED
      BY <2>1, <2>2, <2>3
  <1>7. w = y
    BY <1>4, <1>5, <1>6, SeqEqual
  <1>8. IsPrefix(x, z)
    <2>1. Len(x) <= Len(z) /\ \A i \in 1..Len(x) : x[i] = z[i]
      BY <1>1, <1>2
    <2> QED
      BY <1>2, <2>1, PrefixSymbols
  <1> QED
    BY <1>7, <1>8 DEF w, z

LEMMA PrefixRest ==
  ASSUME NEW A, NEW x \in Seq(A), NEW z \in Seq(A), IsPrefix(x, z)
  PROVE  \E y \in Seq(A) : z = x \o y
  <1> DEFINE y == SubSeq(z, Len(x) + 1, Len(z))
  <1>1. Len(x) \in Nat /\ Len(z) \in Nat /\ Len(x) <= Len(z)
    BY LenProperties DEF IsPrefix
  <1>2. /\ 1 \in 1..(Len(z) + 1) /\ Len(x) \in (1 - 1)..Len(z) /\ Len(z) \in Len(x)..Len(z)
        /\ Len(x) + 1 \in 1..(Len(z) + 1) /\ Len(z) \in 0..Len(z)
    BY <1>1
  <1>3. SubSeq(z, 1, Len(x)) \o y = SubSeq(z, 1, Len(z))
    BY <1>2, ConcatAdjacentSubSeq
  <1>4. SubSeq(z, 1, Len(x)) = x /\ SubSeq(z, 1, Len(z)) = z
    <2>1. SubSeq(x, 1, Len(x)) = x /\ SubSeq(z, 1, Len(z)) = z
      BY SubSeqFull
    <2> QED
      BY <2>1, Zenon DEF IsPrefix
  <1>5. y \in Seq(A)
    BY <1>2, Stretch
  <1> QED
    BY <1>3, <1>4, <1>5, Zenon

LEMMA LastFront ==
  ASSUME NEW A, NEW p \in Seq(A), NEW e \in A
  PROVE  /\ Append(p, e) \in Seq(A) /\ Append(p, e) # <<>>
         /\ Last(Append(p, e)) = e /\ Front(Append(p, e)) = p
  <1>1. /\ Append(p, e) \in Seq(A) /\ Append(p, e) # <<>>
        /\ Len(Append(p, e)) = Len(p) + 1 /\ Append(p, e)[Len(p) + 1] = e
    BY AppendProperties
  <1>2. Last(Append(p, e)) = e
    BY <1>1 DEF Last
  <1>3. Append(p, e) = p \o <<e>>
    BY AppendIsConcat
  <1>4. PICK q \in Seq(A) : q = <<e>>
    <2>1. <<e>> \in Seq(A)
      OBVIOUS
    <2> QED
      BY <2>1
  <1>5. Len(q) = 1 /\ q # <<>>
    BY <1>4
  <1>6. Front(p \o q) = p
    BY <1>5, FrontOfConcat
  <1> QED
    BY <1>1, <1>2, <1>3, <1>4, <1>6

\* The separators put back.
Joined(components) == FlattenSeq(Slashed(components))

LEMMA SlashedAppend ==
  ASSUME NEW x \in Seq(Texts)
  PROVE  /\ Slashed(x) \in Seq(Texts) /\ Len(Slashed(x)) = Len(x)
         /\ \A i \in 1..Len(x) : Slashed(x)[i] = <<"/">> \o x[i]
         /\ Joined(x) \in Texts /\ Joined(<<>>) = <<>>
         /\ \A e \in Texts : Joined(Append(x, e)) = Joined(x) \o (<<"/">> \o e)
  <1>1. <<"/">> \in Texts
    BY DEF Symbols, Texts
  <1>2. ASSUME NEW y \in Seq(Texts)
        PROVE  /\ Slashed(y) \in Seq(Texts) /\ Len(Slashed(y)) = Len(y)
               /\ \A i \in 1..Len(y) : Slashed(y)[i] = <<"/">> \o y[i]
    <2>1. Len(y) \in Nat
      BY LenProperties
    <2>2. \A i \in 1..Len(y) : <<"/">> \o y[i] \in Texts
      BY <1>1, ElementOfSeq, ConcatProperties DEF Texts
    <2>3. Slashed(y) \in [1..Len(y) -> Texts]
      BY <2>2 DEF Slashed
    <2>4. \A i \in 1..Len(y) : Slashed(y)[i] = <<"/">> \o y[i]
      BY DEF Slashed
    <2> QED
      BY <2>1, <2>3, <2>4, MapSeq
  <1>3. Joined(x) \in Texts
    BY <1>2, FlattenStep DEF Joined, Texts
  <1>4. Joined(<<>>) = <<>>
    <2>1. PICK e \in Seq(Texts) : e = <<>> /\ Len(e) = 0
      BY EmptySeq
    <2>2. Slashed(e) \in Seq(Texts) /\ Len(Slashed(e)) = 0
      BY <1>2, <2>1
    <2>3. Slashed(e) = <<>>
      BY <2>2, EmptySeq
    <2>4. FlattenSeq(<<>>) = <<>>
      BY <1>2, FlattenStep DEF Texts
    <2> QED
      BY <2>1, <2>3, <2>4 DEF Joined
  <1>5. ASSUME NEW e \in Texts PROVE Joined(Append(x, e)) = Joined(x) \o (<<"/">> \o e)
    <2> DEFINE piece == <<"/">> \o e
    <2>1. piece \in Texts
      BY <1>1, ConcatProperties DEF Texts
    <2>2. /\ Append(x, e) \in Seq(Texts) /\ Len(Append(x, e)) = Len(x) + 1
          /\ \A i \in 1..Len(x) : Append(x, e)[i] = x[i]
          /\ Append(x, e)[Len(x) + 1] = e
      BY AppendProperties
    <2>3. Slashed(Append(x, e)) = Append(Slashed(x), piece)
      <3> DEFINE l == Slashed(Append(x, e))
                 r == Append(Slashed(x), piece)
      <3>1. Len(x) \in Nat
        BY LenProperties
      <3>2. /\ l \in Seq(Texts) /\ Len(l) = Len(x) + 1
            /\ \A i \in 1..(Len(x) + 1) : l[i] = <<"/">> \o Append(x, e)[i]
        BY <1>2, <2>2
      <3>3. /\ r \in Seq(Texts) /\ Len(r) = Len(x) + 1
            /\ \A i \in 1..Len(x) : r[i] = Slashed(x)[i]
            /\ r[Len(x) + 1] = piece
        BY <1>2, <2>1, AppendProperties
      <3>4. ASSUME NEW i \in 1..(Len(x) + 1) PROVE l[i] = r[i]
        <4>1. CASE i = Len(x) + 1
          BY <2>2, <3>2, <3>3, <4>1
        <4>2. CASE i # Len(x) + 1
          <5>1. i \in 1..Len(x)
            BY <3>1, <4>2
          <5>2. l[i] = <<"/">> \o x[i]
            BY <2>2, <3>2, <5>1
          <5>3. r[i] = <<"/">> \o x[i]
            BY <1>2, <3>3, <5>1
          <5> QED
            BY <5>2, <5>3
        <4> QED
          BY <4>1, <4>2
      <3> HIDE DEF l, r
      <3>5. l = r
        BY <3>2, <3>3, <3>4, SeqEqual
      <3> QED
        BY <3>5 DEF l, r
    <2> HIDE DEF piece
    <2>4. FlattenSeq(Append(Slashed(x), piece)) = FlattenSeq(Slashed(x)) \o piece
      BY <1>2, <2>1, FlattenStep DEF Texts
    <2> QED
      BY <2>3, <2>4 DEF Joined, piece
  <1> QED
    BY <1>2, <1>3, <1>4, <1>5

\* Joining the components of a text gives it back, after a slash.
LEMMA JoinSplit ==
  ASSUME NEW s \in Texts
  PROVE  /\ SplitAt(s, {"/"}) \in Seq(Texts) /\ SplitAt(s, {"/"}) # <<>>
         /\ Joined(SplitAt(s, {"/"})) = <<"/">> \o s
  <1> DEFINE D == {"/"}
             Good(r) == Joined(SplitAt(r, D)) = <<"/">> \o r
             S == {r \in Texts : Good(r)}
  <1>1. "/" \in Symbols /\ <<"/">> \in Texts
    BY DEF Symbols, Texts
  <1>2. ASSUME NEW r \in Texts
        PROVE  /\ SplitAt(r, D) \in Seq(Texts) /\ SplitAt(r, D) # <<>>
               /\ \A c \in Symbols : SplitAt(Append(r, c), D) = Extend(SplitAt(r, D), c, D)
    <2>1. /\ SplitAt(r, D) \in Seq(Seq(Symbols \ D)) /\ SplitAt(r, D) # <<>>
          /\ \A c \in Symbols : SplitAt(Append(r, c), D) = Extend(SplitAt(r, D), c, D)
      BY SplitStep, ZenonT(60) DEF Pieces, Texts
    <2>2. Seq(Symbols \ D) \subseteq Texts
      BY SeqMonotonic DEF Texts
    <2>3. SplitAt(r, D) \in Seq(Texts)
      BY <2>1, <2>2, SeqMonotonic
    <2> QED
      BY <2>1, <2>3
  <1>3. <<>> \in S
    <2>1. PICK e \in Texts : e = <<>>
      BY EmptySeq DEF Texts
    <2>2. PICK n \in Seq(Texts) : n = <<>>
      BY EmptySeq
    <2>3. SplitAt(e, D) = Append(n, e)
      <3>1. SplitAt(<<>>, D) = << <<>> >>
        BY <1>1, SplitStep DEF Texts
      <3> QED
        BY <2>1, <2>2, <3>1
    <2>4. Joined(Append(n, e)) = Joined(n) \o (<<"/">> \o e) /\ Joined(<<>>) = <<>>
      BY SlashedAppend
    <2>5. <<>> \o (<<"/">> \o e) = <<"/">> \o e
      <3>1. <<"/">> \o e \in Texts
        BY <1>1, ConcatProperties DEF Texts
      <3> QED
        BY <3>1, ConcatEmptySeq DEF Texts
    <2> QED
      BY <2>1, <2>2, <2>3, <2>4, <2>5
  <1>4. ASSUME NEW r \in Texts, NEW c \in Symbols, Good(r) PROVE Append(r, c) \in S
    <2> DEFINE P == SplitAt(r, D)
    <2>1. P \in Seq(Texts) /\ P # <<>> /\ SplitAt(Append(r, c), D) = Extend(P, c, D)
      BY <1>2
    <2>2. Joined(P) = <<"/">> \o r
      BY <1>4
    <2> HIDE DEF P
    <2>3. Append(r, c) \in Texts /\ <<c>> \in Texts /\ Append(r, c) = r \o <<c>>
      BY AppendProperties, AppendIsConcat DEF Texts
    <2>4. (<<"/">> \o r) \o <<c>> = <<"/">> \o Append(r, c)
      <3>1. Associates(<<"/">>, r, <<c>>)
        BY <1>1, <2>3, ConcatThree DEF Texts
      <3> QED
        BY <3>1 DEF Associates
    <2>5. CASE c = "/"
      <3>1. PICK e \in Texts : e = <<>>
        BY EmptySeq DEF Texts
      <3>2. Extend(P, c, D) = Append(P, e)
        BY <2>5, <3>1 DEF Extend
      <3>3. Joined(Append(P, e)) = Joined(P) \o (<<"/">> \o e)
        BY <2>1, SlashedAppend
      <3>4. <<"/">> \o e = <<c>>
        BY <1>1, <2>5, <3>1, ConcatEmptySeq DEF Texts
      <3> QED
        BY <2>1, <2>2, <2>3, <2>4, <3>2, <3>3, <3>4
    <2>6. CASE c # "/"
      <3>1. PICK R \in Seq(Texts), e \in Texts : P = Append(R, e)
        BY <2>1, SequenceEmptyOrAppend
      <3>2. Extend(P, c, D) = Append(R, Append(e, c))
        <4>1. Extend(P, c, D) = [P EXCEPT ![Len(P)] = Append(@, c)]
          BY <2>6 DEF Extend
        <4>2. Append(e, c) \in Texts
          BY AppendProperties DEF Texts
        <4> DEFINE u == [P EXCEPT ![Len(P)] = Append(P[Len(P)], c)]
                   v == Append(R, Append(e, c))
        <4>3. /\ Len(P) = Len(R) + 1 /\ P[Len(R) + 1] = e
              /\ \A i \in 1..Len(R) : P[i] = R[i]
          BY <3>1, AppendProperties
        <4>4. Len(R) \in Nat
          BY LenProperties
        <4>5. /\ v \in Seq(Texts) /\ Len(v) = Len(R) + 1 /\ v[Len(R) + 1] = Append(e, c)
              /\ \A i \in 1..Len(R) : v[i] = R[i]
          BY <4>2, AppendProperties
        <4>6. Len(P) \in 1..Len(P) /\ P[Len(P)] = e
          BY <4>3, <4>4
        <4>7. /\ u \in Seq(Texts) /\ Len(u) = Len(P)
              /\ \A j \in 1..Len(P) : u[j] = IF j = Len(P) THEN Append(e, c) ELSE P[j]
          BY <2>1, <4>2, <4>6, ExceptSeq
        <4> HIDE DEF u, v
        <4>8. ASSUME NEW i \in 1..Len(u) PROVE u[i] = v[i]
          <5>1. CASE i = Len(R) + 1
            BY <4>3, <4>5, <4>6, <4>7, <5>1
          <5>2. CASE i # Len(R) + 1
            <6>1. i \in 1..Len(R) /\ i \in 1..Len(P) /\ i # Len(P)
              BY <4>3, <4>4, <4>7, <5>2
            <6> QED
              BY <4>3, <4>5, <4>7, <6>1
          <5> QED
            BY <5>1, <5>2
        <4>9. u = v
          BY <4>3, <4>5, <4>7, <4>8, SeqEqual
        <4> QED
          BY <4>1, <4>9 DEF u, v
      <3>3. Append(e, c) = e \o <<c>> /\ Append(e, c) \in Texts
        BY AppendProperties, AppendIsConcat DEF Texts
      <3>4. Joined(Append(R, Append(e, c))) = Joined(R) \o (<<"/">> \o Append(e, c))
        BY <3>3, SlashedAppend
      <3>5. Joined(P) = Joined(R) \o (<<"/">> \o e) /\ Joined(R) \in Texts
        BY <3>1, SlashedAppend
      <3>6. <<"/">> \o e \in Texts /\ (<<"/">> \o e) \o <<c>> = <<"/">> \o Append(e, c)
        <4>1. Associates(<<"/">>, e, <<c>>)
          BY <1>1, <2>3, <3>3, ConcatThree DEF Texts
        <4>2. <<"/">> \o e \in Texts
          BY <1>1, <3>3, ConcatProperties DEF Texts
        <4> QED
          BY <3>3, <4>1, <4>2 DEF Associates
      <3>7. (Joined(R) \o (<<"/">> \o e)) \o <<c>> = Joined(R) \o ((<<"/">> \o e) \o <<c>>)
        <4>1. Associates(Joined(R), (<<"/">> \o e), <<c>>)
          BY <2>3, <3>5, <3>6, ConcatThree DEF Texts
        <4> QED
          BY <4>1 DEF Associates
      <3> QED
        BY <2>1, <2>2, <2>3, <2>4, <3>2, <3>4, <3>5, <3>6, <3>7
    <2> QED
      BY <2>5, <2>6
  <1> HIDE DEF Good
  <1>5. \A r \in Seq(Symbols), c \in Symbols : r \in S => Append(r, c) \in S
    BY <1>4 DEF Texts
  <1>6. Seq(Symbols) \subseteq S
    BY <1>3, <1>5, SeqSetInduction
  <1> QED
    BY <1>2, <1>6 DEF Texts, Good

LEMMA JoinConcat ==
  ASSUME NEW x \in Seq(Texts), NEW y \in Seq(Texts)
  PROVE  Joined(x \o y) = Joined(x) \o Joined(y)
  <1> DEFINE S == {r \in Seq(Texts) : Joined(x \o r) = Joined(x) \o Joined(r)}
  <1>1. Joined(x) \in Texts /\ Joined(<<>>) = <<>>
    BY SlashedAppend
  <1>2. <<>> \in S
    <2>1. x \o <<>> = x /\ Joined(x) \o <<>> = Joined(x)
      BY <1>1, ConcatEmptySeq DEF Texts
    <2> QED
      BY <1>1, <2>1, EmptySeq
  <1>3. ASSUME NEW r \in Seq(Texts), NEW e \in Texts, r \in S PROVE Append(r, e) \in S
    <2> DEFINE piece == <<"/">> \o e
    <2>1. x \o r \in Seq(Texts) /\ Append(r, e) \in Seq(Texts)
      BY ConcatProperties, AppendProperties
    <2>2. x \o Append(r, e) = Append(x \o r, e)
      OBVIOUS
    <2>3. Joined(Append(x \o r, e)) = Joined(x \o r) \o piece
      BY <2>1, SlashedAppend
    <2>4. Joined(Append(r, e)) = Joined(r) \o piece /\ Joined(r) \in Texts
      BY SlashedAppend
    <2>5. piece \in Texts
      <3>1. <<"/">> \in Texts
        BY DEF Symbols, Texts
      <3> QED
        BY <3>1, ConcatProperties DEF Texts
    <2>6. Joined(x \o r) = Joined(x) \o Joined(r)
      BY <1>3
    <2> HIDE DEF piece
    <2>7. (Joined(x) \o Joined(r)) \o piece = Joined(x) \o (Joined(r) \o piece)
      <3>1. Associates(Joined(x), Joined(r), piece)
        BY <1>1, <2>4, <2>5, ConcatThree DEF Texts
      <3> QED
        BY <3>1 DEF Associates
    <2> QED
      BY <2>1, <2>2, <2>3, <2>4, <2>6, <2>7
  <1> HIDE DEF S
  <1>4. Seq(Texts) \subseteq S
    BY <1>2, <1>3, SeqSetInduction
  <1> QED
    BY <1>4 DEF S

LEMMA JoinedFirst ==
  ASSUME NEW x \in Seq(Texts), x # <<>>
  PROVE  \E t \in Texts : Joined(x) = <<"/">> \o t
  <1>1. x[1] \in Texts /\ Tail(x) \in Seq(Texts) /\ x = <<x[1]>> \o Tail(x)
    BY TailOfText
  <1>2. PICK n \in Seq(Texts) : n = <<>>
    BY EmptySeq
  <1>3. Append(n, x[1]) = <<x[1]>> /\ Append(n, x[1]) \in Seq(Texts)
    BY <1>1, <1>2, AppendProperties
  <1>4. Joined(Append(n, x[1])) = Joined(n) \o (<<"/">> \o x[1]) /\ Joined(n) = <<>>
    BY <1>1, <1>2, SlashedAppend
  <1>5. <<"/">> \in Texts /\ <<"/">> \o x[1] \in Texts
    <2>1. <<"/">> \in Texts
      BY DEF Symbols, Texts
    <2> QED
      BY <1>1, <2>1, ConcatProperties DEF Texts
  <1>6. Joined(<<x[1]>>) = <<"/">> \o x[1]
    <2>1. <<>> \o (<<"/">> \o x[1]) = <<"/">> \o x[1]
      BY <1>5, ConcatEmptySeq DEF Texts
    <2> QED
      BY <1>3, <1>4, <2>1
  <1>7. Joined(x) = (<<"/">> \o x[1]) \o Joined(Tail(x))
    <2>1. Joined(Append(n, x[1]) \o Tail(x)) = Joined(Append(n, x[1])) \o Joined(Tail(x))
      BY <1>1, <1>3, JoinConcat
    <2> QED
      BY <1>1, <1>3, <1>6, <2>1
  <1>8. Joined(Tail(x)) \in Texts
    BY <1>1, SlashedAppend
  <1>9. /\ x[1] \o Joined(Tail(x)) \in Texts
        /\ (<<"/">> \o x[1]) \o Joined(Tail(x)) = <<"/">> \o (x[1] \o Joined(Tail(x)))
    <2> DEFINE first == x[1]
               others == Joined(Tail(x))
    <2>1. first \in Seq(Symbols) /\ others \in Seq(Symbols) /\ <<"/">> \in Seq(Symbols)
      BY <1>1, <1>5, <1>8 DEF Texts
    <2> HIDE DEF first, others
    <2>2. first \o others \in Seq(Symbols)
      BY <2>1, ConcatProperties
    <2>3. (<<"/">> \o first) \o others = <<"/">> \o (first \o others)
      <3>1. Associates(<<"/">>, first, others)
        BY <2>1, ConcatThree
      <3> QED
        BY <3>1 DEF Associates
    <2> QED
      BY <2>2, <2>3 DEF first, others, Texts
  <1> QED
    BY <1>7, <1>9

\* A text after a slash.
LEMMA AfterSlash ==
  ASSUME NEW w \in Texts
  PROVE  LET z == <<"/">> \o w
         IN z \in Texts /\ z # <<>> /\ z[1] = "/" /\ Tail(z) = w
  <1> DEFINE z == <<"/">> \o w
  <1>1. PICK o \in Texts : o = <<"/">>
    <2>1. <<"/">> \in Texts
      BY DEF Symbols, Texts
    <2> QED
      BY <2>1
  <1>2. Len(o) = 1 /\ o[1] = "/" /\ z = o \o w
    BY <1>1
  <1>3. Len(w) \in Nat
    BY LenProperties DEF Texts
  <1>4. /\ z \in Texts /\ Len(z) = 1 + Len(w)
        /\ \A i \in 1..(1 + Len(w)) : z[i] = IF i <= 1 THEN o[i] ELSE w[i - 1]
    BY <1>2, ConcatProperties DEF Texts
  <1> HIDE DEF z
  <1>5. z # <<>>
    <2>1. Len(z) # 0
      BY <1>3, <1>4
    <2> QED
      BY <2>1, EmptySeq
  <1>6. z[1] = "/"
    <2>1. 1 \in 1..(1 + Len(w))
      BY <1>3
    <2> QED
      BY <1>2, <1>4, <2>1
  <1>7. Tail(z) \in Texts /\ Len(Tail(z)) = Len(w) /\ \A i \in 1..Len(w) : Tail(z)[i] = w[i]
    <2>1. /\ Tail(z) \in Texts /\ Len(Tail(z)) = Len(z) - 1
          /\ \A i \in 1..(Len(z) - 1) : Tail(z)[i] = z[i + 1]
      BY <1>4, <1>5, TailOfText DEF Texts
    <2>2. Len(z) - 1 = Len(w)
      BY <1>3, <1>4
    <2>3. ASSUME NEW i \in 1..Len(w) PROVE Tail(z)[i] = w[i]
      <3>1. i + 1 \in 1..(1 + Len(w)) /\ ~(i + 1 <= 1) /\ i + 1 - 1 = i
        BY <1>3
      <3> QED
        BY <1>4, <2>1, <2>2, <3>1
    <2> QED
      BY <2>1, <2>2, <2>3
  <1>8. Tail(z) = w
    BY <1>7, SeqEqual DEF Texts
  <1> QED
    BY <1>4, <1>5, <1>6, <1>8 DEF z

\* A prefix is the components it stands for, joined, and perhaps a slash.
Absolute(path) == path # <<>> /\ path[1] = "/"
Stem(prefix) == Joined(PrefixOf(prefix))

LEMMA StemOfPrefix ==
  ASSUME NEW prefix \in Texts, Absolute(prefix)
  PROVE  /\ PrefixOf(prefix) \in Seq(Texts) /\ Stem(prefix) \in Texts
         /\ Last(prefix) # "/" => Stem(prefix) = prefix
         /\ Last(prefix) = "/" => Append(Stem(prefix), "/") = prefix
         /\ prefix = <<"/">> => PrefixOf(prefix) = <<>> /\ Last(prefix) = "/"
         /\ prefix # <<"/">> => \E v \in Texts : /\ PrefixOf(prefix) = SplitAt(v, {"/"})
                                                 /\ Stem(prefix) = <<"/">> \o v
  <1>1. Tail(prefix) \in Texts /\ prefix = <<"/">> \o Tail(prefix)
    BY TailOfText DEF Absolute, Texts
  <1>2. "/" \in Symbols
    BY DEF Symbols
  <1>3. CASE prefix = <<"/">>
    <2>1. Last(prefix) = "/"
      BY <1>3 DEF Last
    <2>2. Components(prefix) = << <<>> >>
      <3>1. Tail(prefix) = <<>>
        BY <1>3
      <3>2. SplitAt(<<>>, {"/"}) = << <<>> >>
        BY <1>1, SplitStep DEF Texts
      <3> QED
        BY <3>1, <3>2 DEF Components
    <2>3. PrefixOf(prefix) = <<>>
      <3>1. Front(<< <<>> >>) = <<>>
        BY DEF Front
      <3> QED
        BY <2>1, <2>2, <3>1 DEF PrefixOf
    <2>4. PrefixOf(prefix) \in Seq(Texts) /\ Stem(prefix) = <<>>
      <3>1. PICK n \in Seq(Texts) : n = <<>>
        BY EmptySeq
      <3>2. Joined(<<>>) = <<>>
        BY <3>1, SlashedAppend
      <3> QED
        BY <2>3, <3>1, <3>2 DEF Stem
    <2>5. <<>> \in Texts /\ Append(<<>>, "/") = <<"/">>
      BY EmptySeq DEF Texts
    <2> QED
      BY <1>3, <2>1, <2>3, <2>4, <2>5
  <1>4. ASSUME NEW v \in Texts, PrefixOf(prefix) = SplitAt(v, {"/"}), prefix # <<"/">>,
               Last(prefix) # "/" => prefix = <<"/">> \o v,
               Last(prefix) = "/" => prefix = Append(<<"/">> \o v, "/")
        PROVE  /\ PrefixOf(prefix) \in Seq(Texts) /\ Stem(prefix) \in Texts
               /\ Last(prefix) # "/" => Stem(prefix) = prefix
               /\ Last(prefix) = "/" => Append(Stem(prefix), "/") = prefix
               /\ \E w \in Texts : PrefixOf(prefix) = SplitAt(w, {"/"}) /\ Stem(prefix) = <<"/">> \o w
    <2>1. PrefixOf(prefix) \in Seq(Texts) /\ Stem(prefix) = <<"/">> \o v
      BY <1>4, JoinSplit DEF Stem
    <2>2. Stem(prefix) \in Texts
      BY <2>1, AfterSlash
    <2> QED
      BY <1>4, <2>1, <2>2
  <1>5. CASE prefix # <<"/">> /\ Last(prefix) # "/"
    <2>1. PrefixOf(prefix) = SplitAt(Tail(prefix), {"/"})
      BY <1>5 DEF PrefixOf, Components
    <2> QED
      BY <1>1, <1>4, <1>5, <2>1
  <1>6. CASE prefix # <<"/">> /\ Last(prefix) = "/"
    <2>1. PICK q \in Texts, e \in Symbols : prefix = Append(q, e)
      BY SequenceEmptyOrAppend DEF Absolute, Texts
    <2>2. e = "/"
      BY <1>6, <2>1, LastFront DEF Texts
    <2>3. q # <<>>
      <3>1. Append(<<>>, "/") = <<"/">>
        OBVIOUS
      <3> QED
        BY <1>6, <2>1, <2>2, <3>1
    <2>4. Tail(prefix) = Append(Tail(q), "/")
      BY <2>1, <2>2, <2>3, HeadTailAppend DEF Texts
    <2>5. Len(q) \in Nat \ {0} /\ Tail(q) \in Texts /\ q = <<q[1]>> \o Tail(q)
      BY <2>3, TailOfText DEF Texts
    <2>6. q[1] = "/"
      <3>1. \A i \in 1..Len(q) : prefix[i] = q[i]
        BY <2>1, AppendProperties DEF Texts
      <3>2. 1 \in 1..Len(q)
        BY <2>5
      <3> QED
        BY <3>1, <3>2 DEF Absolute
    <2>7. PrefixOf(prefix) = SplitAt(Tail(q), {"/"})
      <3> DEFINE P == SplitAt(Tail(q), {"/"})
      <3>1. SplitAt(Append(Tail(q), "/"), {"/"}) = Extend(P, "/", {"/"})
        <4>1. \A c \in Symbols : SplitAt(Append(Tail(q), c), {"/"}) = Extend(P, c, {"/"})
          BY <2>5, SplitStep DEF Texts
        <4> QED
          BY <1>2, <4>1
      <3>2. P \in Seq(Texts)
        BY <2>5, JoinSplit
      <3> HIDE DEF P
      <3>3. PICK empty \in Texts : empty = <<>>
        BY EmptySeq DEF Texts
      <3>4. Extend(P, "/", {"/"}) = Append(P, empty)
        BY <3>3 DEF Extend
      <3>5. Front(Append(P, empty)) = P
        BY <3>2, LastFront
      <3> QED
        BY <1>6, <2>4, <3>1, <3>4, <3>5 DEF PrefixOf, Components, P
    <2> QED
      BY <1>4, <1>6, <2>1, <2>2, <2>5, <2>6, <2>7
  <1> QED
    BY <1>3, <1>4, <1>5, <1>6

LEMMA SplitSlash ==
  ASSUME NEW v \in Texts, NEW t \in Texts
  PROVE  SplitAt(Append(v, "/") \o t, {"/"}) = SplitAt(v, {"/"}) \o SplitAt(t, {"/"})
  <1> DEFINE D == {"/"}
  <1>1. PICK c \in Symbols \cap D : c = "/"
    BY DEF Symbols
  <1> HIDE DEF D
  <1>2. v \in Seq(Symbols) /\ t \in Seq(Symbols)
    BY DEF Texts
  <1>3. SplitAt(Append(v, c) \o t, D) = SplitAt(v, D) \o SplitAt(t, D)
    BY <1>2, SplitConcat
  <1> QED
    BY <1>1, <1>3 DEF D

\* A path that continues a prefix, and its components.
LEMMA StemComponents ==
  ASSUME NEW prefix \in Texts, Absolute(prefix), NEW t \in Texts
  PROVE  Components(Append(Stem(prefix), "/") \o t) = PrefixOf(prefix) \o SplitAt(t, {"/"})
  <1> DEFINE D == {"/"}
             stem == Stem(prefix)
             path == Append(stem, "/") \o t
  <1>1. SplitAt(t, D) \in Seq(Texts) /\ "/" \in Symbols
    BY JoinSplit DEF Symbols
  <1>2. CASE prefix = <<"/">>
    <2>1. PrefixOf(prefix) = <<>> /\ Append(stem, "/") = <<"/">>
      BY <1>2, StemOfPrefix
    <2> HIDE DEF stem
    <2>2. Tail(path) = t
      BY <2>1, AfterSlash
    <2>3. <<>> \o SplitAt(t, D) = SplitAt(t, D)
      BY <1>1, ConcatEmptySeq
    <2> HIDE DEF path
    <2>4. Components(path) = PrefixOf(prefix) \o SplitAt(t, D)
      BY <2>1, <2>2, <2>3 DEF Components
    <2> QED
      BY <2>4 DEF path, stem
  <1>3. CASE prefix # <<"/">>
    <2>1. PICK v \in Texts : PrefixOf(prefix) = SplitAt(v, D) /\ stem = <<"/">> \o v
      BY <1>3, StemOfPrefix
    <2> HIDE DEF stem
    <2>2. Append(v, "/") \in Texts /\ Append(v, "/") \o t \in Texts /\ <<"/">> \in Texts
      <3>1. Append(v, "/") \in Texts /\ <<"/">> \in Texts
        BY <1>1, AppendProperties DEF Texts
      <3> QED
        BY <3>1, ConcatProperties DEF Texts
    <2>3. path = <<"/">> \o (Append(v, "/") \o t)
      <3>1. Append(<<"/">> \o v, "/") = <<"/">> \o Append(v, "/")
        OBVIOUS
      <3>2. (<<"/">> \o Append(v, "/")) \o t = <<"/">> \o (Append(v, "/") \o t)
        <4>1. Associates(<<"/">>, Append(v, "/"), t)
          BY <2>2, ConcatThree DEF Texts
        <4> QED
          BY <4>1 DEF Associates
      <3> QED
        BY <2>1, <3>1, <3>2
    <2>4. Tail(path) = Append(v, "/") \o t
      BY <2>2, <2>3, AfterSlash
    <2>5. SplitAt(Append(v, "/") \o t, D) = SplitAt(v, D) \o SplitAt(t, D)
      BY <1>1, SplitSlash
    <2> HIDE DEF path
    <2>6. Components(path) = PrefixOf(prefix) \o SplitAt(t, D)
      BY <2>1, <2>4, <2>5 DEF Components
    <2> QED
      BY <2>6 DEF path, stem
  <1> QED
    BY <1>2, <1>3

\* What proxy_target_matches asks of a path.
Continues(prefix, path) ==
  /\ IsPrefix(prefix, path)
  /\ path = prefix \/ Last(prefix) = "/" \/ IsPrefix(prefix \o <<"/">>, path)

LEMMA ContinuedPath ==
  ASSUME NEW prefix \in Texts, Absolute(prefix), NEW path \in Texts, Continues(prefix, path)
  PROVE  \/ path = prefix /\ Last(prefix) # "/" /\ Components(path) = PrefixOf(prefix)
         \/ \E t \in Texts : /\ path = Append(Stem(prefix), "/") \o t
                             /\ Components(path) = PrefixOf(prefix) \o SplitAt(t, {"/"})
  <1>1. CASE Last(prefix) = "/"
    <2>1. PICK t \in Texts : path = prefix \o t
      BY PrefixRest DEF Continues, Texts
    <2>2. Append(Stem(prefix), "/") = prefix
      BY <1>1, StemOfPrefix
    <2> QED
      BY <2>1, <2>2, StemComponents
  <1>2. CASE Last(prefix) # "/"
    <2>1. Stem(prefix) = prefix
      BY <1>2, StemOfPrefix
    <2>2. CASE path = prefix
      BY <1>2, <2>2 DEF PrefixOf
    <2>3. CASE path # prefix
      <3>1. "/" \in Symbols
        BY DEF Symbols
      <3>2. Append(prefix, "/") = prefix \o <<"/">> /\ Append(prefix, "/") \in Texts
        BY <3>1, AppendIsConcat, AppendProperties DEF Texts
      <3>3. IsPrefix(Append(prefix, "/"), path)
        BY <1>2, <2>3, <3>2 DEF Continues
      <3>4. PICK t \in Texts : path = Append(prefix, "/") \o t
        <4> DEFINE slashed == Append(prefix, "/")
        <4>1. slashed \in Seq(Symbols) /\ path \in Seq(Symbols) /\ IsPrefix(slashed, path)
          BY <3>2, <3>3 DEF Texts
        <4> HIDE DEF slashed
        <4>2. PICK t \in Seq(Symbols) : path = slashed \o t
          BY <4>1, PrefixRest
        <4> QED
          BY <4>2 DEF slashed, Texts
      <3> QED
        BY <2>1, <3>4, StemComponents
    <2> QED
      BY <2>2, <2>3
  <1> QED
    BY <1>1, <1>2

\* Below the prefix, component by component, is what proxy_target_matches
\* decides symbol by symbol.
LEMMA BelowContinues ==
  ASSUME NEW prefix \in Texts, Absolute(prefix), NEW path \in Texts
  PROVE  Below(prefix, path) <=> Absolute(path) /\ Continues(prefix, path)
  <1> DEFINE p == PrefixOf(prefix)
             all == Components(path)
             stem == Stem(prefix)
  <1>1. /\ p \in Seq(Texts) /\ stem \in Texts
        /\ Last(prefix) # "/" => stem = prefix
        /\ Last(prefix) = "/" => Append(stem, "/") = prefix
    BY StemOfPrefix
  <1>2. ASSUME Absolute(path), Continues(prefix, path) PROVE Below(prefix, path)
    <2>1. CASE path = prefix /\ Last(prefix) # "/" /\ all = p
      <3>1. IsPrefix(p, p)
        BY <1>1, LenProperties, PrefixSymbols
      <3> QED
        BY <1>2, <2>1, <3>1 DEF Below, Absolute
    <2>2. ASSUME NEW t \in Texts, all = p \o SplitAt(t, {"/"}) PROVE Below(prefix, path)
      <3>1. SplitAt(t, {"/"}) \in Seq(Texts) /\ SplitAt(t, {"/"}) # <<>>
        BY JoinSplit
      <3>2. IsPrefix(p, all)
        BY <1>1, <2>2, <3>1, AfterPrefix
      <3>3. Len(all) > Len(p)
        <4>1. Len(p) \in Nat /\ Len(SplitAt(t, {"/"})) \in Nat \ {0}
          BY <1>1, <3>1, EmptySeq, LenProperties
        <4>2. Len(all) = Len(p) + Len(SplitAt(t, {"/"}))
          BY <1>1, <2>2, <3>1, ConcatProperties
        <4> QED
          BY <4>1, <4>2
      <3> QED
        BY <1>2, <3>2, <3>3 DEF Below, Absolute
    <2> QED
      BY <1>2, <2>1, <2>2, ContinuedPath
  <1>3. ASSUME Below(prefix, path) PROVE Absolute(path) /\ Continues(prefix, path)
    <2>1. /\ Absolute(path) /\ IsPrefix(p, all)
          /\ Last(prefix) = "/" => Len(all) > Len(p)
      BY <1>3 DEF Below, Absolute
    <2>2. Tail(path) \in Texts /\ path = <<"/">> \o Tail(path)
      BY <2>1, TailOfText DEF Absolute, Texts
    <2>3. all \in Seq(Texts) /\ Joined(all) = path
      BY <2>2, JoinSplit DEF Components
    <2> HIDE DEF all, p
    <2>4. PICK r \in Seq(Texts) : all = p \o r
      BY <1>1, <2>1, <2>3, PrefixRest
    <2>5. path = stem \o Joined(r)
      BY <1>1, <2>3, <2>4, JoinConcat DEF Stem, p
    <2> HIDE DEF stem
    <2>6. CASE r = <<>>
      <3>1. Joined(r) = <<>> /\ all = p
        BY <1>1, <2>4, <2>6, SlashedAppend, ConcatEmptySeq
      <3>2. Last(prefix) # "/"
        BY <1>1, <2>1, <3>1, LenProperties
      <3>3. path = prefix
        BY <1>1, <2>5, <3>1, <3>2, ConcatEmptySeq DEF Texts
      <3>4. IsPrefix(prefix, prefix)
        BY LenProperties, PrefixSymbols DEF Texts
      <3> QED
        BY <2>1, <3>3, <3>4 DEF Continues
    <2>7. CASE r # <<>>
      <3>1. PICK t \in Texts : Joined(r) = <<"/">> \o t
        BY <2>7, JoinedFirst
      <3>2. "/" \in Symbols /\ <<"/">> \in Texts
        BY DEF Symbols, Texts
      <3>3. path = Append(stem, "/") \o t
        <4>1. (stem \o <<"/">>) \o t = stem \o (<<"/">> \o t)
          <5>1. Associates(stem, <<"/">>, t)
            BY <1>1, <3>2, ConcatThree DEF Texts
          <5> QED
            BY <5>1 DEF Associates
        <4>2. Append(stem, "/") = stem \o <<"/">>
          BY <1>1, <3>2, AppendIsConcat DEF Texts
        <4> QED
          BY <2>5, <3>1, <4>1, <4>2
      <3>4. CASE Last(prefix) = "/"
        <4>1. IsPrefix(prefix, prefix \o t)
          BY AfterPrefix DEF Texts
        <4> QED
          BY <1>1, <2>1, <3>3, <3>4, <4>1 DEF Continues
      <3>5. CASE Last(prefix) # "/"
        <4>1. Append(prefix, "/") = prefix \o <<"/">> /\ prefix \o <<"/">> \in Texts
          BY <3>2, AppendIsConcat, ConcatProperties DEF Texts
        <4>2. path = (prefix \o <<"/">>) \o t
          BY <1>1, <3>3, <3>5, <4>1
        <4>3. IsPrefix(prefix \o <<"/">>, path)
          BY <4>1, <4>2, AfterPrefix DEF Texts
        <4>4. path = prefix \o (<<"/">> \o t) /\ <<"/">> \o t \in Texts
          <5>1. Associates(prefix, <<"/">>, t)
            BY <3>2, ConcatThree DEF Texts
          <5>2. <<"/">> \o t \in Texts
            BY <3>2, ConcatProperties DEF Texts
          <5> QED
            BY <4>2, <5>1, <5>2 DEF Associates
        <4>5. IsPrefix(prefix, path)
          BY <4>4, AfterPrefix DEF Texts
        <4> QED
          BY <2>1, <4>3, <4>5 DEF Continues
      <3> QED
        BY <3>4, <3>5
    <2> QED
      BY <2>6, <2>7
  <1> QED
    BY <1>2, <1>3

\* A target is its path and its query.
LEMMA TargetParts ==
  ASSUME NEW target \in Texts
  PROVE  /\ PathOf(target) \in Texts
         /\ Absolute(target) <=> Absolute(PathOf(target))
  <1> DEFINE at == QueryAt(target)
             path == SubSeq(target, 1, at - 1)
  <1>1. /\ at \in 0..Len(target)
        /\ at = 0 => \A i \in 1..Len(target) : target[i] # "?"
        /\ at # 0 => /\ at \in 1..Len(target) /\ target[at] = "?"
                     /\ \A i \in 1..(at - 1) : target[i] # "?"
    BY FirstFound, Zenon DEF QueryAt, Texts
  <1>2. Len(target) \in Nat
    BY LenProperties DEF Texts
  <1>3. CASE at = 0
    BY <1>3 DEF PathOf
  <1>4. CASE at # 0
    <2> HIDE DEF at
    <2>1. PathOf(target) = path
      BY <1>4 DEF PathOf, at
    <2>2. 1 \in 1..(Len(target) + 1) /\ at - 1 \in 0..Len(target) /\ at \in Nat \ {0}
      BY <1>1, <1>2, <1>4
    <2>3. /\ path \in Seq(Symbols) /\ Len(path) = IF 1 <= at - 1 THEN at - 1 - 1 + 1 ELSE 0
          /\ \A n \in 1..(at - 1 - 1 + 1) : path[n] = target[1 + n - 1]
      BY <2>2, Stretch DEF Texts
    <2> HIDE DEF path
    <2>4. ASSUME Absolute(target) PROVE Absolute(path)
      <3>1. target[1] = "/"
        BY <2>4 DEF Absolute
      <3>2. at # 1
        BY <1>1, <1>4, <3>1
      <3>3. 1 \in 1..(at - 1 - 1 + 1) /\ Len(path) # 0 /\ 1 + 1 - 1 = 1
        BY <2>2, <2>3, <3>2
      <3>4. path # <<>> /\ path[1] = target[1]
        BY <2>3, <3>3, EmptySeq
      <3> QED
        BY <3>1, <3>4 DEF Absolute
    <2>5. ASSUME Absolute(path) PROVE Absolute(target)
      <3>1. path # <<>> /\ path[1] = "/"
        BY <2>5 DEF Absolute
      <3>2. Len(path) # 0
        BY <2>3, <3>1, EmptySeq
      <3>3. 1 \in 1..(at - 1 - 1 + 1) /\ 1 + 1 - 1 = 1
        BY <2>2, <2>3, <3>2
      <3>4. target[1] = "/"
        BY <2>3, <3>1, <3>3
      <3>5. target # <<>>
        <4>1. Len(target) # 0
          BY <1>1, <1>2, <1>4
        <4> QED
          BY <4>1, EmptySeq
      <3> QED
        BY <3>4, <3>5 DEF Absolute
    <2> QED
      BY <2>1, <2>3, <2>4, <2>5 DEF Texts
  <1> QED
    BY <1>3, <1>4

\* proxy_target_matches is true exactly of the targets below the prefix.
LEMMA MatchesBelow ==
  ASSUME NEW prefix \in Texts, Absolute(prefix), NEW target \in Texts
  PROVE  ProxyTargetMatches(target, prefix) <=> Below(prefix, PathOf(target))
  <1> DEFINE path == PathOf(target)
  <1>1. path \in Texts /\ (Absolute(target) <=> Absolute(path))
    BY TargetParts
  <1>2. Below(prefix, path) <=> Absolute(path) /\ Continues(prefix, path)
    BY <1>1, BelowContinues
  <1> HIDE DEF path
  <1>3. CASE prefix = <<"/">>
    <2>1. ProxyTargetMatches(target, prefix) <=> Absolute(target)
      BY <1>3 DEF ProxyTargetMatches, Absolute
    <2>2. Absolute(path) => Continues(prefix, path)
      <3> SUFFICES ASSUME Absolute(path) PROVE Continues(prefix, path)
        OBVIOUS
      <3>1. Tail(path) \in Texts /\ path = <<"/">> \o Tail(path)
        BY <1>1, TailOfText DEF Absolute, Texts
      <3>2. IsPrefix(prefix, prefix \o Tail(path))
        BY <3>1, AfterPrefix DEF Texts
      <3>3. Last(prefix) = "/"
        BY <1>3, StemOfPrefix
      <3> QED
        BY <1>3, <3>1, <3>2, <3>3 DEF Continues
    <2> QED
      BY <1>1, <1>2, <2>1, <2>2 DEF path
  <1>4. CASE prefix # <<"/">>
    <2>1. ProxyTargetMatches(target, prefix) <=> Continues(prefix, path)
      BY <1>4 DEF ProxyTargetMatches, Continues, Absolute, path
    <2>2. Continues(prefix, path) => Absolute(path)
      <3> SUFFICES ASSUME Continues(prefix, path) PROVE Absolute(path)
        OBVIOUS
      <3>1. Len(prefix) <= Len(path) /\ \A i \in 1..Len(prefix) : prefix[i] = path[i]
        BY <1>1, PrefixSymbols DEF Continues, Texts
      <3>2. Len(prefix) \in Nat \ {0} /\ Len(path) \in Nat /\ prefix[1] = "/"
        BY <1>1, EmptySeq, LenProperties DEF Absolute, Texts
      <3>3. path[1] = "/" /\ Len(path) # 0
        BY <3>1, <3>2
      <3> QED
        BY <1>1, <3>3, EmptySeq DEF Absolute, Texts
    <2> QED
      BY <1>2, <2>1, <2>2 DEF path
  <1> QED
    BY <1>3, <1>4

-----------------------------------------------------------------------------
(* What goes upstream *)

\* proxy_upstream_path keeps the components below the prefix.
LEMMA PathSent ==
  ASSUME NEW prefix \in Texts, Absolute(prefix), NEW target \in Texts, NEW strip,
         Below(prefix, PathOf(target))
  PROVE  ProxyUpstreamPath(target, prefix, strip)
           = (IF strip THEN PathFrom(BelowPrefix(prefix, PathOf(target))) ELSE PathOf(target))
               \o QueryOf(target)
  <1> DEFINE path == PathOf(target)
             rest == BelowPrefix(prefix, path)
             all == Components(path)
             p == PrefixOf(prefix)
             cut == SubSeq(path, Len(prefix) + 1, Len(path))
             Made(left) == IF left = <<>> \/ left[1] # "/" THEN <<"/">> \o left ELSE left
  <1>1. path \in Texts
    BY TargetParts
  <1>2. Absolute(path) /\ Continues(prefix, path)
    BY <1>1, BelowContinues
  <1>3. prefix # <<>> /\ IsPrefix(prefix, path) /\ path # <<>>
    BY <1>2 DEF Continues, Absolute
  <1>4. ProxyUpstreamPath(target, prefix, strip) =
          Made(IF strip /\ prefix # <<"/">> THEN cut ELSE path) \o QueryOf(target)
    BY <1>3, Zenon DEF ProxyUpstreamPath
  <1>5. /\ p \in Seq(Texts)
        /\ Last(prefix) # "/" => Stem(prefix) = prefix
        /\ Last(prefix) = "/" => Append(Stem(prefix), "/") = prefix
        /\ prefix = <<"/">> => p = <<>>
    BY StemOfPrefix
  <1>6. Tail(path) \in Texts /\ path = <<"/">> \o Tail(path)
    BY <1>1, <1>2, TailOfText DEF Absolute, Texts
  <1>7. all \in Seq(Texts) /\ all # <<>> /\ Joined(all) = path
    BY <1>6, JoinSplit DEF Components
  <1>8. Made(path) = path
    BY <1>2 DEF Absolute
  <1>9. rest = LET r == SubSeq(all, Len(p) + 1, Len(all))
               IN IF prefix # <<"/">> /\ Last(prefix) = "/" /\ Len(r) > 1 /\ r[1] = <<>>
                  THEN Tail(r) ELSE r
    BY DEF BelowPrefix
  <1> HIDE DEF rest, all, p, path, cut
  <1> SUFFICES ASSUME strip
               PROVE  Made(IF prefix # <<"/">> THEN cut ELSE path) = PathFrom(rest)
    BY <1>4, <1>8 DEF path, rest
  <1>10. CASE prefix = <<"/">>
    <2>1. Len(p) + 1 = 1
      BY <1>5, <1>10
    <2>2. SubSeq(all, 1, Len(all)) = all
      BY <1>7, SubSeqFull
    <2>3. rest = all
      BY <1>9, <1>10, <2>1, <2>2
    <2>4. PathFrom(all) = path
      BY <1>7 DEF PathFrom, Joined
    <2> QED
      BY <1>8, <1>10, <2>3, <2>4
  <1>11. CASE prefix # <<"/">> /\ path = prefix /\ Last(prefix) # "/" /\ all = p
    <2>1. PICK e \in Texts, n \in Seq(Texts) : e = <<>> /\ n = <<>>
      BY EmptySeq DEF Texts
    <2>2. path \o e = path /\ all \o n = all
      BY <1>1, <1>7, <2>1, ConcatEmptySeq DEF Texts
    <2>3. SubSeq(path \o e, Len(path) + 1, Len(path \o e)) = e
      BY <1>1, AfterPrefix DEF Texts
    <2>4. SubSeq(all \o n, Len(all) + 1, Len(all \o n)) = n
      BY <1>7, AfterPrefix
    <2>5. cut = <<>> /\ rest = <<>>
      BY <1>9, <1>11, <2>1, <2>2, <2>3, <2>4 DEF cut
    <2>6. Made(<<>>) = <<"/">>
      OBVIOUS
    <2> QED
      BY <1>11, <2>5, <2>6 DEF PathFrom
  <1>12. ASSUME NEW t \in Texts, prefix # <<"/">>,
                path = Append(Stem(prefix), "/") \o t, all = p \o SplitAt(t, {"/"})
         PROVE  Made(cut) = PathFrom(rest)
    <2> DEFINE r == SplitAt(t, {"/"})
    <2>1. /\ r \in Seq(Texts) /\ r # <<>> /\ Joined(r) = <<"/">> \o t
          /\ PathFrom(r) = <<"/">> \o t
      BY JoinSplit DEF PathFrom, Joined
    <2>2. SubSeq(all, Len(p) + 1, Len(all)) = r
      BY <1>5, <1>12, <2>1, AfterPrefix
    <2>3. /\ <<"/">> \in Texts /\ <<"/">> \o t \in Texts /\ <<"/">> \o t # <<>>
          /\ (<<"/">> \o t)[1] = "/" /\ "/" \in Symbols
      BY AfterSlash DEF Symbols, Texts
    <2> HIDE DEF r
    <2>4. CASE Last(prefix) # "/"
      <3>1. path = prefix \o (<<"/">> \o t)
        <4>1. Append(prefix, "/") = prefix \o <<"/">>
          BY <2>3, AppendIsConcat DEF Texts
        <4>2. (prefix \o <<"/">>) \o t = prefix \o (<<"/">> \o t)
          <5>1. Associates(prefix, <<"/">>, t)
            BY <2>3, ConcatThree DEF Texts
          <5> QED
            BY <5>1 DEF Associates
        <4> QED
          BY <1>5, <1>12, <2>4, <4>1, <4>2
      <3>2. cut = <<"/">> \o t
        BY <2>3, <3>1, AfterPrefix DEF cut, Texts
      <3>3. rest = r
        BY <1>9, <2>2, <2>4
      <3> QED
        BY <2>1, <2>3, <3>2, <3>3
    <2>5. CASE Last(prefix) = "/"
      <3>1. cut = t
        BY <1>5, <1>12, <2>5, AfterPrefix DEF cut, Texts
      <3>2. rest = IF Len(r) > 1 /\ r[1] = <<>> THEN Tail(r) ELSE r
        BY <1>9, <1>12, <2>2, <2>5
      <3>3. CASE t # <<>> /\ t[1] = "/"
        <4>1. Tail(t) \in Texts /\ t = <<"/">> \o Tail(t)
          BY <3>3, TailOfText DEF Texts
        <4> DEFINE u == SplitAt(Tail(t), {"/"})
        <4>2. u \in Seq(Texts) /\ u # <<>> /\ Joined(u) = <<"/">> \o Tail(t)
          BY <4>1, JoinSplit
        <4>3. r = << <<>> >> \o u
          <5>1. PICK e \in Texts : e = <<>>
            BY EmptySeq DEF Texts
          <5>2. SplitAt(Append(e, "/") \o Tail(t), {"/"}) = SplitAt(e, {"/"}) \o u
            BY <4>1, <5>1, SplitSlash
          <5>3. Append(e, "/") = <<"/">>
            BY <5>1
          <5>4. SplitAt(e, {"/"}) = << <<>> >>
            BY <5>1, SplitStep DEF Texts
          <5> QED
            BY <4>1, <5>2, <5>3, <5>4 DEF r
        <4> HIDE DEF u
        <4>4. r[1] = <<>> /\ Len(r) > 1 /\ Tail(r) = u
          <5>1. PICK n \in Seq(Texts) : n = << <<>> >>
            <6>1. PICK e \in Texts : e = <<>>
              BY EmptySeq DEF Texts
            <6>2. <<e>> \in Seq(Texts)
              OBVIOUS
            <6> QED
              BY <6>1, <6>2
          <5>2. Len(n) = 1 /\ n[1] = <<>> /\ r = n \o u
            BY <4>3, <5>1
          <5>3. Len(u) \in Nat \ {0}
            BY <4>2, EmptySeq
          <5>4. Len(r) = 1 + Len(u) /\ r[1] = n[1]
            <6>1. 1 \in 1..(1 + Len(u)) /\ 1 <= 1
              BY <5>3
            <6>2. /\ Len(n \o u) = Len(n) + Len(u)
                  /\ \A i \in 1..(Len(n) + Len(u)) : (n \o u)[i] = IF i <= Len(n) THEN n[i] ELSE u[i - Len(n)]
              BY <4>2, ConcatProperties
            <6> HIDE DEF r
            <6>3. PICK z : z = n \o u
              OBVIOUS
            <6>4. Len(z) = 1 + Len(u) /\ z[1] = n[1]
              BY <5>2, <6>1, <6>2, <6>3
            <6> QED
              BY <5>2, <6>3, <6>4
          <5>5. r = <<r[1]>> \o Tail(r) /\ Tail(r) \in Seq(Texts)
            BY <2>1, TailOfText
          <5>6. n \o Tail(r) = n \o u
            BY <5>1, <5>2, <5>4, <5>5
          <5>7. Tail(r) = u
            BY <4>2, <5>5, <5>6, ConcatSimplifications
          <5> QED
            BY <5>2, <5>3, <5>4, <5>7
        <4>5. PathFrom(rest) = t
          BY <3>2, <4>1, <4>2, <4>4 DEF PathFrom, Joined
        <4> QED
          BY <3>1, <3>3, <4>5
      <3>4. CASE ~(t # <<>> /\ t[1] = "/")
        <4>1. ~(Len(r) > 1 /\ r[1] = <<>>)
          <5> SUFFICES ASSUME Len(r) > 1, r[1] = <<>> PROVE FALSE
            OBVIOUS
          <5>1. r = <<r[1]>> \o Tail(r) /\ Tail(r) \in Seq(Texts) /\ Len(Tail(r)) = Len(r) - 1
                /\ Len(r) \in Nat \ {0}
            BY <2>1, TailOfText
          <5>2. Len(Tail(r)) # 0
            BY <5>1
          <5>3. Tail(r) # <<>>
            BY <5>2, EmptySeq
          <5>4. PICK v \in Texts : Joined(Tail(r)) = <<"/">> \o v
            BY <5>1, <5>3, JoinedFirst
          <5>5. PICK e \in Texts, n \in Seq(Texts) : e = <<>> /\ n = <<>>
            BY EmptySeq DEF Texts
          <5>6. Joined(<<e>>) = <<"/">>
            <6>1. Append(n, e) = <<e>>
              BY <5>5
            <6>2. Joined(Append(n, e)) = Joined(n) \o (<<"/">> \o e) /\ Joined(n) = <<>>
              BY <5>5, SlashedAppend
            <6>3. <<"/">> \o e = <<"/">> /\ <<>> \o <<"/">> = <<"/">>
              BY <2>3, <5>5, ConcatEmptySeq DEF Texts
            <6> QED
              BY <6>1, <6>2, <6>3
          <5>7. Joined(r) = <<"/">> \o (<<"/">> \o v)
            <6>1. <<e>> \in Seq(Texts)
              OBVIOUS
            <6>2. Joined(<<e>> \o Tail(r)) = Joined(<<e>>) \o Joined(Tail(r))
              BY <5>1, <6>1, JoinConcat, Zenon
            <6> QED
              BY <5>1, <5>4, <5>5, <5>6, <6>2
          <5>8. t = <<"/">> \o v
            <6>1. Tail(<<"/">> \o t) = t
              BY AfterSlash
            <6>2. <<"/">> \o v \in Texts
              BY AfterSlash
            <6>3. Tail(<<"/">> \o (<<"/">> \o v)) = <<"/">> \o v
              BY <6>2, AfterSlash
            <6> QED
              BY <2>1, <5>7, <6>1, <6>3, Zenon
          <5>9. t # <<>> /\ t[1] = "/"
            BY <5>8, AfterSlash
          <5> QED
            BY <3>4, <5>9
        <4>2. rest = r
          BY <3>2, <4>1
        <4> QED
          BY <2>1, <3>1, <3>4, <4>2
      <3> QED
        BY <3>3, <3>4
    <2> QED
      BY <2>4, <2>5
  <1>13. \/ path = prefix /\ Last(prefix) # "/" /\ all = p
         \/ \E t \in Texts : path = Append(Stem(prefix), "/") \o t /\ all = p \o SplitAt(t, {"/"})
    BY <1>1, <1>2, ContinuedPath DEF all, p
  <1> QED
    BY <1>10, <1>11, <1>12, <1>13

\* The headers: the hop's own, a length that is the body's, and every end-to-end
\* header as it came.
LEMMA HeadersSent ==
  ASSUME NEW req \in Requests, NEW target, NEW c
  PROVE  LET sent == BuildUpstreamRequest(req, target, c)
         IN /\ sent.method = req.method /\ sent.body = req.body
            /\ sent.path = ProxyUpstreamPath(req.target, c.prefix, c.strip)
            /\ DOMAIN sent.headers \cap HopByHop = {"connection"}
            /\ sent.headers["connection"] = <<"keep-alive">>
            /\ (sent.body # <<>> \/ "content-length" \in DOMAIN sent.headers)
                 => sent.headers["content-length"] = Decimal(Len(sent.body))
            /\ \A n \in DOMAIN req.headers \ (HopByHop \cup Replaced) :
                 ValidValue(req.headers[n]) => Get(sent.headers, n) = req.headers[n]
  <1> DEFINE sent == BuildUpstreamRequest(req, target, c)
             endToEnd == RestrictDomain(req.headers, LAMBDA n : /\ n \notin Replaced \cup HopByHop
                                                                /\ ValidValue(req.headers[n]))
             framing == Framing(req.headers, req.body)
             mine == ForwardingHeaders(req.headers, target, "peer")
             inner == Overlay(mine, endToEnd)
             middle == Overlay(framing, inner)
             all == Overlay(OurHop, middle)
  <1>1. /\ sent.method = req.method /\ sent.body = req.body
        /\ sent.path = ProxyUpstreamPath(req.target, c.prefix, c.strip)
        /\ sent.headers = all
    BY DEF BuildUpstreamRequest
  <1>2. /\ DOMAIN endToEnd = {n \in DOMAIN req.headers : /\ n \notin Replaced \cup HopByHop
                                                         /\ ValidValue(req.headers[n])}
        /\ \A n \in DOMAIN endToEnd : endToEnd[n] = req.headers[n]
    BY DEF RestrictDomain, Restrict
  <1>3. /\ DOMAIN framing = IF req.body # <<>> \/ "content-length" \in DOMAIN req.headers
                            THEN {"content-length"} ELSE {}
        /\ "content-length" \in DOMAIN framing => framing["content-length"] = Decimal(Len(req.body))
    BY DEF Framing, SetHeader, NoHeaders
  <1>4. DOMAIN mine \subseteq {"host", "x-forwarded-for", "x-forwarded-proto", "x-forwarded-host"}
    BY DEF ForwardingHeaders, RestrictDomain, Restrict
  <1>5. DOMAIN OurHop = {"connection"} /\ OurHop["connection"] = <<"keep-alive">>
    BY DEF OurHop
  <1> HIDE DEF endToEnd, framing, mine, sent
  <1>6. /\ DOMAIN inner = DOMAIN mine \cup DOMAIN endToEnd
        /\ \A n \in DOMAIN endToEnd : n \notin DOMAIN mine => inner[n] = endToEnd[n]
    BY DEF Overlay
  <1> HIDE DEF inner
  <1>7. /\ DOMAIN middle = DOMAIN framing \cup DOMAIN inner
        /\ \A n \in DOMAIN framing : middle[n] = framing[n]
        /\ \A n \in DOMAIN inner : n \notin DOMAIN framing => middle[n] = inner[n]
    BY DEF Overlay
  <1> HIDE DEF middle
  <1>8. /\ DOMAIN all = DOMAIN OurHop \cup DOMAIN middle
        /\ \A n \in DOMAIN OurHop : all[n] = OurHop[n]
        /\ \A n \in DOMAIN middle : n \notin DOMAIN OurHop => all[n] = middle[n]
    BY DEF Overlay
  <1> HIDE DEF all
  <1>9. /\ \A n \in HopByHop \cup {"content-length"} : n \notin DOMAIN inner
        /\ "connection" # "content-length" /\ "content-length" \notin HopByHop
    BY <1>2, <1>4, <1>6 DEF HopByHop, Replaced
  <1>10. DOMAIN all \cap HopByHop = {"connection"} /\ all["connection"] = <<"keep-alive">>
    <2>1. "connection" \in HopByHop
      BY DEF HopByHop
    <2> QED
      BY <1>3, <1>5, <1>7, <1>8, <1>9, <2>1
  <1>11. (req.body # <<>> \/ "content-length" \in DOMAIN all)
           => all["content-length"] = Decimal(Len(req.body))
    <2> SUFFICES ASSUME req.body # <<>> \/ "content-length" \in DOMAIN all
                 PROVE  all["content-length"] = Decimal(Len(req.body))
      OBVIOUS
    <2>1. "content-length" \in DOMAIN framing
      BY <1>3, <1>5, <1>7, <1>8, <1>9
    <2>2. "content-length" \in DOMAIN middle /\ middle["content-length"] = framing["content-length"]
      BY <1>7, <2>1
    <2>3. all["content-length"] = middle["content-length"]
      BY <1>5, <1>8, <1>9, <2>2
    <2> QED
      BY <1>3, <2>1, <2>2, <2>3
  <1>12. ASSUME NEW n \in DOMAIN req.headers \ (HopByHop \cup Replaced), ValidValue(req.headers[n])
         PROVE  Get(all, n) = req.headers[n]
    <2>1. n \in DOMAIN endToEnd /\ endToEnd[n] = req.headers[n]
      BY <1>2, <1>12
    <2>2. n \notin DOMAIN mine /\ n \notin DOMAIN framing /\ n \notin DOMAIN OurHop
      BY <1>3, <1>4, <1>5 DEF HopByHop, Replaced
    <2>3. n \in DOMAIN all /\ all[n] = req.headers[n]
      BY <1>6, <1>7, <1>8, <2>1, <2>2
    <2> QED
      BY <2>3 DEF Get
  <1> QED
    BY <1>1, <1>10, <1>11, <1>12 DEF sent

\* A job and a forwarded request belong to the exchange in hand.
ForwardInv ==
  /\ TextInv /\ FramingInv /\ ForwardedAsAsked
  /\ phase = "reading" => job = NoJob

LEMMA ForwardDispatch ==
  ASSUME ForwardInv, phase = "reading", NEW req \in Requests, Dispatch(req), cfg' = cfg
  PROVE  ForwardedAsAsked' /\ phase' # "reading"
  <1> DEFINE path == PathOf(req.target)
  <1>1. /\ forwarded = <<>> /\ job = NoJob /\ request' = <<req>> /\ cfg \in Configs
        /\ req.target \in Texts /\ path \in Texts
    <2>1. req.target \in Texts
      BY DEF Requests
    <2>2. path \in Texts
      BY <2>1, TargetParts
    <2> QED
      BY <2>1, <2>2 DEF ForwardInv, FramingInv, AnswersInTurn, Dispatch, TextInv
  <1>2. GoesUpstream(req) <=> cfg.proxyEnabled /\ Below(cfg.prefix, path)
    <2>1. cfg.prefix \in Texts
      BY <1>1, ConfigTyped
    <2>2. cfg.proxyEnabled => Absolute(cfg.prefix)
      BY <1>1, PrefixAssumption DEF Absolute
    <2>3. cfg.proxyEnabled => (ProxyTargetMatches(req.target, cfg.prefix) <=> Below(cfg.prefix, path))
      BY <1>1, <2>1, <2>2, MatchesBelow
    <2> QED
      BY <2>3 DEF GoesUpstream
  <1>3. CASE AnswerRoute(req) \/ AnswerUpgrade(req) \/ RefuseProxy(req)
    <2>1. forwarded' = <<>> /\ job' = NoJob /\ phase' \in {"writing", "closed"}
      BY <1>1, <1>3, Zenon DEF AnswerRoute, AnswerUpgrade, RefuseProxy, AnswerWith
    <2> QED
      BY <2>1 DEF ForwardedAsAsked
  <1>4. CASE StartProxy(req)
    <2> DEFINE target == ParseProxyTarget(cfg.proxyPass)[1]
               sent == BuildUpstreamRequest(req, target, cfg)
    <2>1. /\ forwarded' = <<sent>> /\ job' = NoJob /\ phase' = "proxying"
          /\ cfg.proxyEnabled /\ Below(cfg.prefix, path)
      BY <1>1, <1>2, <1>4, Zenon DEF StartProxy, ForTheProxy
    <2>2. /\ sent.method = req.method /\ sent.body = req.body
          /\ sent.path = ProxyUpstreamPath(req.target, cfg.prefix, cfg.strip)
          /\ DOMAIN sent.headers \cap HopByHop = {"connection"}
          /\ sent.headers["connection"] = <<"keep-alive">>
          /\ (sent.body # <<>> \/ "content-length" \in DOMAIN sent.headers)
               => sent.headers["content-length"] = Decimal(Len(sent.body))
          /\ \A n \in DOMAIN req.headers \ (HopByHop \cup Replaced) :
               ValidValue(req.headers[n]) => Get(sent.headers, n) = req.headers[n]
      BY HeadersSent
    <2>3. ProxyUpstreamPath(req.target, cfg.prefix, cfg.strip) =
            (IF cfg.strip THEN PathFrom(BelowPrefix(cfg.prefix, path)) ELSE path) \o QueryOf(req.target)
      <3>1. cfg.prefix \in Texts /\ Absolute(cfg.prefix)
        BY <1>1, <2>1, ConfigTyped, PrefixAssumption DEF Absolute
      <3> QED
        BY <1>1, <2>1, <3>1, PathSent
    <2> HIDE DEF sent, target
    <2>4. forwarded'[1] = sent /\ request'[1] = req
      BY <1>1, <2>1
    <2> QED
      BY <1>1, <2>1, <2>2, <2>3, <2>4 DEF ForwardedAsAsked
  <1>5. CASE StartFile(req)
    <2>1. forwarded' = <<>> /\ phase' \in {"working", "closed"} /\ ~GoesUpstream(req)
      BY <1>1, <1>5, Zenon DEF StartFile
    <2>2. request'[1] = req
      BY <1>1
    <2> QED
      BY <1>2, <2>1, <2>2 DEF ForwardedAsAsked
  <1> QED
    BY <1>3, <1>4, <1>5 DEF Dispatch

LEMMA ForwardStep == ForwardInv /\ [Next]_vars => ForwardInv'
  <1> SUFFICES ASSUME ForwardInv, [Next]_vars PROVE ForwardInv'
    OBVIOUS
  <1>1. TextInv' /\ FramingInv'
    BY TextStep, FramingStep DEF ForwardInv
  <1> DEFINE Goal == ForwardedAsAsked' /\ (phase' = "reading" => job' = NoJob)
  <1> SUFFICES Goal
    BY <1>1 DEF ForwardInv
  <1>2. ForwardedAsAsked /\ (phase = "reading" => job = NoJob)
    BY DEF ForwardInv
  <1>3. ASSUME NEW n, Receive(n) PROVE Goal
    <2>1. phase = "reading" /\ cfg' = cfg
      BY <1>3 DEF Receive
    <2>2. CASE Dispatch(parser'.request)
      <3>1. parser'.request \in Requests
        BY <1>1, ParserParts DEF TextInv
      <3>2. ForwardedAsAsked' /\ phase' # "reading"
        BY <2>1, <2>2, <3>1, ForwardDispatch
      <3> QED
        BY <3>2
    <2>3. CASE ~Dispatch(parser'.request)
      <3>1. forwarded' = forwarded /\ request' = request /\ job' = job
        BY <1>3, <2>3 DEF Receive, exchangeVars
      <3> QED
        BY <1>2, <2>1, <3>1 DEF ForwardedAsAsked
    <2> QED
      BY <2>2, <2>3
  <1>4. CASE Flush
    <2>1. CASE phase' = "reading"
      <3>1. forwarded' = <<>> /\ job' = NoJob
        BY <1>4, <2>1 DEF Flush
      <3> QED
        BY <3>1 DEF ForwardedAsAsked
    <2>2. CASE phase' # "reading"
      <3>1. forwarded' = forwarded /\ request' = request /\ job' = job /\ cfg' = cfg
        BY <1>4, <2>2 DEF Flush, exchangeVars
      <3> QED
        BY <1>2, <2>2, <3>1 DEF ForwardedAsAsked
    <2> QED
      BY <2>1, <2>2
  <1>5. CASE /\ forwarded' = forwarded /\ request' = request /\ cfg' = cfg
             /\ job' # NoJob => job # NoJob
             /\ phase' = "reading" => phase = "reading" /\ job' = job
    BY <1>2, <1>5 DEF ForwardedAsAsked
  <1>6. ASSUME NEW m, Send(m) PROVE Goal
    BY <1>5, <1>6 DEF Send, exchangeVars, fileVars
  <1>7. ASSUME NEW o, UpstreamSettles(o) PROVE Goal
    <2>1. /\ forwarded' = forwarded /\ request' = request /\ cfg' = cfg /\ job' = job
          /\ phase' \in {"writing", "closed"}
      BY <1>7, Zenon DEF UpstreamSettles, AnswerWith, exchangeVars, fileVars
    <2> QED
      BY <1>5, <2>1
  <1>8. CASE FileSettles
    <2>1. /\ forwarded' = forwarded /\ request' = request /\ cfg' = cfg /\ job' = job
          /\ phase' \in {"writing", "closed"}
      BY <1>8, Zenon DEF FileSettles, AnswerWith, exchangeVars, fileVars
    <2> QED
      BY <1>5, <2>1
  <1>9. CASE Work
    <2>1. forwarded' = forwarded /\ request' = request /\ cfg' = cfg /\ phase' = phase /\ phase = "working"
      BY <1>9, Zenon DEF Work, exchangeVars
    <2>2. job' # job => job # NoJob
      <3>1. StepFile => job # NoJob
        BY DEF StepFile, NoJob
      <3> QED
        BY <1>9, <3>1, Zenon DEF Work, Withdraw, Deploy
    <2> QED
      BY <1>5, <2>1, <2>2
  <1>10. CASE Leave \/ UNCHANGED vars
    <2>1. /\ forwarded' = forwarded /\ request' = request /\ cfg' = cfg /\ job' = job
          /\ phase' = phase \/ phase' = "closed"
      BY <1>10, Zenon DEF Leave, vars, exchangeVars, fileVars
    <2> QED
      BY <1>5, <2>1
  <1> QED
    BY <1>3, <1>4, <1>6, <1>7, <1>8, <1>9, <1>10 DEF Next, Gone

\* What goes upstream is what was asked, below the prefix and with its query, as
\* a message of the server's own hop; and no request below the prefix is looked
\* up as a file: whatever the prefix, the target and the headers
\* (proxy_target_matches, proxy_upstream_path, build_upstream_request).
THEOREM AlwaysForwardedAsAsked == Spec => []ForwardedAsAsked
  <1>1. Init => ForwardInv
    BY FreshParserTyped, EmptySeq
       DEF Init, ForwardInv, TextInv, Texts, FramingInv, AnswersInTurn, JobSettles, JobFields, NoJob,
           BodiesDelimited, ForwardedAsAsked
  <1>2. ForwardInv => ForwardedAsAsked
    BY DEF ForwardInv
  <1> QED
    BY <1>1, <1>2, ForwardStep, PTL DEF Spec
-----------------------------------------------------------------------------
(* What the parser makes of a message *)

\* Before anything of a message has come, while it comes, and afterwards.
Idle == wire = <<>> /\ parser = FreshParser /\ request = <<>>
Reading(m) ==
  /\ request = <<>> /\ parser.state \notin {"Complete", "Error"}
  /\ Reads(parser, wire, m)
  /\ WellFormed(m) => wire # <<>>
Served(m) ==
  WellFormed(m) => parser.state # "Error" /\ wire = <<>> /\ request = <<Meaning(m)>>

ParseInv ==
  /\ TextInv
  /\ msg # <<>> => \E m \in Messages \cup Followups : msg = <<m>>
  /\ phase \notin {"reading", "closed"} => wire = <<>>
  /\ phase = "reading" /\ msg = <<>> => Idle
  /\ phase = "reading" /\ msg # <<>> => Reading(msg[1])
  /\ phase # "reading" /\ msg # <<>> => Served(msg[1])

\* More of the message comes.
LEMMA ParseReceive ==
  ASSUME ParseInv, NEW n \in Segments, Receive(n)
  PROVE  ParseInv'
  <1>1. /\ TextInv /\ TextInv' /\ parser' \in Parsers /\ parser \in Parsers
        /\ n \in 1..Len(wire) /\ Len(wire) \in Nat
    BY ReceiveTyped DEF ParseInv, TextInv
  <1>2. phase = "reading" /\ msg # <<>> /\ msg' = msg
    BY DEF ParseInv, Idle, Receive
  <1>3. PICK m \in Messages \cup Followups : msg = <<m>>
    BY <1>2 DEF ParseInv
  <1>4. msg[1] = m /\ msg'[1] = m
    BY <1>2, <1>3
  <1>5. OneMessage(m)
    BY MessageParts
  <1>6. Reading(m)
    BY <1>2, <1>4 DEF ParseInv
  <1> DEFINE data == SubSeq(wire, 1, n)
  <1>7. data \in Texts /\ wire' \in Texts /\ wire = data \o wire'
    <2>1. n \in 0..Len(wire)
      BY <1>1
    <2>2. wire \in Seq(Symbols)
      BY <1>1 DEF TextInv, Texts
    <2>3. wire' = SubSeq(wire, n + 1, Len(wire))
      BY DEF Receive
    <2> QED
      BY <2>1, <2>2, <2>3, CutAfter DEF Texts
  <1>8. parser' = Feed(parser, data)
    BY DEF Receive
  <1> HIDE DEF data
  <1>9. Reads(parser', wire', m) /\ (WellFormed(m) /\ wire' = <<>> => parser'.state = "Complete")
    BY <1>1, <1>5, <1>6, <1>7, <1>8, FeedReads DEF Reading
  <1>10. CASE parser'.state = "Complete"
    <2>1. Dispatch(parser'.request)
      BY <1>10 DEF Receive
    <2>2. phase' # "reading" /\ request' = <<parser'.request>>
      BY <2>1, Zenon DEF Dispatch, AnswerRoute, AnswerUpgrade, RefuseProxy, StartProxy, StartFile,
                         AnswerWith
    <2>3. wire' = <<>> /\ (WellFormed(m) => parser'.request = Meaning(m))
      <3>1. parser'.buffer \o wire' = <<>> /\ (WellFormed(m) => parser'.request = Meaning(m))
        BY <1>9, <1>10 DEF Reads
      <3>2. parser'.buffer \in Texts
        BY <1>1, ParserParts
      <3>3. Len(parser'.buffer \o wire') = Len(parser'.buffer) + Len(wire')
        BY <1>7, <3>2, ConcatProperties DEF Texts
      <3>4. Len(parser'.buffer) \in Nat /\ Len(wire') \in Nat
        BY <1>7, <3>2, LenProperties DEF Texts
      <3>5. Len(wire') = 0
        BY <3>1, <3>3, <3>4, EmptySeq
      <3> QED
        BY <1>7, <3>1, <3>5, EmptySeq DEF Texts
    <2>4. Served(m)'
      BY <1>10, <2>2, <2>3 DEF Served
    <2> QED
      BY <1>1, <1>2, <1>3, <1>4, <2>2, <2>3, <2>4 DEF ParseInv
  <1>11. CASE parser'.state = "Error"
    <2>1. phase' = "closed"
      BY <1>11 DEF Receive
    <2>2. ~WellFormed(m)
      BY <1>9, <1>11 DEF Reads
    <2> QED
      BY <1>1, <1>2, <1>3, <1>4, <2>1, <2>2 DEF ParseInv, Served
  <1>12. CASE parser'.state \notin {"Complete", "Error"}
    <2>1. phase' = phase /\ request' = request
      BY <1>12 DEF Receive, exchangeVars
    <2>2. Reading(m)'
      BY <1>6, <1>9, <1>12, <2>1 DEF Reading
    <2> QED
      BY <1>1, <1>2, <1>3, <1>4, <2>1, <2>2 DEF ParseInv
  <1> QED
    BY <1>10, <1>11, <1>12

LEMMA ParseStep == ParseInv /\ [Next]_vars => ParseInv'
  <1> SUFFICES ASSUME ParseInv, [Next]_vars PROVE ParseInv'
    OBVIOUS
  <1>1. TextInv /\ TextInv'
    BY TextStep DEF ParseInv
  <1>2. ASSUME NEW m \in Messages \cup Followups, Send(m) PROVE ParseInv'
    <2>1. /\ phase = "reading" /\ phase' = phase /\ msg = <<>> /\ msg' = <<m>>
          /\ wire' = Render(m) /\ parser' = parser /\ request' = request
      BY <1>2 DEF Send, exchangeVars
    <2>2. Idle /\ msg'[1] = m /\ msg' # <<>>
      BY <2>1 DEF ParseInv
    <2>3. OneMessage(m)
      BY MessageParts
    <2>4. Reads(FreshParser, Render(m), m)
      BY <2>3, FreshReads
    <2>5. Render(m) # <<>>
      <3> DEFINE line == RequestLine(m)
                 h == HeaderLines(m)
                 r == Block(h) \o (Crlf \o m.body)
      <3>1. /\ line \in Texts /\ h \in Seq(Texts) /\ m.body \in Texts
            /\ Render(m) = line \o (Crlf \o r) /\ Render(m) \in Texts
        BY <2>3, LinesTyped DEF OneMessage, TextMessage
      <3>2. 0 \in 0..Len(h) /\ After(m, 0) \in Texts /\ After(m, 0) = r
        <4>1. 0 \in 0..Len(h)
          BY <3>1, LenProperties
        <4> QED
          BY <2>3, <4>1, AfterText
      <3> HIDE DEF line, r, h
      <3>3. Len(Crlf \o r) = 2 + Len(r) /\ Crlf \o r \in Texts /\ Len(r) \in Nat
        <4> DEFINE c == Crlf
        <4>1. c \in Seq(Symbols) /\ Len(c) = 2 /\ r \in Seq(Symbols)
          BY <3>2, CrlfTyped DEF Texts
        <4> HIDE DEF c
        <4>2. Len(c \o r) = Len(c) + Len(r) /\ c \o r \in Seq(Symbols)
          BY <4>1, ConcatProperties
        <4>3. Len(r) \in Nat
          BY <4>1, LenProperties
        <4>4. Len(c \o r) = 2 + Len(r)
          BY <4>1, <4>2
        <4> QED
          BY <4>2, <4>3, <4>4 DEF c, Texts
      <3>4. Len(line \o (Crlf \o r)) = Len(line) + Len(Crlf \o r) /\ Len(line) \in Nat
        BY <3>1, <3>3, ConcatProperties, LenProperties DEF Texts
      <3>5. Len(Render(m)) # 0
        BY <3>1, <3>3, <3>4
      <3> QED
        BY <3>5, EmptySeq
    <2>6. FreshParser.state = "RequestLine"
      BY DEF FreshParser
    <2>7. Reading(m)'
      BY <2>1, <2>2, <2>4, <2>5, <2>6 DEF Reading, Idle
    <2> QED
      BY <1>1, <2>1, <2>2, <2>7 DEF ParseInv
  <1>3. ASSUME NEW n \in Segments, Receive(n) PROVE ParseInv'
    BY <1>3, ParseReceive
  <1>4. CASE Flush
    <2>1. phase = "writing" /\ wire' = wire
      BY <1>4 DEF Flush
    <2>2. wire = <<>>
      BY <2>1 DEF ParseInv
    <2>3. CASE phase' = "reading"
      <3>1. parser' = FreshParser /\ msg' = <<>> /\ request' = <<>>
        BY <1>4, <2>3 DEF Flush
      <3> QED
        BY <1>1, <2>1, <2>2, <2>3, <3>1 DEF ParseInv, Idle
    <2>4. CASE phase' # "reading"
      <3>1. parser' = parser /\ msg' = msg /\ request' = request
        BY <1>4, <2>4 DEF Flush, exchangeVars
      <3>2. msg # <<>> => Served(msg[1])
        BY <2>1 DEF ParseInv
      <3>3. msg' # <<>> => Served(msg[1])'
        BY <2>1, <3>1, <3>2 DEF Served
      <3>4. msg' # <<>> => \E m \in Messages \cup Followups : msg' = <<m>>
        BY <3>1 DEF ParseInv
      <3> QED
        BY <1>1, <2>1, <2>2, <2>4, <3>3, <3>4 DEF ParseInv
    <2> QED
      BY <2>3, <2>4
  \* Nothing comes in.
  <1>5. CASE /\ msg' = msg /\ wire' = wire /\ parser' = parser /\ request' = request
             /\ \/ phase' = phase
                \/ phase' = "closed" /\ msg = <<>>
                \/ phase' \in {"writing", "closed"} /\ phase \notin {"reading", "closed"}
    <2>1. \A m : (Served(m) => Served(m)') /\ (Reading(m) => Reading(m)')
      BY <1>5 DEF Served, Reading
    <2>2. Idle => Idle'
      BY <1>5 DEF Idle
    <2> QED
      BY <1>1, <1>5, <2>1, <2>2 DEF ParseInv
  <1>6. CASE Leave
    BY <1>5, <1>6 DEF Leave, exchangeVars
  <1>7. ASSUME NEW o, UpstreamSettles(o) PROVE ParseInv'
    <2>1. /\ msg' = msg /\ wire' = wire /\ parser' = parser /\ request' = request
          /\ phase = "proxying" /\ phase' \in {"writing", "closed"}
      BY <1>7, Zenon DEF UpstreamSettles, AnswerWith, exchangeVars
    <2> QED
      BY <1>5, <2>1
  <1>8. CASE FileSettles
    <2>1. /\ msg' = msg /\ wire' = wire /\ parser' = parser /\ request' = request
          /\ phase = "working" /\ phase' \in {"writing", "closed"}
      BY <1>8, Zenon DEF FileSettles, AnswerWith, exchangeVars
    <2> QED
      BY <1>5, <2>1
  <1>9. CASE Work
    BY <1>5, <1>9, Zenon DEF Work, exchangeVars
  <1>10. CASE UNCHANGED vars
    BY <1>5, <1>10 DEF vars, exchangeVars
  <1> QED
    BY <1>2, <1>3, <1>4, <1>6, <1>7, <1>8, <1>9, <1>10 DEF Next, Gone

\* A request that keeps the limits means what its client meant, however it is cut
\* into segments and whatever the connection carried before: no error, no dispatch
\* before its last symbol, and then the method, the target, the headers and the
\* body that were sent; for every message, every way to cut it and all limits
\* (feed, parse_request_line, parse_header, parse_body, reset).
THEOREM AlwaysParsesAsSent == Spec => []ParsesAsSent
  <1>1. Init => ParseInv
    BY FreshParserTyped, EmptySeq DEF Init, ParseInv, TextInv, Texts, Idle
  <1>2. ParseInv => ParsesAsSent
    <2> SUFFICES ASSUME ParseInv, msg # <<>>, WellFormed(msg[1])
                 PROVE  /\ parser.state # "Error"
                        /\ request = IF wire = <<>> THEN <<Meaning(msg[1])>> ELSE <<>>
      BY DEF ParsesAsSent
    <2>1. CASE phase = "reading"
      BY <2>1 DEF ParseInv, Reading
    <2>2. CASE phase # "reading"
      BY <2>2 DEF ParseInv, Served
    <2> QED
      BY <2>1, <2>2
  <1> QED
    BY <1>1, <1>2, ParseStep, PTL DEF Spec

-----------------------------------------------------------------------------
(* Paths, and the entries they lead to *)

Paths == Seq(Texts)

IsName(c) == c \notin {Empty, Dot, DotDot}

\* What FilesAssumption says of the filesystem at the start, in any.
IsTree(F) ==
  /\ DOMAIN F \subseteq Paths
  /\ <<>> \in DOMAIN F /\ F[<<>>].kind = "dir"
  /\ \A p \in DOMAIN F \ {<<>>} : InDirectory(F, p)

\* Where a path can lead.
Nodes(F) == {<<>>} \cup {<<d>> : d \in DOMAIN F}

LEMMA EntryParts ==
  ASSUME NEW F, IsTree(F), NEW d \in Paths, NEW c \in Texts, Append(d, c) \in DOMAIN F
  PROVE  IsName(c) /\ d \in DOMAIN F /\ F[d].kind = "dir"
  <1>1. Append(d, c) # <<>> /\ Last(Append(d, c)) = c /\ Front(Append(d, c)) = d
    BY LastFront DEF Paths
  <1>2. InDirectory(F, Append(d, c))
    BY <1>1 DEF IsTree
  <1> QED
    BY <1>1, <1>2 DEF InDirectory, IsName

LEMMA EnterTyped ==
  ASSUME NEW F, IsTree(F), NEW at \in Nodes(F), NEW c
  PROVE  Enter(F, at, c) \in Nodes(F)
  <1>1. CASE at = <<>> \/ F[at[1]].kind # "dir"
    BY <1>1 DEF Enter, Nodes
  <1>2. CASE ~(at = <<>> \/ F[at[1]].kind # "dir")
    <2>1. PICK d \in DOMAIN F : at = <<d>>
      BY <1>2 DEF Nodes
    <2>2. at[1] = d
      BY <2>1
    <2>3. CASE c \in {Empty, Dot}
      BY <1>2, <2>3 DEF Enter
    <2>4. CASE c = DotDot /\ c \notin {Empty, Dot}
      <3>1. Enter(F, at, c) = <<IF d = <<>> THEN <<>> ELSE Front(d)>>
        BY <1>2, <2>2, <2>4 DEF Enter
      <3>2. <<>> \in DOMAIN F /\ (d # <<>> => Front(d) \in DOMAIN F)
        BY DEF IsTree, InDirectory
      <3> QED
        BY <3>1, <3>2 DEF Nodes
    <2>5. CASE IsName(c)
      <3> DEFINE kid == Append(d, c)
      <3>1. Enter(F, at, c) = IF kid \notin DOMAIN F THEN <<>>
                              ELSE IF F[kid].kind # "link" THEN <<kid>>
                              ELSE IF F[kid].to \in DOMAIN F THEN <<F[kid].to>> ELSE <<>>
        BY <1>2, <2>2, <2>5 DEF Enter, IsName
      <3> HIDE DEF kid
      <3> QED
        BY <3>1 DEF Nodes
    <2> QED
      BY <2>3, <2>4, <2>5 DEF IsName
  <1> QED
    BY <1>1, <1>2

\* Walk is what its recursion says.
LEMMA WalkParts ==
  ASSUME NEW F, IsTree(F), NEW s \in Paths
  PROVE  \E at \in [0..Len(s) -> Nodes(F)] :
           /\ at[0] = << <<>> >>
           /\ \A n \in 1..Len(s) : at[n] = Enter(F, at[n - 1], s[n])
           /\ Walk(F, s) = at[Len(s)]
  <1> DEFINE N == Len(s)
             T == Nodes(F)
             step == [n \in 1..N |-> [p \in T |-> Enter(F, p, s[n])]]
             Is(p) == p = [n \in 0..N |-> IF n = 0 THEN << <<>> >> ELSE Enter(F, p[n - 1], s[n])]
             parts == CHOOSE p : Is(p)
  <1>1. N \in Nat /\ \A n \in 1..N : s[n] \in Texts
    BY LenProperties, ElementOfSeq DEF Paths
  <1>2. << <<>> >> \in T
    BY DEF IsTree, Nodes
  <1>3. step \in [1..N -> [T -> T]]
    BY <1>1, EnterTyped
  <1>4. PICK f \in [0..N -> T] : f[0] = << <<>> >> /\ \A n \in 1..N : f[n] = step[n][f[n - 1]]
    <2> DEFINE one == << <<>> >>
    <2>1. one \in T /\ N \in Nat /\ step \in [1..N -> [T -> T]]
      BY <1>1, <1>2, <1>3
    <2> HIDE DEF N, T, step, one
    <2>2. PICK f \in [0..N -> T] : Follows(f, N, one, step)
      BY <2>1, PrefixRecursion
    <2> QED
      BY <2>2 DEF Follows, one
  <1>5. ASSUME NEW n \in 1..N PROVE f[n] = Enter(F, f[n - 1], s[n])
    <2>1. n - 1 \in 0..N
      BY <1>1
    <2>2. f[n - 1] \in T
      BY <2>1
    <2> HIDE DEF T
    <2> QED
      BY <1>4, <2>2
  <1>6. Is(f)
    <2> DEFINE g == [n \in 0..N |-> IF n = 0 THEN << <<>> >> ELSE Enter(F, f[n - 1], s[n])]
    <2>1. \A n \in 0..N : n = 0 \/ n \in 1..N
      BY <1>1
    <2>2. \A n \in 0..N : g[n] = f[n]
      BY <1>4, <1>5, <2>1, Zenon
    <2>3. DOMAIN f = 0..N /\ DOMAIN g = 0..N /\ f = [n \in 0..N |-> f[n]] /\ g = [n \in 0..N |-> g[n]]
      BY <1>4
    <2>4. f = g
      <3> HIDE DEF g, N
      <3> QED
        BY <2>2, <2>3
    <2> QED
      BY <2>4
  <1>7. Is(parts)
    BY <1>6
  <1>8. Walk(F, s) = parts[N]
    BY DEF Walk
  <1> HIDE DEF parts, T
  <1>9. /\ DOMAIN parts = 0..N /\ parts[0] = << <<>> >>
        /\ \A n \in 1..N : parts[n] = Enter(F, parts[n - 1], s[n])
    <2>1. DOMAIN parts = 0..N
      BY <1>7, Zenon
    <2>2. \A n \in 0..N : parts[n] = IF n = 0 THEN << <<>> >> ELSE Enter(F, parts[n - 1], s[n])
      BY <1>7, Zenon
    <2>3. 0 \in 0..N /\ \A n \in 1..N : n # 0 /\ n \in 0..N
      BY <1>1
    <2> QED
      BY <2>1, <2>2, <2>3, Zenon
  <1> DEFINE S == {n \in 0..N : parts[n] \in T}
  <1>10. 0 \in S
    BY <1>1, <1>2, <1>9
  <1>11. ASSUME NEW n \in 0..(N - 1), n \in S PROVE n + 1 \in S
    <2>1. n + 1 \in 1..N /\ n + 1 \in 0..N /\ (n + 1) - 1 = n
      BY <1>1
    <2>2. parts[n + 1] = Enter(F, parts[n], s[n + 1])
      BY <1>9, <2>1
    <2>3. parts[n] \in T
      BY <1>11
    <2>4. parts[n + 1] \in T
      BY <2>2, <2>3, EnterTyped DEF T
    <2> QED
      BY <2>1, <2>4
  <1> HIDE DEF S
  <1>12. \A n \in 0..N : n \in S
    BY <1>1, <1>10, <1>11, UpToInduction
  <1>13. parts \in [0..N -> T]
    BY <1>7, <1>12 DEF S
  <1> QED
    BY <1>8, <1>9, <1>13 DEF T

\* What Walk finds, one component at a time.
LEMMA WalkStep ==
  ASSUME NEW F, IsTree(F), NEW s \in Paths
  PROVE  /\ Walk(F, <<>>) = << <<>> >>
         /\ Walk(F, s) \in Nodes(F)
         /\ \A c \in Texts : Walk(F, Append(s, c)) = Enter(F, Walk(F, s), c)
  <1>1. Walk(F, <<>>) = << <<>> >>
    <2>1. PICK e \in Paths : e = <<>> /\ Len(e) = 0
      BY EmptySeq DEF Paths
    <2>2. PICK p \in [0..Len(e) -> Nodes(F)] :
             /\ p[0] = << <<>> >>
             /\ \A n \in 1..Len(e) : p[n] = Enter(F, p[n - 1], e[n])
             /\ Walk(F, e) = p[Len(e)]
      BY WalkParts
    <2> QED
      BY <2>1, <2>2
  <1>2. PICK p \in [0..Len(s) -> Nodes(F)] :
           /\ p[0] = << <<>> >>
           /\ \A n \in 1..Len(s) : p[n] = Enter(F, p[n - 1], s[n])
           /\ Walk(F, s) = p[Len(s)]
    BY WalkParts
  <1>3. Len(s) \in Nat
    BY LenProperties DEF Paths
  <1>4. ASSUME NEW c \in Texts PROVE Walk(F, Append(s, c)) = Enter(F, Walk(F, s), c)
    <2> DEFINE N == Len(s)
               t == Append(s, c)
    <2>1. t \in Paths /\ Len(t) = N + 1 /\ t[N + 1] = c /\ \A n \in 1..N : t[n] = s[n]
      BY AppendProperties DEF Paths
    <2>2. PICK q \in [0..Len(t) -> Nodes(F)] :
             /\ q[0] = << <<>> >>
             /\ \A n \in 1..Len(t) : q[n] = Enter(F, q[n - 1], t[n])
             /\ Walk(F, t) = q[Len(t)]
      BY <2>1, WalkParts
    <2> HIDE DEF t
    <2> DEFINE S == {n \in 0..N : p[n] = q[n]}
    <2>3. 0 \in S
      <3>1. 0 \in 0..N /\ p[0] = q[0]
        BY <1>2, <1>3, <2>2
      <3> QED
        BY <3>1
    <2>4. ASSUME NEW n \in 0..(N - 1), n \in S PROVE n + 1 \in S
      <3>1. n + 1 \in 1..N /\ n + 1 \in 1..Len(t) /\ (n + 1) - 1 = n
        BY <1>3, <2>1
      <3>2. p[n + 1] = Enter(F, p[n], s[n + 1]) /\ q[n + 1] = Enter(F, q[n], t[n + 1])
        BY <1>2, <2>2, <3>1
      <3> QED
        BY <2>1, <2>4, <3>1, <3>2
    <2> HIDE DEF S
    <2>5. \A n \in 0..N : n \in S
      BY <1>3, <2>3, <2>4, UpToInduction
    <2>6. p[N] = q[N]
      BY <1>3, <2>5 DEF S
    <2>7. N + 1 \in 1..Len(t) /\ (N + 1) - 1 = N
      BY <1>3, <2>1
    <2>8. q[N + 1] = Enter(F, q[N], c)
      BY <2>1, <2>2, <2>7
    <2> QED
      BY <1>2, <2>1, <2>2, <2>6, <2>8 DEF t
  <1>5. Walk(F, s) \in Nodes(F)
    <2>1. Len(s) \in 0..Len(s)
      BY <1>3
    <2> QED
      BY <1>2, <2>1, Zenon
  <1> QED
    BY <1>1, <1>4, <1>5

-----------------------------------------------------------------------------
(* Paths without dots *)

LEMMA PushTyped ==
  ASSUME NEW done \in Paths, NEW c \in Texts
  PROVE  Push(done, c) \in Paths
  <1>1. Append(done, c) \in Paths
    BY AppendProperties DEF Paths
  <1>2. done # <<>> => Front(done) \in Paths
    <2>1. SUFFICES ASSUME done # <<>> PROVE Front(done) \in Paths
      OBVIOUS
    <2>2. PICK r \in Paths, e \in Texts : done = Append(r, e)
      BY <2>1, EmptySeq, SequenceEmptyOrAppend DEF Paths
    <2> QED
      BY <2>2, LastFront DEF Paths
  <1> QED
    BY <1>1, <1>2 DEF Push

\* Normal is what its recursion says.
LEMMA NormalParts ==
  ASSUME NEW s \in Paths
  PROVE  \E done \in [0..Len(s) -> Paths] :
           /\ done[0] = <<>>
           /\ \A n \in 1..Len(s) : done[n] = Push(done[n - 1], s[n])
           /\ Normal(s) = done[Len(s)]
  <1> DEFINE N == Len(s)
             T == Paths
             step == [n \in 1..N |-> [p \in T |-> Push(p, s[n])]]
             Is(p) == p = [n \in 0..N |-> IF n = 0 THEN <<>> ELSE Push(p[n - 1], s[n])]
             parts == CHOOSE p : Is(p)
  <1>1. N \in Nat /\ \A n \in 1..N : s[n] \in Texts
    BY LenProperties, ElementOfSeq DEF Paths
  <1>2. <<>> \in T
    BY EmptySeq DEF Paths
  <1>3. step \in [1..N -> [T -> T]]
    BY <1>1, PushTyped
  <1>4. PICK f \in [0..N -> T] : f[0] = <<>> /\ \A n \in 1..N : f[n] = step[n][f[n - 1]]
    <2> DEFINE one == <<>>
    <2>1. one \in T /\ N \in Nat /\ step \in [1..N -> [T -> T]]
      BY <1>1, <1>2, <1>3
    <2> HIDE DEF N, T, step, one
    <2>2. PICK f \in [0..N -> T] : Follows(f, N, one, step)
      BY <2>1, PrefixRecursion
    <2> QED
      BY <2>2 DEF Follows, one
  <1>5. ASSUME NEW n \in 1..N PROVE f[n] = Push(f[n - 1], s[n])
    <2>1. n - 1 \in 0..N
      BY <1>1
    <2>2. f[n - 1] \in T
      BY <2>1
    <2> HIDE DEF T
    <2> QED
      BY <1>4, <2>2
  <1>6. Is(f)
    <2> DEFINE g == [n \in 0..N |-> IF n = 0 THEN <<>> ELSE Push(f[n - 1], s[n])]
    <2>1. \A n \in 0..N : n = 0 \/ n \in 1..N
      BY <1>1
    <2>2. \A n \in 0..N : g[n] = f[n]
      BY <1>4, <1>5, <2>1, Zenon
    <2>3. DOMAIN f = 0..N /\ DOMAIN g = 0..N /\ f = [n \in 0..N |-> f[n]] /\ g = [n \in 0..N |-> g[n]]
      BY <1>4
    <2>4. f = g
      <3> HIDE DEF g, N
      <3> QED
        BY <2>2, <2>3
    <2> QED
      BY <2>4
  <1>7. Is(parts)
    BY <1>6
  <1>8. Normal(s) = parts[N]
    BY DEF Normal
  <1> HIDE DEF parts, T
  <1>9. /\ DOMAIN parts = 0..N /\ parts[0] = <<>>
        /\ \A n \in 1..N : parts[n] = Push(parts[n - 1], s[n])
    <2>1. DOMAIN parts = 0..N
      BY <1>7, Zenon
    <2>2. \A n \in 0..N : parts[n] = IF n = 0 THEN <<>> ELSE Push(parts[n - 1], s[n])
      BY <1>7, Zenon
    <2>3. 0 \in 0..N /\ \A n \in 1..N : n # 0 /\ n \in 0..N
      BY <1>1
    <2> QED
      BY <2>1, <2>2, <2>3, Zenon
  <1> DEFINE S == {n \in 0..N : parts[n] \in T}
  <1>10. 0 \in S
    BY <1>1, <1>2, <1>9
  <1>11. ASSUME NEW n \in 0..(N - 1), n \in S PROVE n + 1 \in S
    <2>1. n + 1 \in 1..N /\ n + 1 \in 0..N /\ (n + 1) - 1 = n /\ s[n + 1] \in Texts
      BY <1>1
    <2>2. parts[n + 1] = Push(parts[n], s[n + 1])
      BY <1>9, <2>1
    <2>3. parts[n] \in T
      BY <1>11
    <2>4. parts[n + 1] \in T
      BY <2>1, <2>2, <2>3, PushTyped DEF T
    <2> QED
      BY <2>1, <2>4
  <1> HIDE DEF S
  <1>12. \A n \in 0..N : n \in S
    BY <1>1, <1>10, <1>11, UpToInduction
  <1>13. parts \in [0..N -> T]
    BY <1>7, <1>12 DEF S
  <1> QED
    BY <1>8, <1>9, <1>13 DEF T

\* What Normal keeps, one component at a time.
LEMMA NormalStep ==
  ASSUME NEW s \in Paths
  PROVE  /\ Normal(<<>>) = <<>>
         /\ Normal(s) \in Paths
         /\ \A c \in Texts : Normal(Append(s, c)) = Push(Normal(s), c)
  <1>1. Normal(<<>>) = <<>>
    <2>1. PICK e \in Paths : e = <<>> /\ Len(e) = 0
      BY EmptySeq DEF Paths
    <2>2. PICK p \in [0..Len(e) -> Paths] :
             /\ p[0] = <<>>
             /\ \A n \in 1..Len(e) : p[n] = Push(p[n - 1], e[n])
             /\ Normal(e) = p[Len(e)]
      BY NormalParts
    <2> QED
      BY <2>1, <2>2
  <1>2. PICK p \in [0..Len(s) -> Paths] :
           /\ p[0] = <<>>
           /\ \A n \in 1..Len(s) : p[n] = Push(p[n - 1], s[n])
           /\ Normal(s) = p[Len(s)]
    BY NormalParts
  <1>3. Len(s) \in Nat
    BY LenProperties DEF Paths
  <1>4. ASSUME NEW c \in Texts PROVE Normal(Append(s, c)) = Push(Normal(s), c)
    <2> DEFINE N == Len(s)
               t == Append(s, c)
    <2>1. t \in Paths /\ Len(t) = N + 1 /\ t[N + 1] = c /\ \A n \in 1..N : t[n] = s[n]
      BY AppendProperties DEF Paths
    <2>2. PICK q \in [0..Len(t) -> Paths] :
             /\ q[0] = <<>>
             /\ \A n \in 1..Len(t) : q[n] = Push(q[n - 1], t[n])
             /\ Normal(t) = q[Len(t)]
      BY <2>1, NormalParts
    <2> HIDE DEF t
    <2> DEFINE S == {n \in 0..N : p[n] = q[n]}
    <2>3. 0 \in S
      <3>1. 0 \in 0..N /\ p[0] = q[0]
        BY <1>2, <1>3, <2>2
      <3> QED
        BY <3>1
    <2>4. ASSUME NEW n \in 0..(N - 1), n \in S PROVE n + 1 \in S
      <3>1. n + 1 \in 1..N /\ n + 1 \in 1..Len(t) /\ (n + 1) - 1 = n
        BY <1>3, <2>1
      <3>2. p[n + 1] = Push(p[n], s[n + 1]) /\ q[n + 1] = Push(q[n], t[n + 1])
        BY <1>2, <2>2, <3>1
      <3> QED
        BY <2>1, <2>4, <3>1, <3>2
    <2> HIDE DEF S
    <2>5. \A n \in 0..N : n \in S
      BY <1>3, <2>3, <2>4, UpToInduction
    <2>6. p[N] = q[N]
      BY <1>3, <2>5 DEF S
    <2>7. N + 1 \in 1..Len(t) /\ (N + 1) - 1 = N
      BY <1>3, <2>1
    <2>8. q[N + 1] = Push(q[N], c)
      BY <2>1, <2>2, <2>7
    <2> QED
      BY <1>2, <2>1, <2>2, <2>6, <2>8 DEF t
  <1>5. Normal(s) \in Paths
    <2>1. Len(s) \in 0..Len(s)
      BY <1>3
    <2> QED
      BY <1>2, <2>1, Zenon
  <1> QED
    BY <1>1, <1>4, <1>5

\* A path of names is as it is.
NamePaths == Seq({c \in Texts : IsName(c)})

LEMMA NamePathNormal ==
  ASSUME NEW p \in NamePaths
  PROVE  p \in Paths /\ LexicallyNormal(p) = p
  <1> DEFINE A == {c \in Texts : IsName(c)}
             S == {r \in Paths : Normal(r) = r}
  <1>1. <<>> \in S
    <2>1. <<>> \in Paths
      BY EmptySeq DEF Paths
    <2> QED
      BY <2>1, NormalStep
  <1>2. ASSUME NEW r \in Seq(A), NEW c \in A, r \in S PROVE Append(r, c) \in S
    <2>1. r \in Paths /\ c \in Texts /\ IsName(c) /\ Normal(r) = r
      BY <1>2
    <2>2. Append(r, c) \in Paths
      BY <2>1, AppendProperties DEF Paths
    <2>3. Normal(Append(r, c)) = Push(r, c)
      BY <2>1, NormalStep
    <2>4. Push(r, c) = Append(r, c)
      BY <2>1 DEF Push, IsName
    <2> QED
      BY <2>2, <2>3, <2>4
  <1> HIDE DEF S
  <1>3. Seq(A) \subseteq S
    BY <1>1, <1>2, SeqSetInduction
  <1>4. p \in Paths /\ Normal(p) = p
    BY <1>3 DEF NamePaths, S
  <1>5. CASE p = <<>>
    BY <1>4, <1>5 DEF LexicallyNormal
  <1>6. CASE p # <<>>
    <2>1. PICK r \in Seq(A), c \in A : p = Append(r, c)
      BY <1>6, EmptySeq, SequenceEmptyOrAppend DEF NamePaths
    <2>2. Last(p) = c
      BY <2>1, LastFront
    <2> QED
      BY <1>4, <2>2 DEF LexicallyNormal, IsName
  <1> QED
    BY <1>4, <1>5, <1>6

\* The path of an entry is of names.
LEMMA EntryNames ==
  ASSUME NEW F, IsTree(F), NEW d \in DOMAIN F
  PROVE  d \in NamePaths
  <1> DEFINE A == {c \in Texts : IsName(c)}
             S == {r \in Paths : r \in DOMAIN F => r \in Seq(A)}
  <1>1. <<>> \in S
    BY EmptySeq DEF Paths
  <1>2. ASSUME NEW r \in Paths, NEW c \in Texts, r \in S PROVE Append(r, c) \in S
    <2>1. Append(r, c) \in Paths
      BY AppendProperties DEF Paths
    <2>2. ASSUME Append(r, c) \in DOMAIN F PROVE Append(r, c) \in Seq(A)
      <3>1. IsName(c) /\ r \in DOMAIN F
        BY <2>2, EntryParts
      <3>2. r \in Seq(A) /\ c \in A
        BY <1>2, <3>1
      <3> HIDE DEF A
      <3> QED
        BY <3>2, AppendProperties
    <2> QED
      BY <2>1, <2>2
  <1> HIDE DEF S
  <1>3. Paths \subseteq S
    BY <1>1, <1>2, SeqSetInduction DEF Paths
  <1>4. d \in Paths
    BY DEF IsTree
  <1> QED
    BY <1>3, <1>4 DEF S, NamePaths

-----------------------------------------------------------------------------
(* The filesystem while files come and go *)

\* Only deployed files differ from the start.
SameTree(F) ==
  /\ DOMAIN F \subseteq Paths
  /\ \A p \in Paths \ Deployable :
       /\ p \in DOMAIN F <=> p \in DOMAIN InitialFiles
       /\ p \in DOMAIN F => F[p] = InitialFiles[p]
  /\ \A p \in Deployable : p \in DOMAIN F => F[p].kind = "file"

LEMMA PathsTyped == Seq(Seq(STRING)) \subseteq Paths
  <1>1. Seq(STRING) \subseteq Texts
    BY SeqMonotonic DEF Texts, Symbols
  <1> QED
    BY <1>1, SeqMonotonic DEF Paths

LEMMA DotDotTyped == Empty \in Texts /\ Dot \in Texts /\ DotDot \in Texts
  <1>1. "." \in Symbols /\ ".." \in Symbols
    BY DEF Symbols
  <1> QED
    BY <1>1, EmptySeq DEF Texts, Empty, Dot, DotDot

LEMMA InitialSame == SameTree(InitialFiles)
  BY PathsTyped, FilesAssumption, DeployAssumption DEF SameTree

\* Directories and links stay.
LEMMA DirsStay ==
  ASSUME NEW F, SameTree(F), NEW p \in DOMAIN F, F[p].kind # "file",
         NEW G, SameTree(G)
  PROVE  p \notin Deployable /\ p \in DOMAIN G /\ G[p] = F[p]
  BY DEF SameTree

LEMMA SameIsTree ==
  ASSUME NEW F, SameTree(F)
  PROVE  IsTree(F)
  <1>1. DOMAIN F \subseteq Paths /\ DOMAIN InitialFiles \subseteq Paths
    BY InitialSame DEF SameTree
  <1>2. <<>> \in DOMAIN F /\ F[<<>>].kind = "dir"
    <2>1. <<>> \in DOMAIN InitialFiles /\ InitialFiles[<<>>].kind = "dir"
      BY FilesAssumption
    <2> QED
      BY <2>1, InitialSame, DirsStay
  <1>3. ASSUME NEW p \in DOMAIN F \ {<<>>} PROVE InDirectory(F, p)
    <2>1. InDirectory(InitialFiles, p)
      <3>1. CASE p \in Deployable
        BY <3>1, DeployAssumption
      <3>2. CASE p \notin Deployable
        BY <1>1, <3>2, FilesAssumption DEF SameTree
      <3> QED
        BY <3>1, <3>2
    <2>2. Front(p) \in DOMAIN InitialFiles /\ InitialFiles[Front(p)].kind = "dir"
      BY <2>1 DEF InDirectory
    <2>3. Front(p) \in DOMAIN F /\ F[Front(p)].kind = "dir"
      <3> DEFINE d == Front(p)
      <3> HIDE DEF d
      <3>1. d \in DOMAIN InitialFiles /\ InitialFiles[d].kind = "dir"
        BY <2>2 DEF d
      <3>2. d \in DOMAIN F /\ F[d].kind = "dir"
        BY <3>1, InitialSame, DirsStay
      <3> QED
        BY <3>2 DEF d
    <2> QED
      BY <2>1, <2>3 DEF InDirectory
  <1> QED
    BY <1>1, <1>2, <1>3 DEF IsTree

\* One component further from a directory, case by case.
LEMMA EnterFrom ==
  ASSUME NEW F, NEW d \in DOMAIN F, F[d].kind = "dir", NEW c
  PROVE  /\ c \in {Empty, Dot} => Enter(F, <<d>>, c) = <<d>>
         /\ c = DotDot => Enter(F, <<d>>, c) = <<IF d = <<>> THEN <<>> ELSE Front(d)>>
         /\ IsName(c) /\ Append(d, c) \notin DOMAIN F => Enter(F, <<d>>, c) = <<>>
         /\ IsName(c) /\ Append(d, c) \in DOMAIN F =>
              LET kid == F[Append(d, c)]
              IN Enter(F, <<d>>, c) = IF kid.kind # "link" THEN <<Append(d, c)>>
                                      ELSE IF kid.to \in DOMAIN F THEN <<kid.to>> ELSE <<>>
  BY DEF Enter, IsName, Empty, Dot, DotDot

\* The way to a directory is the same at all times.
LEMMA EnterStays ==
  ASSUME NEW F, SameTree(F), NEW G, SameTree(G),
         NEW e \in DOMAIN F, F[e].kind = "dir", NEW c \in Texts,
         NEW d \in DOMAIN F, F[d].kind = "dir", Enter(F, <<e>>, c) = <<d>>
  PROVE  Enter(G, <<e>>, c) = <<d>>
  <1>1. e \in DOMAIN G /\ G[e].kind = "dir" /\ d \in DOMAIN G /\ G[d].kind = "dir"
    BY DirsStay
  <1>2. CASE c \in {Empty, Dot}
    <2>1. Enter(F, <<e>>, c) = <<e>> /\ Enter(G, <<e>>, c) = <<e>>
      BY <1>1, <1>2 DEF Enter
    <2> QED
      BY <2>1
  <1>3. CASE c = DotDot
    <2> DEFINE up == <<IF e = <<>> THEN <<>> ELSE Front(e)>>
    <2>1. Enter(F, <<e>>, c) = up /\ Enter(G, <<e>>, c) = up
      BY <1>1, <1>3 DEF Enter, Empty, Dot, DotDot
    <2> QED
      BY <2>1
  <1>4. CASE IsName(c)
    <2> DEFINE kid == Append(e, c)
    <2>1. kid \in DOMAIN F
      <3>1. kid \notin DOMAIN F => Enter(F, <<e>>, c) = <<>>
        BY <1>4 DEF Enter, IsName
      <3> QED
        BY <3>1
    <2>2. Enter(F, <<e>>, c) = IF F[kid].kind # "link" THEN <<kid>>
                               ELSE IF F[kid].to \in DOMAIN F THEN <<F[kid].to>> ELSE <<>>
      BY <1>4, <2>1, EnterFrom
    <2>3. kid \in DOMAIN G => Enter(G, <<e>>, c) = IF G[kid].kind # "link" THEN <<kid>>
                                                  ELSE IF G[kid].to \in DOMAIN G THEN <<G[kid].to>> ELSE <<>>
      BY <1>1, <1>4, EnterFrom
    <2> HIDE DEF kid
    <2>4. F[kid].kind # "file"
      BY <2>2
    <2>5. kid \in DOMAIN G /\ G[kid] = F[kid]
      BY <2>1, <2>4, DirsStay
    <2> QED
      BY <1>1, <2>2, <2>3, <2>5
  <1> QED
    BY <1>2, <1>3, <1>4 DEF IsName

LEMMA WayStays ==
  ASSUME NEW F, SameTree(F), NEW G, SameTree(G), NEW p \in Paths,
         NEW d \in DOMAIN F, Walk(F, p) = <<d>>, F[d].kind = "dir"
  PROVE  Walk(G, p) = <<d>> /\ d \in DOMAIN G /\ G[d].kind = "dir"
  <1> DEFINE S == {r \in Paths : \A e \in DOMAIN F :
                     Walk(F, r) = <<e>> /\ F[e].kind = "dir" => Walk(G, r) = <<e>>}
  <1>1. IsTree(F) /\ IsTree(G)
    BY SameIsTree
  <1>2. <<>> \in S
    <2>1. <<>> \in Paths
      BY EmptySeq DEF Paths
    <2>2. Walk(F, <<>>) = Walk(G, <<>>)
      BY <1>1, <2>1, WalkStep
    <2> QED
      BY <2>1, <2>2
  <1>3. ASSUME NEW r \in Paths, NEW c \in Texts, r \in S PROVE Append(r, c) \in S
    <2>1. Append(r, c) \in Paths
      BY AppendProperties DEF Paths
    <2>2. ASSUME NEW e \in DOMAIN F, Walk(F, Append(r, c)) = <<e>>, F[e].kind = "dir"
          PROVE  Walk(G, Append(r, c)) = <<e>>
      <3>1. /\ Walk(F, Append(r, c)) = Enter(F, Walk(F, r), c) /\ Walk(F, r) \in Nodes(F)
            /\ Walk(G, Append(r, c)) = Enter(G, Walk(G, r), c)
        BY <1>1, WalkStep
      <3>2. PICK b \in DOMAIN F : Walk(F, r) = <<b>> /\ F[b].kind = "dir"
        BY <2>2, <3>1 DEF Enter, Nodes
      <3>3. Walk(G, r) = <<b>>
        BY <1>3, <3>2
      <3>4. Enter(G, <<b>>, c) = <<e>>
        BY <2>2, <3>1, <3>2, EnterStays
      <3> QED
        BY <3>1, <3>3, <3>4
    <2> QED
      BY <2>1, <2>2
  <1> HIDE DEF S
  <1>4. Paths \subseteq S
    BY <1>2, <1>3, SeqSetInduction DEF Paths
  <1>5. Walk(G, p) = <<d>>
    BY <1>4 DEF S
  <1> QED
    BY <1>5, DirsStay

-----------------------------------------------------------------------------
(* The way down *)

\* One more component at the end of a longer path.
LEMMA ConcatAppend ==
  ASSUME NEW A, NEW u \in Seq(A), NEW v \in Seq(A), NEW c \in A
  PROVE  u \o v \in Seq(A) /\ u \o Append(v, c) = Append(u \o v, c)
  <1>1. /\ <<c>> \in Seq(A) /\ u \o v \in Seq(A)
        /\ Append(v, c) = v \o <<c>> /\ Append(u \o v, c) = (u \o v) \o <<c>>
    BY AppendIsConcat, ConcatProperties
  <1> QED
    BY <1>1, ConcatAssociative

\* A path that leads somewhere leads somewhere at each of its beginnings.
LEMMA BeginningExists ==
  ASSUME NEW F, IsTree(F), NEW u \in Paths, NEW v \in Paths, Walk(F, u \o v) # <<>>
  PROVE  Walk(F, u) # <<>>
  <1> DEFINE S == {r \in Paths : Walk(F, u \o r) # <<>> => Walk(F, u) # <<>>}
  <1>1. <<>> \in S
    BY EmptySeq, ConcatEmptySeq DEF Paths
  <1>2. ASSUME NEW r \in Paths, NEW c \in Texts, r \in S PROVE Append(r, c) \in S
    <2>1. Append(r, c) \in Paths
      BY AppendProperties DEF Paths
    <2>2. u \o r \in Paths /\ u \o Append(r, c) = Append(u \o r, c)
      BY ConcatAppend DEF Paths
    <2>3. Walk(F, Append(u \o r, c)) = Enter(F, Walk(F, u \o r), c)
      BY <2>2, WalkStep
    <2>4. Walk(F, u \o r) = <<>> => Walk(F, u \o Append(r, c)) = <<>>
      BY <2>2, <2>3 DEF Enter
    <2> QED
      BY <1>2, <2>1, <2>4
  <1> HIDE DEF S
  <1>3. Paths \subseteq S
    BY <1>1, <1>2, SeqSetInduction DEF Paths
  <1> QED
    BY <1>3 DEF S

\* Without "..", the dots can go.
Descents == Seq(Texts \ {DotDot})

LEMMA DescentPaths == Descents \subseteq Paths
  <1>1. Texts \ {DotDot} \subseteq Texts
    OBVIOUS
  <1> QED
    BY <1>1, SeqMonotonic DEF Descents, Paths

LEMMA NormalWalk ==
  ASSUME NEW F, IsTree(F), NEW p \in Descents, Walk(F, p) # <<>>
  PROVE  Walk(F, Normal(p)) = Walk(F, p)
  <1> DEFINE A == Texts \ {DotDot}
             S == {r \in Paths : Walk(F, r) # <<>> => Walk(F, Normal(r)) = Walk(F, r)}
  <1>1. <<>> \in S
    BY EmptySeq, NormalStep DEF Paths
  <1>2. ASSUME NEW r \in Seq(A), NEW c \in A, r \in S PROVE Append(r, c) \in S
    <2>1. r \in Paths /\ c \in Texts /\ c # DotDot
      BY <1>2
    <2>2. Append(r, c) \in Paths
      BY <2>1, AppendProperties DEF Paths
    <2>3. /\ Walk(F, Append(r, c)) = Enter(F, Walk(F, r), c) /\ Walk(F, r) \in Nodes(F)
          /\ Normal(Append(r, c)) = Push(Normal(r), c) /\ Normal(r) \in Paths
      BY <2>1, WalkStep, NormalStep
    <2>4. ASSUME Walk(F, Append(r, c)) # <<>>
          PROVE  Walk(F, Normal(Append(r, c))) = Walk(F, Append(r, c))
      <3>1. Walk(F, r) # <<>>
        BY <2>3, <2>4 DEF Enter
      <3>2. Walk(F, Normal(r)) = Walk(F, r)
        BY <1>2, <3>1
      <3>3. CASE c \in {Empty, Dot}
        <4>1. Push(Normal(r), c) = Normal(r)
          BY <3>3 DEF Push
        <4>2. Enter(F, Walk(F, r), c) = Walk(F, r)
          BY <2>3, <2>4, <3>3 DEF Enter
        <4> QED
          BY <2>3, <3>2, <4>1, <4>2
      <3>4. CASE c \notin {Empty, Dot}
        <4>1. Push(Normal(r), c) = Append(Normal(r), c)
          BY <2>1, <3>4 DEF Push
        <4>2. Walk(F, Append(Normal(r), c)) = Enter(F, Walk(F, Normal(r)), c)
          BY <2>1, <2>3, WalkStep
        <4> QED
          BY <2>3, <3>2, <4>1, <4>2
      <3> QED
        BY <3>3, <3>4
    <2> QED
      BY <2>2, <2>4
  <1> HIDE DEF S
  <1>3. Seq(A) \subseteq S
    BY <1>1, <1>2, SeqSetInduction
  <1> QED
    BY <1>3 DEF S, Descents

\* From a directory, by names, to an entry below it.
LEMMA WalkDown ==
  ASSUME NEW F, IsTree(F), NEW root \in Paths, NEW R \in DOMAIN F, Walk(F, root) = <<R>>,
         F[R].kind = "dir", NEW s \in NamePaths, R \o s \in DOMAIN F, F[R \o s].kind # "link"
  PROVE  Walk(F, root \o s) = <<R \o s>>
  <1> DEFINE A == {c \in Texts : IsName(c)}
             S == {r \in Paths : R \o r \in DOMAIN F /\ F[R \o r].kind # "link"
                                   => Walk(F, root \o r) = <<R \o r>>}
  <1>0. R \in Paths
    BY DEF IsTree
  <1>1. <<>> \in S
    <2>1. <<>> \in Paths /\ R \o <<>> = R /\ root \o <<>> = root
      BY <1>0, EmptySeq, ConcatEmptySeq DEF Paths
    <2> QED
      BY <2>1
  <1>2. ASSUME NEW r \in Seq(A), NEW c \in A, r \in S PROVE Append(r, c) \in S
    <2>1. r \in Paths /\ c \in Texts /\ IsName(c)
      BY <1>2
    <2>2. Append(r, c) \in Paths
      BY <2>1, AppendProperties DEF Paths
    <2> DEFINE d == R \o r
    <2>3. d \in Paths /\ R \o Append(r, c) = Append(d, c)
      BY <1>0, <2>1, ConcatAppend DEF Paths
    <2>4. root \o r \in Paths /\ root \o Append(r, c) = Append(root \o r, c)
      BY <2>1, ConcatAppend DEF Paths
    <2> HIDE DEF d
    <2>5. ASSUME Append(d, c) \in DOMAIN F, F[Append(d, c)].kind # "link"
          PROVE  Walk(F, Append(root \o r, c)) = <<Append(d, c)>>
      <3>1. d \in DOMAIN F /\ F[d].kind = "dir"
        BY <2>1, <2>3, <2>5, EntryParts
      <3>2. Walk(F, root \o r) = <<d>>
        BY <1>2, <3>1 DEF d
      <3>3. Walk(F, Append(root \o r, c)) = Enter(F, <<d>>, c)
        BY <2>1, <2>4, <3>2, WalkStep
      <3>4. Enter(F, <<d>>, c) = <<Append(d, c)>>
        BY <2>1, <2>5, <3>1 DEF Enter, IsName
      <3> QED
        BY <3>3, <3>4
    <2> QED
      BY <2>2, <2>3, <2>4, <2>5
  <1> HIDE DEF S
  <1>3. Seq(A) \subseteq S
    BY <1>1, <1>2, SeqSetInduction
  <1>4. s \in S
    BY <1>3 DEF NamePaths
  <1> QED
    BY <1>4 DEF S

-----------------------------------------------------------------------------
(* One path relative to another *)

\* The lengths of the beginnings of base that path has as well.
Shares(path, base) == {n \in 0..Len(base) : IsPrefix(SubSeq(base, 1, n), path)}

LEMMA SharedPart ==
  ASSUME NEW path \in Paths, NEW base \in Paths
  PROVE  /\ Max(Shares(path, base)) \in Shares(path, base)
         /\ \A n \in Shares(path, base) : n <= Max(Shares(path, base))
  <1>1. Len(base) \in Nat /\ Len(path) \in Nat
    BY LenProperties DEF Paths
  <1>2. SubSeq(base, 1, 0) = <<>> /\ <<>> \in Paths /\ Len(<<>>) = 0
    BY SubSeqEmpty, EmptySeq DEF Paths
  <1>3. IsPrefix(<<>>, path)
    <2>1. <<>> \o path = path /\ IsPrefix(<<>>, <<>> \o path)
      BY <1>2, AfterPrefix, ConcatEmptySeq DEF Paths
    <2> QED
      BY <2>1, Zenon
  <1>4. 0 \in Shares(path, base)
    <2>1. 0 \in 0..Len(base)
      BY <1>1
    <2>2. IsPrefix(SubSeq(base, 1, 0), path)
      BY <1>2, <1>3, Zenon
    <2> QED
      BY <2>1, <2>2, Zenon DEF Shares
  <1>5. Shares(path, base) \in SUBSET (0..Len(base))
    BY DEF Shares
  <1> QED
    BY <1>1, <1>4, <1>5, MaxOfNat

\* A relative path with no ".." leads down from the base.
LEMMA RelativeInside ==
  ASSUME NEW path \in Paths, NEW base \in Paths,
         DotDot \notin Range(LexicallyRelative(path, base))
  PROVE  IsPrefix(base, path)
  <1> DEFINE shared == Max(Shares(path, base))
             rest == SubSeq(path, shared + 1, Len(path))
             ups == [i \in 1..(Len(base) - shared) |-> DotDot]
  <1>1. Len(base) \in Nat /\ Len(path) \in Nat
    BY LenProperties DEF Paths
  <1>2. shared \in 0..Len(base) /\ IsPrefix(SubSeq(base, 1, shared), path)
    BY SharedPart DEF Shares
  <1>3. CASE shared = Len(base)
    <2>1. SubSeq(base, 1, Len(base)) = base
      BY SubSeqFull DEF Paths
    <2> QED
      BY <1>2, <1>3, <2>1
  <1>4. CASE shared # Len(base)
    <2>1. LexicallyRelative(path, base) = ups \o rest
      BY <1>4 DEF LexicallyRelative, Shares
    <2>2. Len(SubSeq(base, 1, shared)) = shared /\ SubSeq(base, 1, shared) \in Paths
      BY <1>1, <1>2, CutAfter DEF Paths
    <2>3. shared <= Len(path)
      BY <1>2, <2>2, PrefixSymbols DEF Paths
    <2>4. rest \in Paths
      <3>1. shared \in 0..Len(path)
        BY <1>1, <1>2, <2>3
      <3> HIDE DEF shared
      <3> QED
        BY <3>1, CutAfter DEF Paths
    <2> HIDE DEF rest, shared
    <2>5. Len(base) - shared \in Nat \ {0} /\ 1 \in 1..(Len(base) - shared)
      BY <1>1, <1>2, <1>4
    <2>6. DotDot \in Texts
      BY DotDotTyped
    <2>7. ups \in [1..(Len(base) - shared) -> Texts] /\ ups[1] = DotDot
      BY <2>5, <2>6
    <2> HIDE DEF ups
    <2>8. ups \in Seq(Texts) /\ Len(ups) = Len(base) - shared
      BY <2>5, <2>7, MapSeq
    <2> DEFINE z == ups \o rest
    <2>9. z \in Seq(Texts) /\ Len(z) = Len(ups) + Len(rest) /\ Len(rest) \in Nat /\ z[1] = DotDot
      <3>1. rest \in Seq(Texts) /\ Len(rest) \in Nat
        BY <2>4, LenProperties DEF Paths
      <3>2. 1 \in 1..(Len(ups) + Len(rest)) /\ 1 <= Len(ups)
        BY <2>5, <2>8, <3>1
      <3> QED
        BY <2>7, <2>8, <3>1, <3>2, ConcatProperties
    <2> HIDE DEF z
    <2>10. 1 \in DOMAIN z
      BY <2>5, <2>8, <2>9, LenProperties
    <2>11. DotDot \in Range(z)
      BY <2>9, <2>10 DEF Range
    <2> QED
      BY <2>1, <2>11 DEF z
  <1> QED
    BY <1>3, <1>4

\* The path of an entry below, relative to the directory, is the way down.
LEMMA RelativeOf ==
  ASSUME NEW base \in Paths, NEW s \in NamePaths, s # <<>>
  PROVE  LexicallyRelative(base \o s, base) = s
  <1> DEFINE path == base \o s
             shared == Max(Shares(path, base))
             rest == SubSeq(path, shared + 1, Len(path))
  <1>1. s \in Paths /\ Len(base) \in Nat /\ path \in Paths
    BY NamePathNormal, LenProperties, ConcatProperties DEF Paths
  <1>2. IsPrefix(base, path) /\ SubSeq(path, Len(base) + 1, Len(path)) = s
    BY <1>1, AfterPrefix DEF Paths
  <1>3. Len(base) \in Shares(path, base)
    <2>1. SubSeq(base, 1, Len(base)) = base
      BY SubSeqFull DEF Paths
    <2>2. Len(base) \in 0..Len(base)
      BY <1>1
    <2>3. IsPrefix(SubSeq(base, 1, Len(base)), path)
      BY <1>2, <2>1, Zenon
    <2> QED
      BY <2>2, <2>3, Zenon DEF Shares
  <1>4. shared = Len(base)
    <2>1. shared \in 0..Len(base) /\ Len(base) <= shared
      BY <1>1, <1>3, SharedPart DEF Shares
    <2> QED
      BY <1>1, <2>1
  <1>5. s # <<Empty>>
    <2>1. PICK r \in NamePaths, c \in Texts : IsName(c) /\ s = Append(r, c)
      <3> DEFINE A == {e \in Texts : IsName(e)}
      <3>1. \E r \in Seq(A), c \in A : s = Append(r, c)
        BY EmptySeq, SequenceEmptyOrAppend DEF NamePaths
      <3> QED
        BY <3>1 DEF NamePaths
    <2>2. Last(s) = c
      BY <2>1, NamePathNormal, LastFront DEF Paths
    <2>3. Last(<<Empty>>) = Empty
      BY DEF Last
    <2> QED
      BY <2>1, <2>2, <2>3 DEF IsName
  <1>6. rest = s
    BY <1>2, <1>4
  <1>7. LexicallyRelative(path, base) = [i \in 1..(Len(base) - shared) |-> DotDot] \o rest
    <2>1. rest \notin {<<>>, <<Empty>>}
      BY <1>5, <1>6
    <2> QED
      BY <2>1 DEF LexicallyRelative, Shares
  <1> HIDE DEF shared, rest
  <1>8. [i \in 1..(Len(base) - shared) |-> DotDot] = <<>>
    BY <1>1, <1>4
  <1>9. <<>> \o s = s
    BY <1>1, ConcatEmptySeq DEF Paths
  <1> QED
    BY <1>6, <1>7, <1>8, <1>9

-----------------------------------------------------------------------------
(* What validate_path has established *)

\* The canonical form of a path whose last component is missing.
LEMMA CanonicalMissing ==
  ASSUME IsTree(fs), NEW x \in Paths, NEW c \in Texts, NEW d \in Paths,
         Walk(fs, x) = <<d>>, Walk(fs, Append(x, c)) = <<>>, Append(d, c) \in NamePaths
  PROVE  WeaklyCanonical(Append(x, c)) = Append(d, c)
  <1> DEFINE path == Append(x, c)
             N == Len(x) + 1
             missing == {n \in 1..Len(path) : ~Exists(SubSeq(path, 1, n))}
             first == CHOOSE n \in missing : \A m \in missing : n <= m
  <1>1. Len(x) \in Nat /\ path \in Paths /\ Len(path) = N /\ path[N] = c
    BY LenProperties, AppendProperties DEF Paths
  <1>2. path = x \o <<c>> /\ <<c>> \in Paths
    BY AppendIsConcat DEF Paths
  <1>3. ASSUME NEW n \in 1..Len(x) PROVE n \notin missing
    <2>1. n \in 0..Len(x)
      BY <1>1
    <2> DEFINE u == SubSeq(x, 1, n)
               v == SubSeq(x, n + 1, Len(x))
    <2>2. u \in Paths /\ v \in Paths /\ x = u \o v
      BY <2>1, CutAfter DEF Paths
    <2>3. SubSeq(path, 1, n) = u
      <3>1. 1 \in 1..Len(x)
        BY <1>1
      <3> QED
        BY <1>2, <3>1, SubSeqOfConcat1 DEF Paths
    <2> HIDE DEF u, v
    <2>4. Walk(fs, u \o v) # <<>>
      <3>1. Walk(fs, x) # <<>>
        OBVIOUS
      <3> QED
        BY <2>2, <3>1, Zenon
    <2>5. Walk(fs, u) # <<>>
      BY <2>2, <2>4, BeginningExists
    <2> QED
      BY <2>3, <2>5 DEF Exists, Lookup
  <1>4. N \in missing
    <2>1. SubSeq(path, 1, N) = path /\ N \in 1..Len(path)
      BY <1>1, SubSeqFull DEF Paths
    <2>2. ~Exists(path)
      BY DEF Exists, Lookup
    <2> QED
      BY <2>1, <2>2
  <1>5. missing = {N}
    <2>1. \A n \in 1..Len(path) : n = N \/ n \in 1..Len(x)
      BY <1>1
    <2>2. missing \subseteq 1..Len(path)
      OBVIOUS
    <2> HIDE DEF missing
    <2> QED
      BY <1>3, <1>4, <2>1, <2>2
  <1> HIDE DEF missing
  <1>6. first = N
    BY <1>1, <1>5
  <1>7. WeaklyCanonical(path) =
          LexicallyNormal(Lookup(SubSeq(path, 1, first - 1))[1] \o SubSeq(path, first, Len(path)))
    BY DEF WeaklyCanonical, Exists, Lookup, missing
  <1> HIDE DEF first
  <1>8. SubSeq(path, 1, first - 1) = x /\ SubSeq(path, first, Len(path)) = <<c>>
    <2>1. N \in 1..Len(path)
      BY <1>1
    <2>2. SubSeq(path, 1, Len(x)) = x
      <3>1. CASE Len(x) = 0
        <4>1. x = <<>>
          BY <3>1, EmptySeq DEF Paths
        <4>2. SubSeq(path, 1, 0) = <<>>
          BY SubSeqEmpty
        <4> QED
          BY <3>1, <4>1, <4>2
      <3>2. CASE Len(x) # 0
        <4>1. 1 \in 1..Len(x) /\ Len(x) \in 1..Len(x)
          BY <1>1, <3>2
        <4>2. SubSeq(x \o <<c>>, 1, Len(x)) = SubSeq(x, 1, Len(x))
          BY <1>2, <4>1, SubSeqOfConcat1 DEF Paths
        <4> QED
          BY <1>2, <4>2, SubSeqFull DEF Paths
      <3> QED
        BY <3>1, <3>2
    <2>3. SubSeq(path, N, N) = <<c>>
      <3>1. N \in N..Len(path)
        BY <1>1
      <3>2. SubSeq(path, N, N) = <<path[N]>> \o SubSeq(path, N + 1, N)
        BY <1>1, <2>1, <3>1, SubSeqRecursiveFirst DEF Paths
      <3>3. SubSeq(path, N + 1, N) = <<>>
        BY <1>1, SubSeqEmpty
      <3>4. <<c>> \o <<>> = <<c>>
        BY <1>2, ConcatEmptySeq DEF Paths
      <3> QED
        BY <1>1, <3>2, <3>3, <3>4
    <2> QED
      BY <1>1, <1>6, <2>2, <2>3
  <1>9. Lookup(x)[1] = d
    BY DEF Lookup
  <1>10. d \o <<c>> = Append(d, c)
    BY AppendIsConcat DEF Paths
  <1>11. LexicallyNormal(Append(d, c)) = Append(d, c)
    BY NamePathNormal
  <1> HIDE DEF path
  <1>12. WeaklyCanonical(path) = Append(d, c)
    BY <1>7, <1>8, <1>9, <1>10, <1>11
  <1> QED
    BY <1>12 DEF path

\* node is what a link below R leads to.
BehindLink(F, R, node) ==
  \E p \in DOMAIN F : F[p].kind = "link" /\ F[p].to = node /\ IsPrefix(R, p)

\* Whatever comes and goes, a file that path leads to is below root, or behind a
\* link there that led nowhere when path was not found.
Confined(root, path, found) ==
  \A F : SameTree(F) /\ Walk(F, path) # <<>> /\ F[Walk(F, path)[1]].kind = "file" =>
           \/ IsPrefix(Walk(F, root)[1], Walk(F, path)[1])
           \/ ~found /\ BehindLink(F, Walk(F, root)[1], Walk(F, path)[1])

\* The last step to a file.
LEMMA LastStep ==
  ASSUME NEW F, IsTree(F), NEW path \in Paths, NEW q \in DOMAIN F, Walk(F, path) = <<q>>, F[q].kind = "file"
  PROVE  \E x \in Paths, c \in Texts, d \in DOMAIN F :
           /\ path = Append(x, c) /\ IsName(c)
           /\ Walk(F, x) = <<d>> /\ F[d].kind = "dir"
           /\ Append(d, c) \in DOMAIN F
           /\ \/ F[Append(d, c)].kind # "link" /\ q = Append(d, c)
              \/ F[Append(d, c)].kind = "link" /\ q = F[Append(d, c)].to
  <1>1. path # <<>>
    BY WalkStep DEF IsTree
  <1>2. PICK x \in Paths, c \in Texts : path = Append(x, c)
    BY <1>1, EmptySeq, SequenceEmptyOrAppend DEF Paths
  <1>3. Walk(F, path) = Enter(F, Walk(F, x), c) /\ Walk(F, x) \in Nodes(F)
    BY <1>2, WalkStep
  <1>4. PICK d \in DOMAIN F : Walk(F, x) = <<d>> /\ F[d].kind = "dir"
    BY <1>3 DEF Enter, Nodes
  <1>5. Enter(F, <<d>>, c) = <<q>>
    BY <1>3, <1>4
  <1>6. IsName(c)
    <2>1. c \notin {Empty, Dot}
      BY <1>4, <1>5 DEF Enter
    <2>2. ASSUME c = DotDot PROVE FALSE
      <3>1. q = IF d = <<>> THEN <<>> ELSE Front(d)
        BY <1>4, <1>5, <2>1, <2>2 DEF Enter
      <3>2. F[<<>>].kind = "dir" /\ (d # <<>> => F[Front(d)].kind = "dir")
        BY DEF IsTree, InDirectory
      <3> QED
        BY <3>1, <3>2
    <2> QED
      BY <2>1, <2>2 DEF IsName
  <1> DEFINE kid == Append(d, c)
  <1>7. kid \in DOMAIN F
    BY <1>4, <1>5, <1>6 DEF Enter, IsName
  <1>8. <<q>> = IF F[kid].kind # "link" THEN <<kid>>
                ELSE IF F[kid].to \in DOMAIN F THEN <<F[kid].to>> ELSE <<>>
    BY <1>4, <1>5, <1>6, <1>7 DEF Enter, IsName
  <1>9. (F[kid].kind # "link" /\ q = kid) \/ (F[kid].kind = "link" /\ q = F[kid].to)
    <2> HIDE DEF kid
    <2>1. CASE F[kid].kind # "link"
      <3>1. <<q>> = <<kid>>
        BY <1>8, <2>1, Zenon
      <3>2. <<q>>[1] = q /\ <<kid>>[1] = kid
        OBVIOUS
      <3>3. q = kid
        BY <3>1, <3>2, Zenon
      <3> QED
        BY <2>1, <3>3, Zenon
    <2>2. CASE F[kid].kind = "link" /\ F[kid].to \in DOMAIN F
      <3>1. <<q>> = <<F[kid].to>>
        BY <1>8, <2>2, Zenon
      <3> QED
        BY <2>2, <3>1
    <2>3. CASE F[kid].kind = "link" /\ F[kid].to \notin DOMAIN F
      <3>1. <<q>> = <<>>
        BY <1>8, <2>3, Zenon
      <3> QED
        BY <3>1
    <2> QED
      BY <2>1, <2>2, <2>3
  <1> QED
    BY <1>2, <1>4, <1>6, <1>7, <1>9

LEMMA ConfinedWhenValid ==
  ASSUME SameTree(fs), NEW root \in Paths, NEW path \in Paths, IsKind(root, "dir"), ValidatePath(root, path)
  PROVE  Confined(root, path, Exists(path))
  <1> SUFFICES ASSUME NEW G, SameTree(G), Walk(G, path) # <<>>, G[Walk(G, path)[1]].kind = "file"
               PROVE  \/ IsPrefix(Walk(G, root)[1], Walk(G, path)[1])
                      \/ ~Exists(path) /\ BehindLink(G, Walk(G, root)[1], Walk(G, path)[1])
    BY DEF Confined
  <1>1. IsTree(fs) /\ IsTree(G)
    BY SameIsTree
  <1>2. PICK q \in DOMAIN G : Walk(G, path) = <<q>> /\ G[q].kind = "file"
    BY <1>1, WalkStep DEF Nodes, IsTree
  <1>3. PICK R \in DOMAIN fs : Walk(fs, root) = <<R>> /\ fs[R].kind = "dir"
    BY <1>1, WalkStep DEF IsKind, Exists, Lookup, Nodes, IsTree
  <1>4. Walk(G, root) = <<R>>
    BY <1>3, WayStays
  <1>5. PICK x \in Paths, c \in Texts, d \in DOMAIN G :
           /\ path = Append(x, c) /\ IsName(c)
           /\ Walk(G, x) = <<d>> /\ G[d].kind = "dir"
           /\ Append(d, c) \in DOMAIN G
           /\ \/ G[Append(d, c)].kind # "link" /\ q = Append(d, c)
              \/ G[Append(d, c)].kind = "link" /\ q = G[Append(d, c)].to
    BY <1>1, <1>2, LastStep
  <1> DEFINE kid == Append(d, c)
  <1>6. Walk(fs, x) = <<d>> /\ d \in DOMAIN fs /\ fs[d].kind = "dir"
    BY <1>5, WayStays
  <1>7. kid \in Paths /\ q \in Paths /\ R \in Paths /\ d \in Paths
    BY <1>1, <1>5 DEF IsTree
  <1>8. Walk(fs, path) = Enter(fs, <<d>>, c)
    BY <1>1, <1>5, <1>6, WalkStep
  <1>9. WeaklyCanonical(path) = IF Walk(fs, path) # <<>> THEN Walk(fs, path)[1] ELSE kid
    <2>1. CASE Walk(fs, path) # <<>>
      BY <2>1 DEF WeaklyCanonical, Exists, Lookup
    <2>2. CASE Walk(fs, path) = <<>>
      <3>1. kid \in NamePaths
        BY <1>1, <1>5, EntryNames
      <3>2. WeaklyCanonical(Append(x, c)) = kid
        BY <1>1, <1>5, <1>6, <1>7, <2>2, <3>1, CanonicalMissing
      <3> QED
        BY <1>5, <2>2, <3>2
    <2> QED
      BY <2>1, <2>2
  <1>10. WeaklyCanonical(root) = R
    BY <1>3 DEF WeaklyCanonical, Exists, Lookup
  <1>11. ASSUME NEW e \in Paths, WeaklyCanonical(path) = e PROVE IsPrefix(R, e)
    <2>1. DotDot \notin Range(LexicallyRelative(e, R))
      BY <1>10, <1>11 DEF ValidatePath, Relative
    <2> QED
      BY <1>7, <2>1, RelativeInside
  <1>12. CASE G[kid].kind # "link"
    <2>1. q = kid
      BY <1>5, <1>12
    <2>2. kid \in DOMAIN fs => Walk(fs, path) = <<kid>>
      <3>1. kid \in DOMAIN fs => fs[kid].kind # "link"
        BY <1>5, <1>7, <1>12 DEF SameTree
      <3> QED
        BY <1>5, <1>6, <1>8, <3>1 DEF Enter, IsName
    <2>3. kid \notin DOMAIN fs => Walk(fs, path) = <<>>
      BY <1>5, <1>6, <1>8 DEF Enter, IsName
    <2> HIDE DEF kid
    <2>4. WeaklyCanonical(path) = q
      BY <1>9, <2>1, <2>2, <2>3
    <2>5. IsPrefix(R, q)
      BY <1>7, <1>11, <2>4
    <2> QED
      BY <1>2, <1>4, <2>5
  <1>13. CASE G[kid].kind = "link"
    <2>1. q = G[kid].to
      BY <1>5, <1>13
    <2>2. kid \in DOMAIN fs /\ fs[kid] = G[kid]
      BY <1>5, <1>13, DirsStay
    <2>3. CASE q \in DOMAIN fs
      <3>1. Walk(fs, path) = <<q>>
        BY <1>5, <1>6, <1>8, <1>13, <2>1, <2>2, <2>3 DEF Enter, IsName
      <3> HIDE DEF kid
      <3>2. WeaklyCanonical(path) = q
        BY <1>9, <3>1
      <3>3. IsPrefix(R, q)
        BY <1>7, <1>11, <3>2
      <3> QED
        BY <1>2, <1>4, <3>3
    <2>4. CASE q \notin DOMAIN fs
      <3>1. Walk(fs, path) = <<>>
        BY <1>5, <1>6, <1>8, <1>13, <2>1, <2>2, <2>4 DEF Enter, IsName
      <3>2. kid \in DOMAIN G
        BY <1>5
      <3> HIDE DEF kid
      <3>3. IsPrefix(R, kid)
        BY <1>7, <1>9, <1>11, <3>1
      <3>4. ~Exists(path) /\ BehindLink(G, R, q)
        BY <1>13, <2>1, <3>1, <3>2, <3>3 DEF Exists, Lookup, BehindLink
      <3> QED
        BY <1>2, <1>4, <3>4
    <2> QED
      BY <2>3, <2>4
  <1> QED
    BY <1>12, <1>13

-----------------------------------------------------------------------------
(* The target of a job, resolved *)

LEMMA DecodeTyped ==
  ASSUME NEW s \in Symbols
  PROVE  DecodeSymbol(s) \in Symbols
  <1>1. ".." \in Symbols /\ "/" \in Symbols /\ "a" \in Symbols /\ "%" \in Symbols /\ "SP" \in Symbols
    BY DEF Symbols
  <1>2. ASSUME s \in {"%..", "%/", "%a", "%%", "+"} PROVE Decoded[s] \in {"..", "/", "a", "%", "SP"}
    <2>1. Decoded["%.."] = ".."
      BY DEF Decoded
    <2>2. Decoded["%/"] = "/"
      BY DEF Decoded
    <2>3. Decoded["%a"] = "a"
      BY DEF Decoded
    <2>4. Decoded["%%"] = "%"
      BY DEF Decoded
    <2>5. Decoded["+"] = "SP"
      BY DEF Decoded
    <2> QED
      BY <1>2, <2>1, <2>2, <2>3, <2>4, <2>5
  <1>3. DOMAIN Decoded = {"%..", "%/", "%a", "%%", "+"}
    BY DEF Decoded
  <1> QED
    BY <1>1, <1>2, <1>3 DEF DecodeSymbol

LEMMA RelativeTargetTyped ==
  ASSUME NEW target \in Texts
  PROVE  RelativeTarget(target) \in Paths
  <1> DEFINE decoded == UrlDecode(target)
             text == IF decoded # <<>> /\ decoded[1] = "/" THEN Tail(decoded) ELSE decoded
  <1>1. decoded \in Texts
    <2>1. Len(target) \in Nat /\ DOMAIN target = 1..Len(target)
      BY LenProperties DEF Texts
    <2>2. \A i \in 1..Len(target) : DecodeSymbol(target[i]) \in Symbols
      BY ElementOfSeq, DecodeTyped DEF Texts
    <2>3. decoded \in [1..Len(target) -> Symbols]
      BY <2>1, <2>2 DEF UrlDecode
    <2> HIDE DEF decoded
    <2> QED
      BY <2>1, <2>3, MapSeq DEF Texts
  <1> HIDE DEF decoded
  <1>2. text \in Texts
    BY <1>1, TailOfText DEF Texts
  <1>3. RelativeTarget(target) = IF text = <<>> THEN << <<"index.html">> >> ELSE SplitAt(text, {"/"})
    BY DEF RelativeTarget, decoded
  <1> HIDE DEF text
  <1>4. << <<"index.html">> >> \in Paths
    <2>1. "index.html" \in Symbols
      BY DEF Symbols
    <2>2. <<"index.html">> \in Texts
      BY <2>1 DEF Texts
    <2> QED
      BY <2>2 DEF Paths
  <1>5. SplitAt(text, {"/"}) \in Paths
    <2>1. SplitAt(text, {"/"}) \in Seq(Seq(Symbols \ {"/"}))
      BY <1>2, SplitStep DEF Pieces, Texts
    <2>2. Symbols \ {"/"} \subseteq Symbols
      OBVIOUS
    <2>3. Seq(Symbols \ {"/"}) \subseteq Texts
      BY <2>2, SeqMonotonic DEF Texts
    <2> QED
      BY <2>1, <2>3, SeqMonotonic DEF Paths
  <1> QED
    BY <1>3, <1>4, <1>5

LEMMA JoinTyped ==
  ASSUME NEW root \in Paths, NEW path \in Paths
  PROVE  Join(root, path) \in Paths
  <1>1. root \o path \in Paths
    BY ConcatProperties DEF Paths
  <1>2. path # <<>> => Tail(path) \in Paths
    BY TailOfText DEF Paths
  <1>3. Len(<<>>) = 0
    OBVIOUS
  <1> QED
    BY <1>1, <1>2, <1>3 DEF Join

LEMMA NormalTyped ==
  ASSUME NEW path \in Paths
  PROVE  LexicallyNormal(path) \in Paths
  <1>1. Normal(path) \in Paths
    BY NormalStep
  <1>2. Append(Normal(path), Empty) \in Paths
    BY <1>1, DotDotTyped, AppendProperties DEF Paths
  <1> QED
    BY <1>1, <1>2 DEF LexicallyNormal

LEMMA CanonicalTyped ==
  ASSUME IsTree(fs), NEW path \in Paths
  PROVE  WeaklyCanonical(path) \in Paths
  <1>1. \A p \in Paths : Walk(fs, p) # <<>> => Walk(fs, p)[1] \in Paths
    BY WalkStep DEF Nodes, IsTree
  <1>2. CASE Exists(path)
    BY <1>1, <1>2 DEF WeaklyCanonical, Exists, Lookup
  <1>3. CASE ~Exists(path)
    <2> DEFINE missing == {n \in 1..Len(path) : ~Exists(SubSeq(path, 1, n))}
               first == CHOOSE n \in missing : \A m \in missing : n <= m
    <2>1. Len(path) \in Nat
      BY LenProperties DEF Paths
    <2>2. Exists(<<>>)
      BY WalkStep, EmptySeq DEF Exists, Lookup, Paths
    <2>3. path # <<>>
      BY <1>3, <2>2, Zenon
    <2>4. Len(path) \in missing
      <3>1. SubSeq(path, 1, Len(path)) = path
        BY SubSeqFull DEF Paths
      <3>2. Len(path) \in 1..Len(path)
        BY <2>1, <2>3, EmptySeq DEF Paths
      <3>3. ~Exists(SubSeq(path, 1, Len(path)))
        BY <1>3, <3>1, Zenon
      <3> QED
        BY <3>2, <3>3
    <2>5. missing \in SUBSET Nat /\ missing \subseteq 1..Len(path)
      BY <2>1
    <2>6. \A n \in missing : ~Exists(SubSeq(path, 1, n))
      OBVIOUS
    <2>7. \A n \in 1..Len(path) : n \notin missing => Exists(SubSeq(path, 1, n))
      OBVIOUS
    <2>8. WeaklyCanonical(path) =
            LexicallyNormal(Lookup(SubSeq(path, 1, first - 1))[1] \o SubSeq(path, first, Len(path)))
      BY <1>3 DEF WeaklyCanonical
    <2> HIDE DEF missing
    <2>9. \E n \in missing : \A m \in missing : n <= m
      BY <2>4, <2>5, LeastOfNat
    <2>10. first \in missing /\ \A m \in missing : first <= m
      BY <2>9
    <2> HIDE DEF first
    <2>11. first \in 1..Len(path) /\ first - 1 \in 0..Len(path)
      BY <2>1, <2>5, <2>10
    <2> DEFINE u == SubSeq(path, 1, first - 1)
               v == SubSeq(path, first, Len(path))
    <2>12. u \in Paths
      BY <2>1, <2>11, CutAfter DEF Paths
    <2>13. v \in Paths
      <3>1. (first - 1) + 1 = first
        BY <2>11
      <3> QED
        BY <2>11, <3>1, CutAfter DEF Paths
    <2>14. Exists(u)
      <3>1. CASE first = 1
        <4>1. u = <<>>
          BY <3>1, SubSeqEmpty
        <4> QED
          BY <2>2, <4>1, Zenon
      <3>2. CASE first # 1
        <4>1. first - 1 \in 1..Len(path) /\ ~(first <= first - 1)
          BY <2>11, <3>2
        <4>2. first - 1 \notin missing
          BY <2>10, <4>1
        <4> QED
          BY <2>7, <4>1, <4>2
      <3> QED
        BY <3>1, <3>2
    <2> HIDE DEF u, v
    <2>15. Lookup(u)[1] \in Paths
      BY <1>1, <2>12, <2>14 DEF Exists, Lookup
    <2>16. Lookup(u)[1] \o v \in Paths
      BY <2>13, <2>15, ConcatProperties DEF Paths
    <2>17. LexicallyNormal(Lookup(u)[1] \o v) \in Paths
      BY <2>16, NormalTyped
    <2> QED
      BY <2>8, <2>17 DEF u, v
  <1> QED
    BY <1>2, <1>3

LEMMA RelativeTyped ==
  ASSUME NEW path \in Paths, NEW base \in Paths
  PROVE  LexicallyRelative(path, base) \in Paths
  <1> DEFINE shared == Max(Shares(path, base))
             rest == SubSeq(path, shared + 1, Len(path))
             ups == [i \in 1..(Len(base) - shared) |-> DotDot]
  <1>1. Len(base) \in Nat /\ Len(path) \in Nat
    BY LenProperties DEF Paths
  <1>2. shared \in 0..Len(base) /\ IsPrefix(SubSeq(base, 1, shared), path)
    BY SharedPart DEF Shares
  <1>3. LexicallyRelative(path, base) = IF shared = Len(base) /\ rest \in {<<>>, <<Empty>>} THEN <<Dot>>
                                        ELSE ups \o rest
    BY DEF LexicallyRelative, Shares
  <1>4. rest \in Paths
    <2>1. Len(SubSeq(base, 1, shared)) = shared /\ SubSeq(base, 1, shared) \in Paths
      BY <1>1, <1>2, CutAfter DEF Paths
    <2>2. shared <= Len(path)
      BY <1>2, <2>1, PrefixSymbols DEF Paths
    <2>3. shared \in 0..Len(path)
      BY <1>1, <1>2, <2>2
    <2> HIDE DEF shared
    <2> QED
      BY <2>3, CutAfter DEF Paths
  <1> HIDE DEF shared, rest
  <1>5. Len(base) - shared \in Nat /\ DotDot \in Texts
    BY <1>1, <1>2, DotDotTyped
  <1>6. ups \in Paths
    <2>1. ups \in [1..(Len(base) - shared) -> Texts]
      BY <1>5
    <2> HIDE DEF ups
    <2> QED
      BY <1>5, <2>1, MapSeq DEF Paths
  <1> HIDE DEF ups
  <1>7. ups \o rest \in Paths
    BY <1>4, <1>6, ConcatProperties DEF Paths
  <1>8. <<Dot>> \in Paths
    BY DotDotTyped DEF Paths
  <1> QED
    BY <1>3, <1>7, <1>8

LEMMA ResolvedTyped ==
  ASSUME IsTree(fs), NEW root \in Paths, NEW target \in Texts
  PROVE  ResolvePath(root, target) \in Paths
  <1> DEFINE p == Join(root, RelativeTarget(target))
  <1>1. p \in Paths
    BY RelativeTargetTyped, JoinTyped
  <1> HIDE DEF p
  <1>2. Relative(p, root) \in Paths
    BY <1>1, CanonicalTyped, RelativeTyped DEF Relative
  <1>3. root \o Relative(p, root) \in Paths
    BY <1>2, ConcatProperties DEF Paths
  <1> QED
    BY <1>3, NormalTyped DEF ResolvePath, p

-----------------------------------------------------------------------------
(* A target that names a file below the root *)

Leads(F, path, kind) == Walk(F, path) # <<>> /\ F[Walk(F, path)[1]].kind = kind

Wanted(F, root, target) == Walk(F, Join(root, RelativeTarget(target)))

Fetchable(F, root, target) ==
  /\ ~DoubleEncoded(target) /\ DotDot \notin Range(root)
  /\ Leads(F, root, "dir") /\ Leads(F, Join(root, RelativeTarget(target)), "file")
  /\ F[Wanted(F, root, target)[1]].size > 0
  /\ IsPrefix(Walk(F, root)[1], Wanted(F, root, target)[1])

\* It is down from the directory that the root leads to, by names.
WayDown(F, root, target, R, s) ==
  /\ Walk(F, root) = <<R>> /\ F[R].kind = "dir"
  /\ s # <<>> /\ R \o s \in DOMAIN F /\ F[R \o s].kind = "file"
  /\ Wanted(F, root, target) = <<R \o s>>

LEMMA WantedBelow ==
  ASSUME NEW F, IsTree(F), NEW root \in Paths, NEW target \in Texts, Fetchable(F, root, target)
  PROVE  \E R \in DOMAIN F, s \in NamePaths : WayDown(F, root, target, R, s)
  <1> DEFINE p == Join(root, RelativeTarget(target))
  <1>1. p \in Paths
    BY RelativeTargetTyped, JoinTyped
  <1>2. PICK R \in DOMAIN F : Walk(F, root) = <<R>> /\ F[R].kind = "dir"
    BY WalkStep DEF Fetchable, Leads, Nodes, IsTree
  <1>3. /\ Walk(F, p) # <<>> /\ F[Walk(F, p)[1]].kind = "file"
        /\ IsPrefix(Walk(F, root)[1], Walk(F, p)[1]) /\ Wanted(F, root, target) = Walk(F, p)
    BY DEF Fetchable, Leads, Wanted
  <1> HIDE DEF p
  <1>4. PICK q \in DOMAIN F : Walk(F, p) = <<q>> /\ F[q].kind = "file" /\ IsPrefix(R, q)
    BY <1>1, <1>2, <1>3, WalkStep DEF Nodes, IsTree
  <1> DEFINE A == {c \in Texts : IsName(c)}
  <1>5. R \in Seq(A) /\ q \in Seq(A)
    BY EntryNames DEF NamePaths
  <1> HIDE DEF A
  <1>6. PICK s \in Seq(A) : q = R \o s
    BY <1>4, <1>5, PrefixRest
  <1>7. s # <<>>
    <2>1. R \o <<>> = R
      BY <1>5, ConcatEmptySeq
    <2> QED
      BY <1>2, <1>4, <1>6, <2>1
  <1>8. s \in NamePaths
    BY DEF NamePaths, A
  <1> QED
    BY <1>2, <1>3, <1>4, <1>6, <1>7, <1>8 DEF WayDown

\* Its resolved path leads to it.
LEMMA ResolvesToWanted ==
  ASSUME IsTree(fs), NEW root \in Paths, NEW target \in Texts, Fetchable(fs, root, target)
  PROVE  Walk(fs, ResolvePath(root, target)) = Wanted(fs, root, target)
  <1>0. PICK R \in DOMAIN fs, s \in NamePaths : WayDown(fs, root, target, R, s)
    BY WantedBelow, Zenon
  <1>1. /\ Walk(fs, root) = <<R>> /\ fs[R].kind = "dir"
        /\ s # <<>> /\ R \o s \in DOMAIN fs /\ fs[R \o s].kind = "file"
        /\ Wanted(fs, root, target) = <<R \o s>>
    BY <1>0 DEF WayDown
  <1> DEFINE p == Join(root, RelativeTarget(target))
  <1>2. WeaklyCanonical(p) = R \o s /\ WeaklyCanonical(root) = R
    BY <1>1 DEF WeaklyCanonical, Exists, Lookup, Wanted
  <1>3. R \in Paths /\ s \in Paths
    BY NamePathNormal DEF IsTree
  <1>4. LexicallyRelative(R \o s, R) = s
    BY <1>1, <1>3, RelativeOf
  <1>5. ResolvePath(root, target) = LexicallyNormal(root \o s)
    BY <1>2, <1>4 DEF ResolvePath, Relative
  <1>6. Walk(fs, root \o s) = <<R \o s>>
    BY <1>1, WalkDown
  <1>7. root \o s \in Descents
    <2>1. root \in Seq(Texts \ {DotDot})
      <3>1. Len(root) \in Nat /\ DOMAIN root = 1..Len(root) /\ root \in [1..Len(root) -> Texts]
        BY LenProperties DEF Paths
      <3>2. \A i \in 1..Len(root) : root[i] # DotDot
        BY <3>1 DEF Fetchable, Range
      <3>3. root \in [1..Len(root) -> Texts \ {DotDot}]
        BY <3>1, <3>2
      <3> QED
        BY <3>1, <3>3, MapSeq
    <2>2. s \in Seq(Texts \ {DotDot})
      <3>1. {c \in Texts : IsName(c)} \subseteq Texts \ {DotDot}
        BY DEF IsName
      <3> QED
        BY <3>1, SeqMonotonic DEF NamePaths
    <2> QED
      BY <2>1, <2>2, ConcatProperties DEF Descents
  <1>8. Walk(fs, Normal(root \o s)) = Walk(fs, root \o s)
    <2>1. Walk(fs, root \o s) # <<>>
      <3> DEFINE q == R \o s
      <3> HIDE DEF q
      <3>1. <<q>> # <<>>
        OBVIOUS
      <3> QED
        BY <1>6, <3>1, Zenon DEF q
    <2> QED
      BY <1>7, <2>1, NormalWalk
  <1>9. LexicallyNormal(root \o s) = Normal(root \o s)
    <2> DEFINE A == {e \in Texts : IsName(e)}
    <2>1. PICK r \in Seq(A), c \in A : s = Append(r, c)
      BY <1>1, EmptySeq, SequenceEmptyOrAppend DEF NamePaths
    <2>2. r \in Paths /\ c \in Texts /\ IsName(c)
      BY <2>1, NamePathNormal DEF NamePaths
    <2>3. root \o r \in Paths /\ root \o s = Append(root \o r, c)
      BY <2>1, <2>2, ConcatAppend DEF Paths
    <2>4. Last(root \o s) = c
      <3> DEFINE q == root \o r
      <3> HIDE DEF q
      <3>1. q \in Seq(Texts) /\ c \in Texts /\ root \o s = Append(q, c)
        BY <2>2, <2>3 DEF q, Paths
      <3>2. Last(Append(q, c)) = c
        BY <3>1, LastFront, Zenon
      <3> QED
        BY <3>1, <3>2
    <2> QED
      BY <2>2, <2>4 DEF LexicallyNormal, IsName
  <1> QED
    BY <1>1, <1>5, <1>6, <1>8, <1>9

\* And is found valid.
LEMMA WantedIsValid ==
  ASSUME IsTree(fs), NEW root \in Paths, NEW target \in Texts, Fetchable(fs, root, target),
         NEW path \in Paths, Walk(fs, path) = Wanted(fs, root, target)
  PROVE  ValidatePath(root, path)
  <1>0. PICK R \in DOMAIN fs, s \in NamePaths : WayDown(fs, root, target, R, s)
    BY WantedBelow, Zenon
  <1>1. /\ Walk(fs, root) = <<R>> /\ fs[R].kind = "dir"
        /\ s # <<>> /\ R \o s \in DOMAIN fs /\ fs[R \o s].kind = "file"
        /\ Wanted(fs, root, target) = <<R \o s>>
    BY <1>0 DEF WayDown
  <1>2. WeaklyCanonical(path) = R \o s /\ WeaklyCanonical(root) = R
    BY <1>1 DEF WeaklyCanonical, Exists, Lookup
  <1>3. R \in Paths /\ s \in Paths
    BY NamePathNormal DEF IsTree
  <1>4. LexicallyRelative(R \o s, R) = s
    BY <1>1, <1>3, RelativeOf
  <1>5. DotDot \notin Range(s)
    <2>1. Len(s) \in Nat /\ DOMAIN s = 1..Len(s) /\ \A i \in 1..Len(s) : s[i] \in {c \in Texts : IsName(c)}
      BY LenProperties, ElementOfSeq DEF NamePaths
    <2> QED
      BY <2>1 DEF Range, IsName
  <1> QED
    BY <1>2, <1>4, <1>5 DEF ValidatePath, Relative

-----------------------------------------------------------------------------
(* A job, while files come and go *)

\* What has been established of a job that has got so far.
FileJob(F, j) ==
  /\ j.root \in Paths /\ j.target \in Texts /\ j.path \in Paths
  /\ j.pc \in {"resolve", "validate", "exists", "directory", "regular", "read"} => Leads(F, j.root, "dir")
  /\ j.pc \in {"exists", "directory", "regular", "read"} => Confined(j.root, j.path, j.found)
  /\ j.pc = "done" /\ j.status = 200 =>
       /\ Leads(F, j.root, "dir")
       /\ \/ IsPrefix(Walk(F, j.root)[1], j.served[1])
          \/ ~j.found /\ BehindLink(F, Walk(F, j.root)[1], j.served[1])

\* A job that is on its way to the file its target names.
Fetches(F, j) ==
  Fetchable(F, j.root, j.target) =>
    /\ j.pc \in {"validate", "exists", "directory", "regular", "read"} =>
         Walk(F, j.path) = Wanted(F, j.root, j.target)
    /\ j.pc = "done" => j.status = 200 /\ j.served = Wanted(F, j.root, j.target)

FilesInv ==
  /\ TextInv /\ FramingInv
  /\ SameTree(fs) /\ deploys \in Nat
  /\ FileJob(fs, job) /\ (deploys = 0 => Fetches(fs, job))

\* A directory is one at all times, by the same way.
LEMMA LeadsStays ==
  ASSUME NEW F, SameTree(F), NEW G, SameTree(G), NEW p \in Paths, Leads(F, p, "dir")
  PROVE  Leads(G, p, "dir") /\ Walk(G, p) = Walk(F, p)
  <1>1. PICK d \in DOMAIN F : Walk(F, p) = <<d>> /\ F[d].kind = "dir"
    BY SameIsTree, WalkStep DEF Leads, Nodes
  <1>2. Walk(G, p) = <<d>> /\ d \in DOMAIN G /\ G[d].kind = "dir"
    BY <1>1, WayStays
  <1> QED
    BY <1>1, <1>2 DEF Leads

LEMMA JobStays ==
  ASSUME NEW F, SameTree(F), NEW G, SameTree(G), NEW j, FileJob(F, j)
  PROVE  FileJob(G, j)
  <1>1. \A R, node : BehindLink(F, R, node) => BehindLink(G, R, node)
    BY DirsStay DEF BehindLink
  <1> QED
    BY <1>1, LeadsStays DEF FileJob

\* Files that come and go leave the rest of the tree.
LEMMA TreeStays ==
  ASSUME SameTree(fs), NEW p \in Deployable, NEW n, Deploy(p, n) \/ Withdraw(p)
  PROVE  SameTree(fs')
  <1>1. p \in Paths
    BY PathsTyped, DeployAssumption
  <1>2. CASE Deploy(p, n)
    <2> DEFINE file == [kind |-> "file", size |-> n]
    <2>1. fs' = [q \in DOMAIN fs \cup {p} |-> IF q = p THEN file ELSE fs[q]]
      BY <1>2 DEF Deploy
    <2>2. file.kind = "file"
      OBVIOUS
    <2> HIDE DEF file
    <2> QED
      BY <1>1, <2>1, <2>2 DEF SameTree
  <1>3. CASE Withdraw(p)
    <2>1. fs' = [q \in DOMAIN fs \ {p} |-> fs[q]]
      BY <1>3 DEF Withdraw, Restrict
    <2> QED
      BY <1>1, <2>1 DEF SameTree
  <1> QED
    BY <1>2, <1>3

\* A step of serve_file ends badly, goes on, resolves the target, or serves.
LEMMA FileProgress ==
  ASSUME FilesInv, StepFile
  PROVE  FileJob(fs, job') /\ (deploys = 0 => Fetches(fs, job'))
  <1> DEFINE good == Fetchable(fs, job.root, job.target)
             wanted == Wanted(fs, job.root, job.target)
             Goal == FileJob(fs, job') /\ (deploys = 0 => Fetches(fs, job'))
  <1> SUFFICES Goal
    OBVIOUS
  <1>1. /\ IsTree(fs) /\ SameTree(fs) /\ DOMAIN job = JobFields
        /\ job.root \in Paths /\ job.target \in Texts /\ job.path \in Paths
    BY SameIsTree DEF FilesInv, FileJob, FramingInv, JobSettles
  <1>2. ASSUME NEW s, s # 200, Finish(s), deploys = 0 => ~good PROVE Goal
    <2>1. /\ job'.pc = "done" /\ job'.status = s
          /\ job'.root = job.root /\ job'.target = job.target /\ job'.path = job.path
      BY <1>1, <1>2 DEF Finish, JobFields
    <2> QED
      BY <1>1, <1>2, <2>1 DEF FileJob, Fetches
  <1>3. ASSUME NEW pc \in {"resolve", "directory", "regular", "read"}, Go(pc),
               Leads(fs, job.root, "dir"), pc # "resolve" => Confined(job.root, job.path, job.found),
               pc # "resolve" => (deploys = 0 /\ good => Walk(fs, job.path) = wanted)
        PROVE  Goal
    <2>1. /\ job'.pc = pc /\ job'.root = job.root /\ job'.target = job.target /\ job'.path = job.path
          /\ job'.found = job.found
      BY <1>1, <1>3 DEF Go, JobFields
    <2> QED
      BY <1>1, <1>3, <2>1 DEF FileJob, Fetches
  <1>4. job.pc \in {"resolve", "validate", "exists", "directory", "regular", "read"} => Leads(fs, job.root, "dir")
    BY DEF FilesInv, FileJob
  <1>5. job.pc \in {"exists", "directory", "regular", "read"} => Confined(job.root, job.path, job.found)
    BY DEF FilesInv, FileJob
  <1>6. deploys = 0 /\ good /\ job.pc \in {"validate", "exists", "directory", "regular", "read"} =>
          Walk(fs, job.path) = wanted
    BY DEF FilesInv, Fetches
  <1>7. good => Leads(fs, job.root, "dir") /\ wanted # <<>> /\ fs[wanted[1]].kind = "file" /\ fs[wanted[1]].size > 0
    BY DEF Fetchable, Leads, Wanted
  <1>8. \A p, k : IsKind(p, k) <=> Leads(fs, p, k)
    BY DEF IsKind, Exists, Lookup, Leads
  <1> HIDE DEF wanted
  <1>9. CASE job.pc = "open"
    <2>1. IF IsKind(job.root, "dir") THEN Go("resolve") ELSE Finish(500)
      BY <1>9, Zenon DEF StepFile
    <2> HIDE DEF Goal, good
    <2> QED
      BY <1>2, <1>3, <1>7, <1>8, <2>1
  <1>10. CASE job.pc = "resolve"
    <2>1. IF DoubleEncoded(job.target) THEN Finish(400)
          ELSE job' = [job EXCEPT !.pc = "validate", !.path = ResolvePath(job.root, job.target)]
      BY <1>10 DEF StepFile
    <2>2. CASE DoubleEncoded(job.target)
      <3>1. ~good
        BY <2>2 DEF Fetchable
      <3> QED
        BY <1>2, <2>1, <2>2, <3>1
    <2>3. CASE ~DoubleEncoded(job.target)
      <3> DEFINE path == ResolvePath(job.root, job.target)
      <3>1. path \in Paths /\ (good => Walk(fs, path) = wanted)
        BY <1>1, ResolvedTyped, ResolvesToWanted DEF wanted
      <3>2. job' = [job EXCEPT !.pc = "validate", !.path = path]
        BY <2>1, <2>3
      <3> HIDE DEF path
      <3>3. job'.pc = "validate" /\ job'.root = job.root /\ job'.target = job.target /\ job'.path = path
        BY <1>1, <3>2 DEF JobFields
      <3> QED
        BY <1>1, <1>4, <1>10, <3>1, <3>3 DEF FileJob, Fetches, wanted
    <2> QED
      BY <2>2, <2>3
  <1>11. CASE job.pc = "validate"
    <2> DEFINE found == Exists(job.path)
    <2>1. IF ValidatePath(job.root, job.path)
          THEN job' = [job EXCEPT !.pc = "exists", !.found = found] ELSE Finish(403)
      BY <1>11, Zenon DEF StepFile
    <2>2. ValidatePath(job.root, job.path) => Confined(job.root, job.path, found)
      BY <1>1, <1>4, <1>8, <1>11, ConfinedWhenValid
    <2>3. deploys = 0 /\ good => ValidatePath(job.root, job.path)
      BY <1>1, <1>6, <1>11, WantedIsValid DEF wanted
    <2> HIDE DEF found
    <2>4. ASSUME ValidatePath(job.root, job.path) PROVE Goal
      <3>1. /\ job'.pc = "exists" /\ job'.root = job.root /\ job'.target = job.target
            /\ job'.path = job.path /\ job'.found = found
        BY <1>1, <2>1, <2>4 DEF JobFields
      <3> QED
        BY <1>1, <1>4, <1>6, <1>11, <2>2, <2>4, <3>1 DEF FileJob, Fetches, wanted
    <2> HIDE DEF Goal, good
    <2> QED
      BY <1>2, <2>1, <2>3, <2>4
  <1>12. CASE job.pc = "exists"
    <2>1. IF Exists(job.path) THEN Go("directory") ELSE Finish(404)
      BY <1>12, Zenon DEF StepFile
    <2>2. deploys = 0 /\ good => Exists(job.path)
      BY <1>6, <1>7, <1>12 DEF Exists, Lookup
    <2> HIDE DEF Goal, good
    <2> QED
      BY <1>2, <1>3, <1>4, <1>5, <1>6, <1>12, <2>1, <2>2
  <1>13. CASE job.pc = "directory"
    <2>1. IF IsKind(job.path, "dir") THEN Finish(403) ELSE Go("regular")
      BY <1>13, Zenon DEF StepFile
    <2>2. deploys = 0 /\ good => ~IsKind(job.path, "dir")
      BY <1>6, <1>7, <1>13 DEF IsKind, Lookup
    <2> HIDE DEF Goal, good
    <2> QED
      BY <1>2, <1>3, <1>4, <1>5, <1>6, <1>13, <2>1, <2>2
  <1>14. CASE job.pc = "regular"
    <2>1. IF IsKind(job.path, "file") THEN Go("read") ELSE Finish(403)
      BY <1>14, Zenon DEF StepFile
    <2>2. deploys = 0 /\ good => IsKind(job.path, "file")
      BY <1>6, <1>7, <1>14 DEF IsKind, Exists, Lookup
    <2> HIDE DEF Goal, good
    <2> QED
      BY <1>2, <1>3, <1>4, <1>5, <1>6, <1>14, <2>1, <2>2
  <1>15. CASE job.pc = "read"
    <2> DEFINE found == Lookup(job.path)
    <2>1. IF IsKind(job.path, "file") /\ fs[found[1]].size > 0
          THEN job' = [job EXCEPT !.pc = "done", !.status = 200, !.size = fs[found[1]].size, !.served = found]
          ELSE Finish(500)
      BY <1>15 DEF StepFile
    <2>2. CASE IsKind(job.path, "file") /\ fs[found[1]].size > 0
      <3>1. job' = [job EXCEPT !.pc = "done", !.status = 200, !.size = fs[found[1]].size, !.served = found]
        BY <2>1, <2>2
      <3>2. found = Walk(fs, job.path)
        BY DEF Lookup
      <3> HIDE DEF found
      <3>3. /\ job'.pc = "done" /\ job'.status = 200 /\ job'.served = found
            /\ job'.root = job.root /\ job'.target = job.target /\ job'.path = job.path
            /\ job'.found = job.found
        BY <1>1, <3>1 DEF JobFields
      <3>4. \/ IsPrefix(Walk(fs, job.root)[1], found[1])
            \/ ~job.found /\ BehindLink(fs, Walk(fs, job.root)[1], found[1])
        BY <1>1, <1>5, <1>8, <1>15, <2>2, <3>2 DEF Confined, Leads
      <3>5. deploys = 0 /\ good => found = wanted
        BY <1>6, <1>15, <3>2
      <3> QED
        BY <1>1, <1>4, <1>15, <3>3, <3>4, <3>5 DEF FileJob, Fetches, wanted
    <2>3. CASE ~(IsKind(job.path, "file") /\ fs[found[1]].size > 0)
      <3>1. Finish(500)
        BY <2>1, <2>3
      <3>2. deploys = 0 => ~good
        BY <1>6, <1>7, <1>15, <2>3 DEF IsKind, Exists, Lookup
      <3> QED
        BY <1>2, <3>1, <3>2
    <2> QED
      BY <2>2, <2>3
  <1>16. job.pc \in {"open", "resolve", "validate", "exists", "directory", "regular", "read"}
    BY DEF StepFile
  <1> HIDE DEF Goal, good
  <1> QED
    BY <1>9, <1>10, <1>11, <1>12, <1>13, <1>14, <1>15, <1>16

LEMMA NoJobHolds ==
  ASSUME NEW F
  PROVE  FileJob(F, NoJob) /\ Fetches(F, NoJob)
  <1>1. <<>> \in Paths /\ <<>> \in Texts
    BY EmptySeq DEF Paths, Texts
  <1>2. NoJob.pc = "none" /\ NoJob.root = <<>> /\ NoJob.target = <<>> /\ NoJob.path = <<>>
    BY DEF NoJob
  <1> QED
    BY <1>1, <1>2 DEF FileJob, Fetches

LEMMA NewJobHolds ==
  ASSUME NEW F, NEW root \in Paths, NEW target \in Texts
  PROVE  FileJob(F, NewJob(root, target)) /\ Fetches(F, NewJob(root, target))
  <1> DEFINE j == NewJob(root, target)
  <1>1. <<>> \in Paths
    BY EmptySeq DEF Paths
  <1>2. j.pc = "open" /\ j.root = root /\ j.target = target /\ j.path = <<>>
    BY DEF NewJob, NoJob
  <1> HIDE DEF j
  <1>3. FileJob(F, j) /\ Fetches(F, j)
    BY <1>1, <1>2 DEF FileJob, Fetches
  <1> QED
    BY <1>3 DEF j

LEMMA RootTyped ==
  ASSUME NEW c \in Configs
  PROVE  c.root \in Paths
  BY PathsTyped, TextAssumption

LEMMA FilesStep == FilesInv /\ [Next]_vars => FilesInv'
  <1> SUFFICES ASSUME FilesInv, [Next]_vars PROVE FilesInv'
    OBVIOUS
  <1>1. TextInv' /\ FramingInv'
    BY TextStep, FramingStep DEF FilesInv
  <1> DEFINE Goal == /\ SameTree(fs') /\ deploys' \in Nat
                     /\ FileJob(fs', job') /\ (deploys' = 0 => Fetches(fs', job'))
  <1> SUFFICES Goal
    BY <1>1 DEF FilesInv
  <1>2. SameTree(fs) /\ deploys \in Nat /\ FileJob(fs, job) /\ (deploys = 0 => Fetches(fs, job))
    BY DEF FilesInv
  <1>3. ASSUME fs' = fs, deploys' = deploys, job' = job \/ job' = NoJob PROVE Goal
    BY <1>2, <1>3, NoJobHolds, Zenon
  <1>4. ASSUME NEW n, Receive(n) PROVE Goal
    <2>1. fs' = fs /\ deploys' = deploys /\ cfg' = cfg
      BY <1>4, Zenon DEF Receive
    <2>2. CASE Dispatch(parser'.request) /\ StartFile(parser'.request)
      <3>1. cfg.root \in Paths /\ parser'.request.target \in Texts
        BY <1>1, ParserParts, RootTyped DEF TextInv, FilesInv
      <3>2. job' = NewJob(cfg.root, parser'.request.target) \/ job' = job
        BY <2>2, Zenon DEF StartFile
      <3> QED
        BY <1>2, <1>3, <2>1, <3>1, <3>2, NewJobHolds, Zenon
    <2>3. CASE Dispatch(parser'.request) /\ ~StartFile(parser'.request)
      <3>1. job' = job
        BY <2>3, Zenon DEF Dispatch, AnswerRoute, AnswerUpgrade, RefuseProxy, StartProxy
      <3> QED
        BY <1>3, <2>1, <3>1
    <2>4. CASE ~Dispatch(parser'.request)
      <3>1. job' = job
        BY <1>4, <2>4 DEF Receive
      <3> QED
        BY <1>3, <2>1, <3>1
    <2> QED
      BY <2>2, <2>3, <2>4
  <1>5. CASE Work
    <2>1. CASE StepFile
      <3>1. fs' = fs /\ deploys' = deploys
        BY <2>1, Zenon DEF StepFile
      <3>2. FileJob(fs, job') /\ (deploys = 0 => Fetches(fs, job'))
        BY <2>1, FileProgress
      <3> QED
        BY <1>2, <3>1, <3>2, Zenon
    <2>2. ASSUME NEW p \in Deployable, NEW n, Deploy(p, n) \/ Withdraw(p) PROVE Goal
      <3>1. job' = job /\ deploys' = deploys + 1
        BY <2>2, Zenon DEF Deploy, Withdraw
      <3>2. SameTree(fs')
        BY <1>2, <2>2, TreeStays
      <3>3. FileJob(fs', job)
        BY <1>2, <3>2, JobStays
      <3>4. deploys' \in Nat /\ deploys' # 0
        BY <1>2, <3>1
      <3> QED
        BY <3>1, <3>2, <3>3, <3>4, Zenon
    <2> QED
      BY <1>5, <2>1, <2>2, Zenon DEF Work
  <1>6. CASE Flush
    <2>1. fs' = fs /\ deploys' = deploys /\ (job' = job \/ job' = NoJob)
      BY <1>6, Zenon DEF Flush
    <2> QED
      BY <1>3, <2>1
  <1>7. ASSUME NEW m, Send(m) PROVE Goal
    <2>1. fs' = fs /\ deploys' = deploys /\ job' = job
      BY <1>7, Zenon DEF Send, fileVars
    <2> QED
      BY <1>3, <2>1
  <1>8. ASSUME NEW o, UpstreamSettles(o) PROVE Goal
    <2>1. fs' = fs /\ deploys' = deploys /\ job' = job
      BY <1>8, Zenon DEF UpstreamSettles, fileVars
    <2> QED
      BY <1>3, <2>1
  <1>9. CASE FileSettles \/ Leave \/ UNCHANGED vars
    <2>1. fs' = fs /\ deploys' = deploys /\ job' = job
      BY <1>9, Zenon DEF FileSettles, Leave, vars, fileVars
    <2> QED
      BY <1>3, <2>1
  <1> HIDE DEF Goal
  <1> QED
    BY <1>4, <1>5, <1>6, <1>7, <1>8, <1>9 DEF Next, Gone

\* The invariant says what FilesStayInRoot asks.
LEMMA FilesInvSuffices == FilesInv => FilesStayInRoot
  <1> SUFFICES ASSUME FilesInv PROVE FilesStayInRoot
    OBVIOUS
  <1>1. FileJob(fs, job) /\ (deploys = 0 => Fetches(fs, job))
    BY DEF FilesInv
  <1>2. job.pc = "done" /\ job.status = 200 =>
          Inside(job.root, job.served[1]) \/ AppearedBehindLink(job.served[1])
    BY <1>1 DEF FileJob, BehindLink, AppearedBehindLink, Inside, Lookup
  <1>3. ASSUME job.pc = "done", deploys = 0, ~DoubleEncoded(job.target), IsKind(job.root, "dir"),
               DotDot \notin Range(job.root), Named(job.root, job.target) # <<>>,
               ServableFile(job.root, Named(job.root, job.target)[1])
        PROVE  job.status = 200 /\ job.served = Named(job.root, job.target)
    <2>1. Named(job.root, job.target) = Wanted(fs, job.root, job.target)
      BY DEF Named, Wanted, Lookup
    <2>2. Fetchable(fs, job.root, job.target)
      BY <1>3, <2>1
         DEF Fetchable, ServableFile, Inside, IsKind, Exists, Leads, Lookup, Wanted
    <2> QED
      BY <1>1, <1>3, <2>1, <2>2 DEF Fetches
  <1> QED
    BY <1>2, <1>3 DEF FilesStayInRoot

\* What serve_file sends is a file inside the canonical document root, whatever
\* the target, the links and the files that come and go between two of its
\* questions, or else a file that appeared behind a link of the root which
\* dangled when validate_path looked; and with none coming or going, a target
\* that names a file of the root by any detour gets it (normalize_path,
\* resolve_path, validate_path, read_file).
THEOREM FilesAlwaysStayInRoot == Spec => []FilesStayInRoot
  <1>1. Init => FilesInv
    <2> SUFFICES ASSUME Init PROVE FilesInv
      OBVIOUS
    <2>1. TextInv
      BY FreshParserTyped, EmptySeq DEF Init, TextInv, Texts
    <2>2. FramingInv
      BY DEF Init, FramingInv, AnswersInTurn, JobSettles, JobFields, NoJob, BodiesDelimited
    <2>3. SameTree(fs) /\ deploys \in Nat /\ FileJob(fs, job) /\ Fetches(fs, job)
      BY InitialSame, NoJobHolds DEF Init
    <2> QED
      BY <2>1, <2>2, <2>3 DEF FilesInv
  <1> QED
    BY <1>1, FilesStep, FilesInvSuffices, PTL DEF Spec
=============================================================================
