------------------------------ MODULE ListLemmas ------------------------------
(***************************************************************************)
(* What the list operations of the scheduler (insert_in_tl, unlink_tl, the *)
(* steal list, the chain of stolen lists) do to the set of elements of a   *)
(* list, and that they create no duplicate.                                *)
(***************************************************************************)
EXTENDS Integers, SequencesExt, SequenceTheorems, WellFoundedInduction, TLAPS

(* A set of naturals has a least element. *)
LEMMA MinOfNaturals ==
  ASSUME NEW T, T \subseteq Nat, T # {}
  PROVE  \E x \in T : \A y \in T : x <= y
  <1> DEFINE R == OpToRel(LAMBDA x, y : x < y, Nat)
  <1>1. IsWellFoundedOn(R, Nat)
        BY NatLessThanWellFounded
  <1>2. PICK x \in T : \A y \in T : <<y, x>> \notin R
        BY <1>1, WFMin
  <1>3. \A y \in T : ~(y < x)
        BY <1>2 DEF OpToRel
  <1> QED BY <1>3

(* Max and Min of a bounded set of naturals. *)
LEMMA MaxOfBounded ==
  ASSUME NEW n \in Nat, NEW T, T \subseteq 0 .. n, T # {}
  PROVE  Max(T) \in T /\ \A y \in T : Max(T) >= y
  <1> DEFINE U == {k \in 0 .. n : n - k \in T}
  <1>1. U \subseteq Nat
        OBVIOUS
  <1>2. U # {}
    <2>1. PICK x \in T : TRUE
          OBVIOUS
    <2>2. n - x \in 0 .. n /\ n - (n - x) = x
          OBVIOUS
    <2> QED BY <2>1, <2>2
  <1> HIDE DEF U
  <1>3. PICK u \in U : \A v \in U : u <= v
        BY <1>1, <1>2, MinOfNaturals
  <1> USE DEF U
  <1>4. \A y \in T : n - y \in U
    <2> TAKE y \in T
    <2>1. n - y \in 0 .. n /\ n - (n - y) = y
          OBVIOUS
    <2> QED BY <2>1
  <1>5. n - u \in T /\ u \in 0 .. n
        BY <1>3
  <1>6. \A y \in T : n - u >= y
    <2> TAKE y \in T
    <2>1. u <= n - y /\ y \in 0 .. n
          BY <1>3, <1>4
    <2> QED BY <2>1, <1>5
  <1> QED BY <1>5, <1>6 DEF Max

(* The smallest of a set of positions is one of them. *)
LEMMA MinOfBounded ==
  ASSUME NEW n \in Nat, NEW T, T \subseteq 1 .. n, T # {}
  PROVE  Min(T) \in T /\ \A y \in T : Min(T) <= y
  <1>1. T \subseteq Nat
        OBVIOUS
  <1>2. PICK x \in T : \A y \in T : x <= y
        BY <1>1, MinOfNaturals
  <1> QED BY <1>2 DEF Min

-----------------------------------------------------------------------------
(* Lists seen as sets of elements without duplicates. *)

(* The elements of a sequence, by their positions. *)
LEMMA ElementsOf ==
  ASSUME NEW S, NEW s \in Seq(S)
  PROVE  /\ ToSet(s) = {s[i] : i \in 1 .. Len(s)}
         /\ ToSet(s) \subseteq S
         /\ \A e : Contains(s, e) <=> e \in ToSet(s)
         /\ IsInjective(s) <=> \A i, j \in 1 .. Len(s) : s[i] = s[j] => i = j
         /\ Len(s) \in Nat
         /\ s = <<>> <=> ToSet(s) = {}
         /\ s = <<>> <=> Len(s) = 0
  <1>1. DOMAIN s = 1 .. Len(s) /\ Len(s) \in Nat
        BY LenProperties
  <1>2. \A i \in 1 .. Len(s) : s[i] \in S
        BY ElementOfSeq
  <1>3. s = <<>> <=> Len(s) = 0
        BY EmptySeq
  <1>4. ToSet(s) = {s[i] : i \in 1 .. Len(s)}
        BY <1>1 DEF ToSet
  <1>5. s = <<>> <=> ToSet(s) = {}
    <2>1. CASE Len(s) = 0
          BY <1>1, <1>3, <1>4, <2>1
    <2>2. CASE Len(s) # 0
      <3>1. 1 \in 1 .. Len(s)
            BY <1>1, <2>2
      <3> QED BY <1>3, <1>4, <2>2, <3>1
    <2> QED BY <2>1, <2>2
  <1>6. IsInjective(s) <=> \A i, j \in 1 .. Len(s) : s[i] = s[j] => i = j
        BY <1>1 DEF IsInjective
  <1>7. ToSet(s) \subseteq S
        BY <1>2, <1>4
  <1>8. \A e : Contains(s, e) <=> e \in ToSet(s)
        BY <1>4 DEF Contains
  <1> QED BY <1>1, <1>3, <1>4, <1>5, <1>6, <1>7, <1>8

(* The head of a list is an element of it. *)
LEMMA HeadOf ==
  ASSUME NEW S, NEW s \in Seq(S), s # <<>>
  PROVE  Head(s) \in ToSet(s) /\ Head(s) = s[1] /\ 1 \in 1 .. Len(s)
  <1>1. Len(s) \in Nat /\ Len(s) # 0
        BY ElementsOf
  <1>2. Head(s) = s[1]
        OBVIOUS
  <1> QED BY <1>1, <1>2, ElementsOf

(* Positions after an insertion and after a removal. *)
LEMMA InsertedAt ==
  ASSUME NEW S, NEW s \in Seq(S), NEW e \in S, NEW i \in 1 .. Len(s) + 1
  PROVE  /\ InsertAt(s, i, e) \in Seq(S)
         /\ Len(InsertAt(s, i, e)) = Len(s) + 1
         /\ \A j \in 1 .. Len(s) + 1 :
              InsertAt(s, i, e)[j] = IF j < i THEN s[j]
                                     ELSE IF j = i THEN e ELSE s[j - 1]
  <1> DEFINE A == SubSeq(s, 1, i - 1)
             B == A \o <<e>>
             C == SubSeq(s, i, Len(s))
  <1>0. Len(s) \in Nat /\ i \in Int /\ \A j \in 1 .. Len(s) : s[j] \in S
        BY LenProperties, ElementOfSeq
  <1>1. A \in Seq(S) /\ Len(A) = i - 1 /\ \A j \in 1 .. i - 1 : A[j] = s[j]
        BY <1>0, SubSeqProperties
  <1>2. /\ C \in Seq(S) /\ Len(C) = Len(s) - i + 1
        /\ \A j \in 1 .. Len(s) - i + 1 : C[j] = s[i + j - 1]
        BY <1>0, SubSeqProperties
  <1>3. <<e>> \in Seq(S) /\ Len(<<e>>) = 1 /\ <<e>>[1] = e
        OBVIOUS
  <1>4. B \in Seq(S) /\ Len(B) = i
        /\ \A j \in 1 .. i : B[j] = IF j < i THEN s[j] ELSE e
    <2> HIDE DEF A
    <2>1. B \in Seq(S) /\ Len(B) = i
          BY <1>0, <1>1, <1>3, ConcatProperties
    <2>2. \A j \in 1 .. i : B[j] = IF j <= Len(A) THEN A[j]
                                   ELSE <<e>>[j - Len(A)]
          BY <1>0, <1>1, <1>3, ConcatProperties
    <2> QED BY <1>0, <1>1, <1>3, <2>1, <2>2
  <1>5. InsertAt(s, i, e) = B \o C
        BY DEF InsertAt
  <1> HIDE DEF A, B, C
  <1>6. /\ B \o C \in Seq(S) /\ Len(B \o C) = Len(B) + Len(C)
        /\ \A j \in 1 .. Len(B) + Len(C) :
             (B \o C)[j] = IF j <= Len(B) THEN B[j] ELSE C[j - Len(B)]
        BY <1>2, <1>4, ConcatProperties
  <1>7. Len(B) + Len(C) = Len(s) + 1
        BY <1>0, <1>2, <1>4
  <1>8. \A j \in 1 .. Len(s) + 1 :
          (B \o C)[j] = IF j < i THEN s[j] ELSE IF j = i THEN e ELSE s[j - 1]
    <2> TAKE j \in 1 .. Len(s) + 1
    <2>1. CASE j <= i
          BY <1>0, <1>4, <1>6, <1>7, <2>1
    <2>2. CASE j > i
      <3>1. j - i \in 1 .. Len(s) - i + 1 /\ i + (j - i) - 1 = j - 1
            BY <1>0, <2>2
      <3> QED BY <1>0, <1>2, <1>4, <1>6, <1>7, <2>2, <3>1
    <2>3. j <= i \/ j > i
          BY <1>0
    <2> QED BY <2>1, <2>2, <2>3
  <1> QED BY <1>5, <1>6, <1>7, <1>8

(* What removing the element of a position leaves. *)
LEMMA RemovedAt ==
  ASSUME NEW S, NEW s \in Seq(S), NEW i \in 1 .. Len(s)
  PROVE  /\ RemoveAt(s, i) \in Seq(S)
         /\ Len(RemoveAt(s, i)) = Len(s) - 1
         /\ \A j \in 1 .. Len(s) - 1 :
              RemoveAt(s, i)[j] = IF j < i THEN s[j] ELSE s[j + 1]
  <1> DEFINE A == SubSeq(s, 1, i - 1)
             C == SubSeq(s, i + 1, Len(s))
  <1>0. Len(s) \in Nat /\ i \in Int /\ \A j \in 1 .. Len(s) : s[j] \in S
        BY LenProperties, ElementOfSeq
  <1>1. A \in Seq(S) /\ Len(A) = i - 1 /\ \A j \in 1 .. i - 1 : A[j] = s[j]
        BY <1>0, SubSeqProperties
  <1>2. /\ C \in Seq(S) /\ Len(C) = Len(s) - i
        /\ \A j \in 1 .. Len(s) - i : C[j] = s[i + j]
    <2>1. \A j \in i + 1 .. Len(s) : s[j] \in S
          BY <1>0
    <2>2. /\ C \in Seq(S)
          /\ Len(C) = IF i + 1 <= Len(s) THEN Len(s) - (i + 1) + 1 ELSE 0
          /\ \A j \in 1 .. Len(s) - (i + 1) + 1 : C[j] = s[(i + 1) + j - 1]
          BY <1>0, <2>1, SubSeqProperties
    <2> HIDE DEF C
    <2>3. \A j \in 1 .. Len(s) - i : (i + 1) + j - 1 = i + j
          BY <1>0
    <2> QED BY <1>0, <2>2, <2>3
  <1>5. RemoveAt(s, i) = A \o C
        BY DEF RemoveAt
  <1> HIDE DEF A, C
  <1>6. /\ A \o C \in Seq(S) /\ Len(A \o C) = Len(A) + Len(C)
        /\ \A j \in 1 .. Len(A) + Len(C) :
             (A \o C)[j] = IF j <= Len(A) THEN A[j] ELSE C[j - Len(A)]
        BY <1>1, <1>2, ConcatProperties
  <1>7. Len(A) + Len(C) = Len(s) - 1
        BY <1>0, <1>1, <1>2
  <1>8. \A j \in 1 .. Len(s) - 1 :
          (A \o C)[j] = IF j < i THEN s[j] ELSE s[j + 1]
    <2> TAKE j \in 1 .. Len(s) - 1
    <2>1. CASE j < i
          BY <1>0, <1>1, <1>6, <1>7, <2>1
    <2>2. CASE j >= i
      <3>1. /\ j - (i - 1) \in 1 .. Len(s) - i
            /\ i + (j - (i - 1)) = j + 1
            /\ ~(j <= i - 1)
            BY <1>0, <2>2
      <3>2. (A \o C)[j] = C[j - (i - 1)]
            BY <1>0, <1>1, <1>6, <1>7, <3>1
      <3>3. C[j - (i - 1)] = s[j + 1]
            BY <1>2, <3>1
      <3> QED BY <2>2, <1>0, <3>2, <3>3
    <2>3. j < i \/ j >= i
          BY <1>0
    <2> QED BY <2>1, <2>2, <2>3
  <1> QED BY <1>5, <1>6, <1>7, <1>8

(* A list with one more element. *)
LEMMA InsertedElements ==
  ASSUME NEW S, NEW s \in Seq(S), NEW e \in S, NEW i \in 1 .. Len(s) + 1
  PROVE  /\ InsertAt(s, i, e) \in Seq(S)
         /\ ToSet(InsertAt(s, i, e)) = ToSet(s) \cup {e}
         /\ IsInjective(s) /\ e \notin ToSet(s)
              => IsInjective(InsertAt(s, i, e))
  <1> DEFINE t == InsertAt(s, i, e)
             n == Len(s)
  <1>1. /\ t \in Seq(S) /\ Len(t) = n + 1
        /\ \A j \in 1 .. n + 1 : t[j] = IF j < i THEN s[j]
                                      ELSE IF j = i THEN e ELSE s[j - 1]
        BY InsertedAt
  <1>2. n \in Nat /\ i \in 1 .. n + 1 /\ ToSet(s) = {s[j] : j \in 1 .. n}
        BY ElementsOf
  <1>3. ToSet(t) = {t[j] : j \in 1 .. n + 1}
        BY <1>1, ElementsOf
  <1>4. IsInjective(s) <=> \A j, k \in 1 .. n : s[j] = s[k] => j = k
        BY ElementsOf
  <1>5. IsInjective(t) <=> \A j, k \in 1 .. n + 1 : t[j] = t[k] => j = k
        BY <1>1, ElementsOf
  <1> HIDE DEF t, n
  <1>6. ToSet(t) \subseteq ToSet(s) \cup {e}
    <2> SUFFICES ASSUME NEW j \in 1 .. n + 1 PROVE t[j] \in ToSet(s) \cup {e}
        BY <1>3
    <2>1. CASE j < i  BY <1>1, <1>2, <2>1
    <2>2. CASE j = i  BY <1>1, <2>2
    <2>3. CASE j > i
      <3>1. j - 1 \in 1 .. n
            BY <1>2, <2>3
      <3> QED BY <1>1, <1>2, <2>3, <3>1
    <2> QED BY <1>2, <2>1, <2>2, <2>3
  <1>7. e \in ToSet(t)
        BY <1>1, <1>2, <1>3
  <1>8. ToSet(s) \subseteq ToSet(t)
    <2> SUFFICES ASSUME NEW j \in 1 .. n PROVE s[j] \in ToSet(t)
        BY <1>2
    <2>1. CASE j < i
          BY <1>1, <1>2, <1>3, <2>1
    <2>2. CASE j >= i
      <3>1. j + 1 \in 1 .. n + 1 /\ (j + 1) - 1 = j /\ ~(j + 1 < i) /\ j + 1 # i
            BY <1>2, <2>2
      <3>2. t[j + 1] = s[j]
            BY <1>1, <3>1
      <3> QED BY <1>3, <3>1, <3>2
    <2> QED BY <1>2, <2>1, <2>2
  <1>9. ASSUME IsInjective(s), e \notin ToSet(s) PROVE IsInjective(t)
    <2> SUFFICES ASSUME NEW j \in 1 .. n + 1, NEW k \in 1 .. n + 1,
                        t[j] = t[k], j < k
                 PROVE  FALSE
        BY <1>2, <1>5
    <2>1. CASE k < i
      <3>1. j \in 1 .. n /\ k \in 1 .. n /\ j < i /\ j # k
            BY <1>2, <2>1
      <3>2. t[j] = s[j] /\ t[k] = s[k]
            BY <1>1, <2>1, <3>1
      <3> QED BY <1>4, <1>9, <3>1, <3>2
    <2>2. CASE k = i
          BY <1>1, <1>2, <1>9, <2>2
    <2>3. CASE k > i
      <3>1. k - 1 \in 1 .. n /\ t[k] = s[k - 1]
            BY <1>1, <1>2, <2>3
      <3>2. CASE j < i
            BY <1>1, <1>2, <1>4, <1>9, <2>3, <3>1, <3>2
      <3>3. CASE j = i
            BY <1>1, <1>2, <1>9, <3>1, <3>3
      <3>4. CASE j > i
        <4>1. j - 1 \in 1 .. n /\ t[j] = s[j - 1] /\ j - 1 # k - 1
              BY <1>1, <1>2, <3>4
        <4> QED BY <1>4, <1>9, <3>1, <4>1
      <3> QED BY <1>2, <3>2, <3>3, <3>4
    <2> QED BY <1>2, <2>1, <2>2, <2>3
  <1>10. ToSet(t) = ToSet(s) \cup {e}
        BY <1>6, <1>7, <1>8
  <1> QED BY <1>1, <1>9, <1>10 DEF t

(* What appending adds. *)
LEMMA AppendedElements ==
  ASSUME NEW S, NEW s \in Seq(S), NEW e \in S
  PROVE  /\ Append(s, e) \in Seq(S)
         /\ ToSet(Append(s, e)) = ToSet(s) \cup {e}
         /\ Len(Append(s, e)) = Len(s) + 1
         /\ IsInjective(s) /\ e \notin ToSet(s) => IsInjective(Append(s, e))
  <1> DEFINE t == Append(s, e)
             n == Len(s)
  <1>1. /\ t \in Seq(S) /\ Len(t) = n + 1
        /\ \A j \in 1 .. n : t[j] = s[j]
        /\ t[n + 1] = e
        BY AppendProperties
  <1>2. n \in Nat /\ ToSet(s) = {s[j] : j \in 1 .. n}
        BY ElementsOf
  <1>3. ToSet(t) = {t[j] : j \in 1 .. n + 1}
        BY <1>1, ElementsOf
  <1>4. IsInjective(s) <=> \A j, k \in 1 .. n : s[j] = s[k] => j = k
        BY ElementsOf
  <1>5. IsInjective(t) <=> \A j, k \in 1 .. n + 1 : t[j] = t[k] => j = k
        BY <1>1, ElementsOf
  <1> HIDE DEF t, n
  <1>6. ToSet(t) = ToSet(s) \cup {e}
        BY <1>1, <1>2, <1>3
  <1>7. IsInjective(s) /\ e \notin ToSet(s) => IsInjective(t)
        BY <1>1, <1>2, <1>4, <1>5
  <1> QED BY <1>1, <1>6, <1>7 DEF t, n

(* A list with one element less. *)
LEMMA RemovedElements ==
  ASSUME NEW S, NEW s \in Seq(S), NEW i \in 1 .. Len(s)
  PROVE  /\ RemoveAt(s, i) \in Seq(S)
         /\ ToSet(RemoveAt(s, i)) \subseteq ToSet(s)
         /\ \A x \in ToSet(s) : x # s[i] => x \in ToSet(RemoveAt(s, i))
         /\ IsInjective(s) => /\ IsInjective(RemoveAt(s, i))
                              /\ s[i] \notin ToSet(RemoveAt(s, i))
  <1> DEFINE t == RemoveAt(s, i)
             n == Len(s)
  <1>1. /\ t \in Seq(S) /\ Len(t) = n - 1
        /\ \A j \in 1 .. n - 1 : t[j] = IF j < i THEN s[j] ELSE s[j + 1]
        BY RemovedAt
  <1>2. n \in Nat /\ i \in 1 .. n /\ ToSet(s) = {s[j] : j \in 1 .. n}
        BY ElementsOf
  <1>3. ToSet(t) = {t[j] : j \in 1 .. n - 1}
        BY <1>1, ElementsOf
  <1>4. IsInjective(s) <=> \A j, k \in 1 .. n : s[j] = s[k] => j = k
        BY ElementsOf
  <1>5. IsInjective(t) <=> \A j, k \in 1 .. n - 1 : t[j] = t[k] => j = k
        BY <1>1, ElementsOf
  <1> HIDE DEF t, n
  <1>6. ToSet(t) \subseteq ToSet(s)
        BY <1>1, <1>2, <1>3
  <1>7. \A x \in ToSet(s) : x # s[i] => x \in ToSet(t)
    <2> SUFFICES ASSUME NEW j \in 1 .. n, j # i PROVE s[j] \in ToSet(t)
        BY <1>2
    <2>1. CASE j < i
      <3>1. j \in 1 .. n - 1
            BY <1>2, <2>1
      <3> QED BY <1>1, <1>3, <2>1, <3>1
    <2>2. CASE j > i
      <3>1. j - 1 \in 1 .. n - 1 /\ ~(j - 1 < i) /\ (j - 1) + 1 = j
            BY <1>2, <2>2
      <3>2. t[j - 1] = s[j]
            BY <1>1, <3>1
      <3> QED BY <1>3, <3>1, <3>2
    <2> QED BY <1>2, <2>1, <2>2
  <1>8. ASSUME IsInjective(s) PROVE IsInjective(t) /\ s[i] \notin ToSet(t)
        BY <1>1, <1>2, <1>3, <1>4, <1>5, <1>8
  <1> QED BY <1>1, <1>6, <1>7, <1>8 DEF t

(* What the tail of a sequence keeps. *)
LEMMA TailElements ==
  ASSUME NEW S, NEW s \in Seq(S), s # <<>>
  PROVE  /\ Tail(s) \in Seq(S)
         /\ Len(Tail(s)) = Len(s) - 1
         /\ ToSet(Tail(s)) \subseteq ToSet(s)
         /\ \A x \in ToSet(s) : x # Head(s) => x \in ToSet(Tail(s))
         /\ IsInjective(s) => /\ IsInjective(Tail(s))
                              /\ Head(s) \notin ToSet(Tail(s))
  <1> DEFINE t == Tail(s)
             n == Len(s)
  <1>1. /\ t \in Seq(S) /\ Len(t) = n - 1
        /\ \A j \in 1 .. Len(t) : t[j] = s[j + 1]
        BY HeadTailProperties
  <1>2. n \in Nat /\ n # 0 /\ ToSet(s) = {s[j] : j \in 1 .. n}
        BY ElementsOf
  <1>3. ToSet(t) = {t[j] : j \in 1 .. n - 1}
        BY <1>1, ElementsOf
  <1>4. IsInjective(s) <=> \A j, k \in 1 .. n : s[j] = s[k] => j = k
        BY ElementsOf
  <1>5. IsInjective(t) <=> \A j, k \in 1 .. n - 1 : t[j] = t[k] => j = k
        BY <1>1, ElementsOf
  <1>6. Head(s) = s[1]
        BY HeadOf
  <1> HIDE DEF t, n
  <1>7. ToSet(t) \subseteq ToSet(s)
        BY <1>1, <1>2, <1>3
  <1>8. \A x \in ToSet(s) : x # Head(s) => x \in ToSet(t)
    <2> SUFFICES ASSUME NEW j \in 1 .. n, j # 1 PROVE s[j] \in ToSet(t)
        BY <1>2, <1>6
    <2>1. j - 1 \in 1 .. n - 1 /\ (j - 1) + 1 = j
          BY <1>2
    <2>2. t[j - 1] = s[j]
          BY <1>1, <2>1
    <2> QED BY <1>3, <2>1, <2>2
  <1>9. ASSUME IsInjective(s) PROVE IsInjective(t) /\ Head(s) \notin ToSet(t)
        BY <1>1, <1>2, <1>3, <1>4, <1>5, <1>6, <1>9
  <1> QED BY <1>1, <1>7, <1>8, <1>9 DEF t, n

(* Facts of the empty sequence. *)
LEMMA EmptyList ==
  ToSet(<<>>) = {} /\ IsInjective(<<>>) /\ Len(<<>>) = 0
  BY DEF ToSet, IsInjective

-----------------------------------------------------------------------------
(* Removing by value, and inserting in the order of keys. *)

(* RemoveFirst removes at the position of the element. *)
LEMMA RemovedFirst ==
  ASSUME NEW S, NEW s \in Seq(S), NEW e \in ToSet(s)
  PROVE  \E i \in 1 .. Len(s) : s[i] = e /\ RemoveFirst(s, e) = RemoveAt(s, i)
  <1> DEFINE T == {i \in 1 .. Len(s) : s[i] = e}
  <1>1. Len(s) \in Nat /\ ToSet(s) = {s[i] : i \in 1 .. Len(s)}
        BY ElementsOf
  <1>2. PICK j \in 1 .. Len(s) : s[j] = e
        BY <1>1
  <1>3. T # {} /\ T \subseteq 1 .. Len(s)
        BY <1>2
  <1>4. RemoveFirst(s, e) = RemoveAt(s, Min(T))
        BY <1>2, <1>3 DEF RemoveFirst, SelectInSeq
  <1> HIDE DEF T
  <1>5. Min(T) \in T
        BY <1>1, <1>3, MinOfBounded
  <1> USE DEF T
  <1> QED BY <1>4, <1>5

(* Min of two numbers is one of them and exceeds neither. *)
LEMMA MinOfTwo ==
  ASSUME NEW a \in Int, NEW b \in Int
  PROVE  Min({a, b}) \in {a, b} /\ Min({a, b}) <= a /\ Min({a, b}) <= b
  <1>1. \E x \in {a, b} : \A y \in {a, b} : x <= y
        OBVIOUS
  <1> QED BY <1>1 DEF Min

-----------------------------------------------------------------------------
(* What the operations on lists do to the order of their elements. *)

Before(s, x, y) == \E i, j \in 1 .. Len(s) : i < j /\ s[i] = x /\ s[j] = y

(* A list without duplicates orders its elements one way. *)
LEMMA OneOrder ==
  ASSUME NEW S, NEW s \in Seq(S), IsInjective(s),
         NEW x, NEW y, Before(s, x, y)
  PROVE  x # y /\ x \in ToSet(s) /\ y \in ToSet(s) /\ ~Before(s, y, x)
  <1>1. \A i, j \in 1 .. Len(s) : s[i] = s[j] => i = j
        BY ElementsOf
  <1>2. ToSet(s) = {s[i] : i \in 1 .. Len(s)} /\ Len(s) \in Nat
        BY ElementsOf
  <1> QED BY <1>1, <1>2 DEF Before

(* An insertion keeps the order of the others. *)
LEMMA BeforeInserted ==
  ASSUME NEW S, NEW s \in Seq(S), NEW e \in S, NEW i \in 1 .. Len(s) + 1,
         NEW x, NEW y, Before(s, x, y)
  PROVE  Before(InsertAt(s, i, e), x, y)
  <1> DEFINE t == InsertAt(s, i, e)
             At(j) == IF j < i THEN j ELSE j + 1
  <1>1. /\ Len(t) = Len(s) + 1 /\ Len(s) \in Nat
        /\ \A j \in 1 .. Len(s) + 1 :
             t[j] = IF j < i THEN s[j] ELSE IF j = i THEN e ELSE s[j - 1]
        BY InsertedAt, ElementsOf
  <1> HIDE DEF t
  <1>2. \A j \in 1 .. Len(s) : At(j) \in 1 .. Len(t) /\ t[At(j)] = s[j]
    <2> TAKE j \in 1 .. Len(s)
    <2>1. CASE j < i
          BY <1>1, <2>1
    <2>2. CASE ~(j < i)
      <3>1. j + 1 \in 1 .. Len(s) + 1 /\ ~(j + 1 < i) /\ j + 1 # i
            BY <1>1, <2>2
      <3>2. t[j + 1] = s[(j + 1) - 1] /\ (j + 1) - 1 = j
            BY <1>1, <3>1
      <3> QED BY <1>1, <2>2, <3>1, <3>2
    <2> QED BY <2>1, <2>2
  <1>3. \A j, k \in 1 .. Len(s) : j < k => At(j) < At(k)
        BY <1>1
  <1>4. PICK j, k \in 1 .. Len(s) : j < k /\ s[j] = x /\ s[k] = y
        BY DEF Before
  <1>5. At(j) \in 1 .. Len(t) /\ At(k) \in 1 .. Len(t) /\ At(j) < At(k)
        /\ t[At(j)] = x /\ t[At(k)] = y
        BY <1>2, <1>3, <1>4
  <1> HIDE DEF At
  <1>6. Before(t, x, y)
        BY <1>5 DEF Before
  <1> QED BY <1>6 DEF t

(* So does a removal. *)
LEMMA BeforeRemoved ==
  ASSUME NEW S, NEW s \in Seq(S), NEW i \in 1 .. Len(s),
         NEW x, NEW y, Before(s, x, y), x # s[i], y # s[i]
  PROVE  Before(RemoveAt(s, i), x, y)
  <1> DEFINE t == RemoveAt(s, i)
             At(j) == IF j < i THEN j ELSE j - 1
  <1>1. /\ Len(t) = Len(s) - 1 /\ Len(s) \in Nat
        /\ \A j \in 1 .. Len(s) - 1 : t[j] = IF j < i THEN s[j] ELSE s[j + 1]
        BY RemovedAt, ElementsOf
  <1> HIDE DEF t
  <1>2. \A j \in 1 .. Len(s) :
          j # i => At(j) \in 1 .. Len(t) /\ t[At(j)] = s[j]
    <2> SUFFICES ASSUME NEW j \in 1 .. Len(s), j # i
                 PROVE  At(j) \in 1 .. Len(t) /\ t[At(j)] = s[j]
        OBVIOUS
    <2>1. CASE j < i
          BY <1>1, <2>1
    <2>2. CASE ~(j < i)
      <3>1. j - 1 \in 1 .. Len(s) - 1 /\ ~(j - 1 < i) /\ (j - 1) + 1 = j
            BY <1>1, <2>2
      <3> QED BY <1>1, <2>2, <3>1
    <2> QED BY <2>1, <2>2
  <1>3. \A j, k \in 1 .. Len(s) :
          j < k /\ j # i /\ k # i => At(j) < At(k)
        BY <1>1
  <1>4. PICK j, k \in 1 .. Len(s) : j < k /\ s[j] = x /\ s[k] = y
        BY DEF Before
  <1>5. At(j) \in 1 .. Len(t) /\ At(k) \in 1 .. Len(t) /\ At(j) < At(k)
        /\ t[At(j)] = x /\ t[At(k)] = y
        BY <1>2, <1>3, <1>4
  <1> HIDE DEF At
  <1>6. Before(t, x, y)
        BY <1>5 DEF Before
  <1> QED BY <1>6 DEF t

(* The tail keeps the order of what it keeps. *)
LEMMA BeforeTail ==
  ASSUME NEW S, NEW s \in Seq(S), s # <<>>,
         NEW x, NEW y, Before(s, x, y)
  PROVE  x = Head(s) \/ Before(Tail(s), x, y)
  <1>1. /\ Len(Tail(s)) = Len(s) - 1 /\ Len(s) \in Nat /\ Head(s) = s[1]
        /\ \A j \in 1 .. Len(Tail(s)) : Tail(s)[j] = s[j + 1]
        BY HeadTailProperties, ElementsOf, HeadOf
  <1>2. PICK j, k \in 1 .. Len(s) : j < k /\ s[j] = x /\ s[k] = y
        BY DEF Before
  <1>3. CASE j = 1
        BY <1>1, <1>2, <1>3
  <1>4. CASE j # 1
    <2>1. j - 1 \in 1 .. Len(Tail(s)) /\ k - 1 \in 1 .. Len(Tail(s))
          /\ j - 1 < k - 1 /\ (j - 1) + 1 = j /\ (k - 1) + 1 = k
          BY <1>1, <1>2, <1>4
    <2>2. Tail(s)[j - 1] = x /\ Tail(s)[k - 1] = y
          BY <1>1, <1>2, <2>1
    <2> QED BY <2>1, <2>2 DEF Before
  <1> QED BY <1>3, <1>4

(* What is appended comes after the others. *)
LEMMA BeforeAppended ==
  ASSUME NEW S, NEW s \in Seq(S), NEW e \in S, NEW x, NEW y
  PROVE  /\ Before(s, x, y) => Before(Append(s, e), x, y)
         /\ x \in ToSet(s) => Before(Append(s, e), x, e)
  <1>1. /\ Len(Append(s, e)) = Len(s) + 1 /\ Len(s) \in Nat
        /\ \A j \in 1 .. Len(s) : Append(s, e)[j] = s[j]
        /\ Append(s, e)[Len(s) + 1] = e
        /\ ToSet(s) = {s[i] : i \in 1 .. Len(s)}
        BY AppendProperties, ElementsOf
  <1>2. \A j \in 1 .. Len(s) : j \in 1 .. Len(s) + 1 /\ j < Len(s) + 1
        BY <1>1
  <1> QED BY <1>1, <1>2 DEF Before

(* Nothing comes before the head. *)
LEMMA HeadFirst ==
  ASSUME NEW S, NEW s \in Seq(S), s # <<>>, IsInjective(s), NEW x
  PROVE  ~Before(s, x, Head(s))
  <1>1. /\ Len(s) \in Nat /\ Head(s) = s[1] /\ 1 \in 1 .. Len(s)
        /\ \A i, j \in 1 .. Len(s) : s[i] = s[j] => i = j
        BY ElementsOf, HeadOf
  <1> QED BY <1>1 DEF Before
===============================================================================
