-------------------------- MODULE SequenceInduction --------------------------
(* Induction over numbers and over sequences, as facts about sets (what    *)
(* holds is the membership in a set, so that the facts can be cited), and  *)
(* what Keeping returns.                                                   *)
EXTENDS FilteredSequences, WellFoundedInduction, TLAPS

LessThan == {ss \in Nat \X Nat : ss[1] < ss[2]}
LEMMA LessThanIsWellFounded == IsWellFoundedOn(LessThan, Nat)
  BY NatLessThanWellFounded DEF OpToRel, LessThan
(* Every nonempty set of numbers has a least element.                      *)
LEMMA Least ==
  ASSUME NEW T, T \subseteq Nat, T # {}
  PROVE  \E x \in T : \A y \in T : x <= y
  <1>0. \A x, y \in Nat : y < x => <<y, x>> \in LessThan
    BY DEF LessThan
  <1>1. PICK x \in T : \A y \in T : ~ (<<y, x>> \in LessThan)
    BY WFMin, LessThanIsWellFounded
  <1>2. \A y \in T : ~(y < x)
    BY <1>0, <1>1
  <1>3. QED
    BY <1>2
(* Induction over the numbers.                                             *)
LEMMA Induction ==
  ASSUME NEW T, 0 \in T, \A n \in Nat : n \in T => n + 1 \in T
  PROVE  Nat \subseteq T
  <1>1. SUFFICES ASSUME Nat \ T # {} PROVE FALSE
    OBVIOUS
  <1>2. PICK x \in Nat \ T : \A y \in Nat \ T : x <= y
    BY <1>1, Least
  <1>3. x # 0 /\ x - 1 \in Nat /\ x - 1 \notin Nat \ T
    BY <1>2
  <1>4. QED
    BY <1>2, <1>3

(* Walks along 1 .. n that start in c and go on as D says.                 *)
WalkSteps(S, n) == [S \X (1 .. n) -> S]
Walks(S, n, c, D) ==
    { f \in [0 .. n -> S] : f[0] = c /\ \A i \in 1 .. n : f[i] = D[<<f[i - 1], i>>] }

(* A recursion over 1 .. n that stays in S has a solution.                 *)
LEMMA RecExists ==
  ASSUME NEW S, NEW c \in S, NEW n \in Nat, NEW D \in WalkSteps(S, n)
  PROVE  Walks(S, n, c, D) # {}
  <1> DEFINE Good(m, f) == f[0] = c /\ \A i \in 1 .. m : f[i] = D[<<f[i-1], i>>]
             T == {m \in Nat : m <= n => \E f \in [0 .. m -> S] : Good(m, f)}
  <1>1. 0 \in T
    <2>1. [i \in 0 .. 0 |-> c] \in [0 .. 0 -> S] /\ Good(0, [i \in 0 .. 0 |-> c])
      OBVIOUS
    <2>2. QED
      BY <2>1
  <1>2. ASSUME NEW m \in Nat, m \in T PROVE m + 1 \in T
    <2>1. SUFFICES ASSUME m + 1 <= n PROVE \E f \in [0 .. m + 1 -> S] : Good(m + 1, f)
      OBVIOUS
    <2>2. PICK f \in [0 .. m -> S] : Good(m, f)
      BY <1>2, <2>1
    <2>3. D[<<f[m], m + 1>>] \in S
      BY <2>1, <2>2 DEF WalkSteps
    <2> DEFINE g == [i \in 0 .. m + 1 |-> IF i = m + 1 THEN D[<<f[m], m + 1>>] ELSE f[i]]
    <2>4. g \in [0 .. m + 1 -> S]
      BY <2>3
    <2>5. g[0] = c /\ g[m + 1] = D[<<f[m], m + 1>>] /\ \A i \in 0 .. m : g[i] = f[i]
      BY <2>2
    <2> HIDE DEF g
    <2>6. ASSUME NEW i \in 1 .. m + 1 PROVE g[i] = D[<<g[i-1], i>>]
      <3>1. CASE i = m + 1
        BY <3>1, <2>5
      <3>2. CASE i \in 1 .. m
        <4>1. g[i] = f[i] /\ g[i-1] = f[i-1]
          BY <3>2, <2>5
        <4>2. QED
          BY <4>1, <3>2, <2>2
      <3>3. QED
        BY <3>1, <3>2
    <2>7. QED
      BY <2>4, <2>5, <2>6
  <1>3. n \in T
    <2> HIDE DEF T
    <2>1. QED
      BY <1>1, <1>2, Induction
  <1>4. PICK f \in [0 .. n -> S] : Good(n, f)
    BY <1>3
  <1>5. f \in Walks(S, n, c, D)
    BY <1>4 DEF Walks
  <1>6. QED
    BY <1>5

(* Induction over the numbers up to n.                                     *)
LEMMA BoundedInduction ==
  ASSUME NEW n \in Nat, NEW T, 0 \in T, \A i \in 1 .. n : i - 1 \in T => i \in T
  PROVE  0 .. n \subseteq T
  <1> DEFINE U == {m \in Nat : m <= n => m \in T}
  <1>1. 0 \in U
    OBVIOUS
  <1>2. ASSUME NEW m \in Nat, m \in U PROVE m + 1 \in U
    <2>1. m + 1 <= n => m + 1 \in 1 .. n /\ (m + 1) - 1 = m /\ m <= n
      OBVIOUS
    <2>2. QED
      BY <1>2, <2>1
  <1>3. Nat \subseteq U
    <2> HIDE DEF U
    <2>1. QED
      BY <1>1, <1>2, Induction
  <1>4. QED
    BY <1>3

(* Induction over sequences: from the empty one, element by element.       *)
LEMMA SeqInduction ==
  ASSUME NEW S, NEW T, <<>> \in T,
         \A s \in Seq(S), x \in S : s \in T => Append(s, x) \in T
  PROVE  Seq(S) \subseteq T
  <1> DEFINE N == {n \in Nat : \A s \in Seq(S) : Len(s) = n => s \in T}
  <1>1. 0 \in N
    <2>1. \A s \in Seq(S) : Len(s) = 0 => s = <<>>
      OBVIOUS
    <2>2. QED
      BY <2>1
  <1>2. ASSUME NEW n \in Nat, n \in N PROVE n + 1 \in N
    <2>1. SUFFICES ASSUME NEW s \in Seq(S), Len(s) = n + 1 PROVE s \in T
      OBVIOUS
    <2> DEFINE r == [i \in 1 .. n |-> s[i]]
               x == s[n + 1]
    <2>2. r \in Seq(S) /\ Len(r) = n /\ x \in S
      <3>1. \A i \in 1 .. n + 1 : s[i] \in S
        BY <2>1
      <3>2. \A i \in 1 .. n : i \in 1 .. n + 1
        OBVIOUS
      <3>3. r \in [1 .. n -> S]
        BY <3>1, <3>2
      <3>4. r \in Seq(S) /\ DOMAIN r = 1 .. n
        BY <3>3
      <3>5. Len(r) = n
        BY <3>4
      <3>6. QED
        BY <3>1, <3>4, <3>5
    <2>3. s = Append(r, x)
      <3>1. DOMAIN s = 1 .. n + 1
        BY <2>1
      <3>2. \A i \in 1 .. n : r[i] = s[i]
        OBVIOUS
      <3> HIDE DEF r, x
      <3>3. Append(r, x) \in Seq(S) /\ Len(Append(r, x)) = n + 1
        BY <2>2
      <3>4. \A i \in 1 .. n + 1 : Append(r, x)[i] = s[i]
        BY <2>2, <3>2 DEF x
      <3>5. QED
        BY <2>1, <3>1, <3>3, <3>4
    <2>4. r \in T
      BY <1>2, <2>2
    <2> HIDE DEF r, x
    <2>5. QED
      BY <2>2, <2>3, <2>4
  <1>3. Nat \subseteq N
    <2> HIDE DEF N
    <2>1. QED
      BY <1>1, <1>2, Induction
  <1>4. QED
    BY <1>3

(* The recursive function of Keeping.                                       *)
KeptUpTo(s, R) ==
    CHOOSE f : f = [i \in 0 .. Len(s) |->
                       IF i = 0 THEN <<>>
                       ELSE IF s[i] \in R THEN Append(f[i - 1], s[i])
                       ELSE f[i - 1]]

LEMMA KeepingIsLast == \A s, R : Keeping(s, R) = KeptUpTo(s, R)[Len(s)]
  BY DEF Keeping, KeptUpTo

(* The recursive definition of Keeping defines.                            *)
LEMMA KeptUpToDef ==
  ASSUME NEW S, NEW s \in Seq(S), NEW R
  PROVE  /\ KeptUpTo(s, R) \in [0 .. Len(s) -> Seq(S)]
         /\ KeptUpTo(s, R)[0] = <<>>
         /\ \A i \in 1 .. Len(s) :
               KeptUpTo(s, R)[i] = IF s[i] \in R THEN Append(KeptUpTo(s, R)[i - 1], s[i])
                                   ELSE KeptUpTo(s, R)[i - 1]
  <1> DEFINE n == Len(s)
             D == [p \in Seq(S) \X (1 .. n) |->
                      IF s[p[2]] \in R THEN Append(p[1], s[p[2]]) ELSE p[1]]
             Eq(f) == f = [i \in 0 .. n |-> IF i = 0 THEN <<>>
                                            ELSE IF s[i] \in R THEN Append(f[i - 1], s[i])
                                            ELSE f[i - 1]]
  <1>0. n \in Nat /\ \A i \in 1 .. n : s[i] \in S
    OBVIOUS
  <1>1. D \in [Seq(S) \X (1 .. n) -> Seq(S)]
    <2>1. ASSUME NEW p \in Seq(S) \X (1 .. n)
          PROVE  (IF s[p[2]] \in R THEN Append(p[1], s[p[2]]) ELSE p[1]) \in Seq(S)
      <3>1. p[1] \in Seq(S) /\ s[p[2]] \in S
        BY <1>0
      <3>2. QED
        BY <3>1
    <2>2. QED
      BY <2>1
  <1>2. \A t \in Seq(S), i \in 1 .. n :
           D[<<t, i>>] = IF s[i] \in R THEN Append(t, s[i]) ELSE t
    <2> TAKE t \in Seq(S), i \in 1 .. n
    <2>1. <<t, i>> \in Seq(S) \X (1 .. n)
      OBVIOUS
    <2>2. QED
      BY <2>1
  <1> HIDE DEF D, n
  <1>3. <<>> \in Seq(S)
    OBVIOUS
  <1>4. PICK f \in [0 .. n -> Seq(S)] : f[0] = <<>> /\ \A i \in 1 .. n : f[i] = D[<<f[i - 1], i>>]
    <2>1. D \in WalkSteps(Seq(S), n)
      BY <1>1 DEF WalkSteps
    <2>2. Walks(Seq(S), n, <<>>, D) # {}
      BY <1>0, <1>3, <2>1, RecExists
    <2>3. QED
      BY <2>2 DEF Walks
  <1>5. f[0] = <<>> /\ \A i \in 1 .. n : f[i] = D[<<f[i - 1], i>>] /\ f[i - 1] \in Seq(S)
    <2>1. \A i \in 1 .. n : i - 1 \in 0 .. n
      BY <1>0
    <2>2. QED
      BY <1>4, <2>1
  <1>6. \A i \in 1 .. n : f[i] = IF s[i] \in R THEN Append(f[i - 1], s[i]) ELSE f[i - 1]
    BY <1>2, <1>5
  <1>7. Eq(f)
    <2> DEFINE G == [i \in 0 .. n |-> IF i = 0 THEN <<>>
                                      ELSE IF s[i] \in R THEN Append(f[i - 1], s[i])
                                      ELSE f[i - 1]]
    <2>1. \A i \in 0 .. n : f[i] = G[i]
      <3>1. \A i \in 0 .. n : i = 0 \/ i \in 1 .. n
        BY <1>0
      <3>2. QED
        BY <1>5, <1>6, <3>1
    <2>2. QED
      BY <1>4, <2>1
  <1> DEFINE K == KeptUpTo(s, R)
  <1>8. Eq(K)
    <2>1. K = CHOOSE g : Eq(g)
      BY DEF KeptUpTo, n
    <2> HIDE DEF K, Eq
    <2>2. QED
      BY <1>7, <2>1
  <1>9. /\ K[0] = <<>>
        /\ \A i \in 1 .. n : K[i] = IF s[i] \in R THEN Append(K[i - 1], s[i]) ELSE K[i - 1]
    <2>1. 0 \in 0 .. n /\ \A i \in 1 .. n : i \in 0 .. n /\ i # 0
      BY <1>0
    <2> HIDE DEF K
    <2>2. QED
      BY <1>8, <2>1
  <1>10. DOMAIN K = 0 .. n /\ K = [i \in 0 .. n |-> K[i]]
    <2> HIDE DEF K
    <2>1. QED
      BY <1>8
  <1> HIDE DEF K, Eq
  <1>11. \A i \in 0 .. n : K[i] = f[i]
    <2>1. \A i \in 1 .. n : K[i - 1] = f[i - 1] => K[i] = f[i]
      BY <1>6, <1>9
    <2> DEFINE T == {i \in 0 .. n : K[i] = f[i]}
    <2>2. 0 \in T /\ \A i \in 1 .. n : i - 1 \in T => i \in T
      BY <1>0, <1>5, <1>9, <2>1
    <2> HIDE DEF T
    <2>3. 0 .. n \subseteq T
      BY <1>0, <2>2, BoundedInduction
    <2>4. QED
      BY <2>3 DEF T
  <1>12. K \in [0 .. n -> Seq(S)]
    BY <1>4, <1>10, <1>11
  <1>13. QED
    BY <1>9, <1>12 DEF K, n

LEMMA KeepingType ==
  ASSUME NEW S, NEW s \in Seq(S), NEW R
  PROVE  Keeping(s, R) \in Seq(S)
  <1>1. KeptUpTo(s, R) \in [0 .. Len(s) -> Seq(S)]
    BY KeptUpToDef
  <1>2. Len(s) \in 0 .. Len(s)
    OBVIOUS
  <1>3. QED
    BY <1>1, <1>2, KeepingIsLast

LEMMA KeepingEmpty == \A R : Keeping(<<>>, R) = <<>>
  <1>1. ASSUME NEW S, NEW s \in Seq(S), NEW R, Len(s) = 0 PROVE Keeping(s, R) = <<>>
    <2>1. KeptUpTo(s, R)[0] = <<>>
      BY KeptUpToDef
    <2>2. QED
      BY <1>1, <2>1, KeepingIsLast
  <1>2. \A s : s = <<>> => s \in Seq({}) /\ Len(s) = 0
    OBVIOUS
  <1>3. \A s, R : s = <<>> => Keeping(s, R) = <<>>
    BY <1>1, <1>2
  <1>4. QED
    BY <1>3

(* What an element at the end adds.                                        *)
LEMMA KeepingAppend ==
  ASSUME NEW S, NEW s \in Seq(S), NEW x \in S, NEW R
  PROVE  Keeping(Append(s, x), R) =
            IF x \in R THEN Append(Keeping(s, R), x) ELSE Keeping(s, R)
  <1> DEFINE t == Append(s, x)
             n == Len(s)
             K == KeptUpTo(s, R)
             L == KeptUpTo(t, R)
  <1>1. t \in Seq(S) /\ Len(t) = n + 1 /\ t[n + 1] = x /\ n \in Nat
        /\ \A i \in 1 .. n : t[i] = s[i]
    OBVIOUS
  <1>2. /\ K[0] = <<>>
        /\ \A i \in 1 .. n : K[i] = IF s[i] \in R THEN Append(K[i - 1], s[i]) ELSE K[i - 1]
    BY KeptUpToDef
  <1> HIDE DEF t
  <1>3. /\ L[0] = <<>>
        /\ \A i \in 1 .. n + 1 : L[i] = IF t[i] \in R THEN Append(L[i - 1], t[i]) ELSE L[i - 1]
    BY <1>1, KeptUpToDef
  <1>4. Keeping(s, R) = K[n] /\ Keeping(t, R) = L[n + 1]
    BY <1>1, KeepingIsLast
  <1> HIDE DEF K, L, n
  <1>5. \A i \in 0 .. n : K[i] = L[i]
    <2>1. \A i \in 1 .. n : K[i - 1] = L[i - 1] => K[i] = L[i]
      BY <1>1, <1>2, <1>3
    <2> DEFINE T == {i \in 0 .. n : K[i] = L[i]}
    <2>2. 0 \in T /\ \A i \in 1 .. n : i - 1 \in T => i \in T
      BY <1>1, <1>2, <1>3, <2>1
    <2> HIDE DEF T
    <2>3. 0 .. n \subseteq T
      BY <1>1, <2>2, BoundedInduction
    <2>4. QED
      BY <2>3 DEF T
  <1>6. L[n + 1] = IF x \in R THEN Append(L[n], x) ELSE L[n]
    <2>1. n + 1 \in 1 .. n + 1 /\ (n + 1) - 1 = n
      BY <1>1
    <2>2. QED
      BY <1>1, <1>3, <2>1
  <1>7. K[n] = L[n]
    BY <1>1, <1>5
  <1>8. QED
    BY <1>4, <1>6, <1>7 DEF t

(* What is kept comes in its order from where it was, or from further on.  *)
Behind(s, R, K, h) ==
    /\ h \in [DOMAIN K -> DOMAIN s]
    /\ \A i \in DOMAIN K : i <= h[i] /\ s[h[i]] = K[i] /\ K[i] \in R
    /\ \A i, j \in DOMAIN K : i < j => h[i] < h[j]

LEMMA KeepingBehind ==
  ASSUME NEW S, NEW R, NEW s \in Seq(S)
  PROVE  \E h : Behind(s, R, Keeping(s, R), h)
  <1> DEFINE T == {t \in Seq(S) : \E h : Behind(t, R, Keeping(t, R), h)}
  <1>1. <<>> \in T
    <2>1. Behind(<<>>, R, <<>>, [i \in {} |-> 0])
      BY DEF Behind
    <2>2. Keeping(<<>>, R) = <<>> /\ <<>> \in Seq(S)
      BY KeepingEmpty
    <2>3. QED
      BY <2>1, <2>2
  <1>2. ASSUME NEW t \in Seq(S), NEW x \in S, t \in T
        PROVE  Append(t, x) \in T
    <2> DEFINE K == Keeping(t, R)
               u == Append(t, x)
    <2>1. PICK h : Behind(t, R, K, h)
      BY <1>2
    <2>2. K \in Seq(S)
      BY KeepingType
    <2>3. Keeping(u, R) = IF x \in R THEN Append(K, x) ELSE K
      BY KeepingAppend
    <2>4. u \in Seq(S) /\ DOMAIN u = 1 .. Len(t) + 1 /\ DOMAIN t = 1 .. Len(t) /\ Len(t) \in Nat
          /\ u[Len(t) + 1] = x /\ \A i \in 1 .. Len(t) : u[i] = t[i]
      OBVIOUS
    <2> HIDE DEF K, u
    <2>5. ASSUME x \notin R PROVE \E g : Behind(u, R, Keeping(u, R), g)
      <3>1. Behind(u, R, K, h)
        BY <2>1, <2>4 DEF Behind
      <3>2. QED
        BY <2>3, <2>5, <3>1
    <2>6. ASSUME x \in R PROVE \E g : Behind(u, R, Keeping(u, R), g)
      <3> DEFINE L == Append(K, x)
                 g == [i \in DOMAIN L |-> IF i = Len(K) + 1 THEN Len(t) + 1 ELSE h[i]]
      <3>1. /\ DOMAIN L = 1 .. Len(K) + 1 /\ DOMAIN K = 1 .. Len(K) /\ Len(K) \in Nat
            /\ L[Len(K) + 1] = x /\ \A i \in 1 .. Len(K) : L[i] = K[i]
        BY <2>2
      <3> HIDE DEF L
      <3>2. /\ \A i \in 1 .. Len(K) : g[i] = h[i] /\ h[i] \in 1 .. Len(t) /\ i <= h[i]
            /\ g[Len(K) + 1] = Len(t) + 1 /\ DOMAIN g = DOMAIN L
        <4>1. \A i \in 1 .. Len(K) : h[i] \in 1 .. Len(t) /\ i <= h[i]
          BY <2>1, <2>4, <3>1 DEF Behind
        <4>2. \A i \in 1 .. Len(K) : i \in DOMAIN L /\ i # Len(K) + 1
          BY <3>1
        <4>3. Len(K) + 1 \in DOMAIN L
          BY <3>1
        <4>4. QED
          BY <4>1, <4>2, <4>3
      <3>3. g = [i \in DOMAIN L |-> g[i]]
        OBVIOUS
      <3> HIDE DEF g
      <3>4. \A i \in 1 .. Len(K) + 1 : i \in 1 .. Len(K) \/ i = Len(K) + 1
        BY <3>1
      <3>5. Len(K) <= Len(t)
        <4>1. Len(K) = 0 \/ Len(K) \in 1 .. Len(K)
          BY <3>1
        <4>2. \A i \in 1 .. Len(K) : i <= Len(t)
          BY <2>4, <3>1, <3>2
        <4>3. QED
          BY <2>4, <3>1, <4>1, <4>2
      <3>6. g \in [DOMAIN L -> DOMAIN u]
        <4>1. \A i \in DOMAIN L : g[i] \in 1 .. Len(t) + 1
          BY <2>4, <3>1, <3>2, <3>4
        <4>2. QED
          BY <2>4, <3>3, <4>1
      <3>7. \A i \in DOMAIN L : i <= g[i] /\ u[g[i]] = L[i] /\ L[i] \in R
        BY <2>1, <2>4, <2>6, <3>1, <3>2, <3>4, <3>5 DEF Behind
      <3>8. \A i, j \in DOMAIN L : i < j => g[i] < g[j]
        <4>1. SUFFICES ASSUME NEW i \in 1 .. Len(K) + 1, NEW j \in 1 .. Len(K) + 1, i < j
                       PROVE  g[i] < g[j]
          BY <3>1
        <4>2. i \in 1 .. Len(K)
          BY <3>1, <4>1
        <4>3. CASE j = Len(K) + 1
          BY <3>2, <4>2, <4>3
        <4>4. CASE j \in 1 .. Len(K)
          BY <2>1, <3>1, <3>2, <4>1, <4>2, <4>4 DEF Behind
        <4>5. QED
          BY <3>4, <4>3, <4>4
      <3>9. Behind(u, R, L, g)
        BY <3>6, <3>7, <3>8 DEF Behind
      <3>10. QED
        BY <2>3, <2>6, <3>9 DEF L
    <2>7. QED
      BY <2>4, <2>5, <2>6 DEF u
  <1>3. Seq(S) \subseteq T
    <2> HIDE DEF T
    <2>1. QED
      BY <1>1, <1>2, SeqInduction
  <1>4. QED
    BY <1>3

(* Nothing that belongs is left out.                                       *)
LEMMA KeepingAll ==
  ASSUME NEW S, NEW R, NEW s \in Seq(S)
  PROVE  \A i \in DOMAIN s : s[i] \in R => \E j \in DOMAIN Keeping(s, R) : Keeping(s, R)[j] = s[i]
  <1> DEFINE Kept(t) == \A i \in DOMAIN t : t[i] \in R =>
                           \E j \in DOMAIN Keeping(t, R) : Keeping(t, R)[j] = t[i]
             T == {t \in Seq(S) : Kept(t)}
  <1>1. <<>> \in T
    OBVIOUS
  <1>2. ASSUME NEW t \in Seq(S), NEW x \in S, t \in T
        PROVE  Append(t, x) \in T
    <2> DEFINE K == Keeping(t, R)
               u == Append(t, x)
               L == Keeping(u, R)
    <2>1. K \in Seq(S) /\ L = IF x \in R THEN Append(K, x) ELSE K
      BY KeepingType, KeepingAppend
    <2>2. u \in Seq(S) /\ DOMAIN u = 1 .. Len(t) + 1 /\ DOMAIN t = 1 .. Len(t) /\ Len(t) \in Nat
          /\ u[Len(t) + 1] = x /\ \A i \in 1 .. Len(t) : u[i] = t[i]
      OBVIOUS
    <2>3. \A i \in DOMAIN t : t[i] \in R => \E j \in DOMAIN K : K[j] = t[i]
      BY <1>2
    <2> HIDE DEF K, u
    <2>4. /\ DOMAIN K \subseteq DOMAIN L /\ \A j \in DOMAIN K : L[j] = K[j]
          /\ x \in R => Len(K) + 1 \in DOMAIN L /\ L[Len(K) + 1] = x
      BY <2>1
    <2> HIDE DEF L
    <2>5. ASSUME NEW i \in 1 .. Len(t) + 1, u[i] \in R
          PROVE  \E j \in DOMAIN L : L[j] = u[i]
      <3>1. CASE i = Len(t) + 1
        BY <2>2, <2>4, <2>5, <3>1
      <3>2. CASE i \in 1 .. Len(t)
        BY <2>2, <2>3, <2>4, <2>5, <3>2
      <3>3. QED
        BY <2>2, <3>1, <3>2
    <2>6. Kept(u)
      BY <2>2, <2>5 DEF L
    <2> HIDE DEF Kept
    <2>7. QED
      BY <2>2, <2>6 DEF u
  <1>3. Seq(S) \subseteq T
    <2> HIDE DEF T
    <2>1. QED
      BY <1>1, <1>2, SeqInduction
  <1>4. QED
    BY <1>3

(* What stands before anything that goes stays where it is.                *)
LEMMA KeepingPrefix ==
  ASSUME NEW S, NEW R, NEW s \in Seq(S), NEW k \in 0 .. Len(s),
         \A i \in 1 .. k : s[i] \in R
  PROVE  Len(Keeping(s, R)) >= k /\ \A i \in 1 .. k : Keeping(s, R)[i] = s[i]
  <1> DEFINE Starts(t) == k <= Len(t) /\ (\A i \in 1 .. k : t[i] \in R) =>
                             /\ k <= Len(Keeping(t, R))
                             /\ \A i \in 1 .. k : Keeping(t, R)[i] = t[i]
             Whole(t) == (\A i \in 1 .. Len(t) : t[i] \in R) => Keeping(t, R) = t
             T == {t \in Seq(S) : Whole(t) /\ Starts(t)}
  <1>0. k \in Nat
    OBVIOUS
  <1>1. <<>> \in T
    <2>1. Keeping(<<>>, R) = <<>>
      BY KeepingEmpty
    <2>2. Whole(<<>>)
      BY <2>1
    <2>3. Starts(<<>>)
      BY <1>0, <2>1
    <2>4. QED
      BY <2>2, <2>3
  <1>2. ASSUME NEW t \in Seq(S), NEW x \in S, t \in T
        PROVE  Append(t, x) \in T
    <2> DEFINE u == Append(t, x)
               K == Keeping(t, R)
               L == Keeping(u, R)
    <2>1. K \in Seq(S) /\ L = IF x \in R THEN Append(K, x) ELSE K
      BY KeepingType, KeepingAppend
    <2>2. u \in Seq(S) /\ Len(u) = Len(t) + 1 /\ Len(t) \in Nat
          /\ u[Len(t) + 1] = x /\ \A i \in 1 .. Len(t) : u[i] = t[i]
      OBVIOUS
    <2>3. Whole(t) /\ Starts(t)
      BY <1>2
    <2> HIDE DEF Whole, Starts
    <2>4. Whole(u)
      <3>1. SUFFICES ASSUME \A i \in 1 .. Len(u) : u[i] \in R PROVE L = u
        BY DEF Whole
      <3>2. x \in R /\ \A i \in 1 .. Len(t) : t[i] \in R
        <4>1. Len(t) + 1 \in 1 .. Len(u) /\ \A i \in 1 .. Len(t) : i \in 1 .. Len(u)
          BY <2>2
        <4>2. QED
          BY <2>2, <3>1, <4>1
      <3>3. K = t
        BY <2>3, <3>2 DEF Whole
      <3>4. QED
        BY <2>1, <3>2, <3>3
    <2>5. Starts(u)
      <3> HIDE DEF u
      <3>1. SUFFICES ASSUME k <= Len(u), \A i \in 1 .. k : u[i] \in R
                     PROVE  k <= Len(L) /\ \A i \in 1 .. k : L[i] = u[i]
        BY DEF Starts
      <3>2. CASE k = Len(u)
        <4>1. L = u
          BY <2>4, <3>1, <3>2 DEF Whole
        <4>2. QED
          BY <3>2, <4>1
      <3>3. CASE k <= Len(t)
        <4>1. \A i \in 1 .. k : t[i] \in R /\ u[i] = t[i]
          BY <1>0, <2>2, <3>1, <3>3
        <4>2. k <= Len(K) /\ \A i \in 1 .. k : K[i] = t[i]
          BY <2>3, <3>3, <4>1 DEF Starts
        <4>3. Len(L) >= Len(K) /\ \A i \in 1 .. Len(K) : L[i] = K[i]
          <5> HIDE DEF K, L
          <5>1. QED
            BY <2>1
        <4>4. Len(K) \in Nat /\ Len(L) \in Nat
          <5>1. L \in Seq(S)
            BY <2>2, KeepingType
          <5> HIDE DEF K, L
          <5>2. QED
            BY <2>1, <5>1
        <4> HIDE DEF K, L
        <4>5. \A i \in 1 .. k : i \in 1 .. Len(K)
          BY <1>0, <4>2, <4>4
        <4>6. QED
          BY <1>0, <4>1, <4>2, <4>3, <4>4, <4>5
      <3>4. QED
        BY <1>0, <2>2, <3>1, <3>2, <3>3
    <2>6. QED
      BY <2>2, <2>4, <2>5
  <1>3. Seq(S) \subseteq T
    <2> HIDE DEF T
    <2>1. QED
      BY <1>1, <1>2, SeqInduction
  <1>4. Starts(s)
    BY <1>3
  <1>5. QED
    BY <1>4

(* Only the elements that occur matter.                                    *)
LEMMA KeepingSame ==
  ASSUME NEW S, NEW R, NEW Q, NEW s \in Seq(S),
         \A i \in DOMAIN s : s[i] \in R <=> s[i] \in Q
  PROVE  Keeping(s, R) = Keeping(s, Q)
  <1> DEFINE Same(t) == (\A i \in 1 .. Len(t) : t[i] \in R <=> t[i] \in Q) =>
                           Keeping(t, R) = Keeping(t, Q)
             T == {t \in Seq(S) : Same(t)}
  <1>1. <<>> \in T
    BY KeepingEmpty
  <1>2. ASSUME NEW t \in Seq(S), NEW x \in S, t \in T
        PROVE  Append(t, x) \in T
    <2> DEFINE u == Append(t, x)
    <2>1. u \in Seq(S) /\ Len(u) = Len(t) + 1 /\ Len(t) \in Nat
          /\ u[Len(t) + 1] = x /\ \A i \in 1 .. Len(t) : u[i] = t[i]
      OBVIOUS
    <2>2. /\ Keeping(u, R) = IF x \in R THEN Append(Keeping(t, R), x) ELSE Keeping(t, R)
          /\ Keeping(u, Q) = IF x \in Q THEN Append(Keeping(t, Q), x) ELSE Keeping(t, Q)
      BY KeepingAppend
    <2> HIDE DEF u
    <2>3. Same(u)
      <3>1. SUFFICES ASSUME \A i \in 1 .. Len(u) : u[i] \in R <=> u[i] \in Q
                     PROVE  Keeping(u, R) = Keeping(u, Q)
        OBVIOUS
      <3>2. \A i \in 1 .. Len(t) : i \in 1 .. Len(u)
        BY <2>1
      <3>3. Len(t) + 1 \in 1 .. Len(u)
        BY <2>1
      <3>4. x \in R <=> x \in Q
        BY <2>1, <3>1, <3>3
      <3>5. \A i \in 1 .. Len(t) : t[i] \in R <=> t[i] \in Q
        BY <2>1, <3>1, <3>2
      <3>6. Keeping(t, R) = Keeping(t, Q)
        BY <1>2, <3>5
      <3>7. QED
        BY <2>2, <3>4, <3>6
    <2> HIDE DEF Same
    <2>4. QED
      BY <2>1, <2>3 DEF u
  <1>3. Seq(S) \subseteq T
    <2> HIDE DEF T
    <2>1. QED
      BY <1>1, <1>2, SeqInduction
  <1>4. QED
    BY <1>3

(* Where none is kept, nothing is.                                         *)
LEMMA KeepingNone ==
  ASSUME NEW S, NEW R, NEW s \in Seq(S), \A i \in DOMAIN s : s[i] \notin R
  PROVE  Keeping(s, R) = <<>>
  <1>1. PICK h : Behind(s, R, Keeping(s, R), h)
    BY KeepingBehind
  <1>2. Keeping(s, R) \in Seq(S)
    BY KeepingType
  <1>3. \A j \in DOMAIN Keeping(s, R) : FALSE
    BY <1>1 DEF Behind
  <1>4. \A w \in Seq(S) : w = <<>> \/ 1 \in DOMAIN w
    OBVIOUS
  <1>5. QED
    BY <1>2, <1>3, <1>4

(* Only what is in the set is kept.                                        *)
LEMMA KeepingOnly ==
  ASSUME NEW S, NEW R, NEW s \in Seq(S)
  PROVE  \A j \in DOMAIN Keeping(s, R) :
            /\ Keeping(s, R)[j] \in R
            /\ \E i \in DOMAIN s : s[i] = Keeping(s, R)[j]
  <1>1. PICK h : Behind(s, R, Keeping(s, R), h)
    BY KeepingBehind
  <1> DEFINE K == Keeping(s, R)
  <1> HIDE DEF K
  <1>2. Behind(s, R, K, h)
    BY <1>1 DEF K
  <1>3. \A j \in DOMAIN K : K[j] \in R /\ h[j] \in DOMAIN s /\ s[h[j]] = K[j]
    BY <1>2 DEF Behind
  <1>4. QED
    BY <1>3 DEF K

(* A sequence of what is kept is kept as it is.                            *)
LEMMA KeepingWhole ==
  ASSUME NEW S, NEW R, NEW s \in Seq(S), \A i \in DOMAIN s : s[i] \in R
  PROVE  Keeping(s, R) = s
  <1> DEFINE Inside(t) == \A i \in 1 .. Len(t) : t[i] \in R
             Good(t) == Inside(t) => Keeping(t, R) = t
             T == {t \in Seq(S) : Good(t)}
  <1>1. <<>> \in T
    BY KeepingEmpty
  <1>2. ASSUME NEW t \in Seq(S), NEW x \in S, Good(t)
        PROVE  Good(Append(t, x))
    <2>1. /\ Len(Append(t, x)) = Len(t) + 1 /\ Append(t, x)[Len(t) + 1] = x /\ Len(t) \in Nat
          /\ \A i \in 1 .. Len(t) : Append(t, x)[i] = t[i]
      OBVIOUS
    <2>2. ASSUME Inside(Append(t, x))
          PROVE  x \in R /\ Inside(t)
      BY <2>1, <2>2
    <2>3. ASSUME Inside(Append(t, x))
          PROVE  Keeping(Append(t, x), R) = Append(t, x)
      <3>1. x \in R /\ Keeping(t, R) = t
        BY <1>2, <2>2, <2>3
      <3>2. QED
        BY <3>1, KeepingAppend
    <2>4. QED
      BY <2>3
  <1>3. ASSUME NEW t \in T, NEW x \in S
        PROVE  Append(t, x) \in T
    <2>1. t \in Seq(S) /\ Good(t)
      BY <1>3
    <2>2. Append(t, x) \in Seq(S)
      BY <2>1
    <2>3. Good(Append(t, x))
      BY <1>2, <2>1
    <2>4. QED
      BY <2>2, <2>3
  <1> HIDE DEF T
  <1>4. Seq(S) \subseteq T
    BY <1>1, <1>3, SeqInduction
  <1>5. s \in T
    BY <1>4
  <1>6. QED
    BY <1>5 DEF T

=============================================================================
