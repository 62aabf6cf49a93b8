--------------------------- MODULE SelectionProofs ---------------------------
(***************************************************************************)
(* What Selections!Kept leaves of a list, and RemoveAt, for every list.    *)
(* The inductions are over sets of numbers, from the well-foundedness of   *)
(* Nat.                                                                    *)
(***************************************************************************)
EXTENDS Selections, SequencesExt, SequenceTheorems, WellFoundedInduction, TLAPS

LEMMA LeastNat == ASSUME NEW T \in SUBSET Nat, T # {} PROVE \E x \in T : \A y \in T : x <= y
<1> DEFINE R == OpToRel(<, Nat)
<1>1. IsWellFoundedOn(R, Nat)
      BY NatLessThanWellFounded
<1>2. \A x, y \in Nat : <<y, x>> \in R <=> y < x
      BY DEF OpToRel
<1> HIDE DEF R
<1>3. PICK x \in T : \A y \in T : ~ (<<y, x>> \in R)
      BY <1>1, WFMin
<1>4. \A y \in T : ~(y < x)
      BY <1>2, <1>3
<1>5. \A y \in T : x <= y
      BY <1>4
<1> QED BY <1>5

\* Induction, as a fact about sets of numbers.
LEMMA NatIn ==
  ASSUME NEW T, 0 \in T, \A n \in Nat : n \in T => n + 1 \in T
  PROVE  Nat \subseteq T
<1> SUFFICES ASSUME Nat \ T # {} PROVE FALSE
      OBVIOUS
<1>1. PICK x \in Nat \ T : \A y \in Nat \ T : x <= y
      BY LeastNat
<1>2. x # 0 /\ x - 1 \in Nat /\ ~(x <= x - 1) /\ (x - 1) + 1 = x
      BY <1>1
<1>3. x - 1 \in T
      BY <1>1, <1>2
<1> QED BY <1>1, <1>2, <1>3

\* The recursion of Kept, and that it has a solution.
UpTo(f, n, list, places) ==
  IF n = 0 THEN <<>>
  ELSE IF n \in places THEN Append(f[n - 1], list[n]) ELSE f[n - 1]

LEMMA KeptSolves ==
  ASSUME NEW list, NEW places, NEW N \in Nat
  PROVE  \E f : f = [n \in 0..N |-> f[n]] /\ \A n \in 0..N : f[n] = UpTo(f, n, list, places)
<1> DEFINE body(f, n) == UpTo(f, n, list, places)
           T == {m \in Nat : \E f : f = [n \in 0..m |-> body(f, n)]}
<1>1. 0 \in T
  <2>1. [n \in 0..0 |-> <<>>] = [n \in 0..0 |-> body([k \in 0..0 |-> <<>>], n)]
        BY DEF UpTo
  <2> HIDE DEF body
  <2> QED BY <2>1
<1>2. ASSUME NEW m \in Nat, m \in T PROVE m + 1 \in T
  <2>1. PICK f : f = [n \in 0..m |-> body(f, n)]
        BY <1>2
  <2> DEFINE g == [n \in 0..(m + 1) |-> IF n = m + 1 THEN body(f, n) ELSE f[n]]
  <2>2. \A n \in 0..(m + 1) : n # 0 => n - 1 \in 0..m /\ n - 1 \in 0..(m + 1) /\ n - 1 # m + 1
        OBVIOUS
  <2>3. \A n \in 0..(m + 1) : n # 0 => g[n - 1] = f[n - 1]
        BY <2>2
  <2> HIDE DEF g
  <2>4. \A n \in 0..(m + 1) : body(g, n) = body(f, n)
        BY <2>3 DEF UpTo
  <2>5. \A n \in 0..(m + 1) : n # m + 1 => n \in 0..m
        OBVIOUS
  <2> HIDE DEF body
  <2>6. \A n \in 0..m : f[n] = body(f, n)
        BY <2>1
  <2>7. \A n \in 0..(m + 1) : (IF n = m + 1 THEN body(f, n) ELSE f[n]) = body(g, n)
        BY <2>4, <2>5, <2>6
  <2>8. g = [n \in 0..(m + 1) |-> body(g, n)]
        BY <2>7 DEF g
  <2> QED BY <2>8
<1> HIDE DEF T
<1>3. Nat \subseteq T
      BY <1>1, <1>2, NatIn
<1>4. PICK f : f = [n \in 0..N |-> body(f, n)]
      BY <1>3 DEF T
<1> HIDE DEF body
<1>5. f = [n \in 0..N |-> f[n]] /\ \A n \in 0..N : f[n] = body(f, n)
      BY <1>4
<1> QED BY <1>5 DEF body

\* q is what is left of the first n elements of list: the elements at the places, in their
\* order; rises are the places they stood at.
LeftOf(q, list, places, n) ==
  /\ Len(q) <= n
  /\ (\E i \in 1..n : i \notin places) => Len(q) < n
  /\ \E rises \in [1..Len(q) -> places \cap 1..n] :
       /\ \A j \in 1..Len(q) : q[j] = list[rises[j]]
       /\ \A j, k \in 1..Len(q) : j < k => rises[j] < rises[k]
       /\ \A i \in places \cap 1..n : \E j \in 1..Len(q) : rises[j] = i

LEMMA NothingLeft == ASSUME NEW list, NEW places PROVE LeftOf(<<>>, list, places, 0)
<1>1. Len(<<>>) = 0 /\ 1..0 = {} /\ places \cap 1..0 = {}
      OBVIOUS
<1> DEFINE r == [i \in {} |-> i]
<1>3. r \in [1..Len(<<>>) -> places \cap 1..0] /\ 1..Len(<<>>) = {} /\ Len(<<>>) <= 0
      BY <1>1
<1> HIDE DEF r
<1> QED BY <1>1, <1>3 DEF LeftOf

\* One more element, which is left or not.
LEMMA OneLeft ==
  ASSUME NEW S, NEW q \in Seq(S), NEW list, NEW places, NEW n \in Nat, list[n + 1] \in S,
         LeftOf(q, list, places, n)
  PROVE  LET p == IF n + 1 \in places THEN Append(q, list[n + 1]) ELSE q
         IN  p \in Seq(S) /\ LeftOf(p, list, places, n + 1)
<1> DEFINE l == Len(q)
           e == list[n + 1]
<1>1. PICK r \in [1..l -> places \cap 1..n] :
        /\ \A j \in 1..l : q[j] = list[r[j]]
        /\ \A j, k \in 1..l : j < k => r[j] < r[k]
        /\ \A i \in places \cap 1..n : \E j \in 1..l : r[j] = i
      BY DEF LeftOf
<1>2. l \in Nat /\ l <= n /\ ((\E i \in 1..n : i \notin places) => l < n)
      BY DEF LeftOf
<1>3. \A i \in 1..(n + 1) : i \in 1..n \/ i = n + 1
      OBVIOUS
<1>4. CASE n + 1 \notin places
  <2>1. places \cap 1..(n + 1) = places \cap 1..n
        BY <1>3, <1>4
  <2>2. l <= n + 1 /\ l < n + 1
        BY <1>2
  <2>3. LeftOf(q, list, places, n + 1)
        BY <1>1, <2>1, <2>2, SMTT(60) DEF LeftOf
  <2> QED BY <1>4, <2>3
<1>5. CASE n + 1 \in places
  <2> DEFINE p == Append(q, e)
             s == [j \in 1..(l + 1) |-> IF j = l + 1 THEN n + 1 ELSE r[j]]
  <2>1. p \in Seq(S) /\ Len(p) = l + 1 /\ p[l + 1] = e /\ \A j \in 1..l : p[j] = q[j]
        OBVIOUS
  <2>2. /\ \A j \in 1..(l + 1) : j \in 1..l \/ j = l + 1
        /\ \A j \in 1..l : j \in 1..(l + 1) /\ j # l + 1
        /\ l + 1 \in 1..(l + 1)
        /\ \A j, k \in 1..(l + 1) : j < k => j \in 1..l
        BY <1>2
  <2> HIDE DEF p, l
  <2>3. s[l + 1] = n + 1 /\ \A j \in 1..l : s[j] = r[j]
        BY <2>2
  <2>4. \A j \in 1..l : r[j] \in places \cap 1..n /\ r[j] < n + 1
        BY <1>1
  <2>5. n + 1 \in places \cap 1..(n + 1) /\ places \cap 1..n \subseteq places \cap 1..(n + 1)
        BY <1>5
  <2>6. s \in [1..(l + 1) -> places \cap 1..(n + 1)]
        BY <2>2, <2>4, <2>5
  <2> HIDE DEF s
  <2>7. \A j \in 1..(l + 1) : p[j] = list[s[j]]
        BY <1>1, <2>1, <2>2, <2>3
  <2>8. ASSUME NEW j \in 1..(l + 1), NEW k \in 1..(l + 1), j < k PROVE s[j] < s[k]
    <3>1. j \in 1..l /\ s[j] = r[j]
          BY <2>2, <2>3, <2>8
    <3>2. CASE k = l + 1
          BY <2>3, <2>4, <3>1, <3>2
    <3>3. CASE k \in 1..l
          BY <1>1, <2>3, <2>8, <3>1, <3>3
    <3> QED BY <2>2, <3>2, <3>3
  <2>9. ASSUME NEW i \in places \cap 1..(n + 1) PROVE \E j \in 1..(l + 1) : s[j] = i
    <3>1. CASE i = n + 1
          BY <2>2, <2>3, <3>1
    <3>2. CASE i \in 1..n
      <4>1. PICK j \in 1..l : r[j] = i
            BY <1>1, <3>2
      <4> QED BY <2>2, <2>3, <4>1
    <3> QED BY <1>3, <3>1, <3>2
  <2>10. l + 1 <= n + 1 /\ ((\E i \in 1..(n + 1) : i \notin places) => l + 1 < n + 1)
    <3>1. (\E i \in 1..(n + 1) : i \notin places) => (\E i \in 1..n : i \notin places)
          BY <1>3, <1>5
    <3>2. l < n => l + 1 < n + 1
          BY <1>2
    <3>3. l + 1 <= n + 1
          BY <1>2
    <3> QED BY <1>2, <3>1, <3>2, <3>3, Zenon
  <2>11. /\ s \in [1..Len(p) -> places \cap 1..(n + 1)]
         /\ \A j \in 1..Len(p) : p[j] = list[s[j]]
         /\ \A j, k \in 1..Len(p) : j < k => s[j] < s[k]
         /\ \A i \in places \cap 1..(n + 1) : \E j \in 1..Len(p) : s[j] = i
         /\ Len(p) <= n + 1 /\ ((\E i \in 1..(n + 1) : i \notin places) => Len(p) < n + 1)
        BY <2>1, <2>6, <2>7, <2>8, <2>9, <2>10
  <2>12. LeftOf(p, list, places, n + 1)
        BY <2>11 DEF LeftOf
  <2> QED BY <1>5, <2>1, <2>12 DEF p
<1> QED BY <1>4, <1>5

\* What Kept leaves of a list.
THEOREM KeptIs ==
  ASSUME NEW S, NEW list \in Seq(S), NEW places
  PROVE  Kept(list, places) \in Seq(S) /\ LeftOf(Kept(list, places), list, places, Len(list))
<1> DEFINE N == Len(list)
           upTo[n \in 0..N] == IF n = 0 THEN <<>>
             ELSE IF n \in places THEN Append(upTo[n - 1], list[n]) ELSE upTo[n - 1]
           body(f, n) == UpTo(f, n, list, places)
<1>1. N \in Nat /\ \A i \in 1..N : list[i] \in S
      OBVIOUS
<1>2. Kept(list, places) = upTo[N]
      BY DEF Kept
<1>3. upTo = [n \in 0..N |-> body(upTo, n)]
  <2>1. \E f : f = [n \in 0..N |-> body(f, n)]
    <3> HIDE DEF N, upTo
    <3>1. PICK f : f = [n \in 0..N |-> f[n]] /\ \A n \in 0..N : f[n] = UpTo(f, n, list, places)
          BY KeptSolves, <1>1
    <3> HIDE DEF body
    <3>2. \A n \in 0..N : f[n] = body(f, n)
          BY <3>1 DEF body
    <3>3. f = [n \in 0..N |-> body(f, n)]
          BY <3>1, <3>2
    <3> QED BY <3>3
  <2>2. upTo = CHOOSE f : f = [n \in 0..N |-> body(f, n)]
        BY DEF UpTo
  <2> HIDE DEF body, upTo, N
  <2> QED BY <2>1, <2>2
<1> HIDE DEF N, body, upTo
<1>4. \A n \in 0..N : upTo[n] = body(upTo, n)
      BY <1>3
<1> DEFINE T == {n \in Nat : n <= N => upTo[n] \in Seq(S) /\ LeftOf(upTo[n], list, places, n)}
<1>5. 0 \in T
  <2>1. upTo[0] = <<>>
        BY <1>1, <1>4 DEF body, UpTo
  <2>2. <<>> \in Seq(S)
        OBVIOUS
  <2> QED BY <2>1, <2>2, NothingLeft
<1>6. ASSUME NEW n \in Nat, n \in T PROVE n + 1 \in T
  <2> SUFFICES ASSUME n + 1 <= N
               PROVE  upTo[n + 1] \in Seq(S) /\ LeftOf(upTo[n + 1], list, places, n + 1)
        OBVIOUS
  <2>1. n + 1 \in 0..N /\ n + 1 # 0 /\ (n + 1) - 1 = n /\ n + 1 \in 1..N /\ n <= N
        BY <1>1
  <2>2. upTo[n + 1] = IF n + 1 \in places THEN Append(upTo[n], list[n + 1]) ELSE upTo[n]
        BY <1>4, <2>1 DEF body, UpTo
  <2>3. upTo[n] \in Seq(S) /\ LeftOf(upTo[n], list, places, n) /\ list[n + 1] \in S
        BY <1>1, <1>6, <2>1
  <2> QED BY <2>2, <2>3, OneLeft
<1> HIDE DEF T
<1>7. N \in T
      BY <1>1, <1>5, <1>6, NatIn
<1>8. upTo[N] \in Seq(S) /\ LeftOf(upTo[N], list, places, N)
      BY <1>1, <1>7 DEF T
<1> QED BY <1>2, <1>8 DEF N

\* Kept of the places past d is the tail of the list past d.
LEMMA KeptTail ==
  ASSUME NEW S, NEW list \in Seq(S), NEW places, NEW d \in 0..Len(list),
         \A i \in 1..Len(list) : i \in places <=> i > d
  PROVE  /\ Len(Kept(list, places)) = Len(list) - d
         /\ \A j \in 1..(Len(list) - d) : Kept(list, places)[j] = list[d + j]
<1> DEFINE n == Len(list)
           r == Kept(list, places)
           l == Len(r)
<1>1. n \in Nat /\ d \in Nat /\ d <= n /\ \A i \in 1..n : i \in places <=> i > d
      OBVIOUS
<1>2. r \in Seq(S) /\ LeftOf(r, list, places, n)
      BY KeptIs
<1> HIDE DEF n, r
<1>3. l \in Nat
      BY <1>2
<1>4. PICK rises \in [1..l -> places \cap 1..n] :
        /\ \A j \in 1..l : r[j] = list[rises[j]]
        /\ \A j, k \in 1..l : j < k => rises[j] < rises[k]
        /\ \A i \in places \cap 1..n : \E j \in 1..l : rises[j] = i
      BY <1>2 DEF LeftOf
<1> HIDE DEF l
<1>5. \A j \in 1..l : rises[j] \in 1..n /\ rises[j] \in Nat /\ rises[j] > d
      BY <1>1, <1>4
<1> DEFINE T == {j \in Nat : \A k \in 1..l : k <= j => rises[k] = d + k}
<1>6. 0 \in T
      OBVIOUS
<1>7. ASSUME NEW j \in Nat, j \in T PROVE j + 1 \in T
  <2>1. ASSUME j + 1 \in 1..l PROVE rises[j + 1] = d + (j + 1)
    <3> DEFINE x == rises[j + 1]
    <3>1. x \in 1..n /\ x \in Nat /\ x > d
          BY <1>5, <2>1
    <3> HIDE DEF x
    <3>2. ~(x < d + (j + 1))
      <4> SUFFICES ASSUME x < d + (j + 1) PROVE FALSE
            OBVIOUS
      <4>1. x - d \in 1..l /\ x - d <= j /\ x - d < j + 1 /\ d + (x - d) = x
            BY <1>1, <1>3, <2>1, <3>1
      <4>2. rises[x - d] = x
            BY <1>7, <4>1
      <4>3. rises[x - d] < x
            BY <1>4, <2>1, <4>1 DEF x
      <4> QED BY <3>1, <4>2, <4>3
    <3>3. ~(x > d + (j + 1))
      <4> SUFFICES ASSUME x > d + (j + 1) PROVE FALSE
            OBVIOUS
      <4>1. d + (j + 1) \in 1..n /\ d + (j + 1) > d
            BY <1>1, <3>1
      <4>2. PICK k \in 1..l : rises[k] = d + (j + 1)
            BY <1>1, <1>4, <4>1
      <4>3. CASE k <= j
        <5>1. rises[k] = d + k
              BY <1>7, <4>3
        <5> QED BY <1>1, <4>2, <4>3, <5>1
      <4>4. CASE k = j + 1
            BY <1>1, <4>2, <4>4 DEF x
      <4>5. CASE k > j + 1
        <5>1. x < rises[k]
              BY <1>4, <2>1, <4>5 DEF x
        <5> QED BY <1>1, <3>1, <4>2, <5>1
      <4> QED BY <4>3, <4>4, <4>5
    <3>4. x = d + (j + 1)
          BY <1>1, <3>1, <3>2, <3>3
    <3> QED BY <3>4 DEF x
  <2>2. ASSUME NEW k \in 1..l, k <= j + 1 PROVE rises[k] = d + k
    <3>1. CASE k <= j
          BY <1>7, <3>1
    <3>2. CASE k = j + 1
          BY <2>1, <3>2
    <3> QED BY <2>2, <3>1, <3>2
  <2> QED BY <2>2
<1> HIDE DEF T
<1>8. l \in T
      BY <1>3, <1>6, <1>7, NatIn
<1>9. \A k \in 1..l : rises[k] = d + k
      BY <1>3, <1>8 DEF T
<1>10. l = n - d
  <2>1. l <= n - d
    <3>1. CASE l = 0
          BY <1>1, <3>1
    <3>2. CASE l # 0
      <4>1. l \in 1..l
            BY <1>3, <3>2
      <4>2. d + l \in 1..n
            BY <1>5, <1>9, <4>1
      <4> QED BY <1>1, <1>3, <4>2
    <3> QED BY <3>1, <3>2
  <2>2. n - d <= l
    <3>1. CASE n = d
          BY <1>1, <1>3, <3>1
    <3>2. CASE n # d
      <4>1. n \in places \cap 1..n
            BY <1>1, <3>2
      <4>2. PICK j \in 1..l : rises[j] = n
            BY <1>4, <4>1
      <4>3. n = d + j
            BY <1>9, <4>2
      <4> QED BY <1>1, <1>3, <4>3
    <3> QED BY <3>1, <3>2
  <2> QED BY <1>1, <1>3, <2>1, <2>2
<1>11. \A j \in 1..l : r[j] = list[d + j]
      BY <1>4, <1>9
<1> QED BY <1>10, <1>11 DEF l, n, r

\* In a list that rises, those over a limit are a tail.
LEMMA RisingTail ==
  ASSUME NEW h \in Seq(Nat), \A i, j \in 1..Len(h) : i <= j => h[i] <= h[j], NEW w \in Int
  PROVE  \E d \in 0..Len(h) : \A i \in 1..Len(h) : h[i] > w <=> i > d
<1> DEFINE n == Len(h)
           D == {m \in 0..n : \A i \in 1..n : i > m => h[i] > w}
<1>1. n \in Nat /\ \A i \in 1..n : h[i] \in Nat
      OBVIOUS
<1> HIDE DEF n
<1>2. D \in SUBSET Nat /\ n \in D
      BY <1>1
<1> HIDE DEF D
<1>3. PICK d \in D : \A m \in D : d <= m
      BY <1>2, LeastNat
<1>4. d \in 0..n /\ \A i \in 1..n : i > d => h[i] > w
      BY DEF D
<1>5. ASSUME NEW i \in 1..n, h[i] > w PROVE i > d
  <2>1. ASSUME NEW j \in 1..n, j > i - 1 PROVE h[j] > w
    <3>1. i <= j
          BY <1>1, <2>1
    <3>2. h[i] <= h[j] /\ h[i] \in Nat /\ h[j] \in Nat
          BY <1>1, <3>1 DEF n
    <3> QED BY <1>5, <3>2
  <2>2. i - 1 \in D
        BY <1>1, <2>1 DEF D
  <2>3. d <= i - 1
        BY <1>3, <2>2
  <2> QED BY <1>1, <1>4, <2>3
<1>6. \A i \in 1..n : h[i] > w <=> i > d
      BY <1>4, <1>5
<1> QED BY <1>4, <1>6 DEF n

\* Taking one entry out of a sequence moves the later ones up.
LEMMA RemoveAtIs ==
  ASSUME NEW S, NEW s \in Seq(S), NEW i \in 1..Len(s)
  PROVE  /\ RemoveAt(s, i) \in Seq(S) /\ Len(RemoveAt(s, i)) = Len(s) - 1
         /\ \A j \in 1..(Len(s) - 1) : RemoveAt(s, i)[j] = IF j < i THEN s[j] ELSE s[j + 1]
<1> DEFINE a == SubSeq(s, 1, i - 1)
           b == SubSeq(s, i + 1, Len(s))
<1>1. Len(s) \in Nat /\ i \in Nat
      OBVIOUS
<1>2. a \in Seq(S) /\ Len(a) = i - 1 /\ \A j \in 1..(i - 1) : a[j] = s[j]
      BY <1>1
<1>3. b \in Seq(S) /\ Len(b) = Len(s) - i /\ \A j \in 1..(Len(s) - i) : b[j] = s[i + j]
      BY <1>1
<1>4. RemoveAt(s, i) = a \o b
      BY DEF RemoveAt
<1> HIDE DEF a, b
<1>5. a \o b \in Seq(S) /\ Len(a \o b) = Len(s) - 1
  <2>1. a \o b \in Seq(S) /\ Len(a \o b) = Len(a) + Len(b)
        BY <1>2, <1>3, ConcatProperties
  <2>2. (i - 1) + (Len(s) - i) = Len(s) - 1
        BY <1>1
  <2> QED BY <1>2, <1>3, <2>1, <2>2
<1>6. ASSUME NEW j \in 1..(Len(s) - 1) PROVE (a \o b)[j] = IF j < i THEN s[j] ELSE s[j + 1]
  <2>1. CASE j < i
        BY <1>1, <1>2, <1>3, <2>1
  <2>2. CASE ~(j < i)
    <3>1. (a \o b)[j] = b[j - (i - 1)]
          BY <1>1, <1>2, <1>3, <2>2
    <3>2. j - (i - 1) \in 1..(Len(s) - i) /\ i + (j - (i - 1)) = j + 1
          BY <1>1, <2>2
    <3> QED BY <1>3, <2>2, <3>1, <3>2
  <2> QED BY <2>1, <2>2
<1> QED BY <1>4, <1>5, <1>6
=============================================================================
