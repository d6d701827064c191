---------------------------- MODULE SelectionProofs ----------------------------
(***************************************************************************)
(* What Selected returns, for every sequence and every set: the recursive  *)
(* function is the loop, what it keeps stands at places that grow, it      *)
(* keeps exactly the elements of the set, and one more element changes it  *)
(* by at most that element.  The inductions go over the set of the         *)
(* lengths for which a fact holds.                                         *)
(***************************************************************************)
EXTENDS Selection, WellFoundedInduction, NaturalsInduction, TLAPS

\* One step of the loop.
Step(s, S, f, i) ==
    IF i = 0 THEN <<>> ELSE IF s[i] \in S THEN Append(f[i - 1], s[i]) ELSE f[i - 1]

\* f is the loop over the first n elements of s.
IsLoop(s, S, n, f) == f = [i \in 0..n |-> Step(s, S, f, i)]

\* A set of naturals has a least element, unless it is empty.
LEMMA Least ==
    ASSUME NEW S, S \subseteq Nat, S # {}
    PROVE  \E x \in S : \A y \in S : x <= y
<1>1. PICK x \in S : \A y \in S : ~(<<y, x>> \in OpToRel(<, Nat))
  <2>1. IsWellFoundedOn(OpToRel(<, Nat), Nat) BY NatLessThanWellFounded
  <2> QED BY <2>1, WFMin
<1>2. ASSUME NEW y \in S PROVE x <= y
  <2>1. ~(y < x) BY <1>1 DEF OpToRel
  <2> QED BY <2>1
<1> QED BY <1>2

\* A set of naturals that holds 0 and, with a number below n, the next one,
\* holds every number up to n.
LEMMA UpTo ==
    ASSUME NEW n \in Nat, NEW N, 0 \in N,
           \A i \in 0..n : i < n /\ i \in N => i + 1 \in N
    PROVE  0..n \subseteq N
<1> SUFFICES ASSUME NEW k \in 0..n, k \notin N PROVE FALSE OBVIOUS
<1> DEFINE Bad == {i \in 0..n : i \notin N}
<1>1. Bad \subseteq Nat /\ Bad # {} OBVIOUS
<1>2. PICK x \in Bad : \A y \in Bad : x <= y
  <2> HIDE DEF Bad
  <2> QED BY <1>1, Least
<1>3. x \in 0..n /\ x \notin N /\ x # 0 BY <1>2
<1>4. x - 1 \in 0..n /\ x - 1 < n /\ x - 1 + 1 = x /\ ~(x <= x - 1) BY <1>3
<1>5. x - 1 \notin N BY <1>3, <1>4
<1> QED BY <1>2, <1>4, <1>5

LEMMA LoopExists ==
    ASSUME NEW s, NEW S, NEW n \in Nat
    PROVE  \E f : IsLoop(s, S, n, f)
<1> DEFINE N == {i \in 0..n : \E f : IsLoop(s, S, i, f)}
<1>1. 0 \in N
  <2> DEFINE f == [i \in 0..0 |-> <<>>]
  <2>1. IsLoop(s, S, 0, f) BY DEF IsLoop, Step
  <2> HIDE DEF f
  <2> QED BY <2>1
<1>2. ASSUME NEW i \in 0..n, i < n, i \in N PROVE i + 1 \in N
  <2>1. PICK g : IsLoop(s, S, i, g) BY <1>2
  <2> DEFINE f == [j \in 0..(i + 1) |-> IF j = i + 1 THEN Step(s, S, g, i + 1) ELSE g[j]]
  <2>2. ASSUME NEW j \in 0..(i + 1) PROVE f[j] = Step(s, S, f, j)
    <3>1. CASE j = i + 1
      <4>1. f[i] = g[i] /\ f[j] = Step(s, S, g, j) /\ j - 1 = i /\ j # 0 BY <3>1
      <4> QED BY <4>1 DEF Step
    <3>2. CASE j \in 0..i
      <4>1. f[j] = g[j] /\ g[j] = Step(s, S, g, j) BY <3>2, <2>1 DEF IsLoop
      <4>2. j # 0 => f[j - 1] = g[j - 1] BY <3>2
      <4> QED BY <4>1, <4>2 DEF Step
    <3> QED BY <3>1, <3>2
  <2>3. f = [j \in 0..(i + 1) |-> f[j]] OBVIOUS
  <2> HIDE DEF f
  <2>4. IsLoop(s, S, i + 1, f)
    <3>1. [j \in 0..(i + 1) |-> f[j]] = [j \in 0..(i + 1) |-> Step(s, S, f, j)] BY <2>2
    <3> QED BY <3>1, <2>3 DEF IsLoop
  <2> QED BY <2>4, <1>2
<1> HIDE DEF N
<1>3. 0..n \subseteq N BY <1>1, <1>2, UpTo
<1> QED BY <1>3 DEF N

\* What is selected is what the loop leaves at the end.
LEMMA SelectedByLoop ==
    ASSUME NEW T, NEW s \in Seq(T), NEW S
    PROVE  \E f : IsLoop(s, S, Len(s), f) /\ Selected(s, S) = f[Len(s)]
<1>0. Len(s) \in Nat OBVIOUS
<1>1. \E f : IsLoop(s, S, Len(s), f) BY <1>0, LoopExists
<1> DEFINE f == CHOOSE g : IsLoop(s, S, Len(s), g)
<1>2. IsLoop(s, S, Len(s), f) BY <1>1
<1>3. Selected(s, S) = f[Len(s)] BY DEF Selected, IsLoop, Step
<1> QED BY <1>2, <1>3

\* p leads from the places of r to the places of the first n elements of s that
\* are in S, in their order and leaving none out.
Places(s, S, n, r, p) ==
    /\ p \in [1..Len(r) -> 1..n]
    /\ \A j \in 1..Len(r) : r[j] = s[p[j]] /\ s[p[j]] \in S
    /\ \A i, j \in 1..Len(r) : i < j => p[i] < p[j]
    /\ \A k \in 1..n : s[k] \in S => \E j \in 1..Len(r) : p[j] = k

\* The elements that are selected are those of the sequence that are in the
\* set, each as often as it is there, in the order of the sequence.
LEMMA SelectedPlaces ==
    ASSUME NEW T, NEW s \in Seq(T), NEW S
    PROVE  /\ Selected(s, S) \in Seq(T) /\ Len(Selected(s, S)) <= Len(s)
           /\ \E p : Places(s, S, Len(s), Selected(s, S), p)
<1> DEFINE n == Len(s)
<1>1. n \in Nat /\ \A i \in 1..n : s[i] \in T OBVIOUS
<1>2. PICK f : IsLoop(s, S, n, f) /\ Selected(s, S) = f[n] BY SelectedByLoop
<1>3. \A i \in 0..n : f[i] = Step(s, S, f, i) BY <1>1, <1>2 DEF IsLoop
<1> DEFINE N == {i \in 0..n : f[i] \in Seq(T) /\ Len(f[i]) <= i /\ \E p : Places(s, S, i, f[i], p)}
<1> HIDE DEF n
<1>4. 0 \in N
  <2>1. f[0] = <<>> BY <1>1, <1>3 DEF Step
  <2>2. <<>> \in Seq(T) /\ Len(<<>>) = 0 OBVIOUS
  <2>3. Places(s, S, 0, <<>>, [i \in {} |-> 0]) BY DEF Places
  <2>4. \E p : Places(s, S, 0, <<>>, p) BY <2>3
  <2>5. 0 \in 0..n /\ 0 <= 0 BY <1>1
  <2> QED BY <2>1, <2>2, <2>4, <2>5
<1>5. ASSUME NEW i \in 0..n, i < n, i \in N PROVE i + 1 \in N
  <2>1. i + 1 \in 0..n /\ i + 1 # 0 /\ i + 1 - 1 = i /\ i + 1 \in 1..n BY <1>1, <1>5
  <2>2. f[i + 1] = IF s[i + 1] \in S THEN Append(f[i], s[i + 1]) ELSE f[i]
    BY <1>3, <2>1 DEF Step
  <2>3. f[i] \in Seq(T) /\ Len(f[i]) <= i BY <1>5
  <2>4. PICK p : Places(s, S, i, f[i], p) BY <1>5
  <2>5. CASE s[i + 1] \in S
    <3> DEFINE r == Append(f[i], s[i + 1])
               q == [j \in 1..Len(r) |-> IF j = Len(r) THEN i + 1 ELSE p[j]]
    <3>1. f[i + 1] = r BY <2>2, <2>5
    <3>2. s[i + 1] \in T BY <1>1, <2>1
    <3>3. /\ r \in Seq(T) /\ Len(r) = Len(f[i]) + 1 /\ r[Len(r)] = s[i + 1]
          /\ \A j \in 1..Len(f[i]) : r[j] = f[i][j]
      BY <2>3, <3>2
    <3>4. Len(f[i]) \in Nat BY <2>3
    <3> HIDE DEF r
    <3>5. \A j \in 1..Len(r) : j = Len(r) \/ j \in 1..Len(f[i]) BY <3>3, <3>4
    <3>6. q[Len(r)] = i + 1 /\ \A j \in 1..Len(f[i]) : q[j] = p[j] /\ p[j] \in 1..i
      BY <3>3, <3>4, <2>4 DEF Places
    <3>7. q \in [1..Len(r) -> 1..(i + 1)]
      <4>1. i \in Nat /\ i + 1 \in 1..(i + 1) /\ \A k \in 1..i : k \in 1..(i + 1) BY <1>1
      <4>2. \A j \in 1..Len(r) : q[j] \in 1..(i + 1) BY <3>5, <3>6, <4>1
      <4>3. q = [j \in 1..Len(r) |-> q[j]] OBVIOUS
      <4> HIDE DEF q
      <4> QED BY <4>2, <4>3
    <3>8. \A j \in 1..Len(r) : r[j] = s[q[j]] /\ s[q[j]] \in S
      BY <3>5, <3>6, <3>3, <2>4, <2>5 DEF Places
    <3>9. \A j, k \in 1..Len(r) : j < k => q[j] < q[k]
      <4> SUFFICES ASSUME NEW j \in 1..Len(r), NEW k \in 1..Len(r), j < k PROVE q[j] < q[k] OBVIOUS
      <4>1. j \in 1..Len(f[i]) BY <3>3, <3>4
      <4>2. CASE k = Len(r)
        <5>1. q[j] \in 1..i /\ q[k] = i + 1 BY <4>1, <4>2, <3>6
        <5> HIDE DEF q
        <5> QED BY <5>1, <1>1
      <4>3. CASE k \in 1..Len(f[i]) BY <4>1, <4>3, <3>6, <2>4 DEF Places
      <4> QED BY <4>2, <4>3, <3>5
    <3>10. \A k \in 1..(i + 1) : s[k] \in S => \E j \in 1..Len(r) : q[j] = k
      <4> SUFFICES ASSUME NEW k \in 1..(i + 1), s[k] \in S PROVE \E j \in 1..Len(r) : q[j] = k OBVIOUS
      <4>1. CASE k = i + 1
        <5>1. Len(r) \in 1..Len(r) BY <3>3, <3>4
        <5> QED BY <4>1, <5>1, <3>6
      <4>2. CASE k \in 1..i
        <5>1. PICK j \in 1..Len(f[i]) : p[j] = k BY <4>2, <2>4 DEF Places
        <5>2. j \in 1..Len(r) BY <3>3, <3>4
        <5> QED BY <5>1, <5>2, <3>6
      <4> QED BY <4>1, <4>2, <2>1
    <3> HIDE DEF q
    <3>11. Places(s, S, i + 1, r, q) BY <3>7, <3>8, <3>9, <3>10 DEF Places
    <3>12. Len(r) <= i + 1 BY <3>3, <2>3, <3>4
    <3> QED BY <3>1, <3>3, <3>11, <3>12, <2>1
  <2>6. CASE s[i + 1] \notin S
    <3>1. f[i + 1] = f[i] BY <2>2, <2>6
    <3>2. \A k \in 1..(i + 1) : s[k] \in S => k \in 1..i BY <2>6, <2>1
    <3>3. Places(s, S, i + 1, f[i], p)
      <4>1. p \in [1..Len(f[i]) -> 1..(i + 1)] BY <2>4, <2>1 DEF Places
      <4> QED BY <4>1, <2>4, <3>2 DEF Places
    <3> QED BY <3>1, <3>3, <2>3, <2>1
  <2> QED BY <2>5, <2>6
<1> HIDE DEF N
<1>6. n \in N
  <2>1. \A i \in 0..n : i < n /\ i \in N => i + 1 \in N BY <1>5
  <2>2. 0..n \subseteq N BY <1>1, <1>4, <2>1, UpTo
  <2> QED BY <1>1, <2>2
<1> QED BY <1>6, <1>2 DEF N, n

\* What is selected, as a set.
LEMMA SelectedElements ==
    ASSUME NEW T, NEW s \in Seq(T), NEW S
    PROVE  /\ Selected(s, S) \in Seq(T) /\ Len(Selected(s, S)) <= Len(s)
           /\ \A x : (\E i \in DOMAIN Selected(s, S) : Selected(s, S)[i] = x)
                        <=> x \in S /\ \E i \in DOMAIN s : s[i] = x
<1> DEFINE r == Selected(s, S)
<1>1. r \in Seq(T) /\ Len(r) <= Len(s) BY SelectedPlaces
<1>2. PICK p : Places(s, S, Len(s), r, p) BY SelectedPlaces
<1>3. DOMAIN r = 1..Len(r) /\ DOMAIN s = 1..Len(s) BY <1>1
<1> HIDE DEF r
<1>4. \A i \in DOMAIN r : r[i] \in S /\ \E k \in DOMAIN s : s[k] = r[i] BY <1>2, <1>3 DEF Places
<1>5. \A k \in DOMAIN s : s[k] \in S => \E i \in DOMAIN r : r[i] = s[k] BY <1>2, <1>3 DEF Places
<1>6. \A x : (\E i \in DOMAIN r : r[i] = x) <=> x \in S /\ \E i \in DOMAIN s : s[i] = x
  BY <1>4, <1>5
<1> QED BY <1>1, <1>6 DEF r

\* What holds at most one of each still does.
LEMMA SelectedOnce ==
    ASSUME NEW T, NEW s \in Seq(T), NEW S, \A i, j \in DOMAIN s : s[i] = s[j] => i = j
    PROVE  \A i, j \in DOMAIN Selected(s, S) : Selected(s, S)[i] = Selected(s, S)[j] => i = j
<1> DEFINE r == Selected(s, S)
<1>1. r \in Seq(T) BY SelectedPlaces
<1>2. PICK p : Places(s, S, Len(s), r, p) BY SelectedPlaces
<1>3. DOMAIN r = 1..Len(r) /\ DOMAIN s = 1..Len(s) /\ Len(r) \in Nat BY <1>1
<1> HIDE DEF r
<1>4. \A i \in DOMAIN r : p[i] \in DOMAIN s /\ r[i] = s[p[i]] BY <1>2, <1>3 DEF Places
<1>5. ASSUME NEW i \in DOMAIN r, NEW j \in DOMAIN r, i < j PROVE p[i] # p[j]
  BY <1>2, <1>3, <1>4, <1>5 DEF Places
<1>6. ASSUME NEW i \in DOMAIN r, NEW j \in DOMAIN r, r[i] = r[j] PROVE i = j
  <2>1. p[i] = p[j] BY <1>4, <1>6
  <2>2. i < j \/ j < i \/ i = j BY <1>3
  <2> QED BY <2>1, <2>2, <1>5
<1> QED BY <1>6 DEF r

\* One more element at the end is one more step of the loop.
LEMMA SelectedAppend ==
    ASSUME NEW T, NEW s \in Seq(T), NEW S, NEW x \in T
    PROVE  Selected(Append(s, x), S) =
               IF x \in S THEN Append(Selected(s, S), x) ELSE Selected(s, S)
<1> DEFINE t == Append(s, x)
           n == Len(s)
<1>1. /\ t \in Seq(T) /\ Len(t) = n + 1 /\ n \in Nat /\ t[n + 1] = x
      /\ \A i \in 1..n : t[i] = s[i]
  OBVIOUS
<1>2. PICK f : IsLoop(s, S, n, f) /\ Selected(s, S) = f[n] BY SelectedByLoop
<1>a. \E g : IsLoop(t, S, Len(t), g) /\ Selected(t, S) = g[Len(t)] BY <1>1, SelectedByLoop
<1>3. PICK g : IsLoop(t, S, n + 1, g) /\ Selected(t, S) = g[n + 1] BY <1>a, <1>1
<1> HIDE DEF t, n
<1>4. \A i \in 0..n : f[i] = Step(s, S, f, i) BY <1>1, <1>2 DEF IsLoop
<1>5. \A i \in 0..(n + 1) : g[i] = Step(t, S, g, i) BY <1>1, <1>3 DEF IsLoop
<1> DEFINE N == {i \in 0..n : f[i] = g[i]}
<1>6. 0 \in N
  <2>1. 0 \in 0..n /\ 0 \in 0..(n + 1) BY <1>1
  <2>2. f[0] = <<>> BY <1>4, <2>1 DEF Step
  <2>3. g[0] = <<>> BY <1>5, <2>1 DEF Step
  <2> QED BY <2>1, <2>2, <2>3
<1>7. ASSUME NEW i \in 0..n, i < n, i \in N PROVE i + 1 \in N
  <2>1. /\ i + 1 \in 0..n /\ i + 1 \in 0..(n + 1) /\ i + 1 # 0 /\ i + 1 - 1 = i
        /\ i + 1 \in 1..n
    BY <1>1, <1>7
  <2>2. f[i + 1] = IF s[i + 1] \in S THEN Append(f[i], s[i + 1]) ELSE f[i]
    BY <1>4, <2>1 DEF Step
  <2>3. g[i + 1] = IF t[i + 1] \in S THEN Append(g[i], t[i + 1]) ELSE g[i]
    BY <1>5, <2>1 DEF Step
  <2>4. t[i + 1] = s[i + 1] /\ f[i] = g[i] BY <1>1, <2>1, <1>7
  <2> QED BY <2>1, <2>2, <2>3, <2>4
<1> HIDE DEF N
<1>8. f[n] = g[n]
  <2>1. \A i \in 0..n : i < n /\ i \in N => i + 1 \in N BY <1>7
  <2>2. 0..n \subseteq N BY <1>1, <1>6, <2>1, UpTo
  <2>3. n \in N BY <1>1, <2>2
  <2> QED BY <2>3 DEF N
<1>9. g[n + 1] = IF x \in S THEN Append(g[n], x) ELSE g[n]
  <2>1. n + 1 \in 0..(n + 1) /\ n + 1 # 0 /\ n + 1 - 1 = n BY <1>1
  <2> QED BY <1>5, <1>1, <2>1 DEF Step
<1> QED BY <1>2, <1>3, <1>8, <1>9 DEF t, n

=============================================================================
