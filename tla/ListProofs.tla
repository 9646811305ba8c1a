----------------------------- MODULE ListProofs -----------------------------
(***************************************************************************)
(* What the loops over lists compute, for lists of any length.  The        *)
(* library's induction theorems take an operator, which no prover at hand  *)
(* can supply, so induction is done here with sets: a set of numbers that  *)
(* is not empty has a least one, and the least counterexample to a         *)
(* statement contradicts the step from a number to the next.               *)
(***************************************************************************)
EXTENDS Lists, SequencesExt, SequenceTheorems, WellFoundedInduction, TLAPS

Less == {p \in Nat \X Nat : p[1] < p[2]}

LEMMA Least ==
  ASSUME NEW T \in SUBSET Nat, T # {}
  PROVE  \E m \in T : \A k \in T : ~(k < m)
<1>1. IsWellFoundedOn(Less, Nat)
  BY NatLessThanWellFounded DEF OpToRel, Less
<1>2. PICK m \in T : \A k \in T : <<k, m>> \notin Less
  BY <1>1, WFMin
<1>3. \A k \in T : ~(k < m)
  BY <1>2 DEF Less
<1> QED
  BY <1>3

(* Induction up to a bound.                                                *)
LEMMA Climb ==
  ASSUME NEW n \in Nat, NEW G, 0 \in G, \A i \in 1 .. n : i - 1 \in G => i \in G
  PROVE  \A i \in 0 .. n : i \in G
<1> DEFINE T == {i \in 0 .. n : i \notin G}
<1> SUFFICES ASSUME T # {} PROVE FALSE
  OBVIOUS
<1>1. PICK m \in T : \A k \in T : ~(k < m)
  <2>1. T \in SUBSET Nat
    OBVIOUS
  <2> QED
    BY <2>1, Least
<1>2. m \in 1 .. n /\ m - 1 \in 0 .. n /\ m - 1 < m
  OBVIOUS
<1>3. m - 1 \in G
  BY <1>1, <1>2
<1> QED
  BY <1>2, <1>3

(* A loop has a result: it is the value of a function that is defined by   *)
(* recursion over the passes.                                              *)
Loops(X, x0, n, pass) ==
  \E f \in [0 .. n -> X] : f[0] = x0 /\ \A i \in 1 .. n : f[i] = pass[<<i, f[i - 1]>>]

LEMMA LoopIsDefined ==
  ASSUME NEW X, NEW x0 \in X, NEW n \in Nat, NEW pass \in [(1 .. n) \X X -> X]
  PROVE  Loops(X, x0, n, pass)
<1> DEFINE Done(m) == \E f \in [0 .. m -> X] :
                        f[0] = x0 /\ \A i \in 1 .. m : f[i] = pass[<<i, f[i - 1]>>]
           G == {m \in 0 .. n : Done(m)}
<1>1. 0 \in G
  <2> DEFINE f == [i \in 0 .. 0 |-> x0]
  <2>1. f \in [0 .. 0 -> X] /\ f[0] = x0 /\ \A i \in 1 .. 0 : f[i] = pass[<<i, f[i - 1]>>]
    OBVIOUS
  <2> HIDE DEF f
  <2>2. Done(0)
    BY <2>1
  <2> QED
    BY <2>2
<1>2. ASSUME NEW m \in 1 .. n, m - 1 \in G PROVE m \in G
  <2>1. PICK f \in [0 .. m - 1 -> X] :
          f[0] = x0 /\ \A i \in 1 .. m - 1 : f[i] = pass[<<i, f[i - 1]>>]
    BY <1>2
  <2> DEFINE g == [i \in 0 .. m |-> IF i = m THEN pass[<<m, f[m - 1]>>] ELSE f[i]]
  <2>2. f[m - 1] \in X /\ pass[<<m, f[m - 1]>>] \in X
    BY <2>1
  <2>3. g \in [0 .. m -> X] /\ g[0] = x0 /\ g[m] = pass[<<m, f[m - 1]>>]
        /\ \A i \in 0 .. m - 1 : g[i] = f[i]
    BY <2>1, <2>2
  <2> HIDE DEF g
  <2>4. ASSUME NEW i \in 1 .. m PROVE g[i] = pass[<<i, g[i - 1]>>]
    <3>1. CASE i = m
      <4>1. m - 1 \in 0 .. m - 1
        OBVIOUS
      <4> QED
        BY <2>3, <3>1, <4>1
    <3>2. CASE i # m
      <4>1. i \in 1 .. m - 1 /\ i - 1 \in 0 .. m - 1 /\ i \in 0 .. m - 1
        BY <3>2
      <4> QED
        BY <2>1, <2>3, <4>1
    <3> QED
      BY <3>1, <3>2
  <2>5. Done(m)
    BY <2>3, <2>4
  <2> QED
    BY <2>5
<1> HIDE DEF G
<1>3. \A m \in 0 .. n : m \in G
  BY <1>1, <1>2, Climb
<1>4. n \in G
  BY <1>3
<1> QED
  BY <1>4 DEF G, Loops

-----------------------------------------------------------------------------
(* Only                                                                    *)

LEMMA KeptPasses ==
  ASSUME NEW S, NEW s \in Seq(S), NEW T
  PROVE  /\ Kept(s, T) \in [0 .. Len(s) -> Seq(S)]
         /\ Kept(s, T)[0] = <<>>
         /\ \A i \in 1 .. Len(s) :
              Kept(s, T)[i] = IF s[i] \in T THEN Append(Kept(s, T)[i - 1], s[i])
                                            ELSE Kept(s, T)[i - 1]
<1> DEFINE n == Len(s)
           pass == [p \in (1 .. n) \X Seq(S) |-> IF s[p[1]] \in T THEN Append(p[2], s[p[1]]) ELSE p[2]]
           Rec(f) == [i \in 0 .. n |-> IF i = 0 THEN <<>>
                        ELSE IF s[i] \in T THEN Append(f[i - 1], s[i]) ELSE f[i - 1]]
           empty == <<>>
<1>1. n \in Nat /\ empty \in Seq(S) /\ \A i \in 1 .. n : s[i] \in S
  OBVIOUS
<1>2. pass \in [(1 .. n) \X Seq(S) -> Seq(S)]
  BY <1>1
<1>3. \A i \in 1 .. n, q \in Seq(S) : pass[<<i, q>>] = IF s[i] \in T THEN Append(q, s[i]) ELSE q
  OBVIOUS
<1> HIDE DEF pass
<1>4. PICK f \in [0 .. n -> Seq(S)] :
        f[0] = empty /\ \A i \in 1 .. n : f[i] = pass[<<i, f[i - 1]>>]
  <2> DEFINE X == Seq(S)
  <2>1. n \in Nat
    BY <1>1
  <2>4. empty \in X
    BY <1>1
  <2>3. pass \in [(1 .. n) \X X -> X]
    BY <1>2
  <2> HIDE DEF n, empty, X
  <2>2. Loops(X, empty, n, pass)
    BY <2>1, <2>3, <2>4, LoopIsDefined
  <2> QED
    BY <2>2 DEF X, Loops
<1>5. ASSUME NEW i \in 1 .. n
      PROVE  f[i - 1] \in Seq(S)
             /\ f[i] = IF s[i] \in T THEN Append(f[i - 1], s[i]) ELSE f[i - 1]
  <2>1. i - 1 \in 0 .. n
    BY <1>1
  <2>2. f[i - 1] \in Seq(S)
    BY <1>4, <2>1
  <2> QED
    BY <1>3, <1>4, <2>2
<1>6. f = Rec(f)
  <2>1. ASSUME NEW i \in 0 .. n PROVE f[i] = Rec(f)[i]
    <3>1. CASE i = 0
      BY <1>4, <3>1
    <3>2. CASE i # 0
      <4>1. i \in 1 .. n
        BY <3>2, <1>1
      <4> QED
        BY <1>5, <3>2, <4>1
    <3> QED
      BY <3>1, <3>2
  <2>2. f = [i \in 0 .. n |-> f[i]] /\ Rec(f) = [i \in 0 .. n |-> Rec(f)[i]]
    BY <1>4
  <2> HIDE DEF Rec
  <2> QED
    BY <2>1, <2>2
<1>7. Kept(s, T) = CHOOSE g : g = Rec(g)
  BY DEF Kept
<1>8. Kept(s, T) = Rec(Kept(s, T))
  <2> HIDE DEF Rec
  <2> QED
    BY <1>6, <1>7
<1> QED
  OBVIOUS

LEMMA OnlyIsTyped ==
  ASSUME NEW S, NEW s \in Seq(S), NEW T
  PROVE  Only(s, T) \in Seq(S) /\ Len(Only(s, T)) <= Len(s)
<1> DEFINE n == Len(s)
           k == Kept(s, T)
           G == {i \in 0 .. n : Len(k[i]) <= i}
<1>1. n \in Nat /\ \A i \in 1 .. n : s[i] \in S
  OBVIOUS
<1>2. /\ k \in [0 .. n -> Seq(S)] /\ k[0] = <<>>
      /\ \A i \in 1 .. n : k[i] = IF s[i] \in T THEN Append(k[i - 1], s[i]) ELSE k[i - 1]
  BY KeptPasses
<1>3. Only(s, T) = k[n]
  BY DEF Only
<1> HIDE DEF n, k
<1>4. 0 \in G
  BY <1>1, <1>2
<1>5. ASSUME NEW i \in 1 .. n, i - 1 \in G PROVE i \in G
  <2>1. k[i - 1] \in Seq(S) /\ Len(k[i - 1]) <= i - 1 /\ s[i] \in S
    BY <1>1, <1>2, <1>5
  <2>2. k[i] = Append(k[i - 1], s[i]) \/ k[i] = k[i - 1]
    BY <1>2
  <2>3. Len(Append(k[i - 1], s[i])) = Len(k[i - 1]) + 1 /\ Len(k[i - 1]) \in Nat
    BY <2>1
  <2> QED
    BY <2>1, <2>2, <2>3
<1>6. \A i \in 0 .. n : i \in G
  <2> HIDE DEF G
  <2> QED
    BY <1>1, <1>4, <1>5, Climb
<1>7. n \in 0 .. n
  BY <1>1
<1> QED
  BY <1>2, <1>3, <1>6, <1>7 DEF n

(* out consists of the members of T among the first m of s, in their order.*)
KeepsAt(out, s, T, m, place) ==
  /\ place \in [1 .. Len(out) -> 1 .. m]
  /\ \A i, j \in 1 .. Len(out) : i < j => place[i] < place[j]
  /\ \A i \in 1 .. Len(out) : out[i] = s[place[i]] /\ out[i] \in T
  /\ \A j \in 1 .. m : s[j] \in T => \E i \in 1 .. Len(out) : place[i] = j

Keeps(out, s, T, m) == \E place : KeepsAt(out, s, T, m, place)

LEMMA OnlyKeeps ==
  ASSUME NEW S, NEW s \in Seq(S), NEW T
  PROVE  Keeps(Only(s, T), s, T, Len(s))
<1> DEFINE n == Len(s)
           k == Kept(s, T)
           G == {i \in 0 .. n : Keeps(k[i], s, T, i)}
<1>1. n \in Nat /\ \A i \in 1 .. n : s[i] \in S
  OBVIOUS
<1>2. /\ k \in [0 .. n -> Seq(S)] /\ k[0] = <<>>
      /\ \A i \in 1 .. n : k[i] = IF s[i] \in T THEN Append(k[i - 1], s[i]) ELSE k[i - 1]
  BY KeptPasses
<1>3. Only(s, T) = k[n]
  BY DEF Only
<1> HIDE DEF n, k
<1>4. 0 \in G
  <2>1. Len(k[0]) = 0 /\ k[0] = <<>>
    BY <1>2
  <2> DEFINE place == [i \in 1 .. 0 |-> 1]
  <2>2. place \in [1 .. Len(k[0]) -> 1 .. 0]
    BY <2>1
  <2> HIDE DEF place
  <2>4. KeepsAt(k[0], s, T, 0, place)
    BY <2>1, <2>2 DEF KeepsAt
  <2>3. Keeps(k[0], s, T, 0)
    BY <2>4 DEF Keeps
  <2> QED
    BY <1>1, <2>3
<1>5. ASSUME NEW i \in 1 .. n, i - 1 \in G PROVE i \in G
  <2> DEFINE out == k[i - 1]
             l == Len(out)
  <2>1. out \in Seq(S) /\ l \in Nat /\ s[i] \in S /\ Keeps(out, s, T, i - 1)
    BY <1>1, <1>2, <1>5
  <2>2. PICK place :
          /\ place \in [1 .. l -> 1 .. i - 1]
          /\ \A a, b \in 1 .. l : a < b => place[a] < place[b]
          /\ \A a \in 1 .. l : out[a] = s[place[a]] /\ out[a] \in T
          /\ \A j \in 1 .. i - 1 : s[j] \in T => \E a \in 1 .. l : place[a] = j
    BY <2>1 DEF Keeps, KeepsAt
  <2>3. k[i] = IF s[i] \in T THEN Append(out, s[i]) ELSE out
    BY <1>2
  <2> HIDE DEF out, l
  <2>4. CASE s[i] \in T
    <3> DEFINE new == Append(out, s[i])
               at == [a \in 1 .. l + 1 |-> IF a = l + 1 THEN i ELSE place[a]]
    <3>1. Len(new) = l + 1 /\ new[l + 1] = s[i] /\ \A a \in 1 .. l : new[a] = out[a]
      BY <2>1 DEF l
    <3>2. /\ at \in [1 .. l + 1 -> 1 .. i] /\ at[l + 1] = i
          /\ \A a \in 1 .. l : at[a] = place[a] /\ at[a] < i
      BY <2>1, <2>2
    <3> HIDE DEF new, at
    <3>3. \A a, b \in 1 .. l + 1 : a < b => at[a] < at[b]
      <4> SUFFICES ASSUME NEW a \in 1 .. l + 1, NEW b \in 1 .. l + 1, a < b
                   PROVE  at[a] < at[b]
        OBVIOUS
      <4>1. a \in 1 .. l
        BY <2>1
      <4>2. CASE b = l + 1
        BY <3>2, <4>1, <4>2
      <4>3. CASE b # l + 1
        <5>1. b \in 1 .. l
          BY <2>1, <4>3
        <5> QED
          BY <2>2, <3>2, <4>1, <5>1
      <4> QED
        BY <4>2, <4>3
    <3>4. \A a \in 1 .. l + 1 : new[a] = s[at[a]] /\ new[a] \in T
      <4> SUFFICES ASSUME NEW a \in 1 .. l + 1 PROVE new[a] = s[at[a]] /\ new[a] \in T
        OBVIOUS
      <4>1. CASE a = l + 1
        BY <2>4, <3>1, <3>2, <4>1
      <4>2. CASE a # l + 1
        <5>1. a \in 1 .. l
          BY <2>1, <4>2
        <5> QED
          BY <2>2, <3>1, <3>2, <5>1
      <4> QED
        BY <4>1, <4>2
    <3>5. \A j \in 1 .. i : s[j] \in T => \E a \in 1 .. l + 1 : at[a] = j
      <4> SUFFICES ASSUME NEW j \in 1 .. i, s[j] \in T
                   PROVE  \E a \in 1 .. l + 1 : at[a] = j
        OBVIOUS
      <4>1. CASE j = i
        <5>1. l + 1 \in 1 .. l + 1
          BY <2>1
        <5> QED
          BY <3>2, <4>1, <5>1
      <4>2. CASE j # i
        <5>1. j \in 1 .. i - 1
          BY <4>2
        <5>2. PICK a \in 1 .. l : place[a] = j
          BY <2>2, <5>1
        <5>3. a \in 1 .. l + 1 /\ at[a] = j
          BY <2>1, <3>2, <5>2
        <5> QED
          BY <5>3
      <4> QED
        BY <4>1, <4>2
    <3>6. KeepsAt(new, s, T, i, at)
      BY <3>1, <3>2, <3>3, <3>4, <3>5 DEF KeepsAt
    <3>7. Keeps(new, s, T, i) /\ k[i] = new
      BY <2>3, <2>4, <3>6 DEF new, Keeps
    <3> QED
      BY <1>1, <3>7
  <2>5. CASE s[i] \notin T
    <3>1. place \in [1 .. l -> 1 .. i]
      BY <2>2
    <3>2. \A j \in 1 .. i : s[j] \in T => j \in 1 .. i - 1
      BY <2>5
    <3>3. KeepsAt(out, s, T, i, place)
      BY <2>2, <3>1, <3>2 DEF KeepsAt, l
    <3>4. Keeps(out, s, T, i) /\ k[i] = out
      BY <2>3, <2>5, <3>3 DEF Keeps
    <3> QED
      BY <1>1, <3>4
  <2> QED
    BY <2>4, <2>5
<1>6. \A i \in 0 .. n : i \in G
  <2> HIDE DEF G
  <2> QED
    BY <1>1, <1>4, <1>5, Climb
<1>7. n \in 0 .. n
  BY <1>1
<1> QED
  BY <1>3, <1>6, <1>7 DEF n

(* Loops over lists that agree on what is kept keep the same.              *)
LEMMA OnlyAgree ==
  ASSUME NEW S, NEW s \in Seq(S), NEW t \in Seq(S), NEW T,
         NEW m \in 0 .. Len(s), m <= Len(t), \A i \in 1 .. m : s[i] = t[i]
  PROVE  Kept(s, T)[m] = Kept(t, T)[m]
<1> DEFINE k == Kept(s, T)
           l == Kept(t, T)
           G == {i \in 0 .. m : k[i] = l[i]}
<1>0. Len(s) \in Nat /\ Len(t) \in Nat /\ m \in Nat
  OBVIOUS
<1>1. k[0] = <<>> /\ l[0] = <<>>
  BY KeptPasses
<1>2. \A i \in 1 .. Len(s) : k[i] = IF s[i] \in T THEN Append(k[i - 1], s[i]) ELSE k[i - 1]
  BY KeptPasses
<1>3. \A i \in 1 .. Len(t) : l[i] = IF t[i] \in T THEN Append(l[i - 1], t[i]) ELSE l[i - 1]
  BY KeptPasses
<1> HIDE DEF k, l
<1>4. 0 \in G
  BY <1>0, <1>1
<1>5. ASSUME NEW i \in 1 .. m, i - 1 \in G PROVE i \in G
  <2>1. i \in 1 .. Len(s) /\ i \in 1 .. Len(t) /\ s[i] = t[i] /\ k[i - 1] = l[i - 1]
    BY <1>0, <1>5
  <2>2. k[i] = l[i]
    BY <1>2, <1>3, <2>1
  <2> QED
    BY <2>2
<1>6. \A i \in 0 .. m : i \in G
  <2> HIDE DEF G
  <2> QED
    BY <1>0, <1>4, <1>5, Climb
<1>7. m \in 0 .. m
  BY <1>0
<1> QED
  BY <1>6, <1>7 DEF k, l

LEMMA OnlyAppend ==
  ASSUME NEW S, NEW s \in Seq(S), NEW x \in S, NEW T
  PROVE  Only(Append(s, x), T) = IF x \in T THEN Append(Only(s, T), x) ELSE Only(s, T)
<1> DEFINE n == Len(s)
           t == Append(s, x)
<1>1. n \in Nat /\ t \in Seq(S) /\ Len(t) = n + 1 /\ t[n + 1] = x
      /\ \A i \in 1 .. n : s[i] = t[i]
  OBVIOUS
<1>2. n \in 0 .. Len(s) /\ n <= Len(t) /\ n + 1 \in 1 .. Len(t) /\ (n + 1) - 1 = n
  BY <1>1
<1> HIDE DEF t, n
<1>3. Kept(s, T)[n] = Kept(t, T)[n]
  BY <1>1, <1>2, OnlyAgree
<1>4. Kept(t, T)[n + 1] = IF x \in T THEN Append(Kept(t, T)[n], x) ELSE Kept(t, T)[n]
  <2>1. \A i \in 1 .. Len(t) :
          Kept(t, T)[i] = IF t[i] \in T THEN Append(Kept(t, T)[i - 1], t[i])
                                        ELSE Kept(t, T)[i - 1]
    BY <1>1, KeptPasses, SMTT(30)
  <2> QED
    BY <1>1, <1>2, <2>1
<1> QED
  BY <1>1, <1>3, <1>4 DEF Only, t, n

(* Nothing is lost if everything is wanted.                                *)
LEMMA OnlyAll ==
  ASSUME NEW S, NEW s \in Seq(S), NEW T, \A i \in 1 .. Len(s) : s[i] \in T
  PROVE  Only(s, T) = s
<1> DEFINE n == Len(s)
           k == Kept(s, T)
           G == {i \in 0 .. n : Len(k[i]) = i /\ \A j \in 1 .. i : k[i][j] = s[j]}
<1>1. n \in Nat /\ \A i \in 1 .. n : s[i] \in S
  OBVIOUS
<1>2. /\ k \in [0 .. n -> Seq(S)] /\ k[0] = <<>>
      /\ \A i \in 1 .. n : k[i] = Append(k[i - 1], s[i])
  BY KeptPasses
<1>3. Only(s, T) = k[n]
  BY DEF Only
<1> HIDE DEF n, k
<1>4. 0 \in G
  BY <1>1, <1>2
<1>5. ASSUME NEW i \in 1 .. n, i - 1 \in G PROVE i \in G
  <2> DEFINE q == k[i - 1]
  <2>1. q \in Seq(S) /\ Len(q) = i - 1 /\ s[i] \in S /\ \A j \in 1 .. i - 1 : q[j] = s[j]
    BY <1>1, <1>2, <1>5
  <2>2. k[i] = Append(q, s[i])
    BY <1>2
  <2> HIDE DEF q
  <2>3. Len(k[i]) = i /\ k[i][i] = s[i] /\ \A j \in 1 .. i - 1 : k[i][j] = q[j]
    BY <2>1, <2>2
  <2>4. \A j \in 1 .. i : k[i][j] = s[j]
    BY <2>1, <2>3
  <2> QED
    BY <2>3, <2>4
<1>6. \A i \in 0 .. n : i \in G
  <2> HIDE DEF G
  <2> QED
    BY <1>1, <1>4, <1>5, Climb
<1>7. k[n] \in Seq(S) /\ Len(k[n]) = n /\ \A j \in 1 .. n : k[n][j] = s[j]
  BY <1>1, <1>2, <1>6
<1> QED
  BY <1>3, <1>7 DEF n

(* What is kept is wanted, and stays when it is looked at again.           *)
LEMMA OnlyWanted ==
  ASSUME NEW S, NEW s \in Seq(S), NEW T
  PROVE  \A i \in 1 .. Len(Only(s, T)) : Only(s, T)[i] \in T
BY OnlyKeeps DEF Keeps, KeepsAt

LEMMA OnlyAgain ==
  ASSUME NEW S, NEW s \in Seq(S), NEW T
  PROVE  Only(Only(s, T), T) = Only(s, T)
BY OnlyIsTyped, OnlyWanted, OnlyAll

LEMMA OnlyMembers ==
  ASSUME NEW S, NEW s \in Seq(S), NEW T
  PROVE  ToSet(Only(s, T)) = ToSet(s) \cap T
<1> DEFINE out == Only(s, T)
<1>1. out \in Seq(S) /\ DOMAIN out = 1 .. Len(out) /\ DOMAIN s = 1 .. Len(s)
  BY OnlyIsTyped
<1>2. PICK place :
        /\ place \in [1 .. Len(out) -> 1 .. Len(s)]
        /\ \A i \in 1 .. Len(out) : out[i] = s[place[i]] /\ out[i] \in T
        /\ \A j \in 1 .. Len(s) : s[j] \in T => \E i \in 1 .. Len(out) : place[i] = j
  <2>1. PICK place : KeepsAt(out, s, T, Len(s), place)
    BY OnlyKeeps DEF Keeps
  <2> HIDE DEF out
  <2> QED
    BY <2>1 DEF KeepsAt
<1> HIDE DEF out
<1>3. ASSUME NEW x \in ToSet(out) PROVE x \in ToSet(s) \cap T
  BY <1>1, <1>2 DEF ToSet
<1>4. ASSUME NEW x \in ToSet(s) \cap T PROVE x \in ToSet(out)
  <2>1. PICK j \in 1 .. Len(s) : s[j] = x
    BY <1>1 DEF ToSet
  <2>2. PICK i \in 1 .. Len(out) : place[i] = j
    BY <1>2, <2>1
  <2> QED
    BY <1>1, <1>2, <2>1, <2>2 DEF ToSet
<1>5. ToSet(out) = ToSet(s) \cap T
  BY <1>3, <1>4
<1> QED
  BY <1>5 DEF out

-----------------------------------------------------------------------------
(* Lists of whatever                                                       *)

LEMMA TypedList ==
  ASSUME NEW S, NEW s \in Seq(S)
  PROVE  IsList(s)
<1>1. s \in [1 .. Len(s) -> S] /\ Len(s) \in Nat /\ DOMAIN s = 1 .. Len(s)
  OBVIOUS
<1>2. s \in [1 .. Len(s) -> {s[i] : i \in DOMAIN s}]
  BY <1>1
<1> QED
  BY <1>1, <1>2, SeqDef DEF IsList

LEMMA ListFacts ==
  ASSUME NEW s, IsList(s)
  PROVE  /\ s \in Seq(ToSet(s)) /\ Len(s) \in Nat /\ DOMAIN s = 1 .. Len(s)
         /\ ToSet(s) = {s[i] : i \in 1 .. Len(s)}
BY DEF IsList, ToSet

LEMMA NoList == IsList(<<>>) /\ ToSet(<<>>) = {} /\ Len(<<>>) = 0
<1>1. <<>> \in Seq({})
  OBVIOUS
<1>2. IsList(<<>>)
  BY <1>1, TypedList
<1> QED
  BY <1>2 DEF ToSet

LEMMA ListAppend ==
  ASSUME NEW s, IsList(s), NEW x
  PROVE  /\ IsList(Append(s, x)) /\ ToSet(Append(s, x)) = ToSet(s) \cup {x}
         /\ Len(Append(s, x)) = Len(s) + 1 /\ Append(s, x)[Len(s) + 1] = x
         /\ \A i \in 1 .. Len(s) : Append(s, x)[i] = s[i]
<1> DEFINE t == Append(s, x)
           S == ToSet(s) \cup {x}
           n == Len(s)
<1>1. s \in Seq(S) /\ x \in S /\ n \in Nat /\ ToSet(s) = {s[i] : i \in 1 .. n}
  BY ListFacts
<1> HIDE DEF S
<1>2. /\ t \in Seq(S) /\ Len(t) = n + 1 /\ t[n + 1] = x
      /\ \A i \in 1 .. n : t[i] = s[i]
  BY <1>1
<1> HIDE DEF t, n
<1>3. IsList(t) /\ ToSet(t) = {t[i] : i \in 1 .. n + 1}
  <2>1. IsList(t)
    BY <1>2, TypedList
  <2> QED
    BY <1>2, <2>1, ListFacts
<1>4. {t[i] : i \in 1 .. n + 1} = {s[i] : i \in 1 .. n} \cup {x}
  <2>1. ASSUME NEW i \in 1 .. n + 1 PROVE t[i] \in {s[j] : j \in 1 .. n} \cup {x}
    <3>1. CASE i = n + 1
      BY <1>2, <3>1
    <3>2. CASE i # n + 1
      <4>1. i \in 1 .. n
        BY <1>1, <3>2
      <4> QED
        BY <1>2, <4>1
    <3> QED
      BY <3>1, <3>2
  <2>2. ASSUME NEW i \in 1 .. n PROVE s[i] \in {t[j] : j \in 1 .. n + 1}
    <3>1. i \in 1 .. n + 1 /\ t[i] = s[i]
      BY <1>1, <1>2
    <3> QED
      BY <3>1
  <2>3. x \in {t[j] : j \in 1 .. n + 1}
    <3>1. n + 1 \in 1 .. n + 1
      BY <1>1
    <3> QED
      BY <1>2, <3>1
  <2> QED
    BY <2>1, <2>2, <2>3
<1> QED
  BY <1>1, <1>2, <1>3, <1>4 DEF t, n

LEMMA ListOnly ==
  ASSUME NEW s, IsList(s), NEW T
  PROVE  /\ IsList(Only(s, T)) /\ ToSet(Only(s, T)) = ToSet(s) \cap T
         /\ Len(Only(s, T)) <= Len(s) /\ Keeps(Only(s, T), s, T, Len(s))
<1>1. s \in Seq(ToSet(s))
  BY ListFacts
<1>2. Only(s, T) \in Seq(ToSet(s))
  BY <1>1, OnlyIsTyped
<1> QED
  BY <1>1, <1>2, TypedList, OnlyIsTyped, OnlyMembers, OnlyKeeps

(* The first member put in its place.                                      *)
LEMMA ListFirst ==
  ASSUME NEW s, IsList(s), NEW x
  PROVE  /\ s # <<>> => IsList(Tail(s))
         /\ IsList(<<x>> \o s)
<1> DEFINE S == ToSet(s) \cup {x}
<1>1. s \in Seq(S) /\ x \in S
  BY ListFacts
<1> HIDE DEF S
<1>2. s # <<>> => Tail(s) \in Seq(S)
  BY <1>1
<1>3. <<x>> \o s \in Seq(S)
  BY <1>1
<1> QED
  BY <1>2, <1>3, TypedList

-----------------------------------------------------------------------------
(* FlattenSeq                                                              *)

(* A function whose domain is that of a list.                              *)
LEMMA ListOfFunction ==
  ASSUME NEW n \in Nat, NEW f, f = [i \in 1 .. n |-> f[i]]
  PROVE  IsList(f) /\ Len(f) = n /\ DOMAIN f = 1 .. n
<1>1. f \in [1 .. n -> ToSet(f)] /\ DOMAIN f = 1 .. n
  BY DEF ToSet
<1>2. f \in Seq(ToSet(f))
  BY <1>1, SeqDef
<1>3. Len(f) = n
  BY <1>1, <1>2
<1> QED
  BY <1>1, <1>2, <1>3, TypedList

LEMMA ListFront ==
  ASSUME NEW s, IsList(s), NEW t, IsList(t), Len(s) = Len(t) + 1,
         \A i \in 1 .. Len(t) : s[i] = t[i]
  PROVE  Front(s) = t
<1> DEFINE n == Len(t)
           S == ToSet(t)
<1>1. /\ n \in Nat /\ Len(s) = n + 1 /\ DOMAIN t = 1 .. n /\ t \in Seq(S)
      /\ \A i \in 1 .. n : s[i] = t[i] /\ t[i] \in S
  BY ListFacts
<1> HIDE DEF n, S
<1>2. Front(s) = SubSeq(s, 1, n)
  BY <1>1 DEF Front
<1>3. /\ SubSeq(s, 1, n) \in Seq(S)
      /\ Len(SubSeq(s, 1, n)) = IF 1 <= n THEN n - 1 + 1 ELSE 0
      /\ \A i \in 1 .. n - 1 + 1 : SubSeq(s, 1, n)[i] = s[1 + i - 1]
  BY <1>1, SubSeqProperties
<1>4. Len(SubSeq(s, 1, n)) = n /\ \A i \in 1 .. n : SubSeq(s, 1, n)[i] = t[i]
  BY <1>1, <1>3
<1> HIDE DEF Front
<1>5. SubSeq(s, 1, n) = t
  BY <1>1, <1>3, <1>4, SeqEqual
<1> QED
  BY <1>2, <1>5

LEMMA ListJoin ==
  ASSUME NEW s, IsList(s), NEW t, IsList(t)
  PROVE  IsList(s \o t) /\ ToSet(s \o t) = ToSet(s) \cup ToSet(t)
<1> DEFINE S == ToSet(s) \cup ToSet(t)
           m == Len(s)
           n == Len(t)
           both == s \o t
<1>1. /\ s \in Seq(S) /\ t \in Seq(S) /\ m \in Nat /\ n \in Nat
      /\ ToSet(s) = {s[i] : i \in 1 .. m} /\ ToSet(t) = {t[i] : i \in 1 .. n}
  BY ListFacts, SMTT(30)
<1>2. both \in Seq(S) /\ Len(both) = m + n
  BY <1>1
<1>3. /\ \A i \in 1 .. m : both[i] = s[i]
      /\ \A i \in 1 .. n : both[m + i] = t[i]
  BY <1>1
<1> HIDE DEF both, m, n, S
<1>4. IsList(both)
  BY <1>2, TypedList
<1>5. ToSet(both) \subseteq S
  BY <1>2 DEF ToSet
<1>6. \A i \in 1 .. m : i \in 1 .. m + n
  BY <1>1
<1>7. \A i \in 1 .. n : m + i \in 1 .. m + n
  BY <1>1
<1>8. DOMAIN both = 1 .. m + n
  BY <1>2
<1>9. S \subseteq ToSet(both)
  <2>1. ToSet(s) \subseteq ToSet(both)
    BY <1>1, <1>3, <1>6, <1>8 DEF ToSet
  <2>2. ToSet(t) \subseteq ToSet(both)
    <3>1. \A i \in 1 .. n : \E j \in DOMAIN both : both[j] = t[i]
      BY <1>3, <1>7, <1>8
    <3> QED
      BY <1>1, <3>1 DEF ToSet
  <2> QED
    BY <2>1, <2>2 DEF S
<1> QED
  BY <1>4, <1>5, <1>9 DEF both, S

(* What FlattenSeq has joined after each of the lists.                     *)
Joins(ss, flat) ==
  /\ flat[0] = <<>> /\ flat[Len(ss)] = FlattenSeq(ss)
  /\ \A i \in 1 .. Len(ss) : flat[i] = flat[i - 1] \o ss[i]

LEMMA FlatJoins ==
  ASSUME NEW S, NEW ss \in Seq(Seq(S))
  PROVE  \E flat : Joins(ss, flat)
<1> DEFINE n == Len(ss)
           X == Seq(S)
           pass == [p \in (1 .. n) \X X |-> p[2] \o ss[p[1]]]
           Rec(f) == [i \in 1 .. n |-> IF i = 1 THEN ss[i] ELSE f[i - 1] \o ss[i]]
           empty == <<>>
           flatten == CHOOSE f : f = Rec(f)
           flat == [i \in 0 .. n |-> IF i = 0 THEN empty ELSE flatten[i]]
<1>1. n \in Nat /\ empty \in X /\ (\A i \in 1 .. n : ss[i] \in X)
  OBVIOUS
<1>2. \A p, q \in X : p \o q \in X
  OBVIOUS
<1>3. \A q \in X : empty \o q = q
  OBVIOUS
<1>4. CASE n = 0
  <2> DEFINE none == [i \in {0} |-> empty]
  <2>1. none[0] = empty /\ FlattenSeq(ss) = empty
    BY <1>1, <1>4 DEF FlattenSeq
  <2> HIDE DEF none
  <2>2. Joins(ss, none)
    BY <1>4, <2>1 DEF Joins
  <2> QED
    BY <2>2
<1>5. CASE n # 0
  <2> HIDE DEF X, empty
  <2>1. pass \in [(1 .. n) \X X -> X]
    BY <1>1, <1>2
  <2>2. \A i \in 1 .. n, q \in X : pass[<<i, q>>] = q \o ss[i]
    OBVIOUS
  <2> HIDE DEF pass
  <2>3. Loops(X, empty, n, pass)
    <3> HIDE DEF n
    <3> QED
      BY <1>1, <2>1, LoopIsDefined
  <2>4. PICK f \in [0 .. n -> X] : f[0] = empty /\ \A i \in 1 .. n : f[i] = pass[<<i, f[i - 1]>>]
    BY <2>3 DEF Loops
  <2> DEFINE g == [i \in 1 .. n |-> f[i]]
  <2> HIDE DEF n
  <2>5. ASSUME NEW i \in 1 .. n PROVE g[i] = IF i = 1 THEN ss[i] ELSE g[i - 1] \o ss[i]
    <3>1. i - 1 \in 0 .. n /\ f[i - 1] \in X
      BY <1>1, <2>4
    <3>2. f[i] = f[i - 1] \o ss[i]
      BY <2>2, <2>4, <3>1
    <3>3. CASE i = 1
      <4>1. f[0] = empty /\ ss[1] \in X /\ f[1] = f[0] \o ss[1]
        BY <1>1, <2>4, <3>2, <3>3
      <4>2. f[1] = ss[1]
        BY <1>3, <4>1
      <4> QED
        BY <3>3, <4>2
    <3>4. CASE i # 1
      <4>1. i - 1 \in 1 .. n
        BY <1>1, <3>4
      <4> QED
        BY <3>2, <3>4, <4>1
    <3> QED
      BY <3>3, <3>4
  <2>6. g = Rec(g)
    <3> HIDE DEF g
    <3>1. g = [i \in 1 .. n |-> g[i]]
      BY DEF g
    <3> QED
      BY <2>5, <3>1
  <2>7. flatten = Rec(flatten)
    <3> HIDE DEF Rec, g
    <3> QED
      BY <2>6
  <2>8. \A i \in 1 .. n : flatten[i] = IF i = 1 THEN ss[i] ELSE flatten[i - 1] \o ss[i]
    BY <2>7
  <2>9. FlattenSeq(ss) = flatten[n]
    BY <1>5 DEF FlattenSeq, n
  <2> HIDE DEF flatten
  <2>10. n \in 1 .. n /\ n \in 0 .. n
    BY <1>1, <1>5
  <2>11. flat[0] = empty /\ \A i \in 1 .. n : flat[i] = flatten[i]
    BY <1>1
  <2> HIDE DEF flat
  <2>12. ASSUME NEW i \in 1 .. n PROVE flat[i] = flat[i - 1] \o ss[i]
    <3>1. CASE i = 1
      <4>1. flat[1] = ss[1] /\ ss[1] \in X /\ flat[i - 1] = empty
        BY <1>1, <2>8, <2>11, <3>1
      <4>2. ss[1] = empty \o ss[1]
        BY <1>3, <4>1
      <4> QED
        BY <3>1, <4>1, <4>2
    <3>2. CASE i # 1
      <4>1. i - 1 \in 1 .. n
        BY <1>1, <3>2
      <4> QED
        BY <2>8, <2>11, <3>2, <4>1
    <3> QED
      BY <3>1, <3>2
  <2>13. flat[n] = FlattenSeq(ss)
    BY <2>9, <2>10, <2>11
  <2>14. Joins(ss, flat)
    BY <2>11, <2>12, <2>13 DEF Joins, n, empty
  <2> QED
    BY <2>14
<1> QED
  BY <1>4, <1>5

LEMMA FlatIsTyped ==
  ASSUME NEW S, NEW ss \in Seq(Seq(S))
  PROVE  FlattenSeq(ss) \in Seq(S)
<1> DEFINE n == Len(ss)
<1>1. PICK flat : Joins(ss, flat)
  BY FlatJoins
<1> DEFINE G == {i \in 0 .. n : flat[i] \in Seq(S)}
<1>2. n \in Nat /\ \A i \in 1 .. n : ss[i] \in Seq(S)
  OBVIOUS
<1>3. \A i \in 0 .. n : i \in G
  <2>1. 0 \in G
    <3>1. flat[0] = <<>> /\ 0 \in 0 .. n
      BY <1>1, <1>2 DEF Joins
    <3>2. flat[0] \in Seq(S)
      BY <3>1
    <3> QED
      BY <3>1, <3>2
  <2>2. ASSUME NEW i \in 1 .. n, i - 1 \in G PROVE i \in G
    <3>1. flat[i] = flat[i - 1] \o ss[i] /\ flat[i - 1] \in Seq(S)
      BY <1>1, <2>2 DEF Joins
    <3>2. flat[i] \in Seq(S) /\ i \in 0 .. n
      BY <1>2, <3>1
    <3> QED
      BY <3>2
  <2> HIDE DEF G
  <2> QED
    BY <1>2, <2>1, <2>2, Climb
<1>4. flat[n] \in Seq(S)
  BY <1>2, <1>3
<1> QED
  BY <1>1, <1>4 DEF Joins, n
=============================================================================
