----------------------------- MODULE DataLemmas -----------------------------
(***************************************************************************)
(* Facts about the data that models are built from, whatever the program:  *)
(* least numbers and sets, sums over a finite set, and what is left of a   *)
(* list that elements are removed from.  What a recursive function gives   *)
(* is proved for the least argument that would violate it.                 *)
(***************************************************************************)
EXTENDS Integers, Functions, Lists, FiniteSetTheorems, WellFoundedInduction, TLAPS

\* Of some natural numbers, one is smallest.
LEMMA LeastNumber ==
  ASSUME NEW D \in SUBSET Nat, D # {}
  PROVE  \E n \in D : \A m \in D : n <= m
<1>1. IsWellFoundedOn(OpToRel(<, Nat), Nat)
  BY NatLessThanWellFounded
<1>2. PICK n \in D : \A m \in D : ~(<<m, n>> \in OpToRel(<, Nat))
  BY <1>1, WFMin, Zenon
<1>3. \A m \in D : ~(m < n)
  BY <1>2, Zenon DEF OpToRel
<1> QED
  BY <1>3

\* Of some subsets of a finite set, one is smallest.
LEMMA LeastSet ==
  ASSUME NEW S, IsFiniteSet(S), NEW B \in SUBSET SUBSET S, B # {}
  PROVE  \E T \in B : \A U \in B : Cardinality(T) <= Cardinality(U)
<1>1. \A T \in B : Cardinality(T) \in Nat
  BY FS_Subset, FS_CardinalityType
<1>2. PICK D : D = {Cardinality(T) : T \in B}
  OBVIOUS
<1>3. D \in SUBSET Nat /\ D # {}
  BY <1>1, <1>2
<1>4. PICK n \in D : \A m \in D : n <= m
  BY <1>3, LeastNumber
<1> QED
  BY <1>2, <1>4

-----------------------------------------------------------------------------
(* Sums.  The sum of a function over a finite set, as the community module *)
(* defines it, is the last value of a recursive function on the subsets;   *)
(* facts about it are proved for a smallest subset that violates them.     *)

One(T) == CHOOSE x \in T : TRUE

\* sum is the sum of f over each set in D.
Adds(sum, f, D) == sum = [T \in D |-> IF T = {} THEN 0 ELSE f[One(T)] + sum[T \ {One(T)}]]

\* Taking one element out of a subset of a finite set.
LEMMA OneLess ==
  ASSUME NEW S, IsFiniteSet(S), NEW T \in SUBSET S, T # {}
  PROVE  /\ One(T) \in T /\ T \ {One(T)} \in SUBSET S
         /\ Cardinality(T \ {One(T)}) = Cardinality(T) - 1
         /\ Cardinality(T) \in Nat /\ Cardinality(T \ {One(T)}) \in Nat
<1>1. IsFiniteSet(T) /\ Cardinality(T) \in Nat
  BY FS_Subset, FS_CardinalityType
<1>2. One(T) \in T
  BY DEF One
<1> QED
  BY <1>1, <1>2, FS_RemoveElement, FS_CardinalityType

\* There is such a function: if not for the sets of up to n elements, then not
\* for those of up to n - 1, and for the empty one there is.
LEMMA SumExists ==
  ASSUME NEW S, IsFiniteSet(S), NEW f
  PROVE  \E sum : Adds(sum, f, SUBSET S)
<1> DEFINE Up(n) == {T \in SUBSET S : Cardinality(T) <= n}
           B == {n \in Nat : ~\E sum : Adds(sum, f, Up(n))}
<1>1. \A T \in SUBSET S :
        IsFiniteSet(T) /\ Cardinality(T) \in Nat /\ Cardinality(T) <= Cardinality(S)
  BY FS_Subset, FS_CardinalityType
<1>2. B = {}
  <2> SUFFICES ASSUME B # {} PROVE FALSE
    OBVIOUS
  <2>1. PICK n \in B : \A m \in B : n <= m
    <3>1. PICK D : D = B
      OBVIOUS
    <3>2. D \in SUBSET Nat /\ D # {}
      BY <3>1
    <3> HIDE DEF B
    <3> QED
      BY <3>1, <3>2, LeastNumber
  <2>2. CASE n = 0
    <3>1. Up(0) = {{}}
      BY <1>1, FS_EmptySet
    <3>2. Adds([T \in {{}} |-> 0], f, {{}})
      BY DEF Adds
    <3> QED
      BY <2>1, <2>2, <3>1, <3>2
  <2>3. CASE n # 0
    <3>1. n \in Nat /\ ~\E sum : Adds(sum, f, Up(n))
      BY <2>1
    <3>2. n - 1 \in Nat /\ n - 1 \notin B
      <4>1. n - 1 \in Nat /\ ~(n <= n - 1)
        BY <3>1, <2>3
      <4> HIDE DEF B
      <4> QED
        BY <4>1, <2>1
    <3>3. PICK g : Adds(g, f, Up(n - 1))
      BY <3>2
    <3> DEFINE h == [T \in Up(n) |-> IF T = {} THEN 0 ELSE f[One(T)] + g[T \ {One(T)}]]
    <3>4. \A T \in Up(n - 1) : h[T] = g[T]
      <4>1. \A T \in Up(n - 1) : T \in Up(n)
        BY <1>1, <3>1
      <4>2. \A T \in Up(n - 1) : g[T] = IF T = {} THEN 0 ELSE f[One(T)] + g[T \ {One(T)}]
        BY <3>3 DEF Adds
      <4> HIDE DEF Up
      <4> QED
        BY <4>1, <4>2
    <3>5. \A T \in Up(n) : T # {} => T \ {One(T)} \in Up(n - 1)
      BY OneLess, <3>1
    <3>6. h = [T \in Up(n) |-> IF T = {} THEN 0 ELSE f[One(T)] + h[T \ {One(T)}]]
      <4> HIDE DEF Up
      <4> QED
        BY <3>4, <3>5
    <3>7. Adds(h, f, Up(n))
      <4> HIDE DEF h, Up
      <4> QED
        BY <3>6 DEF Adds
    <3> QED
      BY <3>1, <3>7
  <2> QED
    BY <2>2, <2>3
<1>3. Up(Cardinality(S)) = SUBSET S /\ Cardinality(S) \in Nat
  BY <1>1
<1> QED
  BY <1>2, <1>3

LEMMA SumAdds ==
  ASSUME NEW S, IsFiniteSet(S), NEW f
  PROVE  \E sum : Adds(sum, f, SUBSET S) /\ SumFunctionOnSet(f, S) = sum[S]
<1> DEFINE iter == CHOOSE iter : Adds(iter, f, SUBSET S)
<1>1. Adds(iter, f, SUBSET S)
  BY SumExists
<1>2. SumFunctionOnSet(f, S) = iter[S]
  BY DEF SumFunctionOnSet, FoldFunctionOnSet, MapThenFoldSet, Adds, One
<1> QED
  BY <1>1, <1>2

\* A sum of integers is one, and it is 0 if all of them are.
LEMMA SumType ==
  ASSUME NEW S, IsFiniteSet(S), NEW f \in [S -> Int]
  PROVE  SumFunction(f) \in Int /\ ((\A x \in S : f[x] = 0) => SumFunction(f) = 0)
<1> DEFINE Ok(n) == n \in Int /\ ((\A x \in S : f[x] = 0) => n = 0)
<1>1. PICK sum : Adds(sum, f, SUBSET S) /\ SumFunction(f) = sum[S]
  BY SumAdds DEF SumFunction
<1>2. \A T \in SUBSET S : sum[T] = IF T = {} THEN 0 ELSE f[One(T)] + sum[T \ {One(T)}]
  BY <1>1 DEF Adds
<1>3. PICK B : B = {T \in SUBSET S : ~Ok(sum[T])}
  OBVIOUS
<1>4. ASSUME B # {} PROVE FALSE
  <2>1. B \in SUBSET SUBSET S
    BY <1>3
  <2>2. PICK T \in B : \A U \in B : Cardinality(T) <= Cardinality(U)
    BY <1>4, <2>1, LeastSet
  <2>3. T \in SUBSET S /\ ~Ok(sum[T])
    BY <1>3, <2>2
  <2>4. T # {}
    <3>1. {} \in SUBSET S /\ sum[{}] = 0
      BY <1>2
    <3> QED
      BY <2>3, <3>1
  <2>5. /\ One(T) \in S /\ T \ {One(T)} \in SUBSET S /\ T \ {One(T)} \notin B
    BY <2>2, <2>3, <2>4, OneLess
  <2>6. sum[T] = f[One(T)] + sum[T \ {One(T)}]
    BY <1>2, <2>3, <2>4
  <2>7. Ok(sum[T \ {One(T)}])
    BY <1>3, <2>5
  <2>8. f[One(T)] \in Int
    BY <2>5
  <2> QED
    BY <2>3, <2>5, <2>6, <2>7, <2>8
<1> QED
  BY <1>1, <1>3, <1>4

\* Changing one term of a sum changes it by as much.
LEMMA SumChanges ==
  ASSUME NEW S, IsFiniteSet(S), NEW f \in [S -> Int], NEW g \in [S -> Int], NEW x \in S,
         \A y \in S \ {x} : g[y] = f[y]
  PROVE  SumFunction(g) = SumFunction(f) + g[x] - f[x]
<1> DEFINE Ok(T, m, n) == m \in Int /\ n = m + IF x \in T THEN g[x] - f[x] ELSE 0
<1>1. PICK sum : Adds(sum, f, SUBSET S) /\ SumFunction(f) = sum[S]
  BY SumAdds DEF SumFunction
<1>2. PICK add : Adds(add, g, SUBSET S) /\ SumFunction(g) = add[S]
  BY SumAdds DEF SumFunction
<1>3. \A T \in SUBSET S : /\ sum[T] = IF T = {} THEN 0 ELSE f[One(T)] + sum[T \ {One(T)}]
                          /\ add[T] = IF T = {} THEN 0 ELSE g[One(T)] + add[T \ {One(T)}]
  BY <1>1, <1>2 DEF Adds
<1>4. PICK B : B = {T \in SUBSET S : ~Ok(T, sum[T], add[T])}
  OBVIOUS
<1>5. ASSUME B # {} PROVE FALSE
  <2>1. B \in SUBSET SUBSET S
    BY <1>4
  <2>2. PICK T \in B : \A U \in B : Cardinality(T) <= Cardinality(U)
    BY <1>5, <2>1, LeastSet
  <2>3. T \in SUBSET S /\ ~Ok(T, sum[T], add[T])
    BY <1>4, <2>2
  <2>4. T # {}
    <3>1. {} \in SUBSET S /\ sum[{}] = 0 /\ add[{}] = 0
      BY <1>3
    <3>2. Ok({}, 0, 0)
      OBVIOUS
    <3> HIDE DEF Ok
    <3> QED
      BY <2>3, <3>1, <3>2
  <2>5. /\ One(T) \in T /\ T \ {One(T)} \in SUBSET S /\ T \ {One(T)} \notin B
    BY <2>2, <2>3, <2>4, OneLess
  <2>6. /\ sum[T] = f[One(T)] + sum[T \ {One(T)}]
        /\ add[T] = g[One(T)] + add[T \ {One(T)}]
    BY <1>3, <2>3, <2>4
  <2>7. Ok(T \ {One(T)}, sum[T \ {One(T)}], add[T \ {One(T)}])
    BY <1>4, <2>5
  <2>8. f[One(T)] \in Int /\ g[One(T)] \in Int /\ f[x] \in Int /\ g[x] \in Int
    BY <2>3, <2>5
  <2>9. CASE One(T) = x
    BY <2>3, <2>5, <2>6, <2>7, <2>8, <2>9
  <2>10. CASE One(T) # x
    <3>1. g[One(T)] = f[One(T)] /\ (x \in T <=> x \in T \ {One(T)})
      BY <2>3, <2>5, <2>10
    <3> QED
      BY <2>3, <2>6, <2>7, <2>8, <3>1
  <2> QED
    BY <2>9, <2>10
<1>6. sum[S] \in Int /\ add[S] = sum[S] + (g[x] - f[x])
  BY <1>4, <1>5
<1>7. f[x] \in Int /\ g[x] \in Int
  OBVIOUS
<1> QED
  BY <1>1, <1>2, <1>6, <1>7

\* Larger terms make a larger sum.
LEMMA SumGrows ==
  ASSUME NEW S, IsFiniteSet(S), NEW f \in [S -> Int], NEW g \in [S -> Int],
         \A x \in S : f[x] <= g[x]
  PROVE  SumFunction(f) <= SumFunction(g)
<1> DEFINE Ok(m, n) == m \in Int /\ n \in Int /\ m <= n
<1>1. PICK sum : Adds(sum, f, SUBSET S) /\ SumFunction(f) = sum[S]
  BY SumAdds DEF SumFunction
<1>2. PICK add : Adds(add, g, SUBSET S) /\ SumFunction(g) = add[S]
  BY SumAdds DEF SumFunction
<1>3. \A T \in SUBSET S : /\ sum[T] = IF T = {} THEN 0 ELSE f[One(T)] + sum[T \ {One(T)}]
                          /\ add[T] = IF T = {} THEN 0 ELSE g[One(T)] + add[T \ {One(T)}]
  BY <1>1, <1>2 DEF Adds
<1>4. PICK B : B = {T \in SUBSET S : ~Ok(sum[T], add[T])}
  OBVIOUS
<1>5. ASSUME B # {} PROVE FALSE
  <2>1. B \in SUBSET SUBSET S
    BY <1>4
  <2>2. PICK T \in B : \A U \in B : Cardinality(T) <= Cardinality(U)
    BY <1>5, <2>1, LeastSet
  <2>3. T \in SUBSET S /\ ~Ok(sum[T], add[T])
    BY <1>4, <2>2
  <2>4. T # {}
    <3>1. {} \in SUBSET S /\ sum[{}] = 0 /\ add[{}] = 0
      BY <1>3
    <3> QED
      BY <2>3, <3>1
  <2>5. /\ One(T) \in S /\ T \ {One(T)} \in SUBSET S /\ T \ {One(T)} \notin B
    BY <2>2, <2>3, <2>4, OneLess
  <2>6. /\ sum[T] = f[One(T)] + sum[T \ {One(T)}]
        /\ add[T] = g[One(T)] + add[T \ {One(T)}]
    BY <1>3, <2>3, <2>4
  <2>7. Ok(sum[T \ {One(T)}], add[T \ {One(T)}])
    BY <1>4, <2>5
  <2>8. f[One(T)] \in Int /\ g[One(T)] \in Int /\ f[One(T)] <= g[One(T)]
    BY <2>5
  <2> QED
    BY <2>3, <2>6, <2>7, <2>8
<1> QED
  BY <1>1, <1>2, <1>4, <1>5

\* A sum of numbers from 1 to b is between as many as there are and b times that.
LEMMA SumBetween ==
  ASSUME NEW S, IsFiniteSet(S), NEW b \in Nat, NEW f \in [S -> 1 .. b]
  PROVE  /\ Cardinality(S) \in Nat /\ SumFunction(f) \in Nat
         /\ Cardinality(S) <= SumFunction(f) /\ SumFunction(f) <= b * Cardinality(S)
<1> DEFINE Ok(T, n) == n \in Nat /\ Cardinality(T) <= n /\ n <= b * Cardinality(T)
<1>1. PICK sum : Adds(sum, f, SUBSET S) /\ SumFunction(f) = sum[S]
  BY SumAdds DEF SumFunction
<1>2. \A T \in SUBSET S : sum[T] = IF T = {} THEN 0 ELSE f[One(T)] + sum[T \ {One(T)}]
  BY <1>1 DEF Adds
<1>3. PICK B : B = {T \in SUBSET S : ~Ok(T, sum[T])}
  OBVIOUS
<1>4. ASSUME B # {} PROVE FALSE
  <2>1. B \in SUBSET SUBSET S
    BY <1>3
  <2>2. PICK T \in B : \A U \in B : Cardinality(T) <= Cardinality(U)
    BY <1>4, <2>1, LeastSet
  <2>3. T \in SUBSET S /\ ~Ok(T, sum[T])
    BY <1>3, <2>2
  <2>4. T # {}
    <3>1. Cardinality({}) = 0
      BY FS_EmptySet
    <3>2. b * 0 = 0
      OBVIOUS
    <3>3. Ok({}, 0)
      BY <3>1, <3>2
    <3>4. {} \in SUBSET S /\ sum[{}] = 0
      BY <1>2
    <3> HIDE DEF Ok
    <3> QED
      BY <2>3, <3>3, <3>4
  <2>5. PICK U, n, k : /\ U = T \ {One(T)} /\ n = sum[U] /\ k = Cardinality(U)
    OBVIOUS
  <2>6. /\ One(T) \in S /\ U \in SUBSET S /\ U \notin B
        /\ Cardinality(T) \in Nat /\ k \in Nat /\ Cardinality(T) = k + 1
    BY <2>2, <2>3, <2>4, <2>5, OneLess
  <2>7. sum[T] = f[One(T)] + n /\ f[One(T)] \in 1 .. b
    BY <1>2, <2>3, <2>4, <2>5, <2>6
  <2>8. n \in Nat /\ k <= n /\ n <= b * k
    BY <1>3, <2>5, <2>6
  <2>9. b * (k + 1) = b * k + b /\ b * k \in Nat
    BY <2>6
  <2>10. Ok(T, sum[T])
    BY <2>6, <2>7, <2>8, <2>9
  <2> QED
    BY <2>3, <2>10
<1>5. Ok(S, sum[S]) /\ Cardinality(S) \in Nat
  <2> HIDE DEF Ok
  <2> QED
    BY <1>3, <1>4, FS_CardinalityType
<1> QED
  BY <1>1, <1>5

-----------------------------------------------------------------------------
(* What is left of a list that the elements in out are taken out of. *)

\* rest[m] is what is left of the first m elements of s.
Drops(rest, s, out, n) ==
  rest = [m \in 0 .. n |-> IF m = 0 THEN <<>>
                           ELSE IF s[m] \in out THEN rest[m - 1] ELSE Append(rest[m - 1], s[m])]

\* There is a table of what each prefix leaves: the least length without one cannot be.
LEMMA DropsExist ==
  ASSUME NEW s, NEW out, NEW n \in Nat
  PROVE  \E rest : Drops(rest, s, out, n)
<1>1. PICK D : D = {m \in Nat : ~\E rest : Drops(rest, s, out, m)}
  OBVIOUS
<1>2. ASSUME D # {} PROVE FALSE
  <2>1. PICK m \in D : \A k \in D : m <= k
    BY <1>1, <1>2, LeastNumber
  <2>2. m \in Nat /\ ~\E rest : Drops(rest, s, out, m)
    BY <1>1, <2>1
  <2>3. m # 0
    <3>1. Drops([k \in 0 .. 0 |-> <<>>], s, out, 0)
      BY DEF Drops
    <3> QED
      BY <2>2, <3>1
  <2>4. PICK f : Drops(f, s, out, m - 1)
    <3>1. m - 1 \in Nat /\ ~(m <= m - 1)
      BY <2>2, <2>3
    <3> QED
      BY <1>1, <2>1, <3>1
  <2> DEFINE g == [k \in 0 .. m |-> IF k < m THEN f[k]
                                    ELSE IF s[m] \in out THEN f[m - 1] ELSE Append(f[m - 1], s[m])]
  <2>5. \A k \in 0 .. m - 1 :
          f[k] = IF k = 0 THEN <<>> ELSE IF s[k] \in out THEN f[k - 1] ELSE Append(f[k - 1], s[k])
    BY <2>4 DEF Drops
  <2>6. \A k \in 0 .. m :
          g[k] = IF k = 0 THEN <<>> ELSE IF s[k] \in out THEN g[k - 1] ELSE Append(g[k - 1], s[k])
    <3> TAKE k \in 0 .. m
    <3>1. CASE k < m
      BY <2>2, <2>3, <2>5, <3>1
    <3>2. CASE k = m
      <4>1. g[m - 1] = f[m - 1] /\ m \in 0 .. m
        BY <2>2, <2>3
      <4> QED
        BY <2>3, <3>2, <4>1
    <3> QED
      BY <2>2, <3>1, <3>2
  <2>7. Drops(g, s, out, m)
    <3>1. g = [k \in 0 .. m |-> g[k]]
      OBVIOUS
    <3> HIDE DEF g
    <3> QED
      BY <2>6, <3>1 DEF Drops
  <2> QED
    BY <2>2, <2>7
<1> QED
  BY <1>1, <1>2

\* h takes the places of t to different places of s, among the first m and not in out.
Placed(t, s, out, m, h) ==
  /\ h \in [DOMAIN t -> 1 .. m]
  /\ \A a \in DOMAIN t : t[a] = s[h[a]] /\ t[a] \notin out
  /\ \A a, b \in DOMAIN t : h[a] = h[b] => a = b
  /\ \A n \in 1 .. m : s[n] \notin out => \E a \in DOMAIN t : t[a] = s[n]

LEMMA DroppingIs ==
  ASSUME NEW S, NEW s \in Seq(S), NEW out
  PROVE  Dropping(s, out) \in Seq(S) /\ \E h : Placed(Dropping(s, out), s, out, Len(s), h)
<1> DEFINE rest == CHOOSE rest : Drops(rest, s, out, Len(s))
           Good(m) == rest[m] \in Seq(S) /\ \E h : Placed(rest[m], s, out, m, h)
<1>1. Len(s) \in Nat /\ DOMAIN s = 1 .. Len(s)
  OBVIOUS
<1>2. Drops(rest, s, out, Len(s))
  BY <1>1, DropsExist
<1>3. Dropping(s, out) = rest[Len(s)]
  BY DEF Dropping, Drops
<1> HIDE DEF rest
<1>4. \A m \in 0 .. Len(s) :
        rest[m] = IF m = 0 THEN <<>> ELSE IF s[m] \in out THEN rest[m - 1] ELSE Append(rest[m - 1], s[m])
  BY <1>2 DEF Drops
<1>5. PICK D : D = {m \in 0 .. Len(s) : ~Good(m)}
  OBVIOUS
<1>6. ASSUME D # {} PROVE FALSE
  <2>1. PICK m \in D : \A k \in D : m <= k
    <3> HIDE DEF Good
    <3>1. D \in SUBSET Nat
      BY <1>1, <1>5
    <3> QED
      BY <1>6, <3>1, LeastNumber
  <2>2. m \in 0 .. Len(s) /\ ~Good(m)
    BY <1>5, <2>1
  <2>3. m # 0
    <3>1. rest[0] = <<>>
      BY <1>1, <1>4
    <3>2. Placed(<<>>, s, out, 0, <<>>)
      BY DEF Placed
    <3>3. Good(0)
      BY <3>1, <3>2
    <3> QED
      BY <2>2, <3>3
  <2>4. Good(m - 1)
    <3>1. m - 1 \in 0 .. Len(s) /\ ~(m <= m - 1)
      BY <1>1, <2>2, <2>3
    <3> QED
      BY <1>5, <2>1, <3>1
  <2>5. PICK t \in Seq(S) : t = rest[m - 1]
    BY <2>4
  <2>6. PICK h : Placed(t, s, out, m - 1, h)
    BY <2>4, <2>5
  <2>7. s[m] \in S /\ 1 .. m = (1 .. m - 1) \union {m} /\ m \notin 1 .. m - 1
    BY <1>1, <2>2, <2>3
  <2>8. CASE s[m] \in out
    <3>1. rest[m] = t
      BY <1>4, <2>2, <2>3, <2>5, <2>8
    <3>2. Placed(t, s, out, m, h)
      BY <2>6, <2>7, <2>8 DEF Placed
    <3> QED
      BY <2>2, <3>1, <3>2
  <2>9. CASE s[m] \notin out
    <3> DEFINE u == Append(t, s[m])
               g == [a \in DOMAIN u |-> IF a \in DOMAIN t THEN h[a] ELSE m]
    <3>1. rest[m] = u
      BY <1>4, <2>2, <2>3, <2>5, <2>9
    <3>2. /\ u \in Seq(S) /\ DOMAIN u = DOMAIN t \union {Len(t) + 1} /\ Len(t) + 1 \notin DOMAIN t
          /\ u[Len(t) + 1] = s[m] /\ \A a \in DOMAIN t : u[a] = t[a]
      BY <2>7
    <3> HIDE DEF u
    <3>3. /\ \A a \in DOMAIN t : g[a] = h[a] /\ h[a] \in 1 .. m - 1
          /\ g[Len(t) + 1] = m
      BY <2>6, <3>2 DEF Placed
    <3>4. g \in [DOMAIN u -> 1 .. m]
      BY <2>7, <3>2, <3>3
    <3> HIDE DEF g
    <3>5. \A a \in DOMAIN u : u[a] = s[g[a]] /\ u[a] \notin out
      BY <2>6, <2>9, <3>2, <3>3 DEF Placed
    <3>6. \A a, b \in DOMAIN u : g[a] = g[b] => a = b
      BY <2>6, <2>7, <3>2, <3>3 DEF Placed
    <3>7. \A n \in 1 .. m : s[n] \notin out => \E a \in DOMAIN u : u[a] = s[n]
      <4>1. \A n \in 1 .. m - 1 : s[n] \notin out => \E a \in DOMAIN t : t[a] = s[n]
        BY <2>6 DEF Placed
      <4>2. Len(t) + 1 \in DOMAIN u /\ DOMAIN t \subseteq DOMAIN u
        BY <3>2
      <4>3. \A n \in 1 .. m - 1 : s[n] \notin out => \E a \in DOMAIN u : u[a] = s[n]
        BY <3>2, <4>1, <4>2
      <4> QED
        BY <2>7, <3>2, <4>2, <4>3
    <3>8. Placed(u, s, out, m, g)
      BY <3>4, <3>5, <3>6, <3>7 DEF Placed
    <3> QED
      BY <2>2, <3>1, <3>2, <3>8
  <2> QED
    BY <2>8, <2>9
<1>7. Good(Len(s))
  <2> HIDE DEF Good
  <2> QED
    BY <1>1, <1>5, <1>6
<1> QED
  BY <1>3, <1>7
=============================================================================
