-------------------------------- MODULE Sums --------------------------------
(***************************************************************************)
(* Sums over finite sets, as MapThenSumSet computes them: what a quota of  *)
(* bytes is compared with.  The theorems about sums that other libraries   *)
(* have take an operator for the weights; here the weights are a function  *)
(* w, so that every fact can be cited of any sum.  The least               *)
(* counterexample takes the place of induction.                            *)
(***************************************************************************)
EXTENDS Integers, FiniteSets, FiniteSetsExt, FiniteSetTheorems,
        WellFoundedInduction, TLAPS

Choice(s) == CHOOSE x \in s : TRUE

Weighs(w, S) == \A x \in S : w[x] \in Nat
Agree(v, w, S) == \A x \in S : v[x] = w[x]

\* The partial sums that MapThenSumSet adds up.
SumsUp(iter, w, S) ==
  iter = [s \in SUBSET S |->
            IF s = {} THEN 0 ELSE w[Choice(s)] + iter[s \ {Choice(s)}]]

Total(w, S) == MapThenSumSet(LAMBDA x : w[x], S)

-----------------------------------------------------------------------------
(* Least elements, smaller sets *)

\* Every set of natural numbers that is not empty has a least element.
LEMMA LeastOf ==
  ASSUME NEW S \in SUBSET Nat, S # {}
  PROVE  \E m \in S : \A n \in S : m <= n
<1>1. IsWellFoundedOn(OpToRel(<, Nat), Nat)
  BY NatLessThanWellFounded
<1>2. PICK m \in S : \A n \in S : ~(<<n, m>> \in OpToRel(<, Nat))
  BY <1>1, WFMin
<1>3. \A n \in S : ~(n < m)
  BY <1>2 DEF OpToRel
<1> QED BY <1>3

\* Of finite sets there is one none of the others is smaller than.
LEMMA SmallestOf ==
  ASSUME NEW F, F # {}, \A s \in F : IsFiniteSet(s)
  PROVE  \E m \in F : \A s \in F : Cardinality(m) <= Cardinality(s)
<1>1. {Cardinality(s) : s \in F} \in SUBSET Nat /\ {Cardinality(s) : s \in F} # {}
  BY FS_CardinalityType
<1>2. PICK k \in {Cardinality(s) : s \in F} : \A n \in {Cardinality(s) : s \in F} : k <= n
  BY <1>1, LeastOf
<1> QED BY <1>2

\* Without one of its elements a finite set is smaller by one.
LEMMA OneLess ==
  ASSUME NEW s, IsFiniteSet(s), NEW x \in s
  PROVE  /\ IsFiniteSet(s \ {x})
         /\ Cardinality(s) \in Nat /\ Cardinality(s \ {x}) \in Nat
         /\ Cardinality(s) = Cardinality(s \ {x}) + 1
<1>1. IsFiniteSet(s \ {x}) /\ Cardinality(s \ {x}) = Cardinality(s) - 1
  BY FS_RemoveElement
<1>2. Cardinality(s) \in Nat /\ Cardinality(s \ {x}) \in Nat
  BY <1>1, FS_CardinalityType
<1> QED BY <1>1, <1>2

LEMMA ChoiceIn ==
  ASSUME NEW s, s # {}
  PROVE  Choice(s) \in s
BY DEF Choice

-----------------------------------------------------------------------------
(* The partial sums *)

LEMMA PartialSums ==
  ASSUME NEW iter, NEW w, NEW S, SumsUp(iter, w, S)
  PROVE  /\ iter[{}] = 0
         /\ \A s \in SUBSET S : s # {} => iter[s] = w[Choice(s)] + iter[s \ {Choice(s)}]
<1> DEFINE F(s) == IF s = {} THEN 0 ELSE w[Choice(s)] + iter[s \ {Choice(s)}]
<1>1. iter = [s \in SUBSET S |-> F(s)]
  BY DEF SumsUp
<1>2. \A s \in SUBSET S : iter[s] = F(s)
  <2> HIDE DEF F
  <2> QED BY <1>1
<1> QED BY <1>2

\* The sums of the subsets of at most k elements.
SumsUpTo(g, w, S, k) ==
  \A s \in SUBSET S : Cardinality(s) <= k =>
     g[s] = IF s = {} THEN 0 ELSE w[Choice(s)] + g[s \ {Choice(s)}]

\* MapThenSumSet is defined by a recursive function: there is one.
LEMMA SumsExist ==
  ASSUME NEW w, NEW S, IsFiniteSet(S)
  PROVE  \E iter : SumsUp(iter, w, S)
<1> DEFINE F(g, s) == IF s = {} THEN 0 ELSE w[Choice(s)] + g[s \ {Choice(s)}]
           Next(g) == [s \in SUBSET S |-> F(g, s)]
           none == {k \in Nat : \A g : ~SumsUpTo(g, w, S, k)}
<1>1. ASSUME NEW s \in SUBSET S
      PROVE  /\ IsFiniteSet(s) /\ Cardinality(s) \in Nat
             /\ s # {} => /\ s \ {Choice(s)} \in SUBSET S
                          /\ Cardinality(s \ {Choice(s)}) \in Nat
                          /\ Cardinality(s) = Cardinality(s \ {Choice(s)}) + 1
  <2>1. IsFiniteSet(s) /\ Cardinality(s) \in Nat
    BY FS_Subset, FS_CardinalityType
  <2> QED BY <2>1, OneLess, ChoiceIn
<1>2. ASSUME NEW g, NEW k \in Nat, SumsUpTo(g, w, S, k)
      PROVE  SumsUpTo(Next(g), w, S, k + 1)
  <2> DEFINE h == Next(g)
  <2>1. \A s \in SUBSET S : h[s] = F(g, s)
    OBVIOUS
  <2>2. \A s \in SUBSET S : Cardinality(s) <= k => g[s] = F(g, s)
    BY <1>2 DEF SumsUpTo
  <2> HIDE DEF h
  <2>3. \A s \in SUBSET S : Cardinality(s) <= k => h[s] = g[s]
    BY <2>1, <2>2
  <2>4. ASSUME NEW s \in SUBSET S, Cardinality(s) <= k + 1
        PROVE  h[s] = F(h, s)
    <3>1. CASE s = {}
      BY <2>1, <3>1
    <3>2. CASE s # {}
      <4>1. s \ {Choice(s)} \in SUBSET S /\ Cardinality(s \ {Choice(s)}) <= k
        BY <1>1, <2>4, <3>2
      <4> QED BY <2>1, <2>3, <3>2, <4>1
    <3> QED BY <3>1, <3>2
  <2>5. SumsUpTo(h, w, S, k + 1)
    BY <2>4 DEF SumsUpTo
  <2> QED BY <2>5 DEF h
<1>3. 0 \notin none
  <2> DEFINE g == [s \in SUBSET S |-> 0]
  <2>1. ASSUME NEW s \in SUBSET S, Cardinality(s) <= 0
        PROVE  s = {}
    <3>1. IsFiniteSet(s) /\ Cardinality(s) \in Nat
      BY <1>1
    <3>2. Cardinality(s) = 0
      BY <2>1, <3>1
    <3> QED BY <3>1, <3>2, FS_EmptySet
  <2>2. SumsUpTo(g, w, S, 0)
    BY <2>1 DEF SumsUpTo
  <2> QED BY <2>2
<1>4. none = {}
  <2> SUFFICES ASSUME none # {} PROVE FALSE
    OBVIOUS
  <2>1. PICK k \in none : \A n \in none : k <= n
    BY LeastOf
  <2>2. k - 1 \in Nat /\ k - 1 \notin none /\ k - 1 + 1 = k
    BY <1>3, <2>1
  <2>3. PICK g : SumsUpTo(g, w, S, k - 1)
    BY <2>2
  <2> HIDE DEF Next
  <2>4. SumsUpTo(Next(g), w, S, k)
    BY <1>2, <2>2, <2>3
  <2> QED BY <2>1, <2>4
<1>5. PICK g : SumsUpTo(g, w, S, Cardinality(S))
  BY <1>1, <1>4
<1> DEFINE h == Next(g)
<1>6. \A s \in SUBSET S : Cardinality(s) <= Cardinality(S)
  BY FS_Subset
<1>7. \A s \in SUBSET S : g[s] = F(g, s) /\ h[s] = F(g, s)
  BY <1>5, <1>6 DEF SumsUpTo
<1>8. \A s \in SUBSET S : F(h, s) = F(g, s)
  <2> HIDE DEF h
  <2> QED BY <1>1, <1>7
<1>9. h = [s \in SUBSET S |-> F(h, s)]
  <2>1. h = [s \in SUBSET S |-> F(g, s)]
    OBVIOUS
  <2> HIDE DEF h, F
  <2> QED BY <1>8, <2>1
<1>10. SumsUp(h, w, S)
  <2> HIDE DEF h
  <2> QED BY <1>9 DEF SumsUp
<1> QED BY <1>10

LEMMA SumsType ==
  ASSUME NEW iter, NEW w, NEW S, IsFiniteSet(S), Weighs(w, S), SumsUp(iter, w, S)
  PROVE  \A s \in SUBSET S : iter[s] \in Nat
<1> DEFINE bad == {s \in SUBSET S : iter[s] \notin Nat}
<1> SUFFICES ASSUME bad # {} PROVE FALSE
  OBVIOUS
<1>1. \A s \in bad : IsFiniteSet(s)
  BY FS_Subset
<1>2. PICK s \in bad : \A t \in bad : Cardinality(s) <= Cardinality(t)
  <2> HIDE DEF bad
  <2> QED BY <1>1, SmallestOf
<1>3. s # {}
  <2>1. iter[{}] = 0
    BY PartialSums
  <2> QED BY <1>2, <2>1
<1> DEFINE t == s \ {Choice(s)}
<1>4. Choice(s) \in S /\ t \in SUBSET S /\ iter[s] = w[Choice(s)] + iter[t]
  BY <1>3, ChoiceIn, PartialSums
<1>5. t \notin bad
  <2>1. Cardinality(s) \in Nat /\ Cardinality(t) \in Nat /\ Cardinality(s) = Cardinality(t) + 1
    BY <1>1, <1>2, <1>3, ChoiceIn, OneLess
  <2> HIDE DEF bad, t
  <2> QED BY <1>2, <2>1
<1> QED BY <1>2, <1>4, <1>5 DEF Weighs

LEMMA Commuted ==
  ASSUME NEW a, NEW b, NEW c, NEW d, NEW e, NEW p \in Nat, NEW q \in Nat, NEW r \in Nat,
         a = p + b, b = q + r, d = p + r, e = q + d
  PROVE  a = e
OBVIOUS

\* It does not matter which element is taken out first.
LEMMA SumsRemove ==
  ASSUME NEW iter, NEW w, NEW S, IsFiniteSet(S), Weighs(w, S), SumsUp(iter, w, S)
  PROVE  \A s \in SUBSET S : \A y \in s : iter[s] = w[y] + iter[s \ {y}]
<1>0. \A s \in SUBSET S : s # {} => iter[s] = w[Choice(s)] + iter[s \ {Choice(s)}]
  BY PartialSums
<1> DEFINE bad == {s \in SUBSET S : \E y \in s : iter[s] # w[y] + iter[s \ {y}]}
<1> SUFFICES ASSUME bad # {} PROVE FALSE
  OBVIOUS
<1>1. \A s \in SUBSET S : IsFiniteSet(s)
  BY FS_Subset
<1>2. PICK s \in bad : \A t \in bad : Cardinality(s) <= Cardinality(t)
  <2>1. \A t \in bad : IsFiniteSet(t)
    BY <1>1
  <2> HIDE DEF bad
  <2> QED BY <2>1, SmallestOf
<1>3. PICK y \in s : iter[s] # w[y] + iter[s \ {y}]
  BY <1>2
<1> DEFINE x == Choice(s)
<1>4. s \in SUBSET S /\ x \in s /\ iter[s] = w[x] + iter[s \ {x}]
  <2>1. s \in SUBSET S /\ s # {}
    BY <1>2, <1>3
  <2>2. x \in s
    BY <2>1, ChoiceIn
  <2>3. iter[s] = w[x] + iter[s \ {x}]
    BY <1>0, <2>1
  <2> QED BY <2>1, <2>2, <2>3
<1>5. x # y
  BY <1>3, <1>4
<1> HIDE DEF x
<1>6. ASSUME NEW z \in s
      PROVE  s \ {z} \in SUBSET S /\ s \ {z} \notin bad
  <2> DEFINE t == s \ {z}
  <2>1. Cardinality(s) \in Nat /\ Cardinality(t) \in Nat /\ Cardinality(s) = Cardinality(t) + 1
    BY <1>1, <1>4, OneLess
  <2> HIDE DEF bad, t
  <2>2. t \notin bad
    BY <1>2, <2>1
  <2> QED BY <1>4, <2>2 DEF t
<1>7. iter[s \ {x}] = w[y] + iter[(s \ {x}) \ {y}]
  BY <1>4, <1>5, <1>6
<1>8. iter[s \ {y}] = w[x] + iter[(s \ {y}) \ {x}]
  BY <1>4, <1>5, <1>6
<1>9. (s \ {x}) \ {y} = (s \ {y}) \ {x}
  OBVIOUS
<1> DEFINE r == iter[(s \ {x}) \ {y}]
<1>10. w[x] \in Nat /\ w[y] \in Nat /\ r \in Nat
  <2>1. (s \ {x}) \ {y} \in SUBSET S
    BY <1>4
  <2> QED BY <1>4, <2>1, SumsType DEF Weighs
<1>11. iter[s \ {x}] = w[y] + r /\ iter[s \ {y}] = w[x] + r
  BY <1>7, <1>8, <1>9
<1> HIDE DEF bad, r
<1>12. iter[s] = w[y] + iter[s \ {y}]
  BY <1>4, <1>10, <1>11, Commuted
<1> QED BY <1>3, <1>12

\* A sum depends on the weights of what is summed up, and on nothing else.
LEMMA SumsAgree ==
  ASSUME NEW f, NEW g, NEW v, NEW w, NEW S, NEW T, NEW U,
         IsFiniteSet(U), U \subseteq S, U \subseteq T,
         SumsUp(f, v, S), SumsUp(g, w, T), Agree(v, w, U)
  PROVE  f[U] = g[U]
<1>0. /\ \A s \in SUBSET S : s # {} => f[s] = v[Choice(s)] + f[s \ {Choice(s)}]
      /\ \A s \in SUBSET T : s # {} => g[s] = w[Choice(s)] + g[s \ {Choice(s)}]
  BY PartialSums
<1> DEFINE bad == {s \in SUBSET U : f[s] # g[s]}
<1> SUFFICES ASSUME bad # {} PROVE FALSE
  OBVIOUS
<1>1. \A s \in SUBSET U : IsFiniteSet(s)
  BY FS_Subset
<1>2. PICK s \in bad : \A t \in bad : Cardinality(s) <= Cardinality(t)
  <2>1. \A t \in bad : IsFiniteSet(t)
    BY <1>1
  <2> HIDE DEF bad
  <2> QED BY <2>1, SmallestOf
<1>3. f[{}] = 0 /\ g[{}] = 0
  BY PartialSums
<1>4. s # {} /\ s \in SUBSET U
  BY <1>2, <1>3
<1> DEFINE x == Choice(s)
           t == s \ {x}
<1>5. f[s] = v[x] + f[t] /\ g[s] = w[x] + g[t] /\ v[x] = w[x]
  <2>1. s \in SUBSET S /\ s \in SUBSET T /\ x \in U
    BY <1>4, ChoiceIn
  <2>2. f[s] = v[x] + f[t]
    BY <1>0, <1>4, <2>1
  <2>3. g[s] = w[x] + g[t]
    BY <1>0, <1>4, <2>1
  <2>4. v[x] = w[x]
    BY <2>1 DEF Agree
  <2> QED BY <2>1, <2>2, <2>3, <2>4
<1>6. t \notin bad
  <2>1. Cardinality(s) \in Nat /\ Cardinality(t) \in Nat /\ Cardinality(s) = Cardinality(t) + 1
    BY <1>1, <1>4, ChoiceIn, OneLess
  <2> HIDE DEF bad, t
  <2> QED BY <1>2, <2>1
<1> QED BY <1>2, <1>4, <1>5, <1>6

-----------------------------------------------------------------------------
(* The total *)

\* The total is the last partial sum of any function that sums up.
LEMMA TotalIsSum ==
  ASSUME NEW w, NEW S, IsFiniteSet(S)
  PROVE  \E iter : SumsUp(iter, w, S) /\ Total(w, S) = iter[S]
<1>1. Total(w, S) = (CHOOSE iter : SumsUp(iter, w, S))[S]
  BY DEF Total, MapThenSumSet, MapThenFoldSet, SumsUp, Choice
<1>2. SumsUp(CHOOSE iter : SumsUp(iter, w, S), w, S)
  BY SumsExist
<1> QED BY <1>1, <1>2

LEMMA TotalType ==
  ASSUME NEW w, NEW S, IsFiniteSet(S), Weighs(w, S)
  PROVE  Total(w, S) \in Nat
BY TotalIsSum, SumsType

LEMMA TotalEmpty ==
  ASSUME NEW w
  PROVE  Total(w, {}) = 0
BY TotalIsSum, PartialSums, FS_EmptySet

LEMMA TotalAgrees ==
  ASSUME NEW v, NEW w, NEW S, IsFiniteSet(S), Agree(v, w, S)
  PROVE  Total(v, S) = Total(w, S)
<1>1. PICK f : SumsUp(f, v, S) /\ Total(v, S) = f[S]
  BY TotalIsSum
<1>2. PICK g : SumsUp(g, w, S) /\ Total(w, S) = g[S]
  BY TotalIsSum
<1> QED BY <1>1, <1>2, SumsAgree

\* One element of a set, and the rest.
LEMMA TotalRemove ==
  ASSUME NEW w, NEW S, IsFiniteSet(S), Weighs(w, S), NEW x \in S
  PROVE  Total(w, S) = w[x] + Total(w, S \ {x})
<1>1. PICK f : SumsUp(f, w, S) /\ Total(w, S) = f[S]
  BY TotalIsSum
<1>2. IsFiniteSet(S \ {x})
  BY OneLess
<1>3. PICK g : SumsUp(g, w, S \ {x}) /\ Total(w, S \ {x}) = g[S \ {x}]
  BY <1>2, TotalIsSum
<1>4. f[S \ {x}] = g[S \ {x}]
  <2> DEFINE U == S \ {x}
  <2>1. IsFiniteSet(U) /\ U \subseteq S
    BY <1>2
  <2> HIDE DEF U
  <2>2. SumsUp(g, w, U)
    BY <1>3 DEF U
  <2>3. Agree(w, w, U)
    BY DEF Agree
  <2>4. f[U] = g[U]
    BY <1>1, <2>1, <2>2, <2>3, SumsAgree
  <2> QED BY <2>4 DEF U
<1>5. S \in SUBSET S /\ f[S] = w[x] + f[S \ {x}]
  BY <1>1, SumsRemove
<1> QED BY <1>1, <1>3, <1>4, <1>5

\* One element more.
LEMMA TotalAdd ==
  ASSUME NEW w, NEW S, IsFiniteSet(S), NEW x, x \notin S, Weighs(w, S \cup {x})
  PROVE  Total(w, S \cup {x}) = w[x] + Total(w, S)
<1>1. IsFiniteSet(S \cup {x}) /\ (S \cup {x}) \ {x} = S
  BY FS_AddElement
<1> QED BY <1>1, TotalRemove

\* A part of a set weighs no more than the whole.
LEMMA TotalOfPart ==
  ASSUME NEW w, NEW S, IsFiniteSet(S), Weighs(w, S), NEW T \in SUBSET S
  PROVE  Total(w, T) <= Total(w, S)
<1> DEFINE bad == {U \in SUBSET S : T \subseteq U /\ ~(Total(w, T) <= Total(w, U))}
<1> SUFFICES ASSUME bad # {} PROVE FALSE
  OBVIOUS
<1>1. \A U \in SUBSET S : IsFiniteSet(U) /\ Weighs(w, U) /\ Total(w, U) \in Nat
  BY FS_Subset, TotalType DEF Weighs
<1>2. PICK U \in bad : \A V \in bad : Cardinality(U) <= Cardinality(V)
  <2>1. \A V \in bad : IsFiniteSet(V)
    BY <1>1
  <2> HIDE DEF bad
  <2> QED BY <2>1, SmallestOf
<1>3. U \in SUBSET S /\ T \subseteq U /\ ~(Total(w, T) <= Total(w, U))
  BY <1>2
<1>4. U # T
  BY <1>1, <1>3
<1>5. PICK x \in U : x \notin T
  BY <1>3, <1>4
<1> DEFINE V == U \ {x}
<1>6. V \in SUBSET S /\ T \subseteq V
  BY <1>3, <1>5
<1>7. Cardinality(U) \in Nat /\ Cardinality(V) \in Nat /\ Cardinality(U) = Cardinality(V) + 1
  BY <1>1, <1>3, OneLess
<1>8. V \notin bad
  <2> HIDE DEF bad, V
  <2> QED BY <1>2, <1>7
<1>9. Total(w, U) = w[x] + Total(w, V) /\ w[x] \in Nat
  BY <1>1, <1>3, TotalRemove DEF Weighs
<1>10. Total(w, T) <= Total(w, V)
  BY <1>6, <1>8
<1> HIDE DEF V
<1> QED BY <1>1, <1>3, <1>6, <1>9, <1>10

\* One weight is replaced.
LEMMA TotalReplace ==
  ASSUME NEW v, NEW w, NEW S, IsFiniteSet(S), Weighs(v, S), Weighs(w, S), NEW x \in S,
         Agree(v, w, S \ {x})
  PROVE  Total(v, S) = Total(w, S) - w[x] + v[x]
<1>1. Total(v, S) = v[x] + Total(v, S \ {x}) /\ Total(w, S) = w[x] + Total(w, S \ {x})
  BY TotalRemove
<1>2. IsFiniteSet(S \ {x}) /\ Weighs(w, S \ {x})
  BY OneLess DEF Weighs
<1>3. Total(v, S \ {x}) = Total(w, S \ {x}) /\ Total(w, S \ {x}) \in Nat
  BY <1>2, TotalAgrees, TotalType
<1>4. v[x] \in Nat /\ w[x] \in Nat
  BY DEF Weighs
<1> QED BY <1>1, <1>3, <1>4

-----------------------------------------------------------------------------
(* Bytes of rows *)

\* The bytes of the rows of rs in a table, which is what the stores add up.
BytesIn(rows, rs) == MapThenSumSet(LAMBDA r : rows[r].bytes, rs)
Weight(rows) == [r \in DOMAIN rows |-> rows[r].bytes]

LEMMA BytesAreTotal ==
  ASSUME NEW rows, NEW rs, IsFiniteSet(rs), rs \subseteq DOMAIN rows
  PROVE  BytesIn(rows, rs) = Total(Weight(rows), rs)
<1> DEFINE w == Weight(rows)
           F(iter, t) == IF t = {} THEN 0 ELSE rows[Choice(t)].bytes + iter[t \ {Choice(t)}]
           G(iter, t) == IF t = {} THEN 0 ELSE w[Choice(t)] + iter[t \ {Choice(t)}]
           Adds(iter) == iter = [t \in SUBSET rs |-> F(iter, t)]
           bytes == CHOOSE iter : Adds(iter)
<1>1. BytesIn(rows, rs) = bytes[rs]
  BY DEF BytesIn, MapThenSumSet, MapThenFoldSet, Choice
<1>2. ASSUME NEW iter, NEW t \in SUBSET rs
      PROVE  F(iter, t) = G(iter, t)
  BY ChoiceIn DEF Weight
<1>3. \A iter : SumsUp(iter, w, rs) <=> Adds(iter)
  <2> TAKE iter
  <2>1. [t \in SUBSET rs |-> F(iter, t)] = [t \in SUBSET rs |-> G(iter, t)]
    <3> HIDE DEF F, G
    <3> QED BY <1>2
  <2>2. SumsUp(iter, w, rs) <=> iter = [t \in SUBSET rs |-> G(iter, t)]
    BY DEF SumsUp
  <2> HIDE DEF F, G
  <2> QED BY <2>1, <2>2
<1> HIDE DEF Adds, w
<1>4. Adds(bytes)
  BY <1>3, SumsExist
<1> HIDE DEF bytes
<1>5. SumsUp(bytes, w, rs)
  BY <1>3, <1>4
<1>6. PICK iter : SumsUp(iter, w, rs) /\ Total(w, rs) = iter[rs]
  BY TotalIsSum
<1>7. bytes[rs] = iter[rs]
  <2>1. Agree(w, w, rs)
    BY DEF Agree
  <2> QED BY <1>5, <1>6, <2>1, SumsAgree
<1> QED BY <1>1, <1>6, <1>7 DEF w
=============================================================================
