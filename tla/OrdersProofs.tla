---------------------------- MODULE OrdersProofs ----------------------------
(***************************************************************************)
(* Proofs about MCOrders, for any constants that satisfy OrdersAssumption: *)
(* any rows, filters, page sizes, administrators, purchases, days, calls   *)
(* and times.  Each part is proved for itself, from an inductive invariant *)
(* of its own; the last section puts them together.                        *)
(***************************************************************************)
EXTENDS MCOrders, Integers, Sequences, Functions, FiniteSetTheorems, TLAPS

(* Facts about numbers of elements: a finite set whose members are ranked  *)
(* by sets that grow has one member of every rank.                         *)
LEMMA Ranked ==
    ASSUME NEW ids, IsFiniteSet(ids), NEW up \in [ids -> SUBSET ids], \A i \in ids : i \in up[i],
           \A i, j \in ids : i # j => (up[i] \subseteq up[j] \/ up[j] \subseteq up[i]) /\ up[i] # up[j]
    PROVE  /\ Cardinality(ids) \in Nat
           /\ \A i \in ids : Cardinality(up[i]) \in 1..Cardinality(ids)
           /\ \A i, j \in ids : i # j => Cardinality(up[i]) # Cardinality(up[j])
           /\ \A k \in 1..Cardinality(ids) : \E i \in ids : Cardinality(up[i]) = k
<1> DEFINE n == Cardinality(ids)
<1>1. n \in Nat
  BY FS_CardinalityType
<1>2. \A i \in ids : IsFiniteSet(up[i]) /\ Cardinality(up[i]) \in Nat /\ Cardinality(up[i]) <= n
  BY FS_Subset, FS_CardinalityType
<1>3. \A i \in ids : Cardinality(up[i]) # 0
  BY <1>2, FS_EmptySet
<1>4. \A i \in ids : Cardinality(up[i]) \in 1..n
  BY <1>1, <1>2, <1>3
<1>5. \A i, j \in ids : up[i] \subseteq up[j] /\ Cardinality(up[i]) = Cardinality(up[j]) => up[i] = up[j]
  BY <1>2, FS_Subset
<1>6. \A i, j \in ids : i # j => Cardinality(up[i]) # Cardinality(up[j])
  BY <1>5
<1>7. ASSUME NEW k \in 1..n, \A i \in ids : Cardinality(up[i]) # k PROVE FALSE
  <2> DEFINE T == (1..n) \ {k}
             f == [i \in ids |-> Cardinality(up[i])]
  <2>1. IsFiniteSet(1..n) /\ Cardinality(1..n) = n
    BY <1>1, FS_Interval
  <2>2. IsFiniteSet(T) /\ Cardinality(T) = n - 1
    BY <2>1, FS_RemoveElement
  <2>3. f \in [ids -> T]
    BY <1>4, <1>7
  <2>4. Cardinality(T) < n
    BY <1>1, <2>2
  <2> HIDE DEF T, f
  <2>5. PICK x, y \in ids : x # y /\ f[x] = f[y]
    BY <2>2, <2>3, <2>4, FS_PigeonHole
  <2>6. QED
    BY <1>6, <2>5 DEF f
<1>8. QED
  BY <1>1, <1>4, <1>6, <1>7

LEMMA RankedUp ==
    ASSUME NEW ids \in SUBSET Int, IsFiniteSet(ids)
    PROVE  /\ Cardinality(ids) \in Nat
           /\ \A i \in ids : Cardinality({j \in ids : j <= i}) \in 1..Cardinality(ids)
           /\ \A i, k \in ids : i # k => Cardinality({j \in ids : j <= i}) # Cardinality({j \in ids : j <= k})
           /\ \A n \in 1..Cardinality(ids) : \E i \in ids : Cardinality({j \in ids : j <= i}) = n
<1> DEFINE up == [i \in ids |-> {j \in ids : j <= i}]
<1>1. up \in [ids -> SUBSET ids] /\ \A i \in ids : i \in up[i] /\ up[i] = {j \in ids : j <= i}
  OBVIOUS
<1>2. \A i, j \in ids : i # j => (up[i] \subseteq up[j] \/ up[j] \subseteq up[i]) /\ up[i] # up[j]
  <2>1. ASSUME NEW i \in ids, NEW j \in ids, i < j PROVE up[i] \subseteq up[j] /\ up[i] # up[j]
    <3>1. \A x \in ids : x \in Int /\ (x \in up[i] <=> x <= i) /\ (x \in up[j] <=> x <= j)
      OBVIOUS
    <3>2. \A x \in ids : x <= i => x <= j
      BY <2>1, <3>1
    <3>3. ~(j <= i)
      BY <2>1, <3>1
    <3> HIDE DEF up
    <3>4. QED
      BY <1>1, <3>1, <3>2, <3>3
  <2>2. \A i, j \in ids : i # j => i < j \/ i > j
    OBVIOUS
  <2>3. \A i, j \in ids : i < j <=> j > i
    OBVIOUS
  <2> HIDE DEF up
  <2>4. QED
    BY <2>1, <2>2, <2>3
<1>a. up \in [ids -> SUBSET ids]
  OBVIOUS
<1>b. \A i \in ids : i \in up[i]
  OBVIOUS
<1> HIDE DEF up
<1>3. /\ Cardinality(ids) \in Nat
      /\ \A i \in ids : Cardinality(up[i]) \in 1..Cardinality(ids)
      /\ \A i, j \in ids : i # j => Cardinality(up[i]) # Cardinality(up[j])
      /\ \A k \in 1..Cardinality(ids) : \E i \in ids : Cardinality(up[i]) = k
  BY <1>a, <1>b, <1>2, Ranked
<1>4. \A i \in ids : Cardinality(up[i]) = Cardinality({j \in ids : j <= i})
  BY <1>1
<1>5. QED
  BY <1>3, <1>4

LEMMA RankedDown ==
    ASSUME NEW ids \in SUBSET Int, IsFiniteSet(ids)
    PROVE  /\ Cardinality(ids) \in Nat
           /\ \A i \in ids : Cardinality({j \in ids : j >= i}) \in 1..Cardinality(ids)
           /\ \A i, k \in ids : i # k => Cardinality({j \in ids : j >= i}) # Cardinality({j \in ids : j >= k})
           /\ \A n \in 1..Cardinality(ids) : \E i \in ids : Cardinality({j \in ids : j >= i}) = n
<1> DEFINE up == [i \in ids |-> {j \in ids : j >= i}]
<1>1. up \in [ids -> SUBSET ids] /\ \A i \in ids : i \in up[i] /\ up[i] = {j \in ids : j >= i}
  OBVIOUS
<1>2. \A i, j \in ids : i # j => (up[i] \subseteq up[j] \/ up[j] \subseteq up[i]) /\ up[i] # up[j]
  <2>1. ASSUME NEW i \in ids, NEW j \in ids, i > j PROVE up[i] \subseteq up[j] /\ up[i] # up[j]
    <3>1. \A x \in ids : x \in Int /\ (x \in up[i] <=> x >= i) /\ (x \in up[j] <=> x >= j)
      OBVIOUS
    <3>2. \A x \in ids : x >= i => x >= j
      BY <2>1, <3>1
    <3>3. ~(j >= i)
      BY <2>1, <3>1
    <3> HIDE DEF up
    <3>4. QED
      BY <1>1, <3>1, <3>2, <3>3
  <2>2. \A i, j \in ids : i # j => i < j \/ i > j
    OBVIOUS
  <2>3. \A i, j \in ids : i < j <=> j > i
    OBVIOUS
  <2> HIDE DEF up
  <2>4. QED
    BY <2>1, <2>2, <2>3
<1>a. up \in [ids -> SUBSET ids]
  OBVIOUS
<1>b. \A i \in ids : i \in up[i]
  OBVIOUS
<1> HIDE DEF up
<1>3. /\ Cardinality(ids) \in Nat
      /\ \A i \in ids : Cardinality(up[i]) \in 1..Cardinality(ids)
      /\ \A i, j \in ids : i # j => Cardinality(up[i]) # Cardinality(up[j])
      /\ \A k \in 1..Cardinality(ids) : \E i \in ids : Cardinality(up[i]) = k
  BY <1>a, <1>b, <1>2, Ranked
<1>4. \A i \in ids : Cardinality(up[i]) = Cardinality({j \in ids : j >= i})
  BY <1>1
<1>5. QED
  BY <1>3, <1>4
-----------------------------------------------------------------------------
(* Facts about sums over finite sets, from the proofs about the wallet     *)
(* service, for a service without users.                                   *)
WP == INSTANCE WalletProofs WITH
    Users <- {}, Slots <- {}, Refs <- {}, Grams <- {}, MaxCalls <- 0, Nil <- 0,
    opened <- 0, wallet <- 0, ledger <- 0, call <- 0, calls <- 0,
    credited <- 0, debited <- 0, crossed <- 0, contended <- 0, torn <- 0

LEMMA NoWallet == WP!WalletAssumption
BY DEF WP!WalletAssumption

LEMMA SameSum == ASSUME NEW f, NEW S PROVE WP!SumFunctionOnSet(f, S) = SumFunctionOnSet(f, S)
BY DEF WP!SumFunctionOnSet, WP!FoldFunctionOnSet, WP!MapThenFoldSet,
       SumFunctionOnSet, FoldFunctionOnSet, MapThenFoldSet

LEMMA SameFinite == ASSUME NEW S PROVE WP!IsFiniteSet(S) <=> IsFiniteSet(S)
BY DEF WP!IsFiniteSet, IsFiniteSet

LEMMA SumNothing == ASSUME NEW f PROVE SumFunctionOnSet(f, {}) = 0
BY NoWallet, WP!SumNothing, SameSum

LEMMA SumMore ==
    ASSUME NEW f, NEW S, IsFiniteSet(S), \A x \in S : f[x] \in Int, NEW x \in S
    PROVE  /\ SumFunctionOnSet(f, S) = f[x] + SumFunctionOnSet(f, S \ {x})
           /\ SumFunctionOnSet(f, S) \in Int
<1>1. WP!IsFiniteSet(S)
  BY SameFinite
<1>2. /\ WP!SumFunctionOnSet(f, S) = f[x] + WP!SumFunctionOnSet(f, S \ {x})
      /\ WP!SumFunctionOnSet(f, S) \in Int
  BY <1>1, NoWallet, WP!SumMore
<1>3. /\ WP!SumFunctionOnSet(f, S) = SumFunctionOnSet(f, S)
      /\ WP!SumFunctionOnSet(f, S \ {x}) = SumFunctionOnSet(f, S \ {x})
  BY SameSum
<1>4. QED
  BY <1>2, <1>3

LEMMA SumInt ==
    ASSUME NEW f, NEW S, IsFiniteSet(S), \A x \in S : f[x] \in Int
    PROVE  SumFunctionOnSet(f, S) \in Int
<1>1. \A x \in S : SumFunctionOnSet(f, S) \in Int
  BY SumMore
<1>2. S = {} => SumFunctionOnSet(f, S) = 0
  BY SumNothing
<1>3. QED
  BY <1>1, <1>2

LEMMA SumSame ==
    ASSUME NEW f, NEW e, NEW S, IsFiniteSet(S), \A x \in S : f[x] = e[x]
    PROVE  SumFunctionOnSet(f, S) = SumFunctionOnSet(e, S)
<1>1. WP!IsFiniteSet(S)
  BY SameFinite
<1>2. WP!SumFunctionOnSet(f, S) = WP!SumFunctionOnSet(e, S)
  BY <1>1, NoWallet, WP!SumSame
<1>3. QED
  BY <1>2, SameSum

LEMMA LeastNumber ==
    ASSUME NEW B \in SUBSET Nat, B # {}
    PROVE  \E n \in B : \A m \in B : n <= m
BY NoWallet, WP!LeastNumber

LEMMA Smaller ==
    ASSUME NEW s, IsFiniteSet(s), NEW x \in s
    PROVE  /\ IsFiniteSet(s \ {x}) /\ Cardinality(s) \in Nat /\ Cardinality(s \ {x}) \in Nat
           /\ Cardinality(s \ {x}) = Cardinality(s) - 1
BY FS_RemoveElement, FS_CardinalityType

(* The sum of finitely many naturals is a natural: were it not, a smallest *)
(* set with a bad sum would have a proper subset with one.                 *)
LEMMA SumNat ==
    ASSUME NEW f, NEW S, IsFiniteSet(S), \A x \in S : f[x] \in Nat
    PROVE  SumFunctionOnSet(f, S) \in Nat
<1> DEFINE B == {n \in Nat : \E s \in SUBSET S : Cardinality(s) = n /\ SumFunctionOnSet(f, s) \notin Nat}
<1>1. \A s \in SUBSET S : IsFiniteSet(s) /\ Cardinality(s) \in Nat
  BY FS_Subset, FS_CardinalityType
<1>2. B = {}
  <2>1. SUFFICES ASSUME B # {} PROVE FALSE
    OBVIOUS
  <2>2. PICK n \in B : \A m \in B : n <= m
    BY <2>1, LeastNumber
  <2>3. PICK s \in SUBSET S : Cardinality(s) = n /\ SumFunctionOnSet(f, s) \notin Nat
    OBVIOUS
  <2>4. PICK x : x \in s
    BY <2>3, SumNothing
  <2> DEFINE r == s \ {x}
  <2>5. r \in SUBSET S /\ Cardinality(r) \in Nat /\ Cardinality(r) = n - 1 /\ n \in Nat
    BY <1>1, <2>3, <2>4, Smaller
  <2>6. ~(n <= n - 1)
    BY <2>5
  <2>7. SumFunctionOnSet(f, r) \in Nat
    BY <2>2, <2>5, <2>6
  <2>8. SumFunctionOnSet(f, s) = f[x] + SumFunctionOnSet(f, r)
    BY <1>1, <2>4, SumMore
  <2>9. f[x] \in Nat
    BY <2>4
  <2>10. QED
    BY <2>3, <2>7, <2>8, <2>9
<1>3. QED
  BY <1>1, <1>2

(* The sum over two disjoint sets.                                         *)
LEMMA SumBoth ==
    ASSUME NEW f, NEW S, NEW T, IsFiniteSet(S), IsFiniteSet(T), S \cap T = {},
           \A x \in S \cup T : f[x] \in Int
    PROVE  SumFunctionOnSet(f, S \cup T) = SumFunctionOnSet(f, S) + SumFunctionOnSet(f, T)
<1> DEFINE Fails(t) == SumFunctionOnSet(f, S \cup t) # SumFunctionOnSet(f, S) + SumFunctionOnSet(f, t)
           B == {n \in Nat : \E t \in SUBSET T : Cardinality(t) = n /\ Fails(t)}
<1>1. \A t \in SUBSET T : IsFiniteSet(t) /\ Cardinality(t) \in Nat /\ IsFiniteSet(S \cup t)
  BY FS_Subset, FS_CardinalityType, FS_Union
<1>2. B = {}
  <2>1. SUFFICES ASSUME B # {} PROVE FALSE
    OBVIOUS
  <2>2. PICK n \in B : \A m \in B : n <= m
    BY <2>1, LeastNumber
  <2>3. PICK t \in SUBSET T : Cardinality(t) = n /\ Fails(t)
    OBVIOUS
  <2>a. SumFunctionOnSet(f, S) \in Int
    BY SumInt
  <2>4. PICK x : x \in t
    <3>1. S \cup {} = S
      OBVIOUS
    <3>2. t # {}
      BY <2>3, <2>a, <3>1, SumNothing
    <3>3. QED
      BY <3>2
  <2> DEFINE r == t \ {x}
  <2>5. r \in SUBSET T /\ Cardinality(r) \in Nat /\ Cardinality(r) = n - 1 /\ n \in Nat
    BY <1>1, <2>3, <2>4, Smaller
  <2>6. ~(n <= n - 1)
    BY <2>5
  <2>7. ~Fails(r)
    BY <2>2, <2>5, <2>6
  <2>8. SumFunctionOnSet(f, t) = f[x] + SumFunctionOnSet(f, r)
    <3>1. IsFiniteSet(t) /\ \A y \in t : f[y] \in Int
      BY <1>1
    <3>2. QED
      BY <2>4, <3>1, SumMore
  <2>9. SumFunctionOnSet(f, S \cup t) = f[x] + SumFunctionOnSet(f, S \cup r)
    <3>1. (S \cup t) \ {x} = S \cup r /\ x \in S \cup t
      BY <2>4
    <3>2. IsFiniteSet(S \cup t) /\ \A y \in S \cup t : f[y] \in Int
      BY <1>1
    <3> HIDE DEF r
    <3>3. QED
      BY <3>1, <3>2, SumMore
  <2>10. f[x] \in Int /\ SumFunctionOnSet(f, r) \in Int
    BY <1>1, <2>4, <2>5, SumInt
  <2>11. SumFunctionOnSet(f, S \cup r) = SumFunctionOnSet(f, S) + SumFunctionOnSet(f, r)
    BY <2>7
  <2> HIDE DEF r
  <2>12. QED
    BY <2>3, <2>8, <2>9, <2>10, <2>11, <2>a
<1>3. QED
  BY <1>1, <1>2

LEMMA SumWithin ==
    ASSUME NEW f, NEW S, NEW T, IsFiniteSet(T), S \subseteq T, \A x \in T : f[x] \in Nat
    PROVE  SumFunctionOnSet(f, S) <= SumFunctionOnSet(f, T)
<1> DEFINE r == T \ S
<1>1. IsFiniteSet(S) /\ IsFiniteSet(r) /\ S \cap r = {} /\ S \cup r = T
  BY FS_Subset
<1>2. \A x \in S \cup r : f[x] \in Int
  OBVIOUS
<1>3. SumFunctionOnSet(f, S) \in Nat /\ SumFunctionOnSet(f, r) \in Nat
  BY <1>1, SumNat
<1> HIDE DEF r
<1>4. SumFunctionOnSet(f, T) = SumFunctionOnSet(f, S) + SumFunctionOnSet(f, r)
  BY <1>1, <1>2, SumBoth
<1>5. QED
  BY <1>3, <1>4

(* Sums by parts: what is added up for each k adds up to the whole.        *)
Dated(S, k, E) == {x \in S : k[x] \in E}
Integral(f, S) == \A x \in S : f[x] \in Int
ByParts(g, D, f, S, k) == \A d \in D : g[d] = SumFunctionOnSet(f, Dated(S, k, {d}))

LEMMA SumByParts ==
    ASSUME NEW f, NEW S, IsFiniteSet(S), Integral(f, S), NEW k,
           NEW g, NEW D, IsFiniteSet(D), ByParts(g, D, f, S, k)
    PROVE  SumFunctionOnSet(g, D) = SumFunctionOnSet(f, Dated(S, k, D))
<1> DEFINE In(E) == Dated(S, k, E)
           Fails(E) == SumFunctionOnSet(g, E) # SumFunctionOnSet(f, In(E))
           B == {n \in Nat : \E E \in SUBSET D : Cardinality(E) = n /\ Fails(E)}
<1>1. \A E \in SUBSET D : IsFiniteSet(E) /\ Cardinality(E) \in Nat
  BY FS_Subset, FS_CardinalityType
<1>2. \A E : IsFiniteSet(In(E)) /\ In(E) \subseteq S
  BY FS_Subset DEF Dated
<1>3. \A d \in D : g[d] \in Int /\ g[d] = SumFunctionOnSet(f, In({d}))
  <2>1. ASSUME NEW d \in D PROVE g[d] = SumFunctionOnSet(f, In({d}))
    BY DEF ByParts
  <2>2. ASSUME NEW d \in D PROVE SumFunctionOnSet(f, In({d})) \in Int
    <3>1. IsFiniteSet(In({d})) /\ \A x \in In({d}) : f[x] \in Int
      BY <1>2 DEF Integral
    <3>2. QED
      BY <3>1, SumInt
  <2>3. QED
    BY <2>1, <2>2
<1>4. B = {}
  <2>1. SUFFICES ASSUME B # {} PROVE FALSE
    OBVIOUS
  <2>2. PICK n \in B : \A m \in B : n <= m
    BY <2>1, LeastNumber
  <2>3. PICK E \in SUBSET D : Cardinality(E) = n /\ Fails(E)
    OBVIOUS
  <2>4. PICK d : d \in E
    <3>1. In({}) = {}
      BY DEF Dated
    <3>2. SumFunctionOnSet(g, {}) = SumFunctionOnSet(f, In({}))
      BY <3>1, SumNothing
    <3>3. QED
      BY <2>3, <3>2
  <2> DEFINE r == E \ {d}
  <2>5. r \in SUBSET D /\ Cardinality(r) \in Nat /\ Cardinality(r) = n - 1 /\ n \in Nat
    BY <1>1, <2>3, <2>4, Smaller
  <2>6. ~(n <= n - 1)
    BY <2>5
  <2>7. ~Fails(r)
    BY <2>2, <2>5, <2>6
  <2>8. SumFunctionOnSet(g, E) = g[d] + SumFunctionOnSet(g, r)
    <3>1. IsFiniteSet(E) /\ \A e \in E : g[e] \in Int
      BY <1>1, <1>3
    <3>2. QED
      BY <2>4, <3>1, SumMore
  <2>9. SumFunctionOnSet(f, In(E)) = SumFunctionOnSet(f, In({d})) + SumFunctionOnSet(f, In(r))
    <3>1. In(E) = In({d}) \cup In(r) /\ In({d}) \cap In(r) = {}
      BY <2>4 DEF Dated
    <3>2. \A x \in In({d}) \cup In(r) : f[x] \in Int
      BY <1>2 DEF Integral
    <3>3. IsFiniteSet(In({d})) /\ IsFiniteSet(In(r))
      BY <1>2
    <3> DEFINE a == In({d})
               b == In(r)
    <3>4. IsFiniteSet(a) /\ IsFiniteSet(b) /\ a \cap b = {} /\ (\A x \in a \cup b : f[x] \in Int) /\ In(E) = a \cup b
      BY <3>1, <3>2, <3>3
    <3> HIDE DEF In, r, a, b
    <3>5. SumFunctionOnSet(f, a \cup b) = SumFunctionOnSet(f, a) + SumFunctionOnSet(f, b)
      BY <3>4, SumBoth
    <3>6. QED
      BY <3>4, <3>5 DEF a, b
  <2>10. g[d] = SumFunctionOnSet(f, In({d}))
    BY <1>3, <2>4
  <2>11. SumFunctionOnSet(g, r) = SumFunctionOnSet(f, In(r))
    BY <2>7
  <2> HIDE DEF In, r
  <2>12. QED
    BY <2>3, <2>8, <2>9, <2>10, <2>11
<1>5. QED
  BY <1>1, <1>4, FS_CardinalityType
-----------------------------------------------------------------------------
(***************************************************************************)
(* The table of the purchases page: PurchaseList.                          *)
(***************************************************************************)
(* The cardinality the instance names is that of the library.              *)
LEMMA TableCounts ==
    ASSUME NEW S
    PROVE  /\ PurchaseList!Cardinality(S) = Cardinality(S)
           /\ PurchaseList!IsFiniteSet(S) <=> IsFiniteSet(S)
BY DEF PurchaseList!Cardinality, Cardinality, PurchaseList!IsFiniteSet, IsFiniteSet

(* The rows: of their type, as the seed and the service leave them, and no *)
(* more than there were changes for.                                       *)
TableRowsInv ==
    /\ PurchaseList!RowsTypeOK
    /\ \A i \in DOMAIN rows : PurchaseList!Plausible(rows[i])
    /\ Len(SeedRows) <= Len(rows) /\ Len(rows) <= Len(SeedRows) + changes

LEMMA TableRowsInvInit == ASSUME PurchaseList!RowsAssumption, PurchaseList!RowsInit PROVE TableRowsInv
BY DEF PurchaseList!RowsAssumption, PurchaseList!RowsInit, TableRowsInv, PurchaseList!RowsTypeOK

(* A change adds a row or moves one; none goes.                            *)
LEMMA TableRowsInvStep ==
    ASSUME PurchaseList!RowsAssumption, TableRowsInv, PurchaseList!RowsChange
    PROVE  /\ TableRowsInv' /\ Len(rows) <= Len(rows') /\ changes' = changes + 1
<1> USE DEF TableRowsInv, PurchaseList!RowsTypeOK
<1>1. changes \in Nat /\ changes' = changes + 1 /\ changes' \in 0..MaxRowChanges
  BY DEF PurchaseList!RowsChange, PurchaseList!RowsAssumption
<1>2. CASE PurchaseList!Initiate
  <2>1. PurchaseList!NewRow \in PurchaseList!Row /\ PurchaseList!Plausible(PurchaseList!NewRow)
    BY DEF PurchaseList!NewRow, PurchaseList!Row, PurchaseList!Plausible
  <2>2. QED
    BY <1>1, <1>2, <2>1 DEF PurchaseList!Initiate, PurchaseList!RowsAssumption
<1>3. CASE \E i \in DOMAIN rows : \E r \in PurchaseList!Moved(rows[i]) \ {rows[i]} : rows' = [rows EXCEPT ![i] = r]
  <2>0. PICK i \in DOMAIN rows : \E r \in PurchaseList!Moved(rows[i]) \ {rows[i]} : rows' = [rows EXCEPT ![i] = r]
    BY <1>3
  <2>1. PICK r \in PurchaseList!Moved(rows[i]) : rows' = [rows EXCEPT ![i] = r]
    BY <2>0
  <2>2. rows[i] \in PurchaseList!Row /\ PurchaseList!Plausible(rows[i])
    OBVIOUS
  <2>3. r \in PurchaseList!Row /\ PurchaseList!Plausible(r)
    BY <2>2 DEF PurchaseList!Row, PurchaseList!Moved, PurchaseList!Plausible
  <2>4. rows' \in Seq(PurchaseList!Row) /\ Len(rows') = Len(rows) /\ DOMAIN rows' = DOMAIN rows
    BY <2>1, <2>3
  <2>5. \A j \in DOMAIN rows : rows'[j] \in {rows[j], r}
    BY <2>1
  <2>6. QED
    BY <1>1, <2>3, <2>4, <2>5 DEF PurchaseList!RowsAssumption
<1>4. QED
  BY <1>2, <1>3 DEF PurchaseList!RowsChange

(* NewestFirst is a list of all the ids, each of them once.                *)
LEMMA TableNewestFirstIs ==
    ASSUME NEW ids \in SUBSET Nat, IsFiniteSet(ids)
    PROVE  /\ PurchaseList!NewestFirst(ids) \in Seq(ids) /\ Len(PurchaseList!NewestFirst(ids)) = Cardinality(ids) /\
              Cardinality(ids) \in Nat
           /\ \A k \in 1..Cardinality(ids) :
                PurchaseList!NewestFirst(ids)[k] \in ids /\
                  Cardinality({j \in ids : j >= PurchaseList!NewestFirst(ids)[k]}) = k
<1>1. ids \in SUBSET Int
  OBVIOUS
<1>2. Cardinality(ids) \in Nat /\ \A n \in 1..Cardinality(ids) : \E i \in ids : Cardinality({j \in ids : j >= i}) = n
  BY <1>1, RankedDown
<1> DEFINE nth(k) == CHOOSE i \in ids : Cardinality({j \in ids : j >= i}) = k
<1>3. \A k \in 1..Cardinality(ids) : nth(k) \in ids /\ Cardinality({j \in ids : j >= nth(k)}) = k
  BY <1>2
<1>4. PurchaseList!NewestFirst(ids) = [k \in 1..Cardinality(ids) |-> nth(k)]
  BY DEF PurchaseList!NewestFirst, PurchaseList!Cardinality, Cardinality, PurchaseList!IsFiniteSet, IsFiniteSet
<1> HIDE DEF nth
<1>5. \A k \in 1..Cardinality(ids) : PurchaseList!NewestFirst(ids)[k] = nth(k)
  BY <1>4
<1>6. PurchaseList!NewestFirst(ids) \in Seq(ids) /\ Len(PurchaseList!NewestFirst(ids)) = Cardinality(ids)
  <2> DEFINE c == Cardinality(ids)
             f == [k \in 1..c |-> nth(k)]
  <2>1. c \in Nat /\ \A k \in 1..c : nth(k) \in ids
    BY <1>2, <1>3
  <2>2. f = PurchaseList!NewestFirst(ids)
    BY <1>4
  <2> HIDE DEF c
  <2>3. f \in Seq(ids) /\ Len(f) = c
    BY <2>1
  <2> HIDE DEF f
  <2>4. QED
    BY <2>2, <2>3 DEF c
<1>7. QED
  BY <1>2, <1>3, <1>5, <1>6

(* The ids of a status are ids of rows.                                    *)
LEMMA TableListedIs ==
    ASSUME PurchaseList!RowsTypeOK, NEW s
    PROVE  LET ids == {i \in DOMAIN rows : s = "ALL" \/ rows[i].status = s} IN
           /\ ids \in SUBSET Nat /\ IsFiniteSet(ids) /\ PurchaseList!Listed(s) = PurchaseList!NewestFirst(ids)
           /\ PurchaseList!Listed(s) \in Seq(DOMAIN rows) /\ Len(PurchaseList!Listed(s)) = Cardinality(ids) /\
                Len(PurchaseList!Listed(s)) \in Nat
           /\ \A k \in 1..Len(PurchaseList!Listed(s)) : PurchaseList!Listed(s)[k] \in ids
<1> DEFINE ids == {i \in DOMAIN rows : s = "ALL" \/ rows[i].status = s}
<1>1. DOMAIN rows = 1..Len(rows) /\ Len(rows) \in Nat
  BY DEF PurchaseList!RowsTypeOK
<1>2. IsFiniteSet(1..Len(rows)) /\ ids \subseteq 1..Len(rows) /\ ids \in SUBSET Nat
  BY <1>1, FS_Interval
<1>3. IsFiniteSet(ids)
  BY <1>2, FS_Subset
<1>4. PurchaseList!Listed(s) = PurchaseList!NewestFirst(ids)
  BY DEF PurchaseList!Listed
<1>5. ids \subseteq DOMAIN rows
  OBVIOUS
<1> HIDE DEF ids
<1>6. /\ PurchaseList!NewestFirst(ids) \in Seq(ids) /\ Len(PurchaseList!NewestFirst(ids)) = Cardinality(ids) /\
           Cardinality(ids) \in Nat
      /\ \A k \in 1..Cardinality(ids) : PurchaseList!NewestFirst(ids)[k] \in ids
  BY <1>2, <1>3, TableNewestFirstIs
<1>7. PurchaseList!NewestFirst(ids) \in Seq(DOMAIN rows)
  BY <1>5, <1>6
<1>8. QED
  BY <1>2, <1>3, <1>4, <1>6, <1>7 DEF ids

(* A page is what of a list lies between its first and its last place.     *)
TableRest(skip, size, len) == IF skip + size <= len THEN size ELSE IF skip < len THEN len - skip ELSE 0
TableIsPage(p, S, all, skip, size) ==
    /\ p \in Seq(S) /\ Len(p) \in Nat /\ Len(p) <= size /\ Len(p) = TableRest(skip, size, Len(all))
    /\ \A k \in 1..Len(p) : skip + k \in 1..Len(all) /\ p[k] = all[skip + k]

LEMMA TablePageIs ==
    ASSUME NEW S, NEW all \in Seq(S), NEW n \in Nat \ {0}, NEW size \in Nat \ {0}
    PROVE  TableIsPage(PurchaseList!PageOf(all, n, size), S, all, (n - 1) * size, size)
<1> DEFINE skip == (n - 1) * size
           last == IF n * size <= Len(all) THEN n * size ELSE Len(all)
<1>1. skip \in Nat /\ n * size \in Nat /\ n * size = skip + size
  <2>1. n - 1 \in Nat /\ n = (n - 1) + 1
    OBVIOUS
  <2>2. \A m, b \in Nat : m * b \in Nat /\ (m + 1) * b = m * b + b
    OBVIOUS
  <2>3. QED
    BY <2>1, <2>2
<1>2. Len(all) \in Nat /\ last \in Nat /\ last <= Len(all) /\ last <= skip + size
  BY <1>1
<1>3. PurchaseList!PageOf(all, n, size) = IF skip >= last THEN <<>> ELSE SubSeq(all, skip + 1, last)
  BY DEF PurchaseList!PageOf
<1>4. last = IF skip + size <= Len(all) THEN skip + size ELSE Len(all)
  BY <1>1
<1>n. n * size <= Len(all) <=> skip + size <= Len(all)
  BY <1>1
<1>s. (n - 1) * size = skip
  OBVIOUS
<1> HIDE DEF skip, last
<1>5. CASE skip >= last
  <2>1. PurchaseList!PageOf(all, n, size) = <<>>
    BY <1>3, <1>5
  <2>2. ~(skip + size <= Len(all)) /\ ~(skip < Len(all))
    BY <1>1, <1>2, <1>4, <1>5
  <2>3. QED
    BY <2>1, <2>2, <1>n, <1>s, <1>1 DEF TableIsPage, TableRest
<1>6. CASE skip < last
  <2>1. PurchaseList!PageOf(all, n, size) = SubSeq(all, skip + 1, last)
    BY <1>1, <1>2, <1>3, <1>6
  <2>2. /\ SubSeq(all, skip + 1, last) \in Seq(S) /\ Len(SubSeq(all, skip + 1, last)) = last - skip
        /\ \A k \in 1..(last - skip) : SubSeq(all, skip + 1, last)[k] = all[skip + k]
    BY <1>1, <1>2, <1>6
  <2>3. last - skip \in Nat /\ last - skip <= size /\ \A k \in 1..(last - skip) : skip + k \in 1..Len(all)
    BY <1>1, <1>2, <1>6
  <2>4. last - skip = IF skip + size <= Len(all) THEN size ELSE IF skip < Len(all) THEN Len(all) - skip ELSE 0
    BY <1>1, <1>2, <1>4, <1>6
  <2>5. QED
    BY <2>1, <2>2, <2>3, <2>4, <1>n, <1>s DEF TableIsPage, TableRest
<1>7. QED
  BY <1>1, <1>2, <1>5, <1>6

(* How many pages t rows have.                                             *)
TablePagesOf(t) == IF t <= PageSize THEN 1 ELSE (t + PageSize - 1) \div PageSize

LEMMA TablePagesAre ==
    ASSUME PurchaseList!ListAssumption, NEW t \in Nat
    PROVE  TablePagesOf(t) \in Nat /\ 1 <= TablePagesOf(t)
<1>1. PageSize \in Nat \ {0}
  BY DEF PurchaseList!ListAssumption
<1>2. CASE t <= PageSize
  BY <1>2 DEF TablePagesOf
<1>3. CASE ~(t <= PageSize)
  <2>1. (t + PageSize - 1) \div PageSize >= 1 /\ (t + PageSize - 1) \div PageSize \in Int
    BY <1>1, <1>3
  <2>2. QED
    BY <1>3, <2>1 DEF TablePagesOf
<1>4. QED
  BY <1>2, <1>3
-----------------------------------------------------------------------------
(* What was read of a query, if nothing changed since, is its page; and    *)
(* while nothing has changed at all its total is that of its list, and the *)
(* page number is one the list has.                                        *)
TableReadOK(k, a) ==
    /\ a.age <= changes /\ Len(a.items) <= PageSize
    /\ a.age = changes =>
         a.items = PurchaseList!PageOf(PurchaseList!Listed(PurchaseList!ApiStatus(k[1])), k[2], PageSize)
TableTotalOK(k, a) == changes = 0 => a.total = Len(PurchaseList!Listed(PurchaseList!ApiStatus(k[1])))
TablePageOK(f, p) == changes = 0 => p = 1 \/ p <= TablePagesOf(Len(PurchaseList!Listed(PurchaseList!ApiStatus(f))))

TableQuery == [pc : {"idle", "find", "count", "answer"}, items : Seq(Nat), total : Nat, age : Nat]
TableAnswer == [items : Seq(Nat), total : Nat, age : Nat]

TableUiInv == TableRowsInv /\ filter \in Filters /\ page \in 1..MaxPage /\ TablePageOK(filter, page)
TableAskedInv ==
    /\ asked \in [PurchaseList!Keys -> TableQuery]
    /\ \A k \in PurchaseList!Keys : /\ asked[k].pc \in {"count", "answer"} => TableReadOK(k, asked[k])
                                    /\ asked[k].pc = "answer" => TableTotalOK(k, asked[k])
TableCacheInv ==
    /\ DOMAIN cache = PurchaseList!Keys
    /\ \A k \in PurchaseList!Keys : cache[k] # Nil =>
         cache[k] \in TableAnswer /\ TableReadOK(k, cache[k]) /\ TableTotalOK(k, cache[k])

TableListInv == TableUiInv /\ TableAskedInv /\ TableCacheInv

LEMMA TableListInvInit == ASSUME PurchaseList!ListAssumption, PurchaseList!Init PROVE TableListInv
<1>1. TableUiInv
  BY TableRowsInvInit DEF PurchaseList!ListAssumption, PurchaseList!Init, TableUiInv, TablePageOK
<1>2. PurchaseList!NoAnswer \in TableQuery /\ PurchaseList!NoAnswer.pc = "idle"
  BY DEF PurchaseList!NoAnswer, TableQuery
<1>3. TableAskedInv
  BY <1>2 DEF PurchaseList!Init, TableAskedInv
<1>4. TableCacheInv
  BY DEF PurchaseList!Init, TableCacheInv
<1>5. QED
  BY <1>1, <1>3, <1>4 DEF TableListInv

LEMMA TableSameRows ==
    ASSUME UNCHANGED <<rows, changes>>
    PROVE  /\ \A k, a : TableReadOK(k, a)' <=> TableReadOK(k, a)
           /\ \A k, a : TableTotalOK(k, a)' <=> TableTotalOK(k, a)
           /\ \A f, p : TablePageOK(f, p)' <=> TablePageOK(f, p)
BY DEF TableReadOK, TableTotalOK, TablePageOK, PurchaseList!Listed, PurchaseList!NewestFirst, PurchaseList!Cardinality,
     Cardinality, PurchaseList!IsFiniteSet, IsFiniteSet

(* A change of the rows makes what was read before it old.                 *)
LEMMA TableChangeKeeps ==
    ASSUME PurchaseList!ListAssumption, TableListInv, PurchaseList!RowsChange,
           UNCHANGED <<PurchaseList!ui, cache, asked>>
    PROVE  TableListInv'
<1>1. TableRowsInv' /\ changes' = changes + 1 /\ changes \in Nat /\ UNCHANGED <<filter, page, cache, asked>>
  BY TableRowsInvStep DEF TableListInv, TableUiInv, TableRowsInv, PurchaseList!RowsTypeOK, PurchaseList!ListAssumption,
       PurchaseList!ui
<1>2. \A f, p : TablePageOK(f, p)'
  BY <1>1 DEF TablePageOK
<1>3. ASSUME NEW k, NEW a, a.age \in Nat, TableReadOK(k, a) PROVE TableReadOK(k, a)'
  BY <1>1, <1>3 DEF TableReadOK
<1>4. \A k, a : TableTotalOK(k, a)'
  BY <1>1 DEF TableTotalOK
<1>5. TableUiInv'
  BY <1>1, <1>2 DEF TableListInv, TableUiInv
<1>6. \A k \in PurchaseList!Keys : asked[k].age \in Nat
  BY DEF TableListInv, TableAskedInv, TableQuery
<1>7. TableAskedInv'
  BY <1>1, <1>3, <1>4, <1>6 DEF TableListInv, TableAskedInv, PurchaseList!Keys
<1>8. \A k \in PurchaseList!Keys : cache[k] # Nil => cache[k].age \in Nat
  BY DEF TableListInv, TableCacheInv, TableAnswer
<1>9. TableCacheInv'
  BY <1>1, <1>3, <1>4, <1>8 DEF TableListInv, TableCacheInv, PurchaseList!Keys
<1>10. QED
  BY <1>5, <1>7, <1>9 DEF TableListInv

(* Asking a query leaves the answers on their way.                         *)
LEMMA TableAsksKeeps ==
    ASSUME TableAskedInv, NEW k \in PurchaseList!Keys, PurchaseList!Asks(k), UNCHANGED <<rows, changes>>
    PROVE  TableAskedInv'
<1> DEFINE q == [asked[k] EXCEPT !.pc = IF asked[k].pc = "idle" THEN "find" ELSE asked[k].pc]
<1>1. asked[k] \in TableQuery
  BY DEF TableAskedInv
<1>2. q \in TableQuery /\ q.pc = (IF asked[k].pc = "idle" THEN "find" ELSE asked[k].pc) /\
        (q.pc # "find" => q = asked[k])
  BY <1>1 DEF TableQuery
<1>3. asked' = [asked EXCEPT ![k] = q]
  BY DEF PurchaseList!Asks
<1> HIDE DEF q
<1>4. asked' \in [PurchaseList!Keys -> TableQuery] /\
        \A l \in PurchaseList!Keys : asked'[l] = IF l = k THEN q ELSE asked[l]
  BY <1>2, <1>3 DEF TableAskedInv
<1>5. \A l \in PurchaseList!Keys : /\ asked'[l].pc \in {"count", "answer"} => TableReadOK(l, asked'[l])
                                   /\ asked'[l].pc = "answer" => TableTotalOK(l, asked'[l])
  BY <1>2, <1>4 DEF TableAskedInv
<1>6. QED
  BY <1>4, <1>5, TableSameRows DEF TableAskedInv, PurchaseList!Keys

LEMMA TableUiKeeps ==
    ASSUME PurchaseList!ListAssumption, TableListInv,
           PurchaseList!Open \/ (\E f \in Filters : PurchaseList!UpdateFilter(f)) \/
             (\E p \in 0..MaxPage : PurchaseList!Turn(p))
    PROVE  TableListInv'
<1>1. UNCHANGED <<rows, changes, cache>>
  BY DEF PurchaseList!Open, PurchaseList!UpdateFilter, PurchaseList!Turn
<1>2. TableCacheInv'
  BY <1>1, TableSameRows DEF TableListInv, TableCacheInv, PurchaseList!Keys
<1>3. TableRowsInv' /\ MaxPage \in Nat \ {0}
  BY <1>1 DEF TableListInv, TableUiInv, TableRowsInv, PurchaseList!RowsTypeOK, PurchaseList!ListAssumption
<1>4. CASE PurchaseList!Open
  <2>1. UNCHANGED <<filter, page>> /\ PurchaseList!Asks(PurchaseList!Here) /\ PurchaseList!Here \in PurchaseList!Keys
    BY <1>4 DEF PurchaseList!Open, PurchaseList!ui, PurchaseList!Here, PurchaseList!Keys, TableListInv, TableUiInv
  <2>2. TableAskedInv'
    BY <1>1, <2>1, TableAsksKeeps DEF TableListInv
  <2>3. TableUiInv'
    BY <1>1, <1>3, <2>1, TableSameRows DEF TableListInv, TableUiInv
  <2>4. QED
    BY <1>2, <2>2, <2>3 DEF TableListInv
<1>5. ASSUME NEW f \in Filters, PurchaseList!UpdateFilter(f) PROVE TableListInv'
  <2>1. filter' = f /\ page' = 1 /\ PurchaseList!Asks(<<f, 1>>) /\ <<f, 1>> \in PurchaseList!Keys
    BY <1>3, <1>5 DEF PurchaseList!UpdateFilter, PurchaseList!Keys
  <2>2. TableAskedInv'
    BY <1>1, <2>1, TableAsksKeeps DEF TableListInv
  <2>3. TablePageOK(f, 1)
    BY DEF TablePageOK
  <2>4. TableUiInv'
    BY <1>1, <1>3, <2>1, <2>3, TableSameRows DEF TableListInv, TableUiInv
  <2>5. QED
    BY <1>2, <2>2, <2>4 DEF TableListInv
<1>6. ASSUME NEW p \in 0..MaxPage, PurchaseList!Turn(p) PROVE TableListInv'
  <2>1. /\ page' = p /\ filter' = filter /\ PurchaseList!Asks(<<filter, p>>) /\ page \in 1..MaxPage /\
             filter \in Filters
        /\ (p = page - 1 /\ page > 1) \/ (p = page + 1 /\ page < PurchaseList!TotalPages)
    BY <1>6 DEF PurchaseList!Turn, TableListInv, TableUiInv
  <2>2. p \in 1..MaxPage /\ <<filter, p>> \in PurchaseList!Keys /\ PurchaseList!Here \in PurchaseList!Keys /\
          PurchaseList!Here[1] = filter
    BY <1>3, <2>1 DEF PurchaseList!Keys, PurchaseList!Here
  <2>3. TableAskedInv'
    BY <1>1, <2>1, <2>2, TableAsksKeeps DEF TableListInv
  <2>a. Len(PurchaseList!Listed(PurchaseList!ApiStatus(filter))) \in Nat
    BY TableListedIs DEF TableListInv, TableUiInv, TableRowsInv
  <2>b. TablePagesOf(Len(PurchaseList!Listed(PurchaseList!ApiStatus(filter)))) \in Nat
    BY <2>a, TablePagesAre
  <2>4. TablePageOK(filter, p)
    <3>1. SUFFICES ASSUME changes = 0 PROVE p = 1 \/
            p <= TablePagesOf(Len(PurchaseList!Listed(PurchaseList!ApiStatus(filter))))
      BY DEF TablePageOK
    <3>2. CASE p = page - 1
      BY <3>1, <3>2, <2>1, <2>b DEF TablePageOK, TableListInv, TableUiInv
    <3>3. CASE p = page + 1 /\ page < PurchaseList!TotalPages
      <4>1. PurchaseList!TotalPages = TablePagesOf(PurchaseList!Total)
        BY DEF PurchaseList!TotalPages, TablePagesOf
      <4>2. cache[PurchaseList!Here] # Nil
        <5>1. SUFFICES ASSUME cache[PurchaseList!Here] = Nil PROVE FALSE
          OBVIOUS
        <5>2. PurchaseList!Total = 0 /\ PageSize \in Nat \ {0}
          BY <5>1 DEF PurchaseList!Total, PurchaseList!ListAssumption
        <5>3. PurchaseList!TotalPages = 1
          BY <5>2 DEF PurchaseList!TotalPages
        <5>4. QED
          BY <2>1, <3>3, <5>3
      <4>3. PurchaseList!Total = Len(PurchaseList!Listed(PurchaseList!ApiStatus(filter)))
        BY <2>2, <3>1, <4>2 DEF PurchaseList!Total, TableListInv, TableCacheInv, TableTotalOK
      <4>4. QED
        BY <2>1, <2>b, <3>3, <4>1, <4>3
    <3>4. QED
      BY <2>1, <3>2, <3>3
  <2>5. TableUiInv'
    BY <1>1, <1>3, <2>1, <2>2, <2>4, TableSameRows DEF TableListInv, TableUiInv
  <2>6. QED
    BY <1>2, <2>3, <2>5 DEF TableListInv
<1>7. QED
  BY <1>4, <1>5, <1>6

LEMMA TableAnswersKeep ==
    ASSUME PurchaseList!ListAssumption, TableListInv, NEW k \in PurchaseList!Keys,
           PurchaseList!FindMany(k) \/ PurchaseList!Count(k) \/ PurchaseList!Answered(k) \/ PurchaseList!Failed(k)
    PROVE  TableListInv'
<1>1. UNCHANGED <<rows, changes, filter, page>>
  BY DEF PurchaseList!FindMany, PurchaseList!Count, PurchaseList!Answered, PurchaseList!Failed, PurchaseList!ui
<1>2. TableUiInv'
  BY <1>1, TableSameRows DEF TableListInv, TableUiInv, TableRowsInv, PurchaseList!RowsTypeOK
<1>3. changes \in Nat /\ PurchaseList!RowsTypeOK
  BY DEF TableListInv, TableUiInv, TableRowsInv, PurchaseList!RowsTypeOK
<1>q. asked \in [PurchaseList!Keys -> TableQuery] /\ asked[k] \in TableQuery
  BY DEF TableListInv, TableAskedInv
<1>l. /\ k[1] \in Filters /\ k[2] \in Nat \ {0} /\ PageSize \in Nat \ {0}
      /\ PurchaseList!Listed(PurchaseList!ApiStatus(k[1])) \in Seq(Nat) /\
           Len(PurchaseList!Listed(PurchaseList!ApiStatus(k[1]))) \in Nat
  <2>1. PurchaseList!Listed(PurchaseList!ApiStatus(k[1])) \in Seq(DOMAIN rows) /\
          Len(PurchaseList!Listed(PurchaseList!ApiStatus(k[1]))) \in Nat
    BY <1>3, TableListedIs
  <2>2. DOMAIN rows \subseteq Nat
    BY <1>3 DEF PurchaseList!RowsTypeOK
  <2>3. MaxPage \in Nat /\ PageSize \in Nat \ {0}
    BY DEF PurchaseList!ListAssumption
  <2>4. QED
    BY <2>1, <2>2, <2>3 DEF PurchaseList!Keys
<1>s. ASSUME NEW q \in TableQuery, asked' = [asked EXCEPT ![k] = q],
             q.pc \in {"count", "answer"} => TableReadOK(k, q), q.pc = "answer" => TableTotalOK(k, q)
      PROVE  TableAskedInv'
  <2>1. asked' \in [PurchaseList!Keys -> TableQuery] /\
          \A l \in PurchaseList!Keys : asked'[l] = IF l = k THEN q ELSE asked[l]
    BY <1>q, <1>s
  <2>2. \A l \in PurchaseList!Keys : /\ asked'[l].pc \in {"count", "answer"} => TableReadOK(l, asked'[l])
                                     /\ asked'[l].pc = "answer" => TableTotalOK(l, asked'[l])
    BY <1>s, <2>1 DEF TableListInv, TableAskedInv
  <2>3. QED
    BY <1>1, <2>1, <2>2, TableSameRows DEF TableAskedInv, PurchaseList!Keys
<1>c. ASSUME UNCHANGED cache PROVE TableCacheInv'
  BY <1>1, <1>c, TableSameRows DEF TableListInv, TableCacheInv, PurchaseList!Keys
<1>n. PurchaseList!NoAnswer \in TableQuery /\ PurchaseList!NoAnswer.pc = "idle"
  BY DEF PurchaseList!NoAnswer, TableQuery
<1>4. CASE PurchaseList!FindMany(k)
  <2> DEFINE q == [pc |-> "count", total |-> 0, age |-> changes,
                   items |-> PurchaseList!PageOf(PurchaseList!Listed(PurchaseList!ApiStatus(k[1])), k[2], PageSize)]
  <2>1. asked' = [asked EXCEPT ![k] = q] /\ UNCHANGED cache
    BY <1>4 DEF PurchaseList!FindMany
  <2>2. /\ PurchaseList!PageOf(PurchaseList!Listed(PurchaseList!ApiStatus(k[1])), k[2], PageSize) \in Seq(Nat)
        /\ Len(PurchaseList!PageOf(PurchaseList!Listed(PurchaseList!ApiStatus(k[1])), k[2], PageSize)) <= PageSize
    BY <1>l, TablePageIs DEF TableIsPage
  <2>3. q \in TableQuery /\ q.pc = "count" /\ TableReadOK(k, q)
    BY <1>3, <2>2 DEF TableQuery, TableReadOK
  <2> HIDE DEF q
  <2>4. TableAskedInv'
    BY <1>s, <2>1, <2>3
  <2>5. QED
    BY <1>2, <1>c, <2>1, <2>4 DEF TableListInv
<1>5. CASE PurchaseList!Count(k)
  <2> DEFINE q == [pc |-> "answer", items |-> asked[k].items, age |-> asked[k].age,
                   total |-> Len(PurchaseList!Listed(PurchaseList!ApiStatus(k[1])))]
  <2>1. asked' = [asked EXCEPT ![k] = q] /\ UNCHANGED cache /\ asked[k].pc = "count"
    BY <1>5 DEF PurchaseList!Count
  <2>2. TableReadOK(k, asked[k])
    BY <2>1 DEF TableListInv, TableAskedInv
  <2>3. q \in TableQuery /\ q.pc = "answer" /\ TableReadOK(k, q) /\ TableTotalOK(k, q)
    BY <1>q, <1>l, <2>2 DEF TableQuery, TableReadOK, TableTotalOK
  <2> HIDE DEF q
  <2>4. TableAskedInv'
    BY <1>s, <2>1, <2>3
  <2>5. QED
    BY <1>2, <1>c, <2>1, <2>4 DEF TableListInv
<1>6. CASE PurchaseList!Failed(k)
  <2>1. asked' = [asked EXCEPT ![k] = PurchaseList!NoAnswer] /\ UNCHANGED cache
    BY <1>6 DEF PurchaseList!Failed
  <2>2. TableAskedInv'
    BY <1>s, <1>n, <2>1
  <2>3. QED
    BY <1>2, <1>c, <2>1, <2>2 DEF TableListInv
<1>7. CASE PurchaseList!Answered(k)
  <2> DEFINE a == [items |-> asked[k].items, total |-> asked[k].total, age |-> asked[k].age]
  <2>1. asked' = [asked EXCEPT ![k] = PurchaseList!NoAnswer] /\ cache' = [cache EXCEPT ![k] = a] /\
          asked[k].pc = "answer"
    BY <1>7 DEF PurchaseList!Answered
  <2>2. TableReadOK(k, asked[k]) /\ TableTotalOK(k, asked[k])
    BY <2>1 DEF TableListInv, TableAskedInv
  <2>3. a \in TableAnswer /\ TableReadOK(k, a) /\ TableTotalOK(k, a)
    BY <1>q, <2>2 DEF TableQuery, TableAnswer, TableReadOK, TableTotalOK
  <2> HIDE DEF a
  <2>4. DOMAIN cache' = PurchaseList!Keys /\ \A l \in PurchaseList!Keys : cache'[l] = IF l = k THEN a ELSE cache[l]
    BY <2>1 DEF TableListInv, TableCacheInv
  <2>5. \A l \in PurchaseList!Keys : cache'[l] # Nil =>
          cache'[l] \in TableAnswer /\ TableReadOK(l, cache'[l]) /\ TableTotalOK(l, cache'[l])
    BY <2>3, <2>4 DEF TableListInv, TableCacheInv
  <2>6. TableCacheInv'
    BY <1>1, <2>4, <2>5, TableSameRows DEF TableCacheInv, PurchaseList!Keys, TableAnswer
  <2>7. TableAskedInv'
    BY <1>s, <1>n, <2>1
  <2>8. QED
    BY <1>2, <2>6, <2>7 DEF TableListInv
<1>8. QED
  BY <1>4, <1>5, <1>6, <1>7

LEMMA TableListInvStep ==
    ASSUME PurchaseList!ListAssumption, TableListInv, [PurchaseList!Next]_(PurchaseList!vars)
    PROVE  TableListInv'
<1>1. CASE UNCHANGED PurchaseList!vars
  <2>1. UNCHANGED <<rows, changes, filter, page, cache, asked>>
    BY <1>1 DEF PurchaseList!vars, PurchaseList!ui
  <2>2. TableUiInv'
    BY <2>1, TableSameRows DEF TableListInv, TableUiInv, TableRowsInv, PurchaseList!RowsTypeOK
  <2>3. TableAskedInv'
    BY <2>1, TableSameRows DEF TableListInv, TableAskedInv, PurchaseList!Keys
  <2>4. TableCacheInv'
    BY <2>1, TableSameRows DEF TableListInv, TableCacheInv, PurchaseList!Keys
  <2>5. QED
    BY <2>2, <2>3, <2>4 DEF TableListInv
<1>2. QED
  BY <1>1, TableChangeKeeps, TableUiKeeps, TableAnswersKeep DEF PurchaseList!Next
-----------------------------------------------------------------------------
(* For a filter the API knows, the browser matches what the API gives.     *)
LEMMA TableApiFilters ==
    ASSUME PurchaseList!ListAssumption, NEW r \in PurchaseList!Row, PurchaseList!Plausible(r),
           NEW f \in Filters \ {"PAID", "IN_PROGRESS", "WAITING_PAYMENT"}
    PROVE  PurchaseList!Matches(r, f) <=> (PurchaseList!ApiStatus(f) = "ALL" \/ r.status = PurchaseList!ApiStatus(f))
<1>1. f \in {"ALL", "PENDING", "CONTRACT_SIGNED", "COMPLETED", "CANCELLED"} /\ PurchaseList!ApiStatus(f) = f
  BY DEF PurchaseList!ListAssumption, PurchaseList!ApiStatus
<1>2. QED
  BY <1>1 DEF PurchaseList!Row, PurchaseList!Plausible, PurchaseList!Matches, PurchaseList!DisplayStatus

LEMMA TableListInvImplies ==
    ASSUME PurchaseList!ListAssumption, TableListInv
    PROVE  PurchaseList!TypeOK /\ PurchaseList!TableIsItsPage /\ PurchaseList!NeverPastTheEnd
<1>1. PurchaseList!TypeOK
  BY DEF TableListInv, TableUiInv, TableAskedInv, TableCacheInv, TableRowsInv, PurchaseList!TypeOK, TableQuery,
       TableReadOK
<1>k. PurchaseList!Here \in PurchaseList!Keys /\ PurchaseList!Here[1] = filter /\ PurchaseList!Here[2] = page /\
        filter \in Filters /\ page \in Nat \ {0}
  BY DEF PurchaseList!Here, PurchaseList!Keys, TableListInv, TableUiInv
<1>r. PurchaseList!RowsTypeOK /\ PageSize \in Nat \ {0} /\ \A i \in DOMAIN rows : rows[i] \in PurchaseList!Row /\
        PurchaseList!Plausible(rows[i])
  BY DEF TableListInv, TableUiInv, TableRowsInv, PurchaseList!RowsTypeOK, PurchaseList!ListAssumption
<1>2. PurchaseList!TableIsItsPage
  <2> SUFFICES ASSUME PurchaseList!Fresh, filter \notin {"PAID", "IN_PROGRESS", "WAITING_PAYMENT"}
               PROVE  /\ cache[PurchaseList!Here].items =
                           PurchaseList!PageOf(
                             PurchaseList!NewestFirst({i \in DOMAIN rows : PurchaseList!Matches(rows[i], filter)}),
                             page, PageSize)
                      /\ PurchaseList!Hidden(PurchaseList!Here) = {}
    BY DEF PurchaseList!TableIsItsPage
  <2> DEFINE ids == {i \in DOMAIN rows : PurchaseList!ApiStatus(filter) = "ALL" \/ rows[i].status =
                     PurchaseList!ApiStatus(filter)}
  <2>1. cache[PurchaseList!Here].items = PurchaseList!PageOf(PurchaseList!Listed(PurchaseList!ApiStatus(filter)), page,
                                                             PageSize)
    BY <1>k DEF PurchaseList!Fresh, TableListInv, TableCacheInv, TableReadOK
  <2>2. \A i \in DOMAIN rows :
          PurchaseList!Matches(rows[i], filter) <=>
          (PurchaseList!ApiStatus(filter) = "ALL" \/ rows[i].status = PurchaseList!ApiStatus(filter))
    BY <1>k, <1>r, TableApiFilters
  <2>3. ids = {i \in DOMAIN rows : PurchaseList!Matches(rows[i], filter)}
    BY <2>2
  <2>4. /\ PurchaseList!Listed(PurchaseList!ApiStatus(filter)) = PurchaseList!NewestFirst(ids) /\
             PurchaseList!Listed(PurchaseList!ApiStatus(filter)) \in Seq(DOMAIN rows)
        /\ \A n \in 1..Len(PurchaseList!Listed(PurchaseList!ApiStatus(filter))) :
             PurchaseList!Listed(PurchaseList!ApiStatus(filter))[n] \in ids
    BY <1>r, TableListedIs
  <2> DEFINE all == PurchaseList!Listed(PurchaseList!ApiStatus(filter))
  <2> HIDE DEF all, ids
  <2>5. PurchaseList!PageOf(all, page, PageSize) \in Seq(DOMAIN rows) /\
        \A n \in 1..Len(PurchaseList!PageOf(all, page, PageSize)) :
            (page - 1) * PageSize + n \in 1..Len(all) /\
            PurchaseList!PageOf(all, page, PageSize)[n] = all[(page - 1) * PageSize + n]
    <3>1. all \in Seq(DOMAIN rows)
      BY <2>4 DEF all
    <3>2. QED
      BY <1>k, <1>r, <3>1, TablePageIs DEF TableIsPage
  <2>6. \A n \in 1..Len(PurchaseList!PageOf(all, page, PageSize)) : PurchaseList!PageOf(all, page, PageSize)[n] \in ids
    <3>1. \A n \in 1..Len(all) : all[n] \in ids
      BY <2>4 DEF all
    <3>2. QED
      BY <2>5, <3>1
  <2>7. \A n \in DOMAIN cache[PurchaseList!Here].items :
          PurchaseList!Matches(rows[cache[PurchaseList!Here].items[n]], filter)
    <3>1. cache[PurchaseList!Here].items = PurchaseList!PageOf(all, page, PageSize)
      BY <2>1 DEF all
    <3>2. DOMAIN PurchaseList!PageOf(all, page, PageSize) = 1..Len(PurchaseList!PageOf(all, page, PageSize))
      BY <2>5
    <3>3. \A i \in ids : PurchaseList!Matches(rows[i], filter)
      BY <2>3
    <3>4. QED
      BY <2>6, <3>1, <3>2, <3>3
  <2>8. PurchaseList!Hidden(PurchaseList!Here) = {}
    BY <1>k, <2>7 DEF PurchaseList!Hidden
  <2>9. QED
    BY <2>1, <2>3, <2>4, <2>8
<1>3. PurchaseList!NeverPastTheEnd
  <2> SUFFICES ASSUME changes = 0, cache[PurchaseList!Here] # Nil PROVE page <= PurchaseList!TotalPages
    BY DEF PurchaseList!NeverPastTheEnd
  <2>1. PurchaseList!Total = Len(PurchaseList!Listed(PurchaseList!ApiStatus(filter))) /\
          PurchaseList!TotalPages = TablePagesOf(PurchaseList!Total)
    BY <1>k DEF PurchaseList!Total, PurchaseList!TotalPages, TablePagesOf, TableListInv, TableCacheInv, TableTotalOK
  <2>2. Len(PurchaseList!Listed(PurchaseList!ApiStatus(filter))) \in Nat
    BY <1>r, TableListedIs
  <2>3. PurchaseList!TotalPages \in Nat /\ 1 <= PurchaseList!TotalPages
    BY <2>1, <2>2, TablePagesAre
  <2>4. page = 1 \/ page <= PurchaseList!TotalPages
    BY <2>1 DEF TableListInv, TableUiInv, TablePageOK
  <2>5. QED
    BY <2>3, <2>4
<1>4. QED
  BY <1>1, <1>2, <1>3

LEMMA TableListHolds == PurchaseList!ListAssumption =>
  (PurchaseList!Spec => [](PurchaseList!TypeOK /\ PurchaseList!TableIsItsPage /\ PurchaseList!NeverPastTheEnd))
<1>1. SUFFICES ASSUME PurchaseList!ListAssumption PROVE PurchaseList!Spec =>
        [](PurchaseList!TypeOK /\ PurchaseList!TableIsItsPage /\ PurchaseList!NeverPastTheEnd)
  OBVIOUS
<1>2. PurchaseList!Init => TableListInv
  BY <1>1, TableListInvInit
<1>3. TableListInv /\ [PurchaseList!Next]_(PurchaseList!vars) => TableListInv'
  BY <1>1, TableListInvStep
<1>4. TableListInv => PurchaseList!TypeOK /\ PurchaseList!TableIsItsPage /\ PurchaseList!NeverPastTheEnd
  BY <1>1, TableListInvImplies
<1>5. QED
  BY <1>2, <1>3, <1>4, PTL DEF PurchaseList!Spec
-----------------------------------------------------------------------------
(***************************************************************************)
(* The cards of the purchases page: PurchaseStats.                         *)
(***************************************************************************)
(* The cardinality the instance names is that of the library.              *)
LEMMA CardsCounts ==
    ASSUME NEW S
    PROVE  /\ PurchaseStats!Cardinality(S) = Cardinality(S)
           /\ PurchaseStats!IsFiniteSet(S) <=> IsFiniteSet(S)
BY DEF PurchaseStats!Cardinality, Cardinality, PurchaseStats!IsFiniteSet, IsFiniteSet

(* The rows: of their type, as the seed and the service leave them, and no *)
(* more than there were changes for.                                       *)
CardsRowsInv ==
    /\ PurchaseStats!RowsTypeOK
    /\ \A i \in DOMAIN rows : PurchaseStats!Plausible(rows[i])
    /\ Len(SeedRows) <= Len(rows) /\ Len(rows) <= Len(SeedRows) + changes

LEMMA CardsRowsInvInit == ASSUME PurchaseStats!RowsAssumption, PurchaseStats!RowsInit PROVE CardsRowsInv
BY DEF PurchaseStats!RowsAssumption, PurchaseStats!RowsInit, CardsRowsInv, PurchaseStats!RowsTypeOK

(* A change adds a row or moves one; none goes.                            *)
LEMMA CardsRowsInvStep ==
    ASSUME PurchaseStats!RowsAssumption, CardsRowsInv, PurchaseStats!RowsChange
    PROVE  /\ CardsRowsInv' /\ Len(rows) <= Len(rows') /\ changes' = changes + 1
<1> USE DEF CardsRowsInv, PurchaseStats!RowsTypeOK
<1>1. changes \in Nat /\ changes' = changes + 1 /\ changes' \in 0..MaxRowChanges
  BY DEF PurchaseStats!RowsChange, PurchaseStats!RowsAssumption
<1>2. CASE PurchaseStats!Initiate
  <2>1. PurchaseStats!NewRow \in PurchaseStats!Row /\ PurchaseStats!Plausible(PurchaseStats!NewRow)
    BY DEF PurchaseStats!NewRow, PurchaseStats!Row, PurchaseStats!Plausible
  <2>2. QED
    BY <1>1, <1>2, <2>1 DEF PurchaseStats!Initiate, PurchaseStats!RowsAssumption
<1>3. CASE \E i \in DOMAIN rows : \E r \in PurchaseStats!Moved(rows[i]) \ {rows[i]} : rows' = [rows EXCEPT ![i] = r]
  <2>0. PICK i \in DOMAIN rows : \E r \in PurchaseStats!Moved(rows[i]) \ {rows[i]} : rows' = [rows EXCEPT ![i] = r]
    BY <1>3
  <2>1. PICK r \in PurchaseStats!Moved(rows[i]) : rows' = [rows EXCEPT ![i] = r]
    BY <2>0
  <2>2. rows[i] \in PurchaseStats!Row /\ PurchaseStats!Plausible(rows[i])
    OBVIOUS
  <2>3. r \in PurchaseStats!Row /\ PurchaseStats!Plausible(r)
    BY <2>2 DEF PurchaseStats!Row, PurchaseStats!Moved, PurchaseStats!Plausible
  <2>4. rows' \in Seq(PurchaseStats!Row) /\ Len(rows') = Len(rows) /\ DOMAIN rows' = DOMAIN rows
    BY <2>1, <2>3
  <2>5. \A j \in DOMAIN rows : rows'[j] \in {rows[j], r}
    BY <2>1
  <2>6. QED
    BY <1>1, <2>3, <2>4, <2>5 DEF PurchaseStats!RowsAssumption
<1>4. QED
  BY <1>2, <1>3 DEF PurchaseStats!RowsChange

(* NewestFirst is a list of all the ids, each of them once.                *)
LEMMA CardsNewestFirstIs ==
    ASSUME NEW ids \in SUBSET Nat, IsFiniteSet(ids)
    PROVE  /\ PurchaseStats!NewestFirst(ids) \in Seq(ids) /\ Len(PurchaseStats!NewestFirst(ids)) = Cardinality(ids) /\
              Cardinality(ids) \in Nat
           /\ \A k \in 1..Cardinality(ids) :
                PurchaseStats!NewestFirst(ids)[k] \in ids /\
                  Cardinality({j \in ids : j >= PurchaseStats!NewestFirst(ids)[k]}) = k
<1>1. ids \in SUBSET Int
  OBVIOUS
<1>2. Cardinality(ids) \in Nat /\ \A n \in 1..Cardinality(ids) : \E i \in ids : Cardinality({j \in ids : j >= i}) = n
  BY <1>1, RankedDown
<1> DEFINE nth(k) == CHOOSE i \in ids : Cardinality({j \in ids : j >= i}) = k
<1>3. \A k \in 1..Cardinality(ids) : nth(k) \in ids /\ Cardinality({j \in ids : j >= nth(k)}) = k
  BY <1>2
<1>4. PurchaseStats!NewestFirst(ids) = [k \in 1..Cardinality(ids) |-> nth(k)]
  BY DEF PurchaseStats!NewestFirst, PurchaseStats!Cardinality, Cardinality, PurchaseStats!IsFiniteSet, IsFiniteSet
<1> HIDE DEF nth
<1>5. \A k \in 1..Cardinality(ids) : PurchaseStats!NewestFirst(ids)[k] = nth(k)
  BY <1>4
<1>6. PurchaseStats!NewestFirst(ids) \in Seq(ids) /\ Len(PurchaseStats!NewestFirst(ids)) = Cardinality(ids)
  <2> DEFINE c == Cardinality(ids)
             f == [k \in 1..c |-> nth(k)]
  <2>1. c \in Nat /\ \A k \in 1..c : nth(k) \in ids
    BY <1>2, <1>3
  <2>2. f = PurchaseStats!NewestFirst(ids)
    BY <1>4
  <2> HIDE DEF c
  <2>3. f \in Seq(ids) /\ Len(f) = c
    BY <2>1
  <2> HIDE DEF f
  <2>4. QED
    BY <2>2, <2>3 DEF c
<1>7. QED
  BY <1>2, <1>3, <1>5, <1>6

(* The ids of a status are ids of rows.                                    *)
LEMMA CardsListedIs ==
    ASSUME PurchaseStats!RowsTypeOK, NEW s
    PROVE  LET ids == {i \in DOMAIN rows : s = "ALL" \/ rows[i].status = s} IN
           /\ ids \in SUBSET Nat /\ IsFiniteSet(ids) /\ PurchaseStats!Listed(s) = PurchaseStats!NewestFirst(ids)
           /\ PurchaseStats!Listed(s) \in Seq(DOMAIN rows) /\ Len(PurchaseStats!Listed(s)) = Cardinality(ids) /\
                Len(PurchaseStats!Listed(s)) \in Nat
           /\ \A k \in 1..Len(PurchaseStats!Listed(s)) : PurchaseStats!Listed(s)[k] \in ids
<1> DEFINE ids == {i \in DOMAIN rows : s = "ALL" \/ rows[i].status = s}
<1>1. DOMAIN rows = 1..Len(rows) /\ Len(rows) \in Nat
  BY DEF PurchaseStats!RowsTypeOK
<1>2. IsFiniteSet(1..Len(rows)) /\ ids \subseteq 1..Len(rows) /\ ids \in SUBSET Nat
  BY <1>1, FS_Interval
<1>3. IsFiniteSet(ids)
  BY <1>2, FS_Subset
<1>4. PurchaseStats!Listed(s) = PurchaseStats!NewestFirst(ids)
  BY DEF PurchaseStats!Listed
<1>5. ids \subseteq DOMAIN rows
  OBVIOUS
<1> HIDE DEF ids
<1>6. /\ PurchaseStats!NewestFirst(ids) \in Seq(ids) /\ Len(PurchaseStats!NewestFirst(ids)) = Cardinality(ids) /\
           Cardinality(ids) \in Nat
      /\ \A k \in 1..Cardinality(ids) : PurchaseStats!NewestFirst(ids)[k] \in ids
  BY <1>2, <1>3, CardsNewestFirstIs
<1>7. PurchaseStats!NewestFirst(ids) \in Seq(DOMAIN rows)
  BY <1>5, <1>6
<1>8. QED
  BY <1>2, <1>3, <1>4, <1>6, <1>7 DEF ids

(* A page is what of a list lies between its first and its last place.     *)
CardsRest(skip, size, len) == IF skip + size <= len THEN size ELSE IF skip < len THEN len - skip ELSE 0
CardsIsPage(p, S, all, skip, size) ==
    /\ p \in Seq(S) /\ Len(p) \in Nat /\ Len(p) <= size /\ Len(p) = CardsRest(skip, size, Len(all))
    /\ \A k \in 1..Len(p) : skip + k \in 1..Len(all) /\ p[k] = all[skip + k]

LEMMA CardsPageIs ==
    ASSUME NEW S, NEW all \in Seq(S), NEW n \in Nat \ {0}, NEW size \in Nat \ {0}
    PROVE  CardsIsPage(PurchaseStats!PageOf(all, n, size), S, all, (n - 1) * size, size)
<1> DEFINE skip == (n - 1) * size
           last == IF n * size <= Len(all) THEN n * size ELSE Len(all)
<1>1. skip \in Nat /\ n * size \in Nat /\ n * size = skip + size
  <2>1. n - 1 \in Nat /\ n = (n - 1) + 1
    OBVIOUS
  <2>2. \A m, b \in Nat : m * b \in Nat /\ (m + 1) * b = m * b + b
    OBVIOUS
  <2>3. QED
    BY <2>1, <2>2
<1>2. Len(all) \in Nat /\ last \in Nat /\ last <= Len(all) /\ last <= skip + size
  BY <1>1
<1>3. PurchaseStats!PageOf(all, n, size) = IF skip >= last THEN <<>> ELSE SubSeq(all, skip + 1, last)
  BY DEF PurchaseStats!PageOf
<1>4. last = IF skip + size <= Len(all) THEN skip + size ELSE Len(all)
  BY <1>1
<1>n. n * size <= Len(all) <=> skip + size <= Len(all)
  BY <1>1
<1>s. (n - 1) * size = skip
  OBVIOUS
<1> HIDE DEF skip, last
<1>5. CASE skip >= last
  <2>1. PurchaseStats!PageOf(all, n, size) = <<>>
    BY <1>3, <1>5
  <2>2. ~(skip + size <= Len(all)) /\ ~(skip < Len(all))
    BY <1>1, <1>2, <1>4, <1>5
  <2>3. QED
    BY <2>1, <2>2, <1>n, <1>s, <1>1 DEF CardsIsPage, CardsRest
<1>6. CASE skip < last
  <2>1. PurchaseStats!PageOf(all, n, size) = SubSeq(all, skip + 1, last)
    BY <1>1, <1>2, <1>3, <1>6
  <2>2. /\ SubSeq(all, skip + 1, last) \in Seq(S) /\ Len(SubSeq(all, skip + 1, last)) = last - skip
        /\ \A k \in 1..(last - skip) : SubSeq(all, skip + 1, last)[k] = all[skip + k]
    BY <1>1, <1>2, <1>6
  <2>3. last - skip \in Nat /\ last - skip <= size /\ \A k \in 1..(last - skip) : skip + k \in 1..Len(all)
    BY <1>1, <1>2, <1>6
  <2>4. last - skip = IF skip + size <= Len(all) THEN size ELSE IF skip < Len(all) THEN Len(all) - skip ELSE 0
    BY <1>1, <1>2, <1>4, <1>6
  <2>5. QED
    BY <2>1, <2>2, <2>3, <2>4, <1>n, <1>s DEF CardsIsPage, CardsRest
<1>7. QED
  BY <1>1, <1>2, <1>5, <1>6

(* Two finite sets with one-to-one functions both ways have one size.      *)
CardsOneToOne(f, S, T) == f \in [S -> T] /\ \A x, y \in S : f[x] = f[y] => x = y

LEMMA CardsSameSize ==
    ASSUME NEW S, NEW T, IsFiniteSet(S), IsFiniteSet(T), NEW f, NEW g, CardsOneToOne(f, S, T), CardsOneToOne(g, T, S)
    PROVE  Cardinality(S) = Cardinality(T)
<1>1. Cardinality(S) \in Nat /\ Cardinality(T) \in Nat
  BY FS_CardinalityType
<1>2. ~(Cardinality(T) < Cardinality(S))
  BY FS_PigeonHole DEF CardsOneToOne
<1>3. ~(Cardinality(S) < Cardinality(T))
  BY FS_PigeonHole DEF CardsOneToOne
<1>4. QED
  BY <1>1, <1>2, <1>3

(* A list of members of a set is one of any larger set.                    *)
LEMMA CardsWidened == ASSUME NEW S, NEW T, S \subseteq T, NEW f \in Seq(S) PROVE f \in Seq(T)
<1>1. Len(f) \in Nat /\ f = [i \in 1..Len(f) |-> f[i]] /\ \A i \in 1..Len(f) : f[i] \in T
  OBVIOUS
<1>2. QED
  BY <1>1

(* A function on the first numbers is a list.                              *)
LEMMA CardsListFrom == ASSUME NEW S, NEW m \in Nat, NEW f \in [1..m -> S] PROVE f \in Seq(S) /\ Len(f) = m
OBVIOUS

(* One list after another.                                                 *)
CardsIsJoin(g, S, a, f) ==
    /\ g \in Seq(S) /\ Len(g) = Len(a) + Len(f) /\ Len(a) \in Nat /\ Len(f) \in Nat
    /\ DOMAIN g = 1..(Len(a) + Len(f)) /\ DOMAIN a = 1..Len(a)
    /\ \A k \in 1..Len(a) : g[k] = a[k]
    /\ \A k \in 1..Len(f) : g[Len(a) + k] = f[k]

LEMMA CardsJoined == ASSUME NEW S, NEW a \in Seq(S), NEW f \in Seq(S) PROVE CardsIsJoin(a \o f, S, a, f)
BY DEF CardsIsJoin

(* All the rows, newest first, are their ids counted down.                 *)
LEMMA CardsAllListed ==
    ASSUME PurchaseStats!RowsTypeOK
    PROVE  /\ PurchaseStats!Listed("ALL") \in Seq(Nat) /\ Len(PurchaseStats!Listed("ALL")) = Len(rows) /\
              Len(rows) \in Nat
           /\ \A k \in 1..Len(rows) : PurchaseStats!Listed("ALL")[k] = Len(rows) + 1 - k
<1> DEFINE n == Len(rows)
           ids == 1..n
<1>1. n \in Nat /\ DOMAIN rows = ids
  BY DEF PurchaseStats!RowsTypeOK
<1>2. {i \in DOMAIN rows : "ALL" = "ALL" \/ rows[i].status = "ALL"} = ids
  BY <1>1
<1>3. PurchaseStats!Listed("ALL") = PurchaseStats!NewestFirst(ids)
  BY <1>2 DEF PurchaseStats!Listed
<1>4. IsFiniteSet(ids) /\ Cardinality(ids) = n /\ ids \in SUBSET Nat
  <2>1. n \in Nat
    BY <1>1
  <2> HIDE DEF n
  <2>2. IsFiniteSet(1..n) /\ Cardinality(1..n) = n
    BY <2>1, FS_Interval
  <2>3. QED
    BY <2>1, <2>2
<1>5. \A i \in ids : Cardinality({j \in ids : j >= i}) = n + 1 - i
  <2>1. SUFFICES ASSUME NEW i \in ids PROVE Cardinality({j \in ids : j >= i}) = n + 1 - i
    OBVIOUS
  <2>2. {j \in ids : j >= i} = i..n
    BY <1>1
  <2>3. ~(i > n) => Cardinality(i..n) = n - i + 1
    BY <1>1, FS_Interval
  <2>4. n \in Nat /\ i \in 1..n
    BY <1>1
  <2> HIDE DEF n
  <2>5. n - i + 1 = n + 1 - i /\ ~(i > n)
    BY <2>4
  <2>6. QED
    BY <2>2, <2>3, <2>5
<1> HIDE DEF ids
<1>6. /\ PurchaseStats!NewestFirst(ids) \in Seq(ids) /\ Len(PurchaseStats!NewestFirst(ids)) = n
      /\ \A k \in 1..n : PurchaseStats!NewestFirst(ids)[k] \in ids /\
           Cardinality({j \in ids : j >= PurchaseStats!NewestFirst(ids)[k]}) = k
  BY <1>4, CardsNewestFirstIs
<1>7. \A k \in 1..n : PurchaseStats!NewestFirst(ids)[k] = n + 1 - k
  <2>1. SUFFICES ASSUME NEW k \in 1..n PROVE PurchaseStats!NewestFirst(ids)[k] = n + 1 - k
    OBVIOUS
  <2> DEFINE i == PurchaseStats!NewestFirst(ids)[k]
  <2>2. i \in ids /\ Cardinality({j \in ids : j >= i}) = k
    BY <1>6
  <2>3. Cardinality({j \in ids : j >= i}) = n + 1 - i
    BY <1>5, <2>2
  <2>4. i \in Nat
    BY <1>4, <2>2
  <2> HIDE DEF i
  <2>5. i = n + 1 - k
    BY <1>1, <2>2, <2>3, <2>4
  <2>6. QED
    BY <2>5 DEF i
<1>8. PurchaseStats!NewestFirst(ids) \in Seq(Nat)
  <2> DEFINE f == PurchaseStats!NewestFirst(ids)
  <2>1. f \in Seq(ids) /\ ids \subseteq Nat
    BY <1>4, <1>6
  <2> HIDE DEF f
  <2>2. f \in Seq(Nat)
    BY <2>1, CardsWidened
  <2>3. QED
    BY <2>2 DEF f
<1>9. QED
  BY <1>1, <1>3, <1>6, <1>7, <1>8

(* The where clauses of the backend, the count of the page and the filter  *)
(* of the table agree on a row.                                            *)
LEMMA CardsCardsMatch ==
    ASSUME NEW r \in PurchaseStats!Row, NEW c \in PurchaseStats!Cards
    PROVE  /\ PurchaseStats!Where(c, r) <=> PurchaseStats!Matches(r, PurchaseStats!FilterOf(c))
           /\ (c = "total" \/ PurchaseStats!CardOf(r) = c) <=> PurchaseStats!Matches(r, PurchaseStats!FilterOf(c))
<1>1. CASE c = "total"
  BY <1>1 DEF PurchaseStats!Where, PurchaseStats!Matches, PurchaseStats!FilterOf
<1>2. CASE c = "pending"
  BY <1>2 DEF PurchaseStats!Row, PurchaseStats!Where, PurchaseStats!Matches, PurchaseStats!FilterOf,
       PurchaseStats!CardOf, PurchaseStats!DisplayStatus, PurchaseStats!InProgress
<1>3. CASE c = "paid"
  BY <1>3 DEF PurchaseStats!Row, PurchaseStats!Where, PurchaseStats!Matches, PurchaseStats!FilterOf,
       PurchaseStats!CardOf, PurchaseStats!DisplayStatus, PurchaseStats!InProgress
<1>4. CASE c = "completed"
  BY <1>4 DEF PurchaseStats!Row, PurchaseStats!Where, PurchaseStats!Matches, PurchaseStats!FilterOf,
       PurchaseStats!CardOf, PurchaseStats!DisplayStatus, PurchaseStats!InProgress
<1>5. CASE c = "cancelled"
  BY <1>5 DEF PurchaseStats!Row, PurchaseStats!Where, PurchaseStats!Matches, PurchaseStats!FilterOf,
       PurchaseStats!CardOf, PurchaseStats!DisplayStatus, PurchaseStats!InProgress
<1>6. QED
  BY <1>1, <1>2, <1>3, <1>4, <1>5 DEF PurchaseStats!Cards
-----------------------------------------------------------------------------
(* The number a card should have.                                          *)
CardsCountOf(s, c) ==
    Cardinality({i \in PurchaseStats!Scope(s) : PurchaseStats!Matches(rows[i], PurchaseStats!FilterOf(c))})
CardsInReach == Len(rows) <= Batch * MaxBatches
CardsRight(s, number, age) == age <= changes /\
                                (age = changes /\ CardsInReach =>
                                    \A c \in PurchaseStats!Cards : number[c] = CardsCountOf(s, c))

(* The five counts, those that have come in; what the batches brought: all *)
(* the rows there were but the oldest, and, if nothing changed, the newest *)
(* ones from the last down.                                                *)
CardsCounting(q) == q.age = changes => \A c \in PurchaseStats!Cards \ q.left : q.count[c] = CardsCountOf(Nil, c)
CardsHas(got, i) == \E n \in DOMAIN got : got[n].id = i
CardsNewest(got, k) ==
    Len(got) = k /\ \A n \in 1..k : got[n] = [id |-> Len(rows) + 1 - n, row |-> rows[Len(rows) + 1 - n]]
CardsCovers(q) ==
    /\ Len(q.got) <= q.batch * Batch
    /\ \A i \in 1..q.had : CardsHas(q.got, i) \/ i <= Len(rows) - q.batch * Batch
    /\ q.age = changes => CardsNewest(q.got, IF q.batch * Batch <= Len(rows) THEN q.batch * Batch ELSE Len(rows))
CardsComplete(q) ==
    CardsInReach => /\ \A i \in 1..q.had : CardsHas(q.got, i)
                    /\ q.age = changes => CardsNewest(q.got, Len(rows))

CardsCallType == [pc : {"idle", "count", "batch", "sum", "answer"}, of : PurchaseStats!Searches,
                  left : SUBSET PurchaseStats!Cards,
             count : [PurchaseStats!Cards -> Nat], got : Seq([id : Nat, row : PurchaseStats!Row]),
             batch : 0..MaxBatches, had : Nat, age : Nat]

CardsGoodCall(q) ==
    /\ q.age <= changes /\ q.had <= Len(rows)
    /\ q.batch = 0 => q.got = <<>> /\ (q.pc \in {"count", "answer"} => q.of = Nil)
    /\ q.pc = "count" => q.batch = 0 /\ CardsCounting(q)
    /\ q.pc = "batch" => q.batch < MaxBatches /\ CardsCovers(q)
    /\ q.pc = "sum" => q.batch # 0 /\ CardsComplete(q)
    /\ q.pc = "answer" => CardsRight(q.of, q.count, q.age)

CardsRestInv ==
    /\ CardsRowsInv /\ search \in PurchaseStats!Searches
    /\ DOMAIN stats = PurchaseStats!Searches
    /\ \A s \in PurchaseStats!Searches : stats[s] # Nil =>
         stats[s].age \in Nat /\ CardsRight(s, stats[s].count, stats[s].age)
CardsStatsInv == CardsRestInv /\ count \in CardsCallType /\ CardsGoodCall(count)

LEMMA CardsBounds == ASSUME PurchaseStats!StatsAssumption, NEW b \in Nat
                PROVE  /\ Batch \in Nat \ {0} /\ MaxBatches \in Nat \ {0} /\ b * Batch \in Nat
                       /\ (b + 1) * Batch = b * Batch + Batch /\ 0 * Batch = 0
<1>1. Batch \in Nat \ {0} /\ MaxBatches \in Nat \ {0}
  BY DEF PurchaseStats!StatsAssumption
<1>2. \A m, n \in Nat : m * n \in Nat /\ (m + 1) * n = m * n + n /\ 0 * n = 0
  OBVIOUS
<1>3. QED
  BY <1>1, <1>2

LEMMA CardsIdleIs ==
    ASSUME PurchaseStats!StatsAssumption
    PROVE  /\ PurchaseStats!IdleCall \in CardsCallType /\ PurchaseStats!IdleCall.pc = "idle" /\
              PurchaseStats!IdleCall.batch = 0 /\ PurchaseStats!IdleCall.had = 0
           /\ PurchaseStats!IdleCall.age = 0 /\ PurchaseStats!IdleCall.got = <<>>
BY DEF PurchaseStats!StatsAssumption, PurchaseStats!IdleCall, CardsCallType, PurchaseStats!Searches, PurchaseStats!Zero

LEMMA CardsIdleGood ==
    ASSUME PurchaseStats!StatsAssumption, PurchaseStats!RowsTypeOK
    PROVE  CardsGoodCall(PurchaseStats!IdleCall)
<1>1. changes \in Nat /\ Len(rows) \in Nat
  BY DEF PurchaseStats!RowsTypeOK
<1>2. QED
  BY <1>1, CardsIdleIs DEF CardsGoodCall

LEMMA CardsStatsInvInit == ASSUME PurchaseStats!StatsAssumption, PurchaseStats!Init PROVE CardsStatsInv
<1>1. CardsRowsInv /\ PurchaseStats!RowsTypeOK
  BY CardsRowsInvInit DEF PurchaseStats!StatsAssumption, PurchaseStats!Init, CardsRowsInv
<1>2. CardsRestInv
  BY <1>1 DEF PurchaseStats!Init, CardsRestInv, PurchaseStats!Searches
<1>3. count = PurchaseStats!IdleCall
  BY DEF PurchaseStats!Init
<1>4. QED
  BY <1>1, <1>2, <1>3, CardsIdleIs, CardsIdleGood DEF CardsStatsInv

(* Only the rows and their changes decide what is right.                   *)
LEMMA CardsSameRows ==
    ASSUME UNCHANGED <<rows, changes>>
    PROVE  /\ CardsRowsInv' <=> CardsRowsInv
           /\ \A s, n, a : CardsRight(s, n, a)' <=> CardsRight(s, n, a)
           /\ \A q : CardsGoodCall(q)' <=> CardsGoodCall(q)
BY DEF CardsRowsInv, PurchaseStats!RowsTypeOK, CardsRight, CardsGoodCall, CardsInReach, CardsCountOf,
     PurchaseStats!Scope, CardsCounting, CardsCovers, CardsComplete, CardsNewest

(* A change makes what was counted before it old, and only pushes what is  *)
(* still to come to later batches.                                         *)
LEMMA CardsChangeKeeps ==
    ASSUME PurchaseStats!StatsAssumption, CardsStatsInv, PurchaseStats!RowsChange, UNCHANGED <<search, stats, count>>
    PROVE  CardsStatsInv'
<1>1. CardsRowsInv' /\ Len(rows) <= Len(rows') /\ changes' = changes + 1 /\ changes \in Nat
  BY CardsRowsInvStep DEF CardsStatsInv, CardsRestInv, CardsRowsInv, PurchaseStats!RowsTypeOK,
       PurchaseStats!StatsAssumption
<1>2. Len(rows) \in Nat /\ Len(rows') \in Nat
  BY <1>1 DEF CardsStatsInv, CardsRestInv, CardsRowsInv, PurchaseStats!RowsTypeOK
<1>3. ASSUME NEW s, NEW n, NEW a, a \in Nat, CardsRight(s, n, a) PROVE CardsRight(s, n, a)'
  BY <1>1, <1>3 DEF CardsRight
<1>4. CardsRestInv'
  BY <1>1, <1>3 DEF CardsStatsInv, CardsRestInv, PurchaseStats!Searches
<1>5. count' = count /\ count \in CardsCallType /\ count.age \in Nat /\ count.batch \in Nat /\ count.had \in Nat /\
        CardsGoodCall(count)
  BY DEF CardsStatsInv, CardsCallType
<1>6. count.age # changes' /\ count.age <= changes'
  BY <1>1, <1>5 DEF CardsGoodCall
<1>7. ASSUME CardsCovers(count) PROVE CardsCovers(count)'
  <2>1. count.batch * Batch \in Nat
    BY <1>5, CardsBounds
  <2>2. \A i \in Nat : i <= Len(rows) - count.batch * Batch => i <= Len(rows') - count.batch * Batch
    BY <1>1, <1>2, <2>1
  <2>3. QED
    BY <1>5, <1>6, <1>7, <2>2 DEF CardsCovers
<1>8. ASSUME CardsComplete(count) PROVE CardsComplete(count)'
  <2>1. Batch * MaxBatches \in Nat
    BY DEF PurchaseStats!StatsAssumption
  <2>2. CardsInReach' => CardsInReach
    BY <1>1, <1>2, <2>1 DEF CardsInReach
  <2>3. QED
    BY <1>5, <1>6, <1>8, <2>2 DEF CardsComplete
<1>9. CardsGoodCall(count)'
  <2>1. count.had <= Len(rows')
    BY <1>1, <1>2, <1>5 DEF CardsGoodCall
  <2>2. CardsCounting(count)'
    BY <1>5, <1>6 DEF CardsCounting
  <2>3. count.pc = "answer" => CardsRight(count.of, count.count, count.age)'
    BY <1>3, <1>5 DEF CardsGoodCall
  <2>4. QED
    BY <1>5, <1>6, <1>7, <1>8, <2>1, <2>2, <2>3 DEF CardsGoodCall
<1>10. CardsCallType' = CardsCallType
  BY DEF CardsCallType, PurchaseStats!Searches
<1>11. QED
  BY <1>4, <1>5, <1>9, <1>10 DEF CardsStatsInv

LEMMA CardsAskKeeps ==
    ASSUME PurchaseStats!StatsAssumption, CardsStatsInv, PurchaseStats!Ask
    PROVE  count' \in CardsCallType /\ CardsGoodCall(count')
<1>t. PurchaseStats!RowsTypeOK /\ changes \in Nat /\ Len(rows) \in Nat /\ search \in PurchaseStats!Searches
  BY DEF CardsStatsInv, CardsRestInv, CardsRowsInv, PurchaseStats!RowsTypeOK
<1> DEFINE pc == IF search = Nil THEN "count" ELSE "batch"
<1>1. count' = [pc |-> pc, of |-> search, left |-> PurchaseStats!Cards, count |-> PurchaseStats!Zero, got |-> <<>>,
                batch |-> 0,
               had |-> Len(rows), age |-> changes]
  BY DEF PurchaseStats!Ask, PurchaseStats!IdleCall
<1>2. count' \in CardsCallType
  BY <1>1, <1>t DEF CardsCallType, PurchaseStats!Zero, PurchaseStats!StatsAssumption
<1>3. /\ count'.pc = pc /\ count'.of = search /\ count'.left = PurchaseStats!Cards /\ count'.got = <<>> /\
           count'.batch = 0
      /\ count'.had = Len(rows) /\ count'.age = changes
  BY <1>1
<1>4. CardsCounting(count')
  BY <1>3 DEF CardsCounting
<1>5. CardsCovers(count')
  <2>1. 0 * Batch = 0
    BY CardsBounds
  <2>2. QED
    BY <1>3, <1>t, <2>1 DEF CardsCovers, CardsNewest
<1>6. QED
  BY <1>2, <1>3, <1>4, <1>5, <1>t DEF CardsGoodCall, PurchaseStats!StatsAssumption

LEMMA CardsCountKeeps ==
    ASSUME PurchaseStats!StatsAssumption, CardsStatsInv, NEW c \in PurchaseStats!Cards, PurchaseStats!Count(c)
    PROVE  count' \in CardsCallType /\ CardsGoodCall(count')
<1>t. PurchaseStats!RowsTypeOK /\ count \in CardsCallType /\ CardsGoodCall(count) /\
        \A i \in DOMAIN rows : rows[i] \in PurchaseStats!Row
  BY DEF CardsStatsInv, CardsRestInv, CardsRowsInv, PurchaseStats!RowsTypeOK
<1> DEFINE n == Cardinality({i \in DOMAIN rows : PurchaseStats!Where(c, rows[i])})
           counts == [count.count EXCEPT ![c] = n]
           pc == IF count.left = {c} THEN "answer" ELSE "count"
           left == count.left \ {c}
<1>1. count' = [count EXCEPT !.left = left, !.pc = pc, !.count = counts] /\ count.pc = "count" /\ c \in count.left
  BY CardsCounts DEF PurchaseStats!Count
<1>2. n \in Nat
  <2>1. DOMAIN rows = 1..Len(rows) /\ Len(rows) \in Nat
    BY <1>t DEF PurchaseStats!RowsTypeOK
  <2>2. IsFiniteSet(DOMAIN rows)
    BY <2>1, FS_Interval
  <2>3. QED
    BY <2>2, FS_Subset, FS_CardinalityType
<1>3. n = CardsCountOf(Nil, c)
  <2>1. \A i \in DOMAIN rows :
          PurchaseStats!Where(c, rows[i]) <=> PurchaseStats!Matches(rows[i], PurchaseStats!FilterOf(c))
    BY <1>t, CardsCardsMatch
  <2>2. {i \in DOMAIN rows : PurchaseStats!Where(c, rows[i])} =
          {i \in PurchaseStats!Scope(Nil) : PurchaseStats!Matches(rows[i], PurchaseStats!FilterOf(c))}
    BY <2>1 DEF PurchaseStats!Scope
  <2>3. QED
    BY <2>2 DEF CardsCountOf
<1> HIDE DEF n
<1>4. counts \in [PurchaseStats!Cards -> Nat] /\
        \A d \in PurchaseStats!Cards : counts[d] = IF d = c THEN n ELSE count.count[d]
  BY <1>t, <1>2 DEF CardsCallType
<1>5. left \in SUBSET PurchaseStats!Cards /\ pc \in {"count", "answer"}
  BY <1>t DEF CardsCallType
<1>e. (pc = "answer" => left = {}) /\ \A d \in PurchaseStats!Cards : d \notin left => d \notin count.left \/ d = c
  OBVIOUS
<1> HIDE DEF counts, left, pc
<1>6. /\ count' \in CardsCallType /\ count'.pc = pc /\ count'.of = count.of /\ count'.left = left /\
           count'.count = counts
      /\ count'.got = count.got /\ count'.batch = count.batch /\ count'.had = count.had /\ count'.age = count.age
  BY <1>t, <1>1, <1>4, <1>5 DEF CardsCallType
<1>7. count.batch = 0 /\ count.of = Nil /\ CardsCounting(count)
  BY <1>t, <1>1 DEF CardsGoodCall
<1>8. count.age = changes => \A d \in PurchaseStats!Cards \ left : counts[d] = CardsCountOf(Nil, d)
  BY <1>3, <1>4, <1>7, <1>e DEF CardsCounting
<1>9. CardsCounting(count') /\ (pc = "answer" => CardsRight(Nil, counts, count.age))
  BY <1>t, <1>6, <1>8, <1>e DEF CardsCounting, CardsRight, CardsGoodCall
<1>10. QED
  BY <1>t, <1>5, <1>6, <1>7, <1>9 DEF CardsGoodCall

LEMMA CardsFallBackKeeps ==
    ASSUME PurchaseStats!StatsAssumption, CardsStatsInv, PurchaseStats!FallBack
    PROVE  count' \in CardsCallType /\ CardsGoodCall(count')
<1>t. PurchaseStats!RowsTypeOK /\ changes \in Nat /\ Len(rows) \in Nat /\ count \in CardsCallType /\
        CardsGoodCall(count)
  BY DEF CardsStatsInv, CardsRestInv, CardsRowsInv, PurchaseStats!RowsTypeOK
<1>1. /\ count' \in CardsCallType /\ count'.pc = "batch" /\ count'.got = count.got /\ count'.batch = count.batch
      /\ count'.had = Len(rows) /\ count'.age = changes /\ count.batch = 0
  BY <1>t DEF PurchaseStats!FallBack, CardsCallType
<1>2. count'.got = <<>> /\ count'.batch = 0
  BY <1>t, <1>1 DEF CardsGoodCall
<1>3. CardsCovers(count')
  <2>1. 0 * Batch = 0
    BY CardsBounds
  <2>2. QED
    BY <1>1, <1>2, <1>t, <2>1 DEF CardsCovers, CardsNewest
<1>4. QED
  BY <1>1, <1>2, <1>3, <1>t DEF CardsGoodCall, PurchaseStats!StatsAssumption

(* A batch: from skip on, Batch rows if there are as many.                 *)
CardsIsBatch(items, skip, len) ==
    /\ items \in Seq(Nat) /\ Len(items) \in Nat /\ Len(items) = CardsRest(skip, Batch, len)
    /\ \A k \in 1..Len(items) : skip + k \in 1..len /\ items[k] = len + 1 - (skip + k)

LEMMA CardsBatchIs ==
    ASSUME PurchaseStats!StatsAssumption, PurchaseStats!RowsTypeOK, NEW b \in Nat
    PROVE  CardsIsBatch(PurchaseStats!PageOf(PurchaseStats!Listed("ALL"), b + 1, Batch), b * Batch, Len(rows))
<1> DEFINE all == PurchaseStats!Listed("ALL")
<1>1. all \in Seq(Nat) /\ Len(all) = Len(rows) /\ Len(rows) \in Nat /\
        \A k \in 1..Len(rows) : all[k] = Len(rows) + 1 - k
  BY CardsAllListed
<1>2. all \in Seq(Nat)
  BY <1>1
<1>3. PICK n \in Nat \ {0} : n = b + 1
  OBVIOUS
<1>4. Batch \in Nat \ {0}
  BY DEF PurchaseStats!StatsAssumption
<1> HIDE DEF all
<1>5. CardsIsPage(PurchaseStats!PageOf(all, n, Batch), Nat, all, (n - 1) * Batch, Batch)
  BY <1>2, <1>3, <1>4, CardsPageIs
<1>6. n - 1 = b
  BY <1>3
<1> DEFINE p == PurchaseStats!PageOf(all, n, Batch)
           skip == b * Batch
<1>7. CardsIsPage(p, Nat, all, skip, Batch)
  BY <1>5, <1>6
<1> HIDE DEF p, skip
<1>8. CardsIsBatch(p, skip, Len(rows))
  BY <1>1, <1>7 DEF CardsIsPage, CardsIsBatch
<1>9. QED
  BY <1>3, <1>8 DEF p, skip, all

(* The rows of a batch.                                                    *)
LEMMA CardsRowsOf ==
    ASSUME PurchaseStats!RowsTypeOK, NEW items \in Seq(Nat), \A k \in 1..Len(items) : items[k] \in 1..Len(rows)
    PROVE  LET new == [n \in DOMAIN items |-> [id |-> items[n], row |-> rows[items[n]]]] IN
           /\ new \in Seq([id : Nat, row : PurchaseStats!Row]) /\ Len(new) = Len(items)
           /\ \A k \in 1..Len(items) : new[k] = [id |-> items[k], row |-> rows[items[k]]]
<1>1. DOMAIN items = 1..Len(items) /\ Len(items) \in Nat /\ \A i \in 1..Len(rows) : rows[i] \in PurchaseStats!Row
  BY DEF PurchaseStats!RowsTypeOK
<1>2. PICK m \in Nat : m = Len(items)
  BY <1>1
<1>3. \A k \in 1..m : items[k] \in Nat /\ rows[items[k]] \in PurchaseStats!Row
  BY <1>1, <1>2
<1> DEFINE new == [k \in 1..m |-> [id |-> items[k], row |-> rows[items[k]]]]
<1>4. \A k \in 1..m : [id |-> items[k], row |-> rows[items[k]]] \in [id : Nat, row : PurchaseStats!Row]
  BY <1>3
<1>5. \A k \in 1..m : new[k] = [id |-> items[k], row |-> rows[items[k]]]
  OBVIOUS
<1>6. new \in [1..m -> [id : Nat, row : PurchaseStats!Row]]
  BY <1>4
<1>7. new = [n \in DOMAIN items |-> [id |-> items[n], row |-> rows[items[n]]]]
  BY <1>1, <1>2
<1> HIDE DEF new
<1>8. new \in Seq([id : Nat, row : PurchaseStats!Row]) /\ Len(new) = m
  BY <1>6, CardsListFrom
<1>9. QED
  BY <1>2, <1>5, <1>7, <1>8

(* As many rows as come first, and what a batch adds to them.              *)
CardsUpto(skip, len) == IF skip <= len THEN skip ELSE len

LEMMA CardsBatchAdds ==
    ASSUME NEW skip \in Nat, NEW size \in Nat, NEW len \in Nat
    PROVE  /\ CardsUpto(skip, len) + CardsRest(skip, size, len) = CardsUpto(skip + size, len)
           /\ CardsRest(skip, size, len) \in Nat /\ CardsRest(skip, size, len) <= size /\ CardsUpto(skip, len) \in Nat
           /\ CardsRest(skip, size, len) # 0 => CardsUpto(skip, len) = skip
           /\ \A i \in Nat : i > len - (skip + size) /\ i >= 1 /\ i <= len - skip
                                => len + 1 - i - skip \in 1..CardsRest(skip, size, len)
<1>1. CASE skip + size <= len
  <2>1. CardsUpto(skip, len) = skip /\ CardsRest(skip, size, len) = size /\ CardsUpto(skip + size, len) = skip + size
    BY <1>1 DEF CardsUpto, CardsRest
  <2>2. QED
    BY <1>1, <2>1
<1>2. CASE ~(skip + size <= len) /\ skip < len
  <2>1. CardsUpto(skip, len) = skip /\ CardsRest(skip, size, len) = len - skip /\ CardsUpto(skip + size, len) = len
    BY <1>2 DEF CardsUpto, CardsRest
  <2>2. len - skip \in Nat
    BY <1>2
  <2>3. QED
    BY <1>2, <2>1, <2>2
<1>3. CASE ~(skip + size <= len) /\ ~(skip < len)
  <2>1. CardsUpto(skip, len) = len /\ CardsRest(skip, size, len) = 0 /\ CardsUpto(skip + size, len) = len
    BY <1>3 DEF CardsUpto, CardsRest
  <2>2. QED
    BY <1>3, <2>1
<1>4. QED
  BY <1>1, <1>2, <1>3

(* What had come, and a batch: got is old and new together.                *)
CardsRowAt(n) == [id |-> Len(rows) + 1 - n, row |-> rows[Len(rows) + 1 - n]]

LEMMA CardsGatheredHas ==
    ASSUME NEW S, NEW old, NEW new, NEW got, CardsIsJoin(got, S, old, new),
           NEW len \in Nat, NEW skip \in Nat, Len(new) = CardsRest(skip, Batch, len), Batch \in Nat,
           \A k \in 1..Len(new) : new[k].id = len + 1 - (skip + k),
           NEW i \in Nat \ {0}, CardsHas(old, i) \/ i <= len - skip, ~(i <= len - (skip + Batch))
    PROVE  CardsHas(got, i)
<1>1. CASE CardsHas(old, i)
  <2>1. PICK n \in DOMAIN old : old[n].id = i
    BY <1>1 DEF CardsHas
  <2>2. n \in DOMAIN got /\ got[n] = old[n]
    BY <2>1 DEF CardsIsJoin
  <2>3. QED
    BY <2>1, <2>2 DEF CardsHas
<1>2. CASE i <= len - skip
  <2> DEFINE k == len + 1 - i - skip
  <2>1. k \in 1..Len(new)
    <3>1. i > len - (skip + Batch) /\ i >= 1 /\ i \in Nat
      OBVIOUS
    <3>2. \A j \in Nat : j > len - (skip + Batch) /\ j >= 1 /\ j <= len - skip
                                => len + 1 - j - skip \in 1..CardsRest(skip, Batch, len)
      BY CardsBatchAdds
    <3>3. QED
      BY <1>2, <3>1, <3>2
  <2>2. new[k].id = i
    BY <2>1
  <2> HIDE DEF k
  <2>3. Len(old) + k \in DOMAIN got /\ got[Len(old) + k] = new[k]
    <3>1. Len(old) \in Nat /\ Len(new) \in Nat /\ DOMAIN got = 1..(Len(old) + Len(new)) /\ got[Len(old) + k] = new[k]
      BY <2>1 DEF CardsIsJoin
    <3>2. QED
      BY <2>1, <3>1
  <2>4. QED
    BY <2>2, <2>3 DEF CardsHas
<1>3. QED
  BY <1>1, <1>2

LEMMA CardsGatheredNewest ==
    ASSUME NEW S, NEW old, NEW new, NEW got, CardsIsJoin(got, S, old, new), PurchaseStats!RowsTypeOK,
           NEW skip \in Nat, Len(new) = CardsRest(skip, Batch, Len(rows)), Batch \in Nat,
           \A k \in 1..Len(new) : new[k] = CardsRowAt(skip + k),
           CardsNewest(old, CardsUpto(skip, Len(rows)))
    PROVE  CardsNewest(got, CardsUpto(skip + Batch, Len(rows)))
<1>1. Len(rows) \in Nat
  BY DEF PurchaseStats!RowsTypeOK
<1>2. /\ CardsUpto(skip, Len(rows)) + Len(new) = CardsUpto(skip + Batch, Len(rows))
      /\ Len(new) # 0 => CardsUpto(skip, Len(rows)) = skip
  BY <1>1, CardsBatchAdds
<1>3. Len(old) = CardsUpto(skip, Len(rows)) /\ \A n \in 1..Len(old) : old[n] = CardsRowAt(n)
  BY DEF CardsNewest, CardsRowAt
<1>4. Len(got) = CardsUpto(skip + Batch, Len(rows)) /\ Len(got) = Len(old) + Len(new) /\ Len(old) \in Nat /\
        Len(new) \in Nat
  BY <1>2, <1>3 DEF CardsIsJoin
<1>5. ASSUME NEW n \in 1..Len(got) PROVE got[n] = CardsRowAt(n)
  <2>1. CASE n <= Len(old)
    <3>1. n \in 1..Len(old)
      BY <1>4, <2>1
    <3>2. QED
      BY <1>3, <3>1 DEF CardsIsJoin
  <2>2. CASE ~(n <= Len(old))
    <3> DEFINE k == n - Len(old)
    <3>1. k \in 1..Len(new) /\ Len(old) + k = n /\ Len(new) # 0
      BY <1>4, <2>2
    <3>2. skip + k = n
      BY <1>2, <1>3, <3>1
    <3> HIDE DEF k
    <3>3. got[n] = new[k] /\ new[k] = CardsRowAt(skip + k)
      BY <3>1 DEF CardsIsJoin
    <3>4. QED
      BY <3>2, <3>3
  <2>3. QED
    BY <2>1, <2>2
<1>6. QED
  BY <1>4, <1>5 DEF CardsNewest, CardsRowAt

LEMMA CardsBatchKeeps ==
    ASSUME PurchaseStats!StatsAssumption, CardsStatsInv, PurchaseStats!GetBatch
    PROVE  count' \in CardsCallType /\ CardsGoodCall(count')
<1> DEFINE items == PurchaseStats!PageOf(PurchaseStats!Listed("ALL"), count.batch + 1, Batch)
           new == [n \in DOMAIN items |-> [id |-> items[n], row |-> rows[items[n]]]]
           got == count.got \o new
           c == [count EXCEPT !.got = got, !.batch = count.batch + 1]
<1>1. count' = IF PurchaseStats!Enough(c, items) THEN [c EXCEPT !.pc = "sum"] ELSE c
  BY DEF PurchaseStats!GetBatch
<1>2. PICK b, skip, len : b = count.batch /\ skip = b * Batch /\ len = Len(rows)
  OBVIOUS
<1>t. /\ PurchaseStats!RowsTypeOK /\ len \in Nat /\ count \in CardsCallType /\ count.pc = "batch" /\ b \in Nat /\
           b < MaxBatches /\ CardsCovers(count)
      /\ count.age <= changes /\ count.had <= len /\ changes \in Nat /\ count.had \in Nat
  BY <1>2 DEF CardsStatsInv, CardsRestInv, CardsRowsInv, PurchaseStats!RowsTypeOK, PurchaseStats!GetBatch,
       CardsGoodCall, CardsCallType
<1>n. Batch \in Nat \ {0} /\ MaxBatches \in Nat \ {0} /\ skip \in Nat /\ (b + 1) * Batch = skip + Batch
  BY <1>2, <1>t, CardsBounds
<1>3. CardsIsBatch(items, skip, len)
  BY <1>2, <1>t, CardsBatchIs
<1> HIDE DEF items
<1>4. /\ items \in Seq(Nat) /\ Len(items) = CardsRest(skip, Batch, len)
      /\ \A k \in 1..Len(items) : items[k] = len + 1 - (skip + k) /\ items[k] \in 1..Len(rows)
  <2>1. \A k \in 1..Len(items) : len + 1 - (skip + k) \in 1..len
    BY <1>3, <1>t, <1>n DEF CardsIsBatch
  <2>2. QED
    BY <1>2, <1>3, <2>1 DEF CardsIsBatch
<1>5. /\ new \in Seq([id : Nat, row : PurchaseStats!Row]) /\ Len(new) = Len(items)
      /\ \A k \in 1..Len(items) : new[k] = [id |-> items[k], row |-> rows[items[k]]]
  <2>1. items \in Seq(Nat) /\ \A k \in 1..Len(items) : items[k] \in 1..Len(rows)
    BY <1>4
  <2>2. QED
    BY <1>t, <2>1, CardsRowsOf
<1> HIDE DEF new
<1>6. /\ Len(new) = CardsRest(skip, Batch, len) /\ \A k \in 1..Len(new) : new[k] = CardsRowAt(skip + k)
      /\ \A k \in 1..Len(new) : new[k].id = len + 1 - (skip + k)
  BY <1>2, <1>4, <1>5 DEF CardsRowAt
<1> DEFINE old == count.got
           Rec == [id : Nat, row : PurchaseStats!Row]
<1>7. /\ old \in Seq(Rec) /\ Len(old) <= skip
      /\ \A i \in 1..count.had : CardsHas(old, i) \/ i <= len - skip
      /\ count.age = changes => CardsNewest(old, CardsUpto(skip, len))
  BY <1>2, <1>t DEF CardsCovers, CardsCallType, CardsUpto
<1>a. new \in Seq(Rec) /\ got = old \o new
  BY <1>5
<1> HIDE DEF got
<1> HIDE DEF old, Rec
<1>b. CardsIsJoin(got, Rec, old, new)
  BY <1>7, <1>a, CardsJoined
<1>8. /\ got \in Seq(Rec) /\ Len(got) <= skip + Batch
      /\ \A i \in 1..count.had : CardsHas(got, i) \/ i <= len - (skip + Batch)
      /\ count.age = changes => CardsNewest(got, CardsUpto(skip + Batch, len))
  <2>1. Len(new) \in Nat /\ Len(old) \in Nat /\ Len(new) <= Batch /\ Len(got) = Len(old) + Len(new) /\ got \in Seq(Rec)
    BY <1>b, <1>6, <1>t, <1>n, CardsBatchAdds DEF CardsIsJoin
  <2>2. Len(got) <= skip + Batch
    BY <1>7, <1>n, <2>1
  <2>3. ASSUME NEW i \in 1..count.had PROVE CardsHas(got, i) \/ i <= len - (skip + Batch)
    <3>1. i \in Nat \ {0} /\ (CardsHas(old, i) \/ i <= len - skip) /\ Batch \in Nat
      BY <1>7, <1>t, <1>n
    <3>2. QED
      BY <3>1, <1>b, <1>6, <1>t, <1>n, CardsGatheredHas
  <2>4. count.age = changes => CardsNewest(got, CardsUpto(skip + Batch, len))
    BY <1>2, <1>b, <1>6, <1>7, <1>t, <1>n, CardsGatheredNewest
  <2>5. QED
    BY <2>1, <2>2, <2>3, <2>4
<1> HIDE DEF got
<1>9. /\ c \in CardsCallType /\ c.got = got /\ c.batch = b + 1 /\ c.pc = "batch" /\ c.had = count.had /\
           c.age = count.age
      /\ c.of = count.of /\ c.left = count.left /\ c.count = count.count
  <2>1. b + 1 \in 0..MaxBatches
    BY <1>t, <1>n
  <2>2. count.batch + 1 = b + 1
    BY <1>2
  <2>3. QED
    BY <1>t, <1>8, <2>1, <2>2 DEF CardsCallType, Rec
<1> HIDE DEF c
<1>10. CASE ~PurchaseStats!Enough(c, items)
  <2>1. count' = c
    BY <1>1, <1>10
  <2>2. b + 1 < MaxBatches
    BY <1>10, <1>9, <1>t, <1>n DEF PurchaseStats!Enough
  <2>3. CardsCovers(count')
    <3>1. count'.got = got /\ count'.batch * Batch = skip + Batch /\ count'.had = count.had /\ count'.age = count.age
      BY <2>1, <1>9, <1>n
    <3>2. QED
      BY <3>1, <1>2, <1>8 DEF CardsCovers, CardsUpto
  <2>4. b + 1 # 0 /\ count'.batch = b + 1
    BY <2>1, <1>t, <1>9
  <2>5. QED
    BY <2>1, <2>2, <2>3, <2>4, <1>2, <1>9, <1>t DEF CardsGoodCall
<1>11. CASE PurchaseStats!Enough(c, items)
  <2>1. /\ count' \in CardsCallType /\ count'.pc = "sum" /\ count'.got = got /\ count'.batch = b + 1 /\
             count'.had = count.had
        /\ count'.age = count.age
    BY <1>1, <1>9, <1>11 DEF CardsCallType
  <2>2. CardsInReach => len <= skip + Batch
    <3>1. SUFFICES ASSUME CardsInReach PROVE len <= skip + Batch
      OBVIOUS
    <3>2. CASE items = <<>>
      <4>1. Len(items) = 0
        BY <3>2
      <4>2. QED
        BY <4>1, <1>4, <1>t, <1>n DEF CardsRest
    <3>3. CASE Len(got) >= len
      <4>1. Len(got) \in Nat
        BY <1>8
      <4>2. QED
        BY <3>3, <4>1, <1>8, <1>t, <1>n
    <3>4. CASE b + 1 = MaxBatches
      <4>1. Batch * MaxBatches = MaxBatches * Batch
        BY <1>n
      <4>2. Batch * MaxBatches = skip + Batch
        BY <3>4, <4>1, <1>n
      <4>3. QED
        BY <3>1, <4>2, <1>2 DEF CardsInReach
    <3>5. QED
      BY <3>2, <3>3, <3>4, <1>2, <1>9, <1>11 DEF PurchaseStats!Enough
  <2>3. CardsComplete(count')
    <3>1. SUFFICES ASSUME CardsInReach
                   PROVE  /\ \A i \in 1..count.had : CardsHas(got, i)
                          /\ count.age = changes => CardsNewest(got, len)
      BY <1>2, <2>1 DEF CardsComplete
    <3>2. \A i \in 1..count.had : CardsHas(got, i)
      <4>1. \A i \in 1..count.had : ~(i <= len - (skip + Batch))
        BY <2>2, <3>1, <1>t, <1>n
      <4>2. QED
        BY <4>1, <1>8
    <3>3. CardsUpto(skip + Batch, len) = len
      BY <2>2, <3>1, <1>t, <1>n DEF CardsUpto
    <3>4. QED
      BY <3>2, <3>3, <1>8
  <2>4. b + 1 # 0
    BY <1>t
  <2>5. QED
    BY <2>1, <2>3, <2>4, <1>2, <1>t DEF CardsGoodCall
<1>12. QED
  BY <1>10, <1>11

(* The rows got, counted down from the last, are the rows: what the page   *)
(* counts among them is what there is.                                     *)
LEMMA CardsSumsRight ==
    ASSUME PurchaseStats!StatsAssumption, CardsRowsInv, NEW s, NEW got \in Seq([id : Nat, row : PurchaseStats!Row]),
           CardsNewest(got, Len(rows)), NEW c \in PurchaseStats!Cards
    PROVE  Cardinality({n \in {m \in DOMAIN got : s = Nil \/ got[m].id \in s} : c =
                        "total" \/ PurchaseStats!CardOf(got[n].row) = c})
             = CardsCountOf(s, c)
<1> DEFINE len == Len(rows)
           S == {n \in {m \in DOMAIN got : s = Nil \/ got[m].id \in s} : c =
                 "total" \/ PurchaseStats!CardOf(got[n].row) = c}
           T == {i \in PurchaseStats!Scope(s) : PurchaseStats!Matches(rows[i], PurchaseStats!FilterOf(c))}
<1>1. /\ len \in Nat /\ DOMAIN rows = 1..len /\ (\A i \in 1..len : rows[i] \in PurchaseStats!Row) /\ DOMAIN got = 1..len
      /\ \A n \in 1..len : got[n].id = len + 1 - n /\ got[n].row = rows[len + 1 - n]
  <2>1. len \in Nat /\ DOMAIN rows = 1..len /\ \A i \in 1..len : rows[i] \in PurchaseStats!Row
    BY DEF CardsRowsInv, PurchaseStats!RowsTypeOK
  <2>2. DOMAIN got = 1..len /\ \A n \in 1..len : got[n] = [id |-> len + 1 - n, row |-> rows[len + 1 - n]]
    <3>1. Len(got) = len /\ \A n \in 1..len : got[n] = [id |-> len + 1 - n, row |-> rows[len + 1 - n]]
      BY DEF CardsNewest
    <3>2. DOMAIN got = 1..Len(got)
      OBVIOUS
    <3>3. QED
      BY <3>1, <3>2
  <2> HIDE DEF len
  <2>3. QED
    BY <2>1, <2>2
<1>2. \A n \in 1..len : len + 1 - n \in 1..len /\ len + 1 - (len + 1 - n) = n
  BY <1>1
<1>3. \A n \in 1..len : n \in S <=> len + 1 - n \in T
  <2>1. SUFFICES ASSUME NEW n \in 1..len PROVE n \in S <=> len + 1 - n \in T
    OBVIOUS
  <2>2. (s = Nil \/ got[n].id \in s) <=> len + 1 - n \in PurchaseStats!Scope(s)
    BY <1>1, <1>2 DEF PurchaseStats!Scope
  <2>3. (c = "total" \/ PurchaseStats!CardOf(got[n].row) = c) <=>
        PurchaseStats!Matches(rows[len + 1 - n], PurchaseStats!FilterOf(c))
    BY <1>1, <1>2, CardsCardsMatch
  <2>4. QED
    BY <1>1, <2>2, <2>3
<1>4. S \subseteq 1..len /\ T \subseteq 1..len
  BY <1>1 DEF PurchaseStats!Scope
<1>5. IsFiniteSet(1..len)
  BY <1>1, FS_Interval
<1> HIDE DEF S, T, len
<1>6. IsFiniteSet(S) /\ IsFiniteSet(T)
  BY <1>4, <1>5, FS_Subset
<1> DEFINE f == [n \in S |-> len + 1 - n]
           g == [i \in T |-> len + 1 - i]
<1>7. CardsOneToOne(f, S, T)
  BY <1>1, <1>2, <1>3, <1>4 DEF CardsOneToOne
<1>8. CardsOneToOne(g, T, S)
  BY <1>1, <1>2, <1>3, <1>4 DEF CardsOneToOne
<1> HIDE DEF f
<1> HIDE DEF g
<1>9. Cardinality(S) = Cardinality(T)
  BY <1>6, <1>7, <1>8, CardsSameSize
<1>10. QED
  BY <1>9 DEF S, T, CardsCountOf

LEMMA CardsSumKeeps ==
    ASSUME PurchaseStats!StatsAssumption, CardsStatsInv, PurchaseStats!Sum
    PROVE  count' \in CardsCallType /\ CardsGoodCall(count')
<1> DEFINE mine == {n \in DOMAIN count.got : count.of = Nil \/ count.got[n].id \in count.of}
           counts == [c \in PurchaseStats!Cards |->
                         Cardinality({n \in mine : c = "total" \/ PurchaseStats!CardOf(count.got[n].row) = c})]
<1>t. CardsRowsInv /\ count \in CardsCallType /\ CardsGoodCall(count) /\ count.pc = "sum" /\
        count' = [count EXCEPT !.pc = "answer", !.count = counts]
  BY CardsCounts DEF CardsStatsInv, CardsRestInv, PurchaseStats!Sum
<1>g. count.got \in Seq([id : Nat, row : PurchaseStats!Row])
  BY <1>t DEF CardsCallType
<1>1. counts \in [PurchaseStats!Cards -> Nat]
  <2>1. DOMAIN count.got = 1..Len(count.got) /\ Len(count.got) \in Nat
    BY <1>g
  <2>2. IsFiniteSet(DOMAIN count.got)
    BY <2>1, FS_Interval
  <2>3. ASSUME NEW c \in PurchaseStats!Cards
        PROVE  Cardinality({n \in mine : c = "total" \/ PurchaseStats!CardOf(count.got[n].row) = c}) \in Nat
    <3>1. {n \in mine : c = "total" \/ PurchaseStats!CardOf(count.got[n].row) = c} \subseteq DOMAIN count.got
      OBVIOUS
    <3>2. QED
      BY <2>2, <3>1, FS_Subset, FS_CardinalityType
  <2> HIDE DEF mine
  <2>4. QED
    BY <2>3
<1>2. \A c \in PurchaseStats!Cards : counts[c] =
        Cardinality({n \in mine : c = "total" \/ PurchaseStats!CardOf(count.got[n].row) = c})
  OBVIOUS
<1>3. count.age = changes /\ CardsInReach => \A c \in PurchaseStats!Cards : counts[c] = CardsCountOf(count.of, c)
  <2>1. SUFFICES ASSUME count.age = changes, CardsInReach, NEW c \in PurchaseStats!Cards
                 PROVE  Cardinality({n \in mine : c = "total" \/ PurchaseStats!CardOf(count.got[n].row) = c}) =
                          CardsCountOf(count.of, c)
    BY <1>2
  <2>2. CardsNewest(count.got, Len(rows))
    BY <1>t, <2>1 DEF CardsGoodCall, CardsComplete
  <2>3. QED
    BY <1>t, <1>g, <2>2, CardsSumsRight
<1> HIDE DEF counts
<1>4. /\ count' \in CardsCallType /\ count'.pc = "answer" /\ count'.of = count.of /\ count'.count = counts /\
           count'.got = count.got
      /\ count'.batch = count.batch /\ count'.had = count.had /\ count'.age = count.age
  BY <1>t, <1>1 DEF CardsCallType
<1>5. CardsRight(count.of, counts, count.age)
  BY <1>t, <1>3 DEF CardsRight, CardsGoodCall
<1>6. QED
  BY <1>t, <1>4, <1>5 DEF CardsGoodCall

LEMMA CardsAnsweredKeeps ==
    ASSUME PurchaseStats!StatsAssumption, CardsStatsInv, PurchaseStats!Answered
    PROVE  /\ count' = PurchaseStats!IdleCall /\ DOMAIN stats' = PurchaseStats!Searches
           /\ \A s \in PurchaseStats!Searches : stats'[s] # Nil =>
                stats'[s].age \in Nat /\ CardsRight(s, stats'[s].count, stats'[s].age)
<1> DEFINE a == [count |-> count.count, age |-> count.age]
<1>1. /\ count' = PurchaseStats!IdleCall /\ stats' = [stats EXCEPT ![count.of] = a] /\ count.pc = "answer" /\
           count \in CardsCallType
      /\ CardsGoodCall(count) /\ DOMAIN stats = PurchaseStats!Searches
  BY DEF PurchaseStats!Answered, CardsStatsInv, CardsRestInv
<1>2. CardsRight(count.of, a.count, a.age) /\ a.age \in Nat /\ count.of \in PurchaseStats!Searches
  BY <1>1 DEF CardsGoodCall, CardsCallType
<1> HIDE DEF a
<1>3. DOMAIN stats' = PurchaseStats!Searches /\
        \A s \in PurchaseStats!Searches : stats'[s] = IF s = count.of THEN a ELSE stats[s]
  BY <1>1
<1>4. QED
  BY <1>1, <1>2, <1>3 DEF CardsStatsInv, CardsRestInv

LEMMA CardsStatsInvStep ==
    ASSUME PurchaseStats!StatsAssumption, CardsStatsInv, [PurchaseStats!Next]_(PurchaseStats!vars)
    PROVE  CardsStatsInv'
<1>1. ASSUME UNCHANGED <<rows, changes>>, count' \in CardsCallType, CardsGoodCall(count'),
             search' \in PurchaseStats!Searches,
             DOMAIN stats' = PurchaseStats!Searches,
             \A s \in PurchaseStats!Searches : stats'[s] # Nil =>
               stats'[s].age \in Nat /\ CardsRight(s, stats'[s].count, stats'[s].age)
      PROVE  CardsStatsInv'
  BY <1>1, CardsSameRows DEF CardsStatsInv, CardsRestInv, CardsCallType, PurchaseStats!Searches
<1>2. ASSUME UNCHANGED <<rows, changes, search, stats>>, count' \in CardsCallType, CardsGoodCall(count')
      PROVE  CardsStatsInv'
  BY <1>1, <1>2 DEF CardsStatsInv, CardsRestInv
<1>3. PurchaseStats!IdleCall \in CardsCallType /\ CardsGoodCall(PurchaseStats!IdleCall)
  BY CardsIdleIs, CardsIdleGood DEF CardsStatsInv, CardsRestInv, CardsRowsInv
<1>4. CASE PurchaseStats!RowsChange /\ UNCHANGED <<search, stats, count>>
  BY <1>4, CardsChangeKeeps
<1>5. ASSUME NEW s \in PurchaseStats!Searches, PurchaseStats!Search(s) PROVE CardsStatsInv'
  BY <1>1, <1>5 DEF PurchaseStats!Search, CardsStatsInv, CardsRestInv
<1>6. CASE PurchaseStats!Ask
  BY <1>2, <1>6, CardsAskKeeps DEF PurchaseStats!Ask
<1>7. CASE PurchaseStats!FallBack
  BY <1>2, <1>7, CardsFallBackKeeps DEF PurchaseStats!FallBack
<1>8. CASE PurchaseStats!GetBatch
  <2>1. UNCHANGED <<rows, changes, search, stats>>
    BY <1>8 DEF PurchaseStats!GetBatch
  <2>2. QED
    BY <1>2, <1>8, <2>1, CardsBatchKeeps
<1>9. CASE PurchaseStats!Sum
  <2>1. UNCHANGED <<rows, changes, search, stats>>
    BY CardsCounts, <1>9 DEF PurchaseStats!Sum
  <2>2. QED
    BY <1>2, <1>9, <2>1, CardsSumKeeps
<1>10. CASE PurchaseStats!Answered
  <2>1. UNCHANGED <<rows, changes, search>>
    BY <1>10 DEF PurchaseStats!Answered
  <2>2. search' \in PurchaseStats!Searches
    BY <2>1 DEF CardsStatsInv, CardsRestInv
  <2>3. QED
    BY <1>1, <1>3, <1>10, <2>1, <2>2, CardsAnsweredKeeps
<1>11. CASE PurchaseStats!Failed
  BY <1>2, <1>3, <1>11 DEF PurchaseStats!Failed
<1>12. ASSUME NEW c \in PurchaseStats!Cards, PurchaseStats!Count(c) PROVE CardsStatsInv'
  BY CardsCounts, <1>2, <1>12, CardsCountKeeps DEF PurchaseStats!Count
<1>13. CASE UNCHANGED PurchaseStats!vars
  BY <1>2, <1>13 DEF PurchaseStats!vars, CardsStatsInv
<1>14. QED
  BY <1>4, <1>5, <1>6, <1>7, <1>8, <1>9, <1>10, <1>11, <1>12, <1>13 DEF PurchaseStats!Next

LEMMA CardsStatsInvImplies ==
    ASSUME PurchaseStats!StatsAssumption, CardsStatsInv
    PROVE  PurchaseStats!TypeOK /\ PurchaseStats!CardsCountRows /\ PurchaseStats!BatchesMissNone
<1>1. PurchaseStats!TypeOK
  BY DEF CardsStatsInv, CardsRestInv, CardsRowsInv, PurchaseStats!TypeOK, CardsCallType
<1>2. PurchaseStats!CardsCountRows
  BY CardsCounts DEF CardsStatsInv, CardsRestInv, PurchaseStats!CardsCountRows, PurchaseStats!Known, CardsRight,
       CardsInReach, CardsCountOf
<1>3. PurchaseStats!BatchesMissNone
  <2>1. SUFFICES ASSUME count.pc = "sum", CardsInReach, NEW i \in 1..count.had
                 PROVE  i \in {count.got[n].id : n \in DOMAIN count.got}
    BY DEF PurchaseStats!BatchesMissNone, CardsInReach
  <2>2. CardsHas(count.got, i)
    BY <2>1 DEF CardsStatsInv, CardsGoodCall, CardsComplete
  <2>3. QED
    BY <2>2 DEF CardsHas
<1>4. QED
  BY <1>1, <1>2, <1>3

LEMMA CardsStatsHold == PurchaseStats!StatsAssumption =>
  (PurchaseStats!Spec => [](PurchaseStats!TypeOK /\ PurchaseStats!CardsCountRows /\ PurchaseStats!BatchesMissNone))
<1>1. SUFFICES ASSUME PurchaseStats!StatsAssumption PROVE PurchaseStats!Spec =>
        [](PurchaseStats!TypeOK /\ PurchaseStats!CardsCountRows /\ PurchaseStats!BatchesMissNone)
  OBVIOUS
<1>2. PurchaseStats!Init => CardsStatsInv
  BY <1>1, CardsStatsInvInit
<1>3. CardsStatsInv /\ [PurchaseStats!Next]_(PurchaseStats!vars) => CardsStatsInv'
  BY <1>1, CardsStatsInvStep
<1>4. CardsStatsInv => PurchaseStats!TypeOK /\ PurchaseStats!CardsCountRows /\ PurchaseStats!BatchesMissNone
  BY <1>1, CardsStatsInvImplies
<1>5. QED
  BY <1>2, <1>3, <1>4, PTL DEF PurchaseStats!Spec
-----------------------------------------------------------------------------
(***************************************************************************)
(* The drawer of a purchase: PurchaseDrawer.                               *)
(***************************************************************************)
(* The cardinality the instance names is that of the library.              *)
LEMMA OpenedCounts ==
    ASSUME NEW S
    PROVE  /\ PurchaseDrawer!Cardinality(S) = Cardinality(S)
           /\ PurchaseDrawer!IsFiniteSet(S) <=> IsFiniteSet(S)
BY DEF PurchaseDrawer!Cardinality, Cardinality, PurchaseDrawer!IsFiniteSet, IsFiniteSet

(* The rows: of their type, as the seed and the service leave them, and no *)
(* more than there were changes for.                                       *)
OpenedRowsInv ==
    /\ PurchaseDrawer!RowsTypeOK
    /\ \A i \in DOMAIN rows : PurchaseDrawer!Plausible(rows[i])
    /\ Len(SeedRows) <= Len(rows) /\ Len(rows) <= Len(SeedRows) + changes

LEMMA OpenedRowsInvInit == ASSUME PurchaseDrawer!RowsAssumption, PurchaseDrawer!RowsInit PROVE OpenedRowsInv
BY DEF PurchaseDrawer!RowsAssumption, PurchaseDrawer!RowsInit, OpenedRowsInv, PurchaseDrawer!RowsTypeOK

(* A change adds a row or moves one; none goes.                            *)
LEMMA OpenedRowsInvStep ==
    ASSUME PurchaseDrawer!RowsAssumption, OpenedRowsInv, PurchaseDrawer!RowsChange
    PROVE  /\ OpenedRowsInv' /\ Len(rows) <= Len(rows') /\ changes' = changes + 1
<1> USE DEF OpenedRowsInv, PurchaseDrawer!RowsTypeOK
<1>1. changes \in Nat /\ changes' = changes + 1 /\ changes' \in 0..MaxRowChanges
  BY DEF PurchaseDrawer!RowsChange, PurchaseDrawer!RowsAssumption
<1>2. CASE PurchaseDrawer!Initiate
  <2>1. PurchaseDrawer!NewRow \in PurchaseDrawer!Row /\ PurchaseDrawer!Plausible(PurchaseDrawer!NewRow)
    BY DEF PurchaseDrawer!NewRow, PurchaseDrawer!Row, PurchaseDrawer!Plausible
  <2>2. QED
    BY <1>1, <1>2, <2>1 DEF PurchaseDrawer!Initiate, PurchaseDrawer!RowsAssumption
<1>3. CASE \E i \in DOMAIN rows : \E r \in PurchaseDrawer!Moved(rows[i]) \ {rows[i]} : rows' = [rows EXCEPT ![i] = r]
  <2>0. PICK i \in DOMAIN rows : \E r \in PurchaseDrawer!Moved(rows[i]) \ {rows[i]} : rows' = [rows EXCEPT ![i] = r]
    BY <1>3
  <2>1. PICK r \in PurchaseDrawer!Moved(rows[i]) : rows' = [rows EXCEPT ![i] = r]
    BY <2>0
  <2>2. rows[i] \in PurchaseDrawer!Row /\ PurchaseDrawer!Plausible(rows[i])
    OBVIOUS
  <2>3. r \in PurchaseDrawer!Row /\ PurchaseDrawer!Plausible(r)
    BY <2>2 DEF PurchaseDrawer!Row, PurchaseDrawer!Moved, PurchaseDrawer!Plausible
  <2>4. rows' \in Seq(PurchaseDrawer!Row) /\ Len(rows') = Len(rows) /\ DOMAIN rows' = DOMAIN rows
    BY <2>1, <2>3
  <2>5. \A j \in DOMAIN rows : rows'[j] \in {rows[j], r}
    BY <2>1
  <2>6. QED
    BY <1>1, <2>3, <2>4, <2>5 DEF PurchaseDrawer!RowsAssumption
<1>4. QED
  BY <1>2, <1>3 DEF PurchaseDrawer!RowsChange
-----------------------------------------------------------------------------
(* Every answer, on its way or kept, is the row of its id, if no row has   *)
(* changed since; and there is a row for every id asked for.               *)
OpenedFits(i, a) == a.row \in PurchaseDrawer!Row /\ a.age \in 0..changes /\ (a.age = changes => a.row = rows[i])

OpenedDrawerInv ==
    /\ OpenedRowsInv
    /\ open \in DOMAIN rows \cup {Nil}
    /\ DOMAIN detail = PurchaseDrawer!Ids /\ detail = [i \in PurchaseDrawer!Ids |-> detail[i]]
    /\ asking \in [PurchaseDrawer!Ids -> [pc : {"idle", "read", "answer"}, row : PurchaseDrawer!Row, age : Nat]]
    /\ \A i \in PurchaseDrawer!Ids : asking[i].pc # "idle" => i \in DOMAIN rows
    /\ \A i \in PurchaseDrawer!Ids : asking[i].pc = "answer" => OpenedFits(i, asking[i])
    /\ \A i \in PurchaseDrawer!Ids : detail[i] # Nil => i \in DOMAIN rows /\ OpenedFits(i, detail[i])

LEMMA OpenedRowsAreIds ==
    ASSUME PurchaseDrawer!RowsAssumption, OpenedRowsInv
    PROVE  DOMAIN rows \subseteq PurchaseDrawer!Ids /\ DOMAIN rows = 1..Len(rows)
BY DEF PurchaseDrawer!RowsAssumption, OpenedRowsInv, PurchaseDrawer!RowsTypeOK, PurchaseDrawer!Ids

LEMMA OpenedDrawerInvInit == ASSUME PurchaseDrawer!RowsAssumption, PurchaseDrawer!Init PROVE OpenedDrawerInv
<1>1. PurchaseDrawer!IdleCall \in [pc : {"idle", "read", "answer"}, row : PurchaseDrawer!Row, age : Nat]
  BY DEF PurchaseDrawer!IdleCall, PurchaseDrawer!NewRow, PurchaseDrawer!Row
<1>2. QED
  BY <1>1, OpenedRowsInvInit DEF PurchaseDrawer!Init, OpenedDrawerInv, PurchaseDrawer!IdleCall

LEMMA OpenedDrawerInvStep ==
    ASSUME PurchaseDrawer!RowsAssumption, OpenedDrawerInv, [PurchaseDrawer!Next]_(PurchaseDrawer!vars)
    PROVE  OpenedDrawerInv'
<1> USE DEF OpenedDrawerInv
<1>0. DOMAIN rows \subseteq PurchaseDrawer!Ids /\ DOMAIN rows = 1..Len(rows)
  BY OpenedRowsAreIds
<1>t. changes \in Nat /\ \A i \in DOMAIN rows : rows[i] \in PurchaseDrawer!Row
  BY DEF OpenedRowsInv, PurchaseDrawer!RowsTypeOK
<1>i. PurchaseDrawer!IdleCall \in [pc : {"idle", "read", "answer"}, row : PurchaseDrawer!Row, age : Nat] /\
        PurchaseDrawer!IdleCall.pc = "idle"
  BY DEF PurchaseDrawer!IdleCall, PurchaseDrawer!NewRow, PurchaseDrawer!Row
<1>a. ASSUME NEW i \in DOMAIN rows, PurchaseDrawer!Ask(i)
      PROVE  /\ asking' \in [PurchaseDrawer!Ids -> [pc : {"idle", "read", "answer"}, row : PurchaseDrawer!Row,
                                                    age : Nat]]
             /\ \A j \in PurchaseDrawer!Ids : asking'[j].pc = "answer" => asking'[j] = asking[j]
             /\ \A j \in PurchaseDrawer!Ids : asking'[j].pc # "idle" => j = i \/ asking'[j] = asking[j]
  BY <1>0, <1>a, <1>i DEF PurchaseDrawer!Ask, PurchaseDrawer!IdleCall
<1>r. ASSUME UNCHANGED rows, UNCHANGED changes, NEW i, NEW a
      PROVE  OpenedRowsInv' /\ OpenedFits(i, a)' = OpenedFits(i, a)
  BY <1>r DEF OpenedRowsInv, PurchaseDrawer!RowsTypeOK, OpenedFits
<1>1. CASE PurchaseDrawer!RowMoves
  <2>1. OpenedRowsInv' /\ Len(rows) <= Len(rows') /\ changes' = changes + 1
    BY <1>1, OpenedRowsInvStep DEF PurchaseDrawer!RowMoves
  <2>2. DOMAIN rows \subseteq DOMAIN rows'
    BY <1>0, <2>1 DEF OpenedRowsInv, PurchaseDrawer!RowsTypeOK
  <2>3. \A i \in PurchaseDrawer!Ids : \A a : OpenedFits(i, a) => OpenedFits(i, a)'
    <3>1. SUFFICES ASSUME NEW i \in PurchaseDrawer!Ids, NEW a, OpenedFits(i, a) PROVE OpenedFits(i, a)'
      OBVIOUS
    <3>2. a.age \in 0..changes' /\ a.age # changes' /\ a.row \in PurchaseDrawer!Row
      BY <1>t, <2>1, <3>1 DEF OpenedFits
    <3>3. QED
      BY <3>2 DEF OpenedFits
  <2>4. UNCHANGED <<open, detail, asking>>
    BY <1>1 DEF PurchaseDrawer!RowMoves
  <2>5. PurchaseDrawer!Ids' = PurchaseDrawer!Ids
    BY DEF PurchaseDrawer!Ids
  <2>6. \A i \in PurchaseDrawer!Ids : asking[i].pc = "answer" => OpenedFits(i, asking[i])'
    BY <2>3, <2>4
  <2>7. QED
    BY <2>1, <2>2, <2>3, <2>4, <2>5
<1>2. CASE PurchaseDrawer!Close
  BY <1>2, <1>r DEF PurchaseDrawer!Close, OpenedFits
<1>3. CASE PurchaseDrawer!CheckQPay
  <2>1. open \in DOMAIN rows /\ PurchaseDrawer!Ask(open) /\ UNCHANGED <<rows, changes, open, detail>>
    BY <1>3 DEF PurchaseDrawer!CheckQPay
  <2>2. QED
    BY <1>a, <1>r, <2>1
<1>4. ASSUME NEW i \in DOMAIN rows, PurchaseDrawer!Open(i) PROVE OpenedDrawerInv'
  <2>1. PurchaseDrawer!Ask(i) /\ open' = i /\ UNCHANGED <<rows, changes, detail>>
    BY <1>4 DEF PurchaseDrawer!Open
  <2>2. QED
    BY <1>a, <1>r, <2>1
<1>5. ASSUME NEW i \in DOMAIN rows, PurchaseDrawer!Read(i) PROVE OpenedDrawerInv'
  <2>1. UNCHANGED <<rows, changes, open, detail>> /\ i \in PurchaseDrawer!Ids
    BY <1>0, <1>5 DEF PurchaseDrawer!Read
  <2>2. asking' = [asking EXCEPT ![i] = [pc |-> "answer", row |-> rows[i], age |-> changes]]
    BY <1>5 DEF PurchaseDrawer!Read
  <2>3. OpenedFits(i, asking'[i])
    BY <1>t, <2>1, <2>2 DEF OpenedFits
  <2>4. \A j \in PurchaseDrawer!Ids : j # i => asking'[j] = asking[j]
    BY <2>2
  <2>5. asking' \in [PurchaseDrawer!Ids -> [pc : {"idle", "read", "answer"}, row : PurchaseDrawer!Row, age : Nat]]
    BY <1>t, <2>1, <2>2
  <2>6. QED
    BY <1>r, <2>1, <2>3, <2>4, <2>5
<1>6. ASSUME NEW i \in DOMAIN rows, PurchaseDrawer!Answered(i) PROVE OpenedDrawerInv'
  <2>1. UNCHANGED <<rows, changes, open>> /\ i \in PurchaseDrawer!Ids /\ OpenedFits(i, asking[i])
    BY <1>0, <1>6 DEF PurchaseDrawer!Answered
  <2> DEFINE d == [row |-> asking[i].row, age |-> asking[i].age]
  <2>2. detail' = [detail EXCEPT ![i] = d] /\ asking' = [asking EXCEPT ![i] = PurchaseDrawer!IdleCall]
    BY <1>6 DEF PurchaseDrawer!Answered
  <2>3. OpenedFits(i, d)
    BY <2>1 DEF OpenedFits
  <2>4. /\ \A j \in PurchaseDrawer!Ids : asking'[j] = IF j = i THEN PurchaseDrawer!IdleCall ELSE asking[j]
        /\ \A j \in PurchaseDrawer!Ids : detail'[j] = IF j = i THEN d ELSE detail[j]
        /\ DOMAIN detail' = PurchaseDrawer!Ids /\ detail' = [j \in PurchaseDrawer!Ids |-> detail'[j]]
        /\ asking' \in [PurchaseDrawer!Ids -> [pc : {"idle", "read", "answer"}, row : PurchaseDrawer!Row, age : Nat]]
    BY <1>i, <2>1, <2>2
  <2> HIDE DEF d
  <2>5. QED
    BY <1>i, <1>r, <2>1, <2>3, <2>4
<1>7. ASSUME NEW i \in DOMAIN rows, PurchaseDrawer!Failed(i) PROVE OpenedDrawerInv'
  <2>1. UNCHANGED <<rows, changes, open, detail>> /\ i \in PurchaseDrawer!Ids /\
          asking' = [asking EXCEPT ![i] = PurchaseDrawer!IdleCall]
    BY <1>0, <1>7 DEF PurchaseDrawer!Failed
  <2>2. /\ \A j \in PurchaseDrawer!Ids : asking'[j] = IF j = i THEN PurchaseDrawer!IdleCall ELSE asking[j]
        /\ asking' \in [PurchaseDrawer!Ids -> [pc : {"idle", "read", "answer"}, row : PurchaseDrawer!Row, age : Nat]]
    BY <1>i, <2>1
  <2>3. QED
    BY <1>i, <1>r, <2>1, <2>2
<1>8. CASE UNCHANGED PurchaseDrawer!vars
  BY <1>8, <1>r DEF PurchaseDrawer!vars, OpenedFits
<1>9. QED
  BY <1>1, <1>2, <1>3, <1>4, <1>5, <1>6, <1>7, <1>8 DEF PurchaseDrawer!Next

(* The four steps of a timeline, one by one.                               *)
LEMMA OpenedStepsAre == PurchaseDrawer!Steps[1] = "created" /\ PurchaseDrawer!Steps[2] = "contract" /\
  PurchaseDrawer!Steps[3] = "paid" /\ PurchaseDrawer!Steps[4] = "final"
BY DEF PurchaseDrawer!Steps

LEMMA OpenedOneStep ==
    ASSUME NEW r \in PurchaseDrawer!Row, PurchaseDrawer!Plausible(r), r.status \notin {"COMPLETED", "CANCELLED"}
    PROVE  /\ \E m \in 1..4 : {n \in 1..4 : PurchaseDrawer!StepState(r, PurchaseDrawer!Steps[n]) = "current"} = {m}
           /\ \A m, n \in 1..4 : m < n /\ PurchaseDrawer!StepState(r, PurchaseDrawer!Steps[n]) = "done" =>
                PurchaseDrawer!StepState(r, PurchaseDrawer!Steps[m]) = "done"
           /\ (PurchaseDrawer!ContractLabel(r) = "confirmed") = (PurchaseDrawer!StepState(r, "contract") # "upcoming")
<1> DEFINE st(n) == PurchaseDrawer!StepState(r, PurchaseDrawer!Steps[n])
<1>1. r.status \in {"PENDING", "CONTRACT_SIGNED", "PAYMENT_PENDING"} /\ r.qpay \in {"PENDING", "PAID", "FAILED"}
  BY DEF PurchaseDrawer!Row
<1>2. CASE r.status = "PENDING"
  <2>1. st(1) = "current" /\ st(2) = "upcoming" /\ st(3) = "upcoming" /\ st(4) = "upcoming"
    BY <1>1, <1>2, OpenedStepsAre DEF PurchaseDrawer!StepState, PurchaseDrawer!ContractDone, PurchaseDrawer!Plausible
  <2>2. PurchaseDrawer!ContractLabel(r) = "waiting"
    BY <1>2 DEF PurchaseDrawer!ContractLabel, PurchaseDrawer!ContractDone
  <2>3. {n \in 1..4 : st(n) = "current"} = {1}
    BY <2>1
  <2>4. QED
    BY <2>1, <2>2, <2>3, OpenedStepsAre
<1>3. CASE r.status # "PENDING" /\ r.qpay # "PAID"
  <2>1. st(1) = "done" /\ st(2) = "current" /\ st(3) = "upcoming" /\ st(4) = "upcoming"
    BY <1>1, <1>3, OpenedStepsAre DEF PurchaseDrawer!StepState, PurchaseDrawer!ContractDone, PurchaseDrawer!Plausible
  <2>2. PurchaseDrawer!ContractLabel(r) = "confirmed"
    BY <1>1, <1>3 DEF PurchaseDrawer!ContractLabel, PurchaseDrawer!ContractDone
  <2>3. {n \in 1..4 : st(n) = "current"} = {2}
    BY <2>1
  <2>4. QED
    BY <2>1, <2>2, <2>3, OpenedStepsAre
<1>4. CASE r.status # "PENDING" /\ r.qpay = "PAID"
  <2>1. st(1) = "done" /\ st(2) = "done" /\ st(3) = "current" /\ st(4) = "upcoming"
    BY <1>1, <1>4, OpenedStepsAre DEF PurchaseDrawer!StepState, PurchaseDrawer!ContractDone, PurchaseDrawer!Plausible
  <2>2. PurchaseDrawer!ContractLabel(r) = "confirmed"
    BY <1>1, <1>4 DEF PurchaseDrawer!ContractLabel, PurchaseDrawer!ContractDone
  <2>3. {n \in 1..4 : st(n) = "current"} = {3}
    BY <2>1
  <2>4. QED
    BY <2>1, <2>2, <2>3, OpenedStepsAre
<1>5. QED
  BY <1>2, <1>3, <1>4

LEMMA OpenedDrawerInvImplies ==
    ASSUME PurchaseDrawer!RowsAssumption,
           OpenedDrawerInv
    PROVE  PurchaseDrawer!TypeOK /\ PurchaseDrawer!DrawerShowsItsPurchase /\ PurchaseDrawer!StandsAtOneStep
<1>1. DOMAIN rows \subseteq PurchaseDrawer!Ids /\ \A i \in DOMAIN rows : rows[i] \in PurchaseDrawer!Row /\
        PurchaseDrawer!Plausible(rows[i])
  BY OpenedRowsAreIds DEF OpenedDrawerInv, OpenedRowsInv, PurchaseDrawer!RowsTypeOK
<1>2. PurchaseDrawer!TypeOK
  BY DEF OpenedDrawerInv, OpenedRowsInv, PurchaseDrawer!TypeOK, OpenedFits
<1>3. PurchaseDrawer!DrawerShowsItsPurchase
  BY <1>1 DEF OpenedDrawerInv, PurchaseDrawer!DrawerShowsItsPurchase, OpenedFits
<1>4. \A m \in 1..4 : Cardinality({m}) = 1
  BY FS_Singleton
<1>5. PurchaseDrawer!StandsAtOneStep
  <2>1. SUFFICES ASSUME NEW i \in DOMAIN rows, rows[i].status \notin {"COMPLETED", "CANCELLED"}
                 PROVE  /\ Cardinality({n \in 1..4 : PurchaseDrawer!StepState(rows[i], PurchaseDrawer!Steps[n]) =
                                        "current"}) = 1
                        /\ \A m, n \in 1..4 : m < n /\
                             PurchaseDrawer!StepState(rows[i], PurchaseDrawer!Steps[n]) = "done"
                                                 => PurchaseDrawer!StepState(rows[i], PurchaseDrawer!Steps[m]) = "done"
                        /\ (PurchaseDrawer!ContractLabel(rows[i]) = "confirmed") =
                             (PurchaseDrawer!StepState(rows[i], "contract") # "upcoming")
    BY OpenedCounts DEF PurchaseDrawer!StandsAtOneStep
  <2>2. PICK m \in 1..4 : {n \in 1..4 : PurchaseDrawer!StepState(rows[i], PurchaseDrawer!Steps[n]) = "current"} = {m}
    BY <1>1, <2>1, OpenedOneStep
  <2>3. QED
    BY <1>1, <1>4, <2>1, <2>2, OpenedOneStep
<1>6. QED
  BY <1>2, <1>3, <1>5

LEMMA OpenedDrawerHolds ==
    PurchaseDrawer!RowsAssumption =>
      (PurchaseDrawer!Spec =>
          [](PurchaseDrawer!TypeOK /\ PurchaseDrawer!DrawerShowsItsPurchase /\ PurchaseDrawer!StandsAtOneStep))
<1>1. SUFFICES ASSUME PurchaseDrawer!RowsAssumption PROVE PurchaseDrawer!Spec =>
        [](PurchaseDrawer!TypeOK /\ PurchaseDrawer!DrawerShowsItsPurchase /\ PurchaseDrawer!StandsAtOneStep)
  OBVIOUS
<1>2. PurchaseDrawer!Init => OpenedDrawerInv
  BY <1>1, OpenedDrawerInvInit
<1>3. OpenedDrawerInv /\ [PurchaseDrawer!Next]_(PurchaseDrawer!vars) => OpenedDrawerInv'
  BY <1>1, OpenedDrawerInvStep
<1>4. OpenedDrawerInv =>
        PurchaseDrawer!TypeOK /\ PurchaseDrawer!DrawerShowsItsPurchase /\ PurchaseDrawer!StandsAtOneStep
  BY <1>1, OpenedDrawerInvImplies
<1>5. QED
  BY <1>2, <1>3, <1>4, PTL DEF PurchaseDrawer!Spec
-----------------------------------------------------------------------------
(***************************************************************************)
(* The sell requests, their page and their service: SellPanel.             *)
(***************************************************************************)
(* The cardinality the instance names is that of the library.              *)
LEMMA PanelCounts ==
    ASSUME NEW S
    PROVE  /\ SellPanel!Cardinality(S) = Cardinality(S)
           /\ SellPanel!IsFiniteSet(S) <=> IsFiniteSet(S)
BY DEF SellPanel!Cardinality, Cardinality, SellPanel!IsFiniteSet, IsFiniteSet

PanelCallType == [pc : {"idle", "read", "answer"}, age : 0..writes, rows : [Requests -> SellPanel!Statuses] \cup {Nil}]
PanelDataType == [rows : [Requests -> SellPanel!Statuses] \cup {Nil}, age : 0..writes, failed : BOOLEAN]

(* The service's side: the rows, the balance and what is paid from it, and *)
(* the changes under way, no more of them than clicks.                     *)
PanelPending == {a \in Admins : put[a].pc \in {"find", "deduct", "update"}}

PanelServiceInv ==
    /\ row \in [Requests -> SellPanel!Statuses] /\ balance \in 0..Grams /\ paid \in [Requests -> Nat]
    /\ \A r \in Requests : paid[r] + balance <= Grams
    /\ puts \in 0..MaxPuts /\ writes \in Nat
    /\ IsFiniteSet(PanelPending) /\ Cardinality(PanelPending) + writes <= puts
    /\ late \subseteq Requests
    /\ put \in [Admins -> [pc : {"idle", "find", "deduct", "update", "done", "refused"},
                           req : Requests \cup {Nil}, to : SellPanel!Statuses \cup {Nil}]]
    /\ \A a \in Admins : /\ put[a].pc = "idle" <=> put[a].req = Nil
                         /\ put[a].pc # "idle" => put[a].to \in SellPanel!Statuses
                         /\ put[a].pc = "deduct" => put[a].to = "COMPLETED"

(* A request nobody clicked on late has one change under way at most; its  *)
(* row still is the one the click was made with, and it is paid for if it  *)
(* is completed or just about to be.                                       *)
PanelPaying(a, r) == put[a].req = r /\ put[a].pc = "update" /\ put[a].to = "COMPLETED"

PanelOrderInv ==
    \A r \in Requests \ late :
        /\ \A a, b \in Admins : put[a].req = r /\ put[b].req = r => a = b
        /\ \A a \in Admins : put[a].req = r /\ put[a].pc \in {"find", "deduct", "update"} =>
             put[a].to \in SellPanel!Offers(row[r])
        /\ paid[r] = IF row[r] = "COMPLETED" \/ \E a \in Admins : PanelPaying(a, r) THEN 1 ELSE 0

(* The page's side: an answer, on its way or shown, is as new as the last  *)
(* own change after which its query was asked for again.                   *)
PanelPageInv ==
    /\ drawer \in [Admins -> Requests \cup {Nil}]
    /\ own \in [Admins -> [SellPanel!Keys -> 0..writes]]
    /\ query \in [Admins -> [SellPanel!Keys -> PanelCallType]]
    /\ data \in [Admins -> [SellPanel!Keys -> PanelDataType \cup {Nil}]]
    /\ \A a \in Admins, k \in SellPanel!Keys :
          /\ query[a][k].pc = "answer" => query[a][k].age >= own[a][k]
          /\ query[a][k].pc = "idle" /\ data[a][k] # Nil /\ ~data[a][k].failed => data[a][k].age >= own[a][k]

PanelSellInv == PanelServiceInv /\ PanelOrderInv /\ PanelPageInv

LEMMA PanelSellInvInit == ASSUME SellPanel!SellPanelAssumption, SellPanel!Init PROVE PanelSellInv
<1> USE DEF SellPanel!SellPanelAssumption, SellPanel!Init
<1>1. PanelPending = {}
  BY DEF PanelPending, SellPanel!IdlePut
<1>2. PanelServiceInv
  BY <1>1, FS_EmptySet DEF PanelServiceInv, SellPanel!IdlePut, SellPanel!Statuses
<1>3. PanelOrderInv
  BY DEF PanelOrderInv, SellPanel!IdlePut, PanelPaying
<1>5. PanelPageInv
  <2> DEFINE d == [rows |-> row, age |-> 0, failed |-> FALSE]
  <2>1. row \in [Requests -> SellPanel!Statuses] /\ writes = 0
    BY DEF SellPanel!Statuses
  <2>2. d \in PanelDataType /\ d.age = 0
    BY <2>1 DEF PanelDataType
  <2>i. SellPanel!IdleCall \in PanelCallType /\ SellPanel!IdleCall.pc = "idle"
    BY <2>1 DEF PanelCallType, SellPanel!IdleCall
  <2>3. \A a \in Admins, k \in SellPanel!Keys : query[a][k] = SellPanel!IdleCall /\ data[a][k] \in {d, Nil} /\
          own[a][k] = 0
    OBVIOUS
  <2>4. query \in [Admins -> [SellPanel!Keys -> PanelCallType]] /\
          data \in [Admins -> [SellPanel!Keys -> PanelDataType \cup {Nil}]]
    BY <2>2, <2>i
  <2>5. own \in [Admins -> [SellPanel!Keys -> 0..writes]] /\ drawer \in [Admins -> Requests \cup {Nil}]
    BY <2>1
  <2>6. \A a \in Admins, k \in SellPanel!Keys : query[a][k].pc = "idle" /\
          (data[a][k] # Nil => data[a][k].age >= own[a][k])
    <3> HIDE DEF d
    <3>1. \A a \in Admins, k \in SellPanel!Keys : query[a][k].pc = "idle" /\ (data[a][k] # Nil => data[a][k].age = 0)
      BY <2>2, <2>i, <2>3
    <3>2. QED
      BY <2>3, <3>1
  <2> HIDE DEF d, SellPanel!Init
  <2>7. QED
    BY <2>4, <2>5, <2>6 DEF PanelPageInv
<1>6. QED
  BY <1>2, <1>3, <1>5 DEF PanelSellInv
-----------------------------------------------------------------------------
(* Steps that leave the service, or the page, alone.                       *)
PanelServiceVars == <<row, balance, writes, puts, put, late, paid>>
PanelPageVars == <<writes, drawer, data, query, own>>

LEMMA PanelServiceRests ==
    ASSUME PanelServiceInv, PanelOrderInv, UNCHANGED PanelServiceVars
    PROVE  PanelServiceInv' /\ PanelOrderInv'
<1>1. PanelServiceInv'
  BY DEF PanelServiceInv, PanelServiceVars, PanelPending
<1>2. PanelOrderInv'
  BY DEF PanelOrderInv, PanelServiceVars, PanelPaying
<1>3. QED
  BY <1>1, <1>2

LEMMA PanelPageRests == ASSUME PanelPageInv, UNCHANGED PanelPageVars PROVE PanelPageInv'
BY DEF PanelPageInv, PanelPageVars, PanelCallType, PanelDataType

(* What a query's step needs: a call and an answer that go together.       *)
LEMMA PanelQueryStep ==
    ASSUME SellPanel!SellPanelAssumption, PanelServiceInv, PanelPageInv, NEW a \in Admins, NEW k \in SellPanel!Keys,
           NEW c, NEW d,
           UNCHANGED <<writes, own>>, drawer' \in [Admins -> Requests \cup {Nil}],
           query' = [query EXCEPT ![a][k] = c], data' = [data EXCEPT ![a][k] = d], c \in PanelCallType,
           d \in PanelDataType \cup {Nil},
           c.pc = "answer" => c.age >= own[a][k],
           c.pc = "idle" /\ d # Nil /\ ~d.failed => d.age >= own[a][k]
    PROVE  PanelPageInv'
<1> USE DEF PanelPageInv
<1>1. \A b \in Admins, l \in SellPanel!Keys : /\ query'[b][l] = IF b = a /\ l = k THEN c ELSE query[b][l]
                                              /\ data'[b][l] = IF b = a /\ l = k THEN d ELSE data[b][l]
  OBVIOUS
<1>2. query' \in [Admins -> [SellPanel!Keys -> PanelCallType]] /\ PanelCallType' = PanelCallType
  BY DEF PanelCallType
<1>3. data' \in [Admins -> [SellPanel!Keys -> PanelDataType \cup {Nil}]] /\ PanelDataType' = PanelDataType
  BY DEF PanelDataType
<1>4. QED
  BY <1>1, <1>2, <1>3

LEMMA PanelIdleIsACall ==
    ASSUME PanelServiceInv
    PROVE  SellPanel!IdleCall \in PanelCallType /\ SellPanel!Asked \in PanelCallType /\
           SellPanel!IdleCall.pc = "idle" /\ SellPanel!Asked.pc = "read"
BY DEF PanelServiceInv, SellPanel!IdleCall, SellPanel!Asked, PanelCallType

LEMMA PanelQueriesKeep ==
    ASSUME SellPanel!SellPanelAssumption, PanelServiceInv, PanelPageInv, NEW a \in Admins,
           \/ SellPanel!Close(a)
           \/ \E r \in Requests : SellPanel!Open(a, r)
           \/ \E k \in SellPanel!Keys : SellPanel!Read(a, k) \/ SellPanel!Answered(a, k) \/ SellPanel!Failed(a, k)
    PROVE  PanelPageInv' /\ UNCHANGED PanelServiceVars
<1> USE PanelIdleIsACall
<1>t. \A k \in SellPanel!Keys : query[a][k] \in PanelCallType /\ data[a][k] \in PanelDataType \cup {Nil} /\
        own[a][k] \in 0..writes /\ writes \in Nat
  BY DEF PanelPageInv, PanelServiceInv
<1>1. CASE SellPanel!Close(a)
  BY <1>1 DEF SellPanel!Close, PanelPageInv, PanelServiceVars, PanelCallType, PanelDataType
<1>2. ASSUME NEW r \in Requests, SellPanel!Open(a, r) PROVE PanelPageInv' /\ UNCHANGED PanelServiceVars
  <2> DEFINE c == IF query[a][r].pc = "idle" THEN SellPanel!Asked ELSE query[a][r]
  <2>1. r \in SellPanel!Keys
    BY DEF SellPanel!Keys
  <2>2. query' = [query EXCEPT ![a][r] = c] /\ drawer' \in [Admins -> Requests \cup {Nil}]
    BY <1>2 DEF SellPanel!Open, PanelPageInv
  <2>3. data' = [data EXCEPT ![a][r] = data[a][r]] /\ UNCHANGED <<writes, own>>
    BY <1>2, <2>1 DEF SellPanel!Open, PanelPageInv
  <2>4. c \in PanelCallType /\ c.pc # "idle" /\ (c.pc = "answer" => c = query[a][r])
    BY <1>t, <2>1
  <2>5. c.pc = "answer" => c.age >= own[a][r]
    BY <2>1, <2>4 DEF PanelPageInv
  <2> HIDE DEF c
  <2>6. PanelPageInv'
    BY <1>t, <2>1, <2>2, <2>3, <2>4, <2>5, PanelQueryStep
  <2>7. QED
    BY <1>2, <2>6 DEF SellPanel!Open, PanelServiceVars
<1>3. ASSUME NEW k \in SellPanel!Keys, SellPanel!Read(a, k) PROVE PanelPageInv' /\ UNCHANGED PanelServiceVars
  <2> DEFINE c == [pc |-> "answer", rows |-> row, age |-> writes]
  <2>1. query' = [query EXCEPT ![a][k] = c] /\ drawer' \in [Admins -> Requests \cup {Nil}]
    BY <1>3 DEF SellPanel!Read, PanelPageInv
  <2>2. data' = [data EXCEPT ![a][k] = data[a][k]] /\ UNCHANGED <<writes, own>>
    BY <1>3 DEF SellPanel!Read, PanelPageInv
  <2>3. c \in PanelCallType /\ c.pc = "answer" /\ c.age >= own[a][k]
    BY <1>t DEF PanelCallType, PanelServiceInv
  <2> HIDE DEF c
  <2>4. PanelPageInv'
    BY <1>t, <2>1, <2>2, <2>3, PanelQueryStep
  <2>5. QED
    BY <1>3, <2>4 DEF SellPanel!Read, PanelServiceVars
<1>4. ASSUME NEW k \in SellPanel!Keys, SellPanel!Answered(a, k) PROVE PanelPageInv' /\ UNCHANGED PanelServiceVars
  <2> DEFINE d == [rows |-> query[a][k].rows, age |-> query[a][k].age, failed |-> FALSE]
  <2>1. query' = [query EXCEPT ![a][k] = SellPanel!IdleCall] /\ drawer' \in [Admins -> Requests \cup {Nil}]
    BY <1>4 DEF SellPanel!Answered, PanelPageInv
  <2>2. data' = [data EXCEPT ![a][k] = d] /\ UNCHANGED <<writes, own>>
    BY <1>4 DEF SellPanel!Answered
  <2>3. d.age >= own[a][k] /\ d \in PanelDataType
    BY <1>t, <1>4 DEF SellPanel!Answered, PanelPageInv, PanelCallType, PanelDataType
  <2> HIDE DEF d
  <2>4. PanelPageInv'
    BY <1>t, <2>1, <2>2, <2>3, PanelQueryStep
  <2>5. QED
    BY <1>4, <2>4 DEF SellPanel!Answered, PanelServiceVars
<1>5. ASSUME NEW k \in SellPanel!Keys, SellPanel!Failed(a, k) PROVE PanelPageInv' /\ UNCHANGED PanelServiceVars
  <2> DEFINE d == IF data[a][k] = Nil THEN Nil ELSE [data[a][k] EXCEPT !.failed = TRUE]
  <2>1. query' = [query EXCEPT ![a][k] = SellPanel!IdleCall] /\ drawer' \in [Admins -> Requests \cup {Nil}]
    BY <1>5 DEF SellPanel!Failed, PanelPageInv
  <2>2. data' = [data EXCEPT ![a][k] = d] /\ UNCHANGED <<writes, own>>
    BY <1>5 DEF SellPanel!Failed
  <2>3. d \in PanelDataType \cup {Nil} /\ (d # Nil => d.failed)
    BY <1>t DEF PanelDataType
  <2> HIDE DEF d
  <2>4. PanelPageInv'
    BY <1>t, <2>1, <2>2, <2>3, PanelQueryStep
  <2>5. QED
    BY <1>5, <2>4 DEF SellPanel!Failed, PanelServiceVars
<1>6. QED
  BY <1>1, <1>2, <1>3, <1>4, <1>5

(* A click, and the steps of the change it asks for.                       *)
LEMMA PanelOffersAre ==
    ASSUME NEW s
    PROVE  /\ SellPanel!Offers(s) \subseteq SellPanel!Statuses
           /\ s \notin {"PENDING", "APPROVED"} => SellPanel!Offers(s) = {}
           /\ SellPanel!Offers("PENDING") = {"APPROVED", "CANCELLED"} /\
                SellPanel!Offers("APPROVED") = {"COMPLETED", "CANCELLED"}
BY DEF SellPanel!Offers, SellPanel!Statuses

LEMMA PanelClickKeeps ==
    ASSUME SellPanel!SellPanelAssumption, PanelSellInv, NEW a \in Admins, NEW to \in SellPanel!Statuses,
           SellPanel!Click(a, to)
    PROVE  PanelServiceInv' /\ PanelOrderInv'
<1> USE DEF SellPanel!SellPanelAssumption, PanelSellInv
<1> DEFINE r == drawer[a]
           p == [pc |-> "find", req |-> r, to |-> to]
<1>1. /\ r \in Requests /\ put[a].pc = "idle" /\ puts < MaxPuts /\ puts' = puts + 1
      /\ put' = [put EXCEPT ![a] = p] /\ to \in SellPanel!Offers(SellPanel!Item(a))
      /\ UNCHANGED <<row, balance, writes, paid>>
  BY DEF SellPanel!Click, PanelPageInv
<1>2. late' = IF SellPanel!Item(a) # row[r] \/ \E b \in Admins : put[b].req = r THEN late \cup {r} ELSE late
  BY DEF SellPanel!Click
<1> HIDE DEF r
<1>3. PanelServiceInv'
  <2>1. PanelPending' = PanelPending \cup {a} /\ a \notin PanelPending
    BY <1>1 DEF PanelPending, PanelServiceInv
  <2>2. IsFiniteSet(PanelPending') /\ Cardinality(PanelPending') = Cardinality(PanelPending) + 1 /\
          Cardinality(PanelPending) \in Nat
    BY <2>1, FS_AddElement, FS_CardinalityType DEF PanelServiceInv
  <2>3. put' \in [Admins -> [pc : {"idle", "find", "deduct", "update", "done", "refused"},
                             req : Requests \cup {Nil}, to : SellPanel!Statuses \cup {Nil}]]
    BY <1>1 DEF PanelServiceInv
  <2>4. \A b \in Admins : put'[b] = IF b = a THEN p ELSE put[b]
    BY <1>1 DEF PanelServiceInv
  <2>5. late' \subseteq Requests
    BY <1>1, <1>2 DEF PanelServiceInv
  <2>6. puts' \in 0..MaxPuts /\ Cardinality(PanelPending') + writes' <= puts'
    BY <1>1, <2>2 DEF PanelServiceInv
  <2>7. \A b \in Admins : /\ put'[b].pc = "idle" <=> put'[b].req = Nil
                          /\ put'[b].pc # "idle" => put'[b].to \in SellPanel!Statuses
                          /\ put'[b].pc = "deduct" => put'[b].to = "COMPLETED"
    BY <1>1, <2>4 DEF PanelServiceInv
  <2>8. QED
    BY <1>1, <2>2, <2>3, <2>5, <2>6, <2>7 DEF PanelServiceInv
<1>4. PanelOrderInv'
  <2>1. \A b \in Admins : put'[b] = IF b = a THEN p ELSE put[b]
    BY <1>1 DEF PanelServiceInv
  <2>2. SUFFICES ASSUME NEW q \in Requests \ late'
                 PROVE  /\ \A b, c \in Admins : put'[b].req = q /\ put'[c].req = q => b = c
                        /\ \A b \in Admins : put'[b].req = q /\ put'[b].pc \in {"find", "deduct", "update"}
                                                => put'[b].to \in SellPanel!Offers(row[q])
                        /\ paid[q] = IF row[q] = "COMPLETED" \/ \E b \in Admins : PanelPaying(b, q)' THEN 1 ELSE 0
    BY <1>1 DEF PanelOrderInv
  <2>3. q \notin late /\ (q = r => SellPanel!Item(a) = row[r] /\ \A b \in Admins : put[b].req # r)
    BY <1>2
  <2>4. put[a].req = Nil /\ Nil \notin Requests
    BY <1>1 DEF PanelServiceInv
  <2>5. \A b \in Admins : PanelPaying(b, q)' <=> PanelPaying(b, q)
    BY <2>1, <2>4 DEF PanelPaying
  <2>6. QED
    BY <1>1, <2>1, <2>3, <2>4, <2>5 DEF PanelOrderInv
<1>5. QED
  BY <1>3, <1>4

(* What the steps of a change have in common: it goes on, and is pending   *)
(* no longer or as before.                                                 *)
PanelPutType == [pc : {"idle", "find", "deduct", "update", "done", "refused"}, req : Requests \cup {Nil},
            to : SellPanel!Statuses \cup {Nil}]

LEMMA PanelGoings ==
    ASSUME PanelServiceInv, NEW a \in Admins, NEW pc \in {"deduct", "update", "done", "refused"}, SellPanel!Goes(a, pc),
           put[a].pc # "idle", pc = "deduct" => put[a].to = "COMPLETED"
    PROVE  /\ put' \in [Admins -> PanelPutType]
           /\ \A b \in Admins : put'[b] = IF b = a THEN [put[a] EXCEPT !.pc = pc] ELSE put[b]
           /\ put'[a].pc = pc /\ put'[a].req = put[a].req /\ put'[a].to = put[a].to
           /\ put[a].req \in Requests \cup {Nil} /\ put[a].req # Nil
           /\ \A b \in Admins : /\ put'[b].pc = "idle" <=> put'[b].req = Nil
                                /\ put'[b].pc # "idle" => put'[b].to \in SellPanel!Statuses
                                /\ put'[b].pc = "deduct" => put'[b].to = "COMPLETED"
<1>1. put \in [Admins -> PanelPutType] /\ put' = [put EXCEPT ![a].pc = pc]
  BY DEF PanelServiceInv, PanelPutType, SellPanel!Goes
<1>2. [put[a] EXCEPT !.pc = pc] \in PanelPutType
  BY <1>1 DEF PanelPutType
<1>3. \A b \in Admins : put'[b] = IF b = a THEN [put[a] EXCEPT !.pc = pc] ELSE put[b]
  BY <1>1
<1>4. put' \in [Admins -> PanelPutType]
  BY <1>1, <1>2
<1>5. put'[a].pc = pc /\ put'[a].req = put[a].req /\ put'[a].to = put[a].to
  BY <1>1, <1>3 DEF PanelPutType
<1>6. put[a].req \in Requests \cup {Nil}
  BY <1>1 DEF PanelPutType
<1>7. QED
  BY <1>3, <1>4, <1>5, <1>6 DEF PanelServiceInv

LEMMA PanelPendingGoes ==
    ASSUME PanelServiceInv, NEW a \in Admins, \A b \in Admins \ {a} : put'[b] = put[b]
    PROVE  /\ put'[a].pc \in {"find", "deduct", "update"} /\ a \in PanelPending
                 => IsFiniteSet(PanelPending') /\ Cardinality(PanelPending') = Cardinality(PanelPending)
           /\ put'[a].pc \notin {"find", "deduct", "update"} /\ a \in PanelPending
                 => IsFiniteSet(PanelPending') /\ Cardinality(PanelPending') = Cardinality(PanelPending) - 1
           /\ put'[a].pc \notin {"find", "deduct", "update"} /\ a \notin PanelPending
                 => IsFiniteSet(PanelPending') /\ Cardinality(PanelPending') = Cardinality(PanelPending)
           /\ Cardinality(PanelPending) \in Nat
<1>1. IsFiniteSet(PanelPending) /\ Cardinality(PanelPending) \in Nat
  BY FS_CardinalityType DEF PanelServiceInv
<1>2. put'[a].pc \in {"find", "deduct", "update"} /\ a \in PanelPending => PanelPending' = PanelPending
  BY DEF PanelPending
<1>3. put'[a].pc \notin {"find", "deduct", "update"} => PanelPending' = PanelPending \ {a}
  BY DEF PanelPending
<1>4. a \in PanelPending =>
        IsFiniteSet(PanelPending \ {a}) /\ Cardinality(PanelPending \ {a}) = Cardinality(PanelPending) - 1
  BY <1>1, FS_RemoveElement
<1>5. QED
  BY <1>1, <1>2, <1>3, <1>4

LEMMA PanelFindKeeps ==
    ASSUME SellPanel!SellPanelAssumption, PanelSellInv, NEW a \in Admins,
           SellPanel!Find(a) PROVE PanelServiceInv' /\ PanelOrderInv'
<1> USE DEF PanelSellInv
<1> DEFINE pc == IF put[a].to # "COMPLETED" THEN "update" ELSE IF row[put[a].req] = "APPROVED" THEN "deduct"
                   ELSE "refused"
<1>1. /\ put[a].pc = "find" /\ SellPanel!Goes(a, pc) /\ UNCHANGED <<row, balance, writes, puts, late, paid>>
      /\ pc \in {"deduct", "update", "done", "refused"} /\ (pc = "deduct" => put[a].to = "COMPLETED")
      /\ (pc = "update" => put[a].to # "COMPLETED")
  BY DEF SellPanel!Find, SellPanel!At
<1> HIDE DEF pc
<1>2. /\ put' \in [Admins -> PanelPutType]
      /\ \A b \in Admins : put'[b] = IF b = a THEN [put[a] EXCEPT !.pc = pc] ELSE put[b]
      /\ put'[a].pc = pc /\ put'[a].req = put[a].req /\ put'[a].to = put[a].to
      /\ \A b \in Admins : /\ put'[b].pc = "idle" <=> put'[b].req = Nil
                           /\ put'[b].pc # "idle" => put'[b].to \in SellPanel!Statuses
                           /\ put'[b].pc = "deduct" => put'[b].to = "COMPLETED"
  BY <1>1, PanelGoings
<1>3. IsFiniteSet(PanelPending') /\ Cardinality(PanelPending') + writes <= puts
  <2>1. a \in PanelPending /\ \A b \in Admins \ {a} : put'[b] = put[b]
    BY <1>1, <1>2 DEF PanelPending
  <2>2. /\ IsFiniteSet(PanelPending') /\ Cardinality(PanelPending) \in Nat
        /\ Cardinality(PanelPending') \in {Cardinality(PanelPending), Cardinality(PanelPending) - 1}
    BY <2>1, PanelPendingGoes
  <2>3. QED
    BY <2>2 DEF PanelServiceInv
<1>4. PanelServiceInv'
  BY <1>1, <1>2, <1>3 DEF PanelServiceInv, PanelPutType
<1>5. \A b \in Admins : put'[b].req = put[b].req /\ put'[b].to = put[b].to
  BY <1>2
<1>6. \A b \in Admins : put'[b].pc \in {"find", "deduct", "update"} => put[b].pc \in {"find", "deduct", "update"}
  BY <1>1, <1>2
<1>7. \A q : \A b \in Admins : PanelPaying(b, q)' <=> PanelPaying(b, q)
  BY <1>1, <1>2 DEF PanelPaying
<1>8. PanelOrderInv'
  BY <1>1, <1>5, <1>6, <1>7 DEF PanelOrderInv
<1>9. QED
  BY <1>4, <1>8

LEMMA PanelDeductKeeps ==
    ASSUME SellPanel!SellPanelAssumption, PanelSellInv, NEW a \in Admins,
           SellPanel!Deduct(a) PROVE PanelServiceInv' /\ PanelOrderInv'
<1> USE DEF PanelSellInv
<1> DEFINE pc == IF balance = 0 THEN "refused" ELSE "update"
           r == put[a].req
<1>1. /\ put[a].pc = "deduct" /\ SellPanel!Goes(a, pc) /\ UNCHANGED <<row, writes, puts, late>>
      /\ pc \in {"deduct", "update", "done", "refused"} /\ pc # "deduct" /\ put[a].to = "COMPLETED"
      /\ balance = 0 => UNCHANGED <<balance, paid>>
      /\ balance # 0 => balance' = balance - 1 /\ paid' = [paid EXCEPT ![r] = @ + 1]
  BY DEF SellPanel!Deduct, SellPanel!At, PanelServiceInv
<1>2. /\ put' \in [Admins -> PanelPutType]
      /\ \A b \in Admins : put'[b] = IF b = a THEN [put[a] EXCEPT !.pc = pc] ELSE put[b]
      /\ put'[a].pc = pc /\ put'[a].req = r /\ put'[a].to = put[a].to /\ r \in Requests
      /\ \A b \in Admins : /\ put'[b].pc = "idle" <=> put'[b].req = Nil
                           /\ put'[b].pc # "idle" => put'[b].to \in SellPanel!Statuses
                           /\ put'[b].pc = "deduct" => put'[b].to = "COMPLETED"
  BY <1>1, PanelGoings
<1>p. pc = IF balance = 0 THEN "refused" ELSE "update"
  OBVIOUS
<1> HIDE DEF pc, r
<1>3. IsFiniteSet(PanelPending') /\ Cardinality(PanelPending') + writes <= puts
  <2>1. a \in PanelPending /\ \A b \in Admins \ {a} : put'[b] = put[b]
    BY <1>1, <1>2 DEF PanelPending
  <2>2. /\ IsFiniteSet(PanelPending') /\ Cardinality(PanelPending) \in Nat
        /\ Cardinality(PanelPending') \in {Cardinality(PanelPending), Cardinality(PanelPending) - 1}
    BY <2>1, PanelPendingGoes
  <2>3. QED
    BY <2>2 DEF PanelServiceInv
<1>4. /\ balance' \in 0..Grams /\ paid' \in [Requests -> Nat]
      /\ \A q \in Requests : paid'[q] = IF q = r /\ balance # 0 THEN paid[q] + 1 ELSE paid[q]
  BY <1>1, <1>2 DEF PanelServiceInv, SellPanel!SellPanelAssumption
<1>5. \A q \in Requests : paid'[q] + balance' <= Grams
  BY <1>1, <1>4 DEF PanelServiceInv, SellPanel!SellPanelAssumption
<1>6. PanelServiceInv'
  BY <1>1, <1>2, <1>3, <1>4, <1>5 DEF PanelServiceInv, PanelPutType
<1>7. \A b \in Admins : put'[b].req = put[b].req /\ put'[b].to = put[b].to
  BY <1>2 DEF r
<1>8. \A b \in Admins : put'[b].pc \in {"find", "deduct", "update"} => put[b].pc \in {"find", "deduct", "update"}
  BY <1>1, <1>2
<1>9. \A q : \A b \in Admins : PanelPaying(b, q)' <=> PanelPaying(b, q) \/ (b = a /\ q = r /\ balance # 0)
  BY <1>1, <1>2, <1>p DEF PanelPaying, r
<1>10. PanelOrderInv'
  <2>1. SUFFICES ASSUME NEW q \in Requests \ late
                 PROVE  paid'[q] = IF row[q] = "COMPLETED" \/ \E b \in Admins : PanelPaying(b, q)' THEN 1 ELSE 0
    BY <1>1, <1>7, <1>8 DEF PanelOrderInv
  <2>2. paid[q] = IF row[q] = "COMPLETED" \/ \E b \in Admins : PanelPaying(b, q) THEN 1 ELSE 0
    BY DEF PanelOrderInv
  <2>3. CASE q = r
    <3>1. "COMPLETED" \in SellPanel!Offers(row[q])
      BY <1>1, <2>3 DEF PanelOrderInv, r
    <3>2. row[q] = "APPROVED"
      BY <3>1 DEF SellPanel!Offers
    <3>3. \A b \in Admins : ~PanelPaying(b, q)
      BY <1>1, <2>3 DEF PanelOrderInv, PanelPaying, r
    <3>4. QED
      BY <1>4, <1>9, <2>2, <2>3, <3>2, <3>3
  <2>4. CASE q # r
    BY <1>4, <1>9, <2>2, <2>4
  <2>5. QED
    BY <2>3, <2>4
<1>11. QED
  BY <1>6, <1>10

(* The update ends what was pending; only here a row changes.              *)
LEMMA PanelUpdateIs ==
    ASSUME SellPanel!SellPanelAssumption, PanelSellInv, NEW a \in Admins, SellPanel!Update(a)
    PROVE  /\ put[a].pc = "update" /\ put[a].req \in Requests /\ put[a].to \in SellPanel!Statuses
           /\ \A q \in Requests : row'[q] = IF q = put[a].req THEN put[a].to ELSE row[q]
           /\ put[a].req \notin late => /\ put[a].to \in SellPanel!Offers(row[put[a].req])
                                        /\ paid[put[a].req] = IF put[a].to = "COMPLETED" THEN 1 ELSE 0
<1> USE DEF PanelSellInv
<1> DEFINE r == put[a].req
<1>1. put[a].pc = "update" /\ r \in Requests /\ put[a].to \in SellPanel!Statuses /\ row' = [row EXCEPT ![r] = put[a].to]
  BY DEF SellPanel!Update, SellPanel!At, PanelServiceInv
<1>2. ASSUME r \notin late
      PROVE  put[a].to \in SellPanel!Offers(row[r]) /\ paid[r] = IF put[a].to = "COMPLETED" THEN 1 ELSE 0
  <2>1. put[a].to \in SellPanel!Offers(row[r])
    BY <1>1, <1>2 DEF PanelOrderInv
  <2>2. row[r] # "COMPLETED"
    BY <2>1, PanelOffersAre
  <2>3. (\E b \in Admins : PanelPaying(b, r)) <=> put[a].to = "COMPLETED"
    BY <1>1, <1>2 DEF PanelOrderInv, PanelPaying
  <2>4. QED
    BY <1>1, <1>2, <2>1, <2>2, <2>3 DEF PanelOrderInv
<1>3. QED
  BY <1>1, <1>2 DEF PanelServiceInv

LEMMA PanelUpdateKeeps ==
    ASSUME SellPanel!SellPanelAssumption, PanelSellInv, NEW a \in Admins, SellPanel!Update(a) PROVE PanelSellInv'
<1> USE DEF PanelSellInv
<1> DEFINE r == put[a].req
<1>1. /\ put[a].pc = "update" /\ SellPanel!Goes(a, "done") /\
           UNCHANGED <<balance, puts, late, paid, own, drawer, data, query>>
      /\ writes' = writes + 1 /\ row' = [row EXCEPT ![r] = put[a].to]
  BY DEF SellPanel!Update, SellPanel!At, SellPanel!panel
<1>2. /\ put' \in [Admins -> PanelPutType]
      /\ \A b \in Admins : put'[b] = IF b = a THEN [put[a] EXCEPT !.pc = "done"] ELSE put[b]
      /\ put'[a].pc = "done" /\ put'[a].req = r /\ put'[a].to = put[a].to
      /\ \A b \in Admins : /\ put'[b].pc = "idle" <=> put'[b].req = Nil
                           /\ put'[b].pc # "idle" => put'[b].to \in SellPanel!Statuses
                           /\ put'[b].pc = "deduct" => put'[b].to = "COMPLETED"
  BY <1>1, PanelGoings
<1>3. /\ r \in Requests /\ put[a].to \in SellPanel!Statuses
      /\ \A q \in Requests : row'[q] = IF q = r THEN put[a].to ELSE row[q]
      /\ r \notin late => put[a].to \in SellPanel!Offers(row[r]) /\ paid[r] = IF put[a].to = "COMPLETED" THEN 1 ELSE 0
  BY PanelUpdateIs
<1> HIDE DEF r
<1>4. IsFiniteSet(PanelPending') /\ Cardinality(PanelPending') = Cardinality(PanelPending) - 1 /\
        Cardinality(PanelPending) \in Nat
  BY <1>1, <1>2, PanelPendingGoes DEF PanelPending
<1>5. row' \in [Requests -> SellPanel!Statuses] /\ writes' \in Nat /\ Cardinality(PanelPending') + writes' <= puts'
  BY <1>1, <1>3, <1>4 DEF PanelServiceInv
<1>6. PanelServiceInv'
  BY <1>1, <1>2, <1>4, <1>5 DEF PanelServiceInv, PanelPutType
<1>7. PanelOrderInv'
  <2>1. SUFFICES ASSUME NEW q \in Requests \ late
                 PROVE  /\ \A b, c \in Admins : put'[b].req = q /\ put'[c].req = q => b = c
                        /\ \A b \in Admins : put'[b].req = q /\ put'[b].pc \in {"find", "deduct", "update"}
                                                => put'[b].to \in SellPanel!Offers(row'[q])
                        /\ paid[q] = IF row'[q] = "COMPLETED" \/ \E b \in Admins : PanelPaying(b, q)' THEN 1 ELSE 0
    BY <1>1 DEF PanelOrderInv
  <2>2. \A b \in Admins : put'[b].req = put[b].req /\ put'[b].to = put[b].to
    BY <1>2 DEF r
  <2>3. \A b, c \in Admins : put'[b].req = q /\ put'[c].req = q => b = c
    BY <2>2 DEF PanelOrderInv
  <2>4. CASE q = r
    <3>1. \A b \in Admins : put'[b].req = q => b = a
      BY <1>2, <2>3, <2>4
    <3>2. \A b \in Admins : ~PanelPaying(b, q)'
      BY <1>2, <3>1 DEF PanelPaying
    <3>3. QED
      BY <1>2, <1>3, <2>3, <2>4, <3>1, <3>2
  <2>5. CASE q # r
    <3>1. row'[q] = row[q] /\ \A b \in Admins : PanelPaying(b, q)' <=> PanelPaying(b, q)
      BY <1>2, <1>3, <2>5 DEF PanelPaying, r
    <3>2. \A b \in Admins : put'[b].req = q => put'[b] = put[b]
      BY <1>2, <2>5
    <3>3. QED
      BY <2>2, <2>3, <3>1, <3>2 DEF PanelOrderInv
  <2>6. QED
    BY <2>4, <2>5
<1>8. PanelPageInv'
  <2>1. \A n : n \in 0..writes => n \in 0..writes'
    BY <1>1 DEF PanelServiceInv
  <2>2. PanelCallType \subseteq PanelCallType' /\ PanelDataType \subseteq PanelDataType'
    BY <2>1 DEF PanelCallType, PanelDataType
  <2>3. /\ own' \in [Admins -> [SellPanel!Keys -> 0..writes']] /\
             query' \in [Admins -> [SellPanel!Keys -> PanelCallType']]
        /\ data' \in [Admins -> [SellPanel!Keys -> PanelDataType' \cup {Nil}]]
    BY <1>1, <2>1, <2>2 DEF PanelPageInv
  <2>4. QED
    BY <1>1, <2>3 DEF PanelPageInv
<1>9. QED
  BY <1>6, <1>7, <1>8

LEMMA PanelPutEndKeeps ==
    ASSUME SellPanel!SellPanelAssumption, PanelSellInv, NEW a \in Admins, put[a].pc \in {"done", "refused"},
           put' = [put EXCEPT ![a] = SellPanel!IdlePut], UNCHANGED <<row, balance, writes, puts, late, paid>>
    PROVE  PanelServiceInv' /\ PanelOrderInv'
<1> USE DEF PanelSellInv
<1>1. SellPanel!IdlePut \in PanelPutType /\ SellPanel!IdlePut.pc = "idle" /\ SellPanel!IdlePut.req = Nil
  BY DEF PanelPutType, SellPanel!IdlePut
<1>2. /\ put' \in [Admins -> PanelPutType]
      /\ \A b \in Admins : put'[b] = IF b = a THEN SellPanel!IdlePut ELSE put[b]
  BY <1>1 DEF PanelServiceInv, PanelPutType
<1>3. IsFiniteSet(PanelPending') /\ Cardinality(PanelPending') + writes <= puts
  BY <1>1, <1>2, PanelPendingGoes DEF PanelServiceInv, PanelPending
<1>4. \A b \in Admins : /\ put'[b].pc = "idle" <=> put'[b].req = Nil
                        /\ put'[b].pc # "idle" => put'[b].to \in SellPanel!Statuses
                        /\ put'[b].pc = "deduct" => put'[b].to = "COMPLETED"
  BY <1>1, <1>2 DEF PanelServiceInv
<1>5. PanelServiceInv'
  BY <1>2, <1>3, <1>4 DEF PanelServiceInv, PanelPutType
<1>6. Nil \notin Requests
  BY DEF SellPanel!SellPanelAssumption
<1>7. \A q \in Requests : \A b \in Admins : (PanelPaying(b, q)' <=> PanelPaying(b, q)) /\
        (put'[b].req = q => put'[b] = put[b])
  BY <1>1, <1>2, <1>6 DEF PanelPaying
<1>8. PanelOrderInv'
  BY <1>7 DEF PanelOrderInv
<1>9. QED
  BY <1>5, <1>8

LEMMA PanelPutDonePage ==
    ASSUME SellPanel!SellPanelAssumption, PanelSellInv, NEW a \in Admins, SellPanel!PutDone(a) PROVE PanelPageInv'
<1> USE DEF PanelSellInv
<1>1. /\ query' = [query EXCEPT ![a] = [k \in SellPanel!Keys |-> IF k \in SellPanel!Invalidated(a) THEN SellPanel!Asked
                                        ELSE @[k]]]
      /\ own' = [own EXCEPT ![a] = [k \in SellPanel!Keys |-> IF k \in Tables \/ k = drawer[a] THEN writes ELSE @[k]]]
      /\ UNCHANGED <<writes, drawer, data>>
  BY DEF SellPanel!PutDone, SellPanel!Owned
<1>2. SellPanel!Asked \in PanelCallType /\ SellPanel!Asked.pc = "read" /\ writes \in 0..writes
  BY PanelIdleIsACall DEF PanelServiceInv
<1>3. \A b \in Admins, k \in SellPanel!Keys :
         /\ query'[b][k] = IF b = a /\ k \in SellPanel!Invalidated(a) THEN SellPanel!Asked ELSE query[b][k]
         /\ own'[b][k] = IF b = a /\ (k \in Tables \/ k = drawer[a]) THEN writes ELSE own[b][k]
  BY <1>1 DEF PanelPageInv
<1>4. \A k \in SellPanel!Keys : k \in Tables \/ k = drawer[a] => k \in SellPanel!Invalidated(a)
  BY DEF SellPanel!Invalidated, SellPanel!Keys, SellPanel!SellPanelAssumption
<1>5. query' \in [Admins -> [SellPanel!Keys -> PanelCallType]] /\ own' \in [Admins -> [SellPanel!Keys -> 0..writes]]
  BY <1>1, <1>2 DEF PanelPageInv
<1>6. PanelCallType' = PanelCallType /\ PanelDataType' = PanelDataType
  BY <1>1 DEF PanelCallType, PanelDataType
<1>7. \A b \in Admins, k \in SellPanel!Keys :
          /\ query'[b][k].pc = "answer" => query'[b][k].age >= own'[b][k]
          /\ query'[b][k].pc = "idle" /\ data'[b][k] # Nil /\ ~data'[b][k].failed => data'[b][k].age >= own'[b][k]
  BY <1>1, <1>2, <1>3, <1>4 DEF PanelPageInv
<1>8. QED
  BY <1>1, <1>5, <1>6, <1>7 DEF PanelPageInv

LEMMA PanelSellInvStep ==
    ASSUME SellPanel!SellPanelAssumption, PanelSellInv, [SellPanel!Next]_(SellPanel!vars)
    PROVE  PanelSellInv'
<1> USE DEF PanelSellInv
<1>1. ASSUME NEW a \in Admins, SellPanel!Does(a) PROVE PanelSellInv'
  <2>1. CASE \/ SellPanel!Close(a)
             \/ \E r \in Requests : SellPanel!Open(a, r)
             \/ \E k \in SellPanel!Keys : SellPanel!Read(a, k) \/ SellPanel!Answered(a, k) \/ SellPanel!Failed(a, k)
    BY <2>1, PanelQueriesKeep, PanelServiceRests
  <2>2. ASSUME NEW to \in SellPanel!Statuses, SellPanel!Click(a, to) PROVE PanelSellInv'
    <3>1. UNCHANGED PanelPageVars
      BY <2>2 DEF SellPanel!Click, PanelPageVars, SellPanel!panel
    <3>2. QED
      BY <2>2, <3>1, PanelClickKeeps, PanelPageRests
  <2>3. CASE SellPanel!Find(a)
    <3>1. UNCHANGED PanelPageVars
      BY <2>3 DEF SellPanel!Find, PanelPageVars, SellPanel!panel
    <3>2. QED
      BY <2>3, <3>1, PanelFindKeeps, PanelPageRests
  <2>4. CASE SellPanel!Deduct(a)
    <3>1. UNCHANGED PanelPageVars
      BY <2>4 DEF SellPanel!Deduct, PanelPageVars, SellPanel!panel
    <3>2. QED
      BY <2>4, <3>1, PanelDeductKeeps, PanelPageRests
  <2>5. CASE SellPanel!Update(a)
    BY <2>5, PanelUpdateKeeps
  <2>6. CASE SellPanel!PutDone(a)
    <3>1. put[a].pc \in {"done", "refused"} /\ put' = [put EXCEPT ![a] = SellPanel!IdlePut]
          /\ UNCHANGED <<row, balance, writes, puts, late, paid>>
      BY <2>6 DEF SellPanel!PutDone, SellPanel!At
    <3>2. QED
      BY <2>6, <3>1, PanelPutEndKeeps, PanelPutDonePage
  <2>7. CASE SellPanel!PutFailed(a)
    <3>1. put[a].pc \in {"done", "refused"} /\ put' = [put EXCEPT ![a] = SellPanel!IdlePut]
          /\ UNCHANGED <<row, balance, writes, puts, late, paid>>
      BY <2>7 DEF SellPanel!PutFailed, SellPanel!At
    <3>2. UNCHANGED PanelPageVars
      BY <2>7 DEF SellPanel!PutFailed, PanelPageVars, SellPanel!panel
    <3>3. QED
      BY <3>1, <3>2, PanelPutEndKeeps, PanelPageRests
  <2>8. QED
    BY <1>1, <2>1, <2>2, <2>3, <2>4, <2>5, <2>6, <2>7 DEF SellPanel!Does
<1>2. CASE UNCHANGED SellPanel!vars
  <2>1. UNCHANGED PanelServiceVars /\ UNCHANGED PanelPageVars
    BY <1>2 DEF SellPanel!vars, PanelServiceVars, PanelPageVars
  <2>2. QED
    BY <2>1, PanelServiceRests, PanelPageRests
<1>3. QED
  BY <1>1, <1>2 DEF SellPanel!Next

LEMMA PanelSellInvImplies ==
    ASSUME SellPanel!SellPanelAssumption, PanelSellInv
    PROVE  SellPanel!TypeOK /\ SellPanel!OwnChangeShown
<1>1. SellPanel!TypeOK
  <2>1. balance \in 0..Grams /\ Cardinality(PanelPending) \in Nat
    BY FS_CardinalityType DEF PanelSellInv, PanelServiceInv
  <2>2. paid \in [Requests -> 0..Grams] /\ writes \in 0..puts
    BY <2>1 DEF PanelSellInv, PanelServiceInv, SellPanel!SellPanelAssumption
  <2>3. \A a \in Admins : query[a] \in [SellPanel!Keys -> [pc : {"idle", "read", "answer"}, age : 0..writes,
                                               rows : [Requests -> SellPanel!Statuses] \cup {Nil}]]
    BY DEF PanelSellInv, PanelPageInv, PanelCallType
  <2>4. QED
    BY <2>2, <2>3 DEF PanelSellInv, PanelServiceInv, PanelPageInv, SellPanel!TypeOK
<1>2. SellPanel!OwnChangeShown
  BY DEF PanelSellInv, PanelPageInv, SellPanel!OwnChangeShown
<1>3. QED
  BY <1>1, <1>2

(* What a step does to the requests nobody clicked on late.                *)
PanelInOrder ==
    \A r \in Requests \ late :
          /\ row'[r] # row[r] => row'[r] \in (IF row[r] = "PENDING" THEN {"APPROVED", "CANCELLED"}
                                              ELSE IF row[r] = "APPROVED" THEN {"COMPLETED", "CANCELLED"} ELSE {})
          /\ row'[r] # row[r] => paid[r] = IF row'[r] = "COMPLETED" THEN 1 ELSE 0

LEMMA PanelStepsInOrder ==
    ASSUME SellPanel!SellPanelAssumption, PanelSellInv, [SellPanel!Next]_(SellPanel!vars)
    PROVE  PanelInOrder
<1>1. ASSUME NEW a \in Admins, SellPanel!Update(a) PROVE PanelInOrder
  <2>1. SUFFICES ASSUME NEW r \in Requests \ late, row'[r] # row[r]
                 PROVE  /\ row'[r] \in (IF row[r] = "PENDING" THEN {"APPROVED", "CANCELLED"}
                                        ELSE IF row[r] = "APPROVED" THEN {"COMPLETED", "CANCELLED"} ELSE {})
                        /\ paid[r] = IF row'[r] = "COMPLETED" THEN 1 ELSE 0
    BY DEF PanelInOrder
  <2>2. r = put[a].req /\ row'[r] = put[a].to
    BY <1>1, <2>1, PanelUpdateIs
  <2>3. row'[r] \in SellPanel!Offers(row[r]) /\ paid[r] = IF row'[r] = "COMPLETED" THEN 1 ELSE 0
    BY <1>1, <2>1, <2>2, PanelUpdateIs
  <2>4. QED
    BY <2>3, PanelOffersAre
<1>2. ASSUME row' = row PROVE PanelInOrder
  BY <1>2 DEF PanelInOrder
<1>3. ASSUME NEW a \in Admins, SellPanel!Does(a), ~SellPanel!Update(a) PROVE row' = row
  <2>1. CASE \E r \in Requests : SellPanel!Open(a, r)
    BY <2>1 DEF SellPanel!Open
  <2>2. CASE \E k \in SellPanel!Keys : SellPanel!Read(a, k) \/ SellPanel!Answered(a, k) \/ SellPanel!Failed(a, k)
    BY <2>2 DEF SellPanel!Read, SellPanel!Answered, SellPanel!Failed
  <2>3. CASE \E to \in SellPanel!Statuses : SellPanel!Click(a, to)
    BY <2>3 DEF SellPanel!Click
  <2>4. CASE SellPanel!Close(a) \/ SellPanel!Find(a) \/ SellPanel!Deduct(a) \/ SellPanel!PutDone(a) \/
               SellPanel!PutFailed(a)
    BY <2>4 DEF SellPanel!Close, SellPanel!Find, SellPanel!Deduct, SellPanel!PutDone, SellPanel!PutFailed
  <2>5. QED
    BY <1>3, <2>1, <2>2, <2>3, <2>4 DEF SellPanel!Does
<1>4. CASE UNCHANGED SellPanel!vars
  BY <1>2, <1>4 DEF SellPanel!vars
<1>5. QED
  BY <1>1, <1>2, <1>3, <1>4 DEF SellPanel!Next

LEMMA PanelSellPanelHolds ==
    SellPanel!SellPanelAssumption =>
      (SellPanel!Spec => [](SellPanel!TypeOK /\ SellPanel!OwnChangeShown) /\ SellPanel!FreshClicksFollowTheOrder)
<1>1. SUFFICES ASSUME SellPanel!SellPanelAssumption PROVE SellPanel!Spec =>
        [](SellPanel!TypeOK /\ SellPanel!OwnChangeShown) /\ SellPanel!FreshClicksFollowTheOrder
  OBVIOUS
<1>2. SellPanel!Init => PanelSellInv
  BY <1>1, PanelSellInvInit
<1>3. PanelSellInv /\ [SellPanel!Next]_(SellPanel!vars) => PanelSellInv'
  BY <1>1, PanelSellInvStep
<1>4. PanelSellInv => SellPanel!TypeOK /\ SellPanel!OwnChangeShown
  BY <1>1, PanelSellInvImplies
<1>5. PanelSellInv /\ [SellPanel!Next]_(SellPanel!vars) => [PanelInOrder]_(SellPanel!vars)
  BY <1>1, PanelStepsInOrder
<1>6. SellPanel!FreshClicksFollowTheOrder <=> [][PanelInOrder]_(SellPanel!vars)
  BY PTL DEF SellPanel!FreshClicksFollowTheOrder, PanelInOrder
<1>7. QED
  BY <1>2, <1>3, <1>4, <1>5, <1>6, PTL DEF SellPanel!Spec
-----------------------------------------------------------------------------
(***************************************************************************)
(* The list of the sell requests and its cards: SellList.                  *)
(***************************************************************************)
(* The cardinality the instance names is that of the library.              *)
LEMMA MovesCounts ==
    ASSUME NEW S
    PROVE  /\ SellList!Cardinality(S) = Cardinality(S)
           /\ SellList!IsFiniteSet(S) <=> IsFiniteSet(S)
BY DEF SellList!Cardinality, Cardinality, SellList!IsFiniteSet, IsFiniteSet

(* How many pages a list has: at least one, and no more than its rows.     *)
LEMMA MovesPages ==
    ASSUME NEW b \in Nat \ {0}, NEW t \in Nat
    PROVE  LET p == IF t <= b THEN 1 ELSE (t + b - 1) \div b IN p \in Nat /\ 1 <= p /\ (p = 1 \/ p <= t)
<1>1. CASE t <= b
  BY <1>1
<1>2. CASE ~(t <= b)
  <2>1. t \in Nat \ {0}
    BY <1>2
  <2>2. (t + b - 1) \div b <= t /\ (t + b - 1) \div b >= 1 /\ (t + b - 1) \div b \in Int
    BY <2>1
  <2>3. QED
    BY <1>2, <2>2
<1>3. QED
  BY <1>1, <1>2

(* A list has as many rows as match, and no more than there are.           *)
LEMMA MovesListedIs ==
    ASSUME requests \in Seq(SellList!Row), NEW s, NEW q
    PROVE  SellList!Listed(s, q) \in Seq(SellList!Row) /\ Len(SellList!Listed(s, q)) \in Nat /\
           Len(SellList!Listed(s, q)) <= Len(requests)
<1> DEFINE ids == SellList!Matching(s, q)
<1>1. IsFiniteSet(1..Len(requests)) /\ Cardinality(1..Len(requests)) = Len(requests) /\
        ids \subseteq 1..Len(requests) /\ Len(requests) \in Nat
  BY FS_Interval DEF SellList!Matching
<1>2. IsFiniteSet(ids) /\ Cardinality(ids) <= Len(requests)
  BY <1>1, FS_Subset
<1>3. ids \in SUBSET Int
  BY <1>1
<1> DEFINE nth(n) == CHOOSE i \in ids : Cardinality({j \in ids : j <= i}) = n
<1>4. Cardinality(ids) \in Nat /\ \A n \in 1..Cardinality(ids) : nth(n) \in ids
  <2> HIDE DEF ids
  <2>1. Cardinality(ids) \in Nat /\ \A n \in 1..Cardinality(ids) : \E i \in ids : Cardinality({j \in ids : j <= i}) = n
    BY <1>2, <1>3, RankedUp
  <2>2. QED
    BY <2>1
<1>5. \A n \in 1..Cardinality(ids) : SellList!InOrder(ids)[n] = nth(n)
  BY DEF SellList!InOrder, SellList!Cardinality, Cardinality, SellList!IsFiniteSet, IsFiniteSet
<1> HIDE DEF nth
<1>6. \A n \in 1..Cardinality(ids) : requests[SellList!InOrder(ids)[n]] \in SellList!Row
  BY <1>1, <1>4, <1>5
<1>7. SellList!Listed(s, q) = [n \in 1..Cardinality(ids) |-> requests[SellList!InOrder(ids)[n]]]
  BY MovesCounts DEF SellList!Listed
<1> HIDE DEF ids
<1>8. QED
  BY <1>2, <1>4, <1>6, <1>7
-----------------------------------------------------------------------------
(* What was got or counted, if nothing changed since, is what the rows     *)
(* give; and a page turned to was there.                                   *)
MovesGoodList(k, l) ==
    /\ l.items \in Seq(SellList!Row) /\ Len(l.items) <= Len(requests)
    /\ l.age \in Nat /\ l.age <= moved
    /\ l.age = moved => l.items = SellList!Listed(k[1], k[2])

MovesGoodCards(q, a) ==
    /\ a.age \in Nat /\ a.age <= moved
    /\ a.age = moved => \A c \in SellFilters : a.cards[c] = Len(SellList!Listed(c, q))

MovesListInv ==
    /\ requests \in Seq(SellList!Row) /\ moved \in 0..MaxMoves
    /\ status \in SellFilters /\ sought \in BOOLEAN
    /\ listPage \in Nat \ {0} /\ (listPage = 1 \/ listPage <= Len(requests))
    /\ DOMAIN list = SellList!Keys
    /\ \A k \in SellList!Keys : list[k] # Nil => MovesGoodList(k, list[k])

MovesCounting(left, counted, age) == age = moved =>
                                       \A c \in SellFilters \ left : counted[c] = Len(SellList!Listed(c, FALSE))

MovesCountInv ==
    /\ DOMAIN cards = BOOLEAN
    /\ counting.pc \in {"idle", "count", "list"} /\ counting.search \in BOOLEAN
    /\ counting.left \subseteq SellFilters /\ DOMAIN counting.cards = SellFilters
    /\ counting.age \in Nat /\ counting.age <= moved
    /\ counting.pc = "count" => counting.search = FALSE
    /\ counting.pc = "count" => MovesCounting(counting.left, counting.cards, counting.age)
    /\ \A q \in BOOLEAN : cards[q] # Nil => MovesGoodCards(q, cards[q])

MovesSellListInv == MovesListInv /\ MovesCountInv

LEMMA MovesSellListInvInit == ASSUME SellList!SellListAssumption, SellList!Init PROVE MovesSellListInv
<1>0. /\ requests \in Seq(SellList!Row) /\ moved \in 0..MaxMoves /\ status \in SellFilters /\ listPage = 1 /\
           DOMAIN list = SellList!Keys
      /\ \A k \in SellList!Keys : list[k] = Nil
  BY DEF SellList!SellListAssumption, SellList!Init
<1>s. sought \in BOOLEAN
  BY DEF SellList!Init
<1>1. MovesListInv
  BY <1>0, <1>s DEF MovesListInv
<1>2. /\ counting.pc = "idle" /\ counting.search = FALSE /\ counting.left = {} /\
           counting.cards = [c \in SellFilters |-> 0]
      /\ counting.age = 0 /\ moved = 0
  BY DEF SellList!Init, SellList!NoCount
<1>3. DOMAIN counting.cards = SellFilters /\ DOMAIN cards = BOOLEAN /\ \A q \in BOOLEAN : cards[q] = Nil
  BY <1>2 DEF SellList!Init
<1>b. counting.search \in BOOLEAN
  BY <1>2
<1>p. counting.pc # "count" /\ counting.age \in Nat /\ counting.age <= moved
  BY <1>2
<1>4. MovesCountInv
  BY <1>2, <1>b, <1>p, <1>3 DEF MovesCountInv
<1>5. QED
  BY <1>1, <1>4 DEF MovesSellListInv

LEMMA MovesSameRows ==
    ASSUME UNCHANGED <<requests, moved>>
    PROVE  /\ \A k, l : MovesGoodList(k, l)' <=> MovesGoodList(k, l)
           /\ \A q, a : MovesGoodCards(q, a)' <=> MovesGoodCards(q, a)
           /\ \A l, c, a : MovesCounting(l, c, a)' <=> MovesCounting(l, c, a)
BY DEF MovesGoodList, MovesGoodCards, MovesCounting, SellList!Listed, SellList!Matching, SellList!InOrder,
     SellList!Cardinality, Cardinality, SellList!IsFiniteSet, IsFiniteSet

LEMMA MovesChangesKeep ==
    ASSUME SellList!SellListAssumption, MovesSellListInv, SellList!RowsChange
    PROVE  MovesSellListInv'
<1> USE DEF MovesSellListInv
<1>1. moved' = moved + 1 /\ moved \in Nat /\ moved' \in 0..MaxMoves
      /\ UNCHANGED <<status, sought, listPage, list, cards, counting>>
  BY DEF SellList!RowsChange, MovesListInv, SellList!SellListAssumption
<1>2. requests' \in Seq(SellList!Row) /\ Len(requests') \in Nat /\ Len(requests) \in Nat /\
        Len(requests) <= Len(requests')
  <2>1. CASE \E h \in BOOLEAN : requests' = <<[status |-> "PENDING", hit |-> h]>> \o requests
    <3>1. PICK h \in BOOLEAN : requests' = <<[status |-> "PENDING", hit |-> h]>> \o requests
      BY <2>1
    <3>2. <<[status |-> "PENDING", hit |-> h]>> \in Seq(SellList!Row) /\ Len(<<[status |-> "PENDING", hit |-> h]>>) = 1
      BY DEF SellList!Row, SellList!Statuses
    <3>3. QED
      BY <3>1, <3>2 DEF MovesListInv
  <2>2. CASE \E i \in DOMAIN requests, s \in SellList!Statuses : requests' = [requests EXCEPT ![i].status = s]
    <3>1. PICK i \in DOMAIN requests, s \in SellList!Statuses : requests' = [requests EXCEPT ![i].status = s]
      BY <2>2
    <3>a. requests \in Seq(SellList!Row) /\ DOMAIN requests = 1..Len(requests) /\ Len(requests) \in Nat
      BY DEF MovesListInv
    <3>c. requests[i] \in SellList!Row
      BY <3>a
    <3>2. requests[i] \in SellList!Row /\ [requests[i] EXCEPT !.status = s] \in SellList!Row
      BY <3>c DEF SellList!Row
    <3>b. requests' = [requests EXCEPT ![i] = [requests[i] EXCEPT !.status = s]]
      BY <3>1
    <3>3. QED
      BY <3>a, <3>2, <3>b
  <2>3. QED
    BY <2>1, <2>2 DEF SellList!RowsChange
<1>3. SellList!Keys' = SellList!Keys
  BY DEF SellList!Keys
<1>l. ASSUME NEW k, NEW l, MovesGoodList(k, l) PROVE MovesGoodList(k, l)'
  BY <1>1, <1>2, <1>l DEF MovesGoodList
<1>c. ASSUME NEW q, NEW a, MovesGoodCards(q, a) PROVE MovesGoodCards(q, a)'
  BY <1>1, <1>c DEF MovesGoodCards
<1>4. MovesListInv'
  BY <1>1, <1>2, <1>3, <1>l DEF MovesListInv
<1>5. MovesCountInv'
  <2>1. counting.age \in Nat /\ counting.age <= moved /\ counting.age # moved'
    BY <1>1 DEF MovesCountInv
  <2>2. MovesCounting(counting.left, counting.cards, counting.age)'
    BY <1>1, <2>1 DEF MovesCounting
  <2>3. QED
    BY <1>1, <1>c, <2>1, <2>2 DEF MovesCountInv
<1>6. QED
  BY <1>4, <1>5

LEMMA MovesTotalPagesIs ==
    ASSUME SellList!SellListAssumption, MovesListInv
    PROVE  /\ SellList!Here \in SellList!Keys /\ SellList!TotalPages \in Nat /\ 1 <= SellList!TotalPages
           /\ SellList!TotalPages = 1 \/ SellList!TotalPages <= Len(requests)
<1>1. SellList!Here \in SellList!Keys
  BY DEF MovesListInv, SellList!Here, SellList!Keys
<1>2. SellList!Total \in Nat /\ SellList!Total <= Len(requests)
  BY <1>1 DEF SellList!Total, MovesListInv, MovesGoodList
<1>3. SellPageSize \in Nat \ {0}
  BY DEF SellList!SellListAssumption
<1>4. SellList!TotalPages \in Nat /\ 1 <= SellList!TotalPages /\
        (SellList!TotalPages = 1 \/ SellList!TotalPages <= SellList!Total)
  BY <1>2, <1>3, MovesPages DEF SellList!TotalPages
<1>5. QED
  BY <1>1, <1>2, <1>4 DEF MovesListInv

LEMMA MovesListKeeps ==
    ASSUME SellList!SellListAssumption, MovesSellListInv,
           \/ \E s \in SellFilters, q \in BOOLEAN : SellList!UpdateFilter(s, q)
           \/ \E p \in 0..(SellList!TotalPages + 1) : SellList!Turn(p)
           \/ \E k \in SellList!Keys : SellList!Answered(k)
           \/ UNCHANGED SellList!vars
    PROVE  MovesSellListInv'
<1> USE DEF MovesSellListInv
<1>1. ASSUME UNCHANGED <<requests, moved, cards, counting>> PROVE MovesCountInv'
  BY <1>1, MovesSameRows DEF MovesCountInv
<1>2. ASSUME NEW s \in SellFilters, NEW q \in BOOLEAN, SellList!UpdateFilter(s, q) PROVE MovesSellListInv'
  <2>1. /\ status' = s /\ sought' = q /\ listPage' = 1 /\ UNCHANGED <<requests, moved, list, cards, counting>>
    BY <1>2 DEF SellList!UpdateFilter
  <2>2. MovesListInv'
    BY <2>1, MovesSameRows DEF MovesListInv, SellList!Keys
  <2>3. QED
    BY <1>1, <2>1, <2>2
<1>3. ASSUME NEW p \in 0..(SellList!TotalPages + 1), SellList!Turn(p) PROVE MovesSellListInv'
  <2>1. /\ listPage' = p /\ UNCHANGED <<requests, moved, status, sought, list, cards, counting>>
        /\ (p = listPage - 1 /\ listPage > 1) \/ (p = listPage + 1 /\ listPage < SellList!TotalPages)
    BY <1>3 DEF SellList!Turn
  <2>2. p \in Nat \ {0} /\ (p = 1 \/ p <= Len(requests))
    BY <2>1, MovesTotalPagesIs DEF MovesListInv
  <2>3. MovesListInv'
    BY <2>1, <2>2, MovesSameRows DEF MovesListInv, SellList!Keys
  <2>4. QED
    BY <1>1, <2>1, <2>3
<1>4. ASSUME NEW k \in SellList!Keys, SellList!Answered(k) PROVE MovesSellListInv'
  <2> DEFINE a == [items |-> SellList!Listed(k[1], k[2]), age |-> moved]
  <2>1. /\ list' = [list EXCEPT ![k] = a] /\ UNCHANGED <<requests, moved, status, sought, listPage, cards, counting>>
    BY <1>4 DEF SellList!Answered
  <2>2. MovesGoodList(k, a)
    BY MovesListedIs DEF MovesListInv, MovesGoodList
  <2>3. DOMAIN list' = SellList!Keys /\ \A l \in SellList!Keys : list'[l] = IF l = k THEN a ELSE list[l]
    BY <2>1 DEF MovesListInv
  <2> HIDE DEF a
  <2>4. \A l \in SellList!Keys : list'[l] # Nil => MovesGoodList(l, list'[l])
    BY <2>2, <2>3 DEF MovesListInv
  <2>6. MovesListInv'
    BY <2>1, <2>3, <2>4, MovesSameRows DEF MovesListInv, SellList!Keys
  <2>5. QED
    BY <1>1, <2>1, <2>6
<1>5. CASE UNCHANGED SellList!vars
  <2>1. MovesListInv'
    BY <1>5, MovesSameRows DEF SellList!vars, MovesListInv, SellList!Keys
  <2>2. QED
    BY <1>1, <1>5, <2>1 DEF SellList!vars
<1>6. QED
  BY <1>2, <1>3, <1>4, <1>5

LEMMA MovesCountKeeps ==
    ASSUME SellList!SellListAssumption, MovesSellListInv,
           SellList!Ask \/ SellList!CountList \/ \E c \in SellFilters : SellList!CountOne(c)
    PROVE  MovesSellListInv'
<1> USE DEF MovesSellListInv
<1>1. UNCHANGED <<requests, moved, status, sought, listPage, list>>
  BY DEF SellList!Ask, SellList!CountList, SellList!CountOne
<1>2. MovesListInv'
  BY <1>1, MovesSameRows DEF MovesListInv, SellList!Keys
<1>t. moved \in Nat
  BY DEF MovesListInv
<1>i. /\ SellList!NoCount.pc = "idle" /\ SellList!NoCount.search = FALSE /\ SellList!NoCount.left = {} /\
           DOMAIN SellList!NoCount.cards = SellFilters
      /\ SellList!NoCount.age = 0
  BY DEF SellList!NoCount
<1>s. ASSUME NEW q \in BOOLEAN, NEW counted, NEW age \in Nat, age <= moved, SellList!Counted(q, counted, age),
             age = moved => \A c \in SellFilters : counted[c] = Len(SellList!Listed(c, q))
      PROVE  MovesCountInv'
  <2> DEFINE a == [cards |-> counted, age |-> age]
  <2>1. DOMAIN cards = BOOLEAN /\ cards' = [cards EXCEPT ![q] = a] /\ counting' = SellList!NoCount
    BY <1>s DEF SellList!Counted, MovesCountInv
  <2>2. \A p \in BOOLEAN : cards'[p] = IF p = q THEN a ELSE cards[p]
    BY <2>1
  <2>3. a.cards = counted /\ a.age = age
    OBVIOUS
  <2> HIDE DEF a
  <2>g. MovesGoodCards(q, a)
    BY <1>s, <2>3 DEF MovesGoodCards
  <2>4. \A p \in BOOLEAN : cards'[p] # Nil => MovesGoodCards(p, cards'[p])
    BY <2>g, <2>2 DEF MovesCountInv
  <2>5. DOMAIN cards' = BOOLEAN /\ counting'.pc = "idle"
    BY <2>1, <1>i
  <2>6. counting'.search = FALSE /\ counting'.left = {} /\ DOMAIN counting'.cards = SellFilters /\ counting'.age = 0
    BY <2>1, <1>i
  <2>7. (\A p \in BOOLEAN : cards[p] # Nil => MovesGoodCards(p, cards[p]))'
    BY <1>1, <2>4, MovesSameRows
  <2>8. counting'.age \in Nat /\ counting'.age <= moved' /\ counting'.pc # "count"
    BY <1>1, <1>t, <2>5, <2>6
  <2>b. counting'.search \in BOOLEAN
    BY <2>6
  <2>9. QED
    BY <2>5, <2>6, <2>b, <2>7, <2>8 DEF MovesCountInv
<1>3. CASE SellList!Ask
  <2>1. PICK pc \in IF sought THEN {"list"} ELSE {"count", "list"} :
           counting' = [SellList!NoCount EXCEPT !.pc = pc, !.search = sought, !.left = SellFilters, !.age = moved]
    BY <1>3 DEF SellList!Ask
  <2>2. counting' = [pc |-> pc, search |-> sought, left |-> SellFilters, cards |-> [c \in SellFilters |-> 0],
                     age |-> moved]
    BY <2>1 DEF SellList!NoCount
  <2>3. UNCHANGED cards /\ pc \in {"count", "list"} /\ (pc = "count" => sought = FALSE)
    BY <1>3 DEF SellList!Ask, MovesListInv
  <2>a. MovesCounting(SellFilters, [c \in SellFilters |-> 0], moved)
    BY DEF MovesCounting
  <2>b. /\ counting'.pc = pc /\ counting'.search = sought /\ counting'.left = SellFilters /\
             counting'.cards = [c \in SellFilters |-> 0]
        /\ counting'.age = moved /\ DOMAIN counting'.cards = SellFilters
    BY <2>2
  <2>4. MovesCountInv'
    BY <1>1, <1>t, <2>a, <2>b, <2>3, MovesSameRows DEF MovesCountInv, MovesListInv
  <2>5. QED
    BY <1>2, <2>4
<1>4. CASE SellList!CountList
  <2>1. SellList!Counted(counting.search, [c \in SellFilters |-> Len(SellList!Listed(c, counting.search))], moved)
    BY <1>4 DEF SellList!CountList
  <2> DEFINE q == counting.search
             counted == [c \in SellFilters |-> Len(SellList!Listed(c, q))]
  <2>2. q \in BOOLEAN /\ \A c \in SellFilters : counted[c] = Len(SellList!Listed(c, q))
    BY DEF MovesCountInv
  <2>3. SellList!Counted(q, counted, moved)
    BY <2>1
  <2> HIDE DEF q, counted
  <2>4. MovesCountInv'
    BY <1>s, <1>t, <2>2, <2>3
  <2>5. QED
    BY <1>2, <2>4
<1>5. ASSUME NEW c \in SellFilters, SellList!CountOne(c) PROVE MovesSellListInv'
  <2> DEFINE counted == [counting.cards EXCEPT ![c] = Len(SellList!Listed(c, FALSE))]
  <2>1. counting.pc = "count" /\ c \in counting.left
    BY <1>5 DEF SellList!CountOne
  <2>2. DOMAIN counted = SellFilters /\
          \A d \in SellFilters : counted[d] = IF d = c THEN Len(SellList!Listed(c, FALSE)) ELSE counting.cards[d]
    BY DEF MovesCountInv
  <2>3. counting.age = moved =>
          \A d \in SellFilters \ (counting.left \ {c}) : counted[d] = Len(SellList!Listed(d, FALSE))
    BY <2>1, <2>2 DEF MovesCountInv, MovesCounting
  <2> HIDE DEF counted
  <2>4. CASE counting.left = {c}
    <3>1. SellList!Counted(FALSE, counted, counting.age)
      BY <1>5, <2>4 DEF SellList!CountOne, counted
    <3>2. counting.age \in Nat /\ counting.age <= moved
      BY DEF MovesCountInv
    <3>3. counting.age = moved => \A d \in SellFilters : counted[d] = Len(SellList!Listed(d, FALSE))
      BY <2>3, <2>4
    <3>4. QED
      BY <1>2, <1>s, <3>1, <3>2, <3>3
  <2>5. CASE counting.left # {c}
    <3>1. counting' = [counting EXCEPT !.left = @ \ {c}, !.cards = counted] /\ UNCHANGED cards
      BY <1>5, <2>5 DEF SellList!CountOne, counted
    <3> DEFINE left == counting.left \ {c}
    <3>a. MovesCounting(left, counted, counting.age)
      BY <2>3 DEF MovesCounting
    <3>b. /\ counting'.pc = counting.pc /\ counting'.search = counting.search /\ counting'.left = left /\
               counting'.cards = counted
          /\ counting'.age = counting.age
      BY <3>1
    <3>c. left \subseteq SellFilters
      BY DEF MovesCountInv
    <3> HIDE DEF left
    <3>2. MovesCountInv'
      BY <1>1, <2>2, <3>1, <3>a, <3>b, <3>c, MovesSameRows DEF MovesCountInv
    <3>3. QED
      BY <1>2, <3>2
  <2>6. QED
    BY <2>4, <2>5
<1>6. QED
  BY <1>3, <1>4, <1>5

LEMMA MovesSellListInvStep ==
    ASSUME SellList!SellListAssumption, MovesSellListInv, [SellList!Next]_(SellList!vars)
    PROVE  MovesSellListInv'
BY MovesChangesKeep, MovesListKeeps, MovesCountKeeps DEF SellList!Next

LEMMA MovesSellListInvImplies ==
    ASSUME SellList!SellListAssumption, MovesSellListInv
    PROVE  SellList!TypeOK /\ SellList!CardCountsItsList
<1>1. SellList!TypeOK
  BY DEF MovesSellListInv, MovesListInv, MovesCountInv, SellList!TypeOK, MovesGoodList
<1>2. SellList!CardCountsItsList
  <2> SUFFICES ASSUME NEW c \in SellFilters, NEW q \in BOOLEAN, cards[q] # Nil, list[<<c, q>>] # Nil,
                      cards[q].age = moved, list[<<c, q>>].age = moved
               PROVE  cards[q].cards[c] = Len(list[<<c, q>>].items)
    BY DEF SellList!CardCountsItsList
  <2>1. <<c, q>> \in SellList!Keys /\ <<c, q>>[1] = c /\ <<c, q>>[2] = q
    BY DEF SellList!Keys
  <2> DEFINE k == <<c, q>>
  <2>2. MovesGoodList(k, list[k]) /\ MovesGoodCards(q, cards[q]) /\ k[1] = c /\ k[2] = q
    BY <2>1 DEF MovesSellListInv, MovesListInv, MovesCountInv
  <2> HIDE DEF k
  <2>3. list[k].age = moved
    BY DEF k
  <2>4. cards[q].cards[c] = Len(list[k].items)
    BY <2>2, <2>3 DEF MovesGoodList, MovesGoodCards
  <2>5. QED
    BY <2>4 DEF k
<1>3. QED
  BY <1>1, <1>2

(* A step that leaves the answers as they are.                             *)
MovesNotPastTheEnd == list' = list /\ list[SellList!Here] # Nil /\ listPage <= SellList!TotalPages =>
                        listPage' <= SellList!TotalPages'

LEMMA MovesStepsStrandNobody ==
    ASSUME SellList!SellListAssumption, MovesSellListInv, [SellList!Next]_(SellList!vars)
    PROVE  MovesNotPastTheEnd
<1> SUFFICES ASSUME list' = list, listPage <= SellList!TotalPages PROVE listPage' <= SellList!TotalPages'
  BY DEF MovesNotPastTheEnd
<1>1. MovesSellListInv' /\ MovesListInv' /\ MovesListInv
  BY MovesSellListInvStep DEF MovesSellListInv
<1>a. SellList!TotalPages \in Nat /\ listPage \in Nat
  BY <1>1, MovesTotalPagesIs DEF MovesListInv
<1>b. (SellList!Here \in SellList!Keys)'
  BY <1>1 DEF MovesListInv, SellList!Here, SellList!Keys
<1>c. SellList!Total' \in Nat
  BY <1>1, <1>b DEF SellList!Total, MovesListInv, MovesGoodList
<1>d. SellPageSize \in Nat \ {0}
  BY DEF SellList!SellListAssumption
<1>e. SellList!TotalPages' = IF SellList!Total' <= SellPageSize THEN 1
        ELSE (SellList!Total' + SellPageSize - 1) \div SellPageSize
  BY DEF SellList!TotalPages
<1>f. SellList!TotalPages' \in Nat /\ 1 <= SellList!TotalPages'
  BY <1>c, <1>d, <1>e, MovesPages
<1>2. SellList!TotalPages' \in Nat /\ 1 <= SellList!TotalPages' /\ listPage \in Nat /\ SellList!TotalPages \in Nat
  BY <1>a, <1>f
<1>3. CASE \E s \in SellFilters, q \in BOOLEAN : SellList!UpdateFilter(s, q)
  BY <1>2, <1>3 DEF SellList!UpdateFilter
<1>4. ASSUME UNCHANGED <<status, sought>> PROVE SellList!TotalPages' = SellList!TotalPages
  BY <1>4 DEF SellList!TotalPages, SellList!Total, SellList!Here
<1>5. CASE \E p \in 0..(SellList!TotalPages + 1) : SellList!Turn(p)
  <2>1. UNCHANGED <<status, sought>> /\
          (listPage' = listPage - 1 \/ (listPage' = listPage + 1 /\ listPage < SellList!TotalPages))
    BY <1>5 DEF SellList!Turn
  <2>2. QED
    BY <1>2, <1>4, <2>1
<1>6. CASE SellList!RowsChange \/ SellList!Ask \/ SellList!CountList \/
             (\E k \in SellList!Keys : SellList!Answered(k)) \/ (\E c \in SellFilters : SellList!CountOne(c)) \/
             UNCHANGED SellList!vars
  <2>1. UNCHANGED <<status, sought, listPage>>
    BY <1>6 DEF SellList!RowsChange, SellList!Ask, SellList!CountList, SellList!Answered, SellList!CountOne,
         SellList!vars
  <2>2. QED
    BY <1>4, <2>1
<1>7. QED
  BY <1>3, <1>5, <1>6 DEF SellList!Next

LEMMA MovesSellListHolds ==
    SellList!SellListAssumption =>
      (SellList!Spec => [](SellList!TypeOK /\ SellList!CardCountsItsList) /\ SellList!OnlyShorterListsStrand)
<1>1. SUFFICES ASSUME SellList!SellListAssumption PROVE SellList!Spec =>
        [](SellList!TypeOK /\ SellList!CardCountsItsList) /\ SellList!OnlyShorterListsStrand
  OBVIOUS
<1>2. SellList!Init => MovesSellListInv
  BY <1>1, MovesSellListInvInit
<1>3. MovesSellListInv /\ [SellList!Next]_(SellList!vars) => MovesSellListInv'
  BY <1>1, MovesSellListInvStep
<1>4. MovesSellListInv => SellList!TypeOK /\ SellList!CardCountsItsList
  BY <1>1, MovesSellListInvImplies
<1>5. MovesSellListInv /\ [SellList!Next]_(SellList!vars) => [MovesNotPastTheEnd]_(SellList!vars)
  BY <1>1, MovesStepsStrandNobody
<1>6. SellList!OnlyShorterListsStrand <=> [][MovesNotPastTheEnd]_(SellList!vars)
  BY PTL DEF SellList!OnlyShorterListsStrand, MovesNotPastTheEnd
<1>7. QED
  BY <1>2, <1>3, <1>4, <1>5, <1>6, PTL DEF SellList!Spec
-----------------------------------------------------------------------------
(***************************************************************************)
(* The reports: Reports.                                                   *)
(***************************************************************************)
(* The cardinality the instance names is that of the library.              *)
LEMMA RepCounts ==
    ASSUME NEW S
    PROVE  /\ Reports!Cardinality(S) = Cardinality(S)
           /\ Reports!IsFiniteSet(S) <=> IsFiniteSet(S)
BY DEF Reports!Cardinality, Cardinality, Reports!IsFiniteSet, IsFiniteSet

LEMMA RepSums == ASSUME NEW f, NEW S PROVE Reports!SumFunctionOnSet(f, S) = SumFunctionOnSet(f, S)
BY DEF Reports!SumFunctionOnSet, Reports!FoldFunctionOnSet, Reports!MapThenFoldSet,
       SumFunctionOnSet, FoldFunctionOnSet, MapThenFoldSet

(***************************************************************************)
(* Reports: the rows keep their shape, and the parts of a user report that *)
(* were counted while no row changed are still what they count.            *)
(***************************************************************************)
RepUserRow == [at : 1..day \cup {Nil}, level : Reports!LevelParts, status : Reports!UserStatuses]
RepPurchaseRow == [at : 1..day \cup {Nil}, paid : 1..day \cup {Nil}, status : Reports!PurchaseStatuses,
                   qpay : {"PENDING", "PAID", "FAILED"}]
RepSellRow == [at : 1..day \cup {Nil}, status : Reports!SellStatuses]

RepRowsTyped ==
    /\ day \in Reports!Days /\ edits \in 0..MaxEdits /\ touched \in BOOLEAN
    /\ user \in [Users -> RepUserRow] /\ purchase \in [Purchases -> RepPurchaseRow] /\ sell \in [Sells -> RepSellRow]

RepIsReport(kind, f, parts) ==
    /\ report = [kind |-> kind, f |-> f, parts |-> parts]
    /\ f \in AskedFilters /\ parts = [x \in Reports!Parts(kind) |-> parts[x]]

RepStillCounts(f, x, n) == n \in {Nil, Reports!UserPart(f, x)}

RepReportTyped ==
    report # Reports!NoReport =>
        /\ report.kind \in {"users", "summary"} /\ RepIsReport(report.kind, report.f, report.parts)
        /\ (report.kind = "users" /\ ~touched) =>
             \A x \in Reports!Parts("users") : RepStillCounts(report.f, x, report.parts[x])

RepReportsInv == RepRowsTyped /\ RepReportTyped

LEMMA RepLevelsAre == /\ Reports!LevelParts = {"NORMAL", "BRONZE", "SILVER", "GOLD"} /\ DOMAIN Reports!Levels = 1..4
                      /\ \A i \in DOMAIN Reports!Levels : Reports!Levels[i] \in Reports!LevelParts
BY DEF Reports!LevelParts, Reports!Levels

LEMMA RepReportsInvInit == ASSUME Reports!ReportsAssumption, Reports!Init PROVE RepReportsInv
<1>1. RepRowsTyped
  <2>0. MaxDay \in Nat \ {0} /\ MaxEdits \in Nat /\ day = 1 /\ edits = 0
    BY RepCounts DEF Reports!Init, Reports!ReportsAssumption
  <2>a. touched \in BOOLEAN
    BY DEF Reports!Init
  <2>1. day \in Reports!Days /\ edits \in 0..MaxEdits /\ touched \in BOOLEAN /\ 1 \in 1..day
    BY <2>0, <2>a DEF Reports!Days
  <2>2. user \in [Users -> RepUserRow]
    BY <2>1, RepLevelsAre DEF Reports!Init, RepUserRow, Reports!NoUser, Reports!UserStatuses
  <2>3. sell \in [Sells -> RepSellRow]
    BY <2>1 DEF Reports!Init, RepSellRow, Reports!NoSell, Reports!SellStatuses
  <2>4. Reports!NoPurchase \in RepPurchaseRow
    BY <2>1 DEF RepPurchaseRow, Reports!NoPurchase, Reports!PurchaseStatuses
  <2>5. \A p \in DOMAIN PaidRows : PaidRows[p] \in RepPurchaseRow
    BY RepCounts, <2>1 DEF Reports!ReportsAssumption, RepPurchaseRow
  <2>6. purchase \in [Purchases -> RepPurchaseRow]
    BY <2>4, <2>5 DEF Reports!Init
  <2>7. QED
    BY <2>1, <2>2, <2>3, <2>6 DEF RepRowsTyped
<1>2. RepReportTyped
  BY DEF Reports!Init, RepReportTyped
<1>3. QED
  BY <1>1, <1>2 DEF RepReportsInv

LEMMA RepUserKeeps ==
    ASSUME Reports!ReportsAssumption, RepRowsTyped, NEW u \in Users, Reports!UserChanges(u)
    PROVE  user' \in [Users -> RepUserRow]
<1>1. user[u] \in RepUserRow /\ day \in 1..day
  BY RepCounts DEF RepRowsTyped, Reports!ReportsAssumption, Reports!Days
<1>2. CASE user' = [user EXCEPT ![u].at = day]
  BY <1>1, <1>2 DEF RepRowsTyped, RepUserRow
<1>3. ASSUME NEW l \in Reports!LevelParts, user' = [user EXCEPT ![u].level = l] PROVE user' \in [Users -> RepUserRow]
  BY <1>1, <1>3 DEF RepRowsTyped, RepUserRow
<1>4. ASSUME NEW s \in Reports!UserStatuses, user' = [user EXCEPT ![u].status = s] PROVE user' \in [Users -> RepUserRow]
  BY <1>1, <1>4 DEF RepRowsTyped, RepUserRow
<1>5. QED
  BY <1>2, <1>3, <1>4, RepLevelsAre DEF Reports!UserChanges

LEMMA RepPurchaseKeeps ==
    ASSUME Reports!ReportsAssumption, RepRowsTyped, NEW p \in Purchases, Reports!PurchaseChanges(p)
    PROVE  purchase' \in [Purchases -> RepPurchaseRow]
<1>1. purchase[p] \in RepPurchaseRow /\ day \in 1..day
  BY RepCounts DEF RepRowsTyped, Reports!ReportsAssumption, Reports!Days
<1>2. ASSUME NEW r \in Reports!PurchaseMoved(purchase[p]) PROVE r \in RepPurchaseRow
  <2> DEFINE o == purchase[p]
  <2> HIDE DEF o
  <2>0. o \in RepPurchaseRow /\ r \in Reports!PurchaseMoved(o)
    BY <1>1 DEF o
  <2>1. CASE o.at = Nil
    <3>1. r = [o EXCEPT !.at = day]
      BY <2>0, <2>1 DEF Reports!PurchaseMoved
    <3>2. QED
      BY <1>1, <2>0, <3>1 DEF RepPurchaseRow
  <2>2. CASE o.at # Nil /\ o.status = "PENDING"
    <3>1. r = [o EXCEPT !.status = "PAYMENT_PENDING"]
      BY <2>0, <2>2 DEF Reports!PurchaseMoved
    <3>2. QED
      BY <1>1, <2>0, <3>1 DEF RepPurchaseRow, Reports!PurchaseStatuses
  <2>3. CASE o.at # Nil /\ o.status = "PAYMENT_PENDING"
    <3>1. r = [o EXCEPT !.status = "COMPLETED", !.qpay = "PAID", !.paid = day]
      BY <2>0, <2>3 DEF Reports!PurchaseMoved
    <3>2. r = [at |-> o.at, paid |-> day, status |-> "COMPLETED", qpay |-> "PAID"]
      BY <2>0, <3>1 DEF RepPurchaseRow
    <3>3. QED
      BY <1>1, <2>0, <3>2 DEF RepPurchaseRow, Reports!PurchaseStatuses
  <2>4. CASE o.at # Nil /\ o.status = "COMPLETED"
    <3>1. r = [o EXCEPT !.qpay = "PENDING"]
      BY <2>0, <2>4 DEF Reports!PurchaseMoved
    <3>2. QED
      BY <1>1, <2>0, <3>1 DEF RepPurchaseRow, Reports!PurchaseStatuses
  <2>5. CASE o.at # Nil /\ o.status = "CANCELLED"
    BY <2>0, <2>5 DEF Reports!PurchaseMoved
  <2>6. o.status \in Reports!PurchaseStatuses
    BY <2>0 DEF RepPurchaseRow
  <2>7. QED
    BY <2>1, <2>2, <2>3, <2>4, <2>5, <2>6 DEF Reports!PurchaseStatuses
<1>3. PICK r \in Reports!PurchaseMoved(purchase[p]) : purchase' = [purchase EXCEPT ![p] = r]
  BY DEF Reports!PurchaseChanges
<1>4. QED
  BY <1>2, <1>3 DEF RepRowsTyped

LEMMA RepSellKeeps ==
    ASSUME Reports!ReportsAssumption, RepRowsTyped, NEW s \in Sells, Reports!SellChanges(s)
    PROVE  sell' \in [Sells -> RepSellRow]
<1>1. sell[s] \in RepSellRow /\ day \in 1..day
  BY RepCounts DEF RepRowsTyped, Reports!ReportsAssumption, Reports!Days
<1>2. ASSUME NEW r \in Reports!SellMoved(sell[s]) PROVE r \in RepSellRow
  <2> DEFINE o == sell[s]
  <2> HIDE DEF o
  <2>0. o \in RepSellRow /\ r \in Reports!SellMoved(o)
    BY <1>1 DEF o
  <2>1. r = [o EXCEPT !.at = day] \/ \E st \in Reports!SellStatuses : r = [o EXCEPT !.status = st]
    BY <2>0 DEF Reports!SellMoved, Reports!SellStatuses
  <2>2. QED
    BY <1>1, <2>0, <2>1 DEF RepSellRow
<1>3. PICK r \in Reports!SellMoved(sell[s]) : sell' = [sell EXCEPT ![s] = r]
  BY DEF Reports!SellChanges
<1>4. QED
  BY <1>2, <1>3 DEF RepRowsTyped

LEMMA RepDayKeeps ==
    ASSUME Reports!ReportsAssumption, RepRowsTyped, Reports!NewDay
    PROVE  day' \in Reports!Days /\ RepRowsTyped /\ user' \in [Users -> RepUserRow'] /\
           purchase' \in [Purchases -> RepPurchaseRow'] /\ sell' \in [Sells -> RepSellRow']
<1>1. day' \in Reports!Days /\ 1..day \subseteq 1..day' /\ UNCHANGED <<user, purchase, sell>>
  BY RepCounts DEF Reports!NewDay, RepRowsTyped, Reports!ReportsAssumption, Reports!Days
<1>2. RepUserRow \subseteq RepUserRow' /\ RepPurchaseRow \subseteq RepPurchaseRow' /\ RepSellRow \subseteq RepSellRow'
  BY <1>1 DEF RepUserRow, RepPurchaseRow, RepSellRow
<1>3. QED
  BY <1>1, <1>2 DEF RepRowsTyped

LEMMA RepChangesKeep == ASSUME Reports!ReportsAssumption, RepReportsInv, Reports!RowsChange PROVE RepReportsInv'
<1>1. edits' \in 0..MaxEdits /\ touched' = (report.kind # "none") /\ report' = report
  BY RepCounts DEF Reports!RowsChange, RepReportsInv, RepRowsTyped, Reports!ReportsAssumption
<1>2. touched' \in BOOLEAN
  BY <1>1
<1>3. /\ day' \in Reports!Days
      /\ user' \in [Users -> RepUserRow'] /\ purchase' \in [Purchases -> RepPurchaseRow'] /\
           sell' \in [Sells -> RepSellRow']
  <2>1. CASE Reports!NewDay
    BY <2>1, RepDayKeeps DEF RepReportsInv
  <2>2. ASSUME UNCHANGED day
        PROVE  RepUserRow' = RepUserRow /\ RepPurchaseRow' = RepPurchaseRow /\ RepSellRow' = RepSellRow
    BY <2>2 DEF RepUserRow, RepPurchaseRow, RepSellRow
  <2>3. CASE \E u \in Users : Reports!UserChanges(u)
    <3>1. UNCHANGED <<day, purchase, sell>> /\ user' \in [Users -> RepUserRow]
      BY <2>3, RepUserKeeps DEF Reports!UserChanges, RepReportsInv
    <3>2. QED
      BY <2>2, <3>1 DEF RepReportsInv, RepRowsTyped
  <2>4. CASE \E p \in Purchases : Reports!PurchaseChanges(p)
    <3>1. UNCHANGED <<day, user, sell>> /\ purchase' \in [Purchases -> RepPurchaseRow]
      BY <2>4, RepPurchaseKeeps DEF Reports!PurchaseChanges, RepReportsInv
    <3>2. QED
      BY <2>2, <3>1 DEF RepReportsInv, RepRowsTyped
  <2>5. CASE \E s \in Sells : Reports!SellChanges(s)
    <3>1. UNCHANGED <<day, user, purchase>> /\ sell' \in [Sells -> RepSellRow]
      BY <2>5, RepSellKeeps DEF Reports!SellChanges, RepReportsInv
    <3>2. QED
      BY <2>2, <3>1 DEF RepReportsInv, RepRowsTyped
  <2>6. QED
    BY <2>1, <2>3, <2>4, <2>5 DEF Reports!RowsChange
<1>4. RepReportTyped'
  <2>1. report # Reports!NoReport => touched'
    BY <1>1 DEF RepReportsInv, RepReportTyped
  <2>2. \A kind, f, parts : RepIsReport(kind, f, parts)' <=> RepIsReport(kind, f, parts)
    BY <1>1 DEF RepIsReport, Reports!Parts
  <2>3. QED
    BY <1>1, <2>1, <2>2 DEF RepReportsInv, RepReportTyped, Reports!NoReport
<1>5. QED
  BY <1>1, <1>2, <1>3, <1>4 DEF RepReportsInv, RepRowsTyped

LEMMA RepSameCounts ==
    ASSUME UNCHANGED user
    PROVE  \A f, x, n : RepStillCounts(f, x, n)' <=> RepStillCounts(f, x, n)
BY RepCounts DEF RepStillCounts, Reports!UserPart, Reports!UsersOf, Reports!UsersAnd, Reports!Registered,
     Reports!Satisfies

LEMMA RepReportKeeps ==
    ASSUME Reports!ReportsAssumption, RepReportsInv,
           \/ \E kind \in {"users", "summary"}, f \in AskedFilters : Reports!Ask(kind, f)
           \/ \E which \in Reports!UserParts \cup Reports!LevelParts \cup Reports!SummaryParts : Reports!Query(which)
           \/ Reports!Shown
           \/ UNCHANGED Reports!vars
    PROVE  RepReportsInv'
<1>1. UNCHANGED <<day, user, purchase, sell, edits>> /\ touched' \in BOOLEAN
  BY DEF RepReportsInv, RepRowsTyped, Reports!Ask, Reports!Query, Reports!Shown, Reports!vars
<1>2. RepRowsTyped'
  BY <1>1 DEF RepReportsInv, RepRowsTyped, RepUserRow, RepPurchaseRow, RepSellRow
<1>3. \A f, x, n : RepStillCounts(f, x, n)' <=> RepStillCounts(f, x, n)
  BY <1>1, RepSameCounts
<1>4. ASSUME NEW kind \in {"users", "summary"}, NEW f \in AskedFilters, Reports!Ask(kind, f) PROVE RepReportTyped'
  <2> DEFINE parts == [x \in Reports!Parts(kind) |-> Nil]
  <2>1. report' = [kind |-> kind, f |-> f, parts |-> parts]
    BY <1>4 DEF Reports!Ask
  <2>2. parts = [x \in Reports!Parts(kind) |-> parts[x]] /\ \A x \in Reports!Parts(kind) : parts[x] = Nil
    OBVIOUS
  <2> HIDE DEF parts
  <2>3. RepIsReport(kind, f, parts)' /\ report'.kind = kind /\ report'.f = f /\ report'.parts = parts
    BY <2>1, <2>2 DEF RepIsReport, Reports!Parts
  <2>4. kind = "users" => \A x \in Reports!Parts("users") : RepStillCounts(f, x, parts[x])
    BY <2>2 DEF RepStillCounts
  <2>5. QED
    BY <1>3, <2>3, <2>4 DEF RepReportTyped
<1>5. ASSUME NEW which, Reports!Query(which) PROVE RepReportTyped'
  <2>0. report # Reports!NoReport
    BY <1>5 DEF Reports!Query, Reports!NoReport
  <2>1. PICK kind, f, old : /\ kind = report.kind /\ f = report.f /\ old = report.parts
                            /\ kind \in {"users", "summary"} /\ RepIsReport(kind, f, old)
                            /\ (kind = "users" /\ ~touched) =>
                                 \A x \in Reports!Parts("users") : RepStillCounts(f, x, old[x])
    BY <2>0 DEF RepReportsInv, RepReportTyped
  <2>2. /\ report = [kind |-> kind, f |-> f, parts |-> old] /\ f \in AskedFilters
        /\ old = [x \in Reports!Parts(kind) |-> old[x]] /\ which \in DOMAIN old
    BY <1>5, <2>1 DEF Reports!Query, RepIsReport
  <2>3. PICK n : /\ report' = [report EXCEPT !.parts[which] = n]
                 /\ kind = "users" => n = Reports!UserPart(f, which)
    BY <1>5, <2>1 DEF Reports!Query
  <2>4. PICK parts : parts = [old EXCEPT ![which] = n]
    OBVIOUS
  <2>5. report' = [kind |-> kind, f |-> f, parts |-> parts]
    BY <2>2, <2>3, <2>4
  <2>6. /\ parts = [x \in Reports!Parts(kind) |-> parts[x]] /\ which \in Reports!Parts(kind)
        /\ \A x \in Reports!Parts(kind) : parts[x] = IF x = which THEN n ELSE old[x]
    BY <2>2, <2>4
  <2>7. RepIsReport(kind, f, parts)' /\ report'.kind = kind /\ report'.f = f /\ report'.parts = parts
    BY <2>2, <2>5, <2>6 DEF RepIsReport, Reports!Parts
  <2>8. (kind = "users" /\ ~touched) => \A x \in Reports!Parts("users") : RepStillCounts(f, x, parts[x])
    BY <2>1, <2>3, <2>6 DEF RepStillCounts
  <2>9. touched' = touched
    BY <1>5 DEF Reports!Query
  <2>10. Reports!Parts("users")' = Reports!Parts("users")
    BY DEF Reports!Parts
  <2>11. QED
    BY <1>3, <2>1, <2>7, <2>8, <2>9, <2>10 DEF RepReportTyped
<1>6. ASSUME Reports!Shown PROVE RepReportTyped'
  BY <1>6 DEF Reports!Shown, RepReportTyped, Reports!NoReport
<1>7. ASSUME UNCHANGED Reports!vars PROVE RepReportTyped'
  <2>1. report' = report /\ touched' = touched
    BY <1>7 DEF Reports!vars
  <2>2. \A kind, f, parts : RepIsReport(kind, f, parts)' <=> RepIsReport(kind, f, parts)
    BY <2>1 DEF RepIsReport, Reports!Parts
  <2>3. QED
    BY <1>3, <2>1, <2>2 DEF RepReportsInv, RepReportTyped, Reports!NoReport
<1>8. RepReportTyped'
  BY <1>4, <1>5, <1>6, <1>7
<1>9. QED
  BY <1>2, <1>8 DEF RepReportsInv

LEMMA RepReportsInvStep ==
    ASSUME Reports!ReportsAssumption, RepReportsInv, [Reports!Next]_(Reports!vars)
    PROVE  RepReportsInv'
BY RepChangesKeep, RepReportKeeps DEF Reports!Next

LEMMA RepReportsTyped == ASSUME RepReportsInv PROVE Reports!TypeOK
BY DEF RepReportsInv, RepRowsTyped, RepUserRow, RepPurchaseRow, RepSellRow, Reports!TypeOK
-----------------------------------------------------------------------------
LEMMA RepFilterIs ==
    ASSUME Reports!ReportsAssumption, NEW f \in AskedFilters
    PROVE  /\ f = [level |-> f.level, who |-> f.who, status |-> f.status, from |-> f.from, to |-> f.to]
           /\ f.from # Nil => f.from \in Nat
           /\ f.to # Nil => f.to \in Nat
BY RepCounts DEF Reports!ReportsAssumption, Reports!Filter, Reports!Days

LEMMA RepAmounts ==
    ASSUME Reports!ReportsAssumption
    PROVE  /\ \A S \in SUBSET Purchases : IsFiniteSet(S) /\ \A x \in S : Amount[x] \in Nat /\ Amount[x] \in Int
           /\ \A S \in SUBSET Sells : IsFiniteSet(S) /\ \A x \in S : Amount[x] \in Nat /\ Amount[x] \in Int
BY RepCounts, FS_Subset DEF Reports!ReportsAssumption

LEMMA RepTotalsDoAgree == ASSUME Reports!ReportsAssumption, RepRowsTyped PROVE Reports!TotalsAgree
<1> SUFFICES ASSUME NEW f \in AskedFilters, Reports!Parsed(f.status, Reports!PurchaseStatuses) = Nil
             PROVE  /\ Reports!SummaryPart(f, "revenue") = Reports!RevenueReport(f).revenue
                    /\ Reports!PurchaseReport(f).revenue = Reports!RevenueReport(f).revenue
                    /\ (Reports!UserFields(f) = {} /\ Reports!InRange(f, day)) =>
                         Reports!DashboardRevenue <= Reports!RevenueReport(f).revenue
                    /\ (Reports!Ranged(f) /\ Reports!Parsed(f.status, Reports!UserStatuses) = Nil) =>
                         Reports!SummaryPart(f, "gold") = Reports!GoldReport(f).bought
  BY DEF Reports!TotalsAgree
<1>1. Reports!RevenueReport(f).revenue = Reports!Sum(Reports!PaidOf(f))
  BY DEF Reports!RevenueReport
<1>2. Reports!SummaryPart(f, "revenue") = Reports!Sum(Reports!PaidOf(f))
  BY RepCounts DEF Reports!SummaryPart
<1>3. Reports!PurchaseReport(f).revenue = Reports!Sum({p \in Reports!PurchasesOf(f) : Reports!IsPaid(p)})
  BY RepCounts DEF Reports!PurchaseReport
<1>4. {p \in Reports!PurchasesOf(f) : Reports!IsPaid(p)} = Reports!PaidOf(f)
  BY DEF Reports!PaidOf
<1>5. ASSUME Reports!UserFields(f) = {}, Reports!InRange(f, day)
      PROVE  Reports!DashboardRevenue <= Reports!Sum(Reports!PaidOf(f))
  <2> DEFINE today == {p \in Purchases : purchase[p].at = day /\ purchase[p].status = "COMPLETED"}
  <2>1. DOMAIN purchase = Purchases /\ day # Nil
    BY RepCounts DEF RepRowsTyped, Reports!ReportsAssumption, Reports!Days
  <2>2. \A u : Reports!Satisfies(u, Reports!UserFields(f))
    BY <1>5 DEF Reports!Satisfies
  <2>3. \A p \in today : p \in Reports!PurchasesOf(f) /\ Reports!IsPaid(p)
    BY <1>5, <2>1, <2>2 DEF Reports!PurchasesOf, Reports!RowsOf, Reports!IsPaid
  <2>4. today \subseteq Reports!PaidOf(f)
    BY <1>4, <2>3
  <2>5. Reports!PaidOf(f) \subseteq Purchases
    BY <1>4, <2>1 DEF Reports!PurchasesOf, Reports!RowsOf
  <2>6. IsFiniteSet(Reports!PaidOf(f)) /\ \A x \in Reports!PaidOf(f) : Amount[x] \in Nat
    BY <2>5, RepAmounts
  <2>7. Reports!DashboardRevenue = Reports!Sum(today)
    BY DEF Reports!DashboardRevenue
  <2> HIDE DEF today
  <2>8. QED
    BY RepSums, <2>4, <2>6, <2>7, SumWithin DEF Reports!Sum
<1>6. ASSUME Reports!Ranged(f), Reports!Parsed(f.status, Reports!UserStatuses) = Nil
      PROVE  Reports!SummaryPart(f, "gold") = Reports!GoldReport(f).bought
  <2> DEFINE done == [f EXCEPT !.status = "COMPLETED"]
  <2>0. done = [level |-> f.level, who |-> f.who, status |-> "COMPLETED", from |-> f.from, to |-> f.to]
    BY RepFilterIs
  <2>1. Reports!UserFields(done) = Reports!UserFields(f)
    <3>1. Reports!Parsed(done.status, Reports!UserStatuses) = Nil
      BY <2>0 DEF Reports!Parsed, Reports!UserStatuses
    <3>2. done.level = f.level /\ done.who = f.who
      BY <2>0
    <3> HIDE DEF done
    <3>3. QED
      BY <1>6, <3>1, <3>2 DEF Reports!UserFields
  <2>2. Reports!GoldReport(f).bought = Reports!Sum(Reports!PurchasesOf(done))
    BY DEF Reports!GoldReport
  <2>3. Reports!SummaryPart(f, "gold") =
          Reports!Sum(Reports!PurchasesOf(done) \cap
                      {p \in Purchases : Reports!Satisfies(Owner[p], Reports!UserFields(f))})
    BY RepCounts, <1>6 DEF Reports!SummaryPart
  <2> HIDE DEF done
  <2>4. \A p \in Reports!PurchasesOf(done) : p \in Purchases /\ Reports!Satisfies(Owner[p], Reports!UserFields(f))
    BY <2>1 DEF Reports!PurchasesOf, Reports!RowsOf, RepRowsTyped
  <2>5. Reports!PurchasesOf(done) \cap {p \in Purchases : Reports!Satisfies(Owner[p], Reports!UserFields(f))} =
          Reports!PurchasesOf(done)
    BY <2>4
  <2>6. QED
    BY <2>2, <2>3, <2>5
<1>7. QED
  BY <1>1, <1>2, <1>3, <1>4, <1>5, <1>6

RepDatedIn(f, S, k) == \A x \in S : k[x] \in Reports!Days /\ Reports!InRange(f, k[x])

(* A chart of the days of a range adds up to what is dated in the range.   *)
LEMMA RepChartIs ==
    ASSUME Reports!ReportsAssumption, NEW f \in AskedFilters, f.from # Nil, f.to # Nil,
           NEW S, IsFiniteSet(S), Integral(Amount, S),
           NEW k, RepDatedIn(f, S, k), NEW daily, ByParts(daily, Reports!Days, Amount, S, k)
    PROVE  Reports!Charted(f, daily) = Reports!Sum(S)
<1> DEFINE D == {d \in Reports!Days : f.from <= d /\ d <= f.to}
<1>1. IsFiniteSet(D)
  <2>1. IsFiniteSet(Reports!Days)
    <3>1. 1 \in Int /\ MaxDay \in Int
      BY RepCounts DEF Reports!ReportsAssumption
    <3>2. QED
      BY <3>1, FS_Interval DEF Reports!Days
  <2>2. D \subseteq Reports!Days
    OBVIOUS
  <2>3. QED
    BY <2>1, <2>2, FS_Subset
<1>2. Reports!Charted(f, daily) = SumFunctionOnSet(daily, D)
  BY RepSums DEF Reports!Charted
<1>3. \A x \in S : k[x] \in D
  BY DEF Reports!InRange, RepDatedIn
<1>4. ByParts(daily, D, Amount, S, k)
  BY DEF ByParts
<1> HIDE DEF D
<1>5. SumFunctionOnSet(daily, D) = SumFunctionOnSet(Amount, Dated(S, k, D))
  BY <1>1, <1>4, SumByParts
<1>6. Dated(S, k, D) = S
  BY <1>3 DEF Dated
<1>7. QED
  BY RepSums, <1>2, <1>5, <1>6 DEF Reports!Sum

LEMMA RepChartsDoAddUp == ASSUME Reports!ReportsAssumption, RepRowsTyped PROVE Reports!ChartsAddUp
<1> SUFFICES ASSUME NEW f \in AskedFilters, f.from # Nil, f.to # Nil
             PROVE  /\ (\A p \in Reports!PaidOf(f) : Reports!InRange(f, Reports!PaidDay(p)))
                          => Reports!Charted(f, Reports!RevenueReport(f).daily) = Reports!RevenueReport(f).revenue
                    /\ Reports!Charted(f, Reports!PurchaseReport(f).daily) = Reports!PurchaseReport(f).revenue
                    /\ Reports!Charted(f, Reports!SellReport(f).daily) = Reports!Sum(Reports!SellsOf(f))
  BY DEF Reports!ChartsAddUp
<1>1. /\ 1..day \subseteq Reports!Days /\ Nil \notin Nat
      /\ \A p \in Purchases : purchase[p].at \in 1..day \cup {Nil} /\ purchase[p].paid \in 1..day \cup {Nil}
      /\ \A s \in Sells : sell[s].at \in 1..day \cup {Nil}
      /\ DOMAIN purchase = Purchases /\ DOMAIN sell = Sells
  BY RepCounts DEF RepRowsTyped, RepUserRow, RepPurchaseRow, RepSellRow, Reports!Days, Reports!ReportsAssumption
<1>2. \A p \in Reports!PurchasesOf(f) : p \in Purchases /\ purchase[p].at \in Reports!Days /\
        Reports!InRange(f, purchase[p].at)
  BY <1>1 DEF Reports!PurchasesOf, Reports!RowsOf
<1>3. \A s \in Reports!SellsOf(f) : s \in Sells /\ sell[s].at \in Reports!Days /\ Reports!InRange(f, sell[s].at)
  BY <1>1 DEF Reports!SellsOf, Reports!RowsOf
<1>4. Reports!PaidOf(f) \subseteq Reports!PurchasesOf(f)
  BY DEF Reports!PaidOf
<1>5. ASSUME \A p \in Reports!PaidOf(f) : Reports!InRange(f, Reports!PaidDay(p))
      PROVE  Reports!Charted(f, Reports!RevenueReport(f).daily) = Reports!RevenueReport(f).revenue
  <2> DEFINE S == Reports!PaidOf(f)
             k == [p \in S |-> Reports!PaidDay(p)]
             daily == Reports!RevenueReport(f).daily
  <2>1. IsFiniteSet(S) /\ Integral(Amount, S)
    BY <1>2, <1>4, RepAmounts DEF Integral
  <2>2. RepDatedIn(f, S, k)
    BY <1>1, <1>2, <1>4, <1>5 DEF Reports!PaidDay, RepDatedIn
  <2>3. ASSUME NEW d \in Reports!Days PROVE daily[d] = Reports!Sum(Dated(S, k, {d}))
    <3>1. daily[d] = Reports!Sum({p \in S : Reports!PaidDay(p) = d})
      BY DEF Reports!RevenueReport
    <3>2. {p \in S : Reports!PaidDay(p) = d} = Dated(S, k, {d})
      BY DEF Dated
    <3>3. QED
      BY <3>1, <3>2
  <2>4. Reports!RevenueReport(f).revenue = Reports!Sum(S)
    BY DEF Reports!RevenueReport
  <2> HIDE DEF S, k, daily
  <2>d. ByParts(daily, Reports!Days, Amount, S, k)
    BY RepSums, <2>3 DEF ByParts, Reports!Sum
  <2>5. Reports!Charted(f, daily) = Reports!Sum(S)
    BY <2>1, <2>2, <2>d, RepChartIs
  <2>6. QED
    BY <2>4, <2>5 DEF daily
<1>6. Reports!Charted(f, Reports!PurchaseReport(f).daily) = Reports!PurchaseReport(f).revenue
  <2> DEFINE S == {p \in Reports!PurchasesOf(f) : Reports!IsPaid(p)}
             k == [p \in S |-> purchase[p].at]
             daily == Reports!PurchaseReport(f).daily
  <2>0. S \subseteq Purchases
    BY <1>2
  <2>1. IsFiniteSet(S) /\ Integral(Amount, S)
    BY <2>0, RepAmounts DEF Integral
  <2>2. RepDatedIn(f, S, k)
    BY <1>2 DEF RepDatedIn
  <2>3. ASSUME NEW d \in Reports!Days PROVE daily[d] = Reports!Sum(Dated(S, k, {d}))
    <3>1. daily[d] = Reports!Sum({p \in Reports!PurchasesOf(f) : Reports!IsPaid(p) /\ purchase[p].at = d})
      BY RepCounts DEF Reports!PurchaseReport
    <3>2. {p \in Reports!PurchasesOf(f) : Reports!IsPaid(p) /\ purchase[p].at = d} = Dated(S, k, {d})
      BY DEF Dated
    <3>3. QED
      BY <3>1, <3>2
  <2>4. Reports!PurchaseReport(f).revenue = Reports!Sum(S)
    BY RepCounts DEF Reports!PurchaseReport
  <2> HIDE DEF S, k, daily
  <2>d. ByParts(daily, Reports!Days, Amount, S, k)
    BY RepSums, <2>3 DEF ByParts, Reports!Sum
  <2>5. Reports!Charted(f, daily) = Reports!Sum(S)
    BY <2>1, <2>2, <2>d, RepChartIs
  <2>6. QED
    BY <2>4, <2>5 DEF daily
<1>7. Reports!Charted(f, Reports!SellReport(f).daily) = Reports!Sum(Reports!SellsOf(f))
  <2> DEFINE S == Reports!SellsOf(f)
             k == [s \in S |-> sell[s].at]
             daily == Reports!SellReport(f).daily
  <2>0. S \subseteq Sells
    BY <1>3
  <2>1. IsFiniteSet(S) /\ Integral(Amount, S)
    BY <2>0, RepAmounts DEF Integral
  <2>2. RepDatedIn(f, S, k)
    BY <1>3 DEF RepDatedIn
  <2>3. ASSUME NEW d \in Reports!Days PROVE daily[d] = Reports!Sum(Dated(S, k, {d}))
    <3>1. daily[d] = Reports!Sum({s \in S : sell[s].at = d})
      BY RepCounts DEF Reports!SellReport
    <3>2. {s \in S : sell[s].at = d} = Dated(S, k, {d})
      BY DEF Dated
    <3>3. QED
      BY <3>1, <3>2
  <2> HIDE DEF S, k, daily
  <2>d. ByParts(daily, Reports!Days, Amount, S, k)
    BY RepSums, <2>3 DEF ByParts, Reports!Sum
  <2>5. Reports!Charted(f, daily) = Reports!Sum(S)
    BY <2>1, <2>2, <2>d, RepChartIs
  <2>6. QED
    BY <2>5 DEF daily, S
<1>8. QED
  BY <1>5, <1>6, <1>7
-----------------------------------------------------------------------------
(* A condition more, on the level or on the status.                        *)
LEMMA RepOneMore ==
    ASSUME NEW u, NEW C, NEW v
    PROVE  /\ Reports!Satisfies(u, C \cup {<<"level", v>>}) <=> Reports!Satisfies(u, C) /\ user[u].level = v
           /\ Reports!Satisfies(u, C \cup {<<"status", v>>}) <=> Reports!Satisfies(u, C) /\ user[u].status = v
<1> DEFINE Holds(c) == CASE c[1] = "level" -> user[u].level = c[2]
                         [] c[1] = "status" -> user[u].status = c[2]
                         [] c[1] = "who" -> u = c[2]
<1>1. \A D : Reports!Satisfies(u, D) <=> \A c \in D : Holds(c)
  BY DEF Reports!Satisfies
<1>2. /\ Holds(<<"level", v>>) <=> user[u].level = v
      /\ Holds(<<"status", v>>) <=> user[u].status = v
  OBVIOUS
<1> HIDE DEF Holds
<1>3. QED
  BY <1>1, <1>2

(* Unless the only filter is one of that field, a condition is added.      *)
LEMMA RepAdded ==
    ASSUME NEW f, NEW v, NEW field \in {"level", "status"},
           \A x : Reports!UserFields(f) # {<<field, x>>}
    PROVE  Reports!And(f, field, v) = Reports!UserFields(f) \cup {<<field, v>>}
<1>1. CASE Cardinality(Reports!UserFields(f)) # 1
  BY RepCounts, <1>1 DEF Reports!And
<1>2. CASE Cardinality(Reports!UserFields(f)) = 1
  <2>1. IsFiniteSet(Reports!UserFields(f))
    <3> DEFINE a == IF f.level # Nil THEN {<<"level", f.level>>} ELSE {}
               b == IF Reports!Parsed(f.status, Reports!UserStatuses) # Nil THEN {<<"status", f.status>>} ELSE {}
               c == IF f.who # Nil THEN {<<"who", f.who>>} ELSE {}
    <3>1. IsFiniteSet(a) /\ IsFiniteSet(b) /\ IsFiniteSet(c)
      BY FS_Singleton, FS_EmptySet
    <3>2. Reports!UserFields(f) = (a \cup b) \cup c
      BY DEF Reports!UserFields
    <3> HIDE DEF a, b, c
    <3>3. QED
      BY <3>1, <3>2, FS_Union
  <2>2. PICK c : Reports!UserFields(f) = {c}
    BY <1>2, <2>1, FS_Singleton
  <2>3. \E x : c \in {<<"level", x>>, <<"status", x>>, <<"who", x>>}
    BY <2>2 DEF Reports!UserFields
  <2>4. c[1] # field
    BY <2>2, <2>3
  <2>5. {e \in Reports!UserFields(f) : e[1] # field} = Reports!UserFields(f)
    BY <2>2, <2>4
  <2>6. QED
    BY RepCounts, <1>2, <2>5 DEF Reports!And
<1>3. QED
  BY <1>1, <1>2

LEMMA RepDisjoint ==
    ASSUME NEW A, NEW B, IsFiniteSet(A), IsFiniteSet(B), A \cap B = {}
    PROVE  IsFiniteSet(A \cup B) /\ Cardinality(A \cup B) = Cardinality(A) + Cardinality(B)
<1>1. Cardinality(A) \in Nat /\ Cardinality(B) \in Nat /\ Cardinality(A \cap B) = 0
  BY FS_CardinalityType, FS_EmptySet
<1>2. IsFiniteSet(A \cup B) /\ Cardinality(A \cup B) = Cardinality(A) + Cardinality(B) - Cardinality(A \cap B)
  BY FS_Union
<1>3. QED
  BY <1>1, <1>2

LEMMA RepLevelsMakeAll ==
    ASSUME Reports!ReportsAssumption, RepRowsTyped, NEW f, \A x : Reports!UserFields(f) # {<<"level", x>>}
    PROVE  /\ \A l \in Reports!LevelParts : Cardinality(Reports!UsersAnd(f, "level", l)) \in Nat
           /\ Cardinality(Reports!UsersAnd(f, "level", "NORMAL")) + Cardinality(Reports!UsersAnd(f, "level", "BRONZE"))
                + Cardinality(Reports!UsersAnd(f, "level", "SILVER"))
                + Cardinality(Reports!UsersAnd(f, "level", "GOLD"))
              = Cardinality(Reports!UsersOf(f))
<1> DEFINE S == Reports!UsersOf(f)
           Of(l) == {u \in S : user[u].level = l}
<1>1. ASSUME NEW l PROVE Reports!UsersAnd(f, "level", l) = Of(l)
  <2>1. Reports!And(f, "level", l) = Reports!UserFields(f) \cup {<<"level", l>>}
    BY RepAdded
  <2>2. ASSUME NEW u
        PROVE  Reports!Satisfies(u, Reports!And(f, "level", l)) <=> Reports!Satisfies(u, Reports!UserFields(f)) /\
               user[u].level = l
    <3> DEFINE C == Reports!UserFields(f)
    <3> HIDE DEF C
    <3>1. Reports!Satisfies(u, C \cup {<<"level", l>>}) <=> Reports!Satisfies(u, C) /\ user[u].level = l
      BY RepOneMore
    <3>2. QED
      BY <2>1, <3>1 DEF C
  <2>3. QED
    BY <2>2 DEF Reports!UsersAnd, Reports!UsersOf
<1>2. S \subseteq Users
  BY DEF Reports!UsersOf, Reports!Registered
<1>3. IsFiniteSet(S)
  BY RepCounts, <1>2, FS_Subset DEF Reports!ReportsAssumption
<1>4. \A u \in S : user[u].level \in {"NORMAL", "BRONZE", "SILVER", "GOLD"}
  BY <1>2, RepLevelsAre DEF RepRowsTyped, RepUserRow
<1> HIDE DEF S
<1>5. \A l : IsFiniteSet(Of(l))
  BY <1>3, FS_Subset
<1>6. \A l : Cardinality(Of(l)) \in Nat
  BY <1>5, FS_CardinalityType
<1> DEFINE a == Of("NORMAL")
           b == Of("BRONZE")
           c == Of("SILVER")
           d == Of("GOLD")
<1>7. /\ IsFiniteSet(a) /\ IsFiniteSet(b) /\ IsFiniteSet(c) /\ IsFiniteSet(d)
      /\ a \cap b = {} /\ (a \cup b) \cap c = {} /\ ((a \cup b) \cup c) \cap d = {}
  BY <1>5
<1>8. ((a \cup b) \cup c) \cup d = S
  BY <1>4
<1>9. /\ Cardinality(a) \in Nat /\ Cardinality(b) \in Nat /\ Cardinality(c) \in Nat /\ Cardinality(d) \in Nat
  BY <1>6
<1> HIDE DEF a, b, c, d
<1>10. IsFiniteSet(a \cup b) /\ Cardinality(a \cup b) = Cardinality(a) + Cardinality(b)
  BY <1>7, RepDisjoint
<1>11. IsFiniteSet((a \cup b) \cup c) /\ Cardinality((a \cup b) \cup c) = Cardinality(a \cup b) + Cardinality(c)
  BY <1>7, <1>10, RepDisjoint
<1>12. Cardinality(((a \cup b) \cup c) \cup d) = Cardinality((a \cup b) \cup c) + Cardinality(d)
  BY <1>7, <1>11, RepDisjoint
<1>13. Cardinality(S) = Cardinality(a) + Cardinality(b) + Cardinality(c) + Cardinality(d)
  BY <1>8, <1>9, <1>10, <1>11, <1>12
<1>14. /\ Reports!UsersAnd(f, "level", "NORMAL") = a /\ Reports!UsersAnd(f, "level", "BRONZE") = b
       /\ Reports!UsersAnd(f, "level", "SILVER") = c /\ Reports!UsersAnd(f, "level", "GOLD") = d
  BY <1>1 DEF a, b, c, d
<1>15. \A l \in Reports!LevelParts : Cardinality(Reports!UsersAnd(f, "level", l)) \in Nat
  BY <1>1, <1>6
<1>16. QED
  BY <1>13, <1>14, <1>15 DEF S

LEMMA RepStatusesMakeAll ==
    ASSUME Reports!ReportsAssumption, RepRowsTyped, NEW f, \A x : Reports!UserFields(f) # {<<"status", x>>}
    PROVE  Cardinality(Reports!UsersAnd(f, "status", "ACTIVE"))
             + Cardinality(Reports!UsersAnd(f, "status", "SUSPENDED"))
              = Cardinality(Reports!UsersOf(f))
<1> DEFINE S == Reports!UsersOf(f)
           Of(l) == {u \in S : user[u].status = l}
<1>1. ASSUME NEW l PROVE Reports!UsersAnd(f, "status", l) = Of(l)
  <2>1. Reports!And(f, "status", l) = Reports!UserFields(f) \cup {<<"status", l>>}
    BY RepAdded
  <2>2. ASSUME NEW u
        PROVE  Reports!Satisfies(u, Reports!And(f, "status", l)) <=> Reports!Satisfies(u, Reports!UserFields(f)) /\
               user[u].status = l
    <3> DEFINE C == Reports!UserFields(f)
    <3> HIDE DEF C
    <3>1. Reports!Satisfies(u, C \cup {<<"status", l>>}) <=> Reports!Satisfies(u, C) /\ user[u].status = l
      BY RepOneMore
    <3>2. QED
      BY <2>1, <3>1 DEF C
  <2>3. QED
    BY <2>2 DEF Reports!UsersAnd, Reports!UsersOf
<1>2. S \subseteq Users
  BY DEF Reports!UsersOf, Reports!Registered
<1>3. IsFiniteSet(S)
  BY RepCounts, <1>2, FS_Subset DEF Reports!ReportsAssumption
<1>4. \A u \in S : user[u].status \in {"ACTIVE", "SUSPENDED"}
  BY <1>2 DEF RepRowsTyped, RepUserRow, Reports!UserStatuses
<1> HIDE DEF S
<1>5. \A l : IsFiniteSet(Of(l))
  BY <1>3, FS_Subset
<1> DEFINE a == Of("ACTIVE")
           b == Of("SUSPENDED")
<1>7. IsFiniteSet(a) /\ IsFiniteSet(b) /\ a \cap b = {}
  BY <1>5
<1>8. a \cup b = S
  BY <1>4
<1> HIDE DEF a, b
<1>10. Cardinality(a \cup b) = Cardinality(a) + Cardinality(b)
  BY <1>7, RepDisjoint
<1>14. Reports!UsersAnd(f, "status", "ACTIVE") = a /\ Reports!UsersAnd(f, "status", "SUSPENDED") = b
  BY <1>1 DEF a, b
<1>16. QED
  BY <1>8, <1>10, <1>14 DEF S

LEMMA RepLevelSumIs ==
    ASSUME NEW c, \A l \in Reports!LevelParts : c[l] \in Int
    PROVE  Reports!LevelSum(c) = c["NORMAL"] + c["BRONZE"] + c["SILVER"] + c["GOLD"]
<1> DEFINE S1 == {"GOLD"}
           S2 == {"SILVER", "GOLD"}
           S3 == {"BRONZE", "SILVER", "GOLD"}
           S4 == {"NORMAL", "BRONZE", "SILVER", "GOLD"}
<1>1. S4 \ {"NORMAL"} = S3 /\ S3 \ {"BRONZE"} = S2 /\ S2 \ {"SILVER"} = S1 /\ S1 \ {"GOLD"} = {}
  OBVIOUS
<1>2. "NORMAL" \in S4 /\ "BRONZE" \in S3 /\ "SILVER" \in S2 /\ "GOLD" \in S1 /\ Reports!LevelParts = S4
  BY RepLevelsAre
<1>3. \A l \in S4 : c[l] \in Int
  BY <1>2
<1>4. IsFiniteSet(S1) /\ IsFiniteSet(S2) /\ IsFiniteSet(S3) /\ IsFiniteSet(S4)
  <2>1. IsFiniteSet(S1)
    BY FS_Singleton
  <2>2. S2 = S1 \cup {"SILVER"} /\ S3 = S2 \cup {"BRONZE"} /\ S4 = S3 \cup {"NORMAL"}
    OBVIOUS
  <2> HIDE DEF S1, S2, S3, S4
  <2>3. IsFiniteSet(S2)
    BY <2>1, <2>2, FS_AddElement
  <2>4. IsFiniteSet(S3)
    BY <2>2, <2>3, FS_AddElement
  <2>5. QED
    BY <2>1, <2>2, <2>3, <2>4, FS_AddElement
<1>5. /\ \A l \in S3 : c[l] \in Int
      /\ \A l \in S2 : c[l] \in Int
      /\ \A l \in S1 : c[l] \in Int
  BY <1>3
<1>6. c["NORMAL"] \in Int /\ c["BRONZE"] \in Int /\ c["SILVER"] \in Int /\ c["GOLD"] \in Int
  BY <1>3
<1> HIDE DEF S1, S2, S3, S4
<1>7. SumFunctionOnSet(c, S4) = c["NORMAL"] + SumFunctionOnSet(c, S3)
  BY <1>1, <1>2, <1>3, <1>4, SumMore
<1>8. SumFunctionOnSet(c, S3) = c["BRONZE"] + SumFunctionOnSet(c, S2)
  BY <1>1, <1>2, <1>4, <1>5, SumMore
<1>9. SumFunctionOnSet(c, S2) = c["SILVER"] + SumFunctionOnSet(c, S1)
  BY <1>1, <1>2, <1>4, <1>5, SumMore
<1>10. SumFunctionOnSet(c, S1) = c["GOLD"] + SumFunctionOnSet(c, {})
  BY <1>1, <1>2, <1>4, <1>5, SumMore
<1>11. SumFunctionOnSet(c, {}) = 0
  BY SumNothing
<1>12. Reports!LevelSum(c) = SumFunctionOnSet(c, S4)
  BY RepSums, <1>2 DEF Reports!LevelSum
<1>13. QED
  BY <1>6, <1>7, <1>8, <1>9, <1>10, <1>11, <1>12

LEMMA RepCountsDoAddUp == ASSUME Reports!ReportsAssumption, RepReportsInv PROVE Reports!CountsAddUp
<1> SUFFICES ASSUME Reports!Answered, report.kind = "users", ~touched
             PROVE  /\ (Reports!UserFields(report.f) \notin {{<<"level", l>>} : l \in Reports!LevelParts})
                          => Reports!LevelSum(report.parts) = report.parts["total"]
                    /\ (Reports!UserFields(report.f) \notin {{<<"status", s>>} : s \in Reports!UserStatuses})
                          => report.parts["active"] + report.parts["suspended"] = report.parts["total"]
  BY DEF Reports!CountsAddUp
<1> DEFINE f == report.f
           c == report.parts
<1>0. report # Reports!NoReport
  BY DEF Reports!Answered, Reports!NoReport
<1>1. RepIsReport("users", f, c) /\ \A x \in Reports!Parts("users") : RepStillCounts(f, x, c[x])
  BY <1>0 DEF RepReportsInv, RepReportTyped
<1>2. DOMAIN c = Reports!UserParts \cup Reports!LevelParts /\ f \in AskedFilters
  BY <1>1 DEF RepIsReport, Reports!Parts
<1>3. \A x \in Reports!UserParts \cup Reports!LevelParts : c[x] = Reports!UserPart(f, x)
  BY <1>1, <1>2 DEF Reports!Answered, RepStillCounts, Reports!Parts
<1>4. \A l \in Reports!LevelParts : c[l] = Cardinality(Reports!UsersAnd(f, "level", l))
  BY RepCounts, <1>3, RepLevelsAre DEF Reports!UserPart
<1>5. /\ c["total"] = Cardinality(Reports!UsersOf(f)) /\
           c["active"] = Cardinality(Reports!UsersAnd(f, "status", "ACTIVE"))
      /\ c["suspended"] = Cardinality(Reports!UsersAnd(f, "status", "SUSPENDED"))
  BY RepCounts, <1>3, RepLevelsAre DEF Reports!UserPart, Reports!UserParts
<1>6. f.level \in Reports!LevelParts \cup {Nil} /\ RepRowsTyped
  BY RepCounts, <1>2 DEF Reports!ReportsAssumption, Reports!Filter, RepReportsInv
<1> HIDE DEF f, c
<1>7. ASSUME Reports!UserFields(f) \notin {{<<"level", l>>} : l \in Reports!LevelParts}
      PROVE  Reports!LevelSum(c) = c["total"]
  <2>1. ASSUME NEW x, Reports!UserFields(f) = {<<"level", x>>} PROVE FALSE
    <3>1. <<"level", x>> \in Reports!UserFields(f)
      BY <2>1
    <3>2. x = f.level /\ f.level # Nil
      BY <3>1 DEF Reports!UserFields
    <3>3. QED
      BY <1>6, <1>7, <2>1, <3>2
  <2>a. \A x : Reports!UserFields(f) # {<<"level", x>>}
    BY <2>1
  <2>b. \A l \in Reports!LevelParts : Cardinality(Reports!UsersAnd(f, "level", l)) \in Nat
    BY <1>6, <2>a, RepLevelsMakeAll
  <2>2. \A l \in Reports!LevelParts : c[l] \in Int
    BY <1>4, <2>b
  <2>3. Reports!LevelSum(c) = c["NORMAL"] + c["BRONZE"] + c["SILVER"] + c["GOLD"]
    BY <2>2, RepLevelSumIs
  <2>4. /\ c["NORMAL"] = Cardinality(Reports!UsersAnd(f, "level", "NORMAL"))
        /\ c["BRONZE"] = Cardinality(Reports!UsersAnd(f, "level", "BRONZE"))
        /\ c["SILVER"] = Cardinality(Reports!UsersAnd(f, "level", "SILVER"))
        /\ c["GOLD"] = Cardinality(Reports!UsersAnd(f, "level", "GOLD"))
    BY <1>4, RepLevelsAre
  <2>5. QED
    BY <1>5, <1>6, <2>a, <2>3, <2>4, RepLevelsMakeAll
<1>8. ASSUME Reports!UserFields(f) \notin {{<<"status", s>>} : s \in Reports!UserStatuses}
      PROVE  c["active"] + c["suspended"] = c["total"]
  <2>1. ASSUME NEW x, Reports!UserFields(f) = {<<"status", x>>} PROVE FALSE
    <3>1. <<"status", x>> \in Reports!UserFields(f)
      BY <2>1
    <3>2. x = f.status /\ Reports!Parsed(f.status, Reports!UserStatuses) # Nil
      BY <3>1 DEF Reports!UserFields
    <3>3. x \in Reports!UserStatuses
      BY <3>2 DEF Reports!Parsed
    <3>4. QED
      BY <1>8, <2>1, <3>3
  <2>2. QED
    BY <1>5, <1>6, <2>1, RepStatusesMakeAll
<1>9. QED
  BY <1>7, <1>8 DEF f, c

LEMMA RepReportsHold == Reports!ReportsAssumption =>
  (Reports!Spec => [](Reports!TypeOK /\ Reports!TotalsAgree /\ Reports!ChartsAddUp /\ Reports!CountsAddUp))
<1>1. SUFFICES ASSUME Reports!ReportsAssumption PROVE Reports!Spec =>
        [](Reports!TypeOK /\ Reports!TotalsAgree /\ Reports!ChartsAddUp /\ Reports!CountsAddUp)
  OBVIOUS
<1>2. Reports!Init => RepReportsInv
  BY <1>1, RepReportsInvInit
<1>3. RepReportsInv /\ [Reports!Next]_(Reports!vars) => RepReportsInv'
  BY <1>1, RepReportsInvStep
<1>4. RepReportsInv => Reports!TypeOK /\ Reports!TotalsAgree /\ Reports!ChartsAddUp /\ Reports!CountsAddUp
  BY <1>1, RepReportsTyped, RepTotalsDoAgree, RepChartsDoAddUp, RepCountsDoAddUp DEF RepReportsInv
<1>5. QED
  BY <1>2, <1>3, <1>4, PTL DEF Reports!Spec
-----------------------------------------------------------------------------
(***************************************************************************)
(* The token QPay is asked with: QpayToken.                                *)
(***************************************************************************)
(* The values of the variables.                                            *)
TokenShape ==
    /\ now \in Nat /\ given \in Seq(Nat)
    /\ token \in 0..QpayToken!Tokens /\ tokenExpiresAt \in Nat
    /\ withdrawn \in 0..QpayToken!Tokens /\ withdrawnAt \in Nat /\ withdrawnAt <= now
    /\ call \in [Calls -> [pc : {"idle", "ask", "answer", "use"}, token : 0..QpayToken!Tokens, since : Nat]]
    /\ refused \in Int /\ refused <= now
    /\ \A k \in 1..QpayToken!Tokens : given[k] <= now

(* The token that is kept came within one answer's time, so what is left   *)
(* of its time is counted from then.                                       *)
TokenKeptInTime == token # 0 => tokenExpiresAt <= given[token] + Timeout + Cache

(* A request: the answer on the way is younger than the timeout, and the   *)
(* token in hand is sent in the tick in which it was good.                 *)
TokenInTime(c) ==
    /\ call[c].pc = "ask" => call[c].since <= now /\ now <= call[c].since + Timeout
    /\ call[c].pc = "answer" => /\ call[c].token \in 1..QpayToken!Tokens
                                /\ call[c].since <= given[call[c].token]
                                /\ now <= call[c].since + Timeout
    /\ call[c].pc = "use" => /\ call[c].token \in 1..QpayToken!Tokens
                             /\ now <= given[call[c].token] + Timeout + Cache

(* What QPay withdrew it had given before.                                 *)
TokenWithdrawnLater == \A k \in 1..withdrawn : given[k] <= withdrawnAt

TokenQpayInv ==
    /\ TokenShape /\ TokenKeptInTime /\ TokenWithdrawnLater
    /\ \A c \in Calls : TokenInTime(c)
    /\ QpayToken!SentTokensAreTaken /\ QpayToken!RefusalsEnd

(* The constants one by one, and what a token of the list is.              *)
LEMMA TokenTimes ==
    ASSUME QpayToken!QpayAssumption
    PROVE  Cache \in Nat /\ Timeout \in Nat /\ Life \in Nat /\ Cache + Timeout <= Life
BY DEF QpayToken!QpayAssumption

LEMMA TokenGivenAt == ASSUME TokenShape, NEW k \in 1..QpayToken!Tokens PROVE k \in Nat /\ given[k] \in Nat
BY DEF TokenShape, QpayToken!Tokens

LEMMA TokenQpayInit == ASSUME QpayToken!QpayAssumption PROVE QpayToken!Init => TokenQpayInv
<1> SUFFICES ASSUME QpayToken!Init PROVE TokenQpayInv
  OBVIOUS
<1>1. given = <<>> /\ QpayToken!Tokens = 0 /\ given \in Seq(Nat)
  BY DEF QpayToken!Init, QpayToken!Tokens
<1>2. TokenShape
  BY <1>1 DEF QpayToken!Init, TokenShape, QpayToken!Free
<1>3. TokenKeptInTime /\ TokenWithdrawnLater /\ QpayToken!SentTokensAreTaken /\ QpayToken!RefusalsEnd
  BY DEF QpayToken!Init, TokenKeptInTime, TokenWithdrawnLater, QpayToken!SentTokensAreTaken, QpayToken!RefusalsEnd
<1>4. \A c \in Calls : TokenInTime(c)
  BY DEF QpayToken!Init, TokenInTime, QpayToken!Free
<1>5. QED
  BY <1>2, <1>3, <1>4 DEF TokenQpayInv

(* Steps that leave the tokens and the time alone.                         *)
LEMMA TokenLoginStep ==
    ASSUME QpayToken!QpayAssumption, TokenQpayInv, NEW c \in Calls, QpayToken!Login(c) PROVE TokenQpayInv'
<1> USE TokenTimes DEF QpayToken!Tokens
<1>1. CASE QpayToken!Fresh
  <2>1. /\ call' = [call EXCEPT ![c] = [pc |-> "use", token |-> token, since |-> 0]]
        /\ UNCHANGED <<now, token, tokenExpiresAt, given, withdrawn, withdrawnAt, refused>>
    BY <1>1 DEF QpayToken!Login
  <2>2. TokenShape' /\ TokenKeptInTime' /\ TokenWithdrawnLater' /\ QpayToken!SentTokensAreTaken' /\
          QpayToken!RefusalsEnd'
    BY <2>1 DEF TokenQpayInv, TokenShape, TokenKeptInTime, TokenWithdrawnLater, QpayToken!SentTokensAreTaken,
         QpayToken!RefusalsEnd
  <2>3. token \in 1..QpayToken!Tokens /\ given[token] \in Nat /\ now <= given[token] + Timeout + Cache
    <3>1. token \in 1..QpayToken!Tokens
      BY <1>1 DEF TokenQpayInv, TokenShape, QpayToken!Fresh
    <3>2. given[token] \in Nat
      BY <3>1, TokenGivenAt DEF TokenQpayInv
    <3>3. QED
      BY <1>1, <3>1, <3>2 DEF TokenQpayInv, TokenShape, QpayToken!Fresh, TokenKeptInTime
  <2>4. ASSUME NEW o \in Calls PROVE TokenInTime(o)'
    BY <2>1, <2>3 DEF TokenQpayInv, TokenShape, TokenInTime
  <2>5. QED
    BY <2>2, <2>4 DEF TokenQpayInv
<1>2. CASE ~QpayToken!Fresh
  <2>1. /\ call' = [call EXCEPT ![c] = [pc |-> "ask", token |-> 0, since |-> now]]
        /\ UNCHANGED <<now, token, tokenExpiresAt, given, withdrawn, withdrawnAt, refused>>
    BY <1>2 DEF QpayToken!Login
  <2>2. TokenShape' /\ TokenKeptInTime' /\ TokenWithdrawnLater' /\ QpayToken!SentTokensAreTaken' /\
          QpayToken!RefusalsEnd'
    BY <2>1 DEF TokenQpayInv, TokenShape, TokenKeptInTime, TokenWithdrawnLater, QpayToken!SentTokensAreTaken,
         QpayToken!RefusalsEnd
  <2>3. ASSUME NEW o \in Calls PROVE TokenInTime(o)'
    BY <2>1 DEF TokenQpayInv, TokenShape, TokenInTime
  <2>4. QED
    BY <2>2, <2>3 DEF TokenQpayInv
<1>3. QED
  BY <1>1, <1>2

LEMMA TokenGiveStep ==
    ASSUME QpayToken!QpayAssumption, TokenQpayInv, NEW c \in Calls, QpayToken!Give(c) PROVE TokenQpayInv'
<1> USE TokenTimes
<1>0. given' = Append(given, now) /\ given \in Seq(Nat) /\ now \in Nat
  BY DEF QpayToken!Give, TokenQpayInv, TokenShape
<1>1. /\ now \in Nat /\ call[c].pc = "ask"
      /\ call' = [call EXCEPT ![c] = [pc |-> "answer", token |-> QpayToken!Tokens + 1, since |-> call[c].since]]
      /\ UNCHANGED <<now, token, tokenExpiresAt, withdrawn, withdrawnAt, refused>>
  BY DEF QpayToken!Give, TokenQpayInv, TokenShape
<1>2. /\ QpayToken!Tokens \in Nat /\ QpayToken!Tokens' = QpayToken!Tokens + 1 /\ given' \in Seq(Nat)
      /\ \A k \in 1..QpayToken!Tokens : given'[k] = given[k]
      /\ given'[QpayToken!Tokens + 1] = now
  BY <1>0 DEF QpayToken!Tokens
<1>3. /\ token \in 0..QpayToken!Tokens /\ tokenExpiresAt \in Nat /\ withdrawn \in 0..QpayToken!Tokens
      /\ withdrawnAt \in Nat /\ withdrawnAt <= now /\ refused \in Int /\ refused <= now
      /\ \A k \in 1..QpayToken!Tokens : given[k] <= now
      /\ call \in [Calls -> [pc : {"idle", "ask", "answer", "use"}, token : 0..QpayToken!Tokens, since : Nat]]
  BY DEF TokenQpayInv, TokenShape
<1>4. /\ call[c].since \in Nat /\ call[c].since <= now /\ now <= call[c].since + Timeout
      /\ call'[c] = [pc |-> "answer", token |-> QpayToken!Tokens + 1, since |-> call[c].since]
      /\ \A o \in Calls \ {c} : call'[o] = call[o]
  BY <1>1, <1>3 DEF TokenQpayInv, TokenInTime
<1>5. TokenShape'
  <2>1. \A k \in 1..QpayToken!Tokens + 1 : given'[k] <= now
    <3>1. SUFFICES ASSUME NEW k \in 1..QpayToken!Tokens + 1 PROVE given'[k] <= now
      OBVIOUS
    <3>2. CASE k = QpayToken!Tokens + 1
      BY <1>1, <1>2, <3>2
    <3>3. CASE k # QpayToken!Tokens + 1
      <4>1. k \in 1..QpayToken!Tokens
        BY <1>2, <3>3
      <4>2. given'[k] = given[k] /\ given[k] <= now
        BY <1>2, <1>3, <4>1
      <4>3. QED
        BY <4>2
    <3>4. QED
      BY <3>2, <3>3
  <2>2. call' \in [Calls -> [pc : {"idle", "ask", "answer", "use"}, token : 0..QpayToken!Tokens + 1, since : Nat]]
    BY <1>1, <1>2, <1>3, <1>4
  <2>3. QED
    BY <1>1, <1>2, <1>3, <2>1, <2>2 DEF TokenShape
<1>6. TokenKeptInTime'
  BY <1>1, <1>2, <1>3 DEF TokenQpayInv, TokenKeptInTime
<1>7. TokenWithdrawnLater'
  <2>1. ASSUME NEW k \in 1..withdrawn PROVE given'[k] <= withdrawnAt
    <3>1. k \in 1..QpayToken!Tokens
      BY <1>2, <1>3, <2>1
    <3>2. given[k] <= withdrawnAt
      BY <2>1 DEF TokenQpayInv, TokenWithdrawnLater
    <3>3. QED
      BY <1>2, <3>1, <3>2
  <2>2. QED
    BY <1>1, <2>1 DEF TokenWithdrawnLater
<1>8. QpayToken!SentTokensAreTaken' /\ QpayToken!RefusalsEnd'
  BY <1>1 DEF TokenQpayInv, QpayToken!SentTokensAreTaken, QpayToken!RefusalsEnd
<1>9. ASSUME NEW o \in Calls PROVE TokenInTime(o)'
  <2>1. CASE o = c
    BY <1>1, <1>2, <1>4, <2>1 DEF TokenInTime
  <2>2. CASE o # c
    <3>1. call'[o] = call[o] /\ TokenInTime(o)
      BY <1>4, <2>2 DEF TokenQpayInv
    <3>2. call[o].token \in 1..QpayToken!Tokens => given'[call[o].token] = given[call[o].token]
      BY <1>2
    <3>3. QED
      BY <1>1, <1>2, <3>1, <3>2 DEF TokenInTime
  <2>3. QED
    BY <2>1, <2>2
<1>10. QED
  BY <1>5, <1>6, <1>7, <1>8, <1>9 DEF TokenQpayInv

LEMMA TokenTakeStep ==
    ASSUME QpayToken!QpayAssumption, TokenQpayInv, NEW c \in Calls, QpayToken!Take(c) PROVE TokenQpayInv'
<1> USE TokenTimes DEF QpayToken!Tokens
<1>1. /\ call[c].pc = "answer" /\ token' = call[c].token /\ tokenExpiresAt' = now + Cache
      /\ call' = [call EXCEPT ![c] = [pc |-> "use", token |-> call[c].token, since |-> 0]]
      /\ UNCHANGED <<now, given, withdrawn, withdrawnAt, refused>>
  BY DEF QpayToken!Take, QpayToken!Keep, QpayToken!Expiry
<1>2. PICK k \in 1..QpayToken!Tokens : /\ k = call[c].token /\ given[k] \in Nat
                                       /\ now <= given[k] + Timeout
  <2>1. /\ call[c].token \in 1..QpayToken!Tokens /\ call[c].since \in Nat
        /\ call[c].since <= given[call[c].token] /\ now <= call[c].since + Timeout
    BY <1>1 DEF TokenQpayInv, TokenShape, TokenInTime
  <2>2. given[call[c].token] \in Nat
    BY <2>1, TokenGivenAt DEF TokenQpayInv
  <2>3. QED
    BY <2>1, <2>2 DEF TokenQpayInv, TokenShape
<1>a. /\ call \in [Calls -> [pc : {"idle", "ask", "answer", "use"}, token : 0..QpayToken!Tokens, since : Nat]]
      /\ now \in Nat
  BY DEF TokenQpayInv, TokenShape
<1>b. /\ call'[c] = [pc |-> "use", token |-> k, since |-> 0]
      /\ \A o \in Calls \ {c} : call'[o] = call[o]
      /\ call' \in [Calls -> [pc : {"idle", "ask", "answer", "use"}, token : 0..QpayToken!Tokens, since : Nat]]
  BY <1>1, <1>2, <1>a
<1>3. TokenShape'
  <2>1. /\ token' \in 0..QpayToken!Tokens /\ tokenExpiresAt' \in Nat
        /\ UNCHANGED <<now, given, withdrawn, withdrawnAt, refused>>
    BY <1>1, <1>2, <1>a
  <2>2. TokenShape
    BY DEF TokenQpayInv
  <2>3. QED
    BY <1>b, <2>1, <2>2 DEF TokenShape
<1>4. TokenKeptInTime'
  <2>1. token' = k /\ tokenExpiresAt' <= given[k] + Timeout + Cache
    BY <1>1, <1>2, <1>a
  <2>2. QED
    BY <1>1, <2>1 DEF TokenKeptInTime
<1>c. TokenWithdrawnLater' /\ QpayToken!SentTokensAreTaken' /\ QpayToken!RefusalsEnd'
  BY <1>1 DEF TokenQpayInv, TokenWithdrawnLater, QpayToken!SentTokensAreTaken, QpayToken!RefusalsEnd
<1>5. ASSUME NEW o \in Calls PROVE TokenInTime(o)'
  <2>1. CASE o = c
    BY <1>1, <1>2, <1>a, <1>b, <2>1 DEF TokenInTime
  <2>2. CASE o # c
    BY <1>1, <1>b, <2>2 DEF TokenQpayInv, TokenInTime
  <2>3. QED
    BY <2>1, <2>2
<1>6. QED
  BY <1>3, <1>4, <1>5, <1>c DEF TokenQpayInv

(* The step the two properties are about: what can be refused was          *)
(* withdrawn, and it was not tried longer than it may be kept.             *)
LEMMA TokenUseStep ==
    ASSUME QpayToken!QpayAssumption, TokenQpayInv, NEW c \in Calls, QpayToken!Use(c) PROVE TokenQpayInv'
<1> USE TokenTimes DEF QpayToken!Tokens
<1>1. /\ call[c].pc = "use" /\ call' = [call EXCEPT ![c] = QpayToken!Free]
      /\ refused' = (IF QpayToken!Taken(call[c].token) THEN refused ELSE now)
      /\ UNCHANGED <<now, token, tokenExpiresAt, given, withdrawn, withdrawnAt>>
  BY DEF QpayToken!Use
<1>2. PICK k \in 1..QpayToken!Tokens : /\ k = call[c].token /\ given[k] \in Nat
                                       /\ now <= given[k] + Timeout + Cache
  <2>1. call[c].token \in 1..QpayToken!Tokens /\ now <= given[call[c].token] + Timeout + Cache
    BY <1>1 DEF TokenQpayInv, TokenInTime
  <2>2. given[call[c].token] \in Nat
    BY <2>1, TokenGivenAt DEF TokenQpayInv
  <2>3. QED
    BY <2>1, <2>2
<1>3. now \in Nat /\ withdrawn \in 0..QpayToken!Tokens /\ withdrawnAt \in Nat /\ refused \in Int
      /\ refused <= now /\ Timeout \in Nat /\ Cache \in Nat /\ Life \in Nat
      /\ Cache + Timeout <= Life
  BY DEF TokenQpayInv, TokenShape
<1>4. refused' = refused \/ (refused' = now /\ k <= withdrawn)
  BY <1>1, <1>2, <1>3 DEF QpayToken!Taken
<1>5. TokenShape'
  BY <1>1, <1>3, <1>4 DEF TokenQpayInv, TokenShape, QpayToken!Free
<1>6. TokenKeptInTime' /\ TokenWithdrawnLater'
  BY <1>1 DEF TokenQpayInv, TokenKeptInTime, TokenWithdrawnLater
<1>7. QpayToken!SentTokensAreTaken'
  BY <1>1, <1>2, <1>3, <1>4 DEF TokenQpayInv, QpayToken!SentTokensAreTaken
<1>8. QpayToken!RefusalsEnd'
  <2>1. k <= withdrawn => given[k] <= withdrawnAt
    BY <1>2, <1>3 DEF TokenQpayInv, TokenWithdrawnLater
  <2>2. QED
    BY <1>1, <1>2, <1>3, <1>4, <2>1 DEF TokenQpayInv, QpayToken!RefusalsEnd
<1>9. ASSUME NEW o \in Calls PROVE TokenInTime(o)'
  BY <1>1 DEF TokenQpayInv, TokenShape, TokenInTime, QpayToken!Free
<1>10. QED
  BY <1>5, <1>6, <1>7, <1>8, <1>9 DEF TokenQpayInv

LEMMA TokenFailStep ==
    ASSUME QpayToken!QpayAssumption, TokenQpayInv, NEW c \in Calls, QpayToken!Fail(c) PROVE TokenQpayInv'
<1>1. /\ call' = [call EXCEPT ![c] = QpayToken!Free]
      /\ UNCHANGED <<now, token, tokenExpiresAt, given, withdrawn, withdrawnAt, refused>>
  BY DEF QpayToken!Fail
<1>2. TokenShape' /\ TokenKeptInTime' /\ TokenWithdrawnLater' /\ QpayToken!SentTokensAreTaken' /\ QpayToken!RefusalsEnd'
  BY <1>1 DEF TokenQpayInv, TokenShape, QpayToken!Free, QpayToken!Tokens, TokenKeptInTime, TokenWithdrawnLater,
       QpayToken!SentTokensAreTaken, QpayToken!RefusalsEnd
<1>3. ASSUME NEW o \in Calls PROVE TokenInTime(o)'
  BY <1>1 DEF TokenQpayInv, TokenShape, QpayToken!Free, QpayToken!Tokens, TokenInTime
<1>4. QED
  BY <1>2, <1>3 DEF TokenQpayInv

LEMMA TokenWithdrawStep == ASSUME QpayToken!QpayAssumption, TokenQpayInv, QpayToken!Withdraw PROVE TokenQpayInv'
<1> USE TokenTimes DEF QpayToken!Tokens
<1>1. /\ withdrawn < QpayToken!Tokens /\ withdrawn' = QpayToken!Tokens /\ withdrawnAt' = now
      /\ UNCHANGED <<now, token, tokenExpiresAt, given, call, refused>>
  BY DEF QpayToken!Withdraw
<1>2. TokenShape'
  BY <1>1 DEF TokenQpayInv, TokenShape
<1>3. TokenKeptInTime'
  BY <1>1 DEF TokenQpayInv, TokenKeptInTime
<1>4. TokenWithdrawnLater' /\ QpayToken!SentTokensAreTaken' /\ QpayToken!RefusalsEnd'
  BY <1>1 DEF TokenQpayInv, TokenShape, TokenWithdrawnLater, QpayToken!SentTokensAreTaken, QpayToken!RefusalsEnd
<1>5. ASSUME NEW o \in Calls PROVE TokenInTime(o)'
  BY <1>1 DEF TokenQpayInv, TokenInTime
<1>6. QED
  BY <1>2, <1>3, <1>4, <1>5 DEF TokenQpayInv

LEMMA TokenTickStep == ASSUME QpayToken!QpayAssumption, TokenQpayInv, QpayToken!Tick PROVE TokenQpayInv'
<1> USE TokenTimes DEF QpayToken!Tokens
<1>1. /\ now' = now + 1 /\ now \in Nat
      /\ \A c \in Calls : /\ call[c].pc # "use"
                          /\ call[c].pc \in {"ask", "answer"} => now < call[c].since + Timeout
      /\ UNCHANGED <<token, tokenExpiresAt, given, withdrawn, withdrawnAt, call, refused>>
  BY DEF QpayToken!Tick, TokenQpayInv, TokenShape
<1>2. TokenShape'
  BY <1>1 DEF TokenQpayInv, TokenShape
<1>3. TokenKeptInTime' /\ TokenWithdrawnLater' /\ QpayToken!SentTokensAreTaken' /\ QpayToken!RefusalsEnd'
  BY <1>1 DEF TokenQpayInv, TokenKeptInTime, TokenWithdrawnLater, QpayToken!SentTokensAreTaken, QpayToken!RefusalsEnd
<1>4. ASSUME NEW o \in Calls PROVE TokenInTime(o)'
  BY <1>1 DEF TokenQpayInv, TokenShape, TokenInTime
<1>5. QED
  BY <1>2, <1>3, <1>4 DEF TokenQpayInv

LEMMA TokenQpayStep ==
    ASSUME QpayToken!QpayAssumption
    PROVE  TokenQpayInv /\ [QpayToken!Next]_(QpayToken!vars) => TokenQpayInv'
<1> SUFFICES ASSUME TokenQpayInv, [QpayToken!Next]_(QpayToken!vars) PROVE TokenQpayInv'
  OBVIOUS
<1>1. CASE UNCHANGED QpayToken!vars
  BY <1>1 DEF QpayToken!vars, TokenQpayInv, TokenShape, QpayToken!Tokens, TokenKeptInTime, TokenWithdrawnLater,
       TokenInTime, QpayToken!SentTokensAreTaken, QpayToken!RefusalsEnd
<1>2. CASE QpayToken!Next
  BY <1>2, TokenLoginStep, TokenGiveStep, TokenTakeStep, TokenUseStep, TokenFailStep, TokenWithdrawStep, TokenTickStep
     DEF QpayToken!Next
<1>3. QED
  BY <1>1, <1>2

LEMMA TokenQpayAlways == ASSUME QpayToken!QpayAssumption PROVE QpayToken!Spec => []TokenQpayInv
<1>1. QpayToken!Init => TokenQpayInv
  BY TokenQpayInit
<1>2. TokenQpayInv /\ [QpayToken!Next]_(QpayToken!vars) => TokenQpayInv'
  BY TokenQpayStep
<1>3. QED
  BY <1>1, <1>2, PTL DEF QpayToken!Spec

(* How far the clock, the tokens and the times of the service get.         *)
TokenBounded ==
    /\ now <= MaxTime /\ QpayToken!Tokens <= MaxTokens /\ tokenExpiresAt <= MaxTime + Cache
    /\ -1 <= refused /\ \A c \in Calls : call[c].since <= now

LEMMA TokenBoundedStep ==
    ASSUME QpayToken!QpayAssumption, TokenQpayInv, TokenBounded, [QpayToken!Next]_(QpayToken!vars) PROVE TokenBounded'
<1> USE TokenTimes
<1>a. MaxTime \in Nat /\ MaxTokens \in Nat
  BY DEF QpayToken!QpayAssumption
<1>b. /\ now \in Nat /\ tokenExpiresAt \in Nat /\ refused \in Int /\ given \in Seq(Nat)
      /\ call \in [Calls -> [pc : {"idle", "ask", "answer", "use"}, token : 0..QpayToken!Tokens, since : Nat]]
  BY DEF TokenQpayInv, TokenShape
<1>c. QpayToken!Tokens \in Nat
  BY <1>b DEF QpayToken!Tokens
<1>1. CASE UNCHANGED QpayToken!vars
  BY <1>1 DEF QpayToken!vars, TokenBounded, QpayToken!Tokens
<1>2. ASSUME NEW c \in Calls, QpayToken!Login(c) PROVE TokenBounded'
  <2>1. /\ UNCHANGED <<now, tokenExpiresAt, given, refused>>
        /\ \/ call' = [call EXCEPT ![c] = [pc |-> "use", token |-> token, since |-> 0]]
           \/ call' = [call EXCEPT ![c] = [pc |-> "ask", token |-> 0, since |-> now]]
    BY <1>2 DEF QpayToken!Login
  <2>2. \A o \in Calls : call'[o].since <= now
    BY <1>b, <2>1 DEF TokenBounded
  <2>3. QED
    BY <2>1, <2>2 DEF TokenBounded, QpayToken!Tokens
<1>3. ASSUME NEW c \in Calls, QpayToken!Give(c) PROVE TokenBounded'
  <2>1. /\ UNCHANGED <<now, tokenExpiresAt, refused>> /\ QpayToken!Tokens < MaxTokens /\ given' = Append(given, now)
        /\ call' = [call EXCEPT ![c] = [pc |-> "answer", token |-> QpayToken!Tokens + 1, since |-> call[c].since]]
    BY <1>3 DEF QpayToken!Give
  <2>2. \A o \in Calls : call'[o].since <= now
    BY <1>b, <2>1 DEF TokenBounded
  <2>3. QpayToken!Tokens' = QpayToken!Tokens + 1
    BY <1>b, <2>1 DEF QpayToken!Tokens
  <2>4. QED
    BY <1>a, <1>c, <2>1, <2>2, <2>3 DEF TokenBounded
<1>4. ASSUME NEW c \in Calls, QpayToken!Take(c) PROVE TokenBounded'
  <2>1. /\ UNCHANGED <<now, given, refused>> /\ tokenExpiresAt' = now + Cache
        /\ call' = [call EXCEPT ![c] = [pc |-> "use", token |-> call[c].token, since |-> 0]]
    BY <1>4 DEF QpayToken!Take, QpayToken!Keep, QpayToken!Expiry
  <2>2. \A o \in Calls : call'[o].since <= now
    BY <1>b, <2>1 DEF TokenBounded
  <2>3. QED
    BY <1>a, <1>b, <2>1, <2>2 DEF TokenBounded, QpayToken!Tokens
<1>5. ASSUME NEW c \in Calls, QpayToken!Use(c) \/ QpayToken!Fail(c) PROVE TokenBounded'
  <2>1. /\ UNCHANGED <<now, given, tokenExpiresAt>> /\ call' = [call EXCEPT ![c] = QpayToken!Free]
        /\ refused' = refused \/ refused' = now
    BY <1>5 DEF QpayToken!Use, QpayToken!Fail
  <2>2. \A o \in Calls : call'[o].since <= now
    BY <1>b, <2>1 DEF TokenBounded, QpayToken!Free
  <2>3. QED
    BY <1>b, <2>1, <2>2 DEF TokenBounded, QpayToken!Tokens
<1>6. CASE QpayToken!Withdraw
  BY <1>6 DEF QpayToken!Withdraw, TokenBounded, QpayToken!Tokens
<1>7. CASE QpayToken!Tick
  <2>1. /\ now < MaxTime /\ now' = now + 1
        /\ UNCHANGED <<given, tokenExpiresAt, refused, call>>
    BY <1>7 DEF QpayToken!Tick
  <2>2. QED
    BY <1>a, <1>b, <2>1 DEF TokenBounded, QpayToken!Tokens
<1>8. QED
  BY <1>1, <1>2, <1>3, <1>4, <1>5, <1>6, <1>7 DEF QpayToken!Next

(* What the tokens, the times and the requests are, and that a token is    *)
(* kept from no later than one answer's time after QPay gave it.           *)
LEMMA TokenTypeCorrect == ASSUME QpayToken!QpayAssumption PROVE QpayToken!Spec => []QpayToken!TypeOK
<1>1. QpayToken!Init => TokenBounded
  BY DEF QpayToken!Init, TokenBounded, QpayToken!Tokens, QpayToken!Free, QpayToken!QpayAssumption
<1>2. TokenQpayInv /\ TokenBounded /\ [QpayToken!Next]_(QpayToken!vars) => TokenBounded'
  BY TokenBoundedStep
<1>3. TokenQpayInv /\ TokenBounded => QpayToken!TypeOK
  <2> SUFFICES ASSUME TokenQpayInv, TokenBounded PROVE QpayToken!TypeOK
    OBVIOUS
  <2> USE TokenTimes
  <2>0. MaxTime \in Nat /\ MaxTokens \in Nat
    BY DEF QpayToken!QpayAssumption
  <2>1. given \in Seq(0..now)
    <3>1. given \in Seq(Nat) /\ now \in Nat /\ \A k \in 1..Len(given) : given[k] <= now
      BY DEF TokenQpayInv, TokenShape, QpayToken!Tokens
    <3>2. \A k \in 1..Len(given) : given[k] \in 0..now
      BY <3>1
    <3>3. QED
      BY <3>1, <3>2
  <2>2. call \in [Calls -> [pc : {"idle", "ask", "answer", "use"}, token : 0..QpayToken!Tokens, since : 0..now]]
    <3>1. /\ call \in [Calls -> [pc : {"idle", "ask", "answer", "use"}, token : 0..QpayToken!Tokens, since : Nat]]
          /\ now \in Nat /\ \A c \in Calls : call[c].since <= now
      BY DEF TokenQpayInv, TokenShape, TokenBounded
    <3>2. \A c \in Calls :
             call[c] \in [pc : {"idle", "ask", "answer", "use"}, token : 0..QpayToken!Tokens, since : 0..now]
      <4> SUFFICES ASSUME NEW c \in Calls
                   PROVE  call[c] \in [pc : {"idle", "ask", "answer", "use"}, token : 0..QpayToken!Tokens,
                                       since : 0..now]
        OBVIOUS
      <4>1. call[c] \in [pc : {"idle", "ask", "answer", "use"}, token : 0..QpayToken!Tokens, since : Nat]
        BY <3>1
      <4>2. call[c].since \in 0..now
        BY <3>1, <4>1
      <4>3. QED
        BY <4>1, <4>2
    <3>3. QED
      BY <3>1, <3>2
  <2>3. /\ now \in 0..MaxTime /\ QpayToken!Tokens <= MaxTokens /\ tokenExpiresAt \in 0..(MaxTime + Cache)
        /\ refused \in -1..now
    BY <2>0 DEF TokenQpayInv, TokenShape, TokenBounded
  <2>4. token \in 0..QpayToken!Tokens /\ withdrawn \in 0..QpayToken!Tokens /\ withdrawnAt \in 0..now
    BY DEF TokenQpayInv, TokenShape
  <2>5. QED
    BY <2>1, <2>2, <2>3, <2>4 DEF TokenQpayInv, TokenKeptInTime, QpayToken!TypeOK
<1>4. QED
  BY <1>1, <1>2, <1>3, TokenQpayAlways, PTL DEF QpayToken!Spec

(* While QPay withdraws nothing, no request is sent with a token that has  *)
(* run out, whatever logins overtake each other.                           *)
LEMMA TokenNothingIsRefused == ASSUME QpayToken!QpayAssumption PROVE QpayToken!Spec => []QpayToken!SentTokensAreTaken
<1>1. TokenQpayInv => QpayToken!SentTokensAreTaken
  BY DEF TokenQpayInv
<1>2. QED
  BY <1>1, TokenQpayAlways, PTL

(* After a withdrawal requests are refused no longer than one answer's     *)
(* time and the time a token is kept.                                      *)
LEMMA TokenRefusalsPass == ASSUME QpayToken!QpayAssumption PROVE QpayToken!Spec => []QpayToken!RefusalsEnd
<1>1. TokenQpayInv => QpayToken!RefusalsEnd
  BY DEF TokenQpayInv
<1>2. QED
  BY <1>1, TokenQpayAlways, PTL
-----------------------------------------------------------------------------
(***************************************************************************)
(* The files of a contract: ContractFiles.                                 *)
(***************************************************************************)
(* TypeOK alone is not inductive: the row takes its QR code from a request *)
(* under way, and only such a request has a number.                        *)
PdfNumbered == \A c \in Slots : ~ContractFiles!At(c, "idle") => sign[c].id # 0

PdfTyped == ContractFiles!TypeOK /\ PdfNumbered

LEMMA PdfTypedInit == ASSUME ContractFiles!ContractAssumption PROVE ContractFiles!Init => PdfTyped
<1> SUFFICES ASSUME ContractFiles!Init PROVE PdfTyped
  OBVIOUS
<1>1. signed \in [status : {"PENDING", "CONTRACT_SIGNED"}, qr : 0..attempts]
      /\ (signed.status = "PENDING" <=> signed.qr = 0)
  BY DEF ContractFiles!Init
<1>2. pdf \in [front : 0..attempts, end : 0..attempts] /\ qr \in 0..attempts
  BY DEF ContractFiles!Init, ContractFiles!Nobody
<1>3. /\ sign \in [Slots -> [pc : {"idle", "open", "front", "end", "qr", "update"}, id : 0..attempts]]
      /\ \A c \in Slots : sign[c].pc = "idle"
  BY DEF ContractFiles!Init, ContractFiles!Free
<1>4. attempts \in 0..MaxAttempts
  BY DEF ContractFiles!Init, ContractFiles!ContractAssumption
<1>5. overlapped \in BOOLEAN /\ image \in BOOLEAN
  BY Zenon DEF ContractFiles!Init
<1>6. QED
  BY <1>1, <1>2, <1>3, <1>4, <1>5 DEF PdfTyped, ContractFiles!TypeOK, PdfNumbered, ContractFiles!At

LEMMA PdfTypedStep ==
    ASSUME ContractFiles!ContractAssumption
    PROVE  PdfTyped /\ [ContractFiles!Next]_(ContractFiles!vars) => PdfTyped'
<1> SUFFICES ASSUME PdfTyped, [ContractFiles!Next]_(ContractFiles!vars) PROVE PdfTyped'
  OBVIOUS
<1> USE DEF ContractFiles!ContractAssumption, PdfTyped, ContractFiles!TypeOK, PdfNumbered, ContractFiles!At,
    ContractFiles!Goes, ContractFiles!Ends, ContractFiles!Free, ContractFiles!Nobody
<1>1. ASSUME NEW c \in Slots, ContractFiles!SignContract(c) PROVE PdfTyped'
  <2>1. CASE ContractFiles!Signable
    BY <1>1, <2>1 DEF ContractFiles!SignContract
  <2>2. CASE ~ContractFiles!Signable
    BY <1>1, <2>2 DEF ContractFiles!SignContract
  <2>3. QED
    BY <2>1, <2>2
<1>2. ASSUME NEW c \in Slots, ContractFiles!Open(c) PROVE PdfTyped'
  BY <1>2 DEF ContractFiles!Open
<1>3. ASSUME NEW c \in Slots, ContractFiles!WriteFront(c) PROVE PdfTyped'
  BY <1>3 DEF ContractFiles!WriteFront
<1>4. ASSUME NEW c \in Slots, ContractFiles!WriteEnd(c) PROVE PdfTyped'
  BY <1>4 DEF ContractFiles!WriteEnd, ContractFiles!AfterPdf
<1>5. ASSUME NEW c \in Slots, ContractFiles!AddQrCode(c) PROVE PdfTyped'
  BY <1>5 DEF ContractFiles!AddQrCode
<1>6. ASSUME NEW c \in Slots, ContractFiles!Update(c) PROVE PdfTyped'
  BY <1>6 DEF ContractFiles!Update, ContractFiles!Signed
<1>7. ASSUME NEW c \in Slots, ContractFiles!Fail(c) PROVE PdfTyped'
  BY <1>7 DEF ContractFiles!Fail
<1>8. CASE ContractFiles!Restart
  BY <1>8 DEF ContractFiles!Restart
<1>9. CASE ContractFiles!ImageComes
  BY <1>9 DEF ContractFiles!ImageComes
<1>10. CASE UNCHANGED ContractFiles!vars
  BY <1>10 DEF ContractFiles!vars
<1>11. QED
  BY <1>1, <1>2, <1>3, <1>4, <1>5, <1>6, <1>7, <1>8, <1>9, <1>10 DEF ContractFiles!Next

(* The row, the files and the requests keep their types, and a row is      *)
(* signed exactly when it holds the QR code of some request.               *)
LEMMA PdfTypeCorrect == ASSUME ContractFiles!ContractAssumption PROVE ContractFiles!Spec => []ContractFiles!TypeOK
<1>1. ContractFiles!Init => PdfTyped
  BY PdfTypedInit
<1>2. PdfTyped /\ [ContractFiles!Next]_(ContractFiles!vars) => PdfTyped'
  BY PdfTypedStep
<1>3. PdfTyped => ContractFiles!TypeOK
  BY DEF PdfTyped
<1>4. QED
  BY <1>1, <1>2, <1>3, PTL DEF ContractFiles!Spec

-----------------------------------------------------------------------------
(* Whatever overlaps: a request that is about to update the row has        *)
(* written an image, and no image is ever taken away.                      *)
PdfQrInv ==
    /\ PdfTyped
    /\ ContractFiles!SignedHasAQr
    /\ \A c \in Slots : ContractFiles!At(c, "update") => qr # 0

(* Nothing is under way at first.                                          *)
LEMMA PdfRestInit ==
    ContractFiles!Init => /\ signed.status = "PENDING"
                          /\ overlapped = FALSE
                          /\ \A c \in Slots : sign[c].pc = "idle"
BY DEF ContractFiles!Init, ContractFiles!Free

LEMMA PdfQrStep ==
    ASSUME ContractFiles!ContractAssumption
    PROVE  PdfQrInv /\ [ContractFiles!Next]_(ContractFiles!vars) => PdfQrInv'
<1> DEFINE Goal == ContractFiles!SignedHasAQr' /\ \A o \in Slots : ContractFiles!At(o, "update")' => qr' # 0
<1> SUFFICES ASSUME PdfQrInv, [ContractFiles!Next]_(ContractFiles!vars) PROVE Goal
  BY PdfTypedStep DEF PdfQrInv
<1> USE DEF PdfQrInv, PdfTyped, ContractFiles!TypeOK, PdfNumbered, ContractFiles!SignedHasAQr, ContractFiles!At,
    ContractFiles!Goes, ContractFiles!Ends, ContractFiles!Free
<1>1. ASSUME NEW c \in Slots, ContractFiles!SignContract(c) PROVE Goal
  BY <1>1 DEF ContractFiles!SignContract
<1>2. ASSUME NEW c \in Slots, ContractFiles!Open(c) PROVE Goal
  BY <1>2 DEF ContractFiles!Open
<1>3. ASSUME NEW c \in Slots, ContractFiles!WriteFront(c) PROVE Goal
  BY <1>3 DEF ContractFiles!WriteFront
<1>4. ASSUME NEW c \in Slots, ContractFiles!WriteEnd(c) PROVE Goal
  BY <1>4 DEF ContractFiles!WriteEnd, ContractFiles!AfterPdf
<1>5. ASSUME NEW c \in Slots, ContractFiles!AddQrCode(c) PROVE Goal
  BY <1>5 DEF ContractFiles!AddQrCode
<1>6. ASSUME NEW c \in Slots, ContractFiles!Update(c) PROVE Goal
  BY <1>6 DEF ContractFiles!Update, ContractFiles!Signed
<1>7. ASSUME NEW c \in Slots, ContractFiles!Fail(c) PROVE Goal
  BY <1>7 DEF ContractFiles!Fail
<1>8. CASE ContractFiles!Restart
  BY <1>8 DEF ContractFiles!Restart
<1>9. CASE ContractFiles!ImageComes
  BY <1>9 DEF ContractFiles!ImageComes
<1>10. CASE UNCHANGED ContractFiles!vars
  BY <1>10 DEF ContractFiles!vars
<1>11. QED
  BY <1>1, <1>2, <1>3, <1>4, <1>5, <1>6, <1>7, <1>8, <1>9, <1>10 DEF ContractFiles!Next

(* A purchase is not signed before a QR image of its contract was written, *)
(* also by requests that overlap and fail.                                 *)
LEMMA PdfQrComesFirst ==
    ASSUME ContractFiles!ContractAssumption
    PROVE  ContractFiles!Spec => []ContractFiles!SignedHasAQr
<1>1. ContractFiles!Init => PdfQrInv
  BY PdfTypedInit, PdfRestInit DEF PdfQrInv, ContractFiles!SignedHasAQr, ContractFiles!At
<1>2. PdfQrInv /\ [ContractFiles!Next]_(ContractFiles!vars) => PdfQrInv'
  BY PdfQrStep
<1>3. PdfQrInv => ContractFiles!SignedHasAQr
  BY DEF PdfQrInv
<1>4. QED
  BY <1>1, <1>2, <1>3, PTL DEF ContractFiles!Spec

-----------------------------------------------------------------------------
(* While nothing overlapped, one request at most is under way, the row is  *)
(* still unsigned then, and the files hold what that request wrote so far. *)
PdfAlone ==
    /\ \A c, o \in Slots : ~ContractFiles!At(c, "idle") /\ ~ContractFiles!At(o, "idle") => c = o
    /\ \A c \in Slots : ~ContractFiles!At(c, "idle") => signed.status = "PENDING"

PdfWritten(c) ==
    /\ ContractFiles!At(c, "end") => pdf.front = sign[c].id
    /\ ContractFiles!At(c, "qr") \/ ContractFiles!At(c, "update") => pdf.front = sign[c].id /\ pdf.end = sign[c].id
    /\ ContractFiles!At(c, "update") => qr = sign[c].id

PdfFiles == PdfAlone /\ ContractFiles!Whole /\ \A c \in Slots : PdfWritten(c)

PdfFilesInv == PdfTyped /\ (overlapped \/ PdfFiles)

LEMMA PdfFilesStep ==
    ASSUME ContractFiles!ContractAssumption
    PROVE  PdfFilesInv /\ [ContractFiles!Next]_(ContractFiles!vars) => PdfFilesInv'
<1> SUFFICES ASSUME PdfFilesInv, [ContractFiles!Next]_(ContractFiles!vars), ~overlapped'
             PROVE  PdfFiles'
  BY PdfTypedStep DEF PdfFilesInv
<1>0. ~overlapped
  BY DEF ContractFiles!Next, ContractFiles!vars, ContractFiles!SignContract, ContractFiles!Open,
       ContractFiles!WriteFront, ContractFiles!WriteEnd, ContractFiles!AddQrCode, ContractFiles!Update,
       ContractFiles!Fail, ContractFiles!Restart, ContractFiles!ImageComes, PdfFilesInv, PdfTyped, ContractFiles!TypeOK
<1>a. PdfTyped /\ PdfFiles
  BY <1>0 DEF PdfFilesInv
<1>1. ASSUME NEW c \in Slots, ContractFiles!SignContract(c) PROVE PdfFiles'
  <2>1. CASE ContractFiles!Signable
    <3>1. \A o \in Slots : ContractFiles!At(o, "idle")
      BY <1>1, <2>1 DEF ContractFiles!SignContract, PdfTyped, ContractFiles!TypeOK
    <3>2. QED
      BY <1>1, <1>a, <2>1, <3>1 DEF ContractFiles!SignContract, ContractFiles!Signable, PdfFiles, PdfTyped,
           ContractFiles!TypeOK, PdfNumbered, PdfAlone, ContractFiles!Whole, PdfWritten, ContractFiles!At,
           ContractFiles!Goes, ContractFiles!Ends, ContractFiles!Free
  <2>2. CASE ~ContractFiles!Signable
    BY <1>1, <1>a, <2>2 DEF ContractFiles!SignContract, PdfFiles, PdfTyped, ContractFiles!TypeOK, PdfNumbered, PdfAlone,
         ContractFiles!Whole, PdfWritten, ContractFiles!At, ContractFiles!Goes, ContractFiles!Ends, ContractFiles!Free
  <2>3. QED
    BY <2>1, <2>2
<1>2. ASSUME NEW c \in Slots, ContractFiles!Open(c) PROVE PdfFiles'
  BY <1>2, <1>a DEF ContractFiles!Open, ContractFiles!Nobody, PdfFiles, PdfTyped, ContractFiles!TypeOK, PdfNumbered,
       PdfAlone, ContractFiles!Whole, PdfWritten, ContractFiles!At, ContractFiles!Goes, ContractFiles!Ends,
       ContractFiles!Free
<1>3. ASSUME NEW c \in Slots, ContractFiles!WriteFront(c) PROVE PdfFiles'
  BY <1>3, <1>a DEF ContractFiles!WriteFront, PdfFiles, PdfTyped, ContractFiles!TypeOK, PdfNumbered, PdfAlone,
       ContractFiles!Whole, PdfWritten, ContractFiles!At, ContractFiles!Goes, ContractFiles!Ends, ContractFiles!Free
<1>4. ASSUME NEW c \in Slots, ContractFiles!WriteEnd(c) PROVE PdfFiles'
  BY <1>4, <1>a DEF ContractFiles!WriteEnd, ContractFiles!AfterPdf, PdfFiles, PdfTyped, ContractFiles!TypeOK,
       PdfNumbered, PdfAlone, ContractFiles!Whole, PdfWritten, ContractFiles!At, ContractFiles!Goes, ContractFiles!Ends,
       ContractFiles!Free
<1>5. ASSUME NEW c \in Slots, ContractFiles!AddQrCode(c) PROVE PdfFiles'
  BY <1>5, <1>a DEF ContractFiles!AddQrCode, PdfFiles, PdfTyped, ContractFiles!TypeOK, PdfNumbered, PdfAlone,
       ContractFiles!Whole, PdfWritten, ContractFiles!At, ContractFiles!Goes, ContractFiles!Ends, ContractFiles!Free
<1>6. ASSUME NEW c \in Slots, ContractFiles!Update(c) PROVE PdfFiles'
  BY <1>6, <1>a DEF ContractFiles!Update, ContractFiles!Signed, PdfFiles, PdfTyped, ContractFiles!TypeOK, PdfNumbered,
       PdfAlone, ContractFiles!Whole, PdfWritten, ContractFiles!At, ContractFiles!Goes, ContractFiles!Ends,
       ContractFiles!Free
<1>7. ASSUME NEW c \in Slots, ContractFiles!Fail(c) PROVE PdfFiles'
  BY <1>7, <1>a DEF ContractFiles!Fail, PdfFiles, PdfTyped, ContractFiles!TypeOK, PdfNumbered, PdfAlone,
       ContractFiles!Whole, PdfWritten, ContractFiles!At, ContractFiles!Goes, ContractFiles!Ends, ContractFiles!Free
<1>8. CASE ContractFiles!Restart
  BY <1>8, <1>a DEF ContractFiles!Restart, PdfFiles, PdfTyped, ContractFiles!TypeOK, PdfNumbered, PdfAlone,
       ContractFiles!Whole, PdfWritten, ContractFiles!At, ContractFiles!Goes, ContractFiles!Ends, ContractFiles!Free
<1>9. CASE ContractFiles!ImageComes
  BY <1>9, <1>a DEF ContractFiles!ImageComes, PdfFiles, PdfTyped, ContractFiles!TypeOK, PdfNumbered, PdfAlone,
       ContractFiles!Whole, PdfWritten, ContractFiles!At, ContractFiles!Goes, ContractFiles!Ends, ContractFiles!Free
<1>10. CASE UNCHANGED ContractFiles!vars
  BY <1>10, <1>a DEF ContractFiles!vars, PdfFiles, PdfTyped, ContractFiles!TypeOK, PdfNumbered, PdfAlone,
       ContractFiles!Whole, PdfWritten, ContractFiles!At, ContractFiles!Goes, ContractFiles!Ends, ContractFiles!Free
<1>11. QED
  BY <1>1, <1>2, <1>3, <1>4, <1>5, <1>6, <1>7, <1>8, <1>9, <1>10 DEF ContractFiles!Next

(* A signed purchase has the two files of the request that signed it,      *)
(* after any number of failed and repeated requests, unless two of them    *)
(* were past the check at once.                                            *)
LEMMA PdfFilesAreOfOneRequest ==
    ASSUME ContractFiles!ContractAssumption
    PROVE  ContractFiles!Spec => []ContractFiles!SignedHasItsFiles
<1>1. ContractFiles!Init => PdfFilesInv
  BY PdfTypedInit, PdfRestInit DEF PdfFilesInv, PdfFiles, PdfAlone, ContractFiles!Whole, PdfWritten, ContractFiles!At
<1>2. PdfFilesInv /\ [ContractFiles!Next]_(ContractFiles!vars) => PdfFilesInv'
  BY PdfFilesStep
<1>3. PdfFilesInv => ContractFiles!SignedHasItsFiles
  BY DEF PdfFilesInv, PdfFiles, ContractFiles!SignedHasItsFiles
<1>4. QED
  BY <1>1, <1>2, <1>3, PTL DEF ContractFiles!Spec
-----------------------------------------------------------------------------
(***************************************************************************)
(* The parts together.  The purchases page's table, cards and drawer share *)
(* the rows, so what is shown of each of them holds while it is the part   *)
(* that is followed; a step of another part leaves those of the rest where *)
(* they are.                                                               *)
(***************************************************************************)

LEMMA TableAlways == Spec =>
  [](part = "list" => PurchaseList!TypeOK /\ PurchaseList!TableIsItsPage /\ PurchaseList!NeverPastTheEnd)
<1> DEFINE Inv == part = "list" => TableListInv
<1>1. Init => Inv
  BY OrdersAssumption, TableListInvInit DEF Init
<1>2. Inv /\ [Next]_vars => Inv'
  <2> SUFFICES ASSUME Inv, [Next]_vars, part' = "list" PROVE TableListInv'
    OBVIOUS
  <2>1. part = "list" /\ TableListInv
    BY DEF Next, vars
  <2>2. [PurchaseList!Next]_(PurchaseList!vars)
    BY <2>1 DEF Next, OfPurchases, vars, purchases, listing, PurchaseList!vars, PurchaseList!ui
  <2>3. QED
    BY <2>1, <2>2, OrdersAssumption, TableListInvStep
<1>3. Inv => (part = "list" => PurchaseList!TypeOK /\ PurchaseList!TableIsItsPage /\ PurchaseList!NeverPastTheEnd)
  BY OrdersAssumption, TableListInvImplies
<1>4. QED
  BY <1>1, <1>2, <1>3, PTL DEF Spec

LEMMA CardsAlways == Spec =>
  [](part = "stats" => PurchaseStats!TypeOK /\ PurchaseStats!CardsCountRows /\ PurchaseStats!BatchesMissNone)
<1> DEFINE Inv == part = "stats" => CardsStatsInv
<1>1. Init => Inv
  BY OrdersAssumption, CardsStatsInvInit DEF Init
<1>2. Inv /\ [Next]_vars => Inv'
  <2> SUFFICES ASSUME Inv, [Next]_vars, part' = "stats" PROVE CardsStatsInv'
    OBVIOUS
  <2>1. part = "stats" /\ CardsStatsInv
    BY DEF Next, vars
  <2>2. [PurchaseStats!Next]_(PurchaseStats!vars)
    BY <2>1 DEF Next, OfPurchases, vars, purchases, stat, PurchaseStats!vars
  <2>3. QED
    BY <2>1, <2>2, OrdersAssumption, CardsStatsInvStep
<1>3. Inv => (part = "stats" => PurchaseStats!TypeOK /\ PurchaseStats!CardsCountRows /\ PurchaseStats!BatchesMissNone)
  BY OrdersAssumption, CardsStatsInvImplies
<1>4. QED
  BY <1>1, <1>2, <1>3, PTL DEF Spec

LEMMA OpenedAlways ==
    Spec => [](part = "drawer" => /\ PurchaseDrawer!TypeOK /\ PurchaseDrawer!DrawerShowsItsPurchase
                                  /\ PurchaseDrawer!StandsAtOneStep)
<1> DEFINE Inv == part = "drawer" => OpenedDrawerInv
<1>0. PurchaseDrawer!RowsAssumption
  BY OrdersAssumption DEF PurchaseList!ListAssumption, PurchaseList!RowsAssumption, PurchaseDrawer!RowsAssumption,
     PurchaseList!Plausible, PurchaseDrawer!Plausible, PurchaseList!Row, PurchaseDrawer!Row
<1>1. Init => Inv
  BY <1>0, OpenedDrawerInvInit DEF Init
<1>2. Inv /\ [Next]_vars => Inv'
  <2> SUFFICES ASSUME Inv, [Next]_vars, part' = "drawer" PROVE OpenedDrawerInv'
    OBVIOUS
  <2>1. part = "drawer" /\ OpenedDrawerInv
    BY DEF Next, vars
  <2>2. [PurchaseDrawer!Next]_(PurchaseDrawer!vars)
    BY <2>1 DEF Next, OfPurchases, vars, purchases, detailed, PurchaseDrawer!vars
  <2>3. QED
    BY <1>0, <2>1, <2>2, OpenedDrawerInvStep
<1>3. Inv => (part = "drawer" => /\ PurchaseDrawer!TypeOK /\ PurchaseDrawer!DrawerShowsItsPurchase
                                 /\ PurchaseDrawer!StandsAtOneStep)
  BY <1>0, OpenedDrawerInvImplies
<1>4. QED
  BY <1>1, <1>2, <1>3, PTL DEF Spec

LEMMA PanelIs == Spec => SellPanel!Spec
<1>1. Init => SellPanel!Init
  BY DEF Init
<1>2. [Next]_vars => [SellPanel!Next]_(SellPanel!vars)
  BY OrdersAssumption DEF Next, vars, selling, SellPanel!vars, SellPanel!Next
<1>3. QED
  BY <1>1, <1>2, PTL DEF Spec, SellPanel!Spec

LEMMA MovesAre == Spec => SellList!Spec
<1>1. Init => SellList!Init
  BY DEF Init
<1>2. [Next]_vars => [SellList!Next]_(SellList!vars)
  BY DEF Next, vars, sells, SellList!vars
<1>3. QED
  BY <1>1, <1>2, PTL DEF Spec, SellList!Spec

LEMMA RepIs == Spec => Reports!Spec
<1>1. Init => Reports!Init
  BY DEF Init
<1>2. [Next]_vars => [Reports!Next]_(Reports!vars)
  BY DEF Next, vars, reports, Reports!vars
<1>3. QED
  BY <1>1, <1>2, PTL DEF Spec, Reports!Spec

LEMMA TokenIs == Spec => QpayToken!Spec
<1>1. Init => QpayToken!Init
  BY DEF Init
<1>2. [Next]_vars => [QpayToken!Next]_(QpayToken!vars)
  BY DEF Next, vars, tokens, QpayToken!vars
<1>3. QED
  BY <1>1, <1>2, PTL DEF Spec, QpayToken!Spec

LEMMA PdfIs == Spec => ContractFiles!Spec
<1>1. Init => ContractFiles!Init
  BY DEF Init
<1>2. [Next]_vars => [ContractFiles!Next]_(ContractFiles!vars)
  BY DEF Next, vars, contract, ContractFiles!vars
<1>3. QED
  BY <1>1, <1>2, PTL DEF Spec, ContractFiles!Spec

(* The part chosen at the start is one of the nine.                        *)
PartOK == part \in {"list", "stats", "drawer", "sell", "sell2", "sells", "reports", "token", "contract"}

LEMMA PartStays == Spec => []PartOK
<1>1. Init => PartOK
  BY DEF Init, PartOK
<1>2. PartOK /\ [Next]_vars => PartOK'
  BY DEF Next, vars, PartOK
<1>3. QED
  BY <1>1, <1>2, PTL DEF Spec

(* Rows, queries, answers, tokens and files of all parts keep their types, *)
(* for any constants that satisfy OrdersAssumption.                        *)
THEOREM TypeCorrect == Spec => []TypeOK
<1>1. Spec => [](SellPanel!TypeOK /\ SellList!TypeOK)
  BY PanelIs, MovesAre, PanelSellPanelHolds, MovesSellListHolds, OrdersAssumption, PTL
<1>2. Spec => []Reports!TypeOK
  BY RepIs, RepReportsHold, OrdersAssumption, PTL
<1>3. Spec => [](QpayToken!TypeOK /\ ContractFiles!TypeOK)
  BY TokenIs, PdfIs, TokenTypeCorrect, PdfTypeCorrect, OrdersAssumption, PTL
<1>4. /\ PartOK
      /\ part = "list" => PurchaseList!TypeOK /\ PurchaseList!TableIsItsPage /\ PurchaseList!NeverPastTheEnd
      /\ part = "stats" => PurchaseStats!TypeOK /\ PurchaseStats!CardsCountRows /\ PurchaseStats!BatchesMissNone
      /\ part = "drawer" => /\ PurchaseDrawer!TypeOK /\ PurchaseDrawer!DrawerShowsItsPurchase
                            /\ PurchaseDrawer!StandsAtOneStep
      /\ SellPanel!TypeOK /\ SellList!TypeOK /\ Reports!TypeOK /\ QpayToken!TypeOK /\ ContractFiles!TypeOK
      => TypeOK
  BY DEF TypeOK, PartOK
<1>5. QED
  BY <1>1, <1>2, <1>3, <1>4, TableAlways, CardsAlways, OpenedAlways, PartStays, PTL

(* What the purchases page and the sell requests page show is what they    *)
(* say it is, for any rows, filters, page sizes and administrators and any *)
(* order of requests and answers.                                          *)
THEOREM PagesShowTheirRows == Spec => []ShownMatches
<1>1. Spec => []SellPanel!OwnChangeShown
  BY PanelIs, PanelSellPanelHolds, OrdersAssumption, PTL
<1>2. /\ part = "list" => PurchaseList!TypeOK /\ PurchaseList!TableIsItsPage /\ PurchaseList!NeverPastTheEnd
      /\ part = "drawer" => /\ PurchaseDrawer!TypeOK /\ PurchaseDrawer!DrawerShowsItsPurchase
                            /\ PurchaseDrawer!StandsAtOneStep
      /\ SellPanel!OwnChangeShown
      => ShownMatches
  BY DEF ShownMatches
<1>3. QED
  BY <1>1, <1>2, TableAlways, OpenedAlways, PTL

(* Numbers that are computed twice agree: the cards of both pages with     *)
(* their lists, the reports with each other, with their charts and with    *)
(* their parts, for any rows, amounts, days and batches.                   *)
THEOREM NumbersAgree == Spec => []CountsAgree
<1>1. Spec => []SellList!CardCountsItsList
  BY MovesAre, MovesSellListHolds, OrdersAssumption, PTL
<1>2. Spec => [](Reports!TotalsAgree /\ Reports!ChartsAddUp /\ Reports!CountsAddUp)
  BY RepIs, RepReportsHold, OrdersAssumption, PTL
<1>3. /\ part = "stats" => PurchaseStats!TypeOK /\ PurchaseStats!CardsCountRows /\ PurchaseStats!BatchesMissNone
      /\ SellList!CardCountsItsList
      /\ Reports!TotalsAgree /\ Reports!ChartsAddUp /\ Reports!CountsAddUp
      => CountsAgree
  BY DEF CountsAgree
<1>4. QED
  BY <1>1, <1>2, <1>3, CardsAlways, PTL

(* No request goes to QPay with a token that has run out, a withdrawn one  *)
(* is not tried longer than it is kept, and a signed purchase has the      *)
(* files of the request that signed it, for any calls, times and requests. *)
THEOREM KeptIsReliable == Spec => []KeptIsGood
<1>1. Spec => [](QpayToken!SentTokensAreTaken /\ QpayToken!RefusalsEnd)
  BY TokenIs, TokenNothingIsRefused, TokenRefusalsPass, OrdersAssumption, PTL
<1>2. Spec => [](ContractFiles!SignedHasItsFiles /\ ContractFiles!SignedHasAQr)
  BY PdfIs, PdfQrComesFirst, PdfFilesAreOfOneRequest, OrdersAssumption, PTL
<1>3. /\ QpayToken!SentTokensAreTaken /\ QpayToken!RefusalsEnd
      /\ ContractFiles!SignedHasItsFiles /\ ContractFiles!SignedHasAQr
      => KeptIsGood
  BY DEF KeptIsGood
<1>4. QED
  BY <1>1, <1>2, <1>3, PTL

(* A sell request nobody clicks on with an old row or twice at once goes   *)
(* its way once, and only a list that became shorter leaves the page past  *)
(* its end, for any administrators, requests, grams and page sizes.        *)
THEOREM RequestsMoveInOrder == Spec => MovesInOrder
<1>1. Spec => SellPanel!FreshClicksFollowTheOrder
  BY PanelIs, PanelSellPanelHolds, OrdersAssumption, PTL
<1>2. Spec => SellList!OnlyShorterListsStrand
  BY MovesAre, MovesSellListHolds, OrdersAssumption, PTL
<1>3. QED
  BY <1>1, <1>2, PTL DEF MovesInOrder
=============================================================================
