---------------------- MODULE SQLiteMemoryStoreProofs ----------------------
(***************************************************************************)
(* Proofs that the SQLite store implements MemoryContract, for any number  *)
(* of processes, ids, values and rows.                                     *)
(***************************************************************************)
EXTENDS SQLiteMemoryStore, FiniteSetTheorems, SequenceTheorems, TLAPS

---------------------------------------------------------------------------
(* Counting the rows in front of a row.                                    *)

LEMMA LeastNatural ==
  ASSUME NEW T, T \subseteq Nat, T # {}
  PROVE  \E x \in T : \A y \in T : x <= y
<1>1. \E x \in T : \A y \in T : <<y, x>> \notin OpToRel(<, Nat)
  BY NatLessThanWellFounded, WFMin
<1>2. \A x, y \in Nat : <<y, x>> \notin OpToRel(<, Nat) => x <= y
  BY DEF OpToRel
<1> QED
  BY <1>1, <1>2

(* Sets of rowids.                                                         *)
FiniteRowids(D) == D \subseteq Nat /\ IsFiniteSet(D)

Before(D, r) == {s \in D : s < r}

(* How many rows are in front of r, and the i-th rowid.                    *)
Rank(D, r) == Cardinality(Before(D, r))

Nth(D, i) == CHOOSE r \in D : Rank(D, r) = i - 1

LEMMA RankFacts ==
  ASSUME NEW D, FiniteRowids(D)
  PROVE  /\ Cardinality(D) \in Nat
         /\ \A r \in Nat : Rank(D, r) \in Nat /\ Rank(D, r) <= Cardinality(D)
         /\ \A r \in D : Rank(D, r) < Cardinality(D)
         /\ \A r \in D : \A s \in Nat : r < s => Rank(D, r) < Rank(D, s)
<1>1. ASSUME NEW r \in Nat
      PROVE  /\ IsFiniteSet(Before(D, r)) /\ Rank(D, r) \in Nat
             /\ Rank(D, r) <= Cardinality(D) /\ Cardinality(D) \in Nat
  <2>1. Before(D, r) \in SUBSET D
    BY DEF Before
  <2> QED
    BY <2>1, FS_Subset, FS_CardinalityType DEF Rank, FiniteRowids
<1>2. ASSUME NEW r \in D, NEW E, E \subseteq D, IsFiniteSet(E), Before(D, r) \subseteq E, r \in E
      PROVE  Rank(D, r) < Cardinality(E)
  <2>1. Before(D, r) \cup {r} \in SUBSET E /\ r \notin Before(D, r) /\ r \in Nat
    BY <1>2 DEF Before, FiniteRowids
  <2>2. Cardinality(Before(D, r) \cup {r}) = Rank(D, r) + 1
    BY <1>1, <2>1, FS_AddElement DEF Rank
  <2>3. Cardinality(Before(D, r) \cup {r}) <= Cardinality(E)
    BY <1>2, <2>1, FS_Subset
  <2>4. Cardinality(E) \in Nat
    BY <1>2, FS_CardinalityType
  <2> QED
    BY <1>1, <2>1, <2>2, <2>3, <2>4
<1>3. ASSUME NEW r \in D
      PROVE  Rank(D, r) < Cardinality(D)
  <2>1. Before(D, r) \subseteq D
    BY DEF Before
  <2> QED
    BY <1>2, <2>1 DEF FiniteRowids
<1>4. ASSUME NEW r \in D, NEW s \in Nat, r < s
      PROVE  Rank(D, r) < Rank(D, s)
  <2>1. Before(D, s) \subseteq D /\ r \in Before(D, s) /\ r \in Nat
    BY <1>4 DEF Before, FiniteRowids
  <2>2. ASSUME NEW q \in Before(D, r) PROVE q \in Before(D, s)
    <3>1. q \in D /\ q \in Nat /\ q < r
      BY DEF Before, FiniteRowids
    <3>2. q < s
      BY <1>4, <2>1, <3>1
    <3> QED
      BY <3>1, <3>2 DEF Before
  <2>3. IsFiniteSet(Before(D, s))
    BY <1>1
  <2> QED
    BY <1>2, <2>1, <2>2, <2>3 DEF Rank
<1>5. Cardinality(D) \in Nat
  BY FS_CardinalityType DEF FiniteRowids
<1> QED
  BY <1>1, <1>3, <1>4, <1>5

(* The ranks of the rows are 0 .. |D| - 1, each taken once.                *)
LEMMA NthFacts ==
  ASSUME NEW D, FiniteRowids(D)
  PROVE  /\ \A r, s \in D : Rank(D, r) = Rank(D, s) => r = s
         /\ \A i \in 1..Cardinality(D) : Nth(D, i) \in D /\ Rank(D, Nth(D, i)) = i - 1
         /\ \A r \in D : Rank(D, r) + 1 \in 1..Cardinality(D) /\ Nth(D, Rank(D, r) + 1) = r
         /\ \A i, j \in 1..Cardinality(D) : i < j => Nth(D, i) < Nth(D, j)
<1> DEFINE n == Cardinality(D)
           f == [r \in D |-> Rank(D, r) + 1]
<1>1. /\ n \in Nat /\ D \subseteq Nat
      /\ \A r \in D : Rank(D, r) \in Nat /\ Rank(D, r) < n
      /\ \A r, s \in D : r < s => Rank(D, r) < Rank(D, s)
  BY RankFacts DEF FiniteRowids
<1>2. \A r, s \in D : Rank(D, r) = Rank(D, s) => r = s
  BY <1>1
<1>3. f \in Injection(D, 1..n)
  <2>1. f \in [D -> 1..n]
    BY <1>1
  <2>2. \A r, s \in D : f[r] = f[s] => r = s
    BY <1>1, <1>2
  <2> QED
    BY <2>1, <2>2 DEF Injection, IsInjective
<1>4. IsFiniteSet(1..n) /\ Cardinality(1..n) = n
  BY <1>1, FS_Interval
<1>5. f \in Surjection(D, 1..n)
  BY <1>3, <1>4, FS_Injection
<1>6. ASSUME NEW i \in 1..n
      PROVE  \E r \in D : Rank(D, r) = i - 1
  <2>1. PICK r \in D : f[r] = i
    BY <1>5 DEF Surjection
  <2> QED
    BY <1>1, <2>1
<1>7. \A i \in 1..n : Nth(D, i) \in D /\ Rank(D, Nth(D, i)) = i - 1
  BY <1>6 DEF Nth
<1>8. ASSUME NEW r \in D
      PROVE  Rank(D, r) + 1 \in 1..n /\ Nth(D, Rank(D, r) + 1) = r
  <2>1. Rank(D, r) + 1 \in 1..n
    BY <1>1
  <2>2. \A i \in 1..n : i - 1 = Rank(D, r) => Nth(D, i) = r
    BY <1>2, <1>7
  <2>3. PICK k \in 1..n : k = Rank(D, r) + 1
    BY <2>1
  <2>4. k - 1 = Rank(D, r)
    BY <1>1, <2>3
  <2>5. Nth(D, k) = r
    BY <2>2, <2>4
  <2> QED
    BY <2>1, <2>3, <2>5
<1>9. ASSUME NEW i \in 1..n, NEW j \in 1..n, i < j
      PROVE  Nth(D, i) < Nth(D, j)
  <2>1. /\ Nth(D, i) \in D /\ Nth(D, j) \in D
        /\ Rank(D, Nth(D, i)) = i - 1 /\ Rank(D, Nth(D, j)) = j - 1
    BY <1>7
  <2>2. ~(Rank(D, Nth(D, j)) < Rank(D, Nth(D, i))) /\ Nth(D, i) # Nth(D, j)
    BY <1>1, <1>9, <2>1
  <2>3. Nth(D, i) \in Nat /\ Nth(D, j) \in Nat
    BY <1>1, <2>1
  <2> QED
    BY <1>1, <2>1, <2>2, <2>3
<1> QED
  BY <1>2, <1>7, <1>8, <1>9

---------------------------------------------------------------------------
(* Tables as sequences of rows.                                            *)

LEMMA InOrderFacts ==
  ASSUME NEW S, NEW t, FiniteRowids(DOMAIN t), \A r \in DOMAIN t : t[r] \in S
  PROVE  /\ InOrder(t) \in Seq(S)
         /\ Len(InOrder(t)) = Cardinality(DOMAIN t)
         /\ DOMAIN InOrder(t) = 1..Cardinality(DOMAIN t)
         /\ \A i \in 1..Cardinality(DOMAIN t) : InOrder(t)[i] = t[Nth(DOMAIN t, i)]
<1>1. InOrder(t) = [i \in 1..Cardinality(DOMAIN t) |-> t[Nth(DOMAIN t, i)]]
  BY DEF InOrder, Nth, Rank, Before
<1>2. /\ Cardinality(DOMAIN t) \in Nat
      /\ \A i \in 1..Cardinality(DOMAIN t) : Nth(DOMAIN t, i) \in DOMAIN t
  BY RankFacts, NthFacts
<1> QED
  BY <1>1, <1>2

(* The rows are in the sequence, each once, and nothing else is.           *)
LEMMA RowsAreElements ==
  ASSUME NEW t, FiniteRowids(DOMAIN t)
  PROVE  /\ \A i \in DOMAIN InOrder(t) :
              Nth(DOMAIN t, i) \in DOMAIN t /\ InOrder(t)[i] = t[Nth(DOMAIN t, i)]
         /\ \A r \in DOMAIN t : \E i \in DOMAIN InOrder(t) : Nth(DOMAIN t, i) = r
<1>1. \A r \in DOMAIN t : t[r] \in {t[s] : s \in DOMAIN t}
  OBVIOUS
<1>2. /\ DOMAIN InOrder(t) = 1..Cardinality(DOMAIN t)
      /\ \A i \in 1..Cardinality(DOMAIN t) : InOrder(t)[i] = t[Nth(DOMAIN t, i)]
  BY <1>1, InOrderFacts
<1>3. \A r \in DOMAIN t : Rank(DOMAIN t, r) + 1 \in DOMAIN InOrder(t)
                         /\ Nth(DOMAIN t, Rank(DOMAIN t, r) + 1) = r
  BY <1>2, NthFacts
<1> QED
  BY <1>2, <1>3, NthFacts

LEMMA EmptyTable == InOrder(<<>>) = <<>>
<1>1. DOMAIN <<>> = {} /\ Cardinality({}) = 0
  BY FS_EmptySet
<1>2. InOrder(<<>>) \in Seq({}) /\ Len(InOrder(<<>>)) = 0
  <2>1. FiniteRowids(DOMAIN <<>>)
    BY <1>1, FS_EmptySet DEF FiniteRowids
  <2> QED
    BY <1>1, <2>1, InOrderFacts
<1> QED
  BY <1>2, EmptySeq

(* A row behind all others is the last of the sequence.                    *)
LEMMA LastRow ==
  ASSUME NEW S, NEW t, FiniteRowids(DOMAIN t), \A r \in DOMAIN t : t[r] \in S,
         NEW m \in Nat, NEW x \in S, \A r \in DOMAIN t : r < m
  PROVE  InOrder(With(t, m, x)) = Append(InOrder(t), x)
<1> DEFINE D == DOMAIN t
           u == With(t, m, x)
           E == D \cup {m}
           n == Cardinality(D)
<1>1. /\ DOMAIN u = E /\ m \notin D /\ u[m] = x
      /\ \A r \in D : u[r] = t[r]
      /\ \A r \in E : u[r] \in S
  BY DEF With
<1> HIDE DEF u
<1>2. FiniteRowids(E) /\ Cardinality(E) = n + 1 /\ n \in Nat
  <2>1. IsFiniteSet(E) /\ Cardinality(E) = n + 1
    BY <1>1, FS_AddElement DEF FiniteRowids
  <2> QED
    BY <2>1, RankFacts DEF FiniteRowids
<1>3. \A r \in D : Rank(E, r) = Rank(D, r)
  <2>1. ASSUME NEW r \in D PROVE Before(E, r) = Before(D, r)
    BY DEF Before, FiniteRowids
  <2> QED
    BY <2>1 DEF Rank
<1>4. Rank(E, m) = n
  <2>1. Before(E, m) = D
    BY DEF Before
  <2> QED
    BY <2>1 DEF Rank
<1>5. ASSUME NEW i \in 1..n PROVE Nth(E, i) = Nth(D, i)
  <2>1. Nth(D, i) \in D /\ Rank(D, Nth(D, i)) = i - 1
    BY NthFacts
  <2>2. i \in 1..Cardinality(E)
    BY <1>2
  <2>3. Nth(E, i) \in E /\ Rank(E, Nth(E, i)) = i - 1
    BY <1>2, <2>2, NthFacts
  <2>4. Nth(D, i) \in E /\ Rank(E, Nth(D, i)) = i - 1
    BY <1>3, <2>1
  <2> QED
    BY <1>2, <2>3, <2>4, NthFacts
<1>6. Nth(E, n + 1) = m
  <2>1. n + 1 \in 1..Cardinality(E) /\ (n + 1) - 1 = n
    BY <1>2
  <2>2. Nth(E, n + 1) \in E /\ Rank(E, Nth(E, n + 1)) = (n + 1) - 1
    BY <1>2, <2>1, NthFacts
  <2> QED
    BY <1>2, <1>4, <2>1, <2>2, NthFacts
<1>7. /\ InOrder(t) \in Seq(S) /\ Len(InOrder(t)) = n
      /\ \A i \in 1..n : InOrder(t)[i] = t[Nth(D, i)]
  BY InOrderFacts
<1>8. /\ InOrder(u) \in Seq(S) /\ Len(InOrder(u)) = n + 1
      /\ \A i \in 1..(n + 1) : InOrder(u)[i] = u[Nth(E, i)]
  <2>1. FiniteRowids(DOMAIN u) /\ \A r \in DOMAIN u : u[r] \in S
    BY <1>1, <1>2
  <2>2. /\ InOrder(u) \in Seq(S) /\ Len(InOrder(u)) = Cardinality(DOMAIN u)
        /\ \A i \in 1..Cardinality(DOMAIN u) : InOrder(u)[i] = u[Nth(DOMAIN u, i)]
    BY <2>1, InOrderFacts
  <2> HIDE DEF E, n, D
  <2> QED
    BY <1>1, <1>2, <2>2
<1>9. ASSUME NEW i \in 1..(n + 1) PROVE InOrder(u)[i] = Append(InOrder(t), x)[i]
  <2>1. CASE i \in 1..n
    <3>1. Nth(D, i) \in D
      BY <2>1, NthFacts
    <3>2. u[Nth(D, i)] = t[Nth(D, i)]
      BY <1>1, <3>1
    <3>3. Append(InOrder(t), x)[i] = InOrder(t)[i]
      BY <1>2, <1>7, <2>1, AppendProperties
    <3> QED
      BY <1>5, <1>7, <1>8, <2>1, <3>2, <3>3
  <2>2. CASE i = n + 1
    <3>1. Append(InOrder(t), x)[i] = x
      BY <1>7, <2>2, AppendProperties
    <3> QED
      BY <1>1, <1>6, <1>8, <2>2, <3>1
  <2> HIDE DEF n
  <2>3. i \in 1..n \/ i = n + 1
    BY <1>2
  <2> QED
    BY <2>1, <2>2, <2>3
<1>10. Append(InOrder(t), x) \in Seq(S) /\ Len(Append(InOrder(t), x)) = n + 1
  BY <1>7, AppendProperties
<1>11. InOrder(u) = Append(InOrder(t), x)
  BY <1>8, <1>9, <1>10, SeqEqual
<1> QED
  BY <1>11 DEF u

(* The recursion of Those, as the contract states it about entries.        *)
Chosen(entries, positions) ==
  LET those[i \in 0..Len(entries)] ==
        IF i = 0 THEN <<>>
        ELSE IF i \in positions THEN Append(those[i - 1], entries[i])
             ELSE those[i - 1]
  IN  those[Len(entries)]

ChoosesAlong(f, entries, positions) ==
  f = [i \in 0..Len(entries) |->
         IF i = 0 THEN <<>>
         ELSE IF i \in positions THEN Append(f[i - 1], entries[i])
              ELSE f[i - 1]]

(* One function satisfies it, so that any that does computes Those.        *)
LEMMA ChosenIsUnique ==
  ASSUME NEW entries, Len(entries) \in Nat, NEW positions, NEW f,
         ChoosesAlong(f, entries, positions)
  PROVE  Chosen(entries, positions) = f[Len(entries)]
<1> DEFINE g == CHOOSE h : ChoosesAlong(h, entries, positions)
           Differ == {i \in 0..Len(entries) : g[i] # f[i]}
<1>1. Chosen(entries, positions) = g[Len(entries)]
  BY DEF Chosen, ChoosesAlong
<1>2. ChoosesAlong(g, entries, positions)
  OBVIOUS
<1> HIDE DEF g
<1>3. SUFFICES ASSUME Differ # {} PROVE FALSE
  <2>1. Len(entries) \in 0..Len(entries)
    OBVIOUS
  <2> QED
    BY <1>1, <1>3, <2>1
<1>4. PICK i \in Differ : \A j \in Differ : i <= j
  <2>1. Differ \subseteq Nat
    OBVIOUS
  <2> HIDE DEF Differ
  <2> QED
    BY <1>3, <2>1, LeastNatural
<1>5. i \in 0..Len(entries) /\ g[i] # f[i]
  OBVIOUS
<1>6. i # 0
  BY <1>2, <1>5 DEF ChoosesAlong
<1>7. g[i - 1] = f[i - 1]
  BY <1>4, <1>5, <1>6
<1> QED
  BY <1>2, <1>5, <1>6, <1>7 DEF ChoosesAlong

(* The rows of a table at some rowids are those at their positions.        *)
LEMMA WhereIsChosen ==
  ASSUME NEW t, FiniteRowids(DOMAIN t), NEW K, K \subseteq DOMAIN t
  PROVE  InOrder(Where(t, K)) =
           Chosen(InOrder(t), {i \in DOMAIN InOrder(t) : Nth(DOMAIN t, i) \in K})
<1> DEFINE D == DOMAIN t
           n == Cardinality(D)
           S == {t[r] : r \in D}
           Up(i) == {r \in K : Rank(D, r) < i}
           f == [i \in 0..n |-> InOrder(Where(t, Up(i)))]
           P == {i \in DOMAIN InOrder(t) : Nth(D, i) \in K}
<1>1. /\ n \in Nat /\ D \subseteq Nat
      /\ \A r \in D : Rank(D, r) \in Nat /\ Rank(D, r) < n
  BY RankFacts DEF FiniteRowids
<1>2. /\ Len(InOrder(t)) = n /\ DOMAIN InOrder(t) = 1..n
      /\ \A i \in 1..n : InOrder(t)[i] = t[Nth(D, i)] /\ Nth(D, i) \in D
  <2>1. \A r \in DOMAIN t : t[r] \in S
    OBVIOUS
  <2> QED
    BY <2>1, InOrderFacts, NthFacts
<1>3. f[0] = <<>>
  <2>1. Up(0) = {}
    BY <1>1
  <2>2. Where(t, {}) = <<>>
    BY DEF Where
  <2>3. f[0] = InOrder(Where(t, Up(0)))
    BY <1>1
  <2> HIDE DEF f, Up
  <2> QED
    BY <2>1, <2>2, <2>3, EmptyTable
<1>4. f[n] = InOrder(Where(t, K))
  <2>1. Up(n) = K
    BY <1>1
  <2> QED
    BY <1>1, <2>1
<1>5. ASSUME NEW i \in 1..n
      PROVE  f[i] = IF i \in P THEN Append(f[i - 1], InOrder(t)[i]) ELSE f[i - 1]
  <2> DEFINE m == Nth(D, i)
  <2>1. i - 1 \in 0..n /\ i \in 0..n /\ i \in DOMAIN InOrder(t)
    BY <1>1, <1>2
  <2>2. m \in D /\ Rank(D, m) = i - 1 /\ InOrder(t)[i] = t[m] /\ (i \in P <=> m \in K)
    BY <1>2, <2>1, NthFacts
  <2> HIDE DEF m, P
  <2>3. \A r \in D : Rank(D, r) < i <=> Rank(D, r) < i - 1 \/ r = m
    BY <1>1, <2>1, <2>2, NthFacts
  <2>4. CASE m \notin K
    <3>1. Up(i) = Up(i - 1)
      BY <2>3, <2>4
    <3> QED
      BY <2>1, <2>2, <2>4, <3>1
  <2>5. CASE m \in K
    <3>1. Up(i) = Up(i - 1) \cup {m}
      BY <2>2, <2>3, <2>5
    <3> DEFINE u == Where(t, Up(i - 1))
    <3>2. /\ DOMAIN u = Up(i - 1) /\ \A r \in DOMAIN u : u[r] = t[r]
          /\ Up(i - 1) \subseteq D
      BY DEF Where
    <3>3. Where(t, Up(i)) = With(u, m, t[m])
      BY <3>1, <3>2 DEF Where, With
    <3>4. FiniteRowids(DOMAIN u)
      BY <3>2, FS_Subset DEF FiniteRowids
    <3>5. ASSUME NEW r \in DOMAIN u PROVE r < m
      <4>1. r \in D /\ Rank(D, r) < Rank(D, m) /\ r # m
        BY <1>1, <2>2, <3>2
      <4>2. ~(m < r)
        BY <1>1, <2>2, <4>1, RankFacts
      <4> QED
        BY <1>1, <2>2, <4>1, <4>2
    <3>6. t[m] \in S /\ \A r \in DOMAIN u : u[r] \in S
      BY <2>2, <3>2
    <3>7. m \in Nat
      BY <1>1, <2>2
    <3> HIDE DEF u, S
    <3>8. InOrder(With(u, m, t[m])) = Append(InOrder(u), t[m])
      BY <3>4, <3>5, <3>6, <3>7, LastRow
    <3> QED
      BY <2>1, <2>2, <2>5, <3>3, <3>8 DEF u
  <2> QED
    BY <2>4, <2>5
<1>6. ChoosesAlong(f, InOrder(t), P)
  <2>1. f = [i \in 0..n |-> f[i]]
    OBVIOUS
  <2> HIDE DEF f, P
  <2>2. \A i \in 0..n : i = 0 \/ i \in 1..n
    BY <1>1
  <2>3. \A i \in 0..n : f[i] = IF i = 0 THEN <<>>
                              ELSE IF i \in P THEN Append(f[i - 1], InOrder(t)[i])
                                   ELSE f[i - 1]
    BY <1>3, <1>5, <2>2
  <2> QED
    BY <1>2, <2>1, <2>3 DEF ChoosesAlong
<1> HIDE DEF f, P
<1>7. Chosen(InOrder(t), P) = f[n]
  BY <1>1, <1>2, <1>6, ChosenIsUnique
<1> QED
  BY <1>4, <1>7 DEF P

---------------------------------------------------------------------------
(* What each statement makes of a table.                                   *)

Rows == [id : Ids, value : Values]

Tables == UNION {[D -> Rows] : D \in SUBSET Rowids}

(* id is the PRIMARY KEY.                                                  *)
OneRowPerId(table) ==
  \A r, s \in DOMAIN table : table[r].id = table[s].id => r = s

LEMMA TableFacts ==
  ASSUME NEW t \in Tables
  PROVE  /\ FiniteRowids(DOMAIN t) /\ DOMAIN t \subseteq Rowids
         /\ \A r \in DOMAIN t : t[r] \in Rows
         /\ InOrder(t) \in Seq(Rows)
         /\ \A K \in SUBSET DOMAIN t : Where(t, K) \in Tables
<1>1. DOMAIN t \subseteq Rowids /\ \A r \in DOMAIN t : t[r] \in Rows
  BY DEF Tables
<1>2. Rowids \subseteq Nat /\ IsFiniteSet(Rowids)
  BY RowidAssumption, FS_Interval DEF Rowids
<1>3. FiniteRowids(DOMAIN t)
  BY <1>1, <1>2, FS_Subset DEF FiniteRowids
<1>4. InOrder(t) \in Seq(Rows)
  BY <1>1, <1>3, InOrderFacts
<1>5. ASSUME NEW K \in SUBSET DOMAIN t PROVE Where(t, K) \in Tables
  <2>1. Where(t, K) \in [K -> Rows] /\ K \in SUBSET Rowids
    BY <1>1 DEF Where
  <2> QED
    BY <2>1 DEF Tables
<1> QED
  BY <1>1, <1>3, <1>4, <1>5

LEMMA NextRowidFacts ==
  ASSUME NEW t \in Tables
  PROVE  NextRowid(t) \in Nat /\ \A r \in DOMAIN t : r < NextRowid(t)
<1> DEFINE Free == {r \in 1..(MaxRowid + 1) : \A q \in DOMAIN t : q < r}
<1>1. DOMAIN t \subseteq 1..MaxRowid /\ MaxRowid \in Nat
  BY TableFacts, RowidAssumption DEF Rowids
<1>2. MaxRowid + 1 \in Free /\ Free \subseteq Nat
  BY <1>1
<1>3. PICK r \in Free : \A s \in Free : r <= s
  <2> HIDE DEF Free
  <2> QED
    BY <1>2, LeastNatural
<1>4. ASSUME NEW s \in 1..(MaxRowid + 1)
      PROVE  s >= r <=> \A q \in DOMAIN t : q < s
  <2>1. CASE s >= r
    <3>1. \A q \in DOMAIN t : q < r
      OBVIOUS
    <3> QED
      BY <1>1, <2>1, <3>1
  <2>2. CASE ~(s >= r)
    BY <1>1, <1>3, <2>2
  <2> QED
    BY <2>1, <2>2
<1>5. /\ NextRowid(t) \in 1..(MaxRowid + 1)
      /\ \A s \in 1..(MaxRowid + 1) : s >= NextRowid(t) <=> \A q \in DOMAIN t : q < s
  BY <1>4 DEF NextRowid
<1> QED
  BY <1>1, <1>5

(* The rows a statement or a query is about, as positions of the sequence. *)
LEMMA PositionsOf ==
  ASSUME NEW t \in Tables
  PROVE  /\ \A id : (RowsOf(t, id) # {}) <=> \E i \in DOMAIN InOrder(t) : InOrder(t)[i].id = id
         /\ \A id : InOrder(Where(t, RowsOf(t, id))) =
                      Chosen(InOrder(t), {i \in DOMAIN InOrder(t) : InOrder(t)[i].id = id})
         /\ \A id : InOrder(Without(t, RowsOf(t, id))) =
                      Chosen(InOrder(t), {i \in DOMAIN InOrder(t) : InOrder(t)[i].id # id})
         /\ \A query : InOrder(Where(t, {r \in DOMAIN t : t[r].value \in query})) =
                      Chosen(InOrder(t), {i \in DOMAIN InOrder(t) : InOrder(t)[i].value \in query})
<1> DEFINE e == InOrder(t)
           At(i) == Nth(DOMAIN t, i)
<1>1. /\ FiniteRowids(DOMAIN t)
      /\ \A i \in DOMAIN e : At(i) \in DOMAIN t /\ e[i] = t[At(i)]
      /\ \A r \in DOMAIN t : \E i \in DOMAIN e : At(i) = r
  BY TableFacts, RowsAreElements
<1>2. ASSUME NEW K \in SUBSET DOMAIN t, NEW P, P = {i \in DOMAIN e : At(i) \in K}
      PROVE  InOrder(Where(t, K)) = Chosen(e, P)
  BY <1>1, <1>2, WhereIsChosen
<1> HIDE DEF e, At
<1>3. ASSUME NEW id
      PROVE  /\ RowsOf(t, id) # {} <=> \E i \in DOMAIN e : e[i].id = id
             /\ InOrder(Where(t, RowsOf(t, id))) = Chosen(e, {i \in DOMAIN e : e[i].id = id})
             /\ InOrder(Without(t, RowsOf(t, id))) = Chosen(e, {i \in DOMAIN e : e[i].id # id})
  <2>1. RowsOf(t, id) # {} <=> \E i \in DOMAIN e : e[i].id = id
    BY <1>1 DEF RowsOf
  <2>2. {i \in DOMAIN e : e[i].id = id} = {i \in DOMAIN e : At(i) \in RowsOf(t, id)}
    BY <1>1 DEF RowsOf
  <2>3. {i \in DOMAIN e : e[i].id # id} =
          {i \in DOMAIN e : At(i) \in DOMAIN t \ RowsOf(t, id)}
    BY <1>1 DEF RowsOf
  <2>4. RowsOf(t, id) \in SUBSET DOMAIN t /\ DOMAIN t \ RowsOf(t, id) \in SUBSET DOMAIN t
    BY DEF RowsOf
  <2>5. InOrder(Where(t, RowsOf(t, id))) = Chosen(e, {i \in DOMAIN e : e[i].id = id})
    BY <1>2, <2>2, <2>4
  <2>6. InOrder(Where(t, DOMAIN t \ RowsOf(t, id))) = Chosen(e, {i \in DOMAIN e : e[i].id # id})
    BY <1>2, <2>3, <2>4
  <2> QED
    BY <2>1, <2>5, <2>6 DEF Without
<1>4. ASSUME NEW query
      PROVE  InOrder(Where(t, {r \in DOMAIN t : t[r].value \in query}))
               = Chosen(e, {i \in DOMAIN e : e[i].value \in query})
  <2>1. {i \in DOMAIN e : e[i].value \in query} =
          {i \in DOMAIN e : At(i) \in {r \in DOMAIN t : t[r].value \in query}}
    BY <1>1
  <2> QED
    BY <1>2, <2>1
<1> QED
  BY <1>3, <1>4 DEF e

(* An upsert overwrites in place or adds a last row.                       *)
LEMMA UpsertFacts ==
  ASSUME NEW t \in Tables, OneRowPerId(t), NEW id \in Ids, NEW value \in Values,
         RowsOf(t, id) = {} => NextRowid(t) \in Rowids
  PROVE  LET u == Upserted(t, Row(id, value))
             e == InOrder(t)
         IN  /\ u \in Tables /\ OneRowPerId(u)
             /\ InOrder(u) =
                  IF \E i \in DOMAIN e : e[i].id = id
                  THEN [i \in DOMAIN e |-> IF e[i].id = id THEN Row(id, value) ELSE e[i]]
                  ELSE Append(e, Row(id, value))
<1> DEFINE u == Upserted(t, Row(id, value))
           e == InOrder(t)
           x == Row(id, value)
<1>1. /\ FiniteRowids(DOMAIN t) /\ DOMAIN t \subseteq Rowids
      /\ \A r \in DOMAIN t : t[r] \in Rows
      /\ e \in Seq(Rows)
  BY TableFacts
<1>2. x \in Rows /\ x.id = id
  BY DEF Row, Rows
<1>3. RowsOf(t, id) # {} <=> \E i \in DOMAIN e : e[i].id = id
  BY PositionsOf
<1>4. CASE RowsOf(t, id) = {}
  <2>1. u = With(t, NextRowid(t), x)
    BY <1>2, <1>4 DEF Upserted
  <2>2. NextRowid(t) \in Nat /\ \A r \in DOMAIN t : r < NextRowid(t)
    BY NextRowidFacts
  <2>3. InOrder(u) = Append(e, x)
    <3> HIDE DEF u, x
    <3>1. InOrder(With(t, NextRowid(t), x)) = Append(InOrder(t), x)
      BY <1>1, <1>2, <2>2, LastRow
    <3> QED
      BY <2>1, <3>1
  <2>4. /\ DOMAIN u = DOMAIN t \cup {NextRowid(t)} /\ u[NextRowid(t)] = x
        /\ \A r \in DOMAIN t : r # NextRowid(t) /\ u[r] = t[r]
        /\ u = [r \in DOMAIN t \cup {NextRowid(t)} |-> u[r]]
    <3>1. \A r \in DOMAIN t : r \in Nat /\ r # NextRowid(t)
      BY <1>1, <2>2 DEF FiniteRowids
    <3>2. u = [r \in DOMAIN t \cup {NextRowid(t)} |-> IF r = NextRowid(t) THEN x ELSE t[r]]
      BY <2>1 DEF With
    <3> HIDE DEF u, x
    <3> QED
      BY <3>1, <3>2
  <2> HIDE DEF u, x
  <2>5. u \in Tables
    <3>1. u \in [DOMAIN u -> Rows] /\ DOMAIN u \in SUBSET Rowids
      BY <1>1, <1>2, <1>4, <2>4
    <3> QED
      BY <3>1 DEF Tables
  <2>6. OneRowPerId(u)
    <3>1. \A r \in DOMAIN t : t[r].id # id
      BY <1>4 DEF RowsOf
    <3> QED
      BY <1>2, <2>4, <3>1 DEF OneRowPerId
  <2> QED
    BY <1>3, <1>4, <2>3, <2>5, <2>6 DEF u, x
<1>5. CASE RowsOf(t, id) # {}
  <2>1. u = [r \in DOMAIN t |-> IF t[r].id = id THEN x ELSE t[r]]
    BY <1>2, <1>5 DEF Upserted
  <2>2. /\ DOMAIN u = DOMAIN t
        /\ \A r \in DOMAIN t : u[r] \in Rows /\ u[r].id = t[r].id
                                /\ u[r] = IF t[r].id = id THEN x ELSE t[r]
    BY <1>1, <1>2, <2>1
  <2> HIDE DEF u, x
  <2>3. u \in Tables
    <3>1. u \in [DOMAIN u -> Rows] /\ DOMAIN u \in SUBSET Rowids
      BY <1>1, <2>1, <2>2
    <3> QED
      BY <3>1 DEF Tables
  <2>4. OneRowPerId(u)
    BY <2>2 DEF OneRowPerId
  <2>5. InOrder(u) = [i \in DOMAIN e |-> IF e[i].id = id THEN x ELSE e[i]]
    <3>1. /\ InOrder(u) = [i \in 1..Cardinality(DOMAIN t) |-> u[Nth(DOMAIN t, i)]]
          /\ DOMAIN e = 1..Cardinality(DOMAIN t)
      BY <2>2 DEF InOrder, Nth, Rank, Before
    <3>2. \A i \in DOMAIN e : Nth(DOMAIN t, i) \in DOMAIN t /\ e[i] = t[Nth(DOMAIN t, i)]
      BY <1>1, RowsAreElements
    <3> HIDE DEF e
    <3> QED
      BY <2>2, <3>1, <3>2
  <2> QED
    BY <1>3, <1>5, <2>3, <2>4, <2>5 DEF u, x
<1> QED
  BY <1>4, <1>5

---------------------------------------------------------------------------
(* The inductive invariant: only one transaction is open, and it holds     *)
(* what its statement makes of the rows as they are committed now.         *)

Adds(t, p, id, value, w) ==
  /\ JSON[value] # None
  /\ RowsOf(t, id) = {} => NextRowid(t) \in Rowids
  /\ w.table = Upserted(t, Row(id, JSON[value]))
  /\ w.told = Told(p, "add", id, {value}, "stored", <<>>)

Deletes(t, p, id, w) ==
  /\ w.table = Without(t, RowsOf(t, id))
  /\ w.told = Told(p, "delete", id, {},
                   IF RowsOf(t, id) = {} THEN "absent" ELSE "deleted", <<>>)

Clears(p, w) == w.table = <<>> /\ w.told = Told(p, "clear", None, {}, "cleared", <<>>)

Statement(t, p, w) ==
  \/ \E id \in Ids, value \in Values : Adds(t, p, id, value, w)
  \/ \E id \in Ids : Deletes(t, p, id, w)
  \/ Clears(p, w)

MemInv ==
  /\ rows \in Tables /\ OneRowPerId(rows)
  /\ \A p, q \in DOMAIN work : p = q
  /\ \A p \in DOMAIN work : Statement(rows, p, work[p])

(* The contract's operators, spelled out for the sequence of the rows.     *)
LEMMA ContractReads ==
  /\ \A positions : Contract!Those(positions) = Chosen(InOrder(rows), positions)
  /\ \A id : Contract!Has(id) <=> \E i \in DOMAIN InOrder(rows) : InOrder(rows)[i].id = id
  /\ \A c, call, id, values, result, found :
       answer' = Told(c, call, id, values, result, found)
         => Contract!Told(c, call, id, values, result, found)
<1>1. \A positions : Contract!Those(positions) = Chosen(InOrder(rows), positions)
  BY DEF Contract!Those, Chosen
<1>2. \A id : Contract!Has(id) <=> \E i \in DOMAIN InOrder(rows) : InOrder(rows)[i].id = id
  BY DEF Contract!Has
<1>3. \A c, call, id, values, result, found :
        answer' = Told(c, call, id, values, result, found)
          => Contract!Told(c, call, id, values, result, found)
  BY DEF Contract!Told, Told
<1> QED
  BY <1>1, <1>2, <1>3

(* What a commit makes of the rows is the call of the contract.            *)
LEMMA StatementImplements ==
  ASSUME rows \in Tables, OneRowPerId(rows), NEW p \in Processes, NEW w,
         Statement(rows, p, w), rows' = w.table, answer' = w.told
  PROVE  rows' \in Tables /\ OneRowPerId(rows') /\ Contract!ContractNext
<1>1. /\ rows \in Tables
      /\ \A id : (RowsOf(rows, id) # {}) <=> Contract!Has(id)
  BY PositionsOf, ContractReads
<1>2. ASSUME NEW id \in Ids, NEW value \in Values, Adds(rows, p, id, value, w)
      PROVE  rows' \in Tables /\ OneRowPerId(rows') /\ Contract!Add(p, id, value)
  <2>1. JSON[value] \in Values /\ JSON[value] # None
    BY <1>2, JSONAssumption DEF Adds
  <2> DEFINE e == InOrder(rows)
  <2>2. /\ rows' \in Tables /\ OneRowPerId(rows')
        /\ InOrder(rows') =
             IF \E i \in DOMAIN e : e[i].id = id
             THEN [i \in DOMAIN e |-> IF e[i].id = id THEN Row(id, JSON[value]) ELSE e[i]]
             ELSE Append(e, Row(id, JSON[value]))
    <3>1. /\ RowsOf(rows, id) = {} => NextRowid(rows) \in Rowids
          /\ rows' = Upserted(rows, Row(id, JSON[value]))
      BY <1>2 DEF Adds
    <3>2. PICK kept \in Values : kept = JSON[value]
      BY <2>1
    <3>3. /\ Upserted(rows, Row(id, kept)) \in Tables
          /\ OneRowPerId(Upserted(rows, Row(id, kept)))
          /\ InOrder(Upserted(rows, Row(id, kept))) =
               IF \E i \in DOMAIN e : e[i].id = id
               THEN [i \in DOMAIN e |-> IF e[i].id = id THEN Row(id, kept) ELSE e[i]]
               ELSE Append(e, Row(id, kept))
      BY <3>1, UpsertFacts
    <3> QED
      BY <3>1, <3>2, <3>3
  <2>3. InOrder(rows)' = InOrder(rows')
    BY DEF InOrder
  <2>4. Contract!Told(p, "add", id, {value}, "stored", <<>>)
    BY <1>2, ContractReads DEF Adds
  <2>5. Contract!Entry(id, JSON[value]) = Row(id, JSON[value])
    BY DEF Contract!Entry, Row
  <2>6. InOrder(rows') =
          IF Contract!Has(id)
          THEN [i \in DOMAIN e |->
                  IF e[i].id = id THEN Contract!Entry(id, JSON[value]) ELSE e[i]]
          ELSE Append(e, Contract!Entry(id, JSON[value]))
    BY <2>2, <2>5, ContractReads
  <2> QED
    BY <2>1, <2>2, <2>3, <2>4, <2>6 DEF Contract!Add
<1>3. ASSUME NEW id \in Ids, Deletes(rows, p, id, w)
      PROVE  rows' \in Tables /\ OneRowPerId(rows') /\ Contract!Delete(p, id)
  <2>1. /\ rows' = Without(rows, RowsOf(rows, id))
        /\ answer' = Told(p, "delete", id, {},
                          IF RowsOf(rows, id) = {} THEN "absent" ELSE "deleted", <<>>)
    BY <1>3 DEF Deletes
  <2>2. rows' \in Tables
    BY <2>1, TableFacts DEF Without
  <2>3. OneRowPerId(rows')
    BY <2>1 DEF OneRowPerId, Without, Where
  <2>4. InOrder(rows)' =
          Contract!Those({i \in DOMAIN InOrder(rows) : InOrder(rows)[i].id # id})
    <3>1. InOrder(rows)' = InOrder(Without(rows, RowsOf(rows, id)))
      BY <2>1 DEF InOrder
    <3> QED
      BY <3>1, PositionsOf, ContractReads
  <2>5. Contract!Told(p, "delete", id, {}, IF Contract!Has(id) THEN "deleted" ELSE "absent", <<>>)
    <3>1. (IF RowsOf(rows, id) = {} THEN "absent" ELSE "deleted")
            = (IF Contract!Has(id) THEN "deleted" ELSE "absent")
      BY <1>1
    <3> QED
      BY <2>1, <3>1, ContractReads
  <2> QED
    BY <2>2, <2>3, <2>4, <2>5 DEF Contract!Delete
<1>4. ASSUME Clears(p, w)
      PROVE  rows' \in Tables /\ OneRowPerId(rows') /\ Contract!Clear(p)
  <2>1. rows' = <<>> /\ answer' = Told(p, "clear", None, {}, "cleared", <<>>)
    BY <1>4 DEF Clears
  <2>2. rows' \in Tables /\ OneRowPerId(rows')
    <3>1. <<>> \in [{} -> Rows] /\ DOMAIN <<>> = {}
      OBVIOUS
    <3> QED
      BY <2>1, <3>1 DEF Tables, OneRowPerId
  <2>3. InOrder(rows)' = InOrder(<<>>)
    BY <2>1 DEF InOrder
  <2> QED
    BY <2>1, <2>2, <2>3, EmptyTable, ContractReads DEF Contract!Clear
<1> QED
  BY <1>2, <1>3, <1>4 DEF Statement, Contract!ContractNext

---------------------------------------------------------------------------
(* Every step keeps the invariant, and is a call of the contract or hidden *)
(* from it.                                                                *)

Hidden == UNCHANGED Contract!contractVars

LEMMA InitImplements == Init => MemInv /\ Contract!ContractInit
<1> SUFFICES ASSUME Init PROVE MemInv /\ Contract!ContractInit
  OBVIOUS
<1>1. rows = <<>> /\ work = <<>> /\ answer = None /\ DOMAIN <<>> = {}
  BY DEF Init
<1>2. rows \in Tables /\ OneRowPerId(rows)
  <2>1. <<>> \in [{} -> Rows]
    OBVIOUS
  <2> QED
    BY <1>1, <2>1 DEF Tables, OneRowPerId
<1> QED
  BY <1>1, <1>2, EmptyTable DEF MemInv, Contract!ContractInit

(* Steps that leave the rows and open no transaction.                      *)
LEMMA RowsStay ==
  ASSUME MemInv, UNCHANGED rows, DOMAIN work' \subseteq DOMAIN work,
         \A p \in DOMAIN work' : work'[p] = work[p]
  PROVE  MemInv'
  BY DEF MemInv

LEMMA DroppedWork ==
  ASSUME NEW p, work' = Without(work, {p})
  PROVE  /\ DOMAIN work' = DOMAIN work \ {p}
         /\ \A q \in DOMAIN work' : work'[q] = work[q]
  BY DEF Without, Where

LEMMA OpenStep ==
  ASSUME MemInv, NEW p, Open(p)
  PROVE  MemInv' /\ Hidden
  BY RowsStay DEF Open, Hidden, Contract!contractVars, InOrder

(* The statement of a transaction runs when no other one is open.          *)
LEMMA ExecuteStep ==
  ASSUME MemInv, NEW p, NEW table, NEW told, Execute(p, table, told),
         Statement(rows, p, [table |-> table, told |-> told])
  PROVE  MemInv' /\ Hidden
<1> DEFINE w == [table |-> table, told |-> told]
<1>1. /\ DOMAIN work = {} /\ UNCHANGED <<rows, opened, answer>>
      /\ work' = With(work, p, w)
  BY DEF Execute, Unlocked
<1>2. DOMAIN work' = {p} /\ work'[p] = w
  BY <1>1 DEF With
<1> HIDE DEF w
<1>3. MemInv'
  BY <1>1, <1>2 DEF MemInv, w
<1>4. Hidden
  BY <1>1 DEF Hidden, Contract!contractVars, InOrder
<1> QED
  BY <1>3, <1>4

LEMMA AddStep ==
  ASSUME MemInv, NEW p \in Processes, NEW id \in Ids, NEW value \in Values, Add(p, id, value)
  PROVE  MemInv' /\ Hidden
<1> DEFINE table == Upserted(rows, Row(id, JSON[value]))
           told == Told(p, "add", id, {value}, "stored", <<>>)
<1>1. Execute(p, table, told)
  BY DEF Add
<1>2. Adds(rows, p, id, value, [table |-> table, told |-> told])
  BY DEF Add, Adds
<1>3. Statement(rows, p, [table |-> table, told |-> told])
  BY <1>2 DEF Statement
<1> HIDE DEF table, told
<1> QED
  BY <1>1, <1>3, ExecuteStep

LEMMA DeleteStep ==
  ASSUME MemInv, NEW p \in Processes, NEW id \in Ids, Delete(p, id)
  PROVE  MemInv' /\ Hidden
<1> DEFINE table == Without(rows, RowsOf(rows, id))
           told == Told(p, "delete", id, {},
                        IF RowsOf(rows, id) = {} THEN "absent" ELSE "deleted", <<>>)
<1>1. Execute(p, table, told)
  BY DEF Delete
<1>2. Deletes(rows, p, id, [table |-> table, told |-> told])
  BY DEF Deletes
<1>3. Statement(rows, p, [table |-> table, told |-> told])
  BY <1>2 DEF Statement
<1> HIDE DEF table, told
<1> QED
  BY <1>1, <1>3, ExecuteStep

LEMMA ClearStep ==
  ASSUME MemInv, NEW p \in Processes, Clear(p)
  PROVE  MemInv' /\ Hidden
<1> DEFINE told == Told(p, "clear", None, {}, "cleared", <<>>)
<1>1. Execute(p, <<>>, told)
  BY DEF Clear
<1>2. Statement(rows, p, [table |-> <<>>, told |-> told])
  BY DEF Statement, Clears
<1> HIDE DEF told
<1> QED
  BY <1>1, <1>2, ExecuteStep

LEMMA CommitStep ==
  ASSUME MemInv, NEW p \in Processes, Commit(p)
  PROVE  MemInv' /\ Contract!ContractNext
<1>1. /\ p \in DOMAIN work /\ rows' = work[p].table /\ answer' = work[p].told
      /\ work' = Without(work, {p})
  BY DEF Commit
<1>2. rows' \in Tables /\ OneRowPerId(rows') /\ Contract!ContractNext
  BY <1>1, StatementImplements DEF MemInv
<1>3. DOMAIN work' = {}
  BY <1>1, DroppedWork DEF MemInv
<1> QED
  BY <1>2, <1>3 DEF MemInv

LEMMA FailStep ==
  ASSUME MemInv, NEW p \in Processes, Fail(p)
  PROVE  MemInv' /\ Contract!ContractNext
<1>1. MemInv'
  BY RowsStay, DroppedWork DEF Fail
<1>2. Contract!Fail(p)
  BY ContractReads DEF Fail, Contract!Fail, InOrder
<1> QED
  BY <1>1, <1>2 DEF Contract!ContractNext

LEMMA GetStep ==
  ASSUME MemInv, NEW p \in Processes, NEW id \in Ids, Get(p, id)
  PROVE  MemInv' /\ Contract!ContractNext
<1>1. /\ answer' = Told(p, "get", id, {}, "found", InOrder(Where(rows, RowsOf(rows, id))))
      /\ UNCHANGED <<rows, work>>
  BY DEF Get, Read
<1>2. MemInv'
  BY <1>1, RowsStay
<1>3. InOrder(Where(rows, RowsOf(rows, id))) =
        Contract!Those({i \in DOMAIN InOrder(rows) : InOrder(rows)[i].id = id})
  BY PositionsOf, ContractReads DEF MemInv
<1>4. Contract!Told(p, "get", id, {}, "found",
                    Contract!Those({i \in DOMAIN InOrder(rows) : InOrder(rows)[i].id = id}))
  BY <1>1, <1>3, ContractReads
<1>5. InOrder(rows)' = InOrder(rows)
  BY <1>1 DEF InOrder
<1>6. Contract!Get(p, id)
  BY <1>4, <1>5 DEF Contract!Get
<1> QED
  BY <1>2, <1>6 DEF Contract!ContractNext

LEMMA SearchStep ==
  ASSUME MemInv, NEW p \in Processes, NEW query \in Queries, Search(p, query)
  PROVE  MemInv' /\ Contract!ContractNext
<1>1. /\ answer' = Told(p, "search", None, query, "found",
                        InOrder(Where(rows, {r \in DOMAIN rows : rows[r].value \in query})))
      /\ UNCHANGED <<rows, work>>
  BY DEF Search, Read
<1>2. MemInv'
  BY <1>1, RowsStay
<1>3. InOrder(Where(rows, {r \in DOMAIN rows : rows[r].value \in query})) =
        Contract!Those({i \in DOMAIN InOrder(rows) : InOrder(rows)[i].value \in query})
  BY PositionsOf, ContractReads DEF MemInv
<1>4. Contract!Told(p, "search", None, query, "found",
         Contract!Those({i \in DOMAIN InOrder(rows) : InOrder(rows)[i].value \in query}))
  BY <1>1, <1>3, ContractReads
<1>5. InOrder(rows)' = InOrder(rows)
  BY <1>1 DEF InOrder
<1>6. Contract!Search(p, query)
  BY <1>4, <1>5 DEF Contract!Search
<1> QED
  BY <1>2, <1>6 DEF Contract!ContractNext

LEMMA CrashStep ==
  ASSUME MemInv, NEW p \in Processes, Crash(p)
  PROVE  MemInv' /\ Hidden
<1>1. UNCHANGED <<rows, answer>> /\ work' = Without(work, {p})
  BY DEF Crash, Left
<1>2. MemInv'
  BY <1>1, RowsStay, DroppedWork
<1>3. Hidden
  BY <1>1 DEF Hidden, Contract!contractVars, InOrder
<1> QED
  BY <1>2, <1>3

LEMMA NextImplements ==
  ASSUME MemInv, [Next]_vars
  PROVE  MemInv' /\ [Contract!ContractNext]_(Contract!contractVars)
<1>1. CASE UNCHANGED vars
  <2>1. UNCHANGED <<rows, work, answer>>
    BY <1>1 DEF vars
  <2>2. MemInv'
    BY <2>1, RowsStay
  <2>3. Hidden
    BY <2>1 DEF Hidden, Contract!contractVars, InOrder
  <2> QED
    BY <2>2, <2>3 DEF Hidden
<1>2. ASSUME NEW p \in Processes,
             \/ Open(p)
             \/ \E id \in Ids :
                  \/ \E value \in Values : Add(p, id, value)
                  \/ Delete(p, id)
                  \/ Get(p, id)
             \/ \E query \in Queries : Search(p, query)
             \/ Clear(p)
             \/ Commit(p)
             \/ Fail(p)
             \/ Crash(p)
      PROVE  MemInv' /\ (Contract!ContractNext \/ Hidden)
  BY <1>2, OpenStep, AddStep, DeleteStep, GetStep, SearchStep, ClearStep, CommitStep,
     FailStep, CrashStep
<1> QED
  BY <1>1, <1>2 DEF Next, Hidden

(* The rows are a table with one row per id, a primary key, whatever the   *)
(* processes that write to it do and wherever they die; and at most one of *)
(* them has a transaction open.                                            *)
THEOREM TableIsKept ==
  Spec => [](rows \in Tables /\ OneRowPerId(rows) /\ \A p, q \in DOMAIN work : p = q)
<1>1. MemInv => rows \in Tables /\ OneRowPerId(rows) /\ \A p, q \in DOMAIN work : p = q
  BY DEF MemInv
<1> QED
  BY <1>1, InitImplements, NextImplements, PTL DEF Spec

(* However processes interleave, fail and die, the file is the one ordered *)
(* map of MemoryStore: a commit or a read is the moment at which a call    *)
(* takes effect, and everything else is invisible (sqlite_store.py).       *)
THEOREM StoreImplementsContract == Spec => RefinesContract
<1> QED
  BY InitImplements, NextImplements, PTL DEF Spec, RefinesContract, Contract!ContractSpec
=============================================================================
