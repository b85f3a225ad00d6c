----------------------------- MODULE LedgerProofs -----------------------------
(***************************************************************************)
(* What the vault's tables hold together for any number of accounts,        *)
(* statements, rows, rules, categories and transfers, any files and any     *)
(* order of operations; then what the window over them shows, asks, writes  *)
(* and lets go of, whatever is done in it.                                  *)
(*                                                                          *)
(* Three inductive invariants, each resting on the one before: LInv, types, *)
(* references and transfers; FInv, the category tree and what points into   *)
(* it; KInv, what a statement holds. Each is stated of tables rather than   *)
(* of the variables, so that one lemma serves both the state before a step  *)
(* and the state after it, and the steps between when an operation changes  *)
(* a table twice. A step of the window is a step of the tables or none, so  *)
(* they are the window's as well; a fourth, WInv, is of the window alone.   *)
(*                                                                          *)
(* Four definitions choose by a property: the first statement, the first    *)
(* rule, the greedy pass and what is above a category. What they choose is  *)
(* proved to exist from the finiteness of the tables.                       *)
(***************************************************************************)
EXTENDS Workspace, FiniteSetTheorems, WellFoundedInduction, TLAPS

-------------------------------------------------------------------------------
(* Finite sets, orders and iteration.                                        *)

(* A family of subsets of a finite set has a minimal member.                 *)
LEMMA FiniteSetMinimal ==
  ASSUME NEW S, IsFiniteSet(S), NEW F \in SUBSET SUBSET S, F # {}
  PROVE  \E T \in F : \A U \in F : U \subseteq T => U = T
<1> DEFINE R == StrictSubsetOrdering(S)
<1>1. IsWellFoundedOn(R, FiniteSubsetsOf(S)) BY FS_StrictSubsetOrderingWellFounded
<1>2. F \subseteq FiniteSubsetsOf(S) BY FS_Subset DEF FiniteSubsetsOf
<1>3. PICK T \in F : \A U \in F : <<U, T>> \notin R
  <2> HIDE DEF R
  <2> QED BY <1>1, <1>2, WFMin
<1> QED BY <1>2, <1>3 DEF StrictSubsetOrdering

(* Induction over the naturals, of a set in place of a predicate.            *)
LEMMA NatSetInduction ==
  ASSUME NEW S \in SUBSET Nat, 0 \in S, \A n \in S : n + 1 \in S
  PROVE  S = Nat
<1> SUFFICES ASSUME NEW n \in Nat, n \notin S PROVE FALSE OBVIOUS
<1> DEFINE F == {0..m : m \in {m \in Nat : m \notin S /\ m <= n}}
<1>1. IsFiniteSet(0..n) BY FS_Interval
<1>2. F \in SUBSET SUBSET (0..n) /\ F # {} OBVIOUS
<1>3. PICK T \in F : \A U \in F : U \subseteq T => U = T
  <2> HIDE DEF F
  <2>1. PICK I : I = 0..n OBVIOUS
  <2>2. IsFiniteSet(I) /\ F \in SUBSET SUBSET I /\ F # {} BY <1>1, <1>2, <2>1
  <2>3. \E T \in F : \A U \in F : U \subseteq T => U = T
    <3> HIDE <2>1
    <3> QED BY <2>2, FiniteSetMinimal
  <2> QED BY <2>3
<1>4. PICK m \in Nat : m \notin S /\ m <= n /\ T = 0..m BY <1>3
<1>5. m # 0 /\ m - 1 \in Nat BY <1>4
<1>6. m - 1 \notin S
  <2>1. (m - 1) + 1 = m BY <1>5
  <2> QED BY <1>4, <2>1
<1>7. 0..(m - 1) \in F BY <1>4, <1>5, <1>6
<1>8. 0..(m - 1) \subseteq T /\ m \in T /\ m \notin 0..(m - 1) BY <1>4, <1>5
<1> QED BY <1>3, <1>7, <1>8

(* Some sequence in X starts at x0 and goes on by F.                         *)
HasOrbit(X, x0, F) == \E h \in [Nat -> X] : h[0] = x0 /\ \A n \in Nat : h[n + 1] = F[h[n]]

(* A function can be iterated from any start.                                *)
LEMMA NatRecursion ==
  ASSUME NEW X, NEW x0 \in X, NEW F \in [X -> X]
  PROVE  HasOrbit(X, x0, F)
<1> DEFINE IsTrace(g, n) == g \in [0..n -> X] /\ g[0] = x0 /\ \A m \in 0..(n - 1) : g[m + 1] = F[g[m]]
           Done == {n \in Nat : \E g : IsTrace(g, n)}
<1>1. Done = Nat
  <2>1. 0 \in Done
    <3>1. IsTrace([i \in 0..0 |-> x0], 0) OBVIOUS
    <3> QED BY <3>1
  <2>2. ASSUME NEW n \in Done PROVE n + 1 \in Done
    <3>1. PICK g : IsTrace(g, n) OBVIOUS
    <3>2. n \in Nat /\ g[n] \in X BY <3>1
    <3>3. PICK h : h = [i \in 0..(n + 1) |-> IF i = n + 1 THEN F[g[n]] ELSE g[i]] OBVIOUS
    <3>4. h \in [0..(n + 1) -> X]
      <4>1. F[g[n]] \in X BY <3>2
      <4>2. \A i \in 0..(n + 1) : i # n + 1 => i \in 0..n BY <3>2
      <4> QED BY <3>1, <3>3, <4>1, <4>2
    <3>5. h[0] = x0 BY <3>1, <3>2, <3>3
    <3>6. ASSUME NEW m \in 0..((n + 1) - 1) PROVE h[m + 1] = F[h[m]]
      <4>1. h[m] = g[m] BY <3>2, <3>3
      <4>2. CASE m = n BY <3>2, <3>3, <4>1, <4>2
      <4>3. CASE m # n
        <5>1. m \in 0..(n - 1) /\ m + 1 # n + 1 /\ m + 1 \in 0..(n+1) BY <3>2, <4>3
        <5>2. h[m + 1] = g[m + 1] BY <3>3, <5>1
        <5> QED BY <3>1, <4>1, <5>1, <5>2
      <4> QED BY <4>2, <4>3
    <3>7. IsTrace(h, n + 1) BY <3>4, <3>5, <3>6
    <3> QED BY <3>2, <3>7
  <2> HIDE DEF Done
  <2>3. Done \in SUBSET Nat BY DEF Done
  <2> QED BY <2>1, <2>2, <2>3, NatSetInduction
<1>2. ASSUME NEW n \in Nat, NEW g, NEW k \in Nat, NEW h, IsTrace(g, n), IsTrace(h, k)
      PROVE  \A m \in Nat : m <= n /\ m <= k => g[m] = h[m]
  <2> DEFINE Same == {m \in Nat : m <= n /\ m <= k => g[m] = h[m]}
  <2>1. 0 \in Same BY <1>2
  <2>2. ASSUME NEW m \in Same PROVE m + 1 \in Same
    <3> SUFFICES ASSUME m + 1 <= n, m + 1 <= k PROVE g[m + 1] = h[m + 1] OBVIOUS
    <3>1. m \in 0..(n - 1) /\ m \in 0..(k - 1) OBVIOUS
    <3>2. g[m] = h[m] BY <3>1
    <3> QED BY <1>2, <3>1, <3>2
  <2> HIDE DEF Same
  <2>3. Same \in SUBSET Nat BY DEF Same
  <2>4. Same = Nat BY <2>1, <2>2, <2>3, NatSetInduction
  <2> QED BY <2>4 DEF Same
<1>3. PICK tr : tr = [n \in Nat |-> CHOOSE g : IsTrace(g, n)] OBVIOUS
<1>4. \A n \in Nat : IsTrace(tr[n], n)
  <2> TAKE n \in Nat
  <2>1. \E g : IsTrace(g, n) BY <1>1
  <2> HIDE DEF IsTrace
  <2>2. IsTrace(CHOOSE g : IsTrace(g, n), n) BY <2>1
  <2> QED BY <1>3, <2>2
<1>5. PICK h : h = [n \in Nat |-> tr[n][n]] OBVIOUS
<1>6. h \in [Nat -> X]
  <2>1. \A n \in Nat : tr[n][n] \in X BY <1>4
  <2> QED BY <1>5, <2>1
<1>7. h[0] = x0 BY <1>4, <1>5
<1>8. ASSUME NEW n \in Nat PROVE h[n + 1] = F[h[n]]
  <2>1. IsTrace(tr[n + 1], n + 1) /\ IsTrace(tr[n], n) BY <1>4
  <2>2. tr[n + 1][n] = tr[n][n]
    <3>1. n + 1 \in Nat /\ n <= n + 1 /\ n <= n OBVIOUS
    <3> HIDE DEF IsTrace
    <3> QED BY <1>2, <2>1, <3>1
  <2>3. tr[n + 1][n + 1] = F[tr[n + 1][n]] BY <2>1
  <2> QED BY <1>5, <2>2, <2>3
<1> QED BY <1>6, <1>7, <1>8 DEF HasOrbit

(* A finite set in a linear order, strict or not, has a first element.       *)
LEMMA LinearMin ==
  ASSUME NEW S, IsFiniteSet(S), S # {}, NEW R,
         \A x, y \in S : x = y \/ <<x, y>> \in R \/ <<y, x>> \in R,
         \A x, y, z \in S : <<x, y>> \in R /\ <<y, z>> \in R => <<x, z>> \in R
  PROVE  \E m \in S : \A y \in S \ {m} : <<m, y>> \in R
<1> DEFINE Down(x) == {y \in S : y = x \/ <<y, x>> \in R}
<1>1. PICK F : F = {Down(x) : x \in S} OBVIOUS
<1>2. F \in SUBSET SUBSET S /\ F # {}
  <2>1. \A x \in S : Down(x) \in SUBSET S OBVIOUS
  <2> HIDE DEF Down
  <2> QED BY <1>1, <2>1
<1>3. PICK T \in F : \A U \in F : U \subseteq T => U = T BY <1>2, FiniteSetMinimal
<1>4. PICK m \in S : T = Down(m) BY <1>1, <1>3
<1>5. ASSUME NEW y \in S, y # m, <<m, y>> \notin R PROVE FALSE
  <2>1. <<y, m>> \in R BY <1>5
  <2>2. Down(y) \subseteq Down(m) BY <2>1
  <2>3. Down(y) = Down(m)
    <3>1. Down(y) \in F BY <1>1
    <3> HIDE DEF Down
    <3> QED BY <1>3, <1>4, <2>2, <3>1
  <2>4. m \in Down(y) BY <2>3
  <2> QED BY <1>5, <2>4
<1> QED BY <1>5

(* A finite set of integers has a smallest element.                          *)
LEMMA LeastInt ==
  ASSUME NEW S \in SUBSET Int, IsFiniteSet(S), S # {}
  PROVE  \E m \in S : \A y \in S : m <= y
<1> DEFINE R == {xy \in S \X S : xy[1] <= xy[2]}
<1>1. \A x, y \in S : x = y \/ <<x, y>> \in R \/ <<y, x>> \in R OBVIOUS
<1>2. \A x, y, z \in S : <<x, y>> \in R /\ <<y, z>> \in R => <<x, z>> \in R OBVIOUS
<1>3. \E m \in S : \A y \in S \ {m} : <<m, y>> \in R
  <2> HIDE DEF R
  <2> QED BY <1>1, <1>2, LinearMin
<1>4. PICK m \in S : \A y \in S \ {m} : <<m, y>> \in R BY <1>3
<1>5. ASSUME NEW y \in S PROVE m <= y
  <2>1. m \in Int /\ y \in Int OBVIOUS
  <2>2. y = m \/ <<m, y>> \in R BY <1>4
  <2> QED BY <2>1, <2>2
<1> QED BY <1>5

(* A finite set of integers has a largest element.                           *)
LEMMA GreatestInt ==
  ASSUME NEW S \in SUBSET Int, IsFiniteSet(S), S # {}
  PROVE  \E m \in S : \A y \in S : y <= m
<1> DEFINE R == {xy \in S \X S : xy[2] <= xy[1]}
<1>1. \A x, y \in S : x = y \/ <<x, y>> \in R \/ <<y, x>> \in R OBVIOUS
<1>2. \A x, y, z \in S : <<x, y>> \in R /\ <<y, z>> \in R => <<x, z>> \in R OBVIOUS
<1>3. \E m \in S : \A y \in S \ {m} : <<m, y>> \in R
  <2> HIDE DEF R
  <2> QED BY <1>1, <1>2, LinearMin
<1>4. PICK m \in S : \A y \in S \ {m} : <<m, y>> \in R BY <1>3
<1>5. ASSUME NEW y \in S PROVE y <= m
  <2>1. m \in Int /\ y \in Int OBVIOUS
  <2>2. y = m \/ <<m, y>> \in R BY <1>4
  <2> QED BY <2>1, <2>2
<1> QED BY <1>5

(* The image of a finite set is finite.                                      *)
LEMMA FiniteImage ==
  ASSUME NEW f, IsFiniteSet(DOMAIN f)
  PROVE  IsFiniteSet({f[x] : x \in DOMAIN f})
<1> DEFINE T == {f[x] : x \in DOMAIN f}
           g == [x \in DOMAIN f |-> f[x]]
<1>1. g \in Surjection(DOMAIN f, T) BY DEF Surjection
<1> QED BY <1>1, FS_Surjection

(* Some part T of S holds just the elements compatible, by C, with every     *)
(* element of T that comes before them, by R.                                *)
HasKernel(S, R, C) ==
  \E T \in SUBSET S : \A x \in S : x \in T <=> \A y \in T : <<y, x>> \in R => <<y, x>> \in C

(* A finite set in a strict linear order has a kernel: take the elements in  *)
(* order, each if it is compatible with all taken before it.                 *)
LEMMA GreedyKernel ==
  ASSUME NEW S, IsFiniteSet(S), NEW R, NEW C,
         \A x, y \in S : x = y \/ <<x, y>> \in R \/ <<y, x>> \in R,
         \A x, y \in S : <<x, y>> \in R => <<y, x>> \notin R,
         \A x, y, z \in S : <<x, y>> \in R /\ <<y, z>> \in R => <<x, z>> \in R
  PROVE  HasKernel(S, R, C)
<1> DEFINE Of(U, T) == T \in SUBSET U /\ T = {x \in U : \A y \in T : <<y, x>> \in R => <<y, x>> \in C}
           Bad == {U \in SUBSET S : ~ \E T : Of(U, T)}
<1>1. Bad = {}
  <2> SUFFICES ASSUME Bad # {} PROVE FALSE OBVIOUS
  <2>1. PICK U \in Bad : \A V \in Bad : V \subseteq U => V = U
    <3>1. Bad \in SUBSET SUBSET S OBVIOUS
    <3> HIDE DEF Bad
    <3> QED BY <3>1, FiniteSetMinimal
  <2>2. U \in SUBSET S /\ ~ \E T : Of(U, T) BY <2>1
  <2>3. U # {}
    <3>1. U = {} => Of(U, {}) OBVIOUS
    <3> HIDE DEF Of
    <3> QED BY <2>2, <3>1
  <2>4. PICK m \in U : \A y \in U \ {m} : <<y, m>> \in R
    <3> DEFINE Q == {yx \in S \X S : <<yx[2], yx[1]>> \in R}
    <3>1. \A x, y \in S : <<x, y>> \in Q <=> <<y, x>> \in R OBVIOUS
    <3>2. IsFiniteSet(U) BY <2>2, FS_Subset
    <3> HIDE DEF Q, Of, Bad
    <3>3. \A x, y \in U : x = y \/ <<x, y>> \in Q \/ <<y, x>> \in Q BY <2>2, <3>1
    <3>4. \A x, y, z \in U : <<x, y>> \in Q /\ <<y, z>> \in Q => <<x, z>> \in Q
      <4> TAKE x, y, z \in U
      <4>1. x \in S /\ y \in S /\ z \in S BY <2>2
      <4>2. <<z, y>> \in R /\ <<y, x>> \in R => <<z, x>> \in R BY <4>1
      <4> QED BY <3>1, <4>1, <4>2
    <3>5. PICK n \in U : \A y \in U \ {n} : <<n, y>> \in Q BY <2>3, <3>2, <3>3, <3>4, LinearMin
    <3>6. \A y \in U \ {n} : <<y, n>> \in R
      <4> SUFFICES ASSUME NEW y \in U \ {n} PROVE <<y, n>> \in R OBVIOUS
      <4>1. <<n, y>> \in Q BY <3>5
      <4>2. n \in S /\ y \in S BY <2>2
      <4> QED BY <3>1, <4>1, <4>2
    <3> QED BY <3>6
  <2>5. PICK T : Of(U \ {m}, T)
    <3>1. U \ {m} \notin Bad
      <4> HIDE DEF Bad
      <4> QED BY <2>1
    <3> HIDE DEF Of
    <3> QED BY <2>2, <3>1
  <2>6. <<m, m>> \notin R /\ \A x \in U \ {m} : <<m, x>> \notin R BY <2>2, <2>4
  <2>7. CASE \A y \in T : <<y, m>> \in C
    <3>1. Of(U, T \cup {m}) BY <2>5, <2>6, <2>7
    <3> HIDE DEF Of
    <3> QED BY <2>2, <3>1
  <2>8. CASE \E y \in T : <<y, m>> \notin C
    <3>1. Of(U, T) BY <2>4, <2>5, <2>8
    <3> HIDE DEF Of
    <3> QED BY <2>2, <3>1
  <2> QED BY <2>7, <2>8
<1>2. \E T : Of(S, T)
  <2> HIDE DEF Of
  <2> QED BY <1>1
<1> QED BY <1>2 DEF HasKernel


-----------------------------------------------------------------------------
(* Tables.                                                                   *)

(* Max and Min find what they are named for.                                 *)
LEMMA MaxFacts ==
    ASSUME NEW S \in SUBSET Int, IsFiniteSet(S), S # {}
    PROVE  Max(S) \in S /\ \A x \in S : x <= Max(S)
  <1>1. PICK m \in S : \A y \in S : y <= m BY GreatestInt
  <1>2. \A y \in S : m >= y BY <1>1
  <1>3. /\ Max(S) \in S /\ \A y \in S : Max(S) >= y BY <1>2 DEF Max
  <1> QED BY <1>3

(* Min finds the smallest.                                                   *)
LEMMA MinFacts ==
    ASSUME NEW S \in SUBSET Int, IsFiniteSet(S), S # {}
    PROVE  Min(S) \in S /\ \A x \in S : Min(S) <= x
  <1>1. PICK m \in S : \A y \in S : m <= y BY LeastInt
  <1> QED BY <1>1 DEF Min

(* A new id is an id, and larger than every id in the table.                 *)
LEMMA NewIdFacts ==
    ASSUME NEW table, Ids(DOMAIN table)
    PROVE  /\ NewId(table) \in Nat \ {0}
           /\ \A i \in DOMAIN table : i < NewId(table)
           /\ NewId(table) \notin DOMAIN table
  <1>1. CASE DOMAIN table = {} BY <1>1 DEF NewId
  <1>2. CASE DOMAIN table # {}
    <2>1. DOMAIN table \in SUBSET Int /\ IsFiniteSet(DOMAIN table) BY DEF Ids
    <2>2. PICK m : m = Max(DOMAIN table) OBVIOUS
    <2>3. m \in DOMAIN table /\ \A x \in DOMAIN table : x <= m
      BY <1>2, <2>1, <2>2, MaxFacts
    <2>4. NewId(table) = m + 1 BY <1>2, <2>2 DEF NewId
    <2>5. m \in Nat \ {0} /\ \A x \in DOMAIN table : x \in Nat BY <2>3 DEF Ids
    <2> QED BY <2>3, <2>4, <2>5
  <1> QED BY <1>1, <1>2

(* Writing a row and deleting rows keep a table a table.                     *)
LEMMA PutFacts ==
    ASSUME NEW R, NEW table, Table(table, R), NEW id \in Nat \ {0}, NEW row \in R
    PROVE  /\ Table(Put(table, id, row), R)
           /\ DOMAIN Put(table, id, row) = DOMAIN table \cup {id}
           /\ Put(table, id, row)[id] = row
           /\ \A i \in DOMAIN table \ {id} : Put(table, id, row)[i] = table[i]
  <1>1. IsFiniteSet(DOMAIN table \cup {id}) BY FS_AddElement DEF Table, Ids
  <1> QED BY <1>1 DEF Table, Ids, Put

(* Taking rows out.                                                          *)
LEMMA WithoutFacts ==
    ASSUME NEW R, NEW table, Table(table, R), NEW gone
    PROVE  /\ Table(Without(table, gone), R)
           /\ DOMAIN Without(table, gone) = DOMAIN table \ gone
           /\ \A i \in DOMAIN table \ gone : Without(table, gone)[i] = table[i]
  <1>1. IsFiniteSet(DOMAIN table \ gone) BY FS_Subset DEF Table, Ids
  <1> QED BY <1>1 DEF Table, Ids, Without, Restrict

-----------------------------------------------------------------------------
(* The order a table is read in has a first and a last row.                  *)

(* FirstStatement, which reassignment takes its rows to, is the statement    *)
(* that starts first, the older of two that start together.                  *)
LEMMA FirstStatementFacts ==
    ASSUME NEW ps, Table(ps, PeriodRow), NEW qs \in SUBSET DOMAIN ps, qs # {}
    PROVE  /\ FirstStatement(ps, qs) \in qs
           /\ \A r \in qs : \/ ps[FirstStatement(ps, qs)].start < ps[r].start
                            \/ /\ ps[FirstStatement(ps, qs)].start = ps[r].start
                               /\ FirstStatement(ps, qs) <= r
  <1> DEFINE R == {xy \in qs \X qs : \/ ps[xy[1]].start < ps[xy[2]].start
                                     \/ ps[xy[1]].start = ps[xy[2]].start /\ xy[1] <= xy[2]}
  <1>1. \A q \in qs : ps[q].start \in Int /\ q \in Nat BY DEF Table, Ids, PeriodRow
  <1>2. IsFiniteSet(qs) BY FS_Subset DEF Table, Ids
  <1>3. \A x, y \in qs : x = y \/ <<x, y>> \in R \/ <<y, x>> \in R BY <1>1
  <1>4. \A x, y, z \in qs : <<x, y>> \in R /\ <<y, z>> \in R => <<x, z>> \in R BY <1>1
  <1>5. \E m \in qs : \A y \in qs \ {m} : <<m, y>> \in R
    <2> HIDE DEF R
    <2> QED BY <1>2, <1>3, <1>4, LinearMin
  <1>6. PICK m \in qs : \A y \in qs \ {m} : <<m, y>> \in R BY <1>5
  <1>7. \A r \in qs : ps[m].start < ps[r].start \/ (ps[m].start = ps[r].start /\ m <= r)
    <2> TAKE r \in qs
    <2>1. CASE r = m BY <1>1, <2>1
    <2>2. CASE r # m
      <3>1. <<m, r>> \in R BY <1>6, <2>2
      <3> QED BY <3>1
    <2> QED BY <2>1, <2>2
  <1>8. PICK n : n = FirstStatement(ps, qs) OBVIOUS
  <1>9. n \in qs /\ \A r \in qs : ps[n].start < ps[r].start \/ (ps[n].start = ps[r].start /\ n <= r)
    BY <1>7, <1>8 DEF FirstStatement
  <1> QED BY <1>8, <1>9

(* A rule that matches: the first one is among them.                         *)
LEMMA FirstRule ==
    ASSUME NEW rs, Table(rs, RuleRow), NEW S \in SUBSET DOMAIN rs, S # {}
    PROVE  /\ \E r \in S : \A q \in S \ {r} : Before(rs, r, q)
           /\ \E r \in S : \A q \in S \ {r} : Before(rs, q, r)
  <1> DEFINE R == {xy \in S \X S : Before(rs, xy[1], xy[2])}
             Q == {xy \in S \X S : Before(rs, xy[2], xy[1])}
  <1>1. \A r \in S : rs[r].priority \in Int /\ r \in Nat BY DEF Table, Ids, RuleRow
  <1>2. IsFiniteSet(S) BY FS_Subset DEF Table, Ids
  <1>3. \A x, y \in S : x = y \/ Before(rs, x, y) \/ Before(rs, y, x) BY <1>1 DEF Before
  <1>4. \A x, y, z \in S : Before(rs, x, y) /\ Before(rs, y, z) => Before(rs, x, z)
    BY <1>1 DEF Before
  <1>5. \E m \in S : \A y \in S \ {m} : <<m, y>> \in R
    <2>1. \A x, y \in S : <<x, y>> \in R <=> Before(rs, x, y) OBVIOUS
    <2> HIDE DEF R
    <2> QED BY <1>2, <1>3, <1>4, <2>1, LinearMin
  <1>6. \E m \in S : \A y \in S \ {m} : <<m, y>> \in Q
    <2>1. \A x, y \in S : <<x, y>> \in Q <=> Before(rs, y, x) OBVIOUS
    <2> HIDE DEF Q
    <2> QED BY <1>2, <1>3, <1>4, <2>1, LinearMin
  <1> QED BY <1>5, <1>6

(* The category a library entry names is a leaf, or there is none.           *)
LEMMA NamedIsLeaf ==
    ASSUME NEW cats, Table(cats, CategoryRow), NEW name
    PROVE  NamedCategory(cats, name) = None \/ Leaf(cats, NamedCategory(cats, name))
  <1> DEFINE all  == {c \in DOMAIN cats : Leaf(cats, c) /\ cats[c].name = name}
             home == {c \in all : \E s \in DOMAIN Seed \ Roots :
                              Seed[s].name = name /\ Seed[s].parent \in Above(cats, c)}
             pool == IF home # {} THEN home ELSE all
             R == {xy \in pool \X pool :
                     \/ cats[xy[1]].parent < cats[xy[2]].parent
                     \/ cats[xy[1]].parent = cats[xy[2]].parent /\ xy[1] <= xy[2]}
             IsFirst(c) == \A d \in pool : \/ cats[c].parent < cats[d].parent
                                           \/ cats[c].parent = cats[d].parent /\ c <= d
  <1>1. pool \subseteq all OBVIOUS
  <1> HIDE DEF home
  <1>2. \A c \in pool : cats[c].parent \in Nat /\ c \in Nat /\ Leaf(cats, c)
    BY <1>1 DEF Table, Ids, CategoryRow
  <1>3. CASE pool = {}
    BY <1>3 DEF NamedCategory, home
  <1>4. CASE pool # {}
    <2>1. IsFiniteSet(pool) BY <1>1, FS_Subset DEF Table, Ids
    <2> HIDE DEF pool
    <2>2. \A x, y \in pool : x = y \/ <<x, y>> \in R \/ <<y, x>> \in R BY <1>2
    <2>3. \A x, y, z \in pool : <<x, y>> \in R /\ <<y, z>> \in R => <<x, z>> \in R BY <1>2
    <2>4. \E m \in pool : \A y \in pool \ {m} : <<m, y>> \in R
      <3> HIDE DEF R
      <3> QED BY <1>4, <2>1, <2>2, <2>3, LinearMin
    <2>5. PICK m \in pool : \A y \in pool \ {m} : <<m, y>> \in R BY <2>4
    <2>6. IsFirst(m)
      <3> TAKE d \in pool
      <3>1. CASE d = m BY <1>2, <3>1
      <3>2. CASE d # m
        <4>1. <<m, d>> \in R BY <2>5, <3>2
        <4> QED BY <4>1
      <3> QED BY <3>1, <3>2
    <2>7. PICK n : n = NamedCategory(cats, name) OBVIOUS
    <2>8. n = IF pool = {} THEN None ELSE CHOOSE c \in pool : IsFirst(c)
      BY <2>7, Zenon DEF NamedCategory, pool, home
    <2> HIDE DEF IsFirst
    <2>9. n \in pool BY <1>4, <2>6, <2>8, Zenon
    <2> QED BY <1>2, <2>7, <2>9
  <1> QED BY <1>3, <1>4

(* Above is the least set that holds c and the parent of each of its members. *)
LEMMA AboveIsLeast ==
    ASSUME NEW cats, IsFiniteSet(DOMAIN cats), UpClosed(cats, DOMAIN cats), NEW c \in DOMAIN cats
    PROVE  /\ c \in Above(cats, c) /\ Above(cats, c) \subseteq DOMAIN cats
           /\ UpClosed(cats, Above(cats, c))
           /\ \A S : c \in S /\ UpClosed(cats, S) => Above(cats, c) \subseteq S
  <1> DEFINE D == DOMAIN cats
             Step(s) == s \cup ({cats[d].parent : d \in s} \ {None})
             F == [s \in SUBSET D |-> Step(s)]
  <1>1. F \in [SUBSET D -> SUBSET D] BY DEF UpClosed
  <1>2. \E h \in [Nat -> SUBSET D] : h[0] = {c} /\ \A n \in Nat : h[n + 1] = F[h[n]]
    <2>1. PICK X : X = SUBSET D OBVIOUS
    <2>2. PICK f : f = F OBVIOUS
    <2>3. PICK x0 : x0 = {c} OBVIOUS
    <2>4. \E h \in [Nat -> X] : h[0] = x0 /\ \A n \in Nat : h[n + 1] = f[h[n]]
      <3>1. x0 \in X /\ f \in [X -> X] BY <1>1, <2>1, <2>2, <2>3
      <3>2. HasOrbit(X, x0, f) BY ONLY <3>1, NatRecursion
      <3> QED BY ONLY <3>2 DEF HasOrbit
    <2> QED BY <2>1, <2>2, <2>3, <2>4
  <1> DEFINE Is(g) == g = [n \in Nat |-> IF n = 0 THEN {c} ELSE Step(g[n - 1])]
             up == CHOOSE g : Is(g)
  <1>3. Is(up)
    <2>1. PICK h \in [Nat -> SUBSET D] : h[0] = {c} /\ \A n \in Nat : h[n + 1] = F[h[n]] BY <1>2
    <2>2. ASSUME NEW n \in Nat, n # 0 PROVE h[n] = Step(h[n - 1])
      <3>1. n - 1 \in Nat /\ (n - 1) + 1 = n BY <2>2
      <3>2. h[n] = F[h[n - 1]] BY <2>1, <3>1
      <3> QED BY <2>1, <3>1, <3>2
    <2> HIDE DEF Step
    <2>3. h = [n \in Nat |-> h[n]] BY <2>1
    <2>4. \A n \in Nat : h[n] = IF n = 0 THEN {c} ELSE Step(h[n - 1]) BY <2>1, <2>2
    <2>5. Is(h) BY <2>3, <2>4
    <2> HIDE DEF Is
    <2> QED BY <2>5
  <1>4. Above(cats, c) = up[Cardinality(DOMAIN cats)]
    BY DEF Above
  <1> HIDE DEF up
  <1>5. up[0] = {c} /\ \A n \in Nat : up[n + 1] = Step(up[n])
    <2> HIDE DEF Step
    <2>1. \A n \in Nat : n + 1 \in Nat /\ n + 1 # 0 /\ (n + 1) - 1 = n OBVIOUS
    <2> QED BY <1>3, <2>1
  <1> HIDE DEF Is
  <1>6. \A n \in Nat : up[n] \in SUBSET D
    <2> DEFINE Good == {n \in Nat : up[n] \in SUBSET D}
    <2>1. 0 \in Good BY <1>5
    <2>2. ASSUME NEW n \in Good PROVE n + 1 \in Good
      <3>1. Step(up[n]) \in SUBSET D BY DEF UpClosed
      <3> QED BY <1>5, <3>1
    <2> HIDE DEF Good
    <2>3. Good \in SUBSET Nat BY DEF Good
    <2>4. Good = Nat BY <2>1, <2>2, <2>3, NatSetInduction
    <2> QED BY <2>4 DEF Good
  <1>7. \A n \in Nat : c \in up[n]
    <2> DEFINE Good == {n \in Nat : c \in up[n]}
    <2>1. 0 \in Good BY <1>5
    <2>2. ASSUME NEW n \in Good PROVE n + 1 \in Good BY <1>5
    <2> HIDE DEF Good
    <2>3. Good \in SUBSET Nat BY DEF Good
    <2>4. Good = Nat BY <2>1, <2>2, <2>3, NatSetInduction
    <2> QED BY <2>4 DEF Good
  <1>8. ASSUME NEW S, c \in S, UpClosed(cats, S) PROVE \A n \in Nat : up[n] \subseteq S
    <2> DEFINE Good == {n \in Nat : up[n] \subseteq S}
    <2>1. 0 \in Good BY <1>5, <1>8
    <2>2. ASSUME NEW n \in Good PROVE n + 1 \in Good
      <3>1. Step(up[n]) \subseteq S BY <1>8 DEF UpClosed
      <3> QED BY <1>5, <3>1
    <2> HIDE DEF Good
    <2>3. Good \in SUBSET Nat BY DEF Good
    <2>4. Good = Nat BY <2>1, <2>2, <2>3, NatSetInduction
    <2> QED BY <2>4 DEF Good
  <1>9. \A n \in Nat : UpClosed(cats, up[n]) \/ Cardinality(up[n]) > n
    <2> DEFINE Good == {n \in Nat : UpClosed(cats, up[n]) \/ Cardinality(up[n]) > n}
    <2>1. 0 \in Good
      <3>1. Cardinality(up[0]) = 1 BY <1>5, FS_Singleton
      <3> QED BY <3>1
    <2>2. ASSUME NEW n \in Good PROVE n + 1 \in Good
      <3>1. up[n + 1] = Step(up[n]) /\ up[n + 1] \in SUBSET D /\ up[n] \in SUBSET D BY <1>5, <1>6
      <3>2. CASE Step(up[n]) = up[n]
        <4>1. UpClosed(cats, up[n]) BY <3>2 DEF UpClosed
        <4>2. up[n + 1] = up[n] BY <3>1, <3>2
        <4> HIDE DEF Step
        <4> QED BY <4>1, <4>2
      <3>3. CASE Step(up[n]) # up[n]
        <4>1. up[n] \subseteq up[n + 1] /\ up[n] # up[n + 1] BY <3>1, <3>3
        <4>2. ~UpClosed(cats, up[n]) BY <3>3 DEF UpClosed
        <4>3. Cardinality(up[n]) > n BY <4>2
        <4>4. IsFiniteSet(up[n + 1]) /\ IsFiniteSet(up[n]) BY <3>1, FS_Subset
        <4>5. /\ Cardinality(up[n]) \in Nat /\ Cardinality(up[n + 1]) \in Nat
              /\ Cardinality(up[n]) <= Cardinality(up[n + 1])
              /\ Cardinality(up[n]) # Cardinality(up[n + 1])
          BY <4>1, <4>4, FS_Subset, FS_CardinalityType
        <4>6. Cardinality(up[n + 1]) > n + 1 BY <4>3, <4>5
        <4> QED BY <4>6
      <3> QED BY <3>2, <3>3
    <2> HIDE DEF Good
    <2>3. Good \in SUBSET Nat BY DEF Good
    <2>4. Good = Nat BY <2>1, <2>2, <2>3, NatSetInduction
    <2> QED BY <2>4 DEF Good
  <1>10. PICK n \in Nat : n = Cardinality(DOMAIN cats) BY FS_CardinalityType
  <1>11. UpClosed(cats, up[n])
    <2>1. up[n] \in SUBSET D BY <1>6
    <2>2. Cardinality(up[n]) <= n BY <1>10, <2>1, FS_Subset
    <2>3. Cardinality(up[n]) \in Nat BY <2>1, FS_Subset, FS_CardinalityType
    <2> QED BY <1>9, <2>2, <2>3
  <1> QED BY <1>4, <1>6, <1>7, <1>8, <1>10, <1>11

-----------------------------------------------------------------------------
(* Filing changes a row's category and source and nothing else.              *)

SameLinks(r, s) == /\ r.account = s.account /\ r.period = s.period
                   /\ r.day = s.day /\ r.amount = s.amount /\ r.desc = s.desc

\* What filing may put a row under: nothing, an assignable category, a rule's.
MayFile(cats, rs, c) == c = None \/ Leaf(cats, c) \/ \E r \in DOMAIN rs : c = rs[r].category

(* Filed changes the category and the source, and leaves the links alone.    *)
LEMMA FiledFacts ==
    ASSUME NEW row \in TxnRow, NEW c \in Nat, NEW s \in Sources
    PROVE  /\ Filed(row, c, s) \in TxnRow /\ SameLinks(Filed(row, c, s), row)
           /\ Filed(row, c, s).category = c /\ Filed(row, c, s).source = s
  BY DEF Filed, TxnRow, SameLinks

(* categorize_with_library files a row by a rule, by the library or not at   *)
(* all, never as filed by hand.                                              *)
LEMMA CategorizeFacts ==
    ASSUME NEW cats, Table(cats, CategoryRow), NEW rs, Table(rs, RuleRow), NEW on,
           NEW row \in TxnRow
    PROVE  \E c \in Nat, s \in Sources \ {"manual"} :
              /\ MayFile(cats, rs, c)
              /\ categorize_with_library(cats, rs, on, row) = Filed(row, c, s)
  <1> DEFINE Meets(x)   == <<x, Fold[row.desc]>> \in Hits
             matching == {r \in DOMAIN rs : Meets(rs[r].pattern)}
             entries  == {i \in DOMAIN Library : /\ on /\ Meets(Library[i].pattern)
                                                   /\ NamedCategory(cats, Library[i].name) # None}
             First(r) == \A q \in matching \ {r} : Before(rs, r, q)
             first    == CHOOSE r \in matching : First(r)
             named    == NamedCategory(cats, Library[Min(entries)].name)
  <1>1. categorize_with_library(cats, rs, on, row) =
           IF matching # {} THEN Filed(row, rs[first].category, "rule")
           ELSE IF entries # {} THEN Filed(row, named, "library")
           ELSE Filed(row, None, "none")
    BY Zenon DEF categorize_with_library
  <1>2. CASE matching # {}
    <2>1. matching \in SUBSET DOMAIN rs OBVIOUS
    <2>2. \E r \in matching : First(r)
      <3> HIDE DEF matching
      <3> QED BY <1>2, <2>1, FirstRule
    <2>3. first \in matching
      <3> HIDE DEF matching, First
      <3> QED BY <2>2
    <2> HIDE DEF first
    <2>4. rs[first].category \in Nat BY <2>3 DEF Table, RuleRow
    <2>5. MayFile(cats, rs, rs[first].category) BY <2>3 DEF MayFile
    <2>6. categorize_with_library(cats, rs, on, row) = Filed(row, rs[first].category, "rule")
      <3> HIDE DEF matching, entries, named
      <3> QED BY <1>1, <1>2
    <2> QED BY <2>4, <2>5, <2>6 DEF Sources
  <1>3. CASE matching = {} /\ entries # {}
    <2>1. named = None \/ Leaf(cats, named)
      <3>1. PICK n : n = Library[Min(entries)].name OBVIOUS
      <3>2. NamedCategory(cats, n) = None \/ Leaf(cats, NamedCategory(cats, n)) BY NamedIsLeaf
      <3> HIDE DEF entries
      <3> QED BY <3>1, <3>2
    <2>2. categorize_with_library(cats, rs, on, row) = Filed(row, named, "library")
      <3> HIDE DEF matching, entries, named, first
      <3> QED BY <1>1, <1>3
    <2> HIDE DEF named
    <2>3. named \in Nat BY <2>1 DEF Leaf, None, Table, Ids
    <2>4. MayFile(cats, rs, named) BY <2>1 DEF MayFile
    <2> QED BY <2>2, <2>3, <2>4 DEF Sources
  <1>4. CASE matching = {} /\ entries = {}
    <2>1. categorize_with_library(cats, rs, on, row) = Filed(row, None, "none")
      <3> HIDE DEF matching, entries, named, first
      <3> QED BY <1>1, <1>4
    <2> QED BY <2>1 DEF Sources, MayFile, None
  <1> HIDE DEF matching, entries
  <1> QED BY <1>2, <1>3, <1>4

(* Re-filing leaves every row filed by hand, and every row up to the last id *)
(* a batch began after, as it was.                                           *)
LEMMA RefileFacts ==
    ASSUME NEW rows, Table(rows, TxnRow), NEW cats, Table(cats, CategoryRow),
           NEW rs, Table(rs, RuleRow), NEW on, NEW least,
           NEW new, new = recategorize_auto_rows(rows, cats, rs, on, least)
    PROVE  /\ Table(new, TxnRow) /\ DOMAIN new = DOMAIN rows
           /\ \A t \in DOMAIN rows :
                 /\ SameLinks(new[t], rows[t])
                 /\ \/ new[t] = rows[t]
                    \/ /\ rows[t].source # "manual" /\ t > least
                       /\ new[t].source # "manual" /\ MayFile(cats, rs, new[t].category)
  <1>1. DOMAIN new = DOMAIN rows BY DEF recategorize_auto_rows
  <1>2. ASSUME NEW t \in DOMAIN rows
        PROVE  /\ new[t] \in TxnRow /\ SameLinks(new[t], rows[t])
               /\ \/ new[t] = rows[t]
                  \/ /\ rows[t].source # "manual" /\ t > least
                     /\ new[t].source # "manual" /\ MayFile(cats, rs, new[t].category)
    <2>1. PICK row \in TxnRow : row = rows[t] BY DEF Table
    <2>2. PICK c \in Nat, s \in Sources \ {"manual"} :
              /\ MayFile(cats, rs, c)
              /\ categorize_with_library(cats, rs, on, row) = Filed(row, c, s)
      BY CategorizeFacts
    <2>3. CASE rows[t].source # "manual" /\ t > least
      <3>1. new[t] = Filed(row, c, s) BY <2>1, <2>2, <2>3 DEF recategorize_auto_rows
      <3> QED BY <2>1, <2>2, <2>3, <3>1, FiledFacts
    <2>4. CASE ~(rows[t].source # "manual" /\ t > least)
      <3>1. new[t] = rows[t] BY <2>4 DEF recategorize_auto_rows
      <3> QED BY <2>1, <3>1 DEF SameLinks
    <2> QED BY <2>3, <2>4
  <1>3. new = [t \in DOMAIN new |-> new[t]] BY DEF recategorize_auto_rows
  <1>4. new \in [DOMAIN new -> TxnRow] BY <1>1, <1>2, <1>3
  <1> QED BY <1>1, <1>2, <1>4 DEF Table

-----------------------------------------------------------------------------
(* Types.                                                                    *)

(* The rule table with a rule written, over an old one or as a new one.      *)
LEMMA RuleTypes ==
    ASSUME TypeOK, NEW x \in Patterns, NEW c, Leaf(categories, c)
    PROVE  Table(WithRule(x, c), RuleRow)
  <1>1. TopPriority(rules) \in Int
    <2>1. CASE DOMAIN rules = {} BY <2>1 DEF TopPriority
    <2>2. CASE DOMAIN rules # {}
      <3>1. PICK S : S = {rules[r].priority : r \in DOMAIN rules} OBVIOUS
      <3>2. IsFiniteSet(S)
        <4>1. PICK f : f = [r \in DOMAIN rules |-> rules[r].priority] OBVIOUS
        <4>2. S = {f[r] : r \in DOMAIN f} /\ DOMAIN f = DOMAIN rules BY <3>1, <4>1
        <4>3. IsFiniteSet(DOMAIN f) BY <4>2 DEF TypeOK, Table, Ids
        <4>4. IsFiniteSet({f[r] : r \in DOMAIN f}) BY <4>3, FiniteImage
        <4> QED BY <4>2, <4>4
      <3>3. S \in SUBSET Int /\ S # {} BY <2>2, <3>1 DEF TypeOK, Table, RuleRow
      <3>4. Min(S) \in S BY <3>2, <3>3, MinFacts
      <3>5. PICK m : m = Min(S) OBVIOUS
      <3>6. TopPriority(rules) = m - 1 BY <2>2, <3>1, <3>5, Zenon DEF TopPriority
      <3>7. m \in Int BY <3>3, <3>4, <3>5
      <3> QED BY <3>6, <3>7
    <2> QED BY <2>1, <2>2
  <1>2. PICK row : row = [pattern |-> x, category |-> c, priority |-> TopPriority(rules)] OBVIOUS
  <1>3. row \in RuleRow BY <1>1, <1>2 DEF RuleRow, Leaf, TypeOK, Table, Ids
  <1>4. PICK id \in Nat \ {0} : id = NewId(rules) BY NewIdFacts DEF TypeOK, Table
  <1>5. Table(Put(rules, id, row), RuleRow) BY <1>3, PutFacts DEF TypeOK
  <1> QED BY <1>2, <1>4, <1>5 DEF WithRule

CatTypes ==
    /\ Table(txns, TxnRow) /\ Table(categories, CategoryRow) /\ Table(rules, RuleRow)
    /\ library \in BOOLEAN

KeepsLinks == /\ DOMAIN txns' = DOMAIN txns
              /\ \A t \in DOMAIN txns : SameLinks(txns'[t], txns[t])

(* A step that leaves the rows alone keeps what links them.                  *)
LEMMA SameRows == TypeOK /\ UNCHANGED txns => KeepsLinks /\ Table(txns, TxnRow)'
  BY DEF TypeOK, KeepsLinks, SameLinks

(* Deleting a category clears it from the rows it files and from no other.   *)
LEMMA ClearedFacts ==
    ASSUME NEW rows, Table(rows, TxnRow), NEW c, NEW new, new = Cleared(rows, c)
    PROVE  /\ Table(new, TxnRow) /\ DOMAIN new = DOMAIN rows
           /\ \A t \in DOMAIN rows :
                 /\ SameLinks(new[t], rows[t])
                 /\ \/ new[t] = rows[t] /\ rows[t].category # c
                    \/ rows[t].category = c /\ new[t].category = None
  <1>1. ASSUME NEW t \in DOMAIN rows
        PROVE  /\ new[t] \in TxnRow /\ SameLinks(new[t], rows[t])
               /\ \/ new[t] = rows[t] /\ rows[t].category # c
                  \/ rows[t].category = c /\ new[t].category = None
    <2>1. PICK row \in TxnRow : row = rows[t] BY DEF Table
    <2>2. None \in Nat /\ "none" \in Sources BY DEF None, Sources
    <2>3. CASE rows[t].category = c
      <3>1. new[t] = Filed(row, None, "none") BY <2>1, <2>3 DEF Cleared
      <3>2. new[t] \in TxnRow /\ SameLinks(new[t], rows[t]) /\ new[t].category = None
        BY <2>1, <2>2, <3>1, FiledFacts
      <3> QED BY <2>3, <3>2
    <2>4. CASE rows[t].category # c
      <3>1. new[t] = rows[t] BY <2>4 DEF Cleared
      <3> QED BY <2>1, <2>4, <3>1 DEF SameLinks
    <2> QED BY <2>3, <2>4
  <1>2. DOMAIN new = DOMAIN rows /\ new = [t \in DOMAIN new |-> new[t]] BY DEF Cleared
  <1>3. new \in [DOMAIN new -> TxnRow] BY <1>1, <1>2
  <1> QED BY <1>1, <1>2, <1>3 DEF Table

(* What a category is renamed to, or keeps, is a name.                       *)
LEMMA UsualName ==
    ASSUME Table(categories, CategoryRow), NEW c \in DOMAIN categories,
           NEW n \in CategoryNames \cup {categories[c].name}
    PROVE  n \in Names
  BY DEF Table, CategoryRow, Names

(* Every action of the Categorization module keeps the types of its tables,  *)
(* and touches nothing of a row but its filing.                              *)
LEMMA CategoryStepTypes ==
    ASSUME TypeOK, CatNext
    PROVE  CatTypes' /\ KeepsLinks
  <1> USE SwitchesAreOnOrOff
  <1>1. ASSUME NEW p \in DOMAIN categories, NEW n \in CategoryNames, AddCategory(p, n)
        PROVE  CatTypes' /\ KeepsLinks
    <2>1. PICK row \in CategoryRow : row = [parent |-> p, name |-> n]
      BY DEF CategoryRow, Names, TypeOK, Table, Ids
    <2>2. PICK id \in Nat \ {0} : id = NewId(categories) BY NewIdFacts DEF TypeOK, Table
    <2>3. Table(Put(categories, id, row), CategoryRow) BY PutFacts DEF TypeOK
    <2> QED BY <1>1, <2>1, <2>2, <2>3, SameRows DEF AddCategory, CatTypes, TypeOK
  <1>2. ASSUME NEW c \in DOMAIN categories, NEW p \in DOMAIN categories,
               NEW n \in CategoryNames \cup {categories[c].name}, UpdateCategory(c, n, p)
        PROVE  CatTypes' /\ KeepsLinks
    <2>1. PICK row \in CategoryRow : row = [parent |-> p, name |-> n]
      BY UsualName DEF CategoryRow, TypeOK, Table, Ids
    <2>2. categories' = [categories EXCEPT ![c] = row] BY <1>2, <2>1 DEF UpdateCategory
    <2>3. Table(categories, CategoryRow)' BY <2>2 DEF TypeOK, Table
    <2> QED BY <1>2, <2>3, SameRows DEF UpdateCategory, CatTypes, TypeOK
  <1>3. ASSUME NEW c \in DOMAIN categories, DeleteCategory(c)
        PROVE  CatTypes' /\ KeepsLinks
    <2>1. Table(rules, RuleRow)' BY <1>3, WithoutFacts DEF DeleteCategory, TypeOK
    <2>2. Table(categories, CategoryRow)' BY <1>3, WithoutFacts DEF DeleteCategory, TypeOK
    <2>3. PICK rows : rows = Cleared(txns, c) OBVIOUS
    <2>4. /\ Table(rows, TxnRow) /\ DOMAIN rows = DOMAIN txns
          /\ \A t \in DOMAIN txns : SameLinks(rows[t], txns[t])
      BY <2>3, ClearedFacts DEF TypeOK
    <2>5. txns' = recategorize_auto_rows(rows, categories', rules', library, 0)
      BY <1>3, <2>3 DEF DeleteCategory
    <2>6. /\ Table(txns', TxnRow) /\ DOMAIN txns' = DOMAIN rows
          /\ \A t \in DOMAIN rows : SameLinks(txns'[t], rows[t])
      BY <2>1, <2>2, <2>4, <2>5, RefileFacts
    <2>7. CatTypes'
      <3>1. library' \in BOOLEAN BY <1>3 DEF DeleteCategory, TypeOK
      <3>2. Table(txns', TxnRow) BY <2>6
      <3> QED BY ONLY <2>1, <2>2, <3>1, <3>2 DEF CatTypes
    <2>8. KeepsLinks
      <3>1. ASSUME NEW t \in DOMAIN txns PROVE SameLinks(txns'[t], txns[t])
        <4>1. SameLinks(rows[t], txns[t]) /\ SameLinks(txns'[t], rows[t]) BY <2>4, <2>6
        <4> QED BY ONLY <4>1 DEF SameLinks
      <3>2. DOMAIN txns' = DOMAIN txns BY ONLY <2>4, <2>6
      <3> QED BY ONLY <3>1, <3>2 DEF KeepsLinks
    <2> QED BY <2>7, <2>8
  <1>4. ASSUME NEW x \in Patterns, NEW c \in DOMAIN categories, AddRule(x, c)
        PROVE  CatTypes' /\ KeepsLinks
    BY <1>4, RuleTypes, SameRows DEF AddRule, CatTypes, TypeOK
  <1>5. ASSUME NEW x \in Patterns, NEW c \in DOMAIN categories, LearnRule(x, c)
        PROVE  CatTypes' /\ KeepsLinks
    <2>1. Table(rules, RuleRow)' BY <1>5, RuleTypes DEF LearnRule
    <2>2. txns' = recategorize_auto_rows(txns, categories, rules', library, 0)
      BY <1>5 DEF LearnRule
    <2>3. /\ Table(txns', TxnRow) /\ DOMAIN txns' = DOMAIN txns
          /\ \A t \in DOMAIN txns : SameLinks(txns'[t], txns[t])
      BY <2>1, <2>2, RefileFacts DEF TypeOK
    <2> QED BY <1>5, <2>1, <2>3 DEF LearnRule, CatTypes, TypeOK, KeepsLinks
  <1>6. ASSUME NEW r \in DOMAIN rules, NEW x \in Patterns, NEW c \in DOMAIN categories,
               UpdateRule(r, x, c)
        PROVE  CatTypes' /\ KeepsLinks
    <2>1. PICK row : row = [rules[r] EXCEPT !.pattern = x, !.category = c] OBVIOUS
    <2>2. row \in RuleRow BY <2>1 DEF RuleRow, TypeOK, Table, Ids
    <2>3. rules' = [rules EXCEPT ![r] = row] BY <1>6, <2>1 DEF UpdateRule
    <2>4. Table(rules, RuleRow)' BY <2>2, <2>3 DEF TypeOK, Table
    <2> QED BY <1>6, <2>4, SameRows DEF UpdateRule, CatTypes, TypeOK
  <1>7. ASSUME NEW r \in DOMAIN rules, DeleteRule(r)
        PROVE  CatTypes' /\ KeepsLinks
    BY <1>7, WithoutFacts, SameRows DEF DeleteRule, CatTypes, TypeOK
  <1>8. ASSUME NEW r \in DOMAIN rules, MoveRule(r)
        PROVE  CatTypes' /\ KeepsLinks
    <2> DEFINE above == {q \in DOMAIN rules : Before(rules, q, r)}
               Last(q) == \A s \in above \ {q} : Before(rules, s, q)
    <2>1. PICK o : o = CHOOSE q \in above : Last(q) OBVIOUS
    <2>2. above # {} /\ rules' = [rules EXCEPT ![r].priority = rules[o].priority,
                                              ![o].priority = rules[r].priority]
      BY <1>8, <2>1, Zenon DEF MoveRule
    <2>3. above \in SUBSET DOMAIN rules OBVIOUS
    <2>4. \E q \in above : Last(q)
      <3> HIDE DEF above
      <3> QED BY <2>2, <2>3, FirstRule DEF TypeOK
    <2>5. o \in above
      <3> HIDE DEF above, Last
      <3> QED BY <2>1, <2>4
    <2>6. o \in DOMAIN rules BY <2>5
    <2>7. Table(rules, RuleRow)'
      <3>1. \A q \in DOMAIN rules : \A n \in Int : [rules[q] EXCEPT !.priority = n] \in RuleRow
        BY DEF TypeOK, Table, RuleRow
      <3>2. rules[o].priority \in Int /\ rules[r].priority \in Int
        BY <2>6 DEF TypeOK, Table, RuleRow
      <3>3. PICK mid : mid = [rules EXCEPT ![r] = [rules[r] EXCEPT !.priority = rules[o].priority]]
        OBVIOUS
      <3>4. mid \in [DOMAIN rules -> RuleRow] BY <3>1, <3>2, <3>3 DEF TypeOK, Table
      <3>5. rules' = [mid EXCEPT ![o] = [mid[o] EXCEPT !.priority = rules[r].priority]]
        BY <2>2, <3>3
      <3>6. [mid[o] EXCEPT !.priority = rules[r].priority] \in RuleRow
        BY <2>6, <3>2, <3>4 DEF RuleRow
      <3> QED BY <3>4, <3>5, <3>6 DEF TypeOK, Table
    <2> QED BY <1>8, <2>7, SameRows DEF MoveRule, CatTypes, TypeOK
  <1>9. CASE ApplyRules
    <2>1. txns' = recategorize_auto_rows(txns, categories, rules, library, 0) BY <1>9 DEF ApplyRules
    <2>2. /\ Table(txns', TxnRow) /\ DOMAIN txns' = DOMAIN txns
          /\ \A t \in DOMAIN txns : SameLinks(txns'[t], txns[t])
      BY <2>1, RefileFacts DEF TypeOK
    <2> QED BY <1>9, <2>2 DEF ApplyRules, catVars, CatTypes, TypeOK, KeepsLinks
  <1>10. ASSUME NEW on \in Switches, SetLibraryEnabled(on)
         PROVE  CatTypes' /\ KeepsLinks
    BY <1>10, SameRows DEF SetLibraryEnabled, CatTypes, TypeOK
  <1>11. ASSUME NEW t \in DOMAIN txns, NEW c \in DOMAIN categories \cup {None},
                SetManualCategory(t, c)
         PROVE  CatTypes' /\ KeepsLinks
    <2>1. PICK row \in TxnRow : row = txns[t] BY DEF TypeOK, Table
    <2>2. c \in Nat /\ "manual" \in Sources BY DEF None, Sources, TypeOK, Table, Ids
    <2>3. PICK new : new = Filed(row, c, "manual") OBVIOUS
    <2>4. new \in TxnRow /\ SameLinks(new, row) BY <2>2, <2>3, FiledFacts
    <2>5. txns' = [txns EXCEPT ![t] = new] BY <1>11, <2>1, <2>3 DEF SetManualCategory
    <2>6. Table(txns, TxnRow)' BY <2>4, <2>5 DEF TypeOK, Table
    <2>7. KeepsLinks BY <2>1, <2>4, <2>5 DEF KeepsLinks, SameLinks
    <2> QED BY <1>11, <2>6, <2>7 DEF SetManualCategory, catVars, CatTypes, TypeOK
  <1> QED BY <1>1, <1>2, <1>3, <1>4, <1>5, <1>6, <1>7, <1>8, <1>9, <1>10, <1>11 DEF CatNext

-----------------------------------------------------------------------------
(* References and transfers.                                                 *)

(* ReferencesHold is Refer, of the tables as they are.                       *)
LEMMA ReferencesMean == ReferencesHold <=> Refer(txns, periods, accounts)
  BY DEF ReferencesHold, SpanFree, IdsForSpan, Refer, DistinctSpans, Stamped

PairsAreOrdered == \A x \in DOMAIN pairs : Ordered(x, txns)

(* An ordered pair is two row ids, the smaller first.                        *)
LEMMA OrderedFacts ==
    ASSUME NEW x, NEW ts
    PROVE  Ordered(x, ts) <=> /\ x = <<x[1], x[2]>> /\ x[1] \in DOMAIN ts /\ x[2] \in DOMAIN ts
                              /\ x[1] < x[2]
  BY DEF Ordered

(* And so are the invariants of transfers.                                   *)
LEMMA TransfersMean ==
    PairsAreOrdered /\ TransferJoinsTwoAccounts /\ OneTransferPerRow <=> Transfers(pairs, txns)
  <1>1. PairsAreOrdered =>
           (TransferJoinsTwoAccounts <=>
            \A x \in DOMAIN pairs : pairs[x] = "confirmed" => Joins(x, txns))
    BY OrderedFacts DEF PairsAreOrdered, TransferJoinsTwoAccounts, Confirmed, Joins
  <1>2. \A x, y : Apart(x, y) <=> {x[1], x[2]} \cap {y[1], y[2]} = {} BY DEF Apart
  <1>3. OneTransferPerRow <=>
           \A x, y \in DOMAIN pairs :
              pairs[x] = "confirmed" /\ pairs[y] = "confirmed" /\ x # y => Apart(x, y)
    BY <1>2 DEF OneTransferPerRow, Confirmed
  <1> QED BY <1>1, <1>3 DEF PairsAreOrdered, Transfers

LInv == TypeOK /\ Refer(txns, periods, accounts) /\ Transfers(pairs, txns)

\* A row the account and amount of which stay is in the same transfers.
LEMMA TransfersStay ==
    ASSUME NEW ps, NEW ts, NEW us, Transfers(ps, ts), DOMAIN ts \subseteq DOMAIN us,
           \A t \in DOMAIN ts : us[t].amount = ts[t].amount /\ us[t].account = ts[t].account
    PROVE  Transfers(ps, us)
  <1>1. \A x \in DOMAIN ps : /\ x = <<x[1], x[2]>> /\ x[1] \in DOMAIN ts /\ x[2] \in DOMAIN ts
                             /\ x[1] < x[2]
    BY OrderedFacts DEF Transfers
  <1>2. \A x \in DOMAIN ps : Ordered(x, us) BY <1>1, OrderedFacts
  <1>3. \A x \in DOMAIN ps : ps[x] = "confirmed" => Joins(x, us)
    BY <1>1 DEF Transfers, Joins
  <1> QED BY <1>2, <1>3 DEF Transfers

\* Fewer pairs, on rows that are still there.
LEMMA TransfersRestrict ==
    ASSUME NEW ps, NEW ts, Transfers(ps, ts), NEW qs, DOMAIN qs \subseteq DOMAIN ps,
           \A x \in DOMAIN qs : qs[x] = ps[x],
           NEW us, \A x \in DOMAIN qs : x[1] \in DOMAIN us /\ x[2] \in DOMAIN us,
           DOMAIN us \subseteq DOMAIN ts,
           \A t \in DOMAIN us : us[t].amount = ts[t].amount /\ us[t].account = ts[t].account
    PROVE  Transfers(qs, us)
  <1>1. \A x \in DOMAIN qs : x \in DOMAIN ps /\ Ordered(x, ts) BY DEF Transfers
  <1>2. \A x \in DOMAIN qs : Ordered(x, us) BY <1>1, OrderedFacts
  <1>3. \A x \in DOMAIN qs : qs[x] = "confirmed" => Joins(x, us)
    BY <1>1 DEF Transfers, Joins
  <1> QED BY <1>1, <1>2, <1>3 DEF Transfers

(* An empty vault with the seeded categories satisfies the invariant.        *)
LEMMA LinksAtFirst == Init => LInv
  <1> SUFFICES ASSUME Init PROVE LInv OBVIOUS
  <1> USE SeedIsATree
  <1>1. Table(categories, CategoryRow)
    <2>1. categories = Seed BY DEF Init, CatInit
    <2>2. DOMAIN Seed = 1..Len(Seed) /\ Len(Seed) \in Nat OBVIOUS
    <2>3. IsFiniteSet(DOMAIN Seed) BY <2>2, FS_Interval
    <2>4. Seed \in [DOMAIN Seed -> CategoryRow]
      <3>1. PICK N : N = {Seed[c].name : c \in DOMAIN Seed} OBVIOUS
      <3>2. \A c \in DOMAIN Seed : Seed[c] \in [parent : Nat, name : N]
        <4>1. PICK S : S = [parent : Nat, name : N] OBVIOUS
        <4>2. Seed \in Seq(S) BY <3>1, <4>1, Zenon
        <4>3. \A c \in DOMAIN Seed : Seed[c] \in S BY ONLY <4>2
        <4> QED BY <4>1, <4>3
      <3>4. N \subseteq Names BY <3>1 DEF Names
      <3>5. \A c \in DOMAIN Seed : Seed[c] \in CategoryRow BY <3>2, <3>4 DEF CategoryRow
      <3>3. Seed = [c \in DOMAIN Seed |-> Seed[c]] OBVIOUS
      <3> QED BY <3>3, <3>5
    <2> QED BY <2>1, <2>2, <2>3, <2>4 DEF Table, Ids
  <1>2. ASSUME NEW R PROVE Table(<<>>, R)
    <2>1. DOMAIN <<>> = {} OBVIOUS
    <2>2. IsFiniteSet({}) BY FS_EmptySet
    <2>3. <<>> \in [{} -> R] OBVIOUS
    <2> QED BY <2>1, <2>2, <2>3 DEF Table, Ids
  <1>3. PICK n \in AccountNames : accounts = <<n>> BY DEF Init
  <1>4. DOMAIN accounts = {1} /\ accounts \in [{1} -> AccountNames] BY <1>3
  <1>5. Table(accounts, AccountNames)
    <2>1. IsFiniteSet({1}) BY FS_Singleton
    <2> QED BY <1>4, <2>1 DEF Table, Ids
  <1>6. TypeOK
    <2>1. txns = <<>> /\ periods = <<>> /\ rules = <<>> /\ pairs = <<>> /\ library = TRUE
      BY DEF Init, CatInit
    <2>2. pairs \in [DOMAIN pairs -> {"confirmed", "rejected"}] BY <2>1
    <2> QED BY <1>1, <1>2, <1>5, <2>1, <2>2 DEF TypeOK
  <1>7. DOMAIN txns = {} /\ DOMAIN periods = {} /\ DOMAIN pairs = {} BY DEF Init
  <1>8. Refer(txns, periods, accounts) BY <1>4, <1>7 DEF Refer, DistinctSpans
  <1>9. Transfers(pairs, txns) BY <1>7 DEF Transfers
  <1> QED BY <1>6, <1>8, <1>9 DEF LInv

(* Filing a row or changing the categories keeps references and transfers.   *)
LEMMA FilingKeepsLinks == LInv /\ CatNext /\ UNCHANGED <<accounts, periods, pairs>> => LInv'
  <1> SUFFICES ASSUME LInv, CatNext, UNCHANGED <<accounts, periods, pairs>> PROVE LInv' OBVIOUS
  <1>1. CatTypes' /\ KeepsLinks BY CategoryStepTypes DEF LInv
  <1>2. TypeOK' BY <1>1 DEF LInv, TypeOK, CatTypes
  <1>3. Refer(txns, periods, accounts)' BY <1>1 DEF LInv, Refer, Stamped, KeepsLinks, SameLinks
  <1>4. Transfers(pairs, txns')
    <2>1. PICK ts : ts = txns' OBVIOUS
    <2>2. /\ DOMAIN txns \subseteq DOMAIN ts
          /\ \A t \in DOMAIN txns : ts[t].amount = txns[t].amount /\ ts[t].account = txns[t].account
      BY <1>1, <2>1 DEF KeepsLinks, SameLinks
    <2>3. Transfers(pairs, ts) BY <2>2, TransfersStay DEF LInv
    <2> QED BY <2>1, <2>3
  <1> QED BY <1>2, <1>3, <1>4 DEF LInv

-----------------------------------------------------------------------------
(* Imports.                                                                  *)

MaxIdIsLast == \A t \in DOMAIN txns : t <= MaxId

(* MaxId, read before a batch is added, bounds every id.                     *)
LEMMA MaxIdFacts ==
    ASSUME TypeOK
    PROVE  MaxId \in Nat /\ MaxIdIsLast /\ \A t \in DOMAIN txns : t \in Nat \ {0}
  <1>1. Ids(DOMAIN txns) BY DEF TypeOK, Table
  <1>2. PICK n \in Nat \ {0} : n = NewId(txns) /\ \A t \in DOMAIN txns : t < n
    BY <1>1, NewIdFacts
  <1>3. \A t \in DOMAIN txns : t \in Nat \ {0} BY <1>1 DEF Ids
  <1>4. MaxId = n - 1 BY <1>2 DEF MaxId
  <1> QED BY <1>2, <1>3, <1>4 DEF MaxIdIsLast

BatchAdded(new, a, p) ==
    /\ Table(new, TxnRow) /\ DOMAIN txns \subseteq DOMAIN new
    /\ \A t \in DOMAIN txns : new[t] = txns[t]
    /\ \A t \in DOMAIN new \ DOMAIN txns : /\ new[t].account = a /\ new[t].period = p
                                           /\ new[t].category = None

\* The new rows come after the old ones, on the account and the statement.
LEMMA BatchFacts ==
    ASSUME TypeOK, NEW a \in Nat \ {0}, NEW drafts \in Seq(Drafts),
           NEW kept \in SUBSET DOMAIN drafts, NEW p \in Nat,
           NEW new, new = WithBatch(a, drafts, kept, p)
    PROVE  BatchAdded(new, a, p)
  <1> DEFINE at == [i \in kept |-> MaxId + Cardinality({j \in kept : j <= i})]
  <1>1. DOMAIN drafts = 1..Len(drafts) /\ Len(drafts) \in Nat OBVIOUS
  <1>2. IsFiniteSet(kept)
    <2>1. IsFiniteSet(1..Len(drafts)) BY <1>1, FS_Interval
    <2> QED BY <1>1, <2>1, FS_Subset
  <1>3. ASSUME NEW i \in kept PROVE at[i] \in Nat \ {0}
    <2>1. PICK S : S = {j \in kept : j <= i} OBVIOUS
    <2>2. IsFiniteSet(S) BY <1>2, <2>1, FS_Subset
    <2>3. i \in S BY <1>1, <2>1
    <2>4. Cardinality(S) \in Nat /\ Cardinality(S) # 0
      BY <2>2, <2>3, FS_CardinalityType, FS_EmptySet
    <2>5. at[i] = MaxId + Cardinality(S) BY <2>1
    <2> QED BY <2>4, <2>5, MaxIdFacts
  <1>4. PICK f : f = at OBVIOUS
  <1>5. DOMAIN f = kept /\ \A i \in kept : f[i] \in Nat \ {0} BY <1>3, <1>4
  <1>6. PICK R : R = {f[i] : i \in DOMAIN f} OBVIOUS
  <1>7. IsFiniteSet(R) /\ R \subseteq Nat \ {0}
    <2>1. IsFiniteSet(R) BY <1>2, <1>5, <1>6, FiniteImage
    <2> QED BY <1>5, <1>6, <2>1
  <1>8. new = [t \in DOMAIN txns \cup R |->
                  IF t \in DOMAIN txns THEN txns[t]
                  ELSE Row(a, drafts[CHOOSE i \in kept : f[i] = t], p)]
    BY <1>4, <1>6 DEF WithBatch, Range
  <1> HIDE DEF at
  <1>9. ASSUME NEW t \in R
        PROVE  LET row == Row(a, drafts[CHOOSE i \in kept : f[i] = t], p)
               IN row \in TxnRow /\ row.account = a /\ row.period = p /\ row.category = None
    <2>1. \E i \in kept : f[i] = t BY <1>5, <1>6
    <2>2. PICK i \in kept : i = CHOOSE j \in kept : f[j] = t BY <2>1
    <2>3. drafts[i] \in Drafts OBVIOUS
    <2> QED BY <2>2, <2>3 DEF Row, Drafts, TxnRow, Sources, None
  <1>10. IsFiniteSet(DOMAIN txns \cup R)
    BY <1>7, FS_Union DEF TypeOK, Table, Ids
  <1>11. DOMAIN new = DOMAIN txns \cup R /\ new = [t \in DOMAIN new |-> new[t]] BY <1>8
  <1>12. \A t \in DOMAIN new : new[t] \in TxnRow BY <1>8, <1>9 DEF TypeOK, Table
  <1>13. Table(new, TxnRow) BY <1>7, <1>10, <1>11, <1>12 DEF TypeOK, Table, Ids
  <1> QED BY <1>8, <1>9, <1>13 DEF BatchAdded

OnlyAdds ==
    /\ \A t \in DOMAIN txns : t \in DOMAIN txns' /\ txns'[t] = txns[t]
    /\ \A t \in DOMAIN txns' \ DOMAIN txns : MayFile(categories, rules, txns'[t].category)

(* commit_import, with the statement it makes or reuses, keeps references    *)
(* and transfers, and only adds rows.                                        *)
LEMMA ImportKeepsLinks ==
    ASSUME LInv, NEW f \in Files, NEW a, NEW s \in Int, NEW e \in Int, CommitImport(f, a, s, e)
    PROVE  LInv' /\ OnlyAdds
  <1> DEFINE kept == dedup(txns, a, f.drafts)
             same == IdsForSpan(a, s, e)
  <1>1. PICK p : p = IF same = {} THEN NewId(periods) ELSE CHOOSE q \in same : TRUE OBVIOUS
  <1>2. PICK old : old = IF same = {} THEN [account |-> a, start |-> s, end |-> e,
                                            closing |-> f.closing, holds |-> {}]
                         ELSE periods[p]
    OBVIOUS
  <1>3. PICK row : row = [old EXCEPT
                            !.closing = IF old.closing = None THEN f.closing ELSE old.closing,
                            !.holds = IF Spanned(f, s, e) THEN old.holds \cup {f} ELSE old.holds]
    OBVIOUS
  <1>4. /\ a \in DOMAIN accounts
        /\ periods' = Put(periods, p, row)
        /\ txns' = recategorize_auto_rows(WithBatch(a, f.drafts, kept, p),
                                          categories, rules, library, MaxId)
        /\ UNCHANGED <<categories, rules, library, accounts, pairs>>
    BY <1>1, <1>2, <1>3, Zenon DEF CommitImport
  <1>5. a \in Nat \ {0} BY <1>4 DEF LInv, TypeOK, Table, Ids
  <1>6. same # {} => p \in same BY <1>1
  <1>7. p \in Nat \ {0} /\ (p \in DOMAIN periods => p \in same) /\ same \subseteq {p}
    <2>1. CASE same = {}
      <3>1. p = NewId(periods) BY <1>1, <2>1
      <3>2. Ids(DOMAIN periods) BY DEF LInv, TypeOK, Table
      <3>3. p \in Nat \ {0} /\ p \notin DOMAIN periods BY <3>1, <3>2, NewIdFacts
      <3> HIDE DEF same
      <3> QED BY <2>1, <3>3
    <2>2. CASE same # {}
      <3>1. p \in DOMAIN periods /\ p \in same BY <1>6, <2>2 DEF IdsForSpan
      <3>2. \A q \in same : q = p BY <3>1 DEF LInv, Refer, DistinctSpans, IdsForSpan
      <3>3. p \in Nat \ {0} BY <3>1 DEF LInv, TypeOK, Table, Ids
      <3> HIDE DEF same
      <3> QED BY <3>1, <3>2, <3>3
    <2> QED BY <2>1, <2>2
  <1>8. /\ old \in PeriodRow /\ old.account = a /\ old.start = s /\ old.end = e
    <2>1. CASE same = {}
      <3>1. old = [account |-> a, start |-> s, end |-> e, closing |-> f.closing, holds |-> {}]
        BY <1>2, <2>1
      <3>2. f.closing \in Closings BY DEF Closings
      <3> QED BY <1>5, <3>1, <3>2 DEF PeriodRow
    <2>2. CASE same # {}
      <3>1. old = periods[p] BY <1>2, <2>2
      <3>2. p \in same BY <1>6, <2>2
      <3> QED BY <3>1, <3>2 DEF IdsForSpan, LInv, TypeOK, Table
    <2> QED BY <2>1, <2>2
  <1> HIDE DEF same
  <1>9. /\ row \in PeriodRow /\ row.account = a /\ row.start = s /\ row.end = e
    <2>1. PICK c : c = IF old.closing = None THEN f.closing ELSE old.closing OBVIOUS
    <2>2. PICK h : h = IF Spanned(f, s, e) THEN old.holds \cup {f} ELSE old.holds OBVIOUS
    <2>3. row = [old EXCEPT !.closing = c, !.holds = h] BY <1>3, <2>1, <2>2
    <2>4. c \in Closings /\ h \in SUBSET Files BY <1>8, <2>1, <2>2 DEF Closings, PeriodRow
    <2> QED BY <1>8, <2>3, <2>4 DEF PeriodRow
  <1>10. /\ Table(periods, PeriodRow)' /\ DOMAIN periods' = DOMAIN periods \cup {p}
         /\ periods'[p] = row /\ \A q \in DOMAIN periods \ {p} : periods'[q] = periods[q]
    BY <1>4, <1>7, <1>9, PutFacts DEF LInv, TypeOK
  <1>11. PICK new : new = WithBatch(a, f.drafts, kept, p) OBVIOUS
  <1>12. /\ Table(new, TxnRow) /\ DOMAIN txns \subseteq DOMAIN new
         /\ \A t \in DOMAIN txns : new[t] = txns[t]
         /\ \A t \in DOMAIN new \ DOMAIN txns : /\ new[t].account = a /\ new[t].period = p
                                                /\ new[t].category = None
    <2>1. kept \in SUBSET DOMAIN f.drafts BY DEF dedup
    <2>2. f.drafts \in Seq(Drafts) BY FilesAreDated
    <2>3. p \in Nat BY <1>7
    <2>4. PICK ds \in Seq(Drafts) : ds = f.drafts BY <2>2
    <2>5. PICK k \in SUBSET DOMAIN ds : k = kept BY <2>1, <2>4
    <2>6. new = WithBatch(a, ds, k, p) BY <1>11, <2>4, <2>5
    <2>7. TypeOK BY DEF LInv
    <2>8. ds \in Seq(Drafts) /\ k \in SUBSET DOMAIN ds BY <2>4, <2>5
    <2>9. BatchAdded(new, a, p) BY ONLY <1>5, <2>3, <2>6, <2>7, <2>8, BatchFacts
    <2> QED BY <2>9 DEF BatchAdded
  <1>13. txns' = recategorize_auto_rows(new, categories, rules, library, MaxId)
    BY <1>4, <1>11
  <1> HIDE DEF kept
  <1>14. /\ Table(txns', TxnRow) /\ DOMAIN txns' = DOMAIN new
         /\ \A t \in DOMAIN new : /\ SameLinks(txns'[t], new[t])
                                  /\ \/ txns'[t] = new[t]
                                     \/ /\ t > MaxId
                                        /\ MayFile(categories, rules, txns'[t].category)
    BY <1>12, <1>13, RefileFacts DEF LInv, TypeOK
  <1>15. \A t \in DOMAIN txns : t \in DOMAIN txns' /\ txns'[t] = txns[t]
    <2> TAKE t \in DOMAIN txns
    <2>1. t <= MaxId /\ MaxId \in Nat /\ t \in Nat BY MaxIdFacts DEF MaxIdIsLast, LInv
    <2> QED BY <1>12, <1>14, <2>1
  <1>16. TypeOK' BY <1>4, <1>10, <1>14 DEF LInv, TypeOK
  <1>17. Refer(txns, periods, accounts)'
    <2>1. \A q \in DOMAIN periods' : periods'[q].account \in DOMAIN accounts'
      BY <1>4, <1>9, <1>10 DEF LInv, Refer
    <2>2. DistinctSpans(periods)'
      <3> SUFFICES ASSUME NEW q \in DOMAIN periods', NEW r \in DOMAIN periods',
                          periods'[q].account = periods'[r].account,
                          periods'[q].start = periods'[r].start,
                          periods'[q].end = periods'[r].end
                   PROVE  q = r
        BY DEF DistinctSpans
      <3>1. \A k \in DOMAIN periods \ {p} :
               ~(periods[k].account = a /\ periods[k].start = s /\ periods[k].end = e)
        BY <1>7 DEF same, IdsForSpan
      <3>2. CASE q # p /\ r # p
        BY <1>10, <3>2 DEF LInv, Refer, DistinctSpans
      <3>3. CASE q = p /\ r # p BY <1>9, <1>10, <3>1, <3>3
      <3>4. CASE q # p /\ r = p BY <1>9, <1>10, <3>1, <3>4
      <3> QED BY <3>2, <3>3, <3>4
    <2>3. ASSUME NEW t \in DOMAIN txns' PROVE Stamped(txns'[t], periods', accounts')
      <3>1. CASE t \in DOMAIN txns
        <4>1. txns'[t] = txns[t] /\ Stamped(txns[t], periods, accounts)
          BY <1>15, <3>1 DEF LInv, Refer
        <4>2. \A q \in DOMAIN periods : /\ q \in DOMAIN periods'
                                         /\ periods'[q].account = periods[q].account
          <5> TAKE q \in DOMAIN periods
          <5>1. CASE q = p
            <6>1. p \in same BY <1>7, <5>1
            <6> QED BY <1>9, <1>10, <5>1, <6>1 DEF same, IdsForSpan
          <5>2. CASE q # p BY <1>10, <5>2
          <5> QED BY <5>1, <5>2
        <4> QED BY <1>4, <4>1, <4>2 DEF Stamped
      <3>2. CASE t \notin DOMAIN txns
        <4>1. txns'[t].account = a /\ txns'[t].period = p
          BY <1>12, <1>14, <3>2 DEF SameLinks
        <4> QED BY <1>4, <1>9, <1>10, <4>1 DEF Stamped
      <3> QED BY <3>1, <3>2
    <2> QED BY <1>4, <2>1, <2>2, <2>3 DEF LInv, Refer
  <1>18. Transfers(pairs, txns)'
    <2>1. PICK ts : ts = txns' OBVIOUS
    <2>2. Transfers(pairs, ts) BY <1>15, <2>1, TransfersStay DEF LInv
    <2> QED BY <1>4, <2>1, <2>2
  <1>19. OnlyAdds BY <1>12, <1>14, <1>15 DEF OnlyAdds, MayFile
  <1> QED BY <1>16, <1>17, <1>18, <1>19 DEF LInv

-----------------------------------------------------------------------------
(* Deleting and moving statements.                                           *)

\* Every row left is as it was, or handed to a statement that covers it.
HandedOff(new, rows, ps, gone) ==
    /\ Table(new, TxnRow) /\ DOMAIN new \subseteq DOMAIN rows
    /\ \A t \in DOMAIN new :
          \/ new[t] = rows[t] /\ rows[t].period \notin gone
          \/ \E q \in Covers(ps, rows[t], gone) : new[t] = [rows[t] EXCEPT !.period = q]

(* A deletion hands a row of a deleted statement to another that covers its  *)
(* day, or deletes it.                                                       *)
LEMMA AfterDeleteFacts ==
    ASSUME NEW rows, Table(rows, TxnRow), NEW ps, Table(ps, PeriodRow), NEW gone,
           NEW new, new = AfterDelete(rows, ps, gone)
    PROVE  HandedOff(new, rows, ps, gone)
  <1> DEFINE doomed == {t \in DOMAIN rows : rows[t].period \in gone
                                            /\ Covers(ps, rows[t], gone) = {}}
  <1>1. /\ DOMAIN new = DOMAIN rows \ doomed
        /\ new = [t \in DOMAIN new |-> new[t]]
        /\ \A t \in DOMAIN new :
              new[t] = IF rows[t].period \in gone
                       THEN [rows[t] EXCEPT !.period = FirstStatement(ps, Covers(ps, rows[t], gone))]
                       ELSE rows[t]
    BY DEF AfterDelete
  <1>2. ASSUME NEW t \in DOMAIN new
        PROVE  /\ new[t] \in TxnRow
               /\ \/ new[t] = rows[t] /\ rows[t].period \notin gone
                  \/ \E q \in Covers(ps, rows[t], gone) : new[t] = [rows[t] EXCEPT !.period = q]
    <2>1. CASE rows[t].period \in gone
      <3>1. PICK C : C = Covers(ps, rows[t], gone) OBVIOUS
      <3>2. C # {} BY <1>1, <2>1, <3>1
      <3>3. C \in SUBSET DOMAIN ps BY <3>1 DEF Covers
      <3>4. PICK q : q = FirstStatement(ps, C) OBVIOUS
      <3>5. q \in C BY <3>2, <3>3, <3>4, FirstStatementFacts
      <3>6. new[t] = [rows[t] EXCEPT !.period = q] BY <1>1, <2>1, <3>1, <3>4
      <3>7. q \in Nat BY <3>3, <3>5 DEF Table, Ids
      <3>8. rows[t] \in TxnRow BY <1>1 DEF Table
      <3> QED BY <3>1, <3>5, <3>6, <3>7, <3>8 DEF TxnRow
    <2>2. CASE rows[t].period \notin gone
      <3>1. new[t] = rows[t] BY <1>1, <2>2
      <3> QED BY <1>1, <2>2, <3>1 DEF Table
    <2> QED BY <2>1, <2>2
  <1>3. Ids(DOMAIN new) BY <1>1, FS_Subset DEF Table, Ids
  <1>4. new \in [DOMAIN new -> TxnRow] BY <1>1, <1>2
  <1>5. DOMAIN new \subseteq DOMAIN rows BY <1>1
  <1> QED BY <1>2, <1>3, <1>4, <1>5 DEF HandedOff, Table

\* A hand-off changes the statement of a row only.
LEMMA HandedOffKeeps ==
    ASSUME NEW rows, Table(rows, TxnRow), NEW ps, NEW gone, NEW new,
           HandedOff(new, rows, ps, gone)
    PROVE  \A t \in DOMAIN new :
              /\ t \in DOMAIN rows
              /\ new[t].account = rows[t].account /\ new[t].amount = rows[t].amount
              /\ new[t].day = rows[t].day /\ new[t].desc = rows[t].desc
              /\ new[t].category = rows[t].category /\ new[t].source = rows[t].source
  <1> TAKE t \in DOMAIN new
  <1>1. t \in DOMAIN rows /\ rows[t] \in TxnRow BY DEF HandedOff, Table
  <1>2. CASE new[t] = rows[t] BY <1>1, <1>2
  <1>3. ASSUME NEW q, new[t] = [rows[t] EXCEPT !.period = q]
        PROVE  /\ new[t].account = rows[t].account /\ new[t].amount = rows[t].amount
               /\ new[t].day = rows[t].day /\ new[t].desc = rows[t].desc
               /\ new[t].category = rows[t].category /\ new[t].source = rows[t].source
    BY <1>1, <1>3 DEF TxnRow
  <1> QED BY <1>1, <1>2, <1>3 DEF HandedOff

(* The transfer table with pairs taken out.                                  *)
LEMMA PairTypes ==
    ASSUME TypeOK, NEW D \in SUBSET DOMAIN pairs, NEW new, new = Restrict(pairs, D)
    PROVE  /\ new \in [DOMAIN new -> {"confirmed", "rejected"}]
           /\ DOMAIN new = D /\ \A x \in D : new[x] = pairs[x]
  BY DEF TypeOK, Restrict

(* Deleting statements keeps references and transfers: a row that goes takes *)
(* its pairs, one that stays has a statement that is left.                   *)
LEMMA DeletionKeepsLinks ==
    ASSUME LInv, NEW gone, DeleteStatements(gone)
    PROVE  LInv'
  <1>1. HandedOff(txns', txns, periods, gone)
    BY AfterDeleteFacts DEF DeleteStatements, LInv, TypeOK
  <1>2. \A t \in DOMAIN txns' :
           /\ t \in DOMAIN txns
           /\ txns'[t].account = txns[t].account /\ txns'[t].amount = txns[t].amount
    <2>1. PICK new : new = txns' OBVIOUS
    <2>2. Table(txns, TxnRow) BY DEF LInv, TypeOK
    <2> QED BY <1>1, <2>1, <2>2, HandedOffKeeps
  <1>3. /\ Table(periods, PeriodRow)' /\ DOMAIN periods' = DOMAIN periods \ gone
        /\ \A p \in DOMAIN periods \ gone : periods'[p] = periods[p]
    BY WithoutFacts DEF DeleteStatements, LInv, TypeOK
  <1>4. PICK D \in SUBSET DOMAIN pairs :
           D = {x \in DOMAIN pairs : x[1] \in DOMAIN txns' /\ x[2] \in DOMAIN txns'}
    OBVIOUS
  <1>5. /\ pairs' \in [DOMAIN pairs' -> {"confirmed", "rejected"}]
        /\ DOMAIN pairs' = D /\ \A x \in D : pairs'[x] = pairs[x]
    <2>1. pairs' = Restrict(pairs, D) BY <1>4 DEF DeleteStatements, Cascade
    <2> QED BY <2>1, PairTypes DEF LInv
  <1>6. TypeOK' BY <1>1, <1>3, <1>5 DEF DeleteStatements, LInv, TypeOK, HandedOff
  <1>7. Refer(txns, periods, accounts)'
    <2>1. UNCHANGED accounts BY DEF DeleteStatements
    <2>2. DistinctSpans(periods)' BY <1>3 DEF LInv, Refer, DistinctSpans
    <2>3. ASSUME NEW t \in DOMAIN txns' PROVE Stamped(txns'[t], periods', accounts')
      <3>1. t \in DOMAIN txns /\ Stamped(txns[t], periods, accounts) /\ txns[t] \in TxnRow
        BY <1>2 DEF LInv, Refer, TypeOK, Table
      <3>2. CASE txns'[t] = txns[t] /\ txns[t].period \notin gone
        BY <1>3, <2>1, <3>1, <3>2 DEF Stamped
      <3>3. ASSUME NEW q \in Covers(periods, txns[t], gone),
                   txns'[t] = [txns[t] EXCEPT !.period = q]
            PROVE  Stamped(txns'[t], periods', accounts')
        <4>1. txns'[t].period = q /\ txns'[t].account = txns[t].account
          BY <3>1, <3>3 DEF TxnRow
        <4>2. q \in DOMAIN periods \ gone /\ periods[q].account = txns[t].account
          BY DEF Covers
        <4> QED BY <1>3, <2>1, <3>1, <4>1, <4>2 DEF Stamped
      <3> QED BY <1>1, <3>2, <3>3 DEF HandedOff
    <2> QED BY <1>3, <2>1, <2>2, <2>3 DEF LInv, Refer
  <1>8. Transfers(pairs, txns)'
    <2>1. PICK us : us = txns' OBVIOUS
    <2>2. PICK qs : qs = pairs' OBVIOUS
    <2>3. /\ DOMAIN qs \subseteq DOMAIN pairs /\ \A x \in DOMAIN qs : qs[x] = pairs[x]
          /\ \A x \in DOMAIN qs : x[1] \in DOMAIN us /\ x[2] \in DOMAIN us
      BY <1>4, <1>5, <2>1, <2>2
    <2>4. /\ DOMAIN us \subseteq DOMAIN txns
          /\ \A t \in DOMAIN us : us[t].amount = txns[t].amount /\ us[t].account = txns[t].account
      BY <1>2, <2>1
    <2>5. Transfers(pairs, txns) BY DEF LInv
    <2>6. Transfers(qs, us) BY ONLY <2>3, <2>4, <2>5, TransfersRestrict
    <2> QED BY <2>1, <2>2, <2>6
  <1> QED BY <1>6, <1>7, <1>8 DEF LInv

(* Moving a statement to an account keeps references and transfers: the      *)
(* transfers of a moved row are dropped when they would join one account to  *)
(* itself.                                                                   *)
LEMMA MoveKeepsLinks ==
    ASSUME LInv, NEW p, NEW a, ReassignAccount(p, a)
    PROVE  LInv'
  <1> DEFINE leaving == JoinedByMove(p, a)
  <1>1. p \in DOMAIN periods /\ a \in DOMAIN accounts /\ a # periods[p].account /\ SpanFree(p, a)
    BY DEF ReassignAccount
  <1>2. a \in Nat \ {0} BY <1>1 DEF LInv, TypeOK, Table, Ids
  <1>3. /\ DOMAIN periods' = DOMAIN periods
        /\ periods' = [q \in DOMAIN periods' |-> periods'[q]]
        /\ \A q \in DOMAIN periods :
              /\ periods'[q] \in PeriodRow
              /\ periods'[q].start = periods[q].start /\ periods'[q].end = periods[q].end
              /\ periods'[q].account = IF q = p THEN a ELSE periods[q].account
    <2>1. \A q \in DOMAIN periods : periods[q] \in PeriodRow BY DEF LInv, TypeOK, Table
    <2> QED BY <1>2, <2>1 DEF ReassignAccount, PeriodRow
  <1>4. /\ DOMAIN txns' = DOMAIN txns
        /\ txns' = [t \in DOMAIN txns' |-> txns'[t]]
        /\ \A t \in DOMAIN txns :
              /\ txns'[t] \in TxnRow /\ txns'[t].period = txns[t].period
              /\ txns'[t].amount = txns[t].amount
              /\ txns'[t].account = IF txns[t].period = p THEN a ELSE txns[t].account
    <2>1. \A t \in DOMAIN txns : txns[t] \in TxnRow BY DEF LInv, TypeOK, Table
    <2> QED BY <1>2, <2>1 DEF ReassignAccount, TxnRow
  <1>5. PICK D \in SUBSET DOMAIN pairs : D = DOMAIN pairs \ leaving OBVIOUS
  <1>6. /\ pairs' \in [DOMAIN pairs' -> {"confirmed", "rejected"}]
        /\ DOMAIN pairs' = D /\ \A x \in D : pairs'[x] = pairs[x]
    <2>1. pairs' = Restrict(pairs, D) BY <1>5 DEF ReassignAccount, Without
    <2> HIDE DEF leaving
    <2> QED BY <2>1, PairTypes DEF LInv
  <1>7. TypeOK'
    <2>1. Table(periods, PeriodRow)' BY <1>3 DEF LInv, TypeOK, Table
    <2>2. Table(txns, TxnRow)' BY <1>4 DEF LInv, TypeOK, Table
    <2> QED BY <1>6, <2>1, <2>2 DEF LInv, TypeOK, ReassignAccount
  <1>8. Refer(txns, periods, accounts)'
    <2>1. UNCHANGED accounts BY DEF ReassignAccount
    <2>2. DistinctSpans(periods)'
      <3>1. \A q \in DOMAIN periods : periods[q].account = a /\ periods[q].start = periods[p].start
                                      /\ periods[q].end = periods[p].end => q = p
        BY <1>1 DEF SpanFree, IdsForSpan
      <3> QED BY <1>1, <1>3, <3>1 DEF LInv, Refer, DistinctSpans
    <2>3. ASSUME NEW t \in DOMAIN txns' PROVE Stamped(txns'[t], periods', accounts')
      <3>1. t \in DOMAIN txns /\ Stamped(txns[t], periods, accounts)
        BY <1>4 DEF LInv, Refer
      <3>2. CASE txns[t].period = p BY <1>1, <1>3, <1>4, <2>1, <3>1, <3>2 DEF Stamped
      <3>3. CASE txns[t].period # p BY <1>3, <1>4, <2>1, <3>1, <3>3 DEF Stamped
      <3> QED BY <3>2, <3>3
    <2>4. \A q \in DOMAIN periods' : periods'[q].account \in DOMAIN accounts'
      BY <1>1, <1>3, <2>1 DEF LInv, Refer
    <2> QED BY <2>1, <2>2, <2>3, <2>4 DEF LInv, Refer
  <1>9. Transfers(pairs, txns)'
    <2>1. \A x \in DOMAIN pairs' : x \in DOMAIN pairs /\ pairs'[x] = pairs[x] /\ Ordered(x, txns)
      BY <1>6 DEF LInv, Transfers
    <2>2. \A x \in DOMAIN pairs' : Ordered(x, txns') BY <1>4, <2>1, OrderedFacts
    <2>3. ASSUME NEW x \in DOMAIN pairs', pairs'[x] = "confirmed" PROVE Joins(x, txns')
      <3>1. x \in DOMAIN pairs /\ pairs[x] = "confirmed" /\ Joins(x, txns)
        BY <2>1, <2>3 DEF LInv, Transfers
      <3>2. x[1] \in DOMAIN txns /\ x[2] \in DOMAIN txns BY <2>1, OrderedFacts
      <3>3. x \notin leaving BY <1>5, <1>6
      <3>4. /\ ~(txns[x[1]].period = p /\ txns[x[1]].account # a /\ txns[x[2]].account = a)
            /\ ~(txns[x[2]].period = p /\ txns[x[2]].account # a /\ txns[x[1]].account = a)
        <4>1. 3 - 1 = 2 /\ 3 - 2 = 1 OBVIOUS
        <4> QED BY <3>1, <3>3, <4>1 DEF JoinedByMove
      <3>5. p # None BY <1>1 DEF LInv, TypeOK, Table, Ids, None
      <3>6. \A t \in DOMAIN txns : txns[t].period = p => txns[t].account = periods[p].account
        BY <3>5 DEF LInv, Refer, Stamped
      <3>7. txns'[x[1]].amount = 0 - txns'[x[2]].amount BY <1>4, <3>1, <3>2 DEF Joins
      <3>8. txns'[x[1]].account # txns'[x[2]].account
        BY <1>1, <1>4, <3>1, <3>2, <3>4, <3>6 DEF Joins
      <3> QED BY <3>7, <3>8 DEF Joins
    <2> QED BY <2>1, <2>2, <2>3 DEF LInv, Transfers
  <1> QED BY <1>7, <1>8, <1>9 DEF LInv

-----------------------------------------------------------------------------
(* Transfers.                                                                *)

(* A candidate is a debit and a credit that cancel, on two accounts, neither *)
(* of them in a confirmed transfer.                                          *)
LEMMA PairFacts ==
    ASSUME LInv, NEW dc \in candidate_pairs
    PROVE  /\ Ordered(Pair(dc[1], dc[2]), txns) /\ Joins(Pair(dc[1], dc[2]), txns)
           /\ Pair(dc[1], dc[2]) \in {dc, <<dc[2], dc[1]>>}
           /\ dc[1] \in DOMAIN txns /\ dc[2] \in DOMAIN txns
           /\ txns[dc[1]].amount < 0 /\ txns[dc[2]].amount > 0
           /\ ~Consumed(dc[1]) /\ ~Consumed(dc[2])
  <1>1. PICK d, c \in DOMAIN txns : dc = <<d, c>> BY DEF candidate_pairs
  <1>2. dc[1] = d /\ dc[2] = c BY <1>1
  <1>3. d \in Nat /\ c \in Nat BY DEF LInv, TypeOK, Table, Ids
  <1>4. txns[d].amount \in Int /\ txns[c].amount \in Int BY DEF LInv, TypeOK, Table, TxnRow
  <1>5. /\ txns[d].amount < 0 /\ txns[c].amount = 0 - txns[d].amount
        /\ txns[c].account # txns[d].account /\ ~Consumed(d) /\ ~Consumed(c)
    BY <1>2 DEF candidate_pairs
  <1>6. d # c BY <1>5
  <1>7. Ordered(Pair(d, c), txns) BY <1>3, <1>6 DEF Pair, Ordered
  <1>8. Joins(Pair(d, c), txns) BY <1>4, <1>5 DEF Pair, Joins
  <1>9. Pair(d, c) \in {<<d, c>>, <<c, d>>} BY DEF Pair
  <1> QED BY <1>1, <1>2, <1>4, <1>5, <1>7, <1>8, <1>9

(* The greedy pass picks candidates that share no row.  Greedy is a kernel;  *)
(* GreedyKernel says that there is one.                                      *)
LEMMA GreedyFacts ==
    ASSUME LInv, NEW chosen \in SUBSET candidate_pairs
    PROVE  /\ Greedy(chosen) \in SUBSET chosen
           /\ \A x, y \in Greedy(chosen) : x # y => x[1] # y[1] /\ x[2] # y[2]
  <1> DEFINE R == {xy \in chosen \X chosen : Earlier(xy[1], xy[2])}
             C == {xy \in chosen \X chosen : xy[1][1] # xy[2][1] /\ xy[1][2] # xy[2][2]}
             Compatible(T) ==
                T = {x \in chosen : \A y \in T : Earlier(y, x) => y[1] # x[1] /\ y[2] # x[2]}
  <1>1. \A x \in chosen : x = <<x[1], x[2]>> /\ x[1] \in DOMAIN txns /\ x[2] \in DOMAIN txns
    BY DEF candidate_pairs
  <1>2. \A t \in DOMAIN txns : t \in Nat /\ txns[t].day \in Int
    BY DEF LInv, TypeOK, Table, Ids, TxnRow
  <1>3. IsFiniteSet(chosen)
    <2>1. PICK D : D = DOMAIN txns OBVIOUS
    <2>2. IsFiniteSet(D \X D) BY <2>1, FS_Product DEF LInv, TypeOK, Table, Ids
    <2>3. chosen \subseteq D \X D BY <2>1 DEF candidate_pairs
    <2> QED BY <2>2, <2>3, FS_Subset
  <1>4. \A x, y \in chosen : x = y \/ Earlier(x, y) \/ Earlier(y, x)
    <2> TAKE x, y \in chosen
    <2>1. x[1] = y[1] /\ x[2] = y[2] => x = y BY <1>1
    <2> QED BY <1>1, <1>2, <2>1 DEF Earlier
  <1>5. \A x, y \in chosen : Earlier(x, y) => ~Earlier(y, x) BY <1>1, <1>2 DEF Earlier
  <1>6. \A x, y, z \in chosen : Earlier(x, y) /\ Earlier(y, z) => Earlier(x, z)
    BY <1>1, <1>2 DEF Earlier
  <1>7. \A x, y \in chosen : /\ <<x, y>> \in R <=> Earlier(x, y)
                             /\ <<x, y>> \in C <=> x[1] # y[1] /\ x[2] # y[2]
    OBVIOUS
  <1>8. \E T \in SUBSET chosen :
           \A x \in chosen : x \in T <=> \A y \in T : <<y, x>> \in R => <<y, x>> \in C
    <2> HIDE DEF R, C
    <2>1. \A x, y \in chosen : x = y \/ <<x, y>> \in R \/ <<y, x>> \in R BY <1>4, <1>7
    <2>2. \A x, y \in chosen : <<x, y>> \in R => <<y, x>> \notin R BY <1>5, <1>7
    <2>3. \A x, y, z \in chosen : <<x, y>> \in R /\ <<y, z>> \in R => <<x, z>> \in R
      BY <1>6, <1>7
    <2>4. HasKernel(chosen, R, C) BY ONLY <1>3, <2>1, <2>2, <2>3, GreedyKernel
    <2> QED BY <2>4 DEF HasKernel
  <1>9. \E T \in SUBSET chosen : Compatible(T)
    <2> HIDE DEF R, C
    <2>1. PICK T \in SUBSET chosen :
             \A x \in chosen : x \in T <=> \A y \in T : <<y, x>> \in R => <<y, x>> \in C
      BY <1>8
    <2>2. Compatible(T) BY <1>7, <2>1
    <2> QED BY <2>2
  <1>10. PICK T : T = Greedy(chosen) OBVIOUS
  <1>11. T \in SUBSET chosen /\ Compatible(T)
    <2>1. T = CHOOSE U \in SUBSET chosen : Compatible(U) BY <1>10 DEF Greedy
    <2> HIDE DEF Compatible
    <2> QED BY <1>9, <2>1
  <1>12. ASSUME NEW x \in T, NEW y \in T, x # y PROVE x[1] # y[1] /\ x[2] # y[2]
    <2>1. Earlier(x, y) \/ Earlier(y, x) BY <1>4, <1>11, <1>12
    <2>2. Earlier(y, x) => y[1] # x[1] /\ y[2] # x[2] BY <1>11
    <2>3. Earlier(x, y) => x[1] # y[1] /\ x[2] # y[2] BY <1>11
    <2> QED BY <2>1, <2>2, <2>3
  <1> QED BY <1>10, <1>11, <1>12

(* Deciding candidates keeps transfers sound, if those confirmed share no    *)
(* row.                                                                      *)
LEMMA DecideFacts ==
    ASSUME LInv, NEW decided \in SUBSET candidate_pairs, NEW s \in {"confirmed", "rejected"},
           Decide(decided, s),
           s = "confirmed" => \A x, y \in decided : x # y => x[1] # y[1] /\ x[2] # y[2]
    PROVE  LInv'
  <1>1. PICK new : new = {Pair(dc[1], dc[2]) : dc \in decided} OBVIOUS
  <1>2. /\ DOMAIN pairs' = DOMAIN pairs \cup new
        /\ pairs' = [x \in DOMAIN pairs' |-> pairs'[x]]
        /\ \A x \in DOMAIN pairs : pairs'[x] = pairs[x]
        /\ \A x \in new \ DOMAIN pairs : pairs'[x] = s
    BY <1>1 DEF Decide
  <1>3. TypeOK'
    <2>1. \A x \in DOMAIN pairs' : pairs'[x] \in {"confirmed", "rejected"}
      BY <1>2 DEF LInv, TypeOK
    <2>2. pairs' \in [DOMAIN pairs' -> {"confirmed", "rejected"}] BY <1>2, <2>1
    <2> QED BY <2>2 DEF LInv, TypeOK, Decide
  <1>4. Refer(txns, periods, accounts)' BY DEF Decide, LInv
  <1>5. UNCHANGED txns BY DEF Decide
  <1>6. \A x \in new : Ordered(x, txns) /\ Joins(x, txns) BY <1>1, PairFacts
  <1>7. \A x \in DOMAIN pairs' : Ordered(x, txns) BY <1>2, <1>6 DEF LInv, Transfers
  <1>8. \A x \in DOMAIN pairs' : pairs'[x] = "confirmed" => Joins(x, txns)
    BY <1>2, <1>6 DEF LInv, Transfers
  <1>9. \A x \in DOMAIN pairs' : pairs'[x] = "confirmed" =>
           \/ x \in DOMAIN pairs /\ pairs[x] = "confirmed"
           \/ s = "confirmed" /\ x \in new
    BY <1>2
  <1>10. ASSUME s = "confirmed", NEW x \in new, NEW y \in DOMAIN pairs, pairs[y] = "confirmed"
         PROVE  Apart(x, y) /\ Apart(y, x)
    <2>1. PICK dc \in candidate_pairs : x = Pair(dc[1], dc[2]) BY <1>1
    <2>2. ~Consumed(dc[1]) /\ ~Consumed(dc[2]) /\ x \in {dc, <<dc[2], dc[1]>>}
      BY <2>1, PairFacts
    <2>3. {x[1], x[2]} = {dc[1], dc[2]} BY <2>2
    <2>4. y \in Confirmed BY <1>10 DEF Confirmed
    <2>5. dc[1] \notin {y[1], y[2]} /\ dc[2] \notin {y[1], y[2]} BY <2>2, <2>4 DEF Consumed
    <2>6. x[1] \notin {y[1], y[2]} /\ x[2] \notin {y[1], y[2]} BY <2>3, <2>5
    <2> QED BY <2>6 DEF Apart
  <1>11. ASSUME s = "confirmed", NEW x \in new, NEW y \in new, x # y PROVE Apart(x, y)
    <2>1. PICK c \in decided : x = Pair(c[1], c[2]) BY <1>1
    <2>2. PICK d \in decided : y = Pair(d[1], d[2]) BY <1>1
    <2>3. c # d BY <1>11, <2>1, <2>2
    <2>4. c[1] # d[1] /\ c[2] # d[2] BY <1>11, <2>3
    <2>5. /\ x \in {c, <<c[2], c[1]>>} /\ y \in {d, <<d[2], d[1]>>}
          /\ txns[c[1]].amount < 0 /\ txns[c[2]].amount > 0
          /\ txns[d[1]].amount < 0 /\ txns[d[2]].amount > 0
          /\ c[1] \in DOMAIN txns /\ c[2] \in DOMAIN txns
          /\ d[1] \in DOMAIN txns /\ d[2] \in DOMAIN txns
      BY <2>1, <2>2, PairFacts
    <2>6. \A t \in DOMAIN txns : txns[t].amount \in Int BY DEF LInv, TypeOK, Table, TxnRow
    <2>7. c[1] # d[2] /\ c[2] # d[1] BY <2>5, <2>6
    <2> QED BY <2>4, <2>5, <2>7 DEF Apart
  <1>12. Transfers(pairs, txns)'
    <2>1. \A x, y \in DOMAIN pairs' :
             pairs'[x] = "confirmed" /\ pairs'[y] = "confirmed" /\ x # y => Apart(x, y)
      <3>1. \A x, y \in DOMAIN pairs :
              pairs[x] = "confirmed" /\ pairs[y] = "confirmed" /\ x # y => Apart(x, y)
        BY DEF LInv, Transfers
      <3> QED BY <1>9, <1>10, <1>11, <3>1
    <2> QED BY <1>5, <1>7, <1>8, <2>1 DEF Transfers
  <1> QED BY <1>3, <1>4, <1>12 DEF LInv

(* confirm_many keeps references and transfers.                              *)
LEMMA ConfirmKeepsLinks ==
    ASSUME LInv, NEW chosen \in SUBSET candidate_pairs, ConfirmMany(chosen)
    PROVE  LInv'
  <1>1. PICK taken : taken = Greedy(chosen) OBVIOUS
  <1>2. /\ taken \in SUBSET candidate_pairs
        /\ \A x, y \in taken : x # y => x[1] # y[1] /\ x[2] # y[2]
    BY <1>1, GreedyFacts
  <1>3. Decide(taken, "confirmed") BY <1>1 DEF ConfirmMany
  <1> QED BY <1>2, <1>3, DecideFacts

(* reject_many keeps references and transfers.                               *)
LEMMA RejectKeepsLinks ==
    ASSUME LInv, NEW chosen \in SUBSET candidate_pairs, RejectMany(chosen)
    PROVE  LInv'
  <1>1. Decide(chosen, "rejected") BY DEF RejectMany
  <1> QED BY <1>1, DecideFacts

(* Unlinking a transfer keeps the others sound.                              *)
LEMMA UnlinkKeepsLinks ==
    ASSUME LInv, NEW x, Unlink(x)
    PROVE  LInv'
  <1>1. PICK D \in SUBSET DOMAIN pairs : D = DOMAIN pairs \ {x} OBVIOUS
  <1>2. /\ pairs' \in [DOMAIN pairs' -> {"confirmed", "rejected"}]
        /\ DOMAIN pairs' = D /\ \A y \in D : pairs'[y] = pairs[y]
    <2>1. pairs' = Restrict(pairs, D) BY <1>1 DEF Unlink, Without
    <2> QED BY <2>1, PairTypes DEF LInv
  <1>3. TypeOK' BY <1>2 DEF LInv, TypeOK, Unlink
  <1>4. Refer(txns, periods, accounts)' BY DEF Unlink, LInv
  <1>5. Transfers(pairs, txns)' BY <1>2 DEF Unlink, LInv, Transfers
  <1> QED BY <1>3, <1>4, <1>5 DEF LInv

-----------------------------------------------------------------------------
(* Typed rows and accounts.                                                  *)

(* A row typed by hand has an account and no statement, and is in no         *)
(* transfer.                                                                 *)
LEMMA TypingKeepsLinks ==
    ASSUME LInv, NEW a, NEW d \in Entries, AddTransaction(a, d)
    PROVE  LInv'
  <1>1. a \in DOMAIN accounts /\ a \in Nat \ {0}
    BY DEF AddTransaction, LInv, TypeOK, Table, Ids
  <1>2. PICK row : row = Row(a, d, None) OBVIOUS
  <1>3. row \in TxnRow /\ row.account = a /\ row.period = None
    <2>1. d \in Drafts BY EntriesAreAmounts
    <2> QED BY <1>1, <1>2, <2>1 DEF Row, TxnRow, Drafts, Sources, None
  <1>4. PICK id \in Nat \ {0} : id = NewId(txns) /\ id \notin DOMAIN txns
    BY NewIdFacts DEF LInv, TypeOK, Table
  <1>5. txns' = Put(txns, id, row) BY <1>2, <1>4 DEF AddTransaction
  <1>6. /\ Table(txns', TxnRow) /\ DOMAIN txns' = DOMAIN txns \cup {id}
        /\ txns'[id] = row /\ \A t \in DOMAIN txns : txns'[t] = txns[t]
    <2>1. PICK R : R = TxnRow OBVIOUS
    <2>2. Table(txns, R) /\ row \in R BY <1>3, <2>1 DEF LInv, TypeOK
    <2>3. /\ Table(txns', R) /\ DOMAIN txns' = DOMAIN txns \cup {id} /\ txns'[id] = row
          /\ \A t \in DOMAIN txns \ {id} : txns'[t] = txns[t]
      BY <1>4, <1>5, <2>2, PutFacts
    <2> QED BY <1>4, <2>1, <2>3
  <1>7. TypeOK' BY <1>6 DEF LInv, TypeOK, AddTransaction
  <1>8. Refer(txns, periods, accounts)'
    BY <1>1, <1>3, <1>6 DEF AddTransaction, LInv, Refer, Stamped
  <1>9. Transfers(pairs, txns)'
    <2>1. PICK us : us = txns' OBVIOUS
    <2>2. Transfers(pairs, us) BY <1>6, <2>1, TransfersStay DEF LInv
    <2> QED BY <2>1, <2>2 DEF AddTransaction
  <1> QED BY <1>7, <1>8, <1>9 DEF LInv

(* Adding and renaming accounts, and deleting one that nothing refers to.    *)
LEMMA AccountsKeepLinks ==
    ASSUME LInv, \/ \E n \in AccountNames : AddAccount(n)
                 \/ \E a \in DOMAIN accounts, n \in AccountNames : UpdateAccount(a, n)
                 \/ \E a \in DOMAIN accounts : DeleteAccount(a)
    PROVE  LInv'
  <1>1. UNCHANGED <<txns, categories, rules, library, periods, pairs>>
    BY DEF AddAccount, UpdateAccount, DeleteAccount
  <1>2. SUFFICES /\ Table(accounts, AccountNames)' /\ DOMAIN accounts' # {}
                 /\ \A p \in DOMAIN periods : periods[p].account \in DOMAIN accounts'
                 /\ \A t \in DOMAIN txns : txns[t].account \in DOMAIN accounts'
    BY <1>1 DEF LInv, TypeOK, Refer, Stamped
  <1>3. /\ DOMAIN accounts # {}
        /\ \A p \in DOMAIN periods : periods[p].account \in DOMAIN accounts
        /\ \A t \in DOMAIN txns : txns[t].account \in DOMAIN accounts
    BY DEF LInv, Refer, Stamped
  <1>4. Table(accounts, AccountNames) BY DEF LInv, TypeOK
  <1>5. ASSUME NEW n \in AccountNames, AddAccount(n)
        PROVE  Table(accounts, AccountNames)' /\ DOMAIN accounts \subseteq DOMAIN accounts'
    <2>1. PICK id \in Nat \ {0} : id = NewId(accounts) BY <1>4, NewIdFacts DEF Table
    <2>2. accounts' = Put(accounts, id, n) BY <1>5, <2>1 DEF AddAccount
    <2>3. /\ Table(Put(accounts, id, n), AccountNames)
          /\ DOMAIN Put(accounts, id, n) = DOMAIN accounts \cup {id}
      <3>1. PICK R : R = AccountNames OBVIOUS
      <3>2. PICK row \in R : row = n BY <3>1
      <3>3. Table(accounts, R) BY <1>4, <3>1
      <3>4. /\ Table(Put(accounts, id, row), R)
            /\ DOMAIN Put(accounts, id, row) = DOMAIN accounts \cup {id}
        BY ONLY <2>1, <3>2, <3>3, PutFacts
      <3> QED BY <3>1, <3>2, <3>4
    <2> QED BY <2>2, <2>3
  <1>6. ASSUME NEW a \in DOMAIN accounts, NEW n \in AccountNames, UpdateAccount(a, n)
        PROVE  Table(accounts, AccountNames)' /\ DOMAIN accounts' = DOMAIN accounts
    BY <1>4, <1>6 DEF UpdateAccount, Table
  <1>7. ASSUME NEW a \in DOMAIN accounts, DeleteAccount(a)
        PROVE  /\ Table(accounts, AccountNames)' /\ DOMAIN accounts' # {}
               /\ \A p \in DOMAIN periods : periods[p].account \in DOMAIN accounts'
               /\ \A t \in DOMAIN txns : txns[t].account \in DOMAIN accounts'
    <2>1. /\ Table(accounts, AccountNames)' /\ DOMAIN accounts' = DOMAIN accounts \ {a}
      BY <1>4, <1>7, WithoutFacts DEF DeleteAccount
    <2>2. DOMAIN accounts # {a}
      <3>1. Cardinality({a}) = 1 BY FS_Singleton
      <3> QED BY <1>7, <3>1 DEF DeleteAccount
    <2> QED BY <1>3, <1>7, <2>1, <2>2 DEF DeleteAccount
  <1> QED BY <1>3, <1>5, <1>6, <1>7

-----------------------------------------------------------------------------

(* Every step keeps references and transfers.                                *)
LEMMA LinksStep == LInv /\ [Next]_vars => LInv'
  <1> SUFFICES ASSUME LInv, [Next]_vars PROVE LInv' OBVIOUS
  <1>1. CASE UNCHANGED vars
    BY <1>1 DEF vars, LInv, TypeOK, Refer, Stamped, DistinctSpans, Transfers, Ordered, Joins
  <1>2. ASSUME NEW f \in Files, NEW a \in DOMAIN accounts,
               NEW s \in OtherSpans \cup {<<f.start, f.end>>}, CommitImport(f, a, s[1], s[2])
        PROVE  LInv'
    <2>1. s[1] \in Int /\ s[2] \in Int BY FilesAreDated, SpansAreOrdered
    <2> QED BY <1>2, <2>1, ImportKeepsLinks
  <1>3. ASSUME NEW a \in DOMAIN accounts, NEW d \in Entries, AddTransaction(a, d) PROVE LInv'
    BY <1>3, TypingKeepsLinks
  <1>4. ASSUME NEW gone \in SUBSET DOMAIN periods, DeleteStatements(gone) PROVE LInv'
    BY <1>4, DeletionKeepsLinks
  <1>5. ASSUME NEW p \in DOMAIN periods, NEW a \in DOMAIN accounts, ReassignAccount(p, a)
        PROVE  LInv'
    BY <1>5, MoveKeepsLinks
  <1>6. ASSUME NEW chosen \in SUBSET candidate_pairs, ConfirmMany(chosen) PROVE LInv'
    BY <1>6, ConfirmKeepsLinks
  <1>7. ASSUME NEW chosen \in SUBSET candidate_pairs, RejectMany(chosen) PROVE LInv'
    BY <1>7, RejectKeepsLinks
  <1>8. ASSUME NEW x \in DOMAIN pairs, Unlink(x) PROVE LInv' BY <1>8, UnlinkKeepsLinks
  <1>9. CASE CatNext /\ UNCHANGED <<accounts, periods, pairs>> BY <1>9, FilingKeepsLinks
  <1> QED BY <1>1, <1>2, <1>3, <1>4, <1>5, <1>6, <1>7, <1>8, <1>9, AccountsKeepLinks DEF Next

(* References and transfers are sound in every state.                        *)
LEMMA LinksAlways == Spec => []LInv
  <1> QED BY LinksAtFirst, LinksStep, PTL DEF Spec

(* Every table keeps its types: ids are positive, amounts are not zero, and  *)
(* a transfer's status is one of two.                                        *)
THEOREM TypeCorrect == Spec => []TypeOK
  <1>1. LInv => TypeOK BY DEF LInv
  <1> QED BY <1>1, LinksAlways, PTL

(* What the invariant says in the runs' terms.                               *)
LEMMA LinksMean == LInv => LinksAreSound
  BY ReferencesMean, TransfersMean DEF LInv, LinksAreSound, PairsAreOrdered, Transfers

(* Every row has an account, and its statement, if it has one, is there and  *)
(* in that account; a confirmed transfer joins an equal debit and credit of  *)
(* two accounts, and no row is in two: through imports, deletions, moves and *)
(* confirmations in any order (statements.py, transfer_detection.py).        *)
THEOREM Links == Spec => []LinksAreSound
  <1> QED BY LinksMean, LinksAlways, PTL

-----------------------------------------------------------------------------
(* The category tree.                                                        *)

(* TreeIsSound, of the categories as they are.                               *)
LEMMA TreeMeans == Tree(categories) => TreeIsSound
  <1> SUFFICES ASSUME Tree(categories), NEW c \in DOMAIN categories
               PROVE  Cardinality(Above(categories, c) \cap Roots) = 1
    BY DEF Tree, TreeIsSound
  <1>1. PICK r \in Roots : Above(categories, c) \cap Roots = {r} BY DEF Tree, UnderOneType
  <1>2. Cardinality({r}) = 1 BY FS_Singleton
  <1> QED BY <1>1, <1>2

\* AboveIsLeast, as the other lemmas cite it.
LEMMA AboveFacts ==
    ASSUME NEW cats, Ids(DOMAIN cats), UpClosed(cats, DOMAIN cats), NEW c \in DOMAIN cats
    PROVE  /\ c \in Above(cats, c) /\ Above(cats, c) \subseteq DOMAIN cats
           /\ UpClosed(cats, Above(cats, c))
           /\ \A S : c \in S /\ UpClosed(cats, S) => Above(cats, c) \subseteq S
  BY AboveIsLeast DEF Ids

\* A tree the same over a set closed upwards has the same Above there.
LEMMA AboveSame ==
    ASSUME NEW cats, Ids(DOMAIN cats), UpClosed(cats, DOMAIN cats),
           NEW new, Ids(DOMAIN new), UpClosed(new, DOMAIN new),
           NEW c \in DOMAIN cats, Above(cats, c) \subseteq DOMAIN new,
           \A d \in Above(cats, c) : new[d].parent = cats[d].parent
    PROVE  Above(new, c) = Above(cats, c)
  <1>1. PICK A : A = Above(cats, c) OBVIOUS
  <1>2. c \in A /\ A \subseteq DOMAIN cats /\ UpClosed(cats, A) BY <1>1, AboveFacts
  <1>3. UpClosed(new, A) BY <1>1, <1>2 DEF UpClosed
  <1>4. c \in DOMAIN new BY <1>1, <1>2
  <1>5. PICK B : B = Above(new, c) OBVIOUS
  <1>6. c \in B /\ UpClosed(new, B) /\ B \subseteq A BY <1>2, <1>3, <1>4, <1>5, AboveFacts
  <1>7. UpClosed(cats, B) BY <1>1, <1>6 DEF UpClosed
  <1>8. A \subseteq B BY <1>1, <1>6, <1>7, AboveFacts
  <1> QED BY <1>1, <1>5, <1>6, <1>8

\* A Type is above itself only.
LEMMA AboveRoot ==
    ASSUME NEW cats, Tree(cats), NEW r \in DOMAIN cats, cats[r].parent = None
    PROVE  Above(cats, r) = {r}
  <1>1. UpClosed(cats, {r}) BY DEF UpClosed
  <1>2. r \in Above(cats, r) /\ Above(cats, r) \subseteq {r}
    BY <1>1, AboveFacts DEF Tree, Table
  <1> QED BY <1>2

(* The seed is a tree.  The constant's assumption says so of the seed only.  *)
LEMMA TreeAtFirst == Table(Seed, CategoryRow) => Tree(Seed)
  <1> SUFFICES ASSUME Table(Seed, CategoryRow) PROVE Tree(Seed) OBVIOUS
  <1> USE SeedIsATree
  <1>1. Ids(DOMAIN Seed) BY DEF Table
  <1>2. UpClosed(Seed, DOMAIN Seed) BY DEF UpClosed, Roots
  <1>3. ASSUME NEW c \in DOMAIN Seed PROVE UnderOneType(Seed, c)
    <2>1. PICK A : A = Above(Seed, c) OBVIOUS
    <2>2. c \in A /\ UpClosed(Seed, A) /\ \A S : c \in S /\ UpClosed(Seed, S) => A \subseteq S
      BY <1>1, <1>2, <2>1, AboveFacts
    <2>3. CASE c \in Roots
      <3>1. UpClosed(Seed, {c}) BY <2>3 DEF UpClosed, Roots
      <3>2. A = {c} BY <2>2, <3>1
      <3> QED BY <2>1, <2>3, <3>2 DEF UnderOneType
    <2>4. CASE c \notin Roots
      <3>1. PICK r \in Roots : r = Seed[c].parent BY <2>4 DEF Roots
      <3>2. Seed[r].parent = None /\ Seed[c].parent # None BY <2>4, <3>1 DEF Roots
      <3>3. UpClosed(Seed, {c, r}) BY <3>1, <3>2 DEF UpClosed
      <3>4. A \subseteq {c, r} BY <2>2, <3>3
      <3>5. r \in A BY <2>2, <3>1, <3>2 DEF UpClosed
      <3>6. A \cap Roots = {r} BY <2>4, <3>4, <3>5
      <3> QED BY <2>1, <3>6 DEF UnderOneType
    <2> QED BY <2>3, <2>4
  <1> QED BY <1>2, <1>3 DEF Tree, Roots

(* A new category under an old one: what is above the old ones stays, and    *)
(* above the new one is its parent's and itself.                             *)
LEMMA AddKeepsTree ==
    ASSUME NEW cats, Tree(cats), NEW p \in DOMAIN cats, NEW id \in Nat \ {0}, id \notin DOMAIN cats,
           NEW new, Table(new, CategoryRow), DOMAIN new = DOMAIN cats \cup {id},
           new[id].parent = p, \A d \in DOMAIN cats : new[d] = cats[d]
    PROVE  Tree(new)
  <1>1. Ids(DOMAIN cats) /\ UpClosed(cats, DOMAIN cats) BY DEF Tree, Table
  <1>2. Ids(DOMAIN new) /\ UpClosed(new, DOMAIN new) BY <1>1 DEF Table, UpClosed
  <1>3. \A d \in DOMAIN cats : Above(new, d) = Above(cats, d)
    <2> TAKE d \in DOMAIN cats
    <2>1. Above(cats, d) \subseteq DOMAIN cats BY <1>1, AboveFacts
    <2>2. Above(cats, d) \subseteq DOMAIN new BY <2>1
    <2>3. \A e \in Above(cats, d) : new[e].parent = cats[e].parent BY <2>1
    <2> QED BY <1>1, <1>2, <2>2, <2>3, AboveSame
  <1>4. id \notin Roots /\ p # None BY DEF Tree, Table, Ids, None
  <1>5. {c \in DOMAIN new : new[c].parent = None} = Roots BY <1>4 DEF Tree
  <1>6. UnderOneType(new, id)
    <2>1. PICK A : A = Above(new, id) OBVIOUS
    <2>2. PICK P : P = Above(new, p) OBVIOUS
    <2>3. /\ id \in A /\ UpClosed(new, A)
          /\ \A S : id \in S /\ UpClosed(new, S) => A \subseteq S
      BY <1>2, <2>1, AboveFacts
    <2>4. p \in DOMAIN new OBVIOUS
    <2>5. /\ p \in P /\ UpClosed(new, P)
          /\ \A S : p \in S /\ UpClosed(new, S) => P \subseteq S
      BY <1>2, <2>2, <2>4, AboveFacts
    <2>6. UpClosed(new, {id} \cup P) BY <2>5 DEF UpClosed
    <2>7. A \subseteq {id} \cup P BY <2>3, <2>6
    <2>8. p \in A BY <1>4, <2>3 DEF UpClosed
    <2>9. P \subseteq A BY <2>3, <2>5, <2>8
    <2>10. A \cap Roots = P \cap Roots BY <1>4, <2>7, <2>9
    <2>11. P = Above(cats, p) BY <1>3, <2>2
    <2> QED BY <2>1, <2>10, <2>11 DEF Tree, UnderOneType
  <1>7. \A c \in DOMAIN new : UnderOneType(new, c) BY <1>3, <1>6 DEF Tree, UnderOneType
  <1> QED BY <1>2, <1>5, <1>7 DEF Tree

(* A category no other hangs under can go.                                   *)
LEMMA DeleteKeepsTree ==
    ASSUME NEW cats, Tree(cats), NEW c, Leaf(cats, c), \A d \in DOMAIN cats : cats[d].parent # c,
           NEW new, Table(new, CategoryRow), DOMAIN new = DOMAIN cats \ {c},
           \A d \in DOMAIN cats \ {c} : new[d] = cats[d]
    PROVE  Tree(new)
  <1>1. Ids(DOMAIN cats) /\ UpClosed(cats, DOMAIN cats) BY DEF Tree, Table
  <1>2. Ids(DOMAIN new) /\ UpClosed(new, DOMAIN new) BY <1>1 DEF Table, UpClosed
  <1>3. \A d \in DOMAIN new : Above(new, d) = Above(cats, d)
    <2> TAKE d \in DOMAIN new
    <2>1. d \in DOMAIN cats /\ d # c OBVIOUS
    <2>2. PICK A : A = Above(cats, d) OBVIOUS
    <2>3. d \in A /\ A \subseteq DOMAIN cats /\ UpClosed(cats, A)
          /\ \A S : d \in S /\ UpClosed(cats, S) => A \subseteq S
      BY <1>1, <2>1, <2>2, AboveFacts
    <2>4. UpClosed(cats, A \ {c}) BY <2>3 DEF UpClosed
    <2>5. c \notin A BY <2>1, <2>3, <2>4
    <2>6. Above(cats, d) \subseteq DOMAIN new BY <2>2, <2>3, <2>5
    <2>7. \A e \in Above(cats, d) : new[e].parent = cats[e].parent BY <2>2, <2>3, <2>5
    <2> QED BY <1>1, <1>2, <2>1, <2>6, <2>7, AboveSame
  <1>4. {d \in DOMAIN new : new[d].parent = None} = Roots BY DEF Tree, Leaf
  <1>5. \A d \in DOMAIN new : UnderOneType(new, d) BY <1>3 DEF Tree, UnderOneType
  <1> QED BY <1>2, <1>4, <1>5 DEF Tree

(* A category may be hung under any that is not under it: the guard of       *)
(* move_category, and what keeps the tree free of cycles.                    *)
LEMMA MoveKeepsTree ==
    ASSUME NEW cats, Tree(cats), NEW c, Leaf(cats, c), NEW p \in DOMAIN cats,
           c \notin Above(cats, p),
           NEW new, Table(new, CategoryRow), DOMAIN new = DOMAIN cats,
           new[c].parent = p, \A d \in DOMAIN cats \ {c} : new[d] = cats[d]
    PROVE  Tree(new)
  <1>1. Ids(DOMAIN cats) /\ UpClosed(cats, DOMAIN cats) BY DEF Tree, Table
  <1>2. Ids(DOMAIN new) /\ UpClosed(new, DOMAIN new) BY <1>1 DEF Table, UpClosed
  <1>3. p # None /\ c \in DOMAIN cats /\ cats[c].parent # None BY DEF Leaf, Tree, Table, Ids, None
  <1>4. {d \in DOMAIN new : new[d].parent = None} = Roots BY <1>3 DEF Tree
  <1>5. ASSUME NEW d \in DOMAIN cats, c \notin Above(cats, d)
        PROVE  Above(new, d) = Above(cats, d)
    <2>1. Above(cats, d) \subseteq DOMAIN cats BY <1>1, AboveFacts
    <2>2. Above(cats, d) \subseteq DOMAIN new BY <2>1
    <2>3. \A e \in Above(cats, d) : new[e].parent = cats[e].parent BY <1>5, <2>1
    <2> QED BY <1>1, <1>2, <2>2, <2>3, AboveSame
  <1>6. PICK P : P = Above(cats, p) OBVIOUS
  <1>7. Above(new, p) = P BY <1>5, <1>6
  <1>8. /\ p \in P /\ UpClosed(new, P)
        /\ \A S : p \in S /\ UpClosed(new, S) => P \subseteq S
    <2>1. p \in DOMAIN new OBVIOUS
    <2> QED BY <1>2, <1>7, <2>1, AboveFacts
  <1>9. ASSUME NEW d \in DOMAIN cats, c \in Above(cats, d) PROVE UnderOneType(new, d)
    <2>1. PICK A : A = Above(cats, d) OBVIOUS
    <2>2. PICK B : B = Above(new, d) OBVIOUS
    <2>3. /\ d \in A /\ A \subseteq DOMAIN cats /\ UpClosed(cats, A)
          /\ \A S : d \in S /\ UpClosed(cats, S) => A \subseteq S
      BY <1>1, <2>1, AboveFacts
    <2>4. /\ d \in B /\ UpClosed(new, B)
          /\ \A S : d \in S /\ UpClosed(new, S) => B \subseteq S
      <3>1. d \in DOMAIN new OBVIOUS
      <3> QED BY <1>2, <2>2, <3>1, AboveFacts
    <2>5. PICK below : below = {e \in A : c \in Above(cats, e)} OBVIOUS
    <2>6. ASSUME NEW e \in below, e # c
          PROVE  cats[e].parent # None /\ cats[e].parent \in below
      <3>1. e \in DOMAIN cats /\ c \in Above(cats, e) BY <2>3, <2>5
      <3>2. cats[e].parent # None BY <2>6, <3>1, AboveRoot
      <3>3. PICK q : q = cats[e].parent OBVIOUS
      <3>4. q \in A /\ q \in DOMAIN cats BY <2>3, <2>5, <3>1, <3>2, <3>3 DEF UpClosed
      <3>5. PICK Q : Q = Above(cats, q) OBVIOUS
      <3>6. q \in Q /\ UpClosed(cats, Q) BY <1>1, <3>4, <3>5, AboveFacts
      <3>7. UpClosed(cats, {e} \cup Q) BY <3>3, <3>6 DEF UpClosed
      <3>8. Above(cats, e) \subseteq {e} \cup Q BY <1>1, <3>1, <3>7, AboveFacts
      <3>9. c \in Q BY <2>6, <3>1, <3>8
      <3> QED BY <2>5, <3>2, <3>3, <3>4, <3>5, <3>9
    <2>7. UpClosed(new, below \cup P)
      <3>1. ASSUME NEW e \in below PROVE new[e].parent \in below \cup P
        <4>1. e \in DOMAIN cats BY <2>3, <2>5
        <4>2. CASE e = c BY <1>8, <4>2
        <4>3. CASE e # c BY <2>6, <4>1, <4>3
        <4> QED BY <4>2, <4>3
      <3> QED BY <1>8, <3>1 DEF UpClosed
    <2>8. d \in below BY <1>9, <2>1, <2>3, <2>5
    <2>9. B \subseteq below \cup P BY <2>4, <2>7, <2>8
    <2>10. below \cap Roots = {}
      <3> SUFFICES ASSUME NEW e \in below, e \in Roots PROVE FALSE OBVIOUS
      <3>1. e \in DOMAIN cats /\ cats[e].parent = None BY DEF Tree
      <3>2. e = c BY <2>6, <3>1
      <3> QED BY <1>3, <3>1, <3>2
    <2>11. c \in B
      <3> SUFFICES ASSUME c \notin B PROVE FALSE OBVIOUS
      <3>1. B \subseteq DOMAIN cats
        <4>1. d \in DOMAIN new OBVIOUS
        <4> QED BY <1>2, <2>2, <4>1, AboveFacts
      <3>2. UpClosed(cats, B) BY <2>4, <3>1 DEF UpClosed
      <3>3. A \subseteq B BY <2>3, <2>4, <3>2
      <3> QED BY <1>9, <2>1, <3>3
    <2>12. p \in B BY <1>3, <2>4, <2>11 DEF UpClosed
    <2>13. P \subseteq B BY <1>8, <2>4, <2>12
    <2>14. B \cap Roots = P \cap Roots BY <2>9, <2>10, <2>13
    <2> QED BY <1>6, <2>2, <2>14 DEF Tree, UnderOneType
  <1>10. \A d \in DOMAIN new : UnderOneType(new, d) BY <1>5, <1>9 DEF Tree, UnderOneType
  <1> QED BY <1>2, <1>4, <1>10 DEF Tree

-----------------------------------------------------------------------------
(* Filing.                                                                   *)

FInv == /\ Tree(categories) /\ RulesPoint(rules, categories)
        /\ \A t \in DOMAIN txns : RowPoints(txns[t], categories)

LeavesStay ==
    \A d \in DOMAIN categories : Leaf(categories, d) /\ d \in DOMAIN categories' => Leaf(categories', d)

\* How a step may file the row t: not at all, by hand, or, if it was not filed
\* by hand or its category is gone, by the rules and the library.
Refiled(t) ==
    \/ /\ Filing(txns'[t]) = Filing(txns[t])
       /\ txns[t].category = None \/ txns[t].category \in DOMAIN categories'
    \/ txns'[t].source = "manual" /\ RowPoints(txns'[t], categories')
    \/ txns[t].source # "manual" /\ MayFile(categories', rules', txns'[t].category)
    \/ /\ txns[t].category # None /\ txns[t].category \notin DOMAIN categories'
       /\ MayFile(categories', rules', txns'[t].category)

FilesWell ==
    \A t \in DOMAIN txns' :
        IF t \in DOMAIN txns THEN Refiled(t) ELSE MayFile(categories', rules', txns'[t].category)

(* The invariant after a step, from what the step does to the tree, the      *)
(* rules and each row.                                                       *)
LEMMA FilesWellIsEnough ==
    FInv /\ Tree(categories)' /\ RulesPoint(rules, categories)' /\ LeavesStay /\ FilesWell => FInv'
  <1> SUFFICES ASSUME FInv, Tree(categories)', RulesPoint(rules, categories)', LeavesStay, FilesWell,
                      NEW t \in DOMAIN txns'
               PROVE  RowPoints(txns'[t], categories')
    BY DEF FInv
  <1>1. MayFile(categories', rules', txns'[t].category) => RowPoints(txns'[t], categories')
    BY DEF MayFile, RulesPoint, RowPoints
  <1>2. CASE t \notin DOMAIN txns BY <1>1, <1>2 DEF FilesWell
  <1>3. CASE t \in DOMAIN txns
    <2>1. Refiled(t) BY <1>3 DEF FilesWell
    <2>2. ASSUME Filing(txns'[t]) = Filing(txns[t]),
                 txns[t].category = None \/ txns[t].category \in DOMAIN categories'
          PROVE  RowPoints(txns'[t], categories')
      <3>1. txns'[t].category = txns[t].category BY <2>2 DEF Filing
      <3>2. RowPoints(txns[t], categories) BY <1>3 DEF FInv
      <3> QED BY <2>2, <3>1, <3>2 DEF RowPoints, LeavesStay, Leaf
    <2> QED BY <1>1, <2>1, <2>2 DEF Refiled
  <1> QED BY <1>2, <1>3

\* Steps that leave the categories and the rules alone.
LEMMA OtherTables ==
    FInv /\ UNCHANGED <<categories, rules>> =>
        Tree(categories)' /\ RulesPoint(rules, categories)' /\ LeavesStay
  BY DEF FInv, LeavesStay

\* Steps that leave the filing of rows alone, and take no category away.
LEMMA FilingAlone ==
    ASSUME FInv, DOMAIN categories \subseteq DOMAIN categories',
           \A t \in DOMAIN txns' : t \in DOMAIN txns /\ txns'[t].category = txns[t].category
                                   /\ txns'[t].source = txns[t].source
    PROVE  FilesWell
  <1> SUFFICES ASSUME NEW t \in DOMAIN txns' PROVE t \in DOMAIN txns /\ Refiled(t) BY DEF FilesWell
  <1>1. RowPoints(txns[t], categories) /\ t \in DOMAIN txns BY DEF FInv
  <1> QED BY <1>1 DEF Refiled, Filing, RowPoints, Leaf

\* Re-filing with the tables as they are after the step.
LEMMA RefilingIsWell ==
    ASSUME LInv, FInv, Table(categories', CategoryRow), Table(rules', RuleRow), NEW on, NEW rows,
           Table(rows, TxnRow), DOMAIN rows = DOMAIN txns,
           \A t \in DOMAIN txns :
              \/ rows[t] = txns[t]
                 /\ (txns[t].category = None \/ txns[t].category \in DOMAIN categories')
              \/ /\ txns[t].category # None /\ txns[t].category \notin DOMAIN categories'
                 /\ rows[t].category = None,
           txns' = recategorize_auto_rows(rows, categories', rules', on, 0)
    PROVE  FilesWell
  <1>1. PICK new : new = txns' OBVIOUS
  <1>2. PICK cats : cats = categories' OBVIOUS
  <1>3. PICK rs : rs = rules' OBVIOUS
  <1>4. /\ DOMAIN new = DOMAIN rows
        /\ \A t \in DOMAIN rows :
                 \/ new[t] = rows[t]
                 \/ rows[t].source # "manual" /\ MayFile(cats, rs, new[t].category)
    BY <1>1, <1>2, <1>3, RefileFacts
  <1> SUFFICES ASSUME NEW t \in DOMAIN txns' PROVE t \in DOMAIN txns /\ Refiled(t) BY DEF FilesWell
  <1>5. t \in DOMAIN txns BY <1>1, <1>4
  <1>6. CASE rows[t] = txns[t]
             /\ (txns[t].category = None \/ txns[t].category \in DOMAIN categories')
    BY <1>1, <1>2, <1>3, <1>4, <1>5, <1>6 DEF Refiled
  <1>7. CASE /\ txns[t].category # None /\ txns[t].category \notin DOMAIN categories'
             /\ rows[t].category = None
    <2>1. MayFile(categories', rules', txns'[t].category)
      BY <1>1, <1>2, <1>3, <1>4, <1>5, <1>7 DEF MayFile
    <2> QED BY <1>5, <1>7, <2>1 DEF Refiled
  <1> QED BY <1>5, <1>6, <1>7

\* What a step does to the tree, the rules and the filing of rows.
StepFilesWell == Tree(categories)' /\ RulesPoint(rules, categories)' /\ LeavesStay /\ FilesWell

(* A rule is written for a leaf, so the rules point to leaves with it.       *)
LEMMA WithRulePoints ==
    ASSUME LInv, FInv, NEW x \in Patterns, NEW c, Leaf(categories, c)
    PROVE  RulesPoint(WithRule(x, c), categories)
  <1>1. PICK row : row = [pattern |-> x, category |-> c, priority |-> TopPriority(rules)] OBVIOUS
  <1>2. WithRule(x, c) = Put(rules, NewId(rules), row) BY <1>1 DEF WithRule
  <1>3. \A r \in DOMAIN WithRule(x, c) :
           WithRule(x, c)[r] = row \/ (r \in DOMAIN rules /\ WithRule(x, c)[r] = rules[r])
    BY <1>2 DEF Put
  <1>4. row.category = c BY <1>1
  <1> QED BY <1>3, <1>4 DEF FInv, RulesPoint

(* Every action of the Categorization module keeps the tree, the rules on    *)
(* leaves, and files each row as Refiled allows.                             *)
LEMMA CategoryStepFiles ==
    ASSUME LInv, FInv, CatNext
    PROVE  StepFilesWell
  <1> USE DEF StepFilesWell
  <1>0. CatTypes' BY CategoryStepTypes DEF LInv
  <1>1. ASSUME NEW p \in DOMAIN categories, NEW n \in CategoryNames, AddCategory(p, n)
        PROVE  StepFilesWell
    <2>1. PICK row : row = [parent |-> p, name |-> n] OBVIOUS
    <2>2. PICK id \in Nat \ {0} : id = NewId(categories) /\ id \notin DOMAIN categories
      BY NewIdFacts DEF LInv, TypeOK, Table
    <2>3. /\ DOMAIN categories' = DOMAIN categories \cup {id} /\ categories'[id] = row
          /\ \A d \in DOMAIN categories : categories'[d] = categories[d]
      BY <1>1, <2>1, <2>2 DEF AddCategory, Put
    <2>4. Tree(categories)'
      <3>1. PICK new : new = categories' OBVIOUS
      <3>2. /\ Table(new, CategoryRow) /\ DOMAIN new = DOMAIN categories \cup {id}
            /\ new[id].parent = p /\ \A d \in DOMAIN categories : new[d] = categories[d]
        BY <1>0, <2>1, <2>3, <3>1 DEF CatTypes
      <3>3. Tree(categories) BY DEF FInv
      <3>4. Tree(new) BY <2>2, <3>2, <3>3, AddKeepsTree
      <3> QED BY <3>1, <3>4
    <2>5. LeavesStay BY <2>3 DEF LeavesStay, Leaf
    <2>6. UNCHANGED <<txns, rules>> BY <1>1 DEF AddCategory
    <2>7. RulesPoint(rules, categories)' BY <2>3, <2>6 DEF FInv, RulesPoint, Leaf
    <2> QED BY <2>3, <2>4, <2>5, <2>6, <2>7, FilingAlone
  <1>2. ASSUME NEW c \in DOMAIN categories, NEW p \in DOMAIN categories,
               NEW n \in CategoryNames \cup {categories[c].name}, UpdateCategory(c, n, p)
        PROVE  StepFilesWell
    <2>1. PICK row : row = [parent |-> p, name |-> n] OBVIOUS
    <2>2. /\ DOMAIN categories' = DOMAIN categories /\ categories'[c] = row
          /\ \A d \in DOMAIN categories \ {c} : categories'[d] = categories[d]
          /\ Leaf(categories, c) /\ c \notin Above(categories, p)
      BY <1>2, <2>1 DEF UpdateCategory
    <2>3. Tree(categories)'
      <3>1. PICK new : new = categories' OBVIOUS
      <3>2. /\ Table(new, CategoryRow) /\ DOMAIN new = DOMAIN categories
            /\ new[c].parent = p /\ \A d \in DOMAIN categories \ {c} : new[d] = categories[d]
        BY <1>0, <2>1, <2>2, <3>1 DEF CatTypes
      <3>3. Tree(categories) BY DEF FInv
      <3>4. Tree(new) BY <2>2, <3>2, <3>3, MoveKeepsTree
      <3> QED BY <3>1, <3>4
    <2>4. row.parent # None BY <2>1 DEF FInv, Tree, Table, Ids, None
    <2>5. LeavesStay BY <2>2, <2>4 DEF LeavesStay, Leaf
    <2>6. UNCHANGED <<txns, rules>> BY <1>2 DEF UpdateCategory
    <2>7. RulesPoint(rules, categories)' BY <2>2, <2>4, <2>6 DEF FInv, RulesPoint, Leaf
    <2> QED BY <2>2, <2>3, <2>5, <2>6, <2>7, FilingAlone
  <1>3. ASSUME NEW c \in DOMAIN categories, DeleteCategory(c)
        PROVE  StepFilesWell
    <2>1. Leaf(categories, c) /\ \A d \in DOMAIN categories : categories[d].parent # c
      BY <1>3 DEF DeleteCategory, Childless
    <2>2. /\ DOMAIN categories' = DOMAIN categories \ {c}
          /\ \A d \in DOMAIN categories \ {c} : categories'[d] = categories[d]
      BY <1>3 DEF DeleteCategory, Without, Restrict
    <2>3. \A r \in DOMAIN rules' : r \in DOMAIN rules /\ rules'[r] = rules[r]
                                   /\ rules[r].category # c
      BY <1>3 DEF DeleteCategory, Without, Restrict
    <2>4. Tree(categories)'
      <3>1. PICK new : new = categories' OBVIOUS
      <3>2. /\ Table(new, CategoryRow) /\ DOMAIN new = DOMAIN categories \ {c}
            /\ \A d \in DOMAIN categories \ {c} : new[d] = categories[d]
        BY <1>0, <2>2, <3>1 DEF CatTypes
      <3>3. Tree(categories) BY DEF FInv
      <3>4. Tree(new) BY <2>1, <3>2, <3>3, DeleteKeepsTree
      <3> QED BY <3>1, <3>4
    <2>5. LeavesStay BY <2>2 DEF LeavesStay, Leaf
    <2>6. RulesPoint(rules, categories)' BY <2>2, <2>3 DEF FInv, RulesPoint, Leaf
    <2>7. PICK rows : rows = Cleared(txns, c) OBVIOUS
    <2>8. /\ Table(rows, TxnRow) /\ DOMAIN rows = DOMAIN txns
          /\ \A t \in DOMAIN txns :
                \/ rows[t] = txns[t] /\ txns[t].category # c
                \/ txns[t].category = c /\ rows[t].category = None
      BY <2>7, ClearedFacts DEF LInv, TypeOK
    <2>9. c # None BY DEF LInv, TypeOK, Table, Ids, None
    <2>10. \A t \in DOMAIN txns :
              \/ rows[t] = txns[t]
                 /\ (txns[t].category = None \/ txns[t].category \in DOMAIN categories')
              \/ /\ txns[t].category # None /\ txns[t].category \notin DOMAIN categories'
                 /\ rows[t].category = None
      BY <2>2, <2>8, <2>9 DEF FInv, RowPoints, Leaf
    <2>11. txns' = recategorize_auto_rows(rows, categories', rules', library, 0)
      BY <1>3, <2>7 DEF DeleteCategory
    <2>12. Table(categories', CategoryRow) /\ Table(rules', RuleRow) BY <1>0 DEF CatTypes
    <2>13. FilesWell BY <2>8, <2>10, <2>11, <2>12, RefilingIsWell
    <2> QED BY <2>4, <2>5, <2>6, <2>13
  <1>4. ASSUME NEW x \in Patterns, NEW c \in DOMAIN categories, AddRule(x, c)
        PROVE  StepFilesWell
    <2>1. UNCHANGED <<txns, categories>> BY <1>4 DEF AddRule
    <2>2. RulesPoint(rules, categories)' BY <1>4, <2>1, WithRulePoints DEF AddRule
    <2> QED BY <2>1, <2>2, FilingAlone DEF FInv, LeavesStay
  <1>5. ASSUME NEW on, txns' = recategorize_auto_rows(txns, categories', rules', on, 0),
               UNCHANGED categories
        PROVE  FilesWell
    <2>1. \A t \in DOMAIN txns : txns[t].category = None \/ txns[t].category \in DOMAIN categories'
      BY <1>5 DEF FInv, RowPoints, Leaf
    <2>2. Table(txns, TxnRow) /\ Table(categories', CategoryRow) /\ Table(rules', RuleRow)
      BY <1>0 DEF LInv, TypeOK, CatTypes
    <2> QED BY <1>5, <2>1, <2>2, RefilingIsWell
  <1>6. ASSUME NEW x \in Patterns, NEW c \in DOMAIN categories, LearnRule(x, c)
        PROVE  StepFilesWell
    <2>1. UNCHANGED categories BY <1>6 DEF LearnRule
    <2>2. RulesPoint(rules, categories)' BY <1>6, <2>1, WithRulePoints DEF LearnRule
    <2>3. txns' = recategorize_auto_rows(txns, categories', rules', library, 0)
      BY <1>6 DEF LearnRule
    <2>4. FilesWell BY <1>5, <2>1, <2>3
    <2> QED BY <2>1, <2>2, <2>4 DEF FInv, LeavesStay
  <1>7. ASSUME NEW r \in DOMAIN rules, NEW x \in Patterns, NEW c \in DOMAIN categories,
               UpdateRule(r, x, c)
        PROVE  StepFilesWell
    <2>1. UNCHANGED <<txns, categories>> /\ Leaf(categories, c) BY <1>7 DEF UpdateRule
    <2>2. \A q \in DOMAIN rules' : q \in DOMAIN rules
                                   /\ rules'[q].category \in {c, rules[q].category}
      BY <1>7 DEF UpdateRule, LInv, TypeOK, Table, RuleRow
    <2>3. RulesPoint(rules, categories)' BY <2>1, <2>2 DEF FInv, RulesPoint
    <2> QED BY <2>1, <2>3, FilingAlone DEF FInv, LeavesStay
  <1>8. ASSUME NEW r \in DOMAIN rules, DeleteRule(r)
        PROVE  StepFilesWell
    <2>1. UNCHANGED <<txns, categories>> BY <1>8 DEF DeleteRule
    <2>2. \A q \in DOMAIN rules' : q \in DOMAIN rules /\ rules'[q] = rules[q]
      BY <1>8 DEF DeleteRule, Without, Restrict
    <2>3. RulesPoint(rules, categories)' BY <2>1, <2>2 DEF FInv, RulesPoint
    <2> QED BY <2>1, <2>3, FilingAlone DEF FInv, LeavesStay
  <1>9. ASSUME NEW r \in DOMAIN rules, MoveRule(r)
        PROVE  StepFilesWell
    <2>1. UNCHANGED <<txns, categories>> BY <1>9 DEF MoveRule
    <2>2. PICK o : rules' = [rules EXCEPT ![r].priority = rules[o].priority,
                                          ![o].priority = rules[r].priority]
      BY <1>9, Zenon DEF MoveRule
    <2>3. \A q \in DOMAIN rules' : q \in DOMAIN rules /\ rules'[q].category = rules[q].category
      <3>1. \A q \in DOMAIN rules : rules[q] \in RuleRow BY DEF LInv, TypeOK, Table
      <3> QED BY <2>2, <3>1 DEF RuleRow
    <2>4. RulesPoint(rules, categories)' BY <2>1, <2>3 DEF FInv, RulesPoint
    <2> QED BY <2>1, <2>4, FilingAlone DEF FInv, LeavesStay
  <1>10. CASE ApplyRules
    <2>1. UNCHANGED <<categories, rules>> BY <1>10 DEF ApplyRules, catVars
    <2>2. txns' = recategorize_auto_rows(txns, categories', rules', library, 0)
      BY <1>10, <2>1 DEF ApplyRules
    <2>3. FilesWell BY <1>5, <2>1, <2>2
    <2> QED BY <2>1, <2>3, OtherTables
  <1>11. ASSUME NEW on \in Switches, SetLibraryEnabled(on)
         PROVE  StepFilesWell
    <2>1. UNCHANGED <<txns, categories, rules>> BY <1>11 DEF SetLibraryEnabled
    <2> QED BY <2>1, OtherTables, FilingAlone
  <1>12. ASSUME NEW t \in DOMAIN txns, NEW c \in DOMAIN categories \cup {None},
                SetManualCategory(t, c)
         PROVE  StepFilesWell
    <2>1. UNCHANGED <<categories, rules>> BY <1>12 DEF SetManualCategory, catVars
    <2>2. PICK row \in TxnRow : row = txns[t] BY DEF LInv, TypeOK, Table
    <2>3. PICK new : new = Filed(row, c, "manual") OBVIOUS
    <2>4. new.category = c /\ new.source = "manual" BY <2>2, <2>3 DEF Filed, TxnRow
    <2>5. txns' = [txns EXCEPT ![t] = new] /\ (c = None \/ Leaf(categories, c))
      BY <1>12, <2>2, <2>3 DEF SetManualCategory
    <2>6. \A u \in DOMAIN txns : txns[u].category = None \/ txns[u].category \in DOMAIN categories'
      BY <2>1 DEF FInv, RowPoints, Leaf
    <2>7. \A u \in DOMAIN txns' : u \in DOMAIN txns /\ (txns'[u] = new \/ txns'[u] = txns[u])
      BY <2>5
    <2>8. RowPoints(new, categories') BY <2>1, <2>4, <2>5 DEF RowPoints
    <2>9. FilesWell
      <3> SUFFICES ASSUME NEW u \in DOMAIN txns' PROVE u \in DOMAIN txns /\ Refiled(u)
        BY DEF FilesWell
      <3>1. CASE txns'[u] = new BY <2>4, <2>7, <2>8, <3>1 DEF Refiled
      <3>2. CASE txns'[u] = txns[u] BY <2>6, <2>7, <3>2 DEF Refiled
      <3> QED BY <2>7, <3>1, <3>2
    <2> QED BY <2>1, <2>9, OtherTables
  <1> QED BY <1>1, <1>2, <1>3, <1>4, <1>6, <1>7, <1>8, <1>9, <1>10, <1>11, <1>12 DEF CatNext

(* So does every step of the Ledger.                                         *)
LEMMA StepFiles ==
    ASSUME LInv, FInv, [Next]_vars
    PROVE  StepFilesWell
  <1> USE DEF StepFilesWell
  <1>1. ASSUME UNCHANGED <<categories, rules>>,
               \A t \in DOMAIN txns' : t \in DOMAIN txns /\ txns'[t].category = txns[t].category
                                       /\ txns'[t].source = txns[t].source
        PROVE  StepFilesWell
    BY <1>1, OtherTables, FilingAlone
  <1>2. ASSUME UNCHANGED <<txns, categories, rules>> PROVE StepFilesWell BY <1>1, <1>2
  <1>3. CASE UNCHANGED vars BY <1>2, <1>3 DEF vars
  <1>4. ASSUME NEW f \in Files, NEW a \in DOMAIN accounts,
               NEW s \in OtherSpans \cup {<<f.start, f.end>>}, CommitImport(f, a, s[1], s[2])
        PROVE  StepFilesWell
    <2>1. s[1] \in Int /\ s[2] \in Int BY FilesAreDated, SpansAreOrdered
    <2>2. OnlyAdds BY <1>4, <2>1, ImportKeepsLinks
    <2>3. UNCHANGED <<categories, rules>> BY <1>4 DEF CommitImport
    <2>4. FilesWell
      <3>1. \A t \in DOMAIN txns : txns[t].category = None \/ txns[t].category \in DOMAIN categories'
        BY <2>3 DEF FInv, RowPoints, Leaf
      <3>2. \A t \in DOMAIN txns : txns'[t] = txns[t] BY <2>2 DEF OnlyAdds
      <3>3. \A t \in DOMAIN txns : Refiled(t) BY <3>1, <3>2 DEF Refiled
      <3>4. \A t \in DOMAIN txns' \ DOMAIN txns : MayFile(categories', rules', txns'[t].category)
        BY <2>2, <2>3 DEF OnlyAdds
      <3> QED BY <3>3, <3>4 DEF FilesWell
    <2> QED BY <2>3, <2>4, OtherTables
  <1>5. ASSUME NEW a \in DOMAIN accounts, NEW d \in Entries, AddTransaction(a, d)
        PROVE  StepFilesWell
    <2>1. PICK id : /\ id \notin DOMAIN txns /\ DOMAIN txns' = DOMAIN txns \cup {id}
                    /\ txns'[id].category = None /\ \A t \in DOMAIN txns : txns'[t] = txns[t]
      <3>1. NewId(txns) \notin DOMAIN txns BY NewIdFacts DEF LInv, TypeOK, Table
      <3> QED BY <1>5, <3>1 DEF AddTransaction, Put, Row
    <2>2. UNCHANGED <<categories, rules>> BY <1>5 DEF AddTransaction
    <2>3. \A t \in DOMAIN txns : txns[t].category = None \/ txns[t].category \in DOMAIN categories'
      BY <2>2 DEF FInv, RowPoints, Leaf
    <2>4. FilesWell BY <2>1, <2>3 DEF FilesWell, Refiled, MayFile
    <2> QED BY <2>2, <2>4, OtherTables
  <1>6. ASSUME NEW gone \in SUBSET DOMAIN periods, DeleteStatements(gone)
        PROVE  StepFilesWell
    <2>1. PICK new : new = txns' OBVIOUS
    <2>2. HandedOff(new, txns, periods, gone)
      BY <1>6, <2>1, AfterDeleteFacts DEF DeleteStatements, LInv, TypeOK
    <2>3. Table(txns, TxnRow) BY DEF LInv, TypeOK
    <2>4. \A t \in DOMAIN new : t \in DOMAIN txns /\ new[t].category = txns[t].category
                                /\ new[t].source = txns[t].source
      BY <2>2, <2>3, HandedOffKeeps
    <2>5. UNCHANGED <<categories, rules>> BY <1>6 DEF DeleteStatements
    <2> QED BY <1>1, <2>1, <2>4, <2>5
  <1>7. ASSUME NEW p \in DOMAIN periods, NEW a \in DOMAIN accounts, ReassignAccount(p, a)
        PROVE  StepFilesWell
    <2>1. \A t \in DOMAIN txns : txns[t] \in TxnRow BY DEF LInv, TypeOK, Table
    <2>2. \A t \in DOMAIN txns' : t \in DOMAIN txns /\ txns'[t].category = txns[t].category
                                  /\ txns'[t].source = txns[t].source
      BY <1>7, <2>1 DEF ReassignAccount, TxnRow
    <2>3. UNCHANGED <<categories, rules>> BY <1>7 DEF ReassignAccount
    <2> QED BY <1>1, <2>2, <2>3
  <1>8. ASSUME NEW chosen \in SUBSET candidate_pairs, ConfirmMany(chosen) \/ RejectMany(chosen)
        PROVE  StepFilesWell
    BY <1>2, <1>8 DEF ConfirmMany, RejectMany, Decide
  <1>9. ASSUME NEW x \in DOMAIN pairs, Unlink(x) PROVE StepFilesWell BY <1>2, <1>9 DEF Unlink
  <1>10. ASSUME NEW n \in AccountNames, AddAccount(n) PROVE StepFilesWell
    BY <1>2, <1>10 DEF AddAccount
  <1>11. ASSUME NEW a \in DOMAIN accounts, NEW n \in AccountNames, UpdateAccount(a, n)
         PROVE  StepFilesWell
    BY <1>2, <1>11 DEF UpdateAccount
  <1>12. ASSUME NEW a \in DOMAIN accounts, DeleteAccount(a) PROVE StepFilesWell
    BY <1>2, <1>12 DEF DeleteAccount
  <1>13. CASE CatNext BY <1>13, CategoryStepFiles
  <1> QED BY <1>3, <1>4, <1>5, <1>6, <1>7, <1>8, <1>9, <1>10, <1>11, <1>12, <1>13 DEF Next

(* The seeded vault satisfies the invariant.                                 *)
LEMMA FilesAtFirst == Init => FInv
  <1> SUFFICES ASSUME Init PROVE FInv OBVIOUS
  <1>1. categories = Seed /\ DOMAIN rules = {} /\ DOMAIN txns = {} BY DEF Init, CatInit
  <1>2. Table(Seed, CategoryRow) BY <1>1, LinksAtFirst DEF LInv, TypeOK
  <1> QED BY <1>1, <1>2, TreeAtFirst DEF FInv, RulesPoint

(* The tree is sound and rules and rows point to leaves, in every state.     *)
LEMMA FilesAlways == Spec => []FInv
  <1>1. LInv /\ FInv /\ [Next]_vars => FInv'
    BY StepFiles, FilesWellIsEnough DEF StepFilesWell
  <1> QED BY <1>1, FilesAtFirst, LinksAlways, PTL DEF Spec

(* What it says in the runs' terms.                                          *)
LEMMA FilesMean == FInv => FiledUnderALeaf
  BY TreeMeans DEF FInv, FiledUnderALeaf, PointsAtALeaf, RulesPoint, RowPoints

(* Rows and rules point to categories that are assignable, in a tree without *)
(* cycles under the fixed Types (services/categories.py).                    *)
THEOREM Filings == Spec => []FiledUnderALeaf
  <1> QED BY FilesMean, FilesAlways, PTL

(* What the owner filed stays so over a step, and an import alters no row.   *)
LEMMA FilingStep == LInv /\ FInv /\ [Next]_vars => [ManualIsFrozen /\ ImportOnlyAdds]_vars
  <1>1. ASSUME LInv, FInv, [Next]_vars PROVE ManualIsFrozen
    <2> SUFFICES ASSUME NEW t \in DOMAIN txns \cap DOMAIN txns', txns[t].source = "manual",
                        Filing(txns'[t]) # Filing(txns[t])
                 PROVE  \/ txns[t].category # None /\ txns[t].category \notin DOMAIN categories'
                        \/ txns'[t].source = "manual"
      BY DEF ManualIsFrozen
    <2>1. Refiled(t) BY <1>1, StepFiles DEF StepFilesWell, FilesWell
    <2> QED BY <2>1 DEF Refiled
  <1>2. ASSUME LInv PROVE ImportOnlyAdds
    <2> SUFFICES ASSUME NEW f \in Files, NEW a \in DOMAIN accounts,
                        NEW s \in OtherSpans \cup {<<f.start, f.end>>},
                        CommitImport(f, a, s[1], s[2]), NEW t \in DOMAIN txns
                 PROVE  t \in DOMAIN txns' /\ txns'[t] = txns[t]
      BY DEF ImportOnlyAdds
    <2>1. s[1] \in Int /\ s[2] \in Int BY FilesAreDated, SpansAreOrdered
    <2>2. OnlyAdds BY <1>2, <2>1, ImportKeepsLinks
    <2> QED BY <2>2 DEF OnlyAdds
  <1> QED BY <1>1, <1>2

(* A step never changes the filing of a row the user filed by hand, unless   *)
(* by hand or by deleting the row's category, and an import alters no row    *)
(* that was there (recategorize_auto_rows, commit_import).                   *)
THEOREM FilingKept == Spec => FilingIsKept
  <1> QED BY FilingStep, LinksAlways, FilesAlways, PTL DEF Spec, FilingIsKept

-----------------------------------------------------------------------------
(* Batches.                                                                  *)

IsFirst(ps, qs, m) ==
    /\ m \in qs
    /\ \A r \in qs : \/ ps[m].start < ps[r].start
                     \/ ps[m].start = ps[r].start /\ m <= r

(* The order has one first statement.                                        *)
LEMMA FirstStatementIs ==
    ASSUME NEW ps, Table(ps, PeriodRow), NEW qs \in SUBSET DOMAIN ps, NEW m, IsFirst(ps, qs, m)
    PROVE  FirstStatement(ps, qs) = m
  <1>1. PICK n : n = FirstStatement(ps, qs) OBVIOUS
  <1>2. IsFirst(ps, qs, n) BY <1>1, FirstStatementFacts DEF IsFirst
  <1>3. \A q \in qs : ps[q].start \in Int /\ q \in Nat BY DEF Table, Ids, PeriodRow
  <1>4. m = n BY <1>2, <1>3 DEF IsFirst
  <1> QED BY <1>1, <1>4

\* What a deletion does to one row.
AfterRow(new, rows, ps, gone, t) ==
    IF rows[t].period \notin gone THEN t \in DOMAIN new /\ new[t] = rows[t]
    ELSE IF Covers(ps, rows[t], gone) = {} THEN t \notin DOMAIN new
    ELSE /\ t \in DOMAIN new
         /\ new[t] = [rows[t] EXCEPT !.period = FirstStatement(ps, Covers(ps, rows[t], gone))]

AfterEveryRow(new, rows, ps, gone) ==
    /\ new = [t \in DOMAIN new |-> new[t]] /\ DOMAIN new \subseteq DOMAIN rows
    /\ \A t \in DOMAIN rows : AfterRow(new, rows, ps, gone, t)

(* AfterDelete, row by row.                                                  *)
LEMMA AfterRowFacts ==
    ASSUME NEW rows, NEW ps, NEW gone, NEW new, new = AfterDelete(rows, ps, gone)
    PROVE  AfterEveryRow(new, rows, ps, gone)
  BY DEF AfterDelete, AfterRow, AfterEveryRow

(* Deleting p and then q is deleting both at once: a row handed from p to q  *)
(* is handed on to where it would have gone.                                 *)
LEMMA BatchLoops ==
    ASSUME LInv, NEW p \in DOMAIN periods, NEW q \in DOMAIN periods, p # q
    PROVE  AfterDelete(AfterDelete(txns, periods, {p}), Without(periods, {p}), {q})
              = AfterDelete(txns, periods, {p, q})
  <1>1. PICK ps : ps = Without(periods, {p}) OBVIOUS
  <1>2. PICK mid : mid = AfterDelete(txns, periods, {p}) OBVIOUS
  <1>3. PICK loop : loop = AfterDelete(mid, ps, {q}) OBVIOUS
  <1>4. PICK batch : batch = AfterDelete(txns, periods, {p, q}) OBVIOUS
  <1>5. /\ Table(ps, PeriodRow) /\ DOMAIN ps = DOMAIN periods \ {p}
        /\ \A r \in DOMAIN periods \ {p} : ps[r] = periods[r]
    <2>1. Table(Without(periods, {p}), PeriodRow) BY WithoutFacts DEF LInv, TypeOK
    <2> QED BY <1>1, <2>1 DEF Without, Restrict
  <1>6. /\ mid = [t \in DOMAIN mid |-> mid[t]] /\ DOMAIN mid \subseteq DOMAIN txns
        /\ \A t \in DOMAIN txns : AfterRow(mid, txns, periods, {p}, t)
    <2>1. AfterEveryRow(mid, txns, periods, {p}) BY <1>2, AfterRowFacts
    <2> QED BY <2>1 DEF AfterEveryRow
  <1>7. /\ loop = [t \in DOMAIN loop |-> loop[t]] /\ DOMAIN loop \subseteq DOMAIN mid
        /\ \A t \in DOMAIN mid : AfterRow(loop, mid, ps, {q}, t)
    <2>1. AfterEveryRow(loop, mid, ps, {q}) BY <1>3, AfterRowFacts
    <2> QED BY <2>1 DEF AfterEveryRow
  <1>8. /\ batch = [t \in DOMAIN batch |-> batch[t]] /\ DOMAIN batch \subseteq DOMAIN txns
        /\ \A t \in DOMAIN txns : AfterRow(batch, txns, periods, {p, q}, t)
    <2>1. AfterEveryRow(batch, txns, periods, {p, q}) BY <1>4, AfterRowFacts
    <2> QED BY <2>1 DEF AfterEveryRow
  <1>9. ASSUME NEW row \in TxnRow, NEW like \in TxnRow,
               like.account = row.account, like.day = row.day
        PROVE  Covers(ps, like, {q}) = Covers(periods, row, {p, q})
    BY <1>5, <1>9 DEF Covers
  <1>10. ASSUME NEW row \in TxnRow, Covers(periods, row, {p, q}) # {}
         PROVE  FirstStatement(ps, Covers(periods, row, {p, q}))
                   = FirstStatement(periods, Covers(periods, row, {p, q}))
    <2>1. PICK K : K = Covers(periods, row, {p, q}) OBVIOUS
    <2>2. K \in SUBSET DOMAIN ps /\ K \in SUBSET DOMAIN periods /\ K # {}
      BY <1>5, <1>10, <2>1 DEF Covers
    <2>3. PICK m : m = FirstStatement(ps, K) OBVIOUS
    <2>4. IsFirst(ps, K, m) BY <1>5, <2>2, <2>3, FirstStatementFacts DEF IsFirst
    <2>5. IsFirst(periods, K, m)
      <3>1. \A r \in K : ps[r] = periods[r] BY <1>5, <2>2
      <3> QED BY <2>4, <3>1 DEF IsFirst
    <2>6. Table(periods, PeriodRow) BY DEF LInv, TypeOK
    <2>7. FirstStatement(periods, K) = m BY <2>2, <2>5, <2>6, FirstStatementIs
    <2> QED BY <2>1, <2>3, <2>7
  <1>11. ASSUME NEW t \in DOMAIN txns
         PROVE  /\ t \in DOMAIN loop <=> t \in DOMAIN batch
                /\ t \in DOMAIN loop => loop[t] = batch[t]
    <2>1. PICK row \in TxnRow : row = txns[t] BY DEF LInv, TypeOK, Table
    <2>2. PICK K1 : K1 = Covers(periods, row, {p}) OBVIOUS
    <2>3. PICK K2 : K2 = Covers(periods, row, {p, q}) OBVIOUS
    <2>4. K2 = K1 \ {q} BY <2>2, <2>3 DEF Covers
    <2>5. AfterRow(mid, txns, periods, {p}, t) /\ AfterRow(batch, txns, periods, {p, q}, t)
      BY <1>6, <1>8
    <2>6. t \in DOMAIN mid => AfterRow(loop, mid, ps, {q}, t) BY <1>7
    <2>7. CASE row.period # p
      <3>1. t \in DOMAIN mid /\ mid[t] = row BY <2>1, <2>5, <2>7 DEF AfterRow
      <3>2. CASE row.period # q
        <4>1. t \in DOMAIN loop /\ loop[t] = row BY <2>6, <3>1, <3>2 DEF AfterRow
        <4>2. t \in DOMAIN batch /\ batch[t] = row BY <2>1, <2>5, <2>7, <3>2 DEF AfterRow
        <4> QED BY <4>1, <4>2
      <3>3. CASE row.period = q
        <4>1. Covers(ps, mid[t], {q}) = K2 BY <1>9, <2>3, <3>1
        <4>2. CASE K2 = {}
          <5>1. t \notin DOMAIN loop BY <2>6, <3>1, <3>3, <4>1, <4>2 DEF AfterRow
          <5>2. t \notin DOMAIN batch BY <2>1, <2>3, <2>5, <3>3, <4>2 DEF AfterRow
          <5> QED BY <5>1, <5>2
        <4>3. CASE K2 # {}
          <5>1. t \in DOMAIN loop /\ loop[t] = [row EXCEPT !.period = FirstStatement(ps, K2)]
            BY <2>6, <3>1, <3>3, <4>1, <4>3 DEF AfterRow
          <5>2. /\ t \in DOMAIN batch
                /\ batch[t] = [row EXCEPT !.period = FirstStatement(periods, K2)]
            BY <2>1, <2>3, <2>5, <3>3, <4>3 DEF AfterRow
          <5>3. FirstStatement(ps, K2) = FirstStatement(periods, K2) BY <1>10, <2>3, <4>3
          <5> QED BY <5>1, <5>2, <5>3
        <4> QED BY <4>2, <4>3
      <3> QED BY <3>2, <3>3
    <2>8. CASE row.period = p
      <3>1. CASE K1 = {}
        <4>1. t \notin DOMAIN mid BY <2>1, <2>2, <2>5, <2>8, <3>1 DEF AfterRow
        <4>2. K2 = {} BY <2>4, <3>1
        <4>3. t \notin DOMAIN batch BY <2>1, <2>3, <2>5, <2>8, <4>2 DEF AfterRow
        <4> QED BY <1>7, <4>1, <4>3
      <3>2. CASE K1 # {}
        <4>1. PICK m : m = FirstStatement(periods, K1) OBVIOUS
        <4>2. K1 \in SUBSET DOMAIN periods BY <2>2 DEF Covers
        <4>3. Table(periods, PeriodRow) BY DEF LInv, TypeOK
        <4>4. IsFirst(periods, K1, m) BY <3>2, <4>1, <4>2, <4>3, FirstStatementFacts DEF IsFirst
        <4>5. m \in Nat BY <4>2, <4>3, <4>4 DEF IsFirst, Table, Ids
        <4>6. PICK like : like = [row EXCEPT !.period = m] OBVIOUS
        <4>7. /\ like \in TxnRow /\ like.period = m /\ like.account = row.account
              /\ like.day = row.day
          BY <4>5, <4>6 DEF TxnRow
        <4>8. t \in DOMAIN mid /\ mid[t] = like
          BY <2>1, <2>2, <2>5, <2>8, <3>2, <4>1, <4>6 DEF AfterRow
        <4>9. Covers(ps, like, {q}) = K2 BY <1>9, <2>3, <4>7
        <4>10. CASE m # q
          <5>1. t \in DOMAIN loop /\ loop[t] = like BY <2>6, <4>7, <4>8, <4>10 DEF AfterRow
          <5>2. m \in K2 BY <2>4, <4>4, <4>10 DEF IsFirst
          <5>3. IsFirst(periods, K2, m) BY <2>4, <4>4, <5>2 DEF IsFirst
          <5>4. K2 \in SUBSET DOMAIN periods BY <2>4, <4>2
          <5>5. FirstStatement(periods, K2) = m BY <4>3, <5>3, <5>4, FirstStatementIs
          <5>6. t \in DOMAIN batch /\ batch[t] = [row EXCEPT !.period = FirstStatement(periods, K2)]
            BY <2>1, <2>3, <2>5, <2>8, <5>2 DEF AfterRow
          <5> QED BY <4>6, <5>1, <5>5, <5>6
        <4>11. CASE m = q
          <5>1. CASE K2 = {}
            <6>1. t \notin DOMAIN loop BY <2>6, <4>7, <4>8, <4>9, <4>11, <5>1 DEF AfterRow
            <6>2. t \notin DOMAIN batch BY <2>1, <2>3, <2>5, <2>8, <5>1 DEF AfterRow
            <6> QED BY <6>1, <6>2
          <5>2. CASE K2 # {}
            <6>1. t \in DOMAIN loop /\ loop[t] = [like EXCEPT !.period = FirstStatement(ps, K2)]
              BY <2>6, <4>7, <4>8, <4>9, <4>11, <5>2 DEF AfterRow
            <6>2. /\ t \in DOMAIN batch
                  /\ batch[t] = [row EXCEPT !.period = FirstStatement(periods, K2)]
              BY <2>1, <2>3, <2>5, <2>8, <5>2 DEF AfterRow
            <6>3. FirstStatement(ps, K2) = FirstStatement(periods, K2) BY <1>10, <2>3, <5>2
            <6>4. \A n : [like EXCEPT !.period = n] = [row EXCEPT !.period = n]
              BY <4>5, <4>6 DEF TxnRow
            <6> QED BY <6>1, <6>2, <6>3, <6>4
          <5> QED BY <5>1, <5>2
        <4> QED BY <4>10, <4>11
      <3> QED BY <3>1, <3>2
    <2> QED BY <2>7, <2>8
  <1>12. DOMAIN loop = DOMAIN batch BY <1>6, <1>7, <1>8, <1>11
  <1>13. \A t \in DOMAIN loop : loop[t] = batch[t] BY <1>6, <1>7, <1>11
  <1>14. loop = batch BY <1>7, <1>8, <1>12, <1>13
  <1> QED BY <1>1, <1>2, <1>3, <1>4, <1>14

(* Deleting two statements at once leaves what deleting them one after the   *)
(* other leaves, in either order (delete_statements and its loop).           *)
THEOREM Batches == Spec => []BatchIsALoop
  <1>1. LInv => BatchIsALoop BY BatchLoops DEF BatchIsALoop
  <1> QED BY <1>1, LinksAlways, PTL

-----------------------------------------------------------------------------
(* Counting.                                                                 *)

Rank(S, i) == Cardinality({j \in S : j <= i})
FirstOf(S, m) == {i \in S : Rank(S, i) <= m}

(* The first m elements of a set of positions are m, or all of them.         *)
LEMMA RankCount ==
    ASSUME NEW n \in Nat, NEW S \in SUBSET (1..n), NEW m \in Nat
    PROVE  Cardinality(FirstOf(S, m)) = IF Cardinality(S) <= m THEN Cardinality(S) ELSE m
  <1> DEFINE Holds(T, k) == Cardinality(FirstOf(T, k)) = IF Cardinality(T) <= k THEN Cardinality(T) ELSE k
             Good == {l \in Nat : \A T \in SUBSET (1..l) : \A k \in Nat : Holds(T, k)}
  <1>1. 0 \in Good
    <2>1. \A T \in SUBSET (1..0) : T = {} OBVIOUS
    <2>2. \A k \in Nat : FirstOf({}, k) = {} BY DEF FirstOf
    <2>3. Cardinality({}) = 0 BY FS_EmptySet
    <2>4. \A k \in Nat : Holds({}, k) BY <2>2, <2>3
    <2> HIDE DEF Holds
    <2> QED BY <2>1, <2>4
  <1>2. ASSUME NEW l \in Good PROVE l + 1 \in Good
    <2> SUFFICES ASSUME NEW T \in SUBSET (1..(l + 1)), NEW k \in Nat PROVE Holds(T, k) OBVIOUS
    <2>1. CASE l + 1 \notin T
      <3>1. T \in SUBSET (1..l) BY <2>1
      <3> HIDE DEF Holds
      <3> QED BY <3>1
    <2>2. CASE l + 1 \in T
      <3>0. l \in Nat OBVIOUS
      <3>1. PICK U \in SUBSET (1..l) : U = T \ {l + 1}
        <4>1. \A i \in T \ {l + 1} : i \in 1..l
          <5>1. \A i \in 1..(l + 1) : i # l + 1 => i \in 1..l BY <3>0
          <5> QED BY <5>1
        <4> QED BY <4>1
      <3>2. Holds(U, k)
        <4> HIDE DEF Holds
        <4> QED OBVIOUS
      <3>3. IsFiniteSet(U) /\ T = U \cup {l + 1} /\ l + 1 \notin U
        <4>1. IsFiniteSet(1..l) BY <3>0, FS_Interval
        <4>2. IsFiniteSet(U) BY <4>1, FS_Subset
        <4> QED BY <2>2, <3>1, <4>2
      <3>4. Cardinality(U) \in Nat /\ IsFiniteSet(T) /\ Cardinality(T) = Cardinality(U) + 1
        BY <3>3, FS_CardinalityType, FS_AddElement
      <3>5. \A i \in U : Rank(T, i) = Rank(U, i)
        <4> TAKE i \in U
        <4>1. i <= l /\ i \in Nat /\ l \in Nat OBVIOUS
        <4>2. {j \in T : j <= i} = {j \in U : j <= i} BY <3>3, <4>1
        <4> QED BY <4>2 DEF Rank
      <3>6. Rank(T, l + 1) = Cardinality(T)
        <4>1. {j \in T : j <= l + 1} = T
          <5>1. \A j \in 1..(l + 1) : j <= l + 1 OBVIOUS
          <5>2. \A j \in T : j <= l + 1 BY <5>1
          <5> QED BY <5>2
        <4> QED BY <4>1 DEF Rank
      <3>7. PICK F : F = FirstOf(U, k) OBVIOUS
      <3>8. IsFiniteSet(F) /\ l + 1 \notin F BY <3>3, <3>7, FS_Subset DEF FirstOf
      <3>9. Cardinality(F) = IF Cardinality(U) <= k THEN Cardinality(U) ELSE k BY <3>2, <3>7
      <3>10. CASE Cardinality(T) <= k
        <4>1. FirstOf(T, k) = F \cup {l + 1}
          <5>1. \A i \in U : i \in FirstOf(T, k) <=> i \in F BY <3>3, <3>5, <3>7 DEF FirstOf
          <5>2. l + 1 \in FirstOf(T, k) BY <2>2, <3>6, <3>10 DEF FirstOf
          <5>3. F \subseteq U /\ FirstOf(T, k) \subseteq T BY <3>7 DEF FirstOf
          <5> QED BY <3>3, <5>1, <5>2, <5>3
        <4>2. Cardinality(F \cup {l + 1}) = Cardinality(F) + 1 BY <3>8, FS_AddElement
        <4> QED BY <3>4, <3>9, <3>10, <4>1, <4>2
      <3>11. CASE ~(Cardinality(T) <= k)
        <4>1. FirstOf(T, k) = F
          <5>1. \A i \in U : i \in FirstOf(T, k) <=> i \in F BY <3>3, <3>5, <3>7 DEF FirstOf
          <5>2. l + 1 \notin FirstOf(T, k) BY <3>6, <3>11 DEF FirstOf
          <5>3. F \subseteq U /\ FirstOf(T, k) \subseteq T BY <3>7 DEF FirstOf
          <5> QED BY <3>3, <5>1, <5>2, <5>3
        <4>2. Cardinality(T) \in Nat /\ ~(Cardinality(T) <= k) BY <3>4, <3>11
        <4>3. Cardinality(F) = k
          <5>1. PICK u \in Nat : u = Cardinality(U) BY <3>4
          <5>2. PICK v \in Nat : v = Cardinality(T) /\ v = u + 1 BY <3>4, <5>1
          <5>3. Cardinality(F) = IF u <= k THEN u ELSE k BY <3>9, <5>1
          <5> QED BY <4>2, <5>1, <5>2, <5>3
        <4> QED BY <3>11, <4>1, <4>3
      <3> QED BY <3>10, <3>11
    <2> QED BY <2>1, <2>2
  <1> HIDE DEF Good
  <1>3. Good \in SUBSET Nat BY DEF Good
  <1>4. Good = Nat BY <1>1, <1>2, <1>3, NatSetInduction
  <1>5. n \in Good BY <1>4
  <1> HIDE DEF Holds
  <1>6. Holds(S, m) BY <1>5 DEF Good
  <1> QED BY <1>6 DEF Holds

\* The rows, and the drafts, a key stands for.
RowsOf(rows, a, k) == {t \in DOMAIN rows : rows[t].account = a /\ Key(rows[t]) = k}
DraftsOf(drafts, k) == {i \in DOMAIN drafts : Key(drafts[i]) = k}

(* The counts dedup compares are cardinalities of finite sets.               *)
LEMMA CountsAreNumbers ==
    ASSUME NEW rows, Table(rows, TxnRow), NEW a, NEW k, NEW drafts \in Seq(Drafts)
    PROVE  /\ IsFiniteSet(RowsOf(rows, a, k)) /\ Existing(rows, a, k) = Cardinality(RowsOf(rows, a, k))
           /\ Existing(rows, a, k) \in Nat
           /\ IsFiniteSet(DraftsOf(drafts, k)) /\ Incoming(drafts, k) = Cardinality(DraftsOf(drafts, k))
           /\ Incoming(drafts, k) \in Nat
  <1>1. IsFiniteSet(RowsOf(rows, a, k)) BY FS_Subset DEF RowsOf, Table, Ids
  <1>2. IsFiniteSet(DraftsOf(drafts, k))
    <2>1. DOMAIN drafts = 1..Len(drafts) /\ Len(drafts) \in Nat OBVIOUS
    <2>2. IsFiniteSet(1..Len(drafts)) BY <2>1, FS_Interval
    <2> QED BY <2>1, <2>2, FS_Subset DEF DraftsOf
  <1> QED BY <1>1, <1>2, FS_CardinalityType DEF Existing, Incoming, RowsOf, DraftsOf

\* Of each key, dedup keeps as many drafts as the account is short of.
LEMMA DedupCounts ==
    ASSUME NEW rows, Table(rows, TxnRow), NEW a, NEW k, NEW drafts \in Seq(Drafts),
           NEW kept, kept = dedup(rows, a, drafts)
    PROVE  Cardinality({i \in kept : Key(drafts[i]) = k}) =
              IF Existing(rows, a, k) <= Incoming(drafts, k)
              THEN Incoming(drafts, k) - Existing(rows, a, k) ELSE 0
  <1>1. PICK S : S = DraftsOf(drafts, k) OBVIOUS
  <1>2. PICK ex \in Nat : ex = Existing(rows, a, k) BY CountsAreNumbers
  <1>3. PICK in \in Nat : in = Incoming(drafts, k) /\ in = Cardinality(S)
    BY <1>1, CountsAreNumbers
  <1>4. PICK n \in Nat : n = Len(drafts) /\ DOMAIN drafts = 1..n OBVIOUS
  <1>5. S \in SUBSET (1..n) BY <1>1, <1>4 DEF DraftsOf
  <1>6. PICK K : K = {i \in kept : Key(drafts[i]) = k} OBVIOUS
  <1>7. K = {i \in S : Rank(S, i) <= in - ex}
    <2>1. kept = {i \in DOMAIN drafts :
                     Cardinality({j \in 1..i : Key(drafts[j]) = Key(drafts[i])})
                       <= Incoming(drafts, Key(drafts[i])) - Existing(rows, a, Key(drafts[i]))}
      BY DEF dedup
    <2>2. \A i \in S : Key(drafts[i]) = k /\ i \in DOMAIN drafts BY <1>1 DEF DraftsOf
    <2>3. \A i \in S : {j \in 1..i : Key(drafts[j]) = k} = {j \in S : j <= i}
      BY <1>1, <1>4 DEF DraftsOf
    <2>4. \A i \in S : i \in kept <=> Rank(S, i) <= in - ex
      BY <1>2, <1>3, <2>1, <2>2, <2>3 DEF Rank
    <2>5. K = {i \in S : i \in kept}
      BY <1>1, <1>6, <2>1 DEF DraftsOf
    <2> QED BY <2>4, <2>5
  <1>8. CASE ex <= in
    <2>1. PICK m \in Nat : m = in - ex BY <1>8
    <2>2. K = FirstOf(S, m) BY <1>7, <2>1 DEF FirstOf
    <2>3. Cardinality(K) = IF in <= m THEN in ELSE m BY <1>3, <1>4, <1>5, <2>2, RankCount
    <2> QED BY <1>2, <1>3, <1>6, <1>8, <2>1, <2>3
  <1>9. CASE ~(ex <= in)
    <2>1. \A i \in S : Rank(S, i) \in Nat
      <3> TAKE i \in S
      <3>1. IsFiniteSet(S) BY <1>1, CountsAreNumbers
      <3>2. IsFiniteSet({j \in S : j <= i}) BY <3>1, FS_Subset
      <3> QED BY <3>2, FS_CardinalityType DEF Rank
    <2>2. K = {} BY <1>7, <1>9, <2>1
    <2>3. Cardinality({}) = 0 BY FS_EmptySet
    <2> QED BY <1>2, <1>3, <1>6, <1>9, <2>2, <2>3
  <1> QED BY <1>8, <1>9

\* A batch adds one row for each draft kept.
LEMMA BatchCounts ==
    ASSUME TypeOK, NEW a \in Nat \ {0}, NEW drafts \in Seq(Drafts),
           NEW kept \in SUBSET DOMAIN drafts, NEW p \in Nat, NEW k,
           NEW new, new = WithBatch(a, drafts, kept, p)
    PROVE  Cardinality(RowsOf(new, a, k)) =
              Cardinality(RowsOf(txns, a, k)) + Cardinality({i \in kept : Key(drafts[i]) = k})
  <1> DEFINE at == [i \in kept |-> MaxId + Cardinality({j \in kept : j <= i})]
  <1>1. DOMAIN drafts = 1..Len(drafts) /\ Len(drafts) \in Nat OBVIOUS
  <1>2. IsFiniteSet(kept) /\ kept \subseteq Nat
    <2>1. IsFiniteSet(1..Len(drafts)) BY <1>1, FS_Interval
    <2> QED BY <1>1, <2>1, FS_Subset
  <1>3. MaxId \in Nat /\ \A t \in DOMAIN txns : t \in Nat /\ t <= MaxId
    BY MaxIdFacts DEF MaxIdIsLast
  <1>4. PICK f : f = at OBVIOUS
  <1>5. DOMAIN f = kept BY <1>4
  <1>6. ASSUME NEW i \in kept
        PROVE  Rank(kept, i) \in Nat \ {0} /\ f[i] = MaxId + Rank(kept, i)
    <2>1. PICK S : S = {j \in kept : j <= i} OBVIOUS
    <2>2. IsFiniteSet(S) BY <1>2, <2>1, FS_Subset
    <2>3. i \in S BY <1>2, <2>1
    <2>4. Cardinality(S) \in Nat /\ Cardinality(S) # 0
      BY <2>2, <2>3, FS_CardinalityType, FS_EmptySet
    <2> QED BY <1>4, <2>1, <2>4 DEF Rank
  <1>7. ASSUME NEW i \in kept, NEW j \in kept, i < j PROVE f[i] # f[j]
    <2>1. PICK S : S = {l \in kept : l <= i} OBVIOUS
    <2>2. PICK T : T = {l \in kept : l <= j} OBVIOUS
    <2>3. IsFiniteSet(T) BY <1>2, <2>2, FS_Subset
    <2>4. S \in SUBSET T BY <1>2, <1>7, <2>1, <2>2
    <2>5. j \in T /\ j \notin S BY <1>2, <1>7, <2>1, <2>2
    <2>6. Cardinality(S) # Cardinality(T) BY <2>3, <2>4, <2>5, FS_Subset
    <2>7. Rank(kept, i) = Cardinality(S) /\ Rank(kept, j) = Cardinality(T)
      BY <2>1, <2>2 DEF Rank
    <2> QED BY <1>3, <1>6, <2>6, <2>7
  <1>8. \A i, j \in kept : f[i] = f[j] => i = j
    <2> SUFFICES ASSUME NEW i \in kept, NEW j \in kept, f[i] = f[j], i # j PROVE FALSE OBVIOUS
    <2>1. i \in Nat /\ j \in Nat BY <1>2
    <2>2. i < j \/ j < i BY <2>1
    <2> QED BY <1>7, <2>2
  <1>9. \A i \in kept : f[i] \notin DOMAIN txns BY <1>3, <1>6
  <1>10. PICK R : R = {f[i] : i \in DOMAIN f} OBVIOUS
  <1>11. new = [t \in DOMAIN txns \cup R |->
                  IF t \in DOMAIN txns THEN txns[t]
                  ELSE Row(a, drafts[CHOOSE i \in kept : f[i] = t], p)]
    BY <1>4, <1>10 DEF WithBatch, Range
  <1> HIDE DEF at
  <1>12. ASSUME NEW i \in kept
         PROVE  f[i] \in DOMAIN new /\ new[f[i]].account = a /\ Key(new[f[i]]) = Key(drafts[i])
    <2>1. f[i] \in R BY <1>5, <1>10
    <2>2. (CHOOSE j \in kept : f[j] = f[i]) = i BY <1>8
    <2>3. new[f[i]] = Row(a, drafts[i], p) BY <1>9, <1>11, <2>1, <2>2
    <2> QED BY <1>11, <2>1, <2>3 DEF Row, Key
  <1>13. PICK K : K = {i \in kept : Key(drafts[i]) = k} OBVIOUS
  <1>14. PICK g : g = [i \in K |-> f[i]] OBVIOUS
  <1>15. PICK N : N = {g[i] : i \in K} OBVIOUS
  <1>16. IsFiniteSet(N) /\ Cardinality(N) = Cardinality(K)
    <2>1. IsFiniteSet(K) BY <1>2, <1>13, FS_Subset
    <2>2. g \in Surjection(K, N) BY <1>14, <1>15 DEF Surjection
    <2>3. g \in Injection(K, N) BY <1>8, <1>13, <1>14, <1>15 DEF Injection, IsInjective
    <2> QED BY <2>1, <2>2, <2>3, FS_Surjection
  <1>17. RowsOf(new, a, k) = RowsOf(txns, a, k) \cup N
    <2>1. ASSUME NEW t \in RowsOf(new, a, k), t \notin DOMAIN txns PROVE t \in N
      <3>1. t \in R BY <1>11, <2>1 DEF RowsOf
      <3>2. PICK i \in kept : t = f[i] BY <1>5, <1>10, <3>1
      <3>3. Key(drafts[i]) = k BY <1>12, <3>2 DEF RowsOf
      <3> QED BY <1>13, <1>14, <1>15, <3>2, <3>3
    <2>2. \A t \in DOMAIN txns : t \in DOMAIN new /\ new[t] = txns[t] BY <1>11
    <2>3. \A t \in N : t \in RowsOf(new, a, k) BY <1>12, <1>13, <1>14, <1>15 DEF RowsOf
    <2>4. RowsOf(new, a, k) \subseteq RowsOf(txns, a, k) \cup N
      BY <2>1, <2>2 DEF RowsOf
    <2>5. RowsOf(txns, a, k) \subseteq RowsOf(new, a, k) BY <2>2 DEF RowsOf
    <2> QED BY <2>3, <2>4, <2>5
  <1>18. RowsOf(txns, a, k) \cap N = {} BY <1>9, <1>13, <1>14, <1>15 DEF RowsOf
  <1>19. IsFiniteSet(RowsOf(txns, a, k)) BY FS_Subset DEF RowsOf, TypeOK, Table, Ids
  <1>20. /\ Cardinality(RowsOf(txns, a, k) \cup N) =
               Cardinality(RowsOf(txns, a, k)) + Cardinality(N)
                  - Cardinality(RowsOf(txns, a, k) \cap N)
         /\ Cardinality(RowsOf(txns, a, k)) \in Nat /\ Cardinality(N) \in Nat
    BY <1>16, <1>19, FS_Union, FS_CardinalityType
  <1>21. Cardinality(RowsOf(txns, a, k) \cap N) = 0 BY <1>18, FS_EmptySet
  <1> QED BY <1>13, <1>16, <1>17, <1>20, <1>21

(* After an import the account has, of each key, the larger of what it had   *)
(* and what the file holds.                                                  *)
LEMMA ImportCounts ==
    ASSUME LInv, NEW f \in Files, NEW a, NEW s \in Int, NEW e \in Int, CommitImport(f, a, s, e),
           NEW k
    PROVE  Existing(txns', a, k) = IF Existing(txns, a, k) <= Incoming(f.drafts, k)
                                   THEN Incoming(f.drafts, k) ELSE Existing(txns, a, k)
  <1> DEFINE same == IdsForSpan(a, s, e)
  <1>1. PICK p : p = IF same = {} THEN NewId(periods) ELSE CHOOSE q \in same : TRUE OBVIOUS
  <1>2. PICK kept : kept = dedup(txns, a, f.drafts) OBVIOUS
  <1>3. PICK new : new = WithBatch(a, f.drafts, kept, p) OBVIOUS
  <1>4. /\ a \in DOMAIN accounts
        /\ txns' = recategorize_auto_rows(new, categories, rules, library, MaxId)
    BY <1>1, <1>2, <1>3, Zenon DEF CommitImport
  <1>5. a \in Nat \ {0} BY <1>4 DEF LInv, TypeOK, Table, Ids
  <1>6. p \in Nat
    <2>1. CASE same = {}
      <3>1. Ids(DOMAIN periods) BY DEF LInv, TypeOK, Table
      <3>2. p = NewId(periods) BY <1>1, <2>1
      <3> QED BY <3>1, <3>2, NewIdFacts
    <2>2. CASE same # {}
      <3>1. p \in same BY <1>1, <2>2
      <3> QED BY <3>1 DEF IdsForSpan, LInv, TypeOK, Table, Ids
    <2> QED BY <2>1, <2>2
  <1>7. PICK ds \in Seq(Drafts) : ds = f.drafts BY FilesAreDated
  <1>8. kept = dedup(txns, a, ds) /\ kept \in SUBSET DOMAIN ds BY <1>2, <1>7 DEF dedup
  <1>9. new = WithBatch(a, ds, kept, p) BY <1>3, <1>7
  <1>10. TypeOK /\ Table(txns, TxnRow) BY DEF LInv, TypeOK
  <1>11. Table(new, TxnRow)
    <2>1. BatchAdded(new, a, p) BY <1>5, <1>6, <1>8, <1>9, <1>10, BatchFacts
    <2> QED BY <2>1 DEF BatchAdded
  <1>12. Cardinality(RowsOf(new, a, k)) =
            Cardinality(RowsOf(txns, a, k)) + Cardinality({i \in kept : Key(ds[i]) = k})
    BY <1>5, <1>6, <1>8, <1>9, <1>10, BatchCounts
  <1>13. PICK later : later = txns' OBVIOUS
  <1>14. /\ Table(later, TxnRow) /\ DOMAIN later = DOMAIN new
         /\ \A t \in DOMAIN new : SameLinks(later[t], new[t])
    <2>1. Table(categories, CategoryRow) /\ Table(rules, RuleRow) BY DEF LInv, TypeOK
    <2> QED BY <1>4, <1>11, <1>13, <2>1, RefileFacts
  <1>15. RowsOf(later, a, k) = RowsOf(new, a, k)
    BY <1>14 DEF RowsOf, SameLinks, Key
  <1>16. PICK ex \in Nat : ex = Existing(txns, a, k) /\ ex = Cardinality(RowsOf(txns, a, k))
    BY <1>10, CountsAreNumbers
  <1>17. PICK in \in Nat : in = Incoming(ds, k) BY <1>10, CountsAreNumbers
  <1>18. Cardinality({i \in kept : Key(ds[i]) = k}) = IF ex <= in THEN in - ex ELSE 0
    <2>1. Cardinality({i \in kept : Key(ds[i]) = k}) =
             IF Existing(txns, a, k) <= Incoming(ds, k)
             THEN Incoming(ds, k) - Existing(txns, a, k) ELSE 0
      BY <1>8, <1>10, DedupCounts
    <2> QED BY <1>16, <1>17, <2>1
  <1>19. Existing(later, a, k) = Cardinality(RowsOf(later, a, k)) BY DEF Existing, RowsOf
  <1>20. Existing(later, a, k) = IF ex <= in THEN in ELSE ex
    BY <1>12, <1>15, <1>16, <1>18, <1>19
  <1> QED BY <1>7, <1>13, <1>16, <1>17, <1>20

\* What ImportIsUnion says of a step.
UnionStep == \A f \in Files, a \in DOMAIN accounts :
    (\E s \in OtherSpans \cup {<<f.start, f.end>>} : CommitImport(f, a, s[1], s[2])) =>
    \A i \in DOMAIN f.drafts :
        LET k == Key(f.drafts[i])
        IN Existing(txns', a, k) = Max({Existing(txns, a, k), Incoming(f.drafts, k)})

(* A step that imports a file leaves the greater count of each of its rows.  *)
LEMMA ImportStep == LInv => UnionStep
  <1>1. ASSUME LInv, NEW f \in Files, NEW a \in DOMAIN accounts,
               NEW s \in OtherSpans \cup {<<f.start, f.end>>}, CommitImport(f, a, s[1], s[2]),
               NEW k
        PROVE  Existing(txns', a, k) = Max({Existing(txns, a, k), Incoming(f.drafts, k)})
    <2>1. s[1] \in Int /\ s[2] \in Int BY FilesAreDated, SpansAreOrdered
    <2>2. Existing(txns', a, k) = IF Existing(txns, a, k) <= Incoming(f.drafts, k)
                                  THEN Incoming(f.drafts, k) ELSE Existing(txns, a, k)
      BY <1>1, <2>1, ImportCounts
    <2>3. Table(txns, TxnRow) /\ f.drafts \in Seq(Drafts)
      BY <1>1, FilesAreDated DEF LInv, TypeOK
    <2>4. PICK ds \in Seq(Drafts) : ds = f.drafts BY <2>3
    <2>5. PICK ex \in Nat : ex = Existing(txns, a, k) BY <2>3, CountsAreNumbers
    <2>6. PICK in \in Nat : in = Incoming(f.drafts, k) BY <2>3, <2>4, CountsAreNumbers
    <2>7. PICK m : m = Max({ex, in}) OBVIOUS
    <2>8. m \in {ex, in} /\ \A x \in {ex, in} : x <= m
      <3>1. PICK S : S = {ex, in} OBVIOUS
      <3>2. IsFiniteSet({ex} \cup {in}) BY FS_Singleton, FS_AddElement
      <3>3. S = {ex} \cup {in} BY <3>1
      <3>6. ex \in Int /\ in \in Int OBVIOUS
      <3>7. \A x \in S : x \in Int BY <3>1, <3>6
      <3>8. IsFiniteSet(S) BY <3>2, <3>3
      <3>4. IsFiniteSet(S) /\ S \in SUBSET Int /\ S # {} BY <3>1, <3>7, <3>8
      <3>5. Max(S) \in S /\ \A x \in S : x <= Max(S) BY <3>4, MaxFacts
      <3> QED BY <2>7, <3>1, <3>5
    <2>9. m = IF ex <= in THEN in ELSE ex BY <2>8
    <2> QED BY <2>2, <2>5, <2>6, <2>7, <2>9
  <1> QED BY <1>1 DEF UnionStep

(* An import leaves the account, of each row the file has, the greater of    *)
(* what it had and what the file has: importing a file twice, or two that    *)
(* overlap, adds no row twice and drops none (dedup, commit_import).         *)
THEOREM Imports == Spec => ImportIsUnion
  <1>1. LInv /\ [Next]_vars => [UnionStep]_vars BY ImportStep
  <1>2. Spec => [][UnionStep]_vars BY <1>1, LinksAlways, PTL DEF Spec
  <1> QED BY <1>2 DEF ImportIsUnion, UnionStep

-----------------------------------------------------------------------------
(* What a statement holds.                                                   *)

KInv == \A p \in DOMAIN periods : \A f \in periods[p].holds : Held(txns, periods[p], f)

(* So the account has the rows of each file a statement on record brought.   *)
LEMMA HoldingMeans == KInv => StatementKeepsItsRows
  BY DEF KInv, Held, StatementKeepsItsRows

(* A file stays held where its statement keeps its span and its account      *)
(* keeps the rows.                                                           *)
LEMMA HeldOn ==
    ASSUME NEW f \in Files, NEW rows, Table(rows, TxnRow), NEW new, Table(new, TxnRow),
           NEW per, NEW like, Held(rows, per, f),
           like.start = per.start, like.end = per.end, like.account = per.account,
           \A i \in DOMAIN f.drafts : RowsOf(rows, per.account, Key(f.drafts[i]))
                                         \subseteq RowsOf(new, per.account, Key(f.drafts[i]))
    PROVE  Held(new, like, f)
  <1>1. PICK ds \in Seq(Drafts) : ds = f.drafts BY FilesAreDated
  <1>2. Spanned(f, like.start, like.end) BY DEF Held
  <1>3. ASSUME NEW i \in DOMAIN ds
        PROVE  Existing(new, per.account, Key(ds[i])) >= Incoming(ds, Key(ds[i]))
    <2>1. PICK k : k = Key(ds[i]) OBVIOUS
    <2>2. PICK a : a = per.account OBVIOUS
    <2>3. PICK A : A = RowsOf(rows, a, k) OBVIOUS
    <2>4. PICK B : B = RowsOf(new, a, k) OBVIOUS
    <2>5. /\ Existing(rows, a, k) = Cardinality(A) /\ Existing(rows, a, k) \in Nat
          /\ Incoming(ds, k) \in Nat
      BY <2>3, CountsAreNumbers
    <2>6. /\ Existing(new, a, k) = Cardinality(B) /\ Existing(new, a, k) \in Nat /\ IsFiniteSet(B)
      BY <2>4, CountsAreNumbers
    <2>7. A \in SUBSET B BY <1>1, <2>1, <2>2, <2>3, <2>4
    <2>8. Cardinality(A) <= Cardinality(B) BY <2>6, <2>7, FS_Subset
    <2>9. Existing(rows, a, k) >= Incoming(ds, k) BY <1>1, <2>1, <2>2 DEF Held
    <2>10. Existing(new, a, k) >= Incoming(ds, k) BY <2>5, <2>6, <2>8, <2>9
    <2> QED BY <2>1, <2>2, <2>10
  <1> QED BY <1>1, <1>2, <1>3 DEF Held

\* Statements stay and no row they hold leaves.
LEMMA HeldStays ==
    ASSUME LInv, LInv', KInv,
           \A p \in DOMAIN periods' : \A f \in periods'[p].holds :
              /\ p \in DOMAIN periods /\ f \in periods[p].holds
              /\ periods'[p].start = periods[p].start /\ periods'[p].end = periods[p].end
              /\ periods'[p].account = periods[p].account
              /\ \A i \in DOMAIN f.drafts :
                    RowsOf(txns, periods[p].account, Key(f.drafts[i]))
                       \subseteq RowsOf(txns', periods[p].account, Key(f.drafts[i]))
    PROVE  KInv'
  <1> SUFFICES ASSUME NEW p \in DOMAIN periods', NEW f \in periods'[p].holds
               PROVE  Held(txns', periods'[p], f)
    BY DEF KInv
  <1>1. PICK per : per = periods[p] OBVIOUS
  <1>2. PICK like : like = periods'[p] OBVIOUS
  <1>3. PICK new : new = txns' OBVIOUS
  <1>4. Table(txns, TxnRow) /\ Table(new, TxnRow) BY <1>3 DEF LInv, TypeOK
  <1>5. f \in Files BY DEF LInv, TypeOK, Table, PeriodRow
  <1>6. Held(txns, per, f) BY <1>1 DEF KInv
  <1>7. like.start = per.start /\ like.end = per.end /\ like.account = per.account
    BY <1>1, <1>2
  <1>8. \A i \in DOMAIN f.drafts : RowsOf(txns, per.account, Key(f.drafts[i]))
                                      \subseteq RowsOf(new, per.account, Key(f.drafts[i]))
    BY <1>1, <1>3
  <1>9. Held(new, like, f) BY <1>4, <1>5, <1>6, <1>7, <1>8, HeldOn
  <1> QED BY <1>2, <1>3, <1>9

\* Steps that only add rows, or change how they are filed, and no statement.
LEMMA HeldByOldRows ==
    ASSUME LInv, LInv', KInv, UNCHANGED periods,
           \A t \in DOMAIN txns : t \in DOMAIN txns' /\ SameLinks(txns'[t], txns[t])
    PROVE  KInv'
  <1>1. \A a, k : RowsOf(txns, a, k) \subseteq RowsOf(txns', a, k)
    BY DEF RowsOf, SameLinks, Key
  <1> QED BY <1>1, HeldStays

(* An import adds rows, and the statement it files under holds the file.     *)
LEMMA ImportKeepsHeld ==
    ASSUME LInv, LInv', KInv, NEW f \in Files, NEW a, NEW s \in Int, NEW e \in Int,
           CommitImport(f, a, s, e)
    PROVE  KInv'
  <1> DEFINE same == IdsForSpan(a, s, e)
  <1>1. PICK p : p = IF same = {} THEN NewId(periods) ELSE CHOOSE q \in same : TRUE OBVIOUS
  <1>2. PICK old : old = IF same = {} THEN [account |-> a, start |-> s, end |-> e,
                                            closing |-> f.closing, holds |-> {}]
                         ELSE periods[p]
    OBVIOUS
  <1>3. PICK row : row = [old EXCEPT
                            !.closing = IF old.closing = None THEN f.closing ELSE old.closing,
                            !.holds = IF Spanned(f, s, e) THEN old.holds \cup {f} ELSE old.holds]
    OBVIOUS
  <1>4. periods' = Put(periods, p, row) BY <1>1, <1>2, <1>3, Zenon DEF CommitImport
  <1>5. /\ row.start = s /\ row.end = e /\ row.account = a
        /\ \A g \in row.holds : \/ g = f /\ Spanned(f, s, e)
                                \/ same # {} /\ g \in periods[p].holds
    <2>1. CASE same = {}
      <3>1. old = [account |-> a, start |-> s, end |-> e, closing |-> f.closing, holds |-> {}]
        BY <1>2, <2>1
      <3> QED BY <1>3, <3>1
    <2>2. CASE same # {}
      <3>1. p \in same /\ old = periods[p] BY <1>1, <1>2, <2>2
      <3>2. /\ old \in PeriodRow /\ old.start = s /\ old.end = e /\ old.account = a
        BY <3>1 DEF IdsForSpan, LInv, TypeOK, Table
      <3> HIDE DEF same
      <3> QED BY <1>3, <2>2, <3>1, <3>2 DEF PeriodRow
    <2> QED BY <2>1, <2>2
  <1>6. same # {} => p \in DOMAIN periods /\ periods[p].start = s /\ periods[p].end = e
                     /\ periods[p].account = a
    BY <1>1 DEF IdsForSpan
  <1>7. OnlyAdds BY ImportKeepsLinks
  <1>8. \A b, k : RowsOf(txns, b, k) \subseteq RowsOf(txns', b, k)
    BY <1>7 DEF RowsOf, OnlyAdds
  <1> HIDE DEF same
  <1>9. PICK new : new = txns' OBVIOUS
  <1>10. Table(txns, TxnRow) /\ Table(new, TxnRow) BY <1>9 DEF LInv, TypeOK
  <1>11. ASSUME NEW per, NEW like, NEW g \in Files, Held(txns, per, g),
                like.start = per.start, like.end = per.end, like.account = per.account
         PROVE  Held(new, like, g)
    <2>1. \A i \in DOMAIN g.drafts : RowsOf(txns, per.account, Key(g.drafts[i]))
                                        \subseteq RowsOf(new, per.account, Key(g.drafts[i]))
      BY <1>8, <1>9
    <2> QED BY <1>10, <1>11, <2>1, HeldOn
  <1>12. Spanned(f, s, e) => Held(new, row, f)
    <2> SUFFICES ASSUME Spanned(f, s, e), NEW i \in DOMAIN f.drafts
                 PROVE  Existing(new, a, Key(f.drafts[i])) >= Incoming(f.drafts, Key(f.drafts[i]))
      BY <1>5 DEF Held
    <2>1. PICK k : k = Key(f.drafts[i]) OBVIOUS
    <2>2. PICK ds \in Seq(Drafts) : ds = f.drafts BY FilesAreDated
    <2>3. Incoming(f.drafts, k) \in Nat /\ Existing(txns, a, k) \in Nat
      BY <1>10, <2>2, CountsAreNumbers
    <2>4. Existing(new, a, k) = IF Existing(txns, a, k) <= Incoming(f.drafts, k)
                                THEN Incoming(f.drafts, k) ELSE Existing(txns, a, k)
      BY <1>9, ImportCounts
    <2> QED BY <2>1, <2>3, <2>4
  <1>13. ASSUME NEW q \in DOMAIN periods', NEW g \in periods'[q].holds
         PROVE  Held(new, periods'[q], g)
    <2>1. g \in Files BY <1>13 DEF LInv, TypeOK, Table, PeriodRow
    <2>2. PICK like : like = periods'[q] OBVIOUS
    <2>3. CASE q # p
      <3>1. q \in DOMAIN periods /\ periods'[q] = periods[q] BY <1>4, <2>3 DEF Put
      <3>2. Held(txns, like, g) BY <2>2, <3>1 DEF KInv
      <3>3. Held(new, like, g) BY <1>11, <2>1, <3>2
      <3> QED BY <2>2, <3>3
    <2>4. CASE q = p
      <3>1. like = row /\ g \in row.holds BY <1>4, <2>2, <2>4 DEF Put
      <3>2. CASE g = f /\ Spanned(f, s, e) BY <1>12, <2>2, <3>1, <3>2
      <3>3. CASE same # {} /\ g \in periods[p].holds
        <4>1. PICK per : per = periods[p] OBVIOUS
        <4>2. Held(txns, per, g) BY <1>6, <3>3, <4>1 DEF KInv
        <4>3. row.start = per.start /\ row.end = per.end /\ row.account = per.account
          BY <1>5, <1>6, <3>3, <4>1
        <4>4. Held(new, row, g) BY <1>11, <2>1, <4>2, <4>3
        <4> QED BY <2>2, <3>1, <4>4
      <3> QED BY <1>5, <3>1, <3>2, <3>3
    <2> QED BY <2>3, <2>4
  <1> QED BY <1>9, <1>13 DEF KInv

(* A deletion leaves the rows in the span of every statement it leaves.      *)
LEMMA DeletionKeepsHeld ==
    ASSUME LInv, LInv', KInv, NEW gone, DeleteStatements(gone)
    PROVE  KInv'
  <1>1. PICK new : new = txns' OBVIOUS
  <1>2. new = AfterDelete(txns, periods, gone) BY <1>1 DEF DeleteStatements
  <1>3. AfterEveryRow(new, txns, periods, gone) BY <1>2, AfterRowFacts
  <1>4. \A t \in DOMAIN txns : AfterRow(new, txns, periods, gone, t)
    BY <1>3 DEF AfterEveryRow
  <1>5. HandedOff(new, txns, periods, gone)
    BY <1>2, AfterDeleteFacts DEF LInv, TypeOK
  <1>6. Table(txns, TxnRow) BY DEF LInv, TypeOK
  <1>7. \A t \in DOMAIN new : /\ new[t].account = txns[t].account /\ new[t].amount = txns[t].amount
                              /\ new[t].day = txns[t].day /\ new[t].desc = txns[t].desc
    BY <1>5, <1>6, HandedOffKeeps
  <1>8. \A p \in DOMAIN periods' : p \in DOMAIN periods \ gone /\ periods'[p] = periods[p]
    BY DEF DeleteStatements, Without, Restrict
  <1>9. ASSUME NEW p \in DOMAIN periods \ gone, NEW f \in periods[p].holds,
               NEW i \in DOMAIN f.drafts,
               NEW t \in RowsOf(txns, periods[p].account, Key(f.drafts[i]))
        PROVE  t \in RowsOf(new, periods[p].account, Key(f.drafts[i]))
    <2>1. /\ t \in DOMAIN txns /\ txns[t].account = periods[p].account
          /\ Key(txns[t]) = Key(f.drafts[i])
      BY DEF RowsOf
    <2>2. txns[t].day = f.drafts[i].day BY <2>1 DEF Key
    <2>3. periods[p].start <= txns[t].day /\ txns[t].day <= periods[p].end
      BY <2>2 DEF KInv, Held, Spanned
    <2>4. p \in Covers(periods, txns[t], gone) BY <2>1, <2>3 DEF Covers
    <2>5. t \in DOMAIN new BY <1>4, <2>1, <2>4 DEF AfterRow
    <2> QED BY <1>7, <2>1, <2>5 DEF RowsOf, Key
  <1> QED BY <1>1, <1>8, <1>9, HeldStays

(* A move takes the rows of the statement it moves only, and forgets what    *)
(* the moved one held.                                                       *)
LEMMA MoveKeepsHeld ==
    ASSUME LInv, LInv', KInv, NEW p, NEW a, ReassignAccount(p, a)
    PROVE  KInv'
  <1>1. p \in DOMAIN periods /\ p # None BY DEF ReassignAccount, LInv, TypeOK, Table, Ids, None
  <1>2. \A q \in DOMAIN periods : periods[q] \in PeriodRow BY DEF LInv, TypeOK, Table
  <1>3. ASSUME NEW q \in DOMAIN periods', NEW f \in periods'[q].holds
        PROVE  /\ q \in DOMAIN periods /\ periods'[q] = periods[q]
               /\ periods[q].account # periods[p].account
    <2>1. q \in DOMAIN periods BY DEF ReassignAccount
    <2>2. CASE q = p \/ periods[q].account = periods[p].account
      <3>1. periods'[q].holds = {} BY <1>2, <2>1, <2>2 DEF ReassignAccount, PeriodRow
      <3> QED BY <3>1
    <2>3. CASE ~(q = p \/ periods[q].account = periods[p].account)
      BY <2>1, <2>3 DEF ReassignAccount
    <2> QED BY <2>2, <2>3
  <1>4. ASSUME NEW b, b # periods[p].account, NEW k
        PROVE  RowsOf(txns, b, k) \subseteq RowsOf(txns', b, k)
    <2> SUFFICES ASSUME NEW t \in RowsOf(txns, b, k) PROVE t \in RowsOf(txns', b, k) OBVIOUS
    <2>1. t \in DOMAIN txns /\ txns[t].account = b BY DEF RowsOf
    <2>2. txns[t].period # p BY <1>1, <1>4, <2>1 DEF LInv, Refer, Stamped
    <2>3. t \in DOMAIN txns' /\ txns'[t] = txns[t] BY <2>1, <2>2 DEF ReassignAccount
    <2> QED BY <2>3 DEF RowsOf
  <1> QED BY <1>3, <1>4, HeldStays

(* Every step keeps what the statements hold.                                *)
LEMMA HeldStep ==
    ASSUME LInv, LInv', KInv, [Next]_vars
    PROVE  KInv'
  <1>1. ASSUME UNCHANGED <<txns, periods>> PROVE KInv' BY <1>1 DEF KInv
  <1>2. CASE UNCHANGED vars BY <1>1, <1>2 DEF vars
  <1>3. ASSUME NEW f \in Files, NEW a \in DOMAIN accounts,
               NEW s \in OtherSpans \cup {<<f.start, f.end>>}, CommitImport(f, a, s[1], s[2])
        PROVE  KInv'
    <2>1. s[1] \in Int /\ s[2] \in Int BY FilesAreDated, SpansAreOrdered
    <2> QED BY <1>3, <2>1, ImportKeepsHeld
  <1>4. ASSUME NEW a \in DOMAIN accounts, NEW d \in Entries, AddTransaction(a, d) PROVE KInv'
    <2>1. NewId(txns) \notin DOMAIN txns BY NewIdFacts DEF LInv, TypeOK, Table
    <2>2. \A t \in DOMAIN txns : t \in DOMAIN txns' /\ SameLinks(txns'[t], txns[t])
      BY <1>4, <2>1 DEF AddTransaction, Put, SameLinks
    <2>3. UNCHANGED periods BY <1>4 DEF AddTransaction
    <2> QED BY <2>2, <2>3, HeldByOldRows
  <1>5. ASSUME NEW gone \in SUBSET DOMAIN periods, DeleteStatements(gone) PROVE KInv'
    BY <1>5, DeletionKeepsHeld
  <1>6. ASSUME NEW p \in DOMAIN periods, NEW a \in DOMAIN accounts, ReassignAccount(p, a)
        PROVE  KInv'
    BY <1>6, MoveKeepsHeld
  <1>7. ASSUME NEW chosen \in SUBSET candidate_pairs, ConfirmMany(chosen) \/ RejectMany(chosen)
        PROVE  KInv'
    BY <1>1, <1>7 DEF ConfirmMany, RejectMany, Decide
  <1>8. ASSUME NEW x \in DOMAIN pairs, Unlink(x) PROVE KInv' BY <1>1, <1>8 DEF Unlink
  <1>9. ASSUME NEW n \in AccountNames, AddAccount(n) PROVE KInv' BY <1>1, <1>9 DEF AddAccount
  <1>10. ASSUME NEW a \in DOMAIN accounts, NEW n \in AccountNames, UpdateAccount(a, n)
         PROVE  KInv'
    BY <1>1, <1>10 DEF UpdateAccount
  <1>11. ASSUME NEW a \in DOMAIN accounts, DeleteAccount(a) PROVE KInv'
    BY <1>1, <1>11 DEF DeleteAccount
  <1>12. CASE CatNext /\ UNCHANGED <<accounts, periods, pairs>>
    <2>1. KeepsLinks BY <1>12, CategoryStepTypes DEF LInv
    <2>2. \A t \in DOMAIN txns : t \in DOMAIN txns' /\ SameLinks(txns'[t], txns[t])
      BY <2>1 DEF KeepsLinks
    <2> QED BY <1>12, <2>2, HeldByOldRows
  <1> QED BY <1>2, <1>3, <1>4, <1>5, <1>6, <1>7, <1>8, <1>9, <1>10, <1>11, <1>12 DEF Next

(* A statement still has every row of every file that was imported under it  *)
(* (delete_statements hands rows over), until a move between accounts takes  *)
(* rows out of its account: the model forgets what a statement holds then.   *)
THEOREM Statements == Spec => []StatementKeepsItsRows
  <1>1. Init => KInv BY DEF Init, KInv
  <1>2. LInv /\ LInv' /\ KInv /\ [Next]_vars => KInv' BY HeldStep
  <1> QED BY <1>1, <1>2, HoldingMeans, LinksAlways, PTL DEF Spec

-----------------------------------------------------------------------------
(* The window over the tables.                                               *)

(* Whatever the window does is one operation of Ledger on the tables, or     *)
(* leaves them alone.                                                        *)
LEMMA WindowSteps == [WNext]_wvars => [Next]_vars
  <1> SUFFICES ASSUME [WNext]_wvars PROVE [Next]_vars OBVIOUS
  <1>1. CASE UNCHANGED wvars BY <1>1 DEF wvars
  <1>2. ASSUME NEW tab \in Tabs, OpenTab(tab) \/ ensure_workspace(tab) \/ enter_unlocked(tab)
        PROVE  UNCHANGED vars
    BY <1>2 DEF OpenTab, ensure_workspace, enter_unlocked, Quiet
  <1>3. ASSUME NEW list, NEW row, Click(list, row) PROVE UNCHANGED vars
    BY <1>3 DEF Click, Quiet
  <1>4. CASE Sort \/ ToggleReveal \/ on_reveal_timeout \/ open_import \/ on_import_done
    BY <1>4 DEF Sort, ToggleReveal, on_reveal_timeout, on_reveal_toggled, open_import,
                on_import_done, Quiet
  <1>5. CASE BoxGoes \/ Lock \/ CancelUnlock \/ ShowUnlock
    BY <1>5 DEF BoxGoes, Lock, CancelUnlock, ShowUnlock, Quiet
  <1>6. ASSUME NEW n \in AccountNames, on_add(n) PROVE Next
    BY <1>6 DEF on_add, Next
  <1>7. ASSUME NEW a \in DOMAIN accounts, NEW n \in AccountNames, on_update(a, n) PROVE Next
    BY <1>7 DEF on_update, Next
  <1>8. ASSUME NEW a, AskAboutAccount(a) PROVE UNCHANGED vars
    BY <1>8 DEF AskAboutAccount, Ask, Quiet
  <1>9. ASSUME NEW a, AskAboutCategory(a) PROVE UNCHANGED vars
    BY <1>9 DEF AskAboutCategory, Ask, Quiet
  <1>10. CASE on_delete \/ on_delete_all
    BY <1>10 DEF on_delete, on_delete_all, AskAboutStatements, Ask, Quiet
  <1>11. ASSUME NEW c \in DOMAIN categories, NEW n \in CategoryNames, on_add_category(c, n)
         PROVE  Next
    BY <1>11 DEF on_add_category, Next, CatNext
  <1>12. ASSUME NEW c \in DOMAIN categories, NEW p \in DOMAIN categories, NEW touched,
                NEW n \in CategoryNames \cup {categories[c].name},
                on_update_category(c, n, p, touched)
         PROVE  Next
    BY <1>12 DEF on_update_category, Next, CatNext
  <1>13. ASSUME NEW x \in Patterns, NEW c \in DOMAIN categories,
                AddRuleFromTab(x, c) \/ apply_learned_rule(x, c)
         PROVE  Next
    BY <1>13 DEF AddRuleFromTab, apply_learned_rule, Next, CatNext
  <1>14. ASSUME NEW x \in Patterns, NEW c \in DOMAIN categories, NEW r \in DOMAIN rules,
                on_edit(r, x, c)
         PROVE  Next
    BY <1>14 DEF on_edit, Next, CatNext
  <1>15. ASSUME NEW r \in DOMAIN rules, on_delete_rule(r) PROVE Next
    BY <1>15 DEF on_delete_rule, Next, CatNext
  <1>16. ASSUME NEW r \in DOMAIN rules, NEW q \in DOMAIN rules, on_move(r, q) PROVE Next
    BY <1>16 DEF on_move, Next, CatNext
  <1>17. CASE on_apply BY <1>17 DEF on_apply, Next, CatNext
  <1>18. ASSUME NEW t \in DOMAIN txns, NEW c \in DOMAIN categories \cup {None}, apply_category(t, c)
         PROVE  Next
    BY <1>18 DEF apply_category, Next, CatNext
  <1>19. ASSUME NEW p \in DOMAIN periods, NEW a \in DOMAIN accounts, apply_reassign(p, a) PROVE Next
    <2>1. ReassignAccount(p, a) BY <1>19 DEF apply_reassign
    <2> QED BY ONLY <2>1 DEF Next
  <1>20. CASE on_confirm \/ on_reject
    <2>1. PICK chosen : chosen = Resolved("suggested") OBVIOUS
    <2>2. chosen \in SUBSET candidate_pairs /\ (ConfirmMany(chosen) \/ RejectMany(chosen))
      BY <1>20, <2>1 DEF on_confirm, on_reject, Decides
    <2> QED BY ONLY <2>2 DEF Next
  <1>21. CASE on_confirm_all BY <1>21 DEF on_confirm_all, Next
  <1>22. ASSUME NEW x \in Confirmed, on_unlink(x) PROVE Next
    <2>1. Unlink(x) /\ x \in DOMAIN pairs BY <1>22 DEF on_unlink, Confirmed
    <2> QED BY ONLY <2>1 DEF Next
  <1>23. ASSUME NEW d, DecideStream(d) PROVE UNCHANGED vars BY <1>23 DEF DecideStream
  <1>24. CASE on_alerts_changed BY <1>24 DEF on_alerts_changed
  <1>25. ASSUME NEW a \in DOMAIN accounts, NEW d \in Entries, on_manual_committed(a, d) PROVE Next
    BY <1>25 DEF on_manual_committed, Next
  <1>26. ASSUME NEW on \in Switches, on_settings_saved(on) PROVE Next
    BY <1>26 DEF on_settings_saved, Next, CatNext
  <1>27. ASSUME NEW f \in Files, NEW a \in DOMAIN accounts, WizardCommits(f, a) PROVE Next
    <2>1. PICK s : s = <<f.start, f.end>> OBVIOUS
    <2>2. s \in OtherSpans \cup {<<f.start, f.end>>} /\ s[1] = f.start /\ s[2] = f.end BY <2>1
    <2>3. CommitImport(f, a, s[1], s[2]) BY <1>27, <2>2 DEF WizardCommits
    <2> QED BY <2>2, <2>3 DEF Next
  <1>28. ASSUME DoIt PROVE [Next]_vars
    <2>1. ASSUME NEW a, DeleteAccount(a) PROVE Next BY <2>1 DEF DeleteAccount, Next
    <2>2. ASSUME NEW c, DeleteCategory(c), UNCHANGED <<accounts, periods, pairs>> PROVE Next
      BY <2>2 DEF DeleteCategory, Leaf, Next, CatNext
    <2>3. ASSUME DeleteStatements(box.ids) PROVE Next BY <2>3 DEF DeleteStatements, Next
    <2> QED BY <1>28, <2>1, <2>2, <2>3 DEF DoIt
  <1>29. CASE AnswerYes \/ AnswerLate BY <1>28, <1>29 DEF AnswerYes, AnswerLate
  <1> QED
    BY <1>1, <1>2, <1>3, <1>4, <1>5, <1>6, <1>7, <1>8, <1>9, <1>10, <1>11, <1>12, <1>13, <1>14,
       <1>15, <1>16, <1>17, <1>18, <1>19, <1>20, <1>21, <1>22, <1>23, <1>24, <1>25, <1>26, <1>27,
       <1>29 DEF WNext

(* A whole vault holds what the services keep.                               *)
LEMMA VaultIsWhole == WInit => LInv /\ FInv /\ KInv
  <1> SUFFICES ASSUME WInit PROVE LInv /\ FInv /\ KInv OBVIOUS
  <1>1. PICK v \in Vaults : /\ txns = v.txns /\ categories = v.categories /\ rules = v.rules
                            /\ accounts = v.accounts /\ periods = v.periods /\ pairs = v.pairs
    BY DEF WInit
  <1>2. library \in BOOLEAN BY DEF WInit
  <1>3. LInv /\ FInv BY <1>1, <1>2, VaultsAreWhole DEF LInv, TypeOK, FInv, Tree
  <1>4. KInv BY <1>1, VaultsAreWhole DEF KInv
  <1> QED BY <1>3, <1>4

(* The three invariants, under the window.                                   *)
LEMMA LedgerUnderWindow == WSpec => [](LInv /\ FInv /\ KInv)
  <1>1. LInv /\ FInv /\ KInv /\ [WNext]_wvars => (LInv /\ FInv /\ KInv)'
    <2> SUFFICES ASSUME LInv, FInv, KInv, [WNext]_wvars PROVE LInv' /\ FInv' /\ KInv' OBVIOUS
    <2>1. LInv' BY WindowSteps, LinksStep
    <2>2. FInv' BY WindowSteps, StepFiles, FilesWellIsEnough DEF StepFilesWell
    <2>3. KInv' BY <2>1, WindowSteps, HeldStep
    <2> QED BY <2>1, <2>2, <2>3
  <1> QED BY <1>1, VaultIsWhole, PTL DEF WSpec

(* What the services keep they keep under the window, for every operation of *)
(* a tab, a dialog, the wizard or a late answer is one of theirs, on a vault *)
(* that was whole when it was opened (ui/ over services/).                   *)
THEOREM LedgerHoldsUnderWindow ==
    WSpec => /\ [](LinksAreSound /\ FiledUnderALeaf /\ BatchIsALoop /\ StatementKeepsItsRows)
             /\ FilingIsKept /\ ImportIsUnion
  <1>1. LInv /\ FInv /\ KInv => LinksAreSound /\ FiledUnderALeaf /\ StatementKeepsItsRows
    BY LinksMean, FilesMean, HoldingMeans
  <1>2. LInv => BatchIsALoop BY BatchLoops DEF BatchIsALoop
  <1>3. LInv /\ FInv /\ [WNext]_wvars => [ManualIsFrozen /\ ImportOnlyAdds]_vars
    BY WindowSteps, FilingStep
  <1>4. LInv /\ [WNext]_wvars => [UnionStep]_vars BY ImportStep
  <1>5. WSpec => [][UnionStep]_vars BY <1>4, LedgerUnderWindow, PTL DEF WSpec
  <1>6. WSpec => ImportIsUnion BY <1>5 DEF ImportIsUnion, UnionStep
  <1>7. WSpec => FilingIsKept BY <1>3, LedgerUnderWindow, PTL DEF WSpec, FilingIsKept
  <1>8. WSpec => [](LinksAreSound /\ FiledUnderALeaf /\ BatchIsALoop /\ StatementKeepsItsRows)
    BY <1>1, <1>2, LedgerUnderWindow, PTL
  <1> QED BY <1>6, <1>7, <1>8

-----------------------------------------------------------------------------
(* The page.                                                                 *)

Lists == UNION {ListsOf(tab) : tab \in Tabs}
PageFields == {"tab", "rows", "desc", "sel", "picked", "form", "reveal"}

\* What a highlighted <<list, row>> of a page shows.
Shows(p, s) ==
    p.rows[s[1]][IF p.desc /\ s[1] \in Sortable THEN Len(p.rows[s[1]]) + 1 - s[2] ELSE s[2]]

WellFilled(rows, tab) ==
    \A list \in ListsOf(tab) : /\ Len(rows[list]) \in Nat
                               /\ DOMAIN rows[list] = 1..Len(rows[list])

\* The rows highlighted are rows of the page, and show what the owner clicked
\* on; in Accounts the form is that of the row.
PageWell(p) ==
    /\ DOMAIN p = PageFields /\ p.tab \in Tabs /\ p.desc \in BOOLEAN
    /\ WellFilled(p.rows, p.tab)
    /\ \A s \in p.sel : s = <<s[1], s[2]>> /\ s[1] \in ListsOf(p.tab) /\ s[2] \in DOMAIN p.rows[s[1]]
    /\ p.sel # {} => p.picked = {<<s[1], Shows(p, s)>> : s \in p.sel}
    /\ \A s \in p.sel : s[1] = "accounts" => Shows(p, s) = p.form

(* The lists of the tabs, by name.                                           *)
LEMMA ListNames ==
    /\ Lists = {"transactions", "statements", "accounts", "rules", "tree", "suggested", "confirmed"}
    /\ \A tab \in Tabs : ListsOf(tab) \subseteq Lists
  <1>1. \A tab \in Tabs : ListsOf(tab) \subseteq Lists BY DEF Lists
  <1>2. /\ ListsOf("transactions") = {"transactions"} /\ ListsOf("statements") = {"statements"}
        /\ ListsOf("accounts") = {"accounts"} /\ ListsOf("rules") = {"rules"}
        /\ ListsOf("categories") = {"tree"} /\ ListsOf("transfers") = {"suggested", "confirmed"}
        /\ ListsOf("home") = {} /\ ListsOf("recurring") = {} /\ ListsOf("forecast") = {}
    BY DEF ListsOf
  <1> QED BY <1>1, <1>2 DEF Lists, Tabs

(* A list in order is a list.                                                *)
LEMMA ListedWell == LInv =>
    \A list \in Lists : Len(Listed(list)) \in Nat /\ DOMAIN Listed(list) = 1..Len(Listed(list))
  <1> SUFFICES ASSUME LInv PROVE \A list \in Lists : /\ Len(Listed(list)) \in Nat
                                                     /\ DOMAIN Listed(list) = 1..Len(Listed(list))
    OBVIOUS
  <1>1. /\ IsFiniteSet(DOMAIN txns) /\ IsFiniteSet(DOMAIN accounts) /\ IsFiniteSet(DOMAIN periods)
        /\ IsFiniteSet(DOMAIN categories) /\ IsFiniteSet(DOMAIN rules)
    BY DEF LInv, TypeOK, Table, Ids
  <1>2. IsFiniteSet((DOMAIN txns) \X (DOMAIN txns)) BY <1>1, FS_Product
  <1>3. IsFiniteSet(candidate_pairs) BY <1>2, FS_Subset DEF candidate_pairs
  <1>4. IsFiniteSet(Confirmed)
    <2>1. Confirmed \subseteq (DOMAIN txns) \X (DOMAIN txns)
      BY DEF LInv, Transfers, Ordered, Confirmed
    <2> QED BY <1>2, <2>1, FS_Subset
  <1>5. /\ Cardinality(DOMAIN txns) \in Nat /\ Cardinality(DOMAIN accounts) \in Nat
        /\ Cardinality(DOMAIN periods) \in Nat /\ Cardinality(DOMAIN categories) \in Nat
        /\ Cardinality(DOMAIN rules) \in Nat /\ Cardinality(candidate_pairs) \in Nat
        /\ Cardinality(Confirmed) \in Nat
    BY <1>1, <1>3, <1>4, FS_CardinalityType
  <1>6. ASSUME NEW list \in Lists
        PROVE  \E n \in Nat : Len(Listed(list)) = n /\ DOMAIN Listed(list) = 1..n
    <2>1. CASE list = "transactions" BY <1>5, <2>1 DEF Listed, InOrder
    <2>2. CASE list = "accounts" BY <1>5, <2>2 DEF Listed, InOrder
    <2>3. CASE list = "statements" BY <1>5, <2>3 DEF Listed, InOrder
    <2>4. CASE list = "tree" BY <1>5, <2>4 DEF Listed, InOrder
    <2>5. CASE list = "rules" BY <1>5, <2>5 DEF Listed, InOrder
    <2>6. CASE list = "suggested" BY <1>5, <2>6 DEF Listed, InOrder
    <2>7. CASE list = "confirmed" BY <1>5, <2>7 DEF Listed, InOrder
    <2> QED BY <2>1, <2>2, <2>3, <2>4, <2>5, <2>6, <2>7, ListNames
  <1> QED BY <1>6

(* What a tab is filled with is well filled.                                 *)
LEMMA FilledWell == ASSUME LInv', NEW tab \in Tabs PROVE WellFilled(Filled(tab), tab)
  <1>1. (\A list \in Lists : Len(Listed(list)) \in Nat
                             /\ DOMAIN Listed(list) = 1..Len(Listed(list)))'
    BY ListedWell, PTL
  <1> QED BY <1>1, ListNames DEF WellFilled, Filled

(* Nothing is highlighted on an empty page.                                  *)
LEMMA NoPageWell == PageWell(NoPage)
  BY DEF PageWell, NoPage, PageFields, Tabs, WellFilled, ListsOf

(* Nothing highlighted: nothing more to say than how the page is filled.     *)
LEMMA FreshWell ==
    ASSUME NEW p, DOMAIN p = PageFields, p.tab \in Tabs, p.desc \in BOOLEAN, p.sel = {},
           WellFilled(p.rows, p.tab)
    PROVE  PageWell(p)
  BY DEF PageWell

(* A highlighted row resolves to the row the owner clicked on.               *)
LEMMA PickedIsResolved ==
    ASSUME PageWell(page), NEW list, Resolved(list) # {}
    PROVE  Picked(list) = Resolved(list)
  <1>1. \A s \in page.sel : s[1] = list =>
            page.rows[list][selected_index(list, s[2])] = Shows(page, s)
    BY DEF selected_index, Mirrored, Shows
  <1>2. Resolved(list) = {Shows(page, s) : s \in {s \in page.sel : s[1] = list}}
    BY <1>1 DEF Resolved
  <1>3. page.sel # {} BY DEF Resolved
  <1>4. page.picked = {<<s[1], Shows(page, s)>> : s \in page.sel} BY <1>3 DEF PageWell
  <1>5. \A x \in page.picked : \E s \in page.sel : x[1] = s[1] /\ x[2] = Shows(page, s)
    BY <1>4
  <1>6. \A s \in page.sel : \E x \in page.picked : x[1] = s[1] /\ x[2] = Shows(page, s)
    <2> TAKE s \in page.sel
    <2>1. <<s[1], Shows(page, s)>> \in page.picked BY <1>4
    <2> QED BY <2>1
  <1> QED BY <1>2, <1>5, <1>6 DEF Picked

(* So One(list, id) names what was clicked.                                  *)
LEMMA OneIsPicked ==
    ASSUME PageWell(page), NEW list, NEW id, One(list, id)
    PROVE  Picked(list) = {id}
  BY PickedIsResolved DEF One

(* And in Accounts the form is that of the row.                              *)
LEMMA FormIsPicked ==
    ASSUME PageWell(page), NEW a, One("accounts", a)
    PROVE  page.form = a
  <1>1. PICK s \in page.sel : s[1] = "accounts" /\ page.rows["accounts"][selected_index("accounts", s[2])] = a
    BY DEF One, Resolved
  <1>2. Shows(page, s) = a BY <1>1 DEF Shows, selected_index, Mirrored
  <1> QED BY <1>1, <1>2 DEF PageWell

-----------------------------------------------------------------------------
(* The steps of the window, those alike taken together.                      *)

\* A write at the tab in front, which is filled anew; no row comes or goes.
Tidy ==
    /\ place = "workspace" /\ box = NoBox
    /\ DOMAIN txns' = DOMAIN txns /\ DOMAIN marks' = DOMAIN marks
    /\ Refill /\ Still /\ UNCHANGED missed

(* The tabs' own writes are of that kind.                                    *)
LEMMA FilingIsTidy ==
    ASSUME LInv, PageWell(page), missed \in BOOLEAN, place = "workspace", box = NoBox,
           CatNext, Kept, Refill, Still, UNCHANGED missed
    PROVE  Tidy
  <1>1. DOMAIN txns' = DOMAIN txns BY CategoryStepTypes DEF LInv, KeepsLinks
  <1> QED BY <1>1 DEF Tidy, Kept

(* The writes of the tabs are tidy: they name what was clicked on.           *)
LEMMA TidyWrites ==
    ASSUME LInv, PageWell(page), missed \in BOOLEAN
    PROVE  /\ \A a \in DOMAIN accounts, n \in AccountNames : on_update(a, n) => Tidy
           /\ \A c \in DOMAIN categories, n \in CategoryNames : on_add_category(c, n) => Tidy
           /\ \A c, p \in DOMAIN categories, touched \in BOOLEAN :
                 \A n \in CategoryNames \cup {categories[c].name} :
                    on_update_category(c, n, p, touched) => Tidy
           /\ \A x \in Patterns, c \in DOMAIN categories :
                 /\ AddRuleFromTab(x, c) => Tidy
                 /\ apply_learned_rule(x, c) => Tidy
                 /\ \A r \in DOMAIN rules : on_edit(r, x, c) => Tidy
           /\ \A r \in DOMAIN rules : on_delete_rule(r) => Tidy
           /\ on_apply => Tidy
           /\ \A t \in DOMAIN txns, c \in DOMAIN categories \cup {None} : apply_category(t, c) => Tidy
           /\ on_confirm => Tidy
           /\ on_reject => Tidy
           /\ on_confirm_all => Tidy
           /\ \A x \in Confirmed : on_unlink(x) => Tidy
           /\ \A d : DecideStream(d) => Tidy
  <1> USE DEF At, Free
  <1>0. Kept => DOMAIN marks' = DOMAIN marks BY DEF Kept
  <1>1. ASSUME NEW a \in DOMAIN accounts, NEW n \in AccountNames, on_update(a, n) PROVE Tidy
    <2>1. Picked("accounts") = {a} /\ page.form = a BY <1>1, OneIsPicked, FormIsPicked DEF on_update
    <2> QED BY <1>0, <1>1, <2>1 DEF on_update, UpdateAccount, Hit, Tidy
  <1>2. ASSUME NEW c \in DOMAIN categories, NEW n \in CategoryNames, on_add_category(c, n) PROVE Tidy
    <2>1. CatNext BY <1>2 DEF on_add_category, CatNext
    <2>2. Picked("tree") = {c} BY <1>2, OneIsPicked DEF on_add_category
    <2>3. UNCHANGED missed BY <1>2, <2>2 DEF on_add_category, Hit
    <2> QED BY <1>2, <2>1, <2>3, FilingIsTidy DEF on_add_category
  <1>3. ASSUME NEW c \in DOMAIN categories, NEW p \in DOMAIN categories, NEW touched \in BOOLEAN,
               NEW n \in CategoryNames \cup {categories[c].name},
               on_update_category(c, n, p, touched)
        PROVE  Tidy
    <2>1. CatNext BY <1>3 DEF on_update_category, CatNext
    <2>2. Picked("tree") = {c} BY <1>3, OneIsPicked DEF on_update_category
    <2>3. (IF touched THEN p ELSE categories[c].parent) = p
      BY <1>3 DEF on_update_category, preselected
    <2>4. UNCHANGED missed
      <3>1. Hit(<<Picked("tree"), IF touched THEN p ELSE categories[c].parent>>, <<{c}, p>>)
        BY <1>3 DEF on_update_category
      <3> QED BY ONLY <2>2, <2>3, <3>1, missed \in BOOLEAN DEF Hit
    <2> QED BY <1>3, <2>1, <2>4, FilingIsTidy DEF on_update_category
  <1>4. ASSUME NEW x \in Patterns, NEW c \in DOMAIN categories,
               AddRuleFromTab(x, c) \/ apply_learned_rule(x, c)
        PROVE  Tidy
    <2>1. CatNext BY <1>4 DEF AddRuleFromTab, apply_learned_rule, CatNext
    <2> QED BY <1>4, <2>1, FilingIsTidy DEF AddRuleFromTab, apply_learned_rule
  <1>5. ASSUME NEW r \in DOMAIN rules, OnRule(r) PROVE UNCHANGED missed
    BY <1>5, OneIsPicked DEF OnRule, Hit
  <1>6. ASSUME NEW r \in DOMAIN rules, NEW x \in Patterns, NEW c \in DOMAIN categories, on_edit(r, x, c)
        PROVE  Tidy
    <2>1. CatNext BY <1>6 DEF on_edit, CatNext
    <2> QED BY <1>5, <1>6, <2>1, FilingIsTidy DEF on_edit, OnRule
  <1>7. ASSUME NEW r \in DOMAIN rules, on_delete_rule(r) PROVE Tidy
    <2>1. CatNext BY <1>7 DEF on_delete_rule, CatNext
    <2> QED BY <1>5, <1>7, <2>1, FilingIsTidy DEF on_delete_rule, OnRule
  <1>8. CASE on_apply
    <2>1. CatNext BY <1>8 DEF on_apply, CatNext
    <2> QED BY <1>8, <2>1, FilingIsTidy DEF on_apply
  <1>9. ASSUME NEW t \in DOMAIN txns, NEW c \in DOMAIN categories \cup {None}, apply_category(t, c)
        PROVE  Tidy
    <2>1. CatNext BY <1>9 DEF apply_category, CatNext
    <2>2. UNCHANGED missed BY <1>9, OneIsPicked DEF apply_category, Hit
    <2> QED BY <1>9, <2>1, <2>2, FilingIsTidy DEF apply_category
  <1>10. ASSUME NEW list, NEW standing, Decides(list, standing) PROVE UNCHANGED missed
    BY <1>10, PickedIsResolved DEF Decides, Hit
  <1>11. CASE on_confirm \/ on_reject
    BY <1>0, <1>10, <1>11 DEF on_confirm, on_reject, Decides, ConfirmMany, RejectMany, Decide, Tidy
  <1>12. CASE on_confirm_all BY <1>0, <1>12 DEF on_confirm_all, ConfirmMany, Decide, Tidy
  <1>13. ASSUME NEW x \in Confirmed, on_unlink(x) PROVE Tidy
    BY <1>0, <1>10, <1>13 DEF on_unlink, Decides, Unlink, Tidy
  <1>14. ASSUME NEW d, DecideStream(d) PROVE Tidy BY <1>14 DEF DecideStream, Tidy, vars
  <1> QED BY <1>1, <1>2, <1>3, <1>4, <1>6, <1>7, <1>8, <1>9, <1>11, <1>12, <1>13, <1>14

(* Every other step, one disjunct each.                                      *)
Singly ==
    \/ \E tab \in Tabs : OpenTab(tab) \/ ensure_workspace(tab) \/ enter_unlocked(tab)
    \/ \E list \in Lists, row \in Nat : Click(list, row)
    \/ Sort \/ ToggleReveal \/ on_reveal_timeout
    \/ \E n \in AccountNames : on_add(n)
    \/ \E a : AskAboutAccount(a) \/ AskAboutCategory(a)
    \/ on_delete \/ on_delete_all
    \/ \E r, q \in DOMAIN rules : on_move(r, q)
    \/ \E p \in DOMAIN periods, a \in DOMAIN accounts : apply_reassign(p, a)
    \/ on_alerts_changed
    \/ \E a \in DOMAIN accounts, d \in Entries : on_manual_committed(a, d)
    \/ \E on \in Switches : on_settings_saved(on)
    \/ open_import \/ on_import_done \/ \E f \in Files, a \in DOMAIN accounts : WizardCommits(f, a)
    \/ AnswerYes \/ AnswerLate \/ BoxGoes
    \/ Lock \/ CancelUnlock \/ ShowUnlock

(* A step of the window is a tidy write or one of the others.                *)
LEMMA WindowCases ==
    ASSUME LInv, PageWell(page), missed \in BOOLEAN, WNext
    PROVE  Tidy \/ Singly
  <1>1. \A row \in 1..MaxCategoryId : row \in Nat OBVIOUS
  <1>2. UNION {ListsOf(tab) : tab \in Tabs} = Lists BY DEF Lists
  <1> QED BY <1>1, <1>2, TidyWrites, Zenon DEF WNext, Singly

-----------------------------------------------------------------------------
(* The page stays well.                                                      *)

(* Refilled, with nothing highlighted.                                       *)
LEMMA RefilledWell ==
    ASSUME LInv', PageWell(page), NEW p, p = fill_guard([page EXCEPT !.rows = Filled(page.tab)])
    PROVE  PageWell(p) /\ p.tab = page.tab
  <1>1. PICK rows : rows = Filled(page.tab) OBVIOUS
  <1>2. WellFilled(rows, page.tab) BY <1>1, FilledWell DEF PageWell
  <1>3. /\ DOMAIN p = PageFields /\ p.tab = page.tab /\ p.desc = page.desc /\ p.sel = {}
        /\ p.rows = rows
    BY <1>1 DEF fill_guard, PageWell, PageFields
  <1> QED BY <1>2, <1>3, FreshWell DEF PageWell

(* A header's sort is up or down.                                            *)
LEMMA LayoutsAre == ASSUME NEW tab, NEW desc \in layouts(tab) PROVE desc \in BOOLEAN
  BY DEF layouts

(* Brought to the front.                                                     *)
LEMMA FrontWell ==
    ASSUME LInv', PageWell(page), NEW tab \in Tabs, NEW counted, ComeToFront(tab, counted)
    PROVE  PageWell(page') /\ page'.tab = tab
  <1>1. PICK desc \in layouts(tab) :
           page' = fill_guard([page EXCEPT !.tab = tab, !.rows = Filled(tab), !.desc = desc])
    BY DEF ComeToFront
  <1>2. PICK rows : rows = Filled(tab) OBVIOUS
  <1>3. PICK p : p = page' OBVIOUS
  <1>4. WellFilled(rows, tab) BY <1>2, FilledWell
  <1>5. /\ DOMAIN p = PageFields /\ p.tab = tab /\ p.desc = desc /\ p.sel = {} /\ p.rows = rows
    BY <1>1, <1>2, <1>3 DEF fill_guard, PageWell, PageFields
  <1>6. desc \in BOOLEAN BY LayoutsAre
  <1> QED BY <1>3, <1>4, <1>5, <1>6, FreshWell

(* Built.                                                                    *)
LEMMA BuiltWell ==
    ASSUME LInv', NEW tab \in Tabs, NEW counted, build_workspace(tab, counted)
    PROVE  PageWell(page') /\ page'.tab = tab
  <1>1. PICK desc \in layouts(tab) :
           page' = [tab |-> tab, rows |-> Filled(tab), desc |-> desc, sel |-> {}, picked |-> {},
                    form |-> None, reveal |-> FALSE]
    BY DEF build_workspace
  <1>2. PICK rows : rows = Filled(tab) OBVIOUS
  <1>3. PICK p : p = page' OBVIOUS
  <1>4. WellFilled(rows, tab) BY <1>2, FilledWell
  <1>5. /\ DOMAIN p = PageFields /\ p.tab = tab /\ p.desc = desc /\ p.sel = {} /\ p.rows = rows
    BY <1>1, <1>2, <1>3 DEF PageFields
  <1>6. desc \in BOOLEAN BY LayoutsAre
  <1> QED BY <1>3, <1>4, <1>5, <1>6, FreshWell

(* The selection put out.                                                    *)
LEMMA GuardedWell ==
    ASSUME PageWell(page), NEW p, p = fill_guard(page)
    PROVE  PageWell(p) /\ p.tab = page.tab
  <1>1. /\ DOMAIN p = PageFields /\ p.tab = page.tab /\ p.desc = page.desc /\ p.sel = {}
        /\ p.rows = page.rows
    BY DEF fill_guard, PageWell, PageFields
  <1> QED BY <1>1, FreshWell DEF PageWell

(* A click: what is highlighted shows what was clicked on, now or before.    *)
LEMMA ClickWell ==
    ASSUME PageWell(page), NEW list, NEW row, Click(list, row)
    PROVE  PageWell(page') /\ page'.tab = page.tab
  <1> DEFINE hit == {<<list, row>>}
             kept == IF list \in Several THEN page.sel ELSE {s \in page.sel : s[1] # list}
             new == IF list \in Several /\ hit \subseteq page.sel THEN page.sel \ hit ELSE kept \cup hit
             form == IF list = "accounts" THEN page.rows[list][selected_index(list, row)] ELSE page.form
  <1>1. PICK sel : sel = new OBVIOUS
  <1>2. PICK p : p = page' OBVIOUS
  <1>3. p = [page EXCEPT !.sel = sel, !.picked = {<<s[1], Displayed(s[1], s[2])>> : s \in sel},
                         !.form = form]
    BY <1>1, <1>2 DEF Click, PageWell, PageFields
  <1>4. /\ DOMAIN p = PageFields /\ p.tab = page.tab /\ p.desc = page.desc /\ p.rows = page.rows
        /\ p.sel = sel /\ p.picked = {<<s[1], Displayed(s[1], s[2])>> : s \in sel} /\ p.form = form
    BY <1>3 DEF PageWell, PageFields
  <1>5. list \in ListsOf(page.tab) /\ row \in DOMAIN page.rows[list] BY DEF Click
  <1>6. \A s \in sel : s = <<list, row>> \/ (s \in page.sel /\ (s[1] = list => list \in Several))
    BY <1>1
  <1>7. \A s : Displayed(s[1], s[2]) = Shows(p, s) /\ Shows(p, s) = Shows(page, s)
    BY <1>4 DEF Displayed, Mirrored, Shows
  <1>8. \A s \in sel : s = <<s[1], s[2]>> /\ s[1] \in ListsOf(p.tab) /\ s[2] \in DOMAIN p.rows[s[1]]
    BY <1>4, <1>5, <1>6 DEF PageWell
  <1>9. p.picked = {<<s[1], Shows(p, s)>> : s \in p.sel} BY <1>4, <1>7
  <1>10. ASSUME NEW s \in sel, s[1] = "accounts" PROVE Shows(p, s) = p.form
    <2>1. CASE list = "accounts"
      <3>1. s = <<list, row>> BY <1>6, <1>10, <2>1 DEF Several
      <3>2. Shows(page, s) = form BY <2>1, <3>1 DEF Shows, selected_index, Mirrored
      <3> QED BY <1>4, <1>7, <3>2
    <2>2. CASE list # "accounts"
      <3>1. s \in page.sel BY <1>6, <1>10, <2>2
      <3>2. form = page.form BY <2>2
      <3> QED BY <1>4, <1>7, <1>10, <3>1, <3>2 DEF PageWell
    <2> QED BY <2>1, <2>2
  <1>11. WellFilled(p.rows, p.tab) /\ p.tab \in Tabs /\ p.desc \in BOOLEAN BY <1>4 DEF PageWell
  <1> HIDE DEF new, form
  <1>12. PageWell(p) BY <1>4, <1>8, <1>9, <1>10, <1>11 DEF PageWell
  <1> QED BY <1>2, <1>4, <1>12

(* A tab whose tables can be sorted has no other.                            *)
LEMMA SortableTabs ==
    ASSUME NEW tab \in Tabs, ListsOf(tab) \cap Sortable # {}
    PROVE  ListsOf(tab) \subseteq Sortable
  BY DEF Tabs, ListsOf, Sortable

(* Turned over, the rows show what they showed.                              *)
LEMMA SortWell ==
    ASSUME PageWell(page), Sort
    PROVE  PageWell(page') /\ page'.tab = page.tab
  <1> DEFINE T(s) == <<s[1], Len(page.rows[s[1]]) + 1 - s[2]>>
  <1>1. PICK p : p = page' OBVIOUS
  <1>2. /\ DOMAIN p = PageFields /\ p.tab = page.tab /\ p.desc = ~page.desc /\ p.rows = page.rows
        /\ p.sel = {T(s) : s \in page.sel} /\ p.picked = page.picked /\ p.form = page.form
    BY <1>1 DEF Sort, PageWell, PageFields
  <1>3. ASSUME NEW s \in page.sel
        PROVE  /\ T(s) = <<T(s)[1], T(s)[2]>> /\ T(s)[1] = s[1] /\ s[1] \in ListsOf(page.tab)
               /\ T(s)[2] \in DOMAIN page.rows[s[1]] /\ Shows(p, T(s)) = Shows(page, s)
    <2>1. s[1] \in ListsOf(page.tab) /\ s[2] \in DOMAIN page.rows[s[1]] BY DEF PageWell
    <2>2. PICK n \in Nat : n = Len(page.rows[s[1]]) /\ DOMAIN page.rows[s[1]] = 1..n
      BY <2>1 DEF PageWell, WellFilled
    <2>3. s[1] \in Sortable BY <2>1, SortableTabs DEF Sort, PageWell
    <2>4. PICK i \in 1..n : i = s[2] BY <2>1, <2>2
    <2>5. T(s)[1] = s[1] /\ T(s)[2] = n + 1 - i /\ T(s) = <<s[1], n + 1 - i>> BY <2>2, <2>4
    <2>6. n + 1 - i \in 1..n /\ n + 1 - (n + 1 - i) = i OBVIOUS
    <2>7. page.desc \in BOOLEAN BY DEF PageWell
    <2> HIDE DEF T
    <2>8. Shows(p, T(s)) = Shows(page, s) BY <1>2, <2>2, <2>3, <2>4, <2>5, <2>6, <2>7 DEF Shows
    <2> QED BY <2>1, <2>2, <2>5, <2>6, <2>8
  <1> HIDE DEF T
  <1>4. \A t \in p.sel : t = <<t[1], t[2]>> /\ t[1] \in ListsOf(p.tab) /\ t[2] \in DOMAIN p.rows[t[1]]
    BY <1>2, <1>3
  <1>5. p.sel # {} => p.picked = {<<t[1], Shows(p, t)>> : t \in p.sel}
    <2> SUFFICES ASSUME p.sel # {} PROVE p.picked = {<<t[1], Shows(p, t)>> : t \in p.sel} OBVIOUS
    <2>1. p.picked = {<<s[1], Shows(page, s)>> : s \in page.sel} BY <1>2 DEF PageWell
    <2>2. {<<t[1], Shows(p, t)>> : t \in p.sel} = {<<T(s)[1], Shows(p, T(s))>> : s \in page.sel}
      BY <1>2
    <2> QED BY <1>3, <2>1, <2>2
  <1>6. \A t \in p.sel : t[1] = "accounts" => Shows(p, t) = p.form BY <1>2, <1>3 DEF PageWell
  <1>7. WellFilled(p.rows, p.tab) /\ p.tab \in Tabs /\ p.desc \in BOOLEAN BY <1>2 DEF PageWell
  <1>8. PageWell(p) BY <1>2, <1>4, <1>5, <1>6, <1>7 DEF PageWell
  <1> QED BY <1>1, <1>2, <1>8

(* The reveal box refills Accounts and highlights the row again, form and    *)
(* all.                                                                      *)
LEMMA RevealWell ==
    ASSUME PageWell(page), NEW on, on_reveal_toggled(on)
    PROVE  PageWell(page') /\ page'.tab = page.tab
  <1>1. PICK p : p = page' OBVIOUS
  <1>2. CASE page.tab # "accounts"
    <2>1. p = [page EXCEPT !.reveal = on] BY <1>1, <1>2 DEF on_reveal_toggled
    <2>2. /\ DOMAIN p = PageFields /\ p.tab = page.tab /\ p.desc = page.desc /\ p.rows = page.rows
          /\ p.sel = page.sel /\ p.picked = page.picked /\ p.form = page.form
      BY <2>1 DEF PageWell, PageFields
    <2>3. \A s : Shows(p, s) = Shows(page, s) BY <2>2 DEF Shows
    <2> QED BY <1>1, <2>2, <2>3 DEF PageWell
  <1>3. CASE page.tab = "accounts"
    <2>1. PICK A : A = Resolved("accounts") OBVIOUS
    <2>2. p = [page EXCEPT !.reveal = on, !.sel = {<<"accounts", RowOf(a)>> : a \in A}]
      BY <1>1, <1>3, <2>1 DEF on_reveal_toggled
    <2>3. /\ DOMAIN p = PageFields /\ p.tab = page.tab /\ p.desc = page.desc /\ p.rows = page.rows
          /\ p.sel = {<<"accounts", RowOf(a)>> : a \in A}
          /\ p.picked = page.picked /\ p.form = page.form
      BY <2>2 DEF PageWell, PageFields
    <2>4. ListsOf("accounts") = {"accounts"} BY DEF ListsOf
    <2>5. PICK n \in Nat : n = Len(page.rows["accounts"]) /\ DOMAIN page.rows["accounts"] = 1..n
      BY <1>3, <2>4 DEF PageWell, WellFilled
    <2>6. \A s \in page.sel : s[1] = "accounts" /\ s[2] \in 1..n
      BY <1>3, <2>4, <2>5 DEF PageWell
    <2>7. page.desc \in BOOLEAN /\ "accounts" \in Sortable BY DEF PageWell, Sortable
    <2>8. \A i \in 1..n : Mirrored("accounts", i) \in 1..n
      BY <2>5, <2>7 DEF Mirrored
    <2>9. A = {Shows(page, s) : s \in page.sel}
      <3>1. \A s \in page.sel :
               page.rows["accounts"][selected_index("accounts", s[2])] = Shows(page, s)
        BY <2>6 DEF selected_index, Mirrored, Shows
      <3> QED BY <2>1, <2>6, <3>1 DEF Resolved
    <2>10. ASSUME NEW a \in A
           PROVE  RowOf(a) \in 1..n /\ Shows(p, <<"accounts", RowOf(a)>>) = a
      <3>1. PICK s \in page.sel : a = page.rows["accounts"][selected_index("accounts", s[2])]
        BY <2>1 DEF Resolved
      <3>2. \E i \in 1..n : page.rows["accounts"][i] = a BY <2>6, <2>8, <3>1 DEF selected_index
      <3>3. PICK i : i = PositionOf(a) OBVIOUS
      <3>4. i \in 1..n /\ page.rows["accounts"][i] = a BY <2>5, <3>2, <3>3 DEF PositionOf
      <3>5. RowOf(a) = IF page.desc THEN n + 1 - i ELSE i BY <2>5, <2>7, <3>3 DEF RowOf, Mirrored
      <3>6. RowOf(a) \in 1..n /\ (IF page.desc THEN n + 1 - RowOf(a) ELSE RowOf(a)) = i
        BY <3>4, <3>5
      <3>7. Shows(p, <<"accounts", RowOf(a)>>) =
               page.rows["accounts"][IF page.desc THEN n + 1 - RowOf(a) ELSE RowOf(a)]
        BY <2>3, <2>5, <2>7 DEF Shows
      <3> QED BY <3>4, <3>6, <3>7
    <2>11. \A s \in p.sel : s = <<s[1], s[2]>> /\ s[1] \in ListsOf(p.tab) /\ s[2] \in DOMAIN p.rows[s[1]]
      BY <1>3, <2>3, <2>4, <2>5, <2>10
    <2>12. \A a \in A : a = page.form BY <2>6, <2>9 DEF PageWell
    <2>13. \A s \in p.sel : Shows(p, s) = p.form
      <3> TAKE s \in p.sel
      <3>1. PICK a \in A : s = <<"accounts", RowOf(a)>> BY <2>3
      <3> QED BY <2>3, <2>10, <2>12, <3>1
    <2>14. p.sel # {} => p.picked = {<<s[1], Shows(p, s)>> : s \in p.sel}
      <3> SUFFICES ASSUME p.sel # {} PROVE p.picked = {<<s[1], Shows(p, s)>> : s \in p.sel}
        OBVIOUS
      <3>1. page.sel # {} BY <2>3, <2>9
      <3>2. p.picked = {<<"accounts", Shows(page, s)>> : s \in page.sel}
        BY <2>3, <2>6, <3>1 DEF PageWell
      <3>3. \A s \in page.sel : Shows(page, s) = page.form BY <2>6 DEF PageWell
      <3>4. p.picked = {<<"accounts", page.form>>} BY <3>1, <3>2, <3>3
      <3>5. \A s \in p.sel : s[1] = "accounts" BY <2>3
      <3> QED BY <2>3, <2>13, <3>4, <3>5
    <2>15. WellFilled(p.rows, p.tab) /\ p.tab \in Tabs /\ p.desc \in BOOLEAN BY <2>3 DEF PageWell
    <2>16. PageWell(p) BY <2>3, <2>11, <2>13, <2>14, <2>15 DEF PageWell
    <2> QED BY <1>1, <2>3, <2>16
  <1> QED BY <1>2, <1>3

(* The moved rule is highlighted where it went.                              *)
LEMMA MovedWell ==
    ASSUME LInv', PageWell(page), NEW r, NEW q, on_move(r, q)
    PROVE  PageWell(page') /\ page'.tab = page.tab
  <1>1. PICK p : p = page' OBVIOUS
  <1>2. PICK rows : rows = Filled("rules") OBVIOUS
  <1>3. ListsOf("rules") = {"rules"} /\ page.tab = "rules" /\ "rules" \in Tabs /\ "rules" \notin Sortable
    BY DEF ListsOf, on_move, OnRule, At, Tabs, Sortable
  <1>4. rows["rules"] = Listed("rules")' BY <1>2, <1>3 DEF Filled
  <1>5. /\ DOMAIN p = PageFields /\ p.tab = page.tab /\ p.desc = page.desc /\ p.rows = rows
        /\ p.sel = Reselected(r) /\ p.picked = page.picked /\ p.form = page.form
    BY <1>1, <1>2 DEF on_move, PageWell, PageFields
  <1>6. p.sel = {<<"rules", i>> : i \in {i \in DOMAIN rows["rules"] : rows["rules"][i] = r}}
    BY <1>4, <1>5 DEF Reselected
  <1>7. \A s \in p.sel : /\ s = <<s[1], s[2]>> /\ s[1] = "rules" /\ s[2] \in DOMAIN p.rows["rules"]
                         /\ p.rows["rules"][s[2]] = r
    BY <1>5, <1>6
  <1>8. \A s \in p.sel : Shows(p, s) = r BY <1>3, <1>7 DEF Shows
  <1>9. page.picked = {<<"rules", r>>}
    <2>1. Resolved("rules") = {r} BY DEF on_move, OnRule, One
    <2>2. \A s \in page.sel : s[1] = "rules" BY <1>3 DEF PageWell
    <2>3. \A s \in page.sel : Shows(page, s) \in Resolved("rules")
      BY <2>2 DEF Resolved, selected_index, Mirrored, Shows
    <2>4. page.sel # {} BY <2>1 DEF Resolved
    <2>5. page.picked = {<<s[1], Shows(page, s)>> : s \in page.sel} BY <2>4 DEF PageWell
    <2> QED BY <2>1, <2>2, <2>3, <2>4, <2>5
  <1>10. p.sel # {} => p.picked = {<<s[1], Shows(p, s)>> : s \in p.sel}
    BY <1>5, <1>7, <1>8, <1>9
  <1>11. WellFilled(rows, "rules") BY <1>2, <1>3, FilledWell
  <1>12. PageWell(p) BY <1>3, <1>5, <1>7, <1>10, <1>11 DEF PageWell
  <1> QED BY <1>1, <1>5, <1>12

-----------------------------------------------------------------------------
(* What the window keeps.                                                    *)

MarksWell == DOMAIN marks = {"saved", "decided", "dismissed", "prefs"}

\* An open question, its page still there, asks about what is so.
BoxWell ==
    /\ DOMAIN box = {"kind", "ids", "says", "old"}
    /\ box.old \in BOOLEAN
    /\ box # NoBox /\ ~box.old =>
          /\ place = "workspace"
          /\ box.kind = "delete statements" =>
                page.tab = "statements" /\ box.says = Removed(box.ids)

WInv == /\ MarksWell /\ PageWell(page) /\ BoxWell /\ missed = FALSE
        /\ ScreenFollowsVault

(* The page stays well at every step.                                        *)
LEMMA PageStep ==
    ASSUME LInv, LInv', WInv, WNext
    PROVE  PageWell(page')
  <1>0. PageWell(page) /\ missed \in BOOLEAN BY DEF WInv
  <1>1. CASE Tidy BY <1>0, <1>1, RefilledWell DEF Tidy, Refill
  <1>2. ASSUME NEW tab \in Tabs, OpenTab(tab) PROVE PageWell(page')
    BY <1>0, <1>2, FrontWell DEF OpenTab
  <1>3. ASSUME NEW tab \in Tabs, ensure_workspace(tab) \/ enter_unlocked(tab) PROVE PageWell(page')
    BY <1>3, BuiltWell DEF ensure_workspace, enter_unlocked
  <1>4. ASSUME NEW list, NEW row, Click(list, row) PROVE PageWell(page') BY <1>0, <1>4, ClickWell
  <1>5. CASE Sort BY <1>0, <1>5, SortWell
  <1>6. CASE ToggleReveal \/ on_reveal_timeout
    BY <1>0, <1>6, RevealWell DEF ToggleReveal, on_reveal_timeout
  <1>7. ASSUME NEW n, on_add(n) PROVE PageWell(page')
    <2>1. PICK rows : rows = Filled("accounts") OBVIOUS
    <2>2. PICK p : p = page' OBVIOUS
    <2>3. p = fill_guard([page EXCEPT !.rows = rows, !.form = None]) /\ page.tab = "accounts"
      BY <1>7, <2>1, <2>2 DEF on_add, At
    <2>4. WellFilled(rows, page.tab) BY <1>0, <2>1, <2>3, FilledWell DEF PageWell
    <2>5. /\ DOMAIN p = PageFields /\ p.tab = page.tab /\ p.desc = page.desc /\ p.sel = {}
          /\ p.rows = rows
      BY <1>0, <2>3 DEF fill_guard, PageWell, PageFields
    <2> QED BY <1>0, <2>2, <2>4, <2>5, FreshWell DEF PageWell
  <1>8. ASSUME NEW a, AskAboutAccount(a) \/ AskAboutCategory(a) PROVE PageWell(page')
    BY <1>0, <1>8 DEF AskAboutAccount, AskAboutCategory, Ask
  <1>9. CASE on_delete \/ on_delete_all
    BY <1>0, <1>9 DEF on_delete, on_delete_all, AskAboutStatements, Ask
  <1>10. ASSUME NEW r, NEW q, on_move(r, q) PROVE PageWell(page') BY <1>0, <1>10, MovedWell
  <1>11. ASSUME page.tab = "statements", refresh_after_statement_change PROVE PageWell(page')
    BY <1>0, <1>11, RefilledWell DEF refresh_after_statement_change
  <1>12. ASSUME NEW p, NEW a, apply_reassign(p, a) PROVE PageWell(page')
    BY <1>11, <1>12 DEF apply_reassign, At
  <1>13. CASE on_alerts_changed BY <1>0, <1>13 DEF on_alerts_changed
  <1>14. ASSUME NEW a, NEW d, on_manual_committed(a, d) PROVE PageWell(page')
    <2>1. "transactions" \in Tabs BY DEF Tabs
    <2> QED BY <1>0, <1>14, <2>1, FrontWell, BuiltWell DEF on_manual_committed
  <1>15. ASSUME NEW on, on_settings_saved(on) PROVE PageWell(page')
    BY <1>0, <1>15, GuardedWell, RefilledWell DEF on_settings_saved, Refill
  <1>16. CASE open_import BY <1>16, NoPageWell DEF open_import
  <1>17. CASE on_import_done
    <2>1. "statements" \in Tabs BY DEF Tabs
    <2> QED BY <1>17, <2>1, BuiltWell DEF on_import_done
  <1>18. ASSUME NEW f, NEW a, WizardCommits(f, a) PROVE PageWell(page')
    BY <1>0, <1>18 DEF WizardCommits
  <1>19. CASE AnswerYes
    <2>1. CASE box.kind = "delete statements"
      BY <1>11, <1>19, <2>1 DEF AnswerYes, WInv, BoxWell
    <2>2. CASE box.kind # "delete statements"
      BY <1>0, <1>19, <2>2, RefilledWell DEF AnswerYes, Refill
    <2> QED BY <2>1, <2>2
  <1>20. CASE AnswerLate \/ BoxGoes \/ CancelUnlock \/ ShowUnlock
    BY <1>0, <1>20 DEF AnswerLate, BoxGoes, CancelUnlock, ShowUnlock
  <1>21. CASE Lock BY <1>21, NoPageWell DEF Lock, clear_live
  <1>22. Tidy \/ Singly BY <1>0, WindowCases
  <1> QED BY <1>1, <1>2, <1>3, <1>4, <1>5, <1>6, <1>7, <1>8, <1>9, <1>10, <1>12, <1>13, <1>14,
             <1>15, <1>16, <1>17, <1>18, <1>19, <1>20, <1>21, <1>22 DEF Singly

(* The tables beside Ledger's keep their columns.                            *)
LEMMA MarksStep ==
    ASSUME LInv, WInv, WNext
    PROVE  MarksWell'
  <1> SUFFICES DOMAIN marks' = DOMAIN marks BY DEF WInv, MarksWell
  <1>0. PageWell(page) /\ missed \in BOOLEAN BY DEF WInv
  <1>1. CASE Tidy BY <1>1 DEF Tidy
  <1>2. CASE Quiet BY <1>2 DEF Quiet
  <1>3. CASE Kept BY <1>3 DEF Kept
  <1>4. CASE DoIt BY <1>3, <1>4 DEF DoIt
  <1>5. ASSUME Singly, ~Quiet, ~Kept, ~DoIt PROVE DOMAIN marks' = DOMAIN marks
    <2>1. CASE on_alerts_changed BY <2>1 DEF on_alerts_changed
    <2>2. ASSUME NEW on, on_settings_saved(on) PROVE DOMAIN marks' = DOMAIN marks
      BY <2>2 DEF on_settings_saved
    <2>3. ~(on_delete \/ on_delete_all)
      BY <1>5 DEF on_delete, on_delete_all, AskAboutStatements, Ask
    <2>4. \A a : ~(AskAboutAccount(a) \/ AskAboutCategory(a))
      BY <1>5 DEF AskAboutAccount, AskAboutCategory, Ask
    <2>5. \A tab : ~(OpenTab(tab) \/ ensure_workspace(tab) \/ enter_unlocked(tab))
      BY <1>5 DEF OpenTab, ensure_workspace, enter_unlocked
    <2>6. \A x, y : ~(Click(x, y) \/ on_move(x, y) \/ apply_reassign(x, y)
                      \/ on_manual_committed(x, y) \/ WizardCommits(x, y) \/ on_add(x))
      BY <1>5 DEF Click, on_move, apply_reassign, on_manual_committed, WizardCommits, on_add
    <2>7. ~(Sort \/ ToggleReveal \/ on_reveal_timeout \/ open_import \/ on_import_done)
      BY <1>5 DEF Sort, ToggleReveal, on_reveal_timeout, on_reveal_toggled, open_import, on_import_done
    <2>8. ~(AnswerYes \/ AnswerLate) BY <1>5 DEF AnswerYes, AnswerLate
    <2>9. ~(BoxGoes \/ Lock \/ CancelUnlock \/ ShowUnlock)
      BY <1>5 DEF BoxGoes, Lock, CancelUnlock, ShowUnlock
    <2> QED BY <1>5, <2>1, <2>2, <2>3, <2>4, <2>5, <2>6, <2>7, <2>8, <2>9 DEF Singly
  <1>6. Tidy \/ Singly BY <1>0, WindowCases
  <1> QED BY <1>1, <1>2, <1>3, <1>4, <1>5, <1>6

(* Deleting statements takes the rows delete_preview_many counted.           *)
LEMMA RemovedFacts ==
    ASSUME LInv, NEW gone, DeleteStatements(gone)
    PROVE  Removed(gone) = Cardinality(DOMAIN txns) - Cardinality(DOMAIN txns')
  <1>1. PICK doomed :
           doomed = {t \in DOMAIN txns : txns[t].period \in gone /\ Covers(periods, txns[t], gone) = {}}
    OBVIOUS
  <1>2. DOMAIN txns' = DOMAIN txns \ doomed BY <1>1 DEF DeleteStatements, AfterDelete
  <1>3. Removed(gone) = Cardinality(doomed) BY <1>1 DEF Removed
  <1>4. doomed \subseteq DOMAIN txns /\ IsFiniteSet(DOMAIN txns) BY <1>1 DEF LInv, TypeOK, Table, Ids
  <1>5. IsFiniteSet(doomed) BY <1>4, FS_Subset
  <1>6. Cardinality(DOMAIN txns \ doomed) = Cardinality(DOMAIN txns) - Cardinality(DOMAIN txns \cap doomed)
    BY <1>4, FS_Difference
  <1>7. DOMAIN txns \cap doomed = doomed BY <1>4
  <1>8. Cardinality(doomed) \in Nat /\ Cardinality(DOMAIN txns) \in Nat
    BY <1>4, <1>5, FS_CardinalityType
  <1> QED BY <1>2, <1>3, <1>6, <1>7, <1>8

(* No step misses what the owner picked.                                     *)
LEMMA HitStep ==
    ASSUME LInv, WInv, WNext
    PROVE  missed' = FALSE
  <1>0. PageWell(page) /\ missed = FALSE BY DEF WInv
  <1> SUFFICES ASSUME ~UNCHANGED missed PROVE FALSE BY <1>0
  <1>1. ~Tidy BY DEF Tidy
  <1>2. \A tab : ~(OpenTab(tab) \/ ensure_workspace(tab) \/ enter_unlocked(tab))
    BY DEF OpenTab, ensure_workspace, enter_unlocked
  <1>3. \A x, y : ~(Click(x, y) \/ on_manual_committed(x, y) \/ WizardCommits(x, y))
    BY DEF Click, on_manual_committed, WizardCommits
  <1>4. \A x : ~(on_add(x) \/ on_settings_saved(x)) BY DEF on_add, on_settings_saved
  <1>5. ~(Sort \/ ToggleReveal \/ on_reveal_timeout \/ open_import \/ on_import_done)
    BY DEF Sort, ToggleReveal, on_reveal_timeout, on_reveal_toggled, open_import, on_import_done
  <1>6. ~(BoxGoes \/ Lock \/ CancelUnlock \/ ShowUnlock)
    BY DEF BoxGoes, Lock, CancelUnlock, ShowUnlock
  <1>7. ~(on_alerts_changed \/ AnswerLate) BY DEF on_alerts_changed, AnswerLate
  <1>8. \A x : ~Hit(x, x) BY <1>0 DEF Hit
  <1>9. \A a : ~AskAboutAccount(a) BY <1>0, <1>8, OneIsPicked DEF AskAboutAccount
  <1>10. \A c : ~AskAboutCategory(c) BY <1>0, <1>8, OneIsPicked DEF AskAboutCategory
  <1>11. ~on_delete
    <2> SUFFICES ASSUME on_delete PROVE FALSE OBVIOUS
    <2>1. Resolved("statements") # {} /\ Hit(Picked("statements"), Resolved("statements"))
      BY DEF on_delete, AskAboutStatements
    <2> QED BY <1>0, <1>8, <2>1, PickedIsResolved
  <1>12. ~on_delete_all BY <1>8 DEF on_delete_all, AskAboutStatements
  <1>13. \A r, q : ~on_move(r, q) BY <1>0, <1>8, OneIsPicked DEF on_move, OnRule
  <1>14. \A p, a : ~apply_reassign(p, a) BY <1>0, <1>8, OneIsPicked DEF apply_reassign
  <1>15. ~AnswerYes
    <2> SUFFICES ASSUME AnswerYes PROVE FALSE OBVIOUS
    <2>1. box.kind = "delete statements" BY DEF AnswerYes
    <2>2. box.says = Removed(box.ids) BY <2>1 DEF AnswerYes, WInv, BoxWell
    <2>3. DeleteStatements(box.ids) BY <2>1 DEF AnswerYes, DoIt
    <2>4. Hit(box.says, Cardinality(DOMAIN txns) - Cardinality(DOMAIN txns')) BY <2>1 DEF AnswerYes
    <2> QED BY <1>8, <2>2, <2>3, <2>4, RemovedFacts
  <1>16. Tidy \/ Singly BY <1>0, WindowCases
  <1> QED BY <1>1, <1>2, <1>3, <1>4, <1>5, <1>6, <1>7, <1>9, <1>10, <1>11, <1>12, <1>13, <1>14,
             <1>15, <1>16 DEF Singly

(* A question asks what is so until it goes; one whose page is gone is old.  *)
LEMMA BoxStep ==
    ASSUME LInv, WInv, WNext
    PROVE  BoxWell'
  <1>0. /\ PageWell(page) /\ missed \in BOOLEAN /\ BoxWell BY DEF WInv
  <1>1. DOMAIN NoBox = DOMAIN box /\ NoBox.old = FALSE
    BY <1>0 DEF BoxWell, NoBox
  <1>2. ASSUME box' = NoBox, place' # "locked" PROVE BoxWell'
    BY <1>0, <1>1, <1>2 DEF BoxWell
  <1>3. ASSUME UNCHANGED <<place, page, box>>, Quiet PROVE BoxWell'
    BY <1>0, <1>3 DEF BoxWell, Quiet, vars, Removed, Covers
  <1>4. CASE Tidy BY <1>2, <1>4 DEF Tidy, Still
  <1>5. ASSUME NEW tab, OpenTab(tab) \/ ensure_workspace(tab)
        PROVE  BoxWell'
    BY <1>2, <1>5 DEF OpenTab, ensure_workspace, build_workspace, Still, Free
  <1>6. ASSUME NEW tab, enter_unlocked(tab) PROVE BoxWell'
    <2>1. box' = box /\ (box = NoBox \/ box.old) /\ place' = "workspace"
      BY <1>0, <1>6 DEF enter_unlocked, build_workspace, BoxWell
    <2> QED BY <1>0, <2>1 DEF BoxWell
  <1>7. ASSUME NEW x, NEW y, Click(x, y) \/ on_move(x, y) \/ apply_reassign(x, y) \/ on_add(x)
        PROVE  BoxWell'
    BY <1>2, <1>7 DEF Click, on_move, OnRule, apply_reassign, on_add, At, Free, Still
  <1>8. CASE Sort \/ on_alerts_changed BY <1>2, <1>8 DEF Sort, on_alerts_changed, At, Free, Still
  <1>9. ASSUME NEW on, on_reveal_toggled(on) PROVE BoxWell'
    <2>1. /\ UNCHANGED <<place, box>> /\ page'.tab = page.tab /\ place = "workspace"
          /\ Removed(box.ids)' = Removed(box.ids)
      BY <1>0, <1>9, RevealWell DEF on_reveal_toggled, Quiet, vars, Removed, Covers
    <2> QED BY <1>0, <2>1 DEF BoxWell
  <1>10. CASE ToggleReveal \/ on_reveal_timeout
    BY <1>9, <1>10 DEF ToggleReveal, on_reveal_timeout
  <1>11. ASSUME NEW kind, NEW ids, NEW says, Ask(kind, ids, says), place = "workspace",
                kind = "delete statements" => page.tab = "statements" /\ says = Removed(ids)
         PROVE  BoxWell'
    <2>1. /\ DOMAIN box' = DOMAIN box /\ box'.old = FALSE /\ box'.kind = kind
          /\ box'.ids = ids /\ box'.says = says
      BY <1>1, <1>11 DEF Ask, NoBox
    <2>2. UNCHANGED <<place, page>> /\ Removed(ids)' = Removed(ids)
      BY <1>11 DEF Ask, Quiet, vars, Removed, Covers
    <2> QED BY <1>0, <1>11, <2>1, <2>2 DEF BoxWell
  <1>12. ASSUME NEW a, AskAboutAccount(a) \/ AskAboutCategory(a)
         PROVE  BoxWell'
    BY <1>11, <1>12 DEF AskAboutAccount, AskAboutCategory, At, Free
  <1>13. CASE on_delete \/ on_delete_all
    BY <1>11, <1>13 DEF on_delete, on_delete_all, AskAboutStatements, At, Free
  <1>14. ASSUME NEW a, NEW d, on_manual_committed(a, d) PROVE BoxWell'
    BY <1>2, <1>14 DEF on_manual_committed, build_workspace
  <1>15. ASSUME NEW on, on_settings_saved(on) PROVE BoxWell'
    BY <1>2, <1>15 DEF on_settings_saved, Still
  <1>16. CASE open_import \/ on_import_done
    BY <1>2, <1>16 DEF open_import, on_import_done, build_workspace, Free
  <1>17. ASSUME NEW f, NEW a, WizardCommits(f, a) PROVE BoxWell'
    BY <1>2, <1>17 DEF WizardCommits
  <1>18. CASE AnswerYes BY <1>0, <1>2, <1>18 DEF AnswerYes, BoxWell
  <1>19. CASE AnswerLate BY <1>2, <1>19 DEF AnswerLate
  <1>20. CASE BoxGoes
    BY <1>0, <1>1, <1>20 DEF BoxGoes, BoxWell
  <1>21. CASE Lock
    <2>1. PICK old : old = [box EXCEPT !.old = TRUE] OBVIOUS
    <2>2. /\ place' = "locked" /\ page' = NoPage
          /\ box' = NoBox \/ (box' = box /\ box.old) \/ box' = old
      BY <1>21, <2>1 DEF Lock, clear_live
    <2>3. DOMAIN old = DOMAIN box /\ old.old = TRUE BY <1>0, <2>1 DEF BoxWell
    <2> QED BY <1>0, <1>1, <2>2, <2>3 DEF BoxWell
  <1>22. CASE CancelUnlock \/ ShowUnlock BY <1>3, <1>22 DEF CancelUnlock, ShowUnlock
  <1>23. Tidy \/ Singly BY <1>0, WindowCases
  <1> QED BY <1>4, <1>5, <1>6, <1>7, <1>8, <1>10, <1>12, <1>13, <1>14, <1>15, <1>16, <1>17, <1>18,
             <1>19, <1>20, <1>21, <1>22, <1>23 DEF Singly

-----------------------------------------------------------------------------
(* What the screen says.                                                     *)

(* After a repaint: what was not repainted did not change.                   *)
LEMMA SeenFollows ==
    ASSUME ScreenFollowsVault, place = "workspace", page'.tab = page.tab, NEW repainted,
           Seen(repainted),
           "page" \in repainted \/ View("page")' = View("page"),
           "count" \in repainted \/ View("count")' = View("count"),
           page.tab = "home" /\ txns' # <<>> =>
              "bell" \in repainted \/ (txns # <<>> /\ View("bell")' = View("bell"))
    PROVE  ScreenFollowsVault'
  <1>1. ASSUME NEW part \in {"page", "bell", "count"}, part \in behind' PROVE
           /\ part \notin repainted
           /\ part \in behind \/ View(part)' # View(part)
    BY <1>1 DEF Seen
  <1>2. known' = known \ repainted BY DEF Seen
  <1>3. ASSUME NEW part \in {"page", "count"}, part \in behind' PROVE part \in known'
    BY <1>1, <1>2, <1>3 DEF ScreenFollowsVault
  <1>4. ASSUME page.tab = "home", txns' # <<>>, "bell" \in behind' PROVE "bell" \in known'
    BY <1>1, <1>2, <1>4 DEF ScreenFollowsVault
  <1> QED BY <1>3, <1>4 DEF ScreenFollowsVault

(* The count counts the rows.                                                *)
LEMMA CountFollows == DOMAIN txns' = DOMAIN txns => View("count")' = View("count")
  BY DEF View

(* Filled anew, with the rows there were.                                    *)
LEMMA RefillFollows ==
    ASSUME LInv', PageWell(page), ScreenFollowsVault, place = "workspace", Refill,
           DOMAIN txns' = DOMAIN txns
    PROVE  ScreenFollowsVault'
  <1>1. PICK repainted :
           repainted = {"page"} \cup (IF page.tab = "home" /\ txns' # <<>> THEN {"bell"} ELSE {})
    OBVIOUS
  <1>2. Seen(repainted) BY <1>1 DEF Refill
  <1>3. page'.tab = page.tab BY RefilledWell DEF Refill
  <1>4. View("count")' = View("count") BY CountFollows
  <1>5. "page" \in repainted /\ (page.tab = "home" /\ txns' # <<>> => "bell" \in repainted)
    BY <1>1
  <1> QED BY <1>2, <1>3, <1>4, <1>5, SeenFollows

(* A tab brought to the front is read anew, and only the count may be left.  *)
LEMMA FrontFollows ==
    ASSUME NEW tab, NEW counted,
           ComeToFront(tab, counted),
           counted \/ (ScreenFollowsVault /\ place = "workspace" /\ View("count")' = View("count"))
    PROVE  ScreenFollowsVault'
  <1>1. behind' \subseteq {"count"} /\ (counted => behind' = {})
    BY DEF ComeToFront, refresh_tab
  <1>2. ~counted /\ "count" \in behind' => "count" \in behind
    BY DEF ComeToFront, refresh_tab
  <1>3. known' = known \cap behind' BY DEF ComeToFront
  <1> QED BY <1>1, <1>2, <1>3 DEF ScreenFollowsVault

(* A workspace built anew is read anew.                                      *)
LEMMA BuiltFollows ==
    ASSUME NEW tab, NEW counted, build_workspace(tab, counted), counted \/ known' = behind'
    PROVE  ScreenFollowsVault'
  BY DEF build_workspace, ScreenFollowsVault

(* The settings are told to the page that shows them.                        *)
LEMMA SettingsFollow ==
    ASSUME PageWell(page), MarksWell, ScreenFollowsVault, LInv', NEW on, on_settings_saved(on)
    PROVE  ScreenFollowsVault'
  <1>1. CASE place # "workspace" BY <1>1 DEF on_settings_saved, Still, ScreenFollowsVault
  <1>2. CASE place = "workspace"
    <2>1. /\ txns' = txns /\ categories' = categories /\ rules' = rules
          /\ UNCHANGED <<accounts, periods, pairs>>
      BY DEF on_settings_saved, SetLibraryEnabled
    <2>2. marks'.saved = marks.saved BY DEF on_settings_saved, MarksWell
    <2>3. View("count")' = View("count") BY <2>1, CountFollows
    <2>4. Confirmed' = Confirmed BY <2>1 DEF Confirmed
    <2>5. CASE page.tab \in Pushed /\ page.tab # "transactions"
      <3>1. Refill BY <1>2, <2>5 DEF on_settings_saved
      <3> QED BY <1>2, <2>1, <3>1, RefillFollows
    <2>6. CASE page.tab = "transactions"
      <3>1. page' = fill_guard(page) /\ Seen({}) BY <1>2, <2>6 DEF on_settings_saved, Pushed
      <3>2. page'.tab = page.tab BY <3>1, GuardedWell
      <3>3. View("page")' = View("page")
        BY <2>1, <2>4, <2>6, <3>2 DEF View, TabView, TransactionsShow
      <3> QED BY <1>2, <2>3, <2>6, <3>1, <3>2, <3>3, SeenFollows
    <2>7. CASE page.tab \notin Pushed
      <3>1. UNCHANGED page /\ Seen({}) BY <1>2, <2>7 DEF on_settings_saved
      <3>2. page.tab \in {"accounts", "categories", "rules"} BY <2>7 DEF PageWell, Tabs, Pushed
      <3>3. View("page")' = View("page")
        BY <2>1, <2>2, <3>1, <3>2 DEF View, TabView, AccountsShow, CategoriesShow, RulesShow
      <3> QED BY <1>2, <2>3, <3>1, <3>2, <3>3, SeenFollows
    <2> QED BY <2>5, <2>6, <2>7
  <1> QED BY <1>1, <1>2

(* An answer takes rows away, and unless it deletes statements none.         *)
LEMMA AnswerRows ==
    ASSUME LInv, LInv', DoIt
    PROVE  /\ DOMAIN txns' \subseteq DOMAIN txns
           /\ box.kind # "delete statements" => DOMAIN txns' = DOMAIN txns
           /\ txns' # <<>> => txns # <<>>
  <1>1. ASSUME NEW c, DeleteCategory(c) PROVE DOMAIN txns' = DOMAIN txns
    <2>1. CatNext BY <1>1 DEF DeleteCategory, Leaf, CatNext
    <2> QED BY <2>1, CategoryStepTypes DEF LInv, KeepsLinks
  <1>2. ASSUME DeleteStatements(box.ids) PROVE DOMAIN txns' \subseteq DOMAIN txns
    BY <1>2 DEF DeleteStatements, AfterDelete
  <1>3. DOMAIN txns' \subseteq DOMAIN txns BY <1>1, <1>2 DEF DoIt, DeleteAccount, vars
  <1>4. box.kind # "delete statements" => DOMAIN txns' = DOMAIN txns
    BY <1>1 DEF DoIt, DeleteAccount, vars
  <1>5. txns' \in [DOMAIN txns' -> TxnRow'] BY DEF LInv, TypeOK, Table
  <1>6. ASSUME txns = <<>> PROVE txns' = <<>>
    <2>1. PICK old, new, S : old = txns /\ new = txns' /\ S = TxnRow' OBVIOUS
    <2>2. old = <<>> /\ DOMAIN new \subseteq DOMAIN old /\ new \in [DOMAIN new -> S]
      BY <1>3, <1>5, <1>6, <2>1
    <2>3. DOMAIN <<>> = {} OBVIOUS
    <2>4. new \in [{} -> S]
      <3>1. DOMAIN new = {} BY ONLY <2>2, <2>3, Zenon
      <3> QED BY ONLY <2>2, <3>1, Zenon
    <2>5. new = <<>> BY ONLY <2>4
    <2> QED BY <2>1, <2>5
  <1> QED BY <1>3, <1>4, <1>6

(* A late answer leaves behind only what the README names.                   *)
LEMMA LateFollows ==
    ASSUME LInv, LInv', ScreenFollowsVault, AnswerLate
    PROVE  ScreenFollowsVault'
  <1>1. known' = known \cup (behind' \ behind) /\ UNCHANGED <<place, page>> BY DEF AnswerLate
  <1>2. txns' # <<>> => txns # <<>> BY AnswerRows DEF AnswerLate
  <1> QED BY <1>1, <1>2 DEF ScreenFollowsVault

(* The screen follows the vault at every step.                               *)
LEMMA ScreenStep ==
    ASSUME LInv, LInv', WInv, WNext
    PROVE  ScreenFollowsVault'
  <1>0. PageWell(page) /\ missed \in BOOLEAN /\ MarksWell /\ BoxWell /\ ScreenFollowsVault
    BY DEF WInv
  <1>1. CASE Tidy BY <1>0, <1>1, RefillFollows DEF Tidy
  <1>2. ASSUME UNCHANGED <<place, behind, known>>, page'.tab = page.tab, Quiet
        PROVE  ScreenFollowsVault'
    BY <1>0, <1>2 DEF ScreenFollowsVault, Quiet, vars
  <1>3. ASSUME NEW tab, OpenTab(tab) PROVE ScreenFollowsVault'
    BY <1>0, <1>3, FrontFollows, CountFollows DEF OpenTab, Free, Quiet, vars
  <1>4. ASSUME NEW tab, ensure_workspace(tab) \/ enter_unlocked(tab) PROVE ScreenFollowsVault'
    BY <1>4, BuiltFollows DEF ensure_workspace, enter_unlocked
  <1>5. ASSUME NEW list, NEW row, Click(list, row) PROVE ScreenFollowsVault'
    BY <1>0, <1>2, <1>5, ClickWell DEF Click, Still
  <1>6. CASE Sort BY <1>0, <1>2, <1>6, SortWell DEF Sort, Still
  <1>7. ASSUME NEW on, on_reveal_toggled(on) PROVE ScreenFollowsVault'
    BY <1>0, <1>2, <1>7, RevealWell DEF on_reveal_toggled
  <1>8. CASE ToggleReveal \/ on_reveal_timeout BY <1>7, <1>8 DEF ToggleReveal, on_reveal_timeout
  <1>9. ASSUME NEW n, on_add(n) PROVE ScreenFollowsVault'
    <2>1. /\ page.tab = "accounts" /\ place = "workspace" /\ Seen({"page"}) /\ UNCHANGED txns
          /\ page' = fill_guard([page EXCEPT !.rows = Filled("accounts"), !.form = None])
      BY <1>9 DEF on_add, At, Free, AddAccount
    <2>2. page'.tab = page.tab BY <1>0, <2>1 DEF fill_guard, PageWell, PageFields
    <2>3. View("count")' = View("count") BY <2>1, CountFollows
    <2> QED BY <1>0, <2>1, <2>2, <2>3, SeenFollows
  <1>10. ASSUME NEW a, AskAboutAccount(a) \/ AskAboutCategory(a) PROVE ScreenFollowsVault'
    BY <1>2, <1>10 DEF AskAboutAccount, AskAboutCategory, Ask
  <1>11. CASE on_delete \/ on_delete_all
    BY <1>2, <1>11 DEF on_delete, on_delete_all, AskAboutStatements, Ask
  <1>12. ASSUME NEW r \in DOMAIN rules, NEW q \in DOMAIN rules, on_move(r, q)
         PROVE  ScreenFollowsVault'
    <2>1. page.tab = "rules" /\ place = "workspace" /\ Seen({"page"})
      BY <1>12 DEF on_move, OnRule, At, Free
    <2>2. page'.tab = page.tab BY <1>0, <1>12, MovedWell
    <2>3. CatNext BY <1>12 DEF on_move, CatNext
    <2>4. View("count")' = View("count")
      BY <2>3, CountFollows, CategoryStepTypes DEF LInv, KeepsLinks
    <2> QED BY <1>0, <2>1, <2>2, <2>4, SeenFollows
  <1>13. ASSUME page.tab = "statements", place = "workspace", refresh_after_statement_change
         PROVE  ScreenFollowsVault'
    <2>1. Seen({"page", "bell", "count"}) BY <1>13 DEF refresh_after_statement_change
    <2>2. page'.tab = page.tab BY <1>0, <1>13, RefilledWell DEF refresh_after_statement_change
    <2> QED BY <1>0, <1>13, <2>1, <2>2, SeenFollows
  <1>14. ASSUME NEW p, NEW a, apply_reassign(p, a) PROVE ScreenFollowsVault'
    BY <1>13, <1>14 DEF apply_reassign, At, Free
  <1>15. CASE on_alerts_changed
    <2>1. /\ page.tab = "home" /\ place = "workspace" /\ UNCHANGED <<vars, page>>
          /\ marks' = [marks EXCEPT !.dismissed = TRUE] /\ Seen({"bell"})
      BY <1>15 DEF on_alerts_changed, At, Free
    <2>2. marks'.decided = marks.decided /\ marks'.prefs = marks.prefs BY <1>0, <2>1 DEF MarksWell
    <2>3. Confirmed' = Confirmed BY <2>1 DEF vars, Confirmed
    <2>4. View("page")' = View("page")
      BY <2>1, <2>2, <2>3 DEF View, TabView, HomeShows, vars
    <2>5. View("count")' = View("count") BY <2>1, CountFollows DEF vars
    <2> QED BY <1>0, <2>1, <2>4, <2>5, SeenFollows
  <1>16. ASSUME NEW a, NEW d, on_manual_committed(a, d) PROVE ScreenFollowsVault'
    BY <1>16, FrontFollows, BuiltFollows DEF on_manual_committed
  <1>17. ASSUME NEW on, on_settings_saved(on) PROVE ScreenFollowsVault'
    BY <1>0, <1>17, SettingsFollow
  <1>18. ASSUME place' # "workspace" PROVE ScreenFollowsVault' BY <1>18 DEF ScreenFollowsVault
  <1>19. CASE open_import \/ Lock BY <1>18, <1>19 DEF open_import, Lock
  <1>20. CASE on_import_done BY <1>20, BuiltFollows DEF on_import_done
  <1>21. ASSUME NEW f, NEW a, WizardCommits(f, a) PROVE ScreenFollowsVault'
    BY <1>18, <1>21 DEF WizardCommits
  <1>22. CASE AnswerYes
    <2>1. place = "workspace" /\ (box.kind = "delete statements" => page.tab = "statements")
      BY <1>0, <1>22 DEF AnswerYes, BoxWell
    <2>2. CASE box.kind = "delete statements" BY <1>13, <1>22, <2>1, <2>2 DEF AnswerYes
    <2>3. CASE box.kind # "delete statements"
      BY <1>0, <1>22, <2>1, <2>3, AnswerRows, RefillFollows DEF AnswerYes
    <2> QED BY <2>2, <2>3
  <1>23. CASE AnswerLate BY <1>0, <1>23, LateFollows
  <1>24. CASE BoxGoes \/ CancelUnlock \/ ShowUnlock
    BY <1>2, <1>24 DEF BoxGoes, CancelUnlock, ShowUnlock
  <1>25. Tidy \/ Singly BY <1>0, WindowCases
  <1> QED BY <1>1, <1>3, <1>4, <1>5, <1>6, <1>8, <1>9, <1>10, <1>11, <1>12, <1>14, <1>15, <1>16,
             <1>17, <1>19, <1>20, <1>21, <1>22, <1>23, <1>24, <1>25 DEF Singly

(* A locked window, before anything was shown.                               *)
LEMMA LockedAtFirst == WInit => WInv
  <1> SUFFICES ASSUME WInit PROVE WInv OBVIOUS
  <1>1. /\ place = "locked" /\ page = NoPage /\ box = NoBox /\ missed = FALSE
    BY DEF WInit
  <1>2. MarksWell BY DEF WInit, MarksWell
  <1>3. BoxWell BY <1>1 DEF BoxWell, NoBox
  <1>4. ScreenFollowsVault BY <1>1 DEF ScreenFollowsVault
  <1> QED BY <1>1, <1>2, <1>3, <1>4, NoPageWell DEF WInv

(* Nothing moves: nothing is lost.                                           *)
LEMMA StillWell == WInv /\ UNCHANGED wvars => WInv'
  <1> SUFFICES ASSUME WInv, UNCHANGED wvars PROVE WInv' OBVIOUS
  <1>1. UNCHANGED <<txns, periods, marks, place, page, box, behind, known, missed>>
    BY DEF wvars, vars, ui
  <1>2. MarksWell' /\ PageWell(page') /\ missed' = FALSE BY <1>1 DEF WInv, MarksWell
  <1>3. BoxWell' BY <1>1 DEF WInv, BoxWell, Removed, Covers
  <1>4. ScreenFollowsVault' BY <1>1 DEF WInv, ScreenFollowsVault
  <1> QED BY <1>2, <1>3, <1>4 DEF WInv

(* What the window keeps, with the links of the tables it shows.             *)
LEMMA WindowKeeps == WSpec => []WInv
  <1>1. LInv /\ LInv' /\ WInv /\ [WNext]_wvars => WInv'
    <2> SUFFICES ASSUME LInv, LInv', WInv, [WNext]_wvars PROVE WInv' OBVIOUS
    <2>1. CASE WNext
      <3>1. PageWell(page') BY <2>1, PageStep
      <3>2. MarksWell' BY <2>1, MarksStep
      <3>3. missed' = FALSE BY <2>1, HitStep
      <3>4. BoxWell' BY <2>1, BoxStep
      <3>5. ScreenFollowsVault' BY <2>1, ScreenStep
      <3> QED BY <3>1, <3>2, <3>3, <3>4, <3>5 DEF WInv
    <2>2. CASE UNCHANGED wvars BY <2>2, StillWell
    <2> QED BY <2>1, <2>2
  <1>2. WSpec => []LInv BY LedgerUnderWindow, PTL
  <1> QED BY <1>1, <1>2, LockedAtFirst, PTL DEF WSpec

(* The tab at the front and the count say what the vault says, and the       *)
(* alerts button at Home, after any write from a tab, a dialog or the        *)
(* wizard; a late answer alone leaves them behind (MainWindow._on_tab_       *)
(* changed, refresh_after_statement_change, build_workspace).                *)
THEOREM ScreenIsCurrent == WSpec => []ScreenFollowsVault
  BY WindowKeeps, PTL DEF WInv

(* A write hits the rows the owner clicked on, whatever the table was sorted *)
(* by and however often it was refilled, and takes as many transactions as   *)
(* the question said (selected_index of the tabs, fill_guard,                *)
(* delete_preview_many).                                                     *)
THEOREM WritesHit == WSpec => []HitsWhatWasPicked
  <1>1. WInv => HitsWhatWasPicked BY DEF WInv, HitsWhatWasPicked
  <1> QED BY <1>1, WindowKeeps, PTL

-----------------------------------------------------------------------------
(* How deep the tree is.                                                     *)

(* What is above a category is above its parent, but for itself.             *)
LEMMA ParentAbove ==
    ASSUME NEW cats, Tree(cats), NEW e \in DOMAIN cats, cats[e].parent # None
    PROVE  /\ cats[e].parent \in DOMAIN cats
           /\ Above(cats, e) \subseteq {e} \cup Above(cats, cats[e].parent)
  <1>1. Ids(DOMAIN cats) /\ UpClosed(cats, DOMAIN cats) BY DEF Tree, Table
  <1>2. PICK q : q = cats[e].parent OBVIOUS
  <1>3. q \in DOMAIN cats BY <1>1, <1>2 DEF UpClosed
  <1>4. PICK Q : Q = Above(cats, q) OBVIOUS
  <1>5. q \in Q /\ UpClosed(cats, Q) BY <1>1, <1>3, <1>4, AboveFacts
  <1>6. UpClosed(cats, {e} \cup Q) BY <1>2, <1>5 DEF UpClosed
  <1>7. Above(cats, e) \subseteq {e} \cup Q BY <1>1, <1>6, AboveFacts
  <1> QED BY <1>2, <1>3, <1>4, <1>7

(* No two categories are above each other.                                   *)
LEMMA NoCycle ==
    ASSUME NEW cats, Tree(cats), NEW c \in DOMAIN cats, NEW e \in Above(cats, c),
           c \in Above(cats, e)
    PROVE  e = c
  <1> SUFFICES ASSUME e # c PROVE FALSE OBVIOUS
  <1>1. Ids(DOMAIN cats) /\ UpClosed(cats, DOMAIN cats) BY DEF Tree, Table
  <1>2. PICK A : A = Above(cats, c) OBVIOUS
  <1>3. /\ c \in A /\ A \subseteq DOMAIN cats /\ UpClosed(cats, A)
        /\ \A S : c \in S /\ UpClosed(cats, S) => A \subseteq S
    BY <1>1, <1>2, AboveFacts
  <1>4. PICK T : T = {x \in A : c \in Above(cats, x)} OBVIOUS
  <1>5. ASSUME NEW x \in T, x # c PROVE cats[x].parent # None => cats[x].parent \in T
    <2> SUFFICES ASSUME cats[x].parent # None PROVE cats[x].parent \in T OBVIOUS
    <2>1. x \in DOMAIN cats /\ cats[x].parent \in A BY <1>3, <1>4 DEF UpClosed
    <2>2. c \in Above(cats, cats[x].parent) BY <1>4, <1>5, <2>1, ParentAbove
    <2> QED BY <1>4, <2>1, <2>2
  <1>6. cats[c].parent # None BY <1>2, <1>3, AboveRoot
  <1>7. cats[c].parent \in T
    <2>1. PICK q : q = cats[c].parent OBVIOUS
    <2>2. q \in DOMAIN cats /\ q \in A /\ e \in Above(cats, q)
      BY <1>3, <1>6, <2>1, ParentAbove DEF UpClosed
    <2>3. PICK Q : Q = Above(cats, q) OBVIOUS
    <2>4. UpClosed(cats, Q) /\ e \in Q BY <1>1, <2>2, <2>3, AboveFacts
    <2>5. e \in DOMAIN cats BY <1>2, <1>3
    <2>6. Above(cats, e) \subseteq Q BY <1>1, <2>4, <2>5, AboveFacts
    <2> QED BY <1>4, <2>1, <2>2, <2>3, <2>6
  <1>8. UpClosed(cats, T) BY <1>5, <1>7 DEF UpClosed
  <1>9. c \in T BY <1>2, <1>3, <1>4
  <1>10. A \subseteq T BY <1>3, <1>8, <1>9
  <1>11. PICK r \in Roots : r \in A BY <1>2 DEF Tree, UnderOneType
  <1>12. r \in DOMAIN cats /\ Above(cats, r) = {r} /\ cats[r].parent = None
    BY <1>3, <1>11, AboveRoot DEF Tree
  <1>13. c \in {r} BY <1>4, <1>10, <1>11, <1>12
  <1> QED BY <1>6, <1>12, <1>13

(* A category is no deeper than a set it is in, closed upwards, is large.    *)
LEMMA DepthAtMost ==
    ASSUME NEW cats, Tree(cats), NEW c \in DOMAIN cats, NEW S, c \in S, UpClosed(cats, S),
           IsFiniteSet(S)
    PROVE  Depth(cats, c) <= Cardinality(S)
  <1>1. Ids(DOMAIN cats) /\ UpClosed(cats, DOMAIN cats) BY DEF Tree, Table
  <1>2. Above(cats, c) \subseteq S BY <1>1, AboveFacts
  <1> QED BY <1>2, FS_Subset DEF Depth

(* Depths are numbers.                                                       *)
LEMMA DepthFacts ==
    ASSUME NEW cats, Tree(cats), NEW c \in DOMAIN cats
    PROVE  /\ IsFiniteSet(Above(cats, c)) /\ Depth(cats, c) \in Nat
           /\ c \in Above(cats, c) /\ Above(cats, c) \subseteq DOMAIN cats
           /\ UpClosed(cats, Above(cats, c))
  <1>1. Ids(DOMAIN cats) /\ UpClosed(cats, DOMAIN cats) BY DEF Tree, Table
  <1>2. Above(cats, c) \subseteq DOMAIN cats BY <1>1, AboveFacts
  <1>3. IsFiniteSet(Above(cats, c)) BY <1>1, <1>2, FS_Subset DEF Ids
  <1> QED BY <1>1, <1>3, AboveFacts, FS_CardinalityType DEF Depth

\* No category is deeper than three levels that was not as deep before.
Shallow(cats, new) ==
    \A c \in DOMAIN new : \/ Depth(new, c) <= Levels
                          \/ c \in DOMAIN cats /\ Depth(new, c) <= Depth(cats, c)

(* Added under one that is not at the last level.                            *)
LEMMA AddStaysShallow ==
    ASSUME NEW cats, Tree(cats), NEW new, Tree(new), NEW p \in DOMAIN cats, NEW id,
           id \notin DOMAIN cats, Depth(cats, p) < Levels,
           DOMAIN new = DOMAIN cats \cup {id}, new[id].parent = p,
           \A d \in DOMAIN cats : new[d] = cats[d]
    PROVE  Shallow(cats, new)
  <1>1. ASSUME NEW d \in DOMAIN cats PROVE Depth(new, d) <= Depth(cats, d)
    <2>1. PICK A : A = Above(cats, d) OBVIOUS
    <2>2. IsFiniteSet(A) /\ d \in A /\ A \subseteq DOMAIN cats /\ UpClosed(cats, A)
      BY <2>1, DepthFacts
    <2>3. UpClosed(new, A) /\ d \in DOMAIN new BY <2>2 DEF UpClosed
    <2> QED BY <2>1, <2>2, <2>3, DepthAtMost DEF Depth
  <1>2. Depth(new, id) <= Levels
    <2>1. PICK A : A = Above(cats, p) OBVIOUS
    <2>2. IsFiniteSet(A) /\ p \in A /\ A \subseteq DOMAIN cats /\ UpClosed(cats, A)
      BY <2>1, DepthFacts
    <2>3. UpClosed(new, A \cup {id}) /\ id \in DOMAIN new BY <2>2 DEF UpClosed
    <2>4. /\ IsFiniteSet(A \cup {id}) /\ id \notin A
          /\ Cardinality(A \cup {id}) = Cardinality(A) + 1
      BY <2>2, FS_AddElement
    <2>5. Depth(new, id) <= Cardinality(A) + 1 BY <2>3, <2>4, DepthAtMost
    <2>6. Depth(new, id) \in Nat /\ Cardinality(A) \in Nat BY <2>2, <2>3, DepthFacts, FS_CardinalityType
    <2> QED BY <2>1, <2>5, <2>6 DEF Depth, Levels
  <1> QED BY <1>1, <1>2 DEF Shallow

(* Taken away, with nothing under it.                                        *)
LEMMA DeleteStaysShallow ==
    ASSUME NEW cats, Tree(cats), NEW new, Tree(new), NEW c, \A d \in DOMAIN cats : cats[d].parent # c,
           DOMAIN new = DOMAIN cats \ {c}, \A d \in DOMAIN new : new[d] = cats[d]
    PROVE  Shallow(cats, new)
  <1>1. ASSUME NEW d \in DOMAIN new PROVE Depth(new, d) <= Depth(cats, d)
    <2>1. PICK A : A = Above(cats, d) OBVIOUS
    <2>2. IsFiniteSet(A) /\ d \in A /\ A \subseteq DOMAIN cats /\ UpClosed(cats, A)
      BY <2>1, DepthFacts
    <2>3. PICK B : B = A \ {c} OBVIOUS
    <2>4. UpClosed(new, B) /\ d \in B BY <2>2, <2>3 DEF UpClosed
    <2>5. IsFiniteSet(B) /\ Cardinality(B) <= Cardinality(A) BY <2>2, <2>3, FS_Subset
    <2>6. Depth(new, d) <= Cardinality(B) BY <2>4, <2>5, DepthAtMost
    <2>7. Depth(new, d) \in Nat /\ Cardinality(A) \in Nat /\ Cardinality(B) \in Nat
      BY <2>2, <2>5, DepthFacts, FS_CardinalityType
    <2> QED BY <2>1, <2>5, <2>6, <2>7 DEF Depth
  <1> QED BY <1>1 DEF Shallow

(* Moved where it fits, all that is under it included, or renamed in place.  *)
LEMMA MoveStaysShallow ==
    ASSUME NEW cats, Tree(cats), NEW new, Tree(new), NEW c \in DOMAIN cats, NEW p \in DOMAIN cats,
           c \notin Above(cats, p),
           DOMAIN new = DOMAIN cats, new[c].parent = p, \A d \in DOMAIN cats \ {c} : new[d] = cats[d],
           \/ p = cats[c].parent
           \/ \A d \in DOMAIN cats : c \in Above(cats, d) =>
                 Depth(cats, p) + 1 + (Depth(cats, d) - Depth(cats, c)) <= Levels
    PROVE  Shallow(cats, new)
  <1>1. PICK P : P = Above(cats, p) OBVIOUS
  <1>2. IsFiniteSet(P) /\ p \in P /\ P \subseteq DOMAIN cats /\ UpClosed(cats, P)
    BY <1>1, DepthFacts
  <1>3. PICK C : C = Above(cats, c) OBVIOUS
  <1>4. IsFiniteSet(C) /\ c \in C /\ C \subseteq DOMAIN cats /\ UpClosed(cats, C)
    BY <1>3, DepthFacts
  <1>5. ASSUME NEW d \in DOMAIN cats
        PROVE  \/ Depth(new, d) <= Levels
               \/ Depth(new, d) <= Depth(cats, d)
    <2>1. PICK A : A = Above(cats, d) OBVIOUS
    <2>2. IsFiniteSet(A) /\ d \in A /\ A \subseteq DOMAIN cats /\ UpClosed(cats, A)
      BY <2>1, DepthFacts
    <2>3. CASE UpClosed(new, A) BY <2>1, <2>2, <2>3, DepthAtMost DEF Depth
    <2>4. CASE ~UpClosed(new, A)
      <3>1. c \in A /\ p # cats[c].parent BY <2>2, <2>4 DEF UpClosed
      <3>2. Depth(cats, p) + 1 + (Depth(cats, d) - Depth(cats, c)) <= Levels BY <2>1, <3>1
      <3>3. PICK below : below = {e \in A : c \in Above(cats, e)} OBVIOUS
      <3>4. ASSUME NEW e \in below PROVE new[e].parent # None => new[e].parent \in below \cup P
        <4>1. e \in DOMAIN cats BY <2>2, <3>3
        <4>2. CASE e = c BY <1>2, <4>2
        <4>3. CASE e # c
          <5> SUFFICES ASSUME cats[e].parent # None PROVE cats[e].parent \in below
            BY <4>1, <4>3
          <5>1. cats[e].parent \in A BY <2>2, <3>3 DEF UpClosed
          <5>2. c \in Above(cats, cats[e].parent) BY <3>3, <4>1, <4>3, ParentAbove
          <5> QED BY <3>3, <5>1, <5>2
        <4> QED BY <4>2, <4>3
      <3>5. UpClosed(new, below \cup P)
        <4>1. \A e \in P : new[e] = cats[e] BY <1>1, <1>2
        <4> QED BY <1>2, <3>4, <4>1 DEF UpClosed
      <3>6. d \in below BY <2>1, <2>2, <3>1, <3>3
      <3>7. IsFiniteSet(below) BY <2>2, <3>3, FS_Subset
      <3>8. IsFiniteSet(below \cup P) /\ Cardinality(below \cup P) <= Cardinality(below) + Cardinality(P)
        <4>1. IsFiniteSet(below \cap P) BY <3>7, FS_Intersection
        <4>2. Cardinality(below \cap P) \in Nat BY <4>1, FS_CardinalityType
        <4>3. Cardinality(below) \in Nat /\ Cardinality(P) \in Nat BY <1>2, <3>7, FS_CardinalityType
        <4>4. /\ IsFiniteSet(below \cup P)
              /\ Cardinality(below \cup P) = Cardinality(below) + Cardinality(P) - Cardinality(below \cap P)
          BY <1>2, <3>7, FS_Union
        <4> QED BY ONLY <4>2, <4>3, <4>4
      <3>9. Depth(new, d) <= Cardinality(below \cup P) BY <3>5, <3>6, <3>8, DepthAtMost
      <3>10. below \cap C = {c}
        <4>1. c \in below BY <1>3, <1>4, <3>1, <3>3
        <4>2. \A e \in below \cap C : e = c BY <1>3, <3>3, NoCycle
        <4> QED BY <1>4, <4>1, <4>2
      <3>11. C \subseteq A
        <4>1. Ids(DOMAIN cats) /\ UpClosed(cats, DOMAIN cats) BY DEF Tree, Table
        <4> QED BY <1>3, <2>2, <3>1, <4>1, AboveFacts
      <3>12. below \cup C \subseteq A BY <3>3, <3>11
      <3>13. Cardinality(below \cup C) <= Cardinality(A) BY <2>2, <3>12, FS_Subset
      <3>14. Cardinality(below \cup C) = Cardinality(below) + Cardinality(C) - Cardinality(below \cap C)
        BY <1>4, <3>7, FS_Union
      <3>15. Cardinality(below \cap C) = 1 BY <3>10, FS_Singleton
      <3>16. /\ Cardinality(below) \in Nat /\ Cardinality(P) \in Nat /\ Cardinality(C) \in Nat
             /\ Cardinality(A) \in Nat /\ Cardinality(below \cup P) \in Nat /\ Depth(new, d) \in Nat
        BY <1>2, <1>4, <2>2, <3>7, <3>8, FS_CardinalityType, DepthFacts
      <3>17. /\ Depth(cats, p) = Cardinality(P) /\ Depth(cats, d) = Cardinality(A)
             /\ Depth(cats, c) = Cardinality(C)
        BY <1>1, <1>3, <2>1 DEF Depth
      <3> QED BY ONLY <3>2, <3>8, <3>9, <3>13, <3>14, <3>15, <3>16, <3>17 DEF Levels
    <2> QED BY <2>3, <2>4
  <1> QED BY <1>5 DEF Shallow

(* What Move under offers has room for all that is under the category.       *)
LEMMA OfferedFits ==
    ASSUME Tree(categories), NEW c \in DOMAIN categories, NEW p \in move_under(c),
           NEW d \in DOMAIN categories, c \in Above(categories, d)
    PROVE  Depth(categories, p) + 1 + (Depth(categories, d) - Depth(categories, c)) <= Levels
  <1>1. PICK f : f = [e \in Subtree(c) |-> Depth(categories, e)] OBVIOUS
  <1>2. PICK depths : depths = {Depth(categories, e) : e \in Subtree(c)} OBVIOUS
  <1>3. depths = {f[e] : e \in DOMAIN f} BY <1>1, <1>2
  <1>4. IsFiniteSet(DOMAIN categories) BY DEF Tree, Table, Ids
  <1>5. IsFiniteSet(Subtree(c)) BY <1>4, FS_Subset DEF Subtree
  <1>6. IsFiniteSet(DOMAIN f) BY <1>1, <1>5
  <1>7. IsFiniteSet(depths) BY <1>3, <1>6, FiniteImage
  <1>8. \A e \in Subtree(c) : Depth(categories, e) \in Nat BY DepthFacts DEF Subtree
  <1>9. depths \in SUBSET Int BY <1>2, <1>8
  <1>10. d \in Subtree(c) BY DEF Subtree
  <1>11. Depth(categories, d) \in depths BY <1>2, <1>10
  <1>12. Max(depths) \in depths /\ Depth(categories, d) <= Max(depths)
    BY <1>7, <1>9, <1>11, MaxFacts
  <1>13. Max(depths) \in Int BY <1>9, <1>12
  <1>14. Depth(categories, p) + 1 + (Max(depths) - Depth(categories, c)) <= Levels
    BY <1>2 DEF move_under, subtree_height
  <1>15. p \in DOMAIN categories BY DEF move_under
  <1>16. /\ Depth(categories, p) \in Nat /\ Depth(categories, c) \in Nat
         /\ Depth(categories, d) \in Nat
    BY <1>15, DepthFacts
  <1> QED BY ONLY <1>12, <1>13, <1>14, <1>16 DEF Levels

(* A tree left alone is no deeper.                                           *)
LEMMA SameDepth == ASSUME NEW cats, Tree(cats) PROVE Shallow(cats, cats)
  <1>1. \A c \in DOMAIN cats : Depth(cats, c) \in Nat BY DepthFacts
  <1> QED BY <1>1 DEF Shallow

(* The steps of the window that touch the tree.                              *)
LEMMA TreeSteps ==
    ASSUME [WNext]_wvars
    PROVE  \/ UNCHANGED categories
           \/ \E c \in DOMAIN categories, n \in CategoryNames : on_add_category(c, n)
           \/ \E c, p \in DOMAIN categories, touched \in BOOLEAN :
                 \E n \in CategoryNames \cup {categories[c].name} :
                    on_update_category(c, n, p, touched)
           \/ \E c \in DOMAIN categories : DeleteCategory(c)
  <1>1. CASE UNCHANGED wvars BY <1>1 DEF wvars, vars
  <1>2. ASSUME NEW tab \in Tabs, OpenTab(tab) \/ ensure_workspace(tab) \/ enter_unlocked(tab)
        PROVE  UNCHANGED categories
    BY <1>2 DEF OpenTab, ensure_workspace, enter_unlocked, Quiet, vars
  <1>3. ASSUME NEW list, NEW row, Click(list, row) PROVE UNCHANGED categories
    BY <1>3 DEF Click, Quiet, vars
  <1>4. CASE Sort \/ ToggleReveal \/ on_reveal_timeout \/ open_import \/ on_import_done
    BY <1>4 DEF Sort, ToggleReveal, on_reveal_timeout, on_reveal_toggled, open_import,
                on_import_done, Quiet, vars
  <1>5. CASE BoxGoes \/ Lock \/ CancelUnlock \/ ShowUnlock
    BY <1>5 DEF BoxGoes, Lock, CancelUnlock, ShowUnlock, Quiet, vars
  <1>6. ASSUME NEW n, on_add(n) PROVE UNCHANGED categories BY <1>6 DEF on_add, AddAccount
  <1>7. ASSUME NEW a, NEW n, on_update(a, n) PROVE UNCHANGED categories
    BY <1>7 DEF on_update, UpdateAccount
  <1>8. ASSUME NEW a, AskAboutAccount(a) \/ AskAboutCategory(a) PROVE UNCHANGED categories
    BY <1>8 DEF AskAboutAccount, AskAboutCategory, Ask, Quiet, vars
  <1>9. CASE on_delete \/ on_delete_all
    BY <1>9 DEF on_delete, on_delete_all, AskAboutStatements, Ask, Quiet, vars
  <1>10. ASSUME NEW x, NEW c, AddRuleFromTab(x, c) \/ apply_learned_rule(x, c)
         PROVE  UNCHANGED categories
    BY <1>10 DEF AddRuleFromTab, apply_learned_rule, AddRule, LearnRule, catVars
  <1>11. ASSUME NEW r, NEW x, NEW c, on_edit(r, x, c) PROVE UNCHANGED categories
    BY <1>11 DEF on_edit, UpdateRule
  <1>12. ASSUME NEW r, on_delete_rule(r) PROVE UNCHANGED categories
    BY <1>12 DEF on_delete_rule, DeleteRule
  <1>13. ASSUME NEW r, NEW q, on_move(r, q) PROVE UNCHANGED categories
    BY <1>13 DEF on_move, MoveRule
  <1>14. CASE on_apply BY <1>14 DEF on_apply, ApplyRules, catVars
  <1>15. ASSUME NEW t, NEW c, apply_category(t, c) PROVE UNCHANGED categories
    BY <1>15 DEF apply_category, SetManualCategory, catVars
  <1>16. ASSUME NEW p, NEW a, apply_reassign(p, a) PROVE UNCHANGED categories
    BY <1>16 DEF apply_reassign, ReassignAccount, catVars
  <1>17. CASE on_confirm \/ on_reject \/ on_confirm_all
    BY <1>17 DEF on_confirm, on_reject, on_confirm_all, ConfirmMany, RejectMany, Decide, catVars
  <1>18. ASSUME NEW x, on_unlink(x) PROVE UNCHANGED categories
    BY <1>18 DEF on_unlink, Unlink, catVars
  <1>19. ASSUME NEW d, DecideStream(d) PROVE UNCHANGED categories BY <1>19 DEF DecideStream, vars
  <1>20. CASE on_alerts_changed BY <1>20 DEF on_alerts_changed, vars
  <1>21. ASSUME NEW a, NEW d, on_manual_committed(a, d) PROVE UNCHANGED categories
    BY <1>21 DEF on_manual_committed, AddTransaction, catVars
  <1>22. ASSUME NEW on, on_settings_saved(on) PROVE UNCHANGED categories
    BY <1>22 DEF on_settings_saved, SetLibraryEnabled
  <1>23. ASSUME NEW f, NEW a, WizardCommits(f, a) PROVE UNCHANGED categories
    BY <1>23 DEF WizardCommits, CommitImport, catVars
  <1>24. ASSUME DoIt
         PROVE  UNCHANGED categories \/ \E c \in DOMAIN categories : DeleteCategory(c)
    <2>1. ASSUME NEW c, DeleteCategory(c) PROVE c \in DOMAIN categories
      BY <2>1 DEF DeleteCategory, Leaf
    <2> QED BY <1>24, <2>1 DEF DoIt, DeleteAccount, DeleteStatements, vars
  <1>25. CASE AnswerYes \/ AnswerLate BY <1>24, <1>25 DEF AnswerYes, AnswerLate
  <1> QED
    BY <1>1, <1>2, <1>3, <1>4, <1>5, <1>6, <1>7, <1>8, <1>9, <1>10, <1>11, <1>12, <1>13, <1>14,
       <1>15, <1>16, <1>17, <1>18, <1>19, <1>20, <1>21, <1>22, <1>23, <1>25 DEF WNext

(* Over a step of the window the tree stays shallow.                         *)
LEMMA ShallowStep ==
    ASSUME FInv, FInv', LInv, [WNext]_wvars
    PROVE  Shallow(categories, categories')
  <1>1. PICK cats, new : cats = categories /\ new = categories' OBVIOUS
  <1>2. Tree(cats) /\ Tree(new) BY <1>1 DEF FInv
  <1>3. CASE UNCHANGED categories
    <2>1. new = cats BY <1>1, <1>3
    <2> QED BY <1>1, <1>2, <2>1, SameDepth
  <1>4. ASSUME NEW c \in DOMAIN categories, NEW n \in CategoryNames, on_add_category(c, n)
        PROVE  Shallow(categories, categories')
    <2>1. PICK id : id = NewId(cats) OBVIOUS
    <2>2. AddCategory(c, n) /\ Depth(cats, c) < Levels BY <1>1, <1>4 DEF on_add_category
    <2>3. id \notin DOMAIN cats BY <1>2, <2>1, NewIdFacts DEF Tree, Table
    <2>4. /\ DOMAIN new = DOMAIN cats \cup {id} /\ new[id].parent = c
          /\ \A d \in DOMAIN cats : new[d] = cats[d]
      BY <1>1, <2>1, <2>2, <2>3 DEF AddCategory, Put
    <2>5. c \in DOMAIN cats BY <1>1
    <2>6. Shallow(cats, new) BY <1>2, <2>2, <2>3, <2>4, <2>5, AddStaysShallow
    <2> QED BY <1>1, <2>6
  <1>5. ASSUME NEW c \in DOMAIN categories, NEW p \in DOMAIN categories, NEW touched \in BOOLEAN,
               NEW n \in CategoryNames \cup {categories[c].name},
               on_update_category(c, n, p, touched)
        PROVE  Shallow(categories, categories')
    <2>1. UpdateCategory(c, n, p) BY <1>5 DEF on_update_category
    <2>2. /\ DOMAIN new = DOMAIN cats /\ new[c].parent = p /\ c \notin Above(cats, p)
          /\ \A d \in DOMAIN cats \ {c} : new[d] = cats[d]
      BY <1>1, <2>1 DEF UpdateCategory
    <2>3. p \in move_under(c) \/ p = categories[c].parent
      BY <1>5 DEF on_update_category, preselected
    <2>4. \/ p = cats[c].parent
          \/ \A d \in DOMAIN cats : c \in Above(cats, d) =>
                Depth(cats, p) + 1 + (Depth(cats, d) - Depth(cats, c)) <= Levels
      BY <1>1, <1>2, <2>3, OfferedFits
    <2>5. c \in DOMAIN cats /\ p \in DOMAIN cats BY <1>1
    <2>6. Shallow(cats, new) BY ONLY <1>2, <2>2, <2>4, <2>5, MoveStaysShallow
    <2> QED BY <1>1, <2>6
  <1>6. ASSUME NEW c \in DOMAIN categories, DeleteCategory(c)
        PROVE  Shallow(categories, categories')
    <2>1. \A d \in DOMAIN cats : cats[d].parent # c BY <1>1, <1>6 DEF DeleteCategory, Childless
    <2>2. DOMAIN new = DOMAIN cats \ {c} /\ \A d \in DOMAIN new : new[d] = cats[d]
      BY <1>1, <1>6 DEF DeleteCategory, Without, Restrict
    <2>3. Shallow(cats, new) BY <1>2, <2>1, <2>2, DeleteStaysShallow
    <2> QED BY <1>1, <2>3
  <1> QED BY <1>3, <1>4, <1>5, <1>6, TreeSteps

(* No category gets deeper than three levels by what the tree, its editor    *)
(* and its Move under box offer, nor does one that is deeper, in a vault     *)
(* that came so, sink further (ui/categories.py).                            *)
THEOREM TreeIsShallow == WSpec => TreeStaysShallow
  <1>1. LInv /\ FInv /\ FInv' /\ [WNext]_wvars => [Shallow(categories, categories')]_wvars
    BY ShallowStep
  <1>2. WSpec => [][Shallow(categories, categories')]_wvars
    BY <1>1, LedgerUnderWindow, PTL DEF WSpec
  <1> QED BY <1>2 DEF TreeStaysShallow, Shallow
=============================================================================
