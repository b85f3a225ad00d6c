---------------------------- MODULE HouseholdProofs ----------------------------
(***************************************************************************)
(* The figures of the dashboard, for any household, tree of categories,     *)
(* accounts and dates, and any order of statements, losses, answers and     *)
(* departures from routine.                                                 *)
(*                                                                          *)
(* A figure is a sum over rows. MapThenSumSet folds in an order CHOOSE      *)
(* gives; the first part proves that the order is nothing: a sum is that of *)
(* its parts, taken in any way (SumParts). The tiles, the donut, the        *)
(* drill-down, the trend and the summary then agree because each cuts the   *)
(* same rows into parts. The drill-down walks the tree from the tops down,  *)
(* and a row is under one top, however deep the tree (CategoryBranch).      *)
(*                                                                          *)
(* The invariant, HInv, is what the balances need: the vault's rows are the *)
(* bank's, and a closing balance is the bank's on its day, then and ever    *)
(* after (ClosingsAreTrue), since what days bring is of later days          *)
(* (PlusDays, over the real calendar).                                      *)
(*                                                                          *)
(* The last parts are about bills. The days a bill falls due on are its     *)
(* beat (Beat); three or more of them have the cadence that projects the    *)
(* next ones (CadenceIsTheBeat, with the last day of a month too short).    *)
(* What the program forecasts of a bill, and what it says was missed, is    *)
(* then what the bank will take and what it failed to. That is of ordinary  *)
(* bills only (OrdinaryBills, BillsAreNotTransfers): a bill every twenty    *)
(* days has no cadence, and a purchase under a bill's text is of its stream.*)
(*                                                                          *)
(* The month summary and the spike alert compare months.  Bills weigh the   *)
(* same in each month (Load), up to a day short of every month's end, so    *)
(* what makes two months differ is of no bill (MonthAgainstMean).           *)
(***************************************************************************)
EXTENDS Household, FiniteSetTheorems, WellFoundedInduction, TLAPS

-----------------------------------------------------------------------------
(* Finite sets and their sums.                                               *)

(* A family of subsets of a finite set has a minimal member.                 *)
LEMMA FiniteSetMinimal ==
  ASSUME NEW S, IsFiniteSet(S), NEW F \in SUBSET SUBSET S, F # {}
  PROVE  \E T \in F : \A U \in F : U \subseteq T => U = T
<1> DEFINE R == StrictSubsetOrdering(S)
<1>1. IsWellFoundedOn(R, FiniteSubsetsOf(S)) BY FS_StrictSubsetOrderingWellFounded
<1>2. F \subseteq FiniteSubsetsOf(S) BY FS_Subset DEF FiniteSubsetsOf
<1>3. PICK T \in F : \A U \in F : <<U, T>> \notin R
  <2> HIDE DEF R
  <2> QED BY <1>1, <1>2, WFMin
<1> QED BY <1>2, <1>3 DEF StrictSubsetOrdering

(* Induction over the naturals, of a set in place of a predicate.            *)
LEMMA NatSetInduction ==
  ASSUME NEW S \in SUBSET Nat, 0 \in S, \A n \in S : n + 1 \in S
  PROVE  S = Nat
<1> SUFFICES ASSUME NEW n \in Nat, n \notin S PROVE FALSE OBVIOUS
<1> DEFINE F == {0..m : m \in {m \in Nat : m \notin S /\ m <= n}}
<1>1. IsFiniteSet(0..n) BY FS_Interval
<1>2. F \in SUBSET SUBSET (0..n) /\ F # {} OBVIOUS
<1>3. PICK T \in F : \A U \in F : U \subseteq T => U = T
  <2> HIDE DEF F
  <2>1. PICK I : I = 0..n OBVIOUS
  <2>2. IsFiniteSet(I) /\ F \in SUBSET SUBSET I /\ F # {} BY <1>1, <1>2, <2>1
  <2>3. \E T \in F : \A U \in F : U \subseteq T => U = T
    <3> HIDE <2>1
    <3> QED BY <2>2, FiniteSetMinimal
  <2> QED BY <2>3
<1>4. PICK m \in Nat : m \notin S /\ m <= n /\ T = 0..m BY <1>3
<1>5. m # 0 /\ m - 1 \in Nat BY <1>4
<1>6. m - 1 \notin S
  <2>1. (m - 1) + 1 = m BY <1>5
  <2> QED BY <1>4, <2>1
<1>7. 0..(m - 1) \in F BY <1>4, <1>5, <1>6
<1>8. 0..(m - 1) \subseteq T /\ m \in T /\ m \notin 0..(m - 1) BY <1>4, <1>5
<1> QED BY <1>3, <1>7, <1>8

(* The image of a finite set is finite.                                      *)
LEMMA FiniteImage ==
  ASSUME NEW f, IsFiniteSet(DOMAIN f)
  PROVE  IsFiniteSet({f[x] : x \in DOMAIN f})
<1> DEFINE T == {f[x] : x \in DOMAIN f}
           g == [x \in DOMAIN f |-> f[x]]
<1>1. g \in Surjection(DOMAIN f, T) BY DEF Surjection
<1> QED BY <1>1, FS_Surjection

(* A finite set of integers has a smallest element.                          *)
LEMMA LeastInt ==
  ASSUME NEW S, IsFiniteSet(S), S # {}, \A x \in S : x \in Int
  PROVE  \E m \in S : \A y \in S : m <= y
<1> DEFINE Down(x) == {y \in S : y <= x}
<1>1. PICK F : F = {Down(x) : x \in S} OBVIOUS
<1>2. F \in SUBSET SUBSET S /\ F # {}
  <2>1. \A x \in S : Down(x) \in SUBSET S OBVIOUS
  <2> HIDE DEF Down
  <2> QED BY <1>1, <2>1
<1>3. PICK T \in F : \A U \in F : U \subseteq T => U = T
  <2> HIDE DEF Down
  <2>1. IsFiniteSet(S) OBVIOUS
  <2> QED BY ONLY <1>2, <2>1, FiniteSetMinimal
<1>4. PICK m \in S : T = Down(m) BY <1>1, <1>3
<1>5. ASSUME NEW y \in S PROVE m <= y
  <2> SUFFICES ASSUME ~(m <= y) PROVE FALSE OBVIOUS
  <2>1. m \in Int /\ y \in Int OBVIOUS
  <2>2. y < m BY <2>1
  <2>3. ASSUME NEW w \in Down(y) PROVE w \in Down(m)
    <3>1. w \in S /\ w \in Int /\ w <= y OBVIOUS
    <3>2. w <= m BY <2>1, <2>2, <3>1
    <3> QED BY <3>1, <3>2
  <2>4. m \in Down(m) /\ m \notin Down(y) BY <2>1, <2>2
  <2>5. Down(y) \in F BY <1>1
  <2> HIDE DEF Down
  <2> QED BY <1>3, <1>4, <2>3, <2>4, <2>5
<1> QED BY <1>5

(* ... and a largest one.                                                    *)
LEMMA GreatestInt ==
  ASSUME NEW S, IsFiniteSet(S), S # {}, \A x \in S : x \in Int
  PROVE  \E m \in S : \A y \in S : y <= m
<1> DEFINE Up(x) == {y \in S : x <= y}
<1>1. PICK F : F = {Up(x) : x \in S} OBVIOUS
<1>2. F \in SUBSET SUBSET S /\ F # {}
  <2>1. \A x \in S : Up(x) \in SUBSET S OBVIOUS
  <2> HIDE DEF Up
  <2> QED BY <1>1, <2>1
<1>3. PICK T \in F : \A U \in F : U \subseteq T => U = T
  <2> HIDE DEF Up
  <2>1. IsFiniteSet(S) OBVIOUS
  <2> QED BY ONLY <1>2, <2>1, FiniteSetMinimal
<1>4. PICK m \in S : T = Up(m) BY <1>1, <1>3
<1>5. ASSUME NEW y \in S PROVE y <= m
  <2> SUFFICES ASSUME ~(y <= m) PROVE FALSE OBVIOUS
  <2>1. m \in Int /\ y \in Int OBVIOUS
  <2>2. m < y BY <2>1
  <2>3. ASSUME NEW w \in Up(y) PROVE w \in Up(m)
    <3>1. w \in S /\ w \in Int /\ y <= w OBVIOUS
    <3>2. m <= w BY <2>1, <2>2, <3>1
    <3> QED BY <3>1, <3>2
  <2>4. m \in Up(m) /\ m \notin Up(y) BY <2>1, <2>2
  <2>5. Up(y) \in F BY <1>1
  <2> HIDE DEF Up
  <2> QED BY <1>3, <1>4, <2>3, <2>4, <2>5
<1> QED BY <1>5

(* The sum of f over a finite set, as MapThenSumSet computes it.             *)
Sum(f, S) == MapThenSumSet(LAMBDA k : f[k], S)
(* The element the fold takes next, and the iteration the fold is.           *)
SomeOf(s) == CHOOSE x \in s : TRUE
IsIter(it, f, S) == it = [s \in SUBSET S |-> IF s = {} THEN 0 ELSE f[SomeOf(s)] + it[s \ {SomeOf(s)}]]

(* Sum is a function the sum of each subset comes from.                    *)
LEMMA SumIs ==
  ASSUME NEW f, NEW S
  PROVE Sum(f, S) = (CHOOSE it : IsIter(it, f, S))[S]
BY DEF Sum, MapThenSumSet, MapThenFoldSet, IsIter, SomeOf

(* CHOOSE takes an element.                                                  *)
LEMMA SomeOfIn == ASSUME NEW s, s # {} PROVE SomeOf(s) \in s
BY DEF SomeOf

(* Two such functions agree.                                                 *)
LEMMA IterUnique ==
  ASSUME NEW f, NEW S, NEW T, IsFiniteSet(S), NEW i, NEW j, IsIter(i, f, S), IsIter(j, f, T)
  PROVE  \A s \in SUBSET (S \cap T) : i[s] = j[s]
<1> DEFINE F == {s \in SUBSET (S \cap T) : i[s] # j[s]}
<1> SUFFICES ASSUME F # {} PROVE FALSE OBVIOUS
<1>1. F \in SUBSET SUBSET S OBVIOUS
<1>2. PICK s \in F : \A u \in F : u \subseteq s => u = s
  <2> HIDE DEF F
  <2> QED BY <1>1, FiniteSetMinimal
<1>3. s \in SUBSET S /\ s \in SUBSET T /\ i[s] # j[s] BY <1>2
<1>4. s # {} BY <1>3 DEF IsIter
<1>5. PICK c \in s : c = SomeOf(s) BY <1>4, SomeOfIn
<1>6. i[s] = f[c] + i[s \ {c}] BY <1>3, <1>4, <1>5 DEF IsIter
<1>7. j[s] = f[c] + j[s \ {c}] BY <1>3, <1>4, <1>5 DEF IsIter
<1>8. s \ {c} \in SUBSET (S \cap T) /\ s \ {c} # s /\ s \ {c} \subseteq s BY <1>3
<1>9. s \ {c} \notin F BY <1>2, <1>8
<1>10. i[s \ {c}] = j[s \ {c}] BY <1>8, <1>9
<1> QED BY <1>3, <1>6, <1>7, <1>10

(* There is such a function.                                                 *)
LEMMA IterExists ==
  ASSUME NEW f, NEW S, IsFiniteSet(S)
  PROVE  \E it : IsIter(it, f, S)
<1> DEFINE F == {s \in SUBSET S : ~ \E it : IsIter(it, f, s)}
<1> SUFFICES ASSUME F # {} PROVE FALSE OBVIOUS
<1>1. F \in SUBSET SUBSET S OBVIOUS
<1>2. PICK U \in F : \A u \in F : u \subseteq U => u = U
  <2> HIDE DEF F
  <2> QED BY <1>1, FiniteSetMinimal
<1> DEFINE own(s) == CHOOSE it : IsIter(it, f, s)
           at(s) == own(s)[s]
           value(s) == IF s = {} THEN 0 ELSE f[SomeOf(s)] + at(s \ {SomeOf(s)})
           it == [s \in SUBSET U |-> value(s)]
<1>3. \A s \in SUBSET U : s # U => IsIter(own(s), f, s)
  <2> TAKE s \in SUBSET U
  <2> HAVE s # U
  <2>1. s \notin F BY <1>2
  <2>2. s \in SUBSET S BY <1>2
  <2>3. \E h : IsIter(h, f, s) BY <2>1, <2>2
  <2> HIDE DEF IsIter
  <2> QED BY <2>3
<1>4. \A s \in SUBSET U : s # U => at(s) = value(s)
  <2> TAKE s \in SUBSET U
  <2> HAVE s # U
  <2>1. IsIter(own(s), f, s) BY <1>3
  <2>2. CASE s = {} 
    <3>1. own(s)[s] = 0 BY <2>1, <2>2 DEF IsIter
    <3> QED BY <3>1, <2>2
  <2>3. CASE s # {}
    <3>1. PICK c \in s : c = SomeOf(s) BY <2>3, SomeOfIn
    <3>2. PICK t : t = s \ {c} OBVIOUS
    <3>3. t \in SUBSET U /\ t # U /\ t \subseteq s BY <3>1, <3>2
    <3>4. IsIter(own(t), f, t) BY <1>3, <3>3
    <3>5. IsFiniteSet(s)
      <4>1. s \in SUBSET S BY <1>2
      <4> QED BY <4>1, FS_Subset
    <3>6. own(s)[t] = own(t)[t]
      <4> HIDE DEF own
      <4> QED BY <2>1, <3>3, <3>4, <3>5, IterUnique
    <3>7. own(s)[s] = f[c] + own(s)[t] BY <2>1, <2>3, <3>1, <3>2 DEF IsIter
    <3> QED BY <2>3, <3>1, <3>2, <3>6, <3>7
  <2> QED BY <2>2, <2>3
<1>5. IsIter(it, f, U)
  <2>1. \A s \in SUBSET U : it[s] = IF s = {} THEN 0 ELSE f[SomeOf(s)] + it[s \ {SomeOf(s)}]
    <3> TAKE s \in SUBSET U
    <3>1. CASE s = {} BY <3>1
    <3>2. CASE s # {}
      <4>1. PICK c \in s : c = SomeOf(s) BY <3>2, SomeOfIn
      <4>2. PICK t : t = s \ {c} OBVIOUS
      <4>3. t \in SUBSET U /\ t # U BY <4>1, <4>2
      <4>4. it[t] = at(t) 
        <5>1. it[t] = value(t) BY <4>3
        <5>2. at(t) = value(t) BY <1>4, <4>3
        <5> QED BY <5>1, <5>2
      <4>5. it[s] = f[c] + at(t) 
        <5> HIDE DEF at
        <5> QED BY <3>2, <4>1, <4>2
      <4> HIDE DEF it, at
      <4> QED BY <3>2, <4>1, <4>2, <4>4, <4>5
    <3> QED BY <3>1, <3>2
  <2>2. DOMAIN it = SUBSET U OBVIOUS
  <2>3. it = [s \in SUBSET U |-> it[s]] OBVIOUS
  <2> HIDE DEF it
  <2> QED BY <2>1, <2>3 DEF IsIter
<1>6. U \notin F
  <2> HIDE DEF it
  <2> QED BY <1>5
<1> QED BY <1>2, <1>6

(* The empty sum, and the sum of the rest and the chosen one.                *)
LEMMA SumRec ==
  ASSUME NEW f, NEW S, IsFiniteSet(S)
  PROVE  /\ Sum(f, {}) = 0
         /\ S # {} => Sum(f, S) = f[SomeOf(S)] + Sum(f, S \ {SomeOf(S)})
<1> DEFINE own(s) == CHOOSE it : IsIter(it, f, s)
<1>1. \A s \in SUBSET S : IsIter(own(s), f, s)
  <2> TAKE s \in SUBSET S
  <2>1. \E h : IsIter(h, f, s) BY FS_Subset, IterExists
  <2> HIDE DEF IsIter
  <2> QED BY <2>1
<1>2. \A s : Sum(f, s) = own(s)[s] BY SumIs
<1>3. Sum(f, {}) = 0 
  <2>1. IsIter(own({}), f, {}) BY <1>1
  <2>2. own({})[{}] = 0 BY <2>1 DEF IsIter
  <2> QED BY <2>2, <1>2
<1>4. ASSUME S # {} PROVE Sum(f, S) = f[SomeOf(S)] + Sum(f, S \ {SomeOf(S)})
  <2>1. PICK c \in S : c = SomeOf(S) BY <1>4, SomeOfIn
  <2>2. PICK t : t = S \ {c} OBVIOUS
  <2>3. t \in SUBSET S BY <2>2
  <2>4. own(S)[S] = f[c] + own(S)[t] 
    <3>1. IsIter(own(S), f, S) BY <1>1
    <3> QED BY <3>1, <1>4, <2>1, <2>2 DEF IsIter
  <2>5. own(S)[t] = own(t)[t]
    <3>1. IsIter(own(S), f, S) /\ IsIter(own(t), f, t) BY <1>1, <2>3
    <3> HIDE DEF own
    <3> QED BY <3>1, <2>3, IterUnique
  <2>6. Sum(f, S) = f[c] + Sum(f, t) BY <1>2, <2>4, <2>5
  <2> QED BY <2>1, <2>2, <2>6
<1> QED BY <1>3, <1>4

(* A sum of integers is one.                                                 *)
LEMMA SumInt ==
  ASSUME NEW S, IsFiniteSet(S), NEW f, \A x \in S : f[x] \in Int
  PROVE  Sum(f, S) \in Int
<1> DEFINE F == {s \in SUBSET S : Sum(f, s) \notin Int}
<1> SUFFICES ASSUME F # {} PROVE FALSE OBVIOUS
<1>1. F \in SUBSET SUBSET S OBVIOUS
<1>2. PICK U \in F : \A u \in F : u \subseteq U => u = U
  <2> HIDE DEF F
  <2> QED BY <1>1, FiniteSetMinimal
<1>3. IsFiniteSet(U) /\ U \in SUBSET S BY <1>2, FS_Subset
<1>4. U # {}
  <2> SUFFICES ASSUME U = {} PROVE FALSE OBVIOUS
  <2>1. Sum(f, {}) = 0 BY <1>3, SumRec
  <2> QED BY <1>2, <2>1
<1>5. PICK c \in U : c = SomeOf(U) BY <1>4, SomeOfIn
<1>6. U \ {c} \notin F
  <2>1. U \ {c} # U /\ U \ {c} \subseteq U BY <1>3
  <2> HIDE DEF F
  <2> QED BY <1>2, <2>1
<1>7. Sum(f, U \ {c}) \in Int BY <1>6, <1>3
<1>8. Sum(f, U) = f[c] + Sum(f, U \ {c}) BY <1>3, <1>4, <1>5, SumRec
<1>9. f[c] \in Int BY <1>3
<1>10. Sum(f, U) \in Int BY <1>7, <1>8, <1>9
<1> QED BY <1>2, <1>10

(* It does not matter which one is taken first.                              *)
LEMMA SumAny ==
  ASSUME NEW S, IsFiniteSet(S), NEW f, \A x \in S : f[x] \in Int, NEW x \in S
  PROVE  Sum(f, S) = f[x] + Sum(f, S \ {x})
<1> DEFINE F == {s \in SUBSET S : \E y \in s : Sum(f, s) # f[y] + Sum(f, s \ {y})}
<1> SUFFICES ASSUME F # {} PROVE FALSE OBVIOUS
<1>1. F \in SUBSET SUBSET S OBVIOUS
<1>2. PICK U \in F : \A u \in F : u \subseteq U => u = U
  <2> HIDE DEF F
  <2> QED BY <1>1, FiniteSetMinimal
<1>3. IsFiniteSet(U) /\ U \in SUBSET S BY <1>2, FS_Subset
<1>4. PICK y \in U : Sum(f, U) # f[y] + Sum(f, U \ {y}) BY <1>2
<1>5. PICK c \in U : c = SomeOf(U) BY <1>4, SomeOfIn
<1>6. Sum(f, U) = f[c] + Sum(f, U \ {c}) BY <1>3, <1>4, <1>5, SumRec
<1>7. y # c BY <1>4, <1>6
<1>8. PICK A, B, C : A = U \ {c} /\ B = U \ {y} /\ C = U \ {c, y} OBVIOUS
<1>9. /\ A \in SUBSET S /\ A # U /\ A \subseteq U /\ B \in SUBSET S /\ B # U /\ B \subseteq U
      /\ A \ {y} = C /\ B \ {c} = C /\ y \in A /\ c \in B /\ C \in SUBSET S
  BY <1>3, <1>7, <1>8
<1>10. A \notin F /\ B \notin F
  <2> HIDE DEF F
  <2> QED BY <1>2, <1>9
<1>11. Sum(f, A) = f[y] + Sum(f, C) /\ Sum(f, B) = f[c] + Sum(f, C)
  BY <1>9, <1>10
<1>12. f[y] \in Int /\ f[c] \in Int BY <1>3
<1>13. Sum(f, C) \in Int
  <2>1. IsFiniteSet(C) BY <1>9, FS_Subset
  <2>2. \A z \in C : f[z] \in Int BY <1>9
  <2> QED BY <2>1, <2>2, SumInt
<1>14. Sum(f, U) = f[y] + Sum(f, B)
  <2>1. PICK a, b, c0 : a = Sum(f, A) /\ b = Sum(f, B) /\ c0 = Sum(f, C) OBVIOUS
  <2>2. Sum(f, U) = f[c] + a BY <1>6, <1>8, <2>1
  <2> HIDE DEF F
  <2>3. a = f[y] + c0 /\ b = f[c] + c0 /\ c0 \in Int BY <1>11, <1>13, <2>1
  <2>4. f[c] + a = f[y] + b BY ONLY <2>3, <1>12
  <2> QED BY <2>1, <2>2, <2>4
<1> QED BY <1>4, <1>8, <1>14

(* Two sets with nothing in common are added up apart.                       *)
LEMMA SumUnion ==
  ASSUME NEW A, IsFiniteSet(A), NEW B, IsFiniteSet(B), A \cap B = {},
         NEW f, \A x \in A \cup B : f[x] \in Int
  PROVE  Sum(f, A \cup B) = Sum(f, A) + Sum(f, B)
<1> DEFINE F == {s \in SUBSET A : Sum(f, s \cup B) # Sum(f, s) + Sum(f, B)}
<1> SUFFICES ASSUME F # {} PROVE FALSE OBVIOUS
<1>1. F \in SUBSET SUBSET A OBVIOUS
<1>2. PICK U \in F : \A u \in F : u \subseteq U => u = U
  <2> HIDE DEF F
  <2> QED BY <1>1, FiniteSetMinimal
<1>3. IsFiniteSet(U) /\ U \in SUBSET A BY <1>2, FS_Subset
<1>4. Sum(f, U \cup B) # Sum(f, U) + Sum(f, B) BY <1>2
<1>5. Sum(f, B) \in Int BY SumInt
<1>6. U # {}
  <2> SUFFICES ASSUME U = {} PROVE FALSE OBVIOUS
  <2>1. Sum(f, {}) = 0 BY <1>3, SumRec
  <2>2. U \cup B = B OBVIOUS
  <2> QED BY <1>4, <1>5, <2>1, <2>2
<1>7. PICK c \in U : TRUE BY <1>6
<1>8. PICK T, V : T = U \ {c} /\ V = U \cup B OBVIOUS
<1>9. /\ IsFiniteSet(T) /\ IsFiniteSet(V) /\ T \in SUBSET A /\ T # U /\ T \subseteq U /\ c \in V
      /\ V \ {c} = T \cup B
  <2>1. c \notin B BY <1>3, <1>7
  <2>2. IsFiniteSet(T) BY <1>3, <1>8, FS_RemoveElement
  <2>3. IsFiniteSet(V) BY <1>3, <1>8, FS_Union
  <2>4. V \ {c} = T \cup B BY <1>7, <1>8, <2>1
  <2> QED BY <1>3, <1>7, <1>8, <2>2, <2>3, <2>4
<1>10. T \notin F
  <2> HIDE DEF F
  <2> QED BY <1>2, <1>9
<1>11. Sum(f, T \cup B) = Sum(f, T) + Sum(f, B) BY <1>9, <1>10
<1>12. (\A x \in U : f[x] \in Int) /\ (\A x \in V : f[x] \in Int) /\ (\A x \in T : f[x] \in Int) /\ f[c] \in Int
  BY <1>3, <1>8, <1>9
<1>13. Sum(f, U) = f[c] + Sum(f, T) BY <1>3, <1>7, <1>8, <1>12, SumAny
<1>14. Sum(f, V) = f[c] + Sum(f, T \cup B) BY <1>9, <1>12, SumAny
<1>15. Sum(f, T) \in Int BY <1>9, <1>12, SumInt
<1>16. Sum(f, V) = Sum(f, U) + Sum(f, B)
  <2>1. PICK a, b, d : a = Sum(f, T) /\ b = Sum(f, B) /\ d = Sum(f, T \cup B) OBVIOUS
  <2>2. d = a + b /\ a \in Int /\ b \in Int BY <1>5, <1>11, <1>15, <2>1
  <2>3. f[c] + d = (f[c] + a) + b BY ONLY <2>2, <1>12
  <2> QED BY <1>13, <1>14, <2>1, <2>3
<1> QED BY <1>4, <1>8, <1>16

(* Only the values in the set count.                                         *)
LEMMA SumSame ==
  ASSUME NEW S, IsFiniteSet(S), NEW f, NEW g, \A x \in S : f[x] = g[x]
  PROVE  Sum(f, S) = Sum(g, S)
<1> DEFINE F == {s \in SUBSET S : Sum(f, s) # Sum(g, s)}
<1> SUFFICES ASSUME F # {} PROVE FALSE OBVIOUS
<1>1. F \in SUBSET SUBSET S OBVIOUS
<1>2. PICK U \in F : \A u \in F : u \subseteq U => u = U
  <2> HIDE DEF F
  <2> QED BY <1>1, FiniteSetMinimal
<1>3. IsFiniteSet(U) /\ U \in SUBSET S BY <1>2, FS_Subset
<1>4. U # {}
  <2> SUFFICES ASSUME U = {} PROVE FALSE OBVIOUS
  <2>1. Sum(f, {}) = 0 /\ Sum(g, {}) = 0 BY <1>3, SumRec
  <2> QED BY <1>2, <2>1
<1>5. PICK c \in U : c = SomeOf(U) BY <1>4, SomeOfIn
<1>6. U \ {c} \notin F
  <2>1. U \ {c} # U /\ U \ {c} \subseteq U BY <1>3
  <2> HIDE DEF F
  <2> QED BY <1>2, <2>1
<1>7. Sum(f, U \ {c}) = Sum(g, U \ {c}) BY <1>6, <1>3
<1>8. Sum(f, U) = f[c] + Sum(f, U \ {c}) /\ Sum(g, U) = g[c] + Sum(g, U \ {c})
  BY <1>3, <1>4, <1>5, SumRec
<1>9. f[c] = g[c] BY <1>3
<1> QED BY <1>2, <1>7, <1>8, <1>9

(* Whichever function the sum is read off, it is the same.                   *)
LEMMA SumFrom ==
  ASSUME NEW f, NEW S, IsFiniteSet(S), NEW i, IsIter(i, f, S)
  PROVE  i[S] = Sum(f, S)
<1>1. PICK j : j = (CHOOSE it : IsIter(it, f, S)) OBVIOUS
<1>2. IsIter(j, f, S)
  <2> HIDE DEF IsIter
  <2> QED BY <1>1
<1>3. \A s \in SUBSET (S \cap S) : i[s] = j[s] BY ONLY IsFiniteSet(S), IsIter(i, f, S), <1>2, IterUnique
<1> QED BY <1>1, <1>3, SumIs

(* Nothing adds up to nothing.                                               *)
LEMMA SumZero ==
  ASSUME NEW S, IsFiniteSet(S), NEW f, \A x \in S : f[x] = 0
  PROVE  Sum(f, S) = 0
<1> DEFINE F == {s \in SUBSET S : Sum(f, s) # 0}
<1> SUFFICES ASSUME F # {} PROVE FALSE OBVIOUS
<1>1. F \in SUBSET SUBSET S OBVIOUS
<1>2. PICK U \in F : \A u \in F : u \subseteq U => u = U
  <2> HIDE DEF F
  <2> QED BY <1>1, FiniteSetMinimal
<1>3. IsFiniteSet(U) /\ U \in SUBSET S BY <1>2, FS_Subset
<1>4. U # {}
  <2> SUFFICES ASSUME U = {} PROVE FALSE OBVIOUS
  <2>1. Sum(f, {}) = 0 BY <1>3, SumRec
  <2> QED BY <1>2, <2>1
<1>5. PICK c \in U : c = SomeOf(U) BY <1>4, SomeOfIn
<1>6. U \ {c} \notin F
  <2>1. U \ {c} # U /\ U \ {c} \subseteq U BY <1>3
  <2> HIDE DEF F
  <2> QED BY <1>2, <2>1
<1>7. Sum(f, U \ {c}) = 0 BY <1>6, <1>3
<1>8. Sum(f, U) = f[c] + Sum(f, U \ {c}) BY <1>3, <1>4, <1>5, SumRec
<1>9. f[c] = 0 BY <1>3
<1> QED BY <1>2, <1>7, <1>8, <1>9

(* The sum of one number, and of none.                                       *)
LEMMA SumOne ==
  ASSUME NEW f, NEW x, f[x] \in Int
  PROVE  Sum(f, {x}) = f[x] /\ Sum(f, {}) = 0
<1>1. IsFiniteSet({x}) /\ IsFiniteSet({}) BY FS_Singleton, FS_EmptySet
<1>2. Sum(f, {}) = 0 BY <1>1, SumRec
<1>3. Sum(f, {x}) = f[x] + Sum(f, {x} \ {x})
  <2>1. \A y \in {x} : f[y] \in Int OBVIOUS
  <2> QED BY <1>1, <2>1, SumAny
<1>4. {x} \ {x} = {} OBVIOUS
<1> QED BY <1>2, <1>3, <1>4

(* What Reporting's Total adds up: the rows' magnitudes.                     *)
Magnitudes(S) == [r \in S |-> Magnitude(r)]

(* A total is their sum over the rows.                                       *)
LEMMA TotalIs ==
  ASSUME NEW S, IsFiniteSet(S), NEW A \in SUBSET S
  PROVE  Total(A) = Sum(Magnitudes(S), A)
<1> DEFINE IsM(it) == it = [s \in SUBSET A |-> IF s = {} THEN 0
                                               ELSE Magnitude(SomeOf(s)) + it[s \ {SomeOf(s)}]]
<1>1. IsFiniteSet(A) BY FS_Subset
<1>2. ASSUME NEW it PROVE IsM(it) <=> IsIter(it, Magnitudes(S), A)
  <2>1. \A s \in SUBSET A : s # {} => Magnitudes(S)[SomeOf(s)] = Magnitude(SomeOf(s))
    BY SomeOfIn DEF Magnitudes
  <2> QED BY <2>1 DEF IsIter
<1>3. Total(A) = (CHOOSE it : IsM(it))[A]
  BY DEF Total, MapThenSumSet, MapThenFoldSet, SomeOf
<1>4. \E it : IsM(it) BY <1>1, <1>2, IterExists
<1> HIDE DEF IsM
<1>5. IsM(CHOOSE it : IsM(it)) BY <1>4
<1>6. IsIter(CHOOSE it : IsM(it), Magnitudes(S), A) BY <1>2, <1>5
<1> QED BY <1>1, <1>3, <1>6, SumFrom

(* What a balance adds up: the postings' amounts.                            *)
Amounts(S) == [r \in S |-> r.amount]
Amount(S) == MapThenSumSet(LAMBDA p : p.amount, S)

(* So is an amount, over the postings.                                       *)
LEMMA AmountIs ==
  ASSUME NEW S, IsFiniteSet(S), NEW A \in SUBSET S
  PROVE  Amount(A) = Sum(Amounts(S), A)
<1> DEFINE IsM(it) == it = [s \in SUBSET A |-> IF s = {} THEN 0
                                               ELSE SomeOf(s).amount + it[s \ {SomeOf(s)}]]
<1>1. IsFiniteSet(A) BY FS_Subset
<1>2. ASSUME NEW it PROVE IsM(it) <=> IsIter(it, Amounts(S), A)
  <2>1. \A s \in SUBSET A : s # {} => Amounts(S)[SomeOf(s)] = SomeOf(s).amount
    BY SomeOfIn DEF Amounts
  <2> QED BY <2>1 DEF IsIter
<1>3. Amount(A) = (CHOOSE it : IsM(it))[A]
  BY DEF Amount, MapThenSumSet, MapThenFoldSet, SomeOf
<1>4. \E it : IsM(it) BY <1>1, <1>2, IterExists
<1> HIDE DEF IsM
<1>5. IsM(CHOOSE it : IsM(it)) BY <1>4
<1>6. IsIter(CHOOSE it : IsM(it), Amounts(S), A) BY <1>2, <1>5
<1> QED BY <1>1, <1>3, <1>6, SumFrom

(* A function's sum is over its domain.                                      *)
LEMMA SumFunctionIs == \A h : SumFunction(h) = Sum(h, DOMAIN h)
BY DEF SumFunction, SumFunctionOnSet, FoldFunctionOnSet, Sum, MapThenSumSet

(* A sum is the sum of its parts, one for each key.                          *)
LEMMA SumParts ==
  ASSUME NEW S, IsFiniteSet(S), NEW f, \A x \in S : f[x] \in Int,
         NEW K, IsFiniteSet(K), NEW g, \A x \in S : g[x] \in K
  PROVE  Sum(f, S) = Sum([k \in K |-> Sum(f, {x \in S : g[x] = k})], K)
<1> DEFINE part(k) == {x \in S : g[x] = k}
           under(J) == {x \in S : g[x] \in J}
<1>1. PICK h : h = [k \in K |-> Sum(f, part(k))] OBVIOUS
<1>2. \A k \in K : h[k] \in Int
  <2> TAKE k \in K
  <2>1. IsFiniteSet(part(k)) /\ \A x \in part(k) : f[x] \in Int BY FS_Subset
  <2>2. Sum(f, part(k)) \in Int
    <3> HIDE DEF part
    <3> QED BY <2>1, SumInt
  <2> QED BY <1>1, <2>2
<1> DEFINE F == {J \in SUBSET K : Sum(f, under(J)) # Sum(h, J)}
<1>3. F = {}
  <2> SUFFICES ASSUME F # {} PROVE FALSE OBVIOUS
  <2>1. F \in SUBSET SUBSET K OBVIOUS
  <2>2. PICK J \in F : \A u \in F : u \subseteq J => u = J
    <3> HIDE DEF F
    <3> QED BY <2>1, FiniteSetMinimal
  <2>3. J \in SUBSET K /\ Sum(f, under(J)) # Sum(h, J) BY <2>2
  <2>4. IsFiniteSet(J) BY <2>3, FS_Subset
  <2>5. J # {}
    <3> SUFFICES ASSUME J = {} PROVE FALSE OBVIOUS
    <3>1. under(J) = {} OBVIOUS
    <3>2. Sum(f, {}) = 0 /\ Sum(h, {}) = 0 BY <2>4, SumRec
    <3> QED BY <2>3, <3>1, <3>2
  <2>6. PICK k \in J : TRUE BY <2>5
  <2>7. PICK I : I = J \ {k} OBVIOUS
  <2>8. I \in SUBSET K /\ I # J /\ I \subseteq J BY <2>3, <2>6, <2>7
  <2>9. I \notin F
    <3> HIDE DEF F
    <3> QED BY <2>2, <2>8
  <2>10. Sum(f, under(I)) = Sum(h, I) BY <2>8, <2>9
  <2>11. under(J) = part(k) \cup under(I) /\ part(k) \cap under(I) = {} BY <2>6, <2>7
  <2>12. /\ IsFiniteSet(part(k)) /\ IsFiniteSet(under(I))
         /\ \A x \in part(k) \cup under(I) : f[x] \in Int
    BY FS_Subset
  <2>13. Sum(f, under(J)) = Sum(f, part(k)) + Sum(f, under(I))
    <3>1. PICK A, B : A = part(k) /\ B = under(I) OBVIOUS
    <3>2. Sum(f, A \cup B) = Sum(f, A) + Sum(f, B)
      <4> HIDE DEF part, under, F
      <4>1. IsFiniteSet(A) /\ IsFiniteSet(B) /\ A \cap B = {} /\ \A x \in A \cup B : f[x] \in Int
        BY <2>11, <2>12, <3>1
      <4> QED BY ONLY <4>1, SumUnion
    <3> QED BY <2>11, <3>1, <3>2
  <2>14. Sum(h, J) = h[k] + Sum(h, I)
    <3>1. \A x \in J : h[x] \in Int BY <1>2, <2>3
    <3> HIDE DEF F
    <3> QED BY <2>4, <2>6, <2>7, <3>1, SumAny
  <2>15. h[k] = Sum(f, part(k)) BY <1>1, <2>3, <2>6
  <2> HIDE DEF part, under, F
  <2> QED BY <2>3, <2>10, <2>13, <2>14, <2>15
<1>4. under(K) = S OBVIOUS
<1>5. Sum(f, under(K)) = Sum(h, K)
  <2>1. K \notin F BY <1>3
  <2> QED BY <2>1
<1> HIDE DEF under, part, F
<1>6. Sum(f, S) = Sum(h, K) BY <1>4, <1>5
<1> QED BY <1>1, <1>6 DEF part

(* Counting adds up ones.                                                    *)
Ones(S) == [x \in S |-> 1]

(* So is a count.                                                            *)
LEMMA CountIs ==
  ASSUME NEW S, IsFiniteSet(S), NEW A \in SUBSET S
  PROVE  Cardinality(A) = Sum(Ones(S), A)
<1> DEFINE F == {s \in SUBSET A : Cardinality(s) # Sum(Ones(S), s)}
<1> SUFFICES ASSUME F # {} PROVE FALSE OBVIOUS
<1>1. F \in SUBSET SUBSET A OBVIOUS
<1>2. IsFiniteSet(A) BY FS_Subset
<1>3. PICK U \in F : \A u \in F : u \subseteq U => u = U
  <2> HIDE DEF F
  <2> QED BY <1>1, <1>2, FiniteSetMinimal
<1>4. IsFiniteSet(U) /\ U \in SUBSET A /\ Cardinality(U) # Sum(Ones(S), U) BY <1>2, <1>3, FS_Subset
<1>5. U # {}
  <2> SUFFICES ASSUME U = {} PROVE FALSE OBVIOUS
  <2>1. Sum(Ones(S), {}) = 0 BY <1>4, SumRec
  <2> QED BY <1>4, <2>1, FS_EmptySet
<1>6. PICK c \in U : TRUE BY <1>5
<1>7. PICK T : T = U \ {c} OBVIOUS
<1>8. T \in SUBSET A /\ T # U /\ T \subseteq U BY <1>4, <1>6, <1>7
<1>9. T \notin F
  <2> HIDE DEF F
  <2> QED BY <1>3, <1>8
<1>10. Cardinality(T) = Sum(Ones(S), T) BY <1>8, <1>9
<1>11. Cardinality(T) = Cardinality(U) - 1 /\ Cardinality(U) \in Nat
  BY <1>4, <1>6, <1>7, FS_RemoveElement, FS_CardinalityType
<1>12. \A x \in U : Ones(S)[x] = 1 BY <1>4 DEF Ones
<1>13. Sum(Ones(S), U) = 1 + Sum(Ones(S), T)
  <2>1. \A x \in U : Ones(S)[x] \in Int BY <1>12
  <2>2. Sum(Ones(S), U) = Ones(S)[c] + Sum(Ones(S), U \ {c})
    <3> HIDE DEF F
    <3> QED BY <1>4, <1>6, <2>1, SumAny
  <2> QED BY <1>6, <1>7, <1>12, <2>2
<1> QED BY <1>4, <1>10, <1>11, <1>13

(* How much a set of rows is, and how many: a node of the drill-down.        *)
Weigh(S) == [amount |-> Total(S), count |-> Cardinality(S)]
Rows(S) == IsFiniteSet(S) /\ \A r \in S : r.amount \in Int

(* Rows are integers to add up.                                              *)
LEMMA RowsAdd ==
  ASSUME NEW S, Rows(S)
  PROVE  /\ \A r \in S : Magnitudes(S)[r] \in Int /\ Ones(S)[r] \in Int /\ Amounts(S)[r] \in Int
         /\ \A A \in SUBSET S : Rows(A) /\ Total(A) \in Int /\ Cardinality(A) \in Int
<1>1. \A r \in S : Magnitudes(S)[r] \in Int /\ Ones(S)[r] \in Int /\ Amounts(S)[r] \in Int
  BY DEF Rows, Magnitudes, Magnitude, Ones, Amounts
<1>2. ASSUME NEW A \in SUBSET S PROVE Rows(A) /\ Total(A) \in Int /\ Cardinality(A) \in Int
  <2>1. Rows(A) /\ IsFiniteSet(A) BY FS_Subset DEF Rows
  <2>2. Cardinality(A) \in Int BY <2>1, FS_CardinalityType
  <2>3. Total(A) = Sum(Magnitudes(S), A) BY TotalIs DEF Rows
  <2>4. \A r \in A : Magnitudes(S)[r] \in Int BY <1>1
  <2>5. Sum(Magnitudes(S), A) \in Int BY <2>1, <2>4, SumInt
  <2> QED BY <2>1, <2>2, <2>3, <2>5
<1> QED BY <1>1, <1>2

(* The total of rows is that of their parts, and so is their number.         *)
LEMMA TotalParts ==
  ASSUME NEW S, Rows(S), NEW K, IsFiniteSet(K), NEW g, \A r \in S : g[r] \in K
  PROVE  Sum([k \in K |-> Total({r \in S : g[r] = k})], K) = Total(S)
<1> DEFINE part(k) == {r \in S : g[r] = k}
<1>1. IsFiniteSet(S) BY DEF Rows
<1>2. \A k \in K : part(k) \in SUBSET S OBVIOUS
<1>3. \A k \in K : Total(part(k)) = Sum(Magnitudes(S), part(k))
  <2> HIDE DEF part
  <2> QED BY <1>1, <1>2, TotalIs
<1>4. [k \in K |-> Total(part(k))] = [k \in K |-> Sum(Magnitudes(S), part(k))]
  <2> HIDE DEF part
  <2> QED BY <1>3
<1>5. Sum(Magnitudes(S), S) = Sum([k \in K |-> Sum(Magnitudes(S), part(k))], K) BY <1>1, RowsAdd, SumParts
<1>6. Total(S) = Sum(Magnitudes(S), S) BY <1>1, TotalIs
<1> QED BY <1>4, <1>5, <1>6

(* A set has as many members as its parts have together.                     *)
LEMMA CountParts ==
  ASSUME NEW S, IsFiniteSet(S), NEW K, IsFiniteSet(K), NEW g, \A r \in S : g[r] \in K
  PROVE  Sum([k \in K |-> Cardinality({r \in S : g[r] = k})], K) = Cardinality(S)
<1> DEFINE part(k) == {r \in S : g[r] = k}
<1>1. \A k \in K : part(k) \in SUBSET S OBVIOUS
<1>2. \A k \in K : Cardinality(part(k)) = Sum(Ones(S), part(k))
  <2> HIDE DEF part
  <2> QED BY <1>1, CountIs
<1>3. [k \in K |-> Cardinality(part(k))] = [k \in K |-> Sum(Ones(S), part(k))]
  <2> HIDE DEF part
  <2> QED BY <1>2
<1>4. Sum(Ones(S), S) = Sum([k \in K |-> Sum(Ones(S), part(k))], K)
  <2>1. \A r \in S : Ones(S)[r] \in Int BY DEF Ones
  <2> QED BY <2>1, SumParts
<1>5. Cardinality(S) = Sum(Ones(S), S) BY CountIs
<1> QED BY <1>3, <1>4, <1>5

(* The nodes of the parts of a set of rows make the node of the set.         *)
LEMMA NodesOfParts ==
  ASSUME NEW S, Rows(S), NEW K, IsFiniteSet(K), NEW g, \A r \in S : g[r] \in K
  PROVE  SumNodes([k \in K |-> Weigh({r \in S : g[r] = k})]) = Weigh(S)
<1> DEFINE part(k) == {r \in S : g[r] = k}
<1>1. PICK nodes : nodes = [k \in K |-> Weigh(part(k))] OBVIOUS
<1>2. PICK a, c : a = [k \in K |-> Total(part(k))] /\ c = [k \in K |-> Cardinality(part(k))] OBVIOUS
<1>3. Sum(a, K) = Total(S) /\ Sum(c, K) = Cardinality(S) BY <1>2, TotalParts, CountParts DEF Rows
<1> HIDE DEF part
<1>4. [n \in DOMAIN nodes |-> nodes[n].amount] = a BY <1>1, <1>2 DEF Weigh
<1>5. [n \in DOMAIN nodes |-> nodes[n].count] = c BY <1>1, <1>2 DEF Weigh
<1>6. DOMAIN a = K /\ DOMAIN c = K BY <1>2
<1>7. SumNodes(nodes) = Weigh(S) BY <1>3, <1>4, <1>5, <1>6, SumFunctionIs DEF SumNodes, Weigh
<1> QED BY <1>1, <1>7 DEF part

(* Two nodes side by side.                                                   *)
LEMMA NodesOfTwo ==
  ASSUME NEW A, NEW B, Rows(A \cup B), A \cap B = {}
  PROVE  SumNodes(<<Weigh(A), Weigh(B)>>) = Weigh(A \cup B)
<1>1. PICK S : S = A \cup B OBVIOUS
<1>2. PICK g : g = [r \in S |-> IF r \in A THEN 1 ELSE 2] OBVIOUS
<1>3. {r \in S : g[r] = 1} = A /\ {r \in S : g[r] = 2} = B BY <1>1, <1>2
<1>4. PICK K : K = 1..2 OBVIOUS
<1>5. \A k : k \in K <=> k = 1 \/ k = 2 BY <1>4
<1>6. PICK m, n : m = [k \in K |-> Weigh({r \in S : g[r] = k})] /\ n = <<Weigh(A), Weigh(B)>> OBVIOUS
<1>7. SumNodes(m) = Weigh(S)
  <2>1. IsFiniteSet(K)
    <3>1. PICK U, V : U = {1} /\ V = {2} OBVIOUS
    <3>2. IsFiniteSet(U) /\ IsFiniteSet(V) BY <3>1, FS_Singleton
    <3>3. K = U \cup V BY <1>5, <3>1
    <3> QED BY <3>2, <3>3, FS_Union
  <2>2. \A r \in S : g[r] \in K BY <1>2, <1>5
  <2>3. Rows(S) BY <1>1
  <2> QED BY ONLY <1>6, <2>1, <2>2, <2>3, NodesOfParts
<1>8. DOMAIN n = K /\ DOMAIN m = K BY <1>4, <1>6
<1>9. \A k \in K : n[k] = m[k] BY <1>3, <1>5, <1>6
<1>10. SumNodes(n) = SumNodes(m) BY <1>8, <1>9 DEF SumNodes
<1> QED BY <1>1, <1>6, <1>7, <1>10

(* No node under a node adds nothing.                                        *)
LEMMA NodesOfNone ==
  ASSUME NEW m, DOMAIN m = {}
  PROVE  SumNodes(m) = Weigh({})
<1>1. Rows({}) BY FS_EmptySet DEF Rows
<1>2. PICK g : g = [r \in {} |-> 1] OBVIOUS
<1>3. PICK n : n = [k \in {} |-> Weigh({r \in {} : g[r] = k})] OBVIOUS
<1>4. SumNodes(n) = Weigh({}) BY <1>1, <1>3, FS_EmptySet, NodesOfParts
<1>5. SumNodes(m) = SumNodes(n) BY <1>3 DEF SumNodes
<1> QED BY <1>4, <1>5

(* The merchants of a bucket hold all of it.                                 *)
LEMMA MerchantNodes ==
  ASSUME NEW S, Rows(S)
  PROVE  SumNodes(merchant_nodes(S)) = Weigh(S)
<1>1. PICK g : g = [r \in S |-> Key(r)] OBVIOUS
<1>2. PICK K : K = {g[r] : r \in S} OBVIOUS
<1>3. IsFiniteSet(K)
  <2>1. DOMAIN g = S /\ IsFiniteSet(S) BY <1>1 DEF Rows
  <2> QED BY <1>2, <2>1, FiniteImage
<1>4. SumNodes([k \in K |-> Weigh({r \in S : g[r] = k})]) = Weigh(S) BY <1>2, <1>3, NodesOfParts
<1>5. K = {Key(r) : r \in S} BY <1>1, <1>2
<1>6. \A k : {r \in S : g[r] = k} = {r \in S : Key(r) = k} BY <1>1
<1>7. merchant_nodes(S) = [k \in K |-> Weigh({r \in S : g[r] = k})]
  BY <1>5, <1>6 DEF merchant_nodes, Weigh
<1> QED BY <1>4, <1>7

-----------------------------------------------------------------------------
(* The category tree.                                                        *)

(* Where the climb to the top goes from a category: nowhere from a top.      *)
Step(c) == IF Parent[c] \in RootCategories \cup {None} THEN {} ELSE {Parent[c]}

(* The categories on the climb from c, c included.                           *)
Closed(U) == \A y \in U : Step(y) \subseteq U
Above(c) == {x \in Categories : \A U \in SUBSET Categories : c \in U /\ Closed(U) => x \in U}

(* A category goes up to a category.                                         *)
LEMMA StepUp ==
  ASSUME NEW c \in Categories
  PROVE  /\ Step(c) \subseteq Categories
         /\ Step(c) # {} => Step(c) = {Parent[c]} /\ Parent[c] \in Categories /\ Parent[c] # None
BY CategoriesAreATree DEF Step, RootCategories

(* What holds of a category when it holds of what it goes up to holds of all. *)
LEMMA Upwards ==
  ASSUME NEW G \in SUBSET Categories, \A c \in Categories : Step(c) \subseteq G => c \in G
  PROVE  G = Categories
<1>1. PICK n, depth : /\ n = Cardinality(Categories) /\ depth \in [Categories -> 0..n]
                      /\ \A c \in Categories :
                           Parent[c] # None => Parent[c] \in Categories /\ depth[Parent[c]] < depth[c]
  BY CategoriesAreATree
<1>2. n \in Nat BY <1>1, CategoriesAreATree, FS_CardinalityType
<1> DEFINE S == {m \in Nat : \A c \in Categories : depth[c] < m => c \in G}
<1>3. S = Nat
  <2>1. 0 \in S BY <1>1, <1>2
  <2>2. ASSUME NEW m \in S PROVE m + 1 \in S
    <3> SUFFICES ASSUME NEW c \in Categories, depth[c] < m + 1 PROVE c \in G OBVIOUS
    <3>1. m \in Nat /\ depth[c] \in Nat BY <1>1, <1>2
    <3>2. ASSUME NEW p \in Step(c) PROVE p \in G
      <4>1. p = Parent[c] /\ p \in Categories /\ depth[p] < depth[c] BY <1>1, <3>2, StepUp
      <4>2. depth[p] \in Nat BY <1>1, <1>2, <4>1
      <4>3. depth[p] < m BY <3>1, <4>1, <4>2
      <4> QED BY <4>1, <4>3
    <3> QED BY <3>2
  <2> HIDE DEF S
  <2>3. S \in SUBSET Nat BY DEF S
  <2> QED BY <2>1, <2>2, <2>3, NatSetInduction
<1>4. ASSUME NEW c \in Categories PROVE c \in G
  <2>1. n + 1 \in S BY <1>2, <1>3
  <2>2. depth[c] < n + 1 BY <1>1, <1>2
  <2> QED BY <2>1, <2>2
<1> QED BY <1>4

(* ... and what holds of one when it holds of those that go up to it.        *)
LEMMA Downwards ==
  ASSUME NEW G \in SUBSET Categories,
         \A c \in Categories : (\A e \in Categories : c \in Step(e) => e \in G) => c \in G
  PROVE  G = Categories
<1>1. PICK n, depth : /\ n = Cardinality(Categories) /\ depth \in [Categories -> 0..n]
                      /\ \A c \in Categories :
                           Parent[c] # None => Parent[c] \in Categories /\ depth[Parent[c]] < depth[c]
  BY CategoriesAreATree
<1>2. n \in Nat BY <1>1, CategoriesAreATree, FS_CardinalityType
<1> DEFINE S == {m \in Nat : \A c \in Categories : n - m < depth[c] => c \in G}
<1>3. S = Nat
  <2>1. 0 \in S BY <1>1, <1>2
  <2>2. ASSUME NEW m \in S PROVE m + 1 \in S
    <3> SUFFICES ASSUME NEW c \in Categories, n - (m + 1) < depth[c] PROVE c \in G OBVIOUS
    <3>1. m \in Nat /\ depth[c] \in Nat BY <1>1, <1>2
    <3>2. ASSUME NEW e \in Categories, c \in Step(e) PROVE e \in G
      <4>1. c = Parent[e] /\ c # None BY <3>2, StepUp
      <4>2. depth[c] < depth[e] /\ depth[e] \in Nat BY <1>1, <1>2, <4>1
      <4>3. n - m < depth[e] BY <1>2, <3>1, <4>2
      <4> QED BY <4>3
    <3> QED BY <3>2
  <2> HIDE DEF S
  <2>3. S \in SUBSET Nat BY DEF S
  <2> QED BY <2>1, <2>2, <2>3, NatSetInduction
<1>4. ASSUME NEW c \in Categories PROVE c \in G
  <2>1. n + 1 \in S
    <3>1. n + 1 \in Nat BY <1>2
    <3> HIDE DEF S
    <3> QED BY <1>3, <3>1
  <2>2. n - (n + 1) < depth[c] BY <1>1, <1>2
  <2> QED BY <2>1, <2>2
<1> QED BY <1>4

(* The climb from c is c and the climb from where it goes, without c.        *)
LEMMA AboveIs ==
  ASSUME NEW c \in Categories
  PROVE  /\ Step(c) = {} => Above(c) = {c}
         /\ \A p \in Step(c) : Above(c) = {c} \cup Above(p) /\ c \notin Above(p)
<1>1. c \in Above(c) BY DEF Above
<1>2. CASE Step(c) = {}
  <2>1. Closed({c}) BY <1>2 DEF Closed
  <2>2. Above(c) = {c} BY <1>1, <2>1 DEF Above
  <2> QED BY <1>2, <2>2
<1>3. ASSUME NEW p \in Step(c) PROVE Above(c) = {c} \cup Above(p) /\ c \notin Above(p)
  <2>1. p \in Categories /\ p = Parent[c] /\ p # None /\ Step(c) = {p} BY <1>3, StepUp
  <2>2. \A y \in Above(p) : Step(y) \subseteq Above(p)
    <3> TAKE y \in Above(p)
    <3>1. y \in Categories BY DEF Above
    <3>2. \A U \in SUBSET Categories : p \in U /\ Closed(U) => y \in U BY DEF Above
    <3>3. ASSUME NEW z \in Step(y), NEW U \in SUBSET Categories, p \in U, Closed(U) PROVE z \in U
      BY <3>2, <3>3 DEF Closed
    <3>4. Step(y) \subseteq Categories BY <3>1, StepUp
    <3> QED BY <3>3, <3>4 DEF Above
  <2>3. p \in Above(p) BY <2>1 DEF Above
  <2>4. Closed({c} \cup Above(p)) BY <2>1, <2>2, <2>3 DEF Closed
  <2>5. {c} \cup Above(p) \in SUBSET Categories BY DEF Above
  <2>6. Above(c) \subseteq {c} \cup Above(p) BY <2>4, <2>5 DEF Above
  <2>7. Above(p) \subseteq Above(c)
    <3> SUFFICES ASSUME NEW x \in Above(p), NEW U \in SUBSET Categories, c \in U, Closed(U) PROVE x \in U
      BY DEF Above
    <3>1. p \in U BY <2>1 DEF Closed
    <3> QED BY <3>1 DEF Above
  <2>8. c \notin Above(p)
    <3>1. PICK n, depth : /\ n = Cardinality(Categories) /\ depth \in [Categories -> 0..n]
                          /\ \A d \in Categories :
                               Parent[d] # None => Parent[d] \in Categories /\ depth[Parent[d]] < depth[d]
      BY CategoriesAreATree
    <3>2. n \in Nat BY <3>1, CategoriesAreATree, FS_CardinalityType
    <3>3. \A d \in Categories : depth[d] \in Nat BY <3>1, <3>2
    <3>4. PICK U : U = {d \in Categories : depth[d] <= depth[p]} OBVIOUS
    <3>5. p \in U BY <2>1, <3>3, <3>4
    <3>6. Closed(U)
      <4> SUFFICES ASSUME NEW y \in U, NEW z \in Step(y) PROVE z \in U BY DEF Closed
      <4>1. y \in Categories /\ depth[y] <= depth[p] BY <3>4
      <4>2. z \in Categories /\ z = Parent[y] /\ z # None BY <4>1, StepUp
      <4>3. depth[z] < depth[y] BY <3>1, <4>1, <4>2
      <4>4. depth[z] <= depth[p] BY <2>1, <3>3, <4>1, <4>2, <4>3
      <4> QED BY <3>4, <4>2, <4>4
    <3>7. c \notin U
      <4>1. depth[p] < depth[c] BY <2>1, <3>1
      <4> QED BY <2>1, <3>3, <3>4, <4>1
    <3>8. U \in SUBSET Categories BY <3>4
    <3> QED BY <3>5, <3>6, <3>7, <3>8 DEF Above
  <2> QED BY <1>1, <2>6, <2>7, <2>8
<1> QED BY <1>2, <1>3

(* The climb from a category on the way holds the rest of the way.           *)
LEMMA AboveGoesOn ==
  ASSUME NEW c \in Categories
  PROVE  c \in Above(c) /\ \A x \in Above(c) : x \in Categories /\ Above(x) \subseteq Above(c)
<1> DEFINE G == {d \in Categories : \A x \in Above(d) : Above(x) \subseteq Above(d)}
<1>1. ASSUME NEW d \in Categories, Step(d) \subseteq G PROVE d \in G
  <2> SUFFICES ASSUME NEW x \in Above(d) PROVE Above(x) \subseteq Above(d) OBVIOUS
  <2>1. CASE Step(d) = {} BY <2>1, AboveIs
  <2>2. ASSUME NEW p \in Step(d) PROVE Above(x) \subseteq Above(d)
    <3>1. Above(d) = {d} \cup Above(p) BY AboveIs
    <3>2. p \in G BY <1>1
    <3>3. x = d \/ x \in Above(p) BY <3>1
    <3> QED BY <3>1, <3>2, <3>3
  <2> QED BY <2>1, <2>2
<1> HIDE DEF G
<1>2. G \in SUBSET Categories BY DEF G
<1>3. G = Categories BY <1>1, <1>2, Upwards
<1> QED BY <1>3 DEF G, Above

(* Of two categories on one climb, one is on the climb from the other.       *)
LEMMA AboveIsALine ==
  ASSUME NEW c \in Categories
  PROVE  \A x, y \in Above(c) : x \in Above(y) \/ y \in Above(x)
<1> DEFINE G == {d \in Categories : \A x, y \in Above(d) : x \in Above(y) \/ y \in Above(x)}
<1>1. ASSUME NEW d \in Categories, Step(d) \subseteq G PROVE d \in G
  <2> SUFFICES ASSUME NEW x \in Above(d), NEW y \in Above(d) PROVE x \in Above(y) \/ y \in Above(x) OBVIOUS
  <2>1. CASE Step(d) = {} BY <2>1, AboveIs
  <2>2. ASSUME NEW p \in Step(d) PROVE x \in Above(y) \/ y \in Above(x)
    <3>1. Above(d) = {d} \cup Above(p) BY AboveIs
    <3>2. p \in G BY <1>1
    <3>3. CASE x = d BY <3>3
    <3>4. CASE y = d BY <3>4
    <3>5. CASE x \in Above(p) /\ y \in Above(p) BY <3>2, <3>5
    <3> QED BY <3>1, <3>3, <3>4, <3>5
  <2> QED BY <2>1, <2>2
<1> HIDE DEF G
<1>2. G \in SUBSET Categories BY DEF G
<1>3. G = Categories BY <1>1, <1>2, Upwards
<1> QED BY <1>3 DEF G

(* Every climb ends at one top.                                              *)
Top(c) == CHOOSE t \in Above(c) : Step(t) = {}

(* The top is one: it is above, it has no step, and only a top is its own.   *)
LEMMA TopIs ==
  ASSUME NEW c \in Categories
  PROVE  /\ Top(c) \in Categories /\ Top(c) \in Above(c) /\ Step(Top(c)) = {}
         /\ \A t \in Above(c) : Step(t) = {} => t = Top(c)
         /\ Step(c) = {} => Top(c) = c
         /\ \A p \in Step(c) : Top(c) = Top(p)
<1> DEFINE G == {d \in Categories : \E t \in Above(d) : Step(t) = {}}
<1>1. ASSUME NEW d \in Categories, Step(d) \subseteq G PROVE d \in G
  <2>1. CASE Step(d) = {} BY <2>1, AboveGoesOn
  <2>2. ASSUME NEW p \in Step(d) PROVE d \in G
    <3>1. Above(d) = {d} \cup Above(p) BY AboveIs
    <3>2. p \in G BY <1>1
    <3> QED BY <3>1, <3>2
  <2> QED BY <2>1, <2>2
<1> HIDE DEF G
<1>2. G \in SUBSET Categories BY DEF G
<1>3. G = Categories BY <1>1, <1>2, Upwards
<1>4. \A d \in Categories : Top(d) \in Above(d) /\ Step(Top(d)) = {}
  <2> TAKE d \in Categories
  <2>1. \E t \in Above(d) : Step(t) = {} BY <1>3 DEF G
  <2> QED BY <2>1 DEF Top
<1>5. ASSUME NEW d \in Categories, NEW t \in Above(d), Step(t) = {} PROVE t = Top(d)
  <2>1. Top(d) \in Above(d) /\ Step(Top(d)) = {} BY <1>4
  <2>2. t \in Categories /\ Top(d) \in Categories BY <2>1, AboveGoesOn
  <2>3. Above(t) = {t} /\ Above(Top(d)) = {Top(d)} BY <1>5, <2>1, <2>2, AboveIs
  <2>4. t \in Above(Top(d)) \/ Top(d) \in Above(t) BY <2>1, AboveIsALine
  <2> QED BY <2>3, <2>4
<1>6. Step(c) = {} => Top(c) = c BY <1>5, AboveGoesOn
<1>7. ASSUME NEW p \in Step(c) PROVE Top(c) = Top(p)
  <2>1. p \in Categories BY StepUp
  <2>2. Top(p) \in Above(p) /\ Step(Top(p)) = {} BY <1>4, <2>1
  <2>3. Top(p) \in Above(c) BY <2>2, AboveIs
  <2> QED BY <1>5, <2>2, <2>3
<1> QED BY <1>4, <1>5, <1>6, <1>7, AboveGoesOn

(* top_of_chain finds it.                                                    *)
LEMMA TopOfChain == \A c \in Categories : top_of_chain(c) = Top(c)
<1> DEFINE Climbs(f) == f = [d \in Categories |-> IF Parent[d] \in RootCategories \cup {None} THEN d
                                                  ELSE f[Parent[d]]]
<1>1. PICK T : T = [d \in Categories |-> Top(d)] OBVIOUS
<1>2. Climbs(T)
  <2>1. ASSUME NEW d \in Categories
        PROVE  T[d] = IF Parent[d] \in RootCategories \cup {None} THEN d ELSE T[Parent[d]]
    <3>1. CASE Parent[d] \in RootCategories \cup {None}
      <4>1. Step(d) = {} BY <3>1 DEF Step
      <4> QED BY <1>1, <3>1, <4>1, TopIs
    <3>2. CASE Parent[d] \notin RootCategories \cup {None}
      <4>1. Parent[d] \in Step(d) BY <3>2 DEF Step
      <4>2. Parent[d] \in Categories BY <4>1, StepUp
      <4> QED BY <1>1, <3>2, <4>1, <4>2, TopIs
    <3> QED BY <3>1, <3>2
  <2>2. T = [d \in Categories |-> T[d]] BY <1>1
  <2> QED BY <2>1, <2>2
<1>3. PICK f : f = (CHOOSE g : Climbs(g)) OBVIOUS
<1>4. Climbs(f)
  <2> HIDE DEF Climbs
  <2> QED BY <1>2, <1>3
<1> DEFINE G == {d \in Categories : f[d] = Top(d)}
<1>5. ASSUME NEW d \in Categories, Step(d) \subseteq G PROVE d \in G
  <2>1. CASE Parent[d] \in RootCategories \cup {None}
    <3>1. Step(d) = {} BY <2>1 DEF Step
    <3>2. f[d] = d BY <1>4, <2>1
    <3> QED BY <3>1, <3>2, TopIs
  <2>2. CASE Parent[d] \notin RootCategories \cup {None}
    <3>1. Parent[d] \in Step(d) BY <2>2 DEF Step
    <3>2. f[d] = f[Parent[d]] BY <1>4, <2>2
    <3>3. f[Parent[d]] = Top(Parent[d]) BY <1>5, <3>1
    <3> QED BY <3>1, <3>2, <3>3, TopIs
  <2> QED BY <2>1, <2>2
<1> HIDE DEF G
<1>6. G \in SUBSET Categories BY DEF G
<1>7. G = Categories BY <1>5, <1>6, Upwards
<1>8. \A c \in Categories : top_of_chain(c) = f[c] BY <1>3 DEF top_of_chain
<1> QED BY <1>7, <1>8 DEF G

(* The categories walked from d: none from a root, whose children are tops.  *)
Kids(d) == IF d \in RootCategories THEN {} ELSE Children(d)

(* The children are the categories a step below.                             *)
LEMMA KidsAre ==
  ASSUME NEW d \in Categories
  PROVE  Kids(d) = {e \in Categories : d \in Step(e)} /\ IsFiniteSet(Kids(d))
<1>1. Kids(d) = {e \in Categories : d \in Step(e)}
  BY CategoriesAreATree DEF Kids, Children, Step, RootCategories
<1>2. Kids(d) \in SUBSET Categories BY <1>1
<1> QED BY <1>1, <1>2, CategoriesAreATree, FS_Subset

(* A climb that passes d comes to it from one of its kids.                   *)
LEMMA KidOnTheWay ==
  ASSUME NEW c \in Categories, NEW d \in Categories
  PROVE  /\ d \in Above(c) /\ c # d => \E e \in Kids(d) : e \in Above(c)
         /\ \A e \in Kids(d) : e \in Above(c) => d \in Above(c) /\ c # d
         /\ \A e1, e2 \in Kids(d) : e1 \in Above(c) /\ e2 \in Above(c) => e1 = e2
<1> DEFINE G == {b \in Categories : d \in Above(b) /\ b # d => \E e \in Kids(d) : e \in Above(b)}
<1>1. ASSUME NEW b \in Categories, Step(b) \subseteq G PROVE b \in G
  <2> SUFFICES ASSUME d \in Above(b), b # d PROVE \E e \in Kids(d) : e \in Above(b) OBVIOUS
  <2>1. CASE Step(b) = {} BY <2>1, AboveIs
  <2>2. ASSUME NEW p \in Step(b) PROVE \E e \in Kids(d) : e \in Above(b)
    <3>1. Above(b) = {b} \cup Above(p) BY AboveIs
    <3>2. CASE p = d BY <3>1, <3>2, KidsAre
    <3>3. CASE p # d BY <1>1, <3>1, <3>3
    <3> QED BY <3>2, <3>3
  <2> QED BY <2>1, <2>2
<1> HIDE DEF G
<1>2. G \in SUBSET Categories BY DEF G
<1>3. G = Categories BY <1>1, <1>2, Upwards
<1>4. ASSUME NEW e \in Kids(d)
      PROVE  e \in Categories /\ Above(e) = {e} \cup Above(d) /\ e \notin Above(d) /\ d \in Above(d)
  <2>1. e \in Categories /\ d \in Step(e) BY KidsAre
  <2> QED BY <2>1, AboveIs, AboveGoesOn
<1>5. ASSUME NEW e \in Kids(d), e \in Above(c) PROVE d \in Above(c) /\ c # d
  <2>1. Above(e) \subseteq Above(c) BY <1>5, AboveGoesOn
  <2> QED BY <1>4, <1>5, <2>1
<1>6. ASSUME NEW e1 \in Kids(d), NEW e2 \in Kids(d), e1 \in Above(c), e2 \in Above(c) PROVE e1 = e2
  <2>1. e1 \in Above(e2) \/ e2 \in Above(e1) BY <1>6, AboveIsALine
  <2> QED BY <1>4, <2>1
<1> QED BY <1>3, <1>5, <1>6 DEF G

-----------------------------------------------------------------------------
(* The drill-down.                                                           *)

(* Rows filed under a category of the tree or under none.                    *)
FiledRows(S) == Rows(S) /\ \A r \in S : r.category \in Categories \cup {None}

(* The rows filed under d or under a category it is walked to from.          *)
Under(S, d) == {r \in S : r.category \in Categories /\ d \in Above(r.category)}

(* Parts of filed rows are filed rows.                                       *)
LEMMA PartsAreFiled == ASSUME NEW S, FiledRows(S), NEW A \in SUBSET S PROVE FiledRows(A) /\ Rows(A)
BY RowsAdd DEF FiledRows

(* A category's merchants and its kids' nodes make the node of all under it. *)
LEMMA NodeOfUnder ==
  ASSUME NEW S, FiledRows(S), NEW d \in Categories
  PROVE  SumNodes(<<SumNodes(merchant_nodes(Own(S, d))),
                    SumNodes([e \in Kids(d) |-> Weigh(Under(S, e))])>>) = Weigh(Under(S, d))
<1>1. PICK A, B : A = Own(S, d) /\ B = {r \in Under(S, d) : r.category # d} OBVIOUS
<1>2. A \in SUBSET S /\ B \in SUBSET S /\ A \cap B = {} BY <1>1 DEF Own, Under
<1>3. A \cup B = Under(S, d) BY <1>1, AboveGoesOn DEF Own, Under
<1>4. Rows(A) /\ Rows(B) /\ Rows(A \cup B) BY <1>2, PartsAreFiled
<1>5. SumNodes(merchant_nodes(A)) = Weigh(A) BY <1>4, MerchantNodes
<1>6. PICK g : g = [r \in B |-> CHOOSE e \in Kids(d) : e \in Above(r.category)] OBVIOUS
<1>7. \A r \in B : r \in S /\ r.category \in Categories /\ g[r] \in Kids(d) /\ g[r] \in Above(r.category)
  <2> TAKE r \in B
  <2>1. r \in S /\ r.category \in Categories /\ d \in Above(r.category) /\ r.category # d BY <1>1 DEF Under
  <2>2. \E e \in Kids(d) : e \in Above(r.category) BY <2>1, KidOnTheWay
  <2> QED BY <1>6, <2>1, <2>2
<1>8. ASSUME NEW e \in Kids(d) PROVE {r \in B : g[r] = e} = Under(S, e)
  <2>1. ASSUME NEW r \in B, g[r] = e PROVE r \in Under(S, e) BY <1>7, <2>1 DEF Under
  <2>2. ASSUME NEW r \in Under(S, e) PROVE r \in B /\ g[r] = e
    <3>1. r \in S /\ r.category \in Categories /\ e \in Above(r.category) BY DEF Under
    <3>2. d \in Above(r.category) /\ r.category # d BY <3>1, KidOnTheWay
    <3>3. r \in B BY <1>1, <3>1, <3>2 DEF Under
    <3> QED BY <1>7, <3>1, <3>3, KidOnTheWay
  <2> QED BY <2>1, <2>2
<1>9. SumNodes([e \in Kids(d) |-> Weigh({r \in B : g[r] = e})]) = Weigh(B)
  <2>1. PICK K : K = Kids(d) OBVIOUS
  <2>2. IsFiniteSet(K) /\ \A r \in B : g[r] \in K BY <1>7, <2>1, KidsAre
  <2>3. SumNodes([e \in K |-> Weigh({r \in B : g[r] = e})]) = Weigh(B) BY ONLY <1>4, <2>2, NodesOfParts
  <2> QED BY <2>1, <2>3
<1>10. [e \in Kids(d) |-> Weigh({r \in B : g[r] = e})] = [e \in Kids(d) |-> Weigh(Under(S, e))] BY <1>8
<1>11. SumNodes(<<Weigh(A), Weigh(B)>>) = Weigh(A \cup B) BY <1>2, <1>4, NodesOfTwo
<1> QED BY <1>1, <1>3, <1>5, <1>9, <1>10, <1>11

(* The walk from a category finds the node of all under it.                  *)
LEMMA CategoryNode ==
  ASSUME NEW S, FiledRows(S)
  PROVE  \A d \in Categories : category_node(S, d) = Weigh(Under(S, d))
<1> DEFINE At(f, d) == SumNodes(<<SumNodes(merchant_nodes(Own(S, d))), SumNodes([e \in Kids(d) |-> f[e]])>>)
           Walks(f) == f = [d \in Categories |-> At(f, d)]
<1>0. \A d \in Categories : Kids(d) = {e \in Categories : d \in Step(e)} BY KidsAre
<1>1. PICK W : W = [d \in Categories |-> Weigh(Under(S, d))] OBVIOUS
<1>2. Walks(W)
  <2>1. ASSUME NEW d \in Categories PROVE W[d] = At(W, d)
    <3>1. [e \in Kids(d) |-> W[e]] = [e \in Kids(d) |-> Weigh(Under(S, e))] BY <1>0, <1>1
    <3> QED BY <1>1, <3>1, NodeOfUnder
  <2>2. W = [d \in Categories |-> W[d]] BY <1>1
  <2> HIDE DEF At
  <2> QED BY <2>1, <2>2
<1>3. PICK f : f = (CHOOSE g : Walks(g)) OBVIOUS
<1>4. Walks(f)
  <2> HIDE DEF Walks
  <2> QED BY <1>2, <1>3
<1> DEFINE G == {d \in Categories : f[d] = Weigh(Under(S, d))}
<1>5. ASSUME NEW d \in Categories, \A e \in Categories : d \in Step(e) => e \in G PROVE d \in G
  <2>1. \A e \in Kids(d) : f[e] = Weigh(Under(S, e)) BY <1>0, <1>5
  <2>2. [e \in Kids(d) |-> f[e]] = [e \in Kids(d) |-> Weigh(Under(S, e))] BY <2>1
  <2>3. f[d] = At(f, d)
    <3> HIDE DEF At
    <3> QED BY <1>4
  <2> QED BY <2>2, <2>3, NodeOfUnder
<1> HIDE DEF G
<1>6. G \in SUBSET Categories BY DEF G
<1>7. G = Categories BY <1>5, <1>6, Downwards
<1>8. \A d : category_node(S, d) = f[d] BY <1>3 DEF category_node, Kids
<1> QED BY <1>7, <1>8 DEF G

(* A branch of the drill-down holds every row of its side once.              *)
LEMMA CategoryBranch ==
  ASSUME NEW S, FiledRows(S)
  PROVE  category_branch(S) = Weigh(S)
<1>1. PICK A, B : A = {r \in S : r.category # None} /\ B = Own(S, None) OBVIOUS
<1>2. A \in SUBSET S /\ B \in SUBSET S /\ A \cap B = {} /\ A \cup B = S BY <1>1 DEF Own
<1>3. Rows(A) /\ Rows(B) /\ Rows(S) BY <1>2, PartsAreFiled
<1>4. \A r \in A : r.category \in Categories BY <1>1 DEF FiledRows
<1>5. PICK g : g = [r \in A |-> top_of_chain(r.category)] OBVIOUS
<1>6. PICK tops : tops = {g[r] : r \in A} OBVIOUS
<1>7. IsFiniteSet(tops)
  <2>1. DOMAIN g = A /\ IsFiniteSet(A) BY <1>3, <1>5 DEF Rows
  <2> QED BY <1>6, <2>1, FiniteImage
<1>8. \A r \in A : g[r] = Top(r.category) BY <1>4, <1>5, TopOfChain
<1>9. ASSUME NEW c \in tops PROVE category_node(S, c) = Weigh({r \in A : g[r] = c})
  <2>1. PICK s \in A : c = Top(s.category) BY <1>6, <1>8
  <2>2. c \in Categories /\ Step(c) = {} BY <1>4, <2>1, TopIs
  <2>3. \A r \in A : g[r] = c <=> c \in Above(r.category)
    <3> TAKE r \in A
    <3>1. r.category \in Categories /\ g[r] = Top(r.category) BY <1>4, <1>8
    <3> QED BY <2>2, <3>1, TopIs
  <2>4. {r \in A : g[r] = c} = Under(S, c)
    BY <1>1, <1>4, <2>3, CategoriesAreATree DEF Under
  <2> QED BY <2>2, <2>4, CategoryNode
<1>10. [c \in tops |-> category_node(S, c)] = [c \in tops |-> Weigh({r \in A : g[r] = c})] BY <1>9
<1>11. SumNodes([c \in tops |-> Weigh({r \in A : g[r] = c})]) = Weigh(A)
  BY ONLY <1>3, <1>6, <1>7, NodesOfParts
<1>12. SumNodes(merchant_nodes(B)) = Weigh(B) BY <1>3, MerchantNodes
<1>13. SumNodes(<<Weigh(A), Weigh(B)>>) = Weigh(S) BY <1>2, <1>3, NodesOfTwo
<1>14. tops = {top_of_chain(r.category) : r \in {s \in S : s.category # None}} BY <1>1, <1>5, <1>6
<1>15. category_branch(S) = SumNodes(<<SumNodes([c \in tops |-> category_node(S, c)]),
                                       SumNodes(merchant_nodes(Own(S, None)))>>)
  BY <1>14 DEF category_branch
<1> QED BY <1>1, <1>10, <1>11, <1>12, <1>13, <1>15

-----------------------------------------------------------------------------
(* The tiles, and what agrees with them.                                     *)

(* A row of zero is neither earned nor spent, and adds nothing to either.    *)
LEMMA SpentIsAll ==
  ASSUME NEW S, Rows(S)
  PROVE  Total(S \ Earned(S)) = Total(Spent(S))
<1>1. PICK A, Z : A = Spent(S) /\ Z = {r \in S : r.amount = 0} OBVIOUS
<1>2. A \in SUBSET S /\ Z \in SUBSET S /\ A \cap Z = {} /\ A \cup Z = S \ Earned(S)
  BY <1>1 DEF Spent, Earned, Rows
<1>3. IsFiniteSet(S) /\ IsFiniteSet(A) /\ IsFiniteSet(Z) /\ A \cup Z \in SUBSET S
  BY <1>2, FS_Subset DEF Rows
<1>4. \A r \in S : Magnitudes(S)[r] \in Int BY RowsAdd
<1>5. Sum(Magnitudes(S), A \cup Z) = Sum(Magnitudes(S), A) + Sum(Magnitudes(S), Z)
  <2>1. \A r \in A \cup Z : Magnitudes(S)[r] \in Int BY <1>2, <1>4
  <2> QED BY ONLY <1>2, <1>3, <2>1, SumUnion
<1>6. Sum(Magnitudes(S), Z) = 0
  <2>1. \A r \in Z : Magnitudes(S)[r] = 0 BY <1>1 DEF Magnitudes, Magnitude
  <2> QED BY <1>3, <2>1, SumZero
<1>7. Total(A) = Sum(Magnitudes(S), A) /\ Total(A \cup Z) = Sum(Magnitudes(S), A \cup Z)
  BY <1>2, <1>3, TotalIs
<1>8. Total(A) \in Int BY <1>2, RowsAdd
<1>9. PICK a, b : a = Total(A) /\ b = Total(A \cup Z) OBVIOUS
<1>10. b = a + 0 /\ a \in Int BY <1>5, <1>6, <1>7, <1>8, <1>9
<1>11. a = b BY ONLY <1>10
<1> QED BY <1>1, <1>2, <1>9, <1>11

(* The donut's slices make the tile.                                         *)
LEMMA DonutAgrees ==
  ASSUME NEW S, Rows(S)
  PROVE  SumFunction(spending_by_category(S)) = Total(S \ Earned(S))
<1>1. PICK A : A = Spent(S) OBVIOUS
<1>2. Rows(A) /\ A \in SUBSET S BY <1>1, RowsAdd DEF Spent
<1>3. PICK g : g = [r \in A |-> r.category] OBVIOUS
<1>4. PICK K : K = {g[r] : r \in A} OBVIOUS
<1>5. IsFiniteSet(K)
  <2>1. DOMAIN g = A /\ IsFiniteSet(A) BY <1>2, <1>3 DEF Rows
  <2> QED BY <1>4, <2>1, FiniteImage
<1>6. Sum([k \in K |-> Total({r \in A : g[r] = k})], K) = Total(A) BY <1>2, <1>4, <1>5, TotalParts
<1>7. PICK h : h = spending_by_category(S) OBVIOUS
<1>8. K = {r.category : r \in A} BY <1>3, <1>4
<1>9. \A k \in K : {r \in A : r.category = k} = {r \in A : g[r] = k} BY <1>3
<1>10. h = [k \in K |-> Total({r \in A : g[r] = k})] /\ DOMAIN h = K
  BY <1>1, <1>7, <1>8, <1>9 DEF spending_by_category
<1> QED BY <1>1, <1>6, <1>7, <1>10, SumFunctionIs, SpentIsAll

(* A branch for each side: the tiles' amounts, and every row counted.        *)
LEMMA BranchesAgree ==
  ASSUME NEW S, FiledRows(S)
  PROVE  /\ category_branch(Earned(S)).amount = Total(Earned(S))
         /\ category_branch(S \ Earned(S)).amount = Total(S \ Earned(S))
         /\ category_branch(Earned(S)).count + category_branch(S \ Earned(S)).count = Cardinality(S)
<1>1. PICK A, B : A = Earned(S) /\ B = S \ Earned(S) OBVIOUS
<1>2. A \in SUBSET S /\ B \in SUBSET S /\ A \cap B = {} /\ A \cup B = S BY <1>1 DEF Earned
<1>3. FiledRows(A) /\ FiledRows(B) BY <1>2, PartsAreFiled
<1>4. category_branch(A) = Weigh(A) /\ category_branch(B) = Weigh(B) BY <1>3, CategoryBranch
<1>5. Cardinality(S) = Cardinality(A) + Cardinality(B)
  <2>1. IsFiniteSet(A) /\ IsFiniteSet(B) BY <1>3 DEF FiledRows, Rows
  <2>2. Cardinality(A \cap B) = 0 BY <1>2, FS_EmptySet
  <2>3. Cardinality(A \cup B) = Cardinality(A) + Cardinality(B) - Cardinality(A \cap B) BY <2>1, FS_Union
  <2>4. Cardinality(A) \in Nat /\ Cardinality(B) \in Nat BY <2>1, FS_CardinalityType
  <2> QED BY <1>2, <2>2, <2>3, <2>4
<1> QED BY <1>1, <1>4, <1>5 DEF Weigh

(* The transfers' groups hold each transfer of the period once.              *)
LEMMA TransfersAgree ==
  ASSUME NEW moves, IsFiniteSet(moves), NEW prefs, NEW now
  PROVE  LET p == resolve_period(prefs, now)
         IN transfers_branch(moves, prefs, Everything, now).count
              = Cardinality({m \in moves : p[1] <= m.debit.on /\ m.debit.on <= p[2]})
<1>1. PICK p : p = resolve_period(prefs, now) OBVIOUS
<1>2. PICK shown : shown = {m \in moves : p[1] <= m.debit.on /\ m.debit.on <= p[2]} OBVIOUS
<1>3. IsFiniteSet(shown)
  <2>1. shown \in SUBSET moves BY <1>2
  <2> QED BY <2>1, FS_Subset
<1>4. PICK g : g = [m \in shown |-> <<m.debit.account, m.credit.account>>] OBVIOUS
<1>5. PICK K : K = {g[m] : m \in shown} OBVIOUS
<1>6. IsFiniteSet(K)
  <2>1. DOMAIN g = shown BY <1>4
  <2> QED BY <1>3, <1>5, <2>1, FiniteImage
<1>7. Sum([k \in K |-> Cardinality({m \in shown : g[m] = k})], K) = Cardinality(shown)
  BY <1>3, <1>5, <1>6, CountParts
<1>8. PICK nodes : nodes = [q \in K |-> [amount |-> Total({m.debit : m \in {m \in shown : g[m] = q}}),
                                         count |-> Cardinality({m \in shown : g[m] = q})]]
  OBVIOUS
<1>9. PICK h : h = [n \in DOMAIN nodes |-> nodes[n].count] OBVIOUS
<1>10. h = [k \in K |-> Cardinality({m \in shown : g[m] = k})] /\ DOMAIN h = K BY <1>8, <1>9
<1>11. SumNodes(nodes).count = Cardinality(shown) BY <1>7, <1>9, <1>10, SumFunctionIs DEF SumNodes
<1>12. K = {<<m.debit.account, m.credit.account>> : m \in shown} BY <1>4, <1>5
<1>13. \A q \in K : {m \in shown : g[m] = q} = {m \in shown : <<m.debit.account, m.credit.account>> = q} BY <1>4
<1>14. PICK group : group = [q \in K |-> {m \in shown : <<m.debit.account, m.credit.account>> = q}] OBVIOUS
<1>15. nodes = [q \in K |-> [amount |-> Total({m.debit : m \in group[q]}), count |-> Cardinality(group[q])]]
  BY <1>8, <1>13, <1>14
<1>16. shown = {m \in moves : /\ p[1] <= m.debit.on /\ m.debit.on <= p[2]
                              /\ \/ Everything = Everything
                                 \/ {m.debit.account, m.credit.account} \cap Everything # {}}
  BY <1>2
<1>17. transfers_branch(moves, prefs, Everything, now)
         = SumNodes([q \in K |-> [amount |-> Total({m.debit : m \in {m \in shown : <<m.debit.account, m.credit.account>> = q}}),
                                  count |-> Cardinality({m \in shown : <<m.debit.account, m.credit.account>> = q})]])
  BY <1>1, <1>12, <1>16 DEF transfers_branch
<1>18. transfers_branch(moves, prefs, Everything, now) = SumNodes(nodes) BY <1>14, <1>15, <1>17
<1> QED BY <1>1, <1>2, <1>11, <1>18

-----------------------------------------------------------------------------
(* Periods.                                                                  *)
Month(ym) == ym = <<ym[1], ym[2]>> /\ ym[1] \in Int /\ ym[2] \in 1..12
Date(d) == d \in Int /\ month(d) \in 1..12 /\ day(d) \in 1..99

(* The parts of a date.                                                      *)
LEMMA DateParts ==
  ASSUME NEW y \in Int, NEW m \in 1..12, NEW d \in 1..99
  PROVE  /\ date(y, m, d) \in Int /\ year(date(y, m, d)) = y /\ month(date(y, m, d)) = m
         /\ day(date(y, m, d)) = d /\ Date(date(y, m, d))
<1>1. PICK n \in Int : n = 10000 * y + 100 * m + d OBVIOUS
<1>2. 0 <= 100 * m + d /\ 100 * m + d < 10000 OBVIOUS
<1>3. n \div 10000 = y BY ONLY <1>1, <1>2, y \in Int, m \in 1..12, d \in 1..99
<1>4. n \div 100 = 100 * y + m BY ONLY <1>1, y \in Int, m \in 1..12, d \in 1..99
<1>5. (100 * y + m) % 100 = m BY ONLY y \in Int, m \in 1..12
<1>6. n % 100 = d BY ONLY <1>1, y \in Int, m \in 1..12, d \in 1..99
<1>7. date(y, m, d) = n BY <1>1 DEF date
<1> QED BY <1>3, <1>4, <1>5, <1>6, <1>7 DEF year, month, day, Date

(* A month ends on a day of its own.                                         *)
LEMMA MonthEnd ==
  ASSUME NEW ym, Month(ym)
  PROVE  <<year(month_bounds(ym)[2]), month(month_bounds(ym)[2])>> = ym /\ month_bounds(ym)[2] \in Int
<1>1. monthrange(ym[1], ym[2]) \in 1..99 BY DEF monthrange
<1>2. PICK y \in Int, m \in 1..12 : ym = <<y, m>> BY DEF Month
<1>3. PICK d \in 1..99 : d = monthrange(y, m) BY <1>1, <1>2
<1>4. month_bounds(ym)[2] = date(y, m, d) BY <1>2, <1>3 DEF month_bounds
<1>5. year(date(y, m, d)) = y /\ month(date(y, m, d)) = m /\ date(y, m, d) \in Int BY DateParts
<1> QED BY <1>2, <1>4, <1>5

(* The first of the months back from a month is the month.                   *)
LEMMA MonthsBackFirst ==
  ASSUME NEW ym, Month(ym), NEW n \in Nat, n > 0
  PROVE  MonthsBack(ym, n)[1] = ym
<1>1. PICK y \in Int, m \in 1..12 : y = ym[1] /\ m = ym[2] BY DEF Month
<1>2. (12 * y + m - 1) \div 12 = y BY ONLY y \in Int, m \in 1..12
<1>3. ((12 * y + m - 1) % 12) + 1 = m BY ONLY y \in Int, m \in 1..12
<1>4. MonthsBack(ym, n)[1] = <<(12 * y + m - 1) \div 12, ((12 * y + m - 1) % 12) + 1>>
  <2>1. 1 \in 1..n OBVIOUS
  <2>2. MonthsBack(ym, n)[1] = <<(12 * ym[1] + ym[2] - 1) \div 12, ((12 * ym[1] + ym[2] - 1) % 12) + 1>>
    BY <2>1 DEF MonthsBack
  <2> QED BY <1>1, <2>2
<1> QED BY <1>1, <1>2, <1>3, <1>4 DEF Month

(* The month before a month is one.                                          *)
LEMMA PrevMonth == ASSUME NEW ym, Month(ym) PROVE Month(prev_month(ym))
BY DEF Month, prev_month

(* In the three month modes the period is a month, from which the trend      *)
(* starts.                                                                   *)
Prefs(mode, now) == [mode |-> mode, year |-> year(now), month |-> month(now)]

(* The period is a month, and the trend's steps go back from it.             *)
LEMMA PeriodIsAMonth ==
  ASSUME NEW now, Date(now), NEW mode \in MonthModes
  PROVE  LET p == resolve_period(Prefs(mode, now), now)
         IN \E ym : /\ Month(ym) /\ p = month_bounds(ym) /\ p[2] \in Int
                    /\ \A n \in Nat : n > 0 => MonthsBack(<<year(p[2]), month(p[2])>>, n)[1] = ym
<1>1. PICK ym : ym = <<year(now), month(now)>> OBVIOUS
<1>2. Month(ym) BY <1>1 DEF Date, Month, year
<1>3. PICK p : p = resolve_period(Prefs(mode, now), now) OBVIOUS
<1>4. p = month_bounds(ym) \/ p = month_bounds(prev_month(ym))
  BY <1>1, <1>3 DEF resolve_period, MonthModes, Prefs
<1>5. PICK zm : Month(zm) /\ p = month_bounds(zm) BY <1>2, <1>4, PrevMonth
<1>6. <<year(p[2]), month(p[2])>> = zm /\ p[2] \in Int BY <1>5, MonthEnd
<1> QED BY <1>3, <1>5, <1>6, MonthsBackFirst

(* The rows of a period.                                                     *)
LEMMA CountedRows ==
  ASSUME NEW R, FiledRows(R), NEW ex, NEW prefs, NEW scope, NEW now
  PROVE  FiledRows(Counted(R, ex, prefs, scope, now))
<1>1. Counted(R, ex, prefs, scope, now) \in SUBSET R BY DEF Counted, rows_in_range
<1> QED BY <1>1, PartsAreFiled

(* The trend's newest month is the period's, in the month modes.             *)
LEMMA TrendAgrees ==
  ASSUME NEW R, NEW ex, NEW scope, NEW now, Date(now), NEW mode \in MonthModes
  PROVE  LET prefs == Prefs(mode, now)
             count == Counted(R, ex, prefs, scope, now)
         IN monthly_trend(R, ex, prefs, scope, now)[1]
              = [income |-> Total(Earned(count)), expenditure |-> Total(count \ Earned(count))]
<1>1. PICK prefs : prefs = Prefs(mode, now) OBVIOUS
<1>2. PICK p : p = resolve_period(prefs, now) OBVIOUS
<1>3. PICK ym : p = month_bounds(ym) /\ MonthsBack(<<year(p[2]), month(p[2])>>, 12)[1] = ym
  BY <1>1, <1>2, PeriodIsAMonth
<1>4. PICK months : months = resolve_trend_months(prefs, now) OBVIOUS
<1>5. months[1] = ym BY <1>2, <1>3, <1>4 DEF resolve_trend_months
<1>6. PICK count : count = Counted(R, ex, prefs, scope, now) OBVIOUS
<1>7. {r \in rows_in_range(R, month_bounds(months[1])[1], month_bounds(months[1])[2], scope) : r.id \notin ex} = count
  BY <1>2, <1>3, <1>5, <1>6 DEF Counted
<1>8. monthly_trend(R, ex, prefs, scope, now)[1]
        = [income |-> Total(Earned({r \in rows_in_range(R, month_bounds(months[1])[1], month_bounds(months[1])[2], scope) : r.id \notin ex})),
           expenditure |-> Total({r \in rows_in_range(R, month_bounds(months[1])[1], month_bounds(months[1])[2], scope) : r.id \notin ex}
                                   \ Earned({r \in rows_in_range(R, month_bounds(months[1])[1], month_bounds(months[1])[2], scope) : r.id \notin ex}))]
  BY <1>4 DEF monthly_trend
<1> QED BY <1>1, <1>6, <1>7, <1>8

(* A month that is over is summed up whole.                                  *)
LEMMA SummaryAgrees ==
  ASSUME NEW R, NEW ex, NEW scope, NEW now, Date(now), NEW mode,
         LET prefs == Prefs(mode, now)
         IN /\ month_summary(R, ex, prefs, scope, now).verdict # "silent"
            /\ resolve_period(prefs, now)[2] < now
  PROVE  LET prefs == Prefs(mode, now)
         IN month_summary(R, ex, prefs, scope, now).spend = Total(Spent(Counted(R, ex, prefs, scope, now)))
<1>1. PICK prefs : prefs = Prefs(mode, now) OBVIOUS
<1>2. PICK p : p = resolve_period(prefs, now) OBVIOUS
<1>3. PICK says : says = month_summary(R, ex, prefs, scope, now) OBVIOUS
<1>4. prefs.mode \in MonthModes
  <2>1. says.verdict # "silent" BY <1>1, <1>3
  <2>2. prefs.mode \notin MonthModes => says = [verdict |-> "silent", cause |-> None, spend |-> 0]
    BY ONLY <1>3 DEF month_summary
  <2>3. says = [verdict |-> "silent", cause |-> None, spend |-> 0] => says.verdict = "silent" BY ONLY TRUE
  <2> QED BY ONLY <2>1, <2>2, <2>3
<1>5. mode \in MonthModes BY <1>1, <1>4 DEF Prefs
<1>6. PICK ym : /\ Month(ym) /\ p = month_bounds(ym) /\ p[2] \in Int
                /\ \A n \in Nat : n > 0 => MonthsBack(<<year(p[2]), month(p[2])>>, n)[1] = ym
  <2>1. p = resolve_period(Prefs(mode, now), now) BY ONLY <1>1, <1>2
  <2>2. LET q == resolve_period(Prefs(mode, now), now)
        IN \E ym : /\ Month(ym) /\ q = month_bounds(ym) /\ q[2] \in Int
                   /\ \A n \in Nat : n > 0 => MonthsBack(<<year(q[2]), month(q[2])>>, n)[1] = ym
    BY ONLY <1>5, Date(now), PeriodIsAMonth, ZenonT(20)
  <2> QED BY ONLY <2>1, <2>2
<1> DEFINE end     == resolve_period(prefs, now)[2]
           months  == MonthsBack(<<year(end), month(end)>>, BaselineMonths + 1)
           bounds  == month_bounds(months[1])
           started == bounds[1] <= now
           partial == started /\ now <= bounds[2]
           head    == IF partial THEN head_day(now, months) ELSE 0
           window  == [k \in DOMAIN months |-> spend_rows(R, months[k], head, scope, ex)]
           priors  == {k \in 2..Len(window) : window[k] # {}}
           before  == UNION {window[k] : k \in priors}
           item    == [partial |-> partial, started |-> started,
                       days |-> IF partial THEN head ELSE monthrange(months[1][1], months[1][2]),
                       spend |-> Total(window[1]), prior_total |-> Total(before),
                       prior_count |-> Cardinality(priors), candidate |-> candidate(window[1], before)]
<1>7. says = IF \/ prefs.mode \notin MonthModes
                \/ prefs.mode = "specific_month" /\ (prefs.year = None \/ prefs.month = None)
             THEN [verdict |-> "silent", cause |-> None, spend |-> 0]
             ELSE summarise_month(item)
  BY ONLY <1>3 DEF month_summary
<1>8. months[1] = ym /\ 1 \in DOMAIN months
  <2>1. BaselineMonths + 1 \in Nat /\ BaselineMonths + 1 > 0 BY DEF BaselineMonths
  <2>2. PICK n \in Nat : n = BaselineMonths + 1 /\ n > 0 BY <2>1
  <2>3. months = MonthsBack(<<year(p[2]), month(p[2])>>, n) BY <1>2, <2>2
  <2>4. DOMAIN months = 1..n BY <2>3 DEF MonthsBack
  <2> HIDE DEF months
  <2> QED BY <1>6, <2>2, <2>3, <2>4
<1>9. ~ partial
  <2>1. p[2] < now /\ p[2] \in Int /\ now \in Int BY <1>1, <1>2, <1>6 DEF Date
  <2>2. bounds[2] = p[2]
    <3> HIDE DEF months
    <3> QED BY <1>6, <1>8
  <2> HIDE DEF bounds
  <2> QED BY <2>1, <2>2
<1>10. head = 0
  <2> HIDE DEF partial
  <2> QED BY <1>9
<1>11. window[1] = spend_rows(R, ym, 0, scope, ex)
  <2> HIDE DEF months, head
  <2> QED BY <1>8, <1>10
<1>12. says.spend = Total(window[1])
  <2>1. says.verdict # "silent" BY <1>1, <1>3
  <2>2. item.spend = Total(window[1]) OBVIOUS
  <2> HIDE DEF item, window
  <2>3. says = summarise_month(item) BY <1>7, <2>1
  <2>4. says.spend = item.spend BY <2>1, <2>3 DEF summarise_month
  <2> QED BY <2>2, <2>4
<1> HIDE DEF window
<1>13. window[1] = Spent(Counted(R, ex, prefs, scope, now))
  <2>2. spend_rows(R, ym, 0, scope, ex) = {r \in Spent(rows_in_range(R, p[1], p[2], scope)) : r.id \notin ex}
    BY <1>6 DEF spend_rows
  <2>3. PICK A : A = rows_in_range(R, p[1], p[2], scope) OBVIOUS
  <2>4. {r \in Spent(A) : r.id \notin ex} = Spent({r \in A : r.id \notin ex}) BY DEF Spent
  <2>5. Counted(R, ex, prefs, scope, now) = {r \in A : r.id \notin ex} BY <1>2, <2>3 DEF Counted
  <2> QED BY <1>11, <2>2, <2>3, <2>4, <2>5
<1> QED BY <1>1, <1>3, <1>12, <1>13

-----------------------------------------------------------------------------
(* The days that follow a date.                                              *)

(* The greatest of some numbers is the one Max takes, the least Min's.       *)
LEMMA MaxIs ==
  ASSUME NEW S, IsFiniteSet(S), S # {}, \A x \in S : x \in Int
  PROVE  Max(S) \in S /\ \A x \in S : x <= Max(S)
<1>1. \E m \in S : \A y \in S : y <= m BY GreatestInt
<1>2. \E m \in S : \A y \in S : m >= y BY <1>1
<1>3. Max(S) \in S /\ \A y \in S : Max(S) >= y BY <1>2 DEF Max
<1> QED BY <1>3

(* The least of a finite set of integers is in it, and below the rest.       *)
LEMMA MinIs ==
  ASSUME NEW S, IsFiniteSet(S), S # {}, \A x \in S : x \in Int
  PROVE  Min(S) \in S /\ \A x \in S : Min(S) <= x
<1>1. \E m \in S : \A y \in S : m <= y BY LeastInt
<1> QED BY <1>1 DEF Min

(* The table of the months of a year.                                        *)
LEMMA MonthTable ==
  ASSUME NEW y \in Int
  PROVE  \E l \in BOOLEAN :
           /\ l = Leap(y)
           /\ \A m \in 1..12 :
                /\ monthrange(y, m)
                     = CASE m = 2 -> IF l THEN 29 ELSE 28 [] m \in {4, 6, 9, 11} -> 30 [] OTHER -> 31
                /\ DaysBeforeMonth(y, m)
                     = <<0, 31, 59, 90, 120, 151, 181, 212, 243, 273, 304, 334>>[m]
                         + (IF m > 2 /\ l THEN 1 ELSE 0)
<1>1. PICK l \in BOOLEAN : l = Leap(y) BY DEF Leap
<1>2. \A m \in 1..12 : monthrange(y, m)
         = CASE m = 2 -> IF l THEN 29 ELSE 28 [] m \in {4, 6, 9, 11} -> 30 [] OTHER -> 31
  BY <1>1 DEF monthrange
<1>3. \A m \in 1..12 : DaysBeforeMonth(y, m)
         = <<0, 31, 59, 90, 120, 151, 181, 212, 243, 273, 304, 334>>[m] + (IF m > 2 /\ l THEN 1 ELSE 0)
  BY <1>1 DEF DaysBeforeMonth
<1> QED BY <1>1, <1>2, <1>3

(* A month's length, and where in its year it begins.                        *)
LEMMA MonthIs ==
  ASSUME NEW y \in Int, NEW m \in 1..12
  PROVE  DaysBeforeMonth(y, m) \in Int /\ monthrange(y, m) \in 28..31
<1>1. monthrange(y, m) \in 28..31 BY MonthTable
<1>2. DaysBeforeMonth(y, m) \in Int BY MonthTable
<1> QED BY <1>1, <1>2

(* A year begins with its January.                                           *)
LEMMA JanuaryFirst == ASSUME NEW y \in Int PROVE DaysBeforeMonth(y, 1) = 0
BY DEF DaysBeforeMonth

(* A month begins in its year and ends no later than the year.               *)
LEMMA MonthFits ==
  ASSUME NEW y \in Int, NEW m \in 1..12
  PROVE  /\ 0 <= DaysBeforeMonth(y, m)
         /\ DaysBeforeMonth(y, m) + monthrange(y, m) <= 365 + (IF Leap(y) THEN 1 ELSE 0)
<1>1. PICK l \in BOOLEAN, A \in Int, r \in 28..31 :
        /\ l = Leap(y) /\ A = DaysBeforeMonth(y, m) /\ r = monthrange(y, m)
        /\ r = CASE m = 2 -> IF l THEN 29 ELSE 28 [] m \in {4, 6, 9, 11} -> 30 [] OTHER -> 31
        /\ A = <<0, 31, 59, 90, 120, 151, 181, 212, 243, 273, 304, 334>>[m]
                 + (IF m > 2 /\ l THEN 1 ELSE 0)
  <2>1. PICK l \in BOOLEAN :
          /\ l = Leap(y)
          /\ monthrange(y, m)
               = CASE m = 2 -> IF l THEN 29 ELSE 28 [] m \in {4, 6, 9, 11} -> 30 [] OTHER -> 31
          /\ DaysBeforeMonth(y, m)
               = <<0, 31, 59, 90, 120, 151, 181, 212, 243, 273, 304, 334>>[m]
                   + (IF m > 2 /\ l THEN 1 ELSE 0)
    BY MonthTable
  <2>2. DaysBeforeMonth(y, m) \in Int /\ monthrange(y, m) \in 28..31 BY MonthIs
  <2> WITNESS l \in BOOLEAN, DaysBeforeMonth(y, m) \in Int, monthrange(y, m) \in 28..31
  <2> QED BY <2>1
<1>2. 0 <= A /\ A + r <= 365 + (IF l THEN 1 ELSE 0)
  BY ONLY <1>1, l \in BOOLEAN, A \in Int, r \in 28..31, m \in 1..12
<1> QED BY <1>1, <1>2

(* December ends with the year.                                              *)
LEMMA DecemberLast ==
  ASSUME NEW y \in Int
  PROVE  DaysBeforeMonth(y, 12) + monthrange(y, 12) = 365 + (IF Leap(y) THEN 1 ELSE 0)
BY MonthTable

(* A month of a year begins where the one before it ends.                    *)
LEMMA MonthsMeet ==
  ASSUME NEW y \in Int, NEW m \in 1..11
  PROVE  DaysBeforeMonth(y, m + 1) = DaysBeforeMonth(y, m) + monthrange(y, m)
BY MonthTable

(* A month ends before the later ones of its year begin.                     *)
LEMMA MonthsApart ==
  ASSUME NEW y \in Int, NEW m \in 1..12, NEW k \in 1..12, m < k
  PROVE  DaysBeforeMonth(y, m) + monthrange(y, m) <= DaysBeforeMonth(y, k)
BY MonthTable

(* A year begins a year after the one before.                                *)
LEMMA YearStarts ==
  ASSUME NEW y \in Int
  PROVE  /\ DaysBeforeYear(y) \in Int
         /\ DaysBeforeYear(y + 1) = DaysBeforeYear(y) + 365 + (IF Leap(y) THEN 1 ELSE 0)
<1>1. PICK x \in Int : x = y - 1 OBVIOUS
<1>2. (x + 1) \div 4 - x \div 4 = IF (x + 1) % 4 = 0 THEN 1 ELSE 0 BY ONLY x \in Int
<1>3. (x + 1) \div 100 - x \div 100 = IF (x + 1) % 100 = 0 THEN 1 ELSE 0 BY ONLY x \in Int
<1>4. (x + 1) \div 400 - x \div 400 = IF (x + 1) % 400 = 0 THEN 1 ELSE 0 BY ONLY x \in Int
<1>5. PICK a \in Int, b \in Int, c \in Int, e \in Int, f \in Int, g \in Int :
        /\ a = x \div 4 /\ b = x \div 100 /\ c = x \div 400
        /\ e = (x + 1) \div 4 /\ f = (x + 1) \div 100 /\ g = (x + 1) \div 400
  OBVIOUS
<1>6. DaysBeforeYear(y) = 365 * x + a - b + c BY <1>1, <1>5 DEF DaysBeforeYear
<1>7. DaysBeforeYear(y + 1) = 365 * (x + 1) + e - f + g
  <2>1. (y + 1) - 1 = x + 1 BY <1>1
  <2> QED BY <1>5, <2>1 DEF DaysBeforeYear
<1>8. x + 1 = y BY <1>1
<1>9. PICK p, q, r : p = y % 4 /\ q = y % 100 /\ r = y % 400 OBVIOUS
<1>10. /\ p \in Int /\ q \in Int /\ r \in Int /\ (r = 0 => q = 0) /\ (q = 0 => p = 0)
  <2>1. (y % 400 = 0 => y % 100 = 0) /\ (y % 100 = 0 => y % 4 = 0) BY ONLY y \in Int
  <2> QED BY <1>9, <2>1
<1>11. /\ e - a = (IF p = 0 THEN 1 ELSE 0)
       /\ f - b = (IF q = 0 THEN 1 ELSE 0)
       /\ g - c = (IF r = 0 THEN 1 ELSE 0)
  BY <1>2, <1>3, <1>4, <1>5, <1>8, <1>9
<1>12. Leap(y) <=> p = 0 /\ (q # 0 \/ r = 0) BY <1>9 DEF Leap
<1>13. PICK l : l = IF p = 0 /\ (q # 0 \/ r = 0) THEN 1 ELSE 0 OBVIOUS
<1>14. PICK u, v : u = DaysBeforeYear(y) /\ v = DaysBeforeYear(y + 1) OBVIOUS
<1>15. u \in Int /\ v = u + 365 + l
  BY ONLY <1>6, <1>7, <1>10, <1>11, <1>13, <1>14, x \in Int, a \in Int, b \in Int, c \in Int,
          e \in Int, f \in Int, g \in Int
<1> QED BY <1>12, <1>13, <1>14, <1>15

(* ... on an integer.                                                        *)
LEMMA YearIs == ASSUME NEW y \in Int PROVE DaysBeforeYear(y) \in Int
BY YearStarts

(* A year some years on begins at least as many years later.                 *)
LEMMA YearsGrow ==
  ASSUME NEW y \in Int
  PROVE  \A j \in Nat : DaysBeforeYear(y) + 365 * j <= DaysBeforeYear(y + j)
<1> DEFINE S == {j \in Nat : DaysBeforeYear(y) + 365 * j <= DaysBeforeYear(y + j)}
<1>1. 0 \in S
  <2>1. y + 0 = y /\ DaysBeforeYear(y) \in Int BY YearStarts
  <2> QED BY <2>1
<1>2. ASSUME NEW j \in S PROVE j + 1 \in S
  <2>1. j \in Nat /\ DaysBeforeYear(y) + 365 * j <= DaysBeforeYear(y + j) BY <1>2
  <2>2. PICK z \in Int : z = y + j BY <2>1
  <2>3. z + 1 = y + (j + 1) BY <2>1, <2>2
  <2>4. PICK u \in Int, v \in Int, w \in Int :
          /\ u = DaysBeforeYear(y) /\ v = DaysBeforeYear(z) /\ w = DaysBeforeYear(z + 1)
          /\ v + 365 <= w
    <3>1. DaysBeforeYear(y) \in Int /\ DaysBeforeYear(z) \in Int /\ DaysBeforeYear(z + 1) \in Int
      BY YearStarts
    <3>2. DaysBeforeYear(z) + 365 <= DaysBeforeYear(z + 1) BY <3>1, YearStarts
    <3> QED BY <3>1, <3>2
  <2>5. u + 365 * (j + 1) <= w
    <3>1. u + 365 * j <= v BY <2>1, <2>2, <2>4
    <3> QED BY ONLY <2>1, <2>4, <3>1, j \in Nat, u \in Int, v \in Int, w \in Int
  <2>6. DaysBeforeYear(y) + 365 * (j + 1) <= DaysBeforeYear(y + (j + 1)) BY <2>3, <2>4, <2>5
  <2> QED BY <2>1, <2>6
<1>3. S \in SUBSET Nat OBVIOUS
<1>4. S = Nat
  <2> HIDE DEF S
  <2> QED BY <1>1, <1>2, <1>3, NatSetInduction
<1> QED BY <1>4

(* The parts of a date there is, and where in its year it falls.             *)
LEMMA DateIs ==
  ASSUME NEW d, IsDate(d)
  PROVE  /\ Date(d) /\ year(d) \in Int /\ month(d) \in 1..12 /\ day(d) \in 1..31
         /\ d = date(year(d), month(d), day(d))
         /\ ordinal(d) \in Int
         /\ DaysBeforeYear(year(d)) <= ordinal(d) /\ ordinal(d) < DaysBeforeYear(year(d) + 1)
<1>1. PICK y, m, e : y = year(d) /\ m = month(d) /\ e = day(d) OBVIOUS
<1>2. d \in Int /\ y \in Int /\ m \in 1..12 /\ e \in 1..monthrange(y, m) BY <1>1 DEF IsDate, year
<1>3. PICK l \in 28..31 : l = monthrange(y, m) BY <1>2, MonthIs
<1>4. e \in 1..l /\ e \in 1..31 /\ e \in 1..99 BY <1>2, <1>3
<1>5. d = date(y, m, e)
  <2>1. d = 10000 * y + 100 * m + e BY <1>1, <1>2 DEF year, month, day
  <2> QED BY <2>1 DEF date
<1>6. PICK A \in Int, D \in Int, N \in Int, b \in 0..1 :
         /\ A = DaysBeforeMonth(y, m) /\ D = DaysBeforeYear(y) /\ N = DaysBeforeYear(y + 1)
         /\ b = (IF Leap(y) THEN 1 ELSE 0)
         /\ 0 <= A /\ A + l <= 365 + b /\ N = D + 365 + b
  <2>1. DaysBeforeMonth(y, m) \in Int /\ 0 <= DaysBeforeMonth(y, m)
        /\ DaysBeforeMonth(y, m) + l <= 365 + (IF Leap(y) THEN 1 ELSE 0)
    <3>1. 0 <= DaysBeforeMonth(y, m)
          /\ DaysBeforeMonth(y, m) + monthrange(y, m) <= 365 + (IF Leap(y) THEN 1 ELSE 0)
      BY <1>2, MonthFits
    <3>2. DaysBeforeMonth(y, m) \in Int BY <1>2, MonthIs
    <3> QED BY <1>3, <3>1, <3>2
  <2>2. DaysBeforeYear(y) \in Int
        /\ DaysBeforeYear(y + 1) = DaysBeforeYear(y) + 365 + (IF Leap(y) THEN 1 ELSE 0)
    BY <1>2, YearStarts
  <2>3. PICK b \in 0..1 : b = (IF Leap(y) THEN 1 ELSE 0) OBVIOUS
  <2>4. PICK A \in Int : A = DaysBeforeMonth(y, m) BY <2>1
  <2>5. PICK D \in Int : D = DaysBeforeYear(y) BY <2>2
  <2>6. PICK N \in Int : N = D + 365 + b OBVIOUS
  <2>7. N = DaysBeforeYear(y + 1) BY <2>2, <2>3, <2>5, <2>6
  <2> WITNESS A \in Int, D \in Int, N \in Int, b \in 0..1
  <2> QED BY <2>1, <2>3, <2>4, <2>5, <2>6, <2>7
<1>7. ordinal(d) = D + A + e - 1 BY <1>1, <1>6 DEF ordinal
<1>8. ordinal(d) \in Int /\ D <= ordinal(d) /\ ordinal(d) < N
  <2>1. PICK o : o = ordinal(d) OBVIOUS
  <2>2. o = D + A + e - 1 BY <1>7, <2>1
  <2>3. o \in Int /\ D <= o /\ o < N BY ONLY <1>3, <1>4, <1>6, <2>2, A \in Int, D \in Int, N \in Int, b \in 0..1, l \in 28..31
  <2> QED BY <2>1, <2>3
<1>9. Date(d) BY <1>1, <1>2, <1>4 DEF Date
<1>10. /\ year(d) \in Int /\ month(d) \in 1..12 /\ day(d) \in 1..31
       /\ d = date(year(d), month(d), day(d))
  BY ONLY <1>1, <1>2, <1>4, <1>5
<1>11. DaysBeforeYear(year(d)) <= ordinal(d) /\ ordinal(d) < DaysBeforeYear(year(d) + 1)
  BY ONLY <1>1, <1>6, <1>8
<1> QED BY ONLY <1>8, <1>9, <1>10, <1>11

(* Dates are in the order of their days.                                     *)
LEMMA OrdinalGrows ==
  ASSUME NEW d, IsDate(d), NEW e, IsDate(e), d < e
  PROVE  ordinal(d) < ordinal(e)
<1>1. PICK y \in Int, m \in 1..12, a \in 1..31 : y = year(d) /\ m = month(d) /\ a = day(d) BY DateIs
<1>2. PICK z \in Int, n \in 1..12, b \in 1..31 : z = year(e) /\ n = month(e) /\ b = day(e) BY DateIs
<1>3. d = 10000 * y + 100 * m + a /\ e = 10000 * z + 100 * n + b BY <1>1, <1>2, DateIs DEF date
<1>4. \/ y < z
      \/ y = z /\ m < n
      \/ y = z /\ m = n /\ a < b
  BY <1>3
<1>5. CASE y < z
  <2>1. PICK j \in Nat : z = (y + 1) + j
    <3>1. z - (y + 1) \in Nat /\ z = (y + 1) + (z - (y + 1)) BY <1>5
    <3> QED BY <3>1
  <2>2. PICK w \in Int : w = y + 1 OBVIOUS
  <2>3. DaysBeforeYear(w) + 365 * j <= DaysBeforeYear(w + j) BY <2>2, YearsGrow
  <2>4. DaysBeforeYear(w) \in Int /\ DaysBeforeYear(z) \in Int BY <2>2, YearStarts
  <2>5. DaysBeforeYear(w) <= DaysBeforeYear(z) BY <2>1, <2>2, <2>3, <2>4
  <2>6. ordinal(d) \in Int /\ ordinal(d) < DaysBeforeYear(w) BY <1>1, <2>2, DateIs
  <2>7. ordinal(e) \in Int /\ DaysBeforeYear(z) <= ordinal(e) BY <1>2, DateIs
  <2> QED BY <2>4, <2>5, <2>6, <2>7
<1>6. PICK D \in Int, A \in Int, B \in Int, l \in 28..31 :
         /\ D = DaysBeforeYear(y) /\ A = DaysBeforeMonth(y, m) /\ B = DaysBeforeMonth(y, n)
         /\ l = monthrange(y, m) /\ (m < n => A + l <= B)
  <2>1. PICK D \in Int : D = DaysBeforeYear(y) BY YearIs
  <2>2. PICK A \in Int : A = DaysBeforeMonth(y, m) BY MonthIs
  <2>3. PICK B \in Int : B = DaysBeforeMonth(y, n) BY MonthIs
  <2>4. PICK l \in 28..31 : l = monthrange(y, m) BY MonthIs
  <2>5. m < n => DaysBeforeMonth(y, m) + monthrange(y, m) <= DaysBeforeMonth(y, n) BY MonthsApart
  <2> WITNESS D \in Int, A \in Int, B \in Int, l \in 28..31
  <2> QED BY <2>1, <2>2, <2>3, <2>4, <2>5
<1>7. ordinal(d) = D + A + a - 1 BY <1>1, <1>6 DEF ordinal
<1>8. y = z => ordinal(e) = D + B + b - 1 BY <1>2, <1>6 DEF ordinal
<1>9. a <= l
  <2>1. a \in 1..l BY <1>1, <1>6 DEF IsDate
  <2> QED BY <2>1
<1>10. CASE y = z /\ m < n BY <1>6, <1>7, <1>8, <1>9, <1>10
<1>11. CASE y = z /\ m = n /\ a < b BY <1>6, <1>7, <1>8, <1>11
<1> QED BY <1>4, <1>5, <1>10, <1>11

(* A day of a year is a date.                                                *)
LEMMA OfYearIs ==
  ASSUME NEW y \in Int, NEW q \in Nat, DaysBeforeYear(y) + q < DaysBeforeYear(y + 1)
  PROVE  IsDate(OfYear(y, q)) /\ ordinal(OfYear(y, q)) = DaysBeforeYear(y) + q
<1>1. PICK M : M = {k \in 1..12 : DaysBeforeMonth(y, k) <= q} OBVIOUS
<1>2. 1 \in M
  <2>1. DaysBeforeMonth(y, 1) = 0 BY JanuaryFirst
  <2> QED BY <1>1, <2>1
<1>3. IsFiniteSet(M) /\ \A k \in M : k \in Int
  <2>1. PICK a \in Int, b \in Int : a = 1 /\ b = 12 OBVIOUS
  <2>2. IsFiniteSet(a..b) BY FS_Interval
  <2>3. M \in SUBSET (a..b) BY <1>1, <2>1
  <2> QED BY <1>1, <2>2, <2>3, FS_Subset
<1>4. PICK m \in M : m = Max(M) /\ \A k \in M : k <= m BY <1>2, <1>3, MaxIs
<1>5. m \in 1..12 /\ DaysBeforeMonth(y, m) <= q BY <1>1
<1>6. PICK B \in Int, l \in 28..31, b \in 0..1 :
         /\ B = DaysBeforeMonth(y, m) /\ l = monthrange(y, m) /\ b = (IF Leap(y) THEN 1 ELSE 0)
         /\ m = 12 => B + l = 365 + b
         /\ m < 12 => DaysBeforeMonth(y, m + 1) = B + l
  <2>1. DaysBeforeMonth(y, m) \in Int /\ monthrange(y, m) \in 28..31 BY <1>5, MonthIs
  <2>2. m = 12 => DaysBeforeMonth(y, m) + monthrange(y, m) = 365 + (IF Leap(y) THEN 1 ELSE 0)
    BY DecemberLast
  <2>3. m < 12 => DaysBeforeMonth(y, m + 1) = DaysBeforeMonth(y, m) + monthrange(y, m)
    <3>1. m < 12 => m \in 1..11 BY <1>5
    <3> QED BY <3>1, MonthsMeet
  <2>4. PICK b \in 0..1 : b = (IF Leap(y) THEN 1 ELSE 0) OBVIOUS
  <2>5. PICK B \in Int : B = DaysBeforeMonth(y, m) BY <2>1
  <2>6. PICK l \in 28..31 : l = monthrange(y, m) BY <2>1
  <2> WITNESS B \in Int, l \in 28..31, b \in 0..1
  <2> QED BY <2>2, <2>3, <2>4, <2>5, <2>6
<1>7. PICK D \in Int : D = DaysBeforeYear(y) BY YearIs
<1>8. q < 365 + b
  <2>1. DaysBeforeYear(y + 1) = D + 365 + b BY <1>6, <1>7, YearStarts
  <2> QED BY <1>7, <2>1
<1>9. B <= q /\ q < B + l
  <2>1. CASE m = 12 BY <1>5, <1>6, <1>8, <2>1
  <2>2. CASE m < 12
    <3>0. PICK w : w = m + 1 OBVIOUS
    <3>1. w \in 1..12 /\ w \notin M BY <1>4, <1>5, <2>2, <3>0
    <3>2. ~(DaysBeforeMonth(y, w) <= q) BY <1>1, <3>1
    <3>3. DaysBeforeMonth(y, w) = B + l BY <1>6, <2>2, <3>0
    <3>4. ~(B + l <= q) BY <3>2, <3>3
    <3> QED BY <1>5, <1>6, <3>4
  <2> QED BY <1>5, <2>1, <2>2
<1>10. PICK e \in 1..l : e = q - B + 1
  <2>1. q - B + 1 \in 1..l BY <1>9
  <2> QED BY <2>1
<1>11. OfYear(y, q) = date(y, m, e) BY <1>1, <1>4, <1>6, <1>10 DEF OfYear
<1>12. e \in 1..99 BY <1>10
<1>13. PICK x : x = date(y, m, e) OBVIOUS
<1>14. x \in Int /\ year(x) = y /\ month(x) = m /\ day(x) = e BY <1>5, <1>12, <1>13, DateParts
<1>15. IsDate(x) BY <1>5, <1>6, <1>10, <1>14 DEF IsDate
<1>16. ordinal(x) = D + B + e - 1 BY <1>6, <1>7, <1>14 DEF ordinal
<1>17. ordinal(x) = D + q BY ONLY <1>10, <1>16, q \in Nat, B \in Int, D \in Int, l \in 28..31
<1> QED BY <1>7, <1>11, <1>13, <1>15, <1>17

(* So many days on is a date so many days on.                                *)
LEMMA PlusDays ==
  ASSUME NEW d, IsDate(d), NEW n \in Nat
  PROVE  /\ IsDate(plus_days(d, n)) /\ ordinal(plus_days(d, n)) = ordinal(d) + n
         /\ plus_days(d, n) \in Int /\ d <= plus_days(d, n)
         /\ n > 0 => d < plus_days(d, n)
<1>1. PICK y0 \in Int : y0 = year(d) BY DateIs
<1>2. PICK o \in Int : o = ordinal(d) BY DateIs
<1>3. DaysBeforeYear(y0) <= o /\ o < DaysBeforeYear(y0 + 1) BY <1>1, <1>2, DateIs
<1>4. PICK j \in Nat : j = n \div 365 /\ n < 365 * (j + 1)
  <2>1. n \div 365 \in Nat /\ n < 365 * ((n \div 365) + 1) BY ONLY n \in Nat
  <2> QED BY <2>1
<1>5. PICK N \in Int : N = o + n OBVIOUS
<1>6. PICK z \in Int : z = y0 + j + 1 OBVIOUS
<1>7. plus_days(d, n) = OfOrdinal(N, y0..z)
  <2>1. ~(n < 0) OBVIOUS
  <2> QED BY <1>1, <1>2, <1>4, <1>5, <1>6, <2>1 DEF plus_days
<1>8. PICK Y : Y = {k \in y0..z : DaysBeforeYear(k) <= N} OBVIOUS
<1>9. y0 \in Y
  <2>1. DaysBeforeYear(y0) \in Int BY YearStarts
  <2>2. DaysBeforeYear(y0) <= N BY <1>3, <1>5, <2>1
  <2> QED BY <1>6, <1>8, <2>2
<1>10. IsFiniteSet(Y) /\ \A k \in Y : k \in Int
  <2>1. IsFiniteSet(y0..z) BY FS_Interval
  <2>2. Y \in SUBSET (y0..z) BY <1>8
  <2> QED BY <1>8, <2>1, <2>2, FS_Subset
<1>11. PICK y \in Y : y = Max(Y) /\ \A k \in Y : k <= y BY <1>9, <1>10, MaxIs
<1>12. y \in Int /\ y0 <= y /\ y <= z /\ DaysBeforeYear(y) <= N BY <1>8, <1>9, <1>10, <1>11
<1>13. N < DaysBeforeYear(y + 1)
  <2>0. PICK w \in Int : w = y + 1 BY <1>12
  <2>1. DaysBeforeYear(w) \in Int BY YearStarts
  <2>2. CASE y < z
    <3>1. w \in y0..z /\ w \notin Y BY <1>11, <1>12, <2>0, <2>2
    <3>2. ~(DaysBeforeYear(w) <= N) BY <1>8, <3>1
    <3> QED BY <2>0, <2>1, <3>2
  <2>3. CASE y = z
    <3>1. PICK v \in Int : v = y0 + 1 OBVIOUS
    <3>2. PICK i \in Nat : i = j + 1 OBVIOUS
    <3>3. DaysBeforeYear(v) + 365 * i <= DaysBeforeYear(v + i) BY <3>1, YearsGrow
    <3>4. v + i = w BY <1>6, <2>0, <2>3, <3>1, <3>2
    <3>5. DaysBeforeYear(v) \in Int BY <3>1, YearStarts
    <3>6. o < DaysBeforeYear(v) BY <1>3, <3>1
    <3>7. PICK a \in Int, b \in Int : a = DaysBeforeYear(v) /\ b = DaysBeforeYear(w) BY <2>1, <3>5
    <3>8. a + 365 * i <= b /\ o < a BY <3>3, <3>4, <3>6, <3>7
    <3>9. N < b BY ONLY <1>4, <1>5, <3>2, <3>8, a \in Int, b \in Int, i \in Nat, j \in Nat, o \in Int, n \in Nat
    <3> QED BY <2>0, <3>7, <3>9
  <2> QED BY <1>12, <2>2, <2>3
<1>14. PICK D \in Int : D = DaysBeforeYear(y) BY <1>12, YearStarts
<1>15. PICK q \in Nat : q = N - D BY <1>12, <1>14
<1>16. D + q = N BY <1>14, <1>15
<1>17. plus_days(d, n) = OfYear(y, q) BY <1>7, <1>8, <1>11, <1>14, <1>15 DEF OfOrdinal
<1>18. PICK e : e = plus_days(d, n) OBVIOUS
<1>19. IsDate(e) /\ ordinal(e) = o + n
  <2>1. DaysBeforeYear(y) + q < DaysBeforeYear(y + 1) BY <1>13, <1>14, <1>16
  <2>2. IsDate(OfYear(y, q)) /\ ordinal(OfYear(y, q)) = DaysBeforeYear(y) + q BY <1>12, <2>1, OfYearIs
  <2> QED BY <1>5, <1>14, <1>16, <1>17, <1>18, <2>2
<1>20. d \in Int /\ e \in Int BY <1>19 DEF IsDate
<1>21. d <= e
  <2> SUFFICES ASSUME e < d PROVE FALSE BY <1>20
  <2>1. o + n < o BY <1>2, <1>19, OrdinalGrows
  <2> QED BY <2>1
<1>22. n > 0 => d # e
  <2> SUFFICES ASSUME n > 0, d = e PROVE FALSE OBVIOUS
  <2>1. o + n = o BY <1>2, <1>19
  <2> QED BY <2>1
<1> QED BY <1>2, <1>18, <1>19, <1>20, <1>21, <1>22

-----------------------------------------------------------------------------
(* The invariant.                                                            *)
Postings(S) ==
    /\ IsFiniteSet(S)
    /\ \A p \in S : /\ p.on \in Int /\ p.amount \in Int /\ p.text \in DOMAIN Merchant
                    /\ p.account \in Accounts /\ p.category \in Categories \cup {None}

(* The life of the household is in its days.                                 *)
Calendars == home \in Households /\ IsDate(today) /\ home.start <= today /\ today <= home.end

(* The bank's postings are amounts on days, and the vault's rows are of them. *)
Booked == /\ Postings(bank) /\ rows \in SUBSET bank /\ IsFiniteSet(pairs)
          /\ \A p \in bank : home.start <= p.on

(* A closing balance is the one the bank had, and has, at the statement's end. *)
ClosingsAreTrue ==
    /\ IsFiniteSet(periods)
    /\ \A p \in periods : /\ p.account \in Accounts /\ IsDate(p.end) /\ p.end \in home.start..today
                          /\ p.closing = {} \/ p.closing = {Balance(p.account, p.end)}

Answers == decisions \in [Streams -> {"none", "confirmed", "dismissed"}] /\ left \in 0..home.budget

HInv == Calendars /\ Booked /\ ClosingsAreTrue /\ Answers

(* A household's ends are dates.                                             *)
LEMMA Ends ==
  ASSUME NEW h \in Households
  PROVE  IsDate(h.start) /\ IsDate(h.end) /\ h.start <= h.end /\ h.start \in Int /\ h.end \in Int
<1>1. \A d : IsDate(d) => d \in Int BY DEF IsDate
<1> QED BY <1>1, HouseholdsAreWhole

(* What a bill is taken on are days, and finitely many.                      *)
LEMMA DueDatesAre ==
  ASSUME home \in Households, NEW b \in home.bills, NEW from, NEW to, IsDate(from), IsDate(to)
  PROVE  /\ IsFiniteSet(DueDates(b, from, to))
         /\ \A d \in DueDates(b, from, to) : d \in Int /\ from <= d /\ d <= to
<1>1. b.every \in Nat /\ b.due \in 1..31 BY HouseholdsAreWhole
<1>2. IsDate(home.start) BY Ends
<1>3. PICK C : C = (IF b.every > 0 THEN Every(b, to) ELSE BillMonths(b, from, to)) OBVIOUS
<1>4. IsFiniteSet(C) /\ \A d \in C : d \in Int
  <2>1. CASE b.every > 0
    <3>1. days_between(home.start, to) \in Int
      <4>1. ordinal(home.start) \in Int /\ ordinal(to) \in Int BY <1>2, DateIs
      <4> QED BY <4>1 DEF days_between
    <3>2. PICK n \in Int : n = days_between(home.start, to) \div b.every BY <1>1, <2>1, <3>1
    <3>3. PICK g : g = [k \in 0..n |-> plus_days(home.start, b.every * k)] OBVIOUS
    <3>4. IsFiniteSet(0..n) BY FS_Interval
    <3>5. DOMAIN g = 0..n BY <3>3
    <3>6. IsFiniteSet({g[k] : k \in DOMAIN g}) BY <3>4, <3>5, FiniteImage
    <3>7. C = {plus_days(home.start, b.every * k) : k \in 0..n} BY <1>3, <2>1, <3>2 DEF Every
    <3>8. C = {g[k] : k \in DOMAIN g} BY <3>3, <3>5, <3>7
    <3>9. \A k \in 0..n : plus_days(home.start, b.every * k) \in Int
      <4> TAKE k \in 0..n
      <4>1. PICK j \in Nat : j = b.every * k
        <5>1. k \in Nat BY <3>2
        <5> QED BY <1>1, <5>1
      <4> QED BY <1>2, <4>1, PlusDays
    <3> QED BY <3>6, <3>7, <3>8, <3>9
  <2>2. CASE ~(b.every > 0)
    <3>1. PICK a \in Int, z \in Int : a = 12 * year(from) + month(from) - 1 /\ z = 12 * year(to) + month(to) - 1
      <4>1. year(from) \in Int /\ month(from) \in Int /\ year(to) \in Int /\ month(to) \in Int
        BY DateIs
      <4> QED BY <4>1
    <3>2. PICK g : g = [k \in a..z |-> InMonth(k \div 12, (k % 12) + 1, b.due)] OBVIOUS
    <3>3. IsFiniteSet(a..z) BY FS_Interval
    <3>4. DOMAIN g = a..z BY <3>2
    <3>5. IsFiniteSet({g[k] : k \in DOMAIN g}) BY <3>3, <3>4, FiniteImage
    <3>6. C = {InMonth(k \div 12, (k % 12) + 1, b.due) : k \in a..z} BY <1>3, <2>2, <3>1 DEF BillMonths
    <3>7. C = {g[k] : k \in DOMAIN g} BY <3>2, <3>4, <3>6
    <3>8. \A k \in a..z : InMonth(k \div 12, (k % 12) + 1, b.due) \in Int
      <4> TAKE k \in a..z
      <4>1. PICK y \in Int, m \in 1..12 : y = k \div 12 /\ m = (k % 12) + 1
        <5>1. k \in Int OBVIOUS
        <5>2. k \div 12 \in Int /\ (k % 12) + 1 \in 1..12 BY ONLY <5>1
        <5> QED BY <5>2
      <4>2. PICK r \in Int : r = monthrange(y, m) BY DEF monthrange
      <4>3. PICK S : S = {b.due, r} OBVIOUS
      <4>4. IsFiniteSet(S) /\ S # {} /\ \A x \in S : x \in Int
        <5>1. PICK U, V : U = {b.due} /\ V = {r} OBVIOUS
        <5>2. IsFiniteSet(U) /\ IsFiniteSet(V) BY <5>1, FS_Singleton
        <5>3. S = U \cup V BY <4>3, <5>1
        <5>4. IsFiniteSet(S) BY <5>2, <5>3, FS_Union
        <5> QED BY <1>1, <4>3, <5>4
      <4>5. Min(S) \in Int BY <4>4, MinIs
      <4> QED BY <4>1, <4>2, <4>3, <4>5 DEF InMonth, date
    <3> QED BY <3>5, <3>6, <3>7, <3>8
  <2> QED BY <2>1, <2>2
<1>5. DueDates(b, from, to) = {d \in C : from <= d /\ d <= to} BY <1>3 DEF DueDates
<1>6. DueDates(b, from, to) \in SUBSET C BY <1>5
<1>7. IsFiniteSet(DueDates(b, from, to)) BY <1>4, <1>6, FS_Subset
<1> QED BY <1>4, <1>5, <1>7

(* What falls due are postings of those days.                                *)
LEMMA DueArePostings ==
  ASSUME home \in Households, NEW from, NEW to, IsDate(from), IsDate(to)
  PROVE  Postings(Due(from, to)) /\ \A p \in Due(from, to) : from <= p.on /\ p.on <= to
<1> DEFINE Taking(b) == {BillPosting(b, d) : d \in DueDates(b, from, to)}
<1>1. PICK P : P = {Taking(b) : b \in home.bills} OBVIOUS
<1>4. Due(from, to) = UNION P BY <1>1 DEF Due
<1>5. IsFiniteSet(P)
  <2> HIDE DEF Taking
  <2>1. PICK f : f = [b \in home.bills |-> Taking(b)] OBVIOUS
  <2>2. DOMAIN f = home.bills /\ P = {f[b] : b \in DOMAIN f} BY <1>1, <2>1
  <2> QED BY <2>2, HouseholdsAreWhole, FiniteImage
<1>6. ASSUME NEW S \in P PROVE IsFiniteSet(S)
  <2>1. PICK b \in home.bills : S = {BillPosting(b, d) : d \in DueDates(b, from, to)} BY <1>1
  <2>2. PICK g : g = [d \in DueDates(b, from, to) |-> BillPosting(b, d)] OBVIOUS
  <2>3. DOMAIN g = DueDates(b, from, to) BY <2>2
  <2>4. IsFiniteSet(DOMAIN g) BY <2>3, DueDatesAre
  <2>5. S = {g[d] : d \in DOMAIN g} BY <2>1, <2>2, <2>3
  <2> QED BY <2>4, <2>5, FiniteImage
<1>7. IsFiniteSet(Due(from, to)) BY <1>4, <1>5, <1>6, FS_UNION
<1>8. ASSUME NEW p \in Due(from, to)
      PROVE  /\ p.on \in Int /\ p.amount \in Int /\ p.text \in DOMAIN Merchant
             /\ p.account \in Accounts /\ p.category \in Categories \cup {None}
             /\ from <= p.on /\ p.on <= to
  <2>0. PICK b \in home.bills : \E d \in DueDates(b, from, to) : p = BillPosting(b, d) BY DEF Due
  <2>1. PICK d \in DueDates(b, from, to) : p = BillPosting(b, d) BY <2>0
  <2>2. d \in Int /\ from <= d /\ d <= to BY DueDatesAre
  <2>3. /\ b.text \in DOMAIN Merchant /\ b.account \in Accounts
        /\ b.amount \in Int /\ b.category \in Categories \cup {None}
    BY HouseholdsAreWhole
  <2> QED BY <2>1, <2>2, <2>3 DEF BillPosting, Posting
<1> QED BY <1>7, <1>8 DEF Postings

(* The next look is a later date, at the end of the life at the latest.      *)
LEMMA NextLookIs ==
  ASSUME Calendars, today < home.end
  PROVE  IsDate(NextLook) /\ today < NextLook /\ NextLook <= home.end
<1>0. home \in Households /\ IsDate(today) BY DEF Calendars
<1>1. IsDate(home.end) /\ home.end \in Int BY <1>0, Ends
<1>2. PICK A : A = {plus_days(today, n) : n \in 1..31} OBVIOUS
<1>3. \A d \in A : d \in Int /\ IsDate(d) /\ today < d
  <2> TAKE d \in A
  <2>1. PICK n \in 1..31 : d = plus_days(today, n) BY <1>2
  <2>2. n \in Nat /\ n > 0 /\ n <= 31 OBVIOUS
  <2>3. plus_days(today, n) \in Int /\ today < plus_days(today, n) /\ IsDate(plus_days(today, n))
    BY <1>0, <2>2, PlusDays
  <2> QED BY <2>1, <2>3
<1>4. PICK S : S = {d \in A : day(d) \in home.look} \cup {home.end} OBVIOUS
<1>5. IsFiniteSet(S)
  <2>1. PICK a \in Int, b \in Int : a = 1 /\ b = 31 OBVIOUS
  <2>2. PICK g : g = [n \in a..b |-> plus_days(today, n)] OBVIOUS
  <2>3. DOMAIN g = a..b BY <2>2
  <2>4. IsFiniteSet(DOMAIN g) BY <2>3, FS_Interval
  <2>5. A = {g[n] : n \in DOMAIN g} BY <1>2, <2>1, <2>2, <2>3
  <2>6. IsFiniteSet(A) BY <2>4, <2>5, FiniteImage
  <2>7. PICK B : B = {d \in A : day(d) \in home.look} OBVIOUS
  <2>8. IsFiniteSet(B)
    <3>1. B \in SUBSET A BY <2>7
    <3> QED BY <2>6, <3>1, FS_Subset
  <2> QED BY <1>4, <2>7, <2>8, FS_AddElement
<1>6. \A d \in S : d \in Int /\ IsDate(d) /\ today < d BY <1>1, <1>3, <1>4
<1>7. home.end \in S BY <1>4
<1>8. Min(S) \in S /\ \A d \in S : Min(S) <= d BY <1>5, <1>6, <1>7, MinIs
<1>9. NextLook = Min(S) BY <1>2, <1>4 DEF NextLook
<1> QED BY <1>6, <1>7, <1>8, <1>9

-----------------------------------------------------------------------------
(* The invariant is kept.                                                    *)

(* More postings are postings.                                               *)
LEMMA MorePostings ==
  ASSUME NEW A, NEW B, Postings(A), Postings(B)
  PROVE  Postings(A \cup B)
<1>1. IsFiniteSet(A \cup B) BY FS_Union DEF Postings
<1> QED BY <1>1 DEF Postings

(* One posting.                                                              *)
LEMMA OnePosting ==
  ASSUME NEW t \in DOMAIN Merchant, NEW a \in Accounts, NEW d \in Int, NEW n \in Int,
         NEW c \in Categories \cup {None}
  PROVE  Postings({Posting(t, a, d, n, c)}) /\ Posting(t, a, d, n, c).on = d
<1>1. PICK p : p = Posting(t, a, d, n, c) OBVIOUS
<1>2. IsFiniteSet({p}) BY FS_Singleton
<1>3. /\ p.on = d /\ p.amount = n /\ p.text = t /\ p.account = a /\ p.category = c
  BY <1>1 DEF Posting
<1>4. Postings({p}) BY <1>2, <1>3 DEF Postings
<1> QED BY <1>1, <1>3, <1>4

(* A balance is the amount of the account's postings up to a day.            *)
LEMMA BalanceIs ==
  \A a, to : Balance(a, to) = Amount({p \in bank : p.account = a /\ p.on <= to})
BY DEF Balance, Amount

(* So is the balance a step later.                                           *)
LEMMA BalanceNext ==
  \A a, to : Balance(a, to)' = Amount({p \in bank' : p.account = a /\ p.on <= to})
BY DEF Balance, Amount, MapThenSumSet, MapThenFoldSet

(* A stutter, and the steps that leave dates, bank and statements alone.     *)
LEMMA AnswersOnly ==
  ASSUME HInv, UNCHANGED <<home, today, bank, rows, periods>>, IsFiniteSet(pairs)', Answers'
  PROVE  HInv'
<1>1. \A a, to : Balance(a, to)' = Balance(a, to) BY BalanceIs, BalanceNext
<1>2. home' = home /\ today' = today /\ bank' = bank /\ rows' = rows /\ periods' = periods OBVIOUS
<1>3. Calendars' BY <1>2 DEF HInv, Calendars
<1>4. Booked' BY <1>2 DEF HInv, Booked
<1>5. ClosingsAreTrue' BY <1>1, <1>2 DEF HInv, ClosingsAreTrue
<1> QED BY <1>3, <1>4, <1>5 DEF HInv

(* Days that pass bring postings of days to come.                            *)
LEMMA DaysPass ==
  ASSUME HInv, NEW posted, Postings(posted), \A p \in posted : today < p.on, Passes(posted), Answers'
  PROVE  HInv'
<1>1. IsDate(NextLook) /\ today < NextLook /\ NextLook <= home.end BY NextLookIs DEF HInv, Passes
<1>2. /\ home' = home /\ today' = NextLook /\ bank' = bank \cup posted /\ rows' = rows
      /\ periods' = periods /\ pairs' = pairs
  BY DEF Passes
<1>3. today \in Int /\ NextLook \in Int /\ home.start \in Int /\ home.end \in Int
  BY <1>1, Ends DEF HInv, Calendars, IsDate
<1>4. Calendars'
  <2>1. IsDate(today') BY <1>1, <1>2
  <2>2. home.start <= NextLook BY <1>1, <1>3 DEF HInv, Calendars
  <2> QED BY <1>1, <1>2, <2>1, <2>2 DEF HInv, Calendars
<1>5. Booked'
  <2>1. Postings(bank \cup posted) BY MorePostings DEF HInv, Booked
  <2>2. \A p \in posted : home.start <= p.on BY <1>3 DEF HInv, Calendars, Postings
  <2> QED BY <1>2, <2>1, <2>2 DEF HInv, Booked
<1>6. \A a : \A e \in Int : e <= today => Balance(a, e)' = Balance(a, e)
  <2> SUFFICES ASSUME NEW a, NEW e \in Int, e <= today PROVE Balance(a, e)' = Balance(a, e) OBVIOUS
  <2>1. \A p \in posted : ~ p.on <= e BY <1>3 DEF Postings
  <2>2. {p \in bank' : p.account = a /\ p.on <= e} = {p \in bank : p.account = a /\ p.on <= e}
    BY <1>2, <2>1
  <2> QED BY <2>2, BalanceIs, BalanceNext
<1>7. ClosingsAreTrue'
  <2> SUFFICES ASSUME NEW p \in periods
               PROVE  /\ p.account \in Accounts /\ IsDate(p.end) /\ p.end \in home.start..NextLook
                      /\ p.closing = {} \/ p.closing = {Balance(p.account, p.end)'}
    BY <1>2 DEF ClosingsAreTrue, HInv
  <2>1. p.account \in Accounts /\ IsDate(p.end) /\ p.end \in home.start..today
        /\ (p.closing = {} \/ p.closing = {Balance(p.account, p.end)})
    BY DEF HInv, ClosingsAreTrue
  <2>2. p.end \in Int /\ home.start <= p.end /\ p.end <= today BY <1>3, <2>1
  <2>3. p.end \in home.start..NextLook BY <1>1, <1>3, <2>2
  <2> QED BY <1>6, <2>1, <2>2, <2>3
<1> QED BY <1>4, <1>5, <1>7 DEF HInv

(* What is to come falls after today.                                        *)
LEMMA ComingIs ==
  ASSUME HInv, today < home.end
  PROVE  Postings(Coming) /\ \A p \in Coming : today < p.on
<1>1. IsDate(NextLook) BY NextLookIs DEF HInv
<1>2. IsDate(today) /\ home \in Households BY DEF HInv, Calendars
<1>3. IsDate(plus_days(today, 1)) /\ today < plus_days(today, 1) BY <1>2, PlusDays
<1>4. PICK f : f = plus_days(today, 1) OBVIOUS
<1>5. Postings(Due(f, NextLook)) /\ \A p \in Due(f, NextLook) : f <= p.on
  BY <1>1, <1>2, <1>3, <1>4, DueArePostings
<1>6. f \in Int /\ today \in Int /\ today < f BY <1>2, <1>3, <1>4 DEF IsDate
<1>7. Coming = Due(f, NextLook) BY <1>4 DEF Coming
<1> QED BY <1>5, <1>6, <1>7 DEF Postings

(* A statement brings rows the bank has, and the balance it has if any.      *)
LEMMA StatementKeeps ==
  ASSUME HInv, NEW a \in Accounts, NEW closing, closing = {} \/ closing = {Balance(a, today)},
         NEW lost, Statement(a, closing, lost), Answers'
  PROVE  HInv'
<1>1. /\ home' = home /\ today' = today /\ bank' = bank /\ pairs' = pairs
      /\ periods' = periods \cup {[account |-> a, end |-> today, closing |-> closing]}
      /\ rows' \in SUBSET (rows \cup bank)
  BY DEF Statement
<1>2. \A b, to : Balance(b, to)' = Balance(b, to) BY <1>1, BalanceIs, BalanceNext
<1>3. Calendars' /\ Booked' BY <1>1 DEF HInv, Calendars, Booked
<1>4. ClosingsAreTrue'
  <2>1. PICK q : q = [account |-> a, end |-> today, closing |-> closing] OBVIOUS
  <2>2. q.account = a /\ q.end = today /\ q.closing = closing BY <2>1
  <2>3. IsFiniteSet(periods \cup {q}) BY FS_AddElement DEF HInv, ClosingsAreTrue
  <2>4. today \in home.start..today
    <3>1. home.start \in Int BY Ends DEF HInv, Calendars
    <3> QED BY <3>1 DEF HInv, Calendars, IsDate
  <2>5. periods' = periods \cup {q} BY <1>1, <2>1
  <2>6. IsDate(q.end) BY <2>2 DEF HInv, Calendars
  <2> QED BY <1>1, <1>2, <2>2, <2>3, <2>4, <2>5, <2>6 DEF HInv, ClosingsAreTrue
<1> QED BY <1>3, <1>4 DEF HInv

(* A stream the program finds is one of the household's.                     *)
LEMMA StreamsFound ==
  ASSUME HInv
  PROVE  StreamOf(found.suggested) \subseteq Streams /\ StreamOf(found.confirmed) \subseteq Streams
<1>1. ASSUME NEW i \in detect_recurring(rows, today, excluded) PROVE <<i.direction, i.key>> \in Streams
  <2>1. PICK g \in SUBSET rows : Qualifies(g, today) /\ i = RecurringItem(g)
    BY <1>1 DEF detect_recurring
  <2>2. g # {}
    <3>1. Cardinality({}) = 0 BY FS_EmptySet
    <3> QED BY <2>1, <3>1 DEF Qualifies, MinOccurrences
  <2>3. PICK r \in g : r = CHOOSE x \in g : TRUE BY <2>2
  <2>4. i.key = Key(r) /\ i.direction = Direction(r)
    BY <2>1, <2>3 DEF RecurringItem
  <2>5. r.text \in DOMAIN Merchant BY DEF HInv, Booked, Postings
  <2>6. Key(r) \in Range(Merchant) BY <2>5 DEF Key, Range
  <2>7. Direction(r) \in {"in", "out"} BY DEF Direction
  <2> QED BY <2>4, <2>6, <2>7 DEF Streams
<1>2. /\ found.suggested \subseteq detect_recurring(rows, today, excluded)
      /\ found.confirmed \subseteq detect_recurring(rows, today, excluded)
  BY DEF found, snapshot
<1> QED BY <1>1, <1>2 DEF StreamOf


(* The first day.                                                            *)
LEMMA Begins == Init => HInv
<1> SUFFICES ASSUME Init PROVE HInv OBVIOUS
<1>1. home \in Households /\ today = home.start BY DEF Init
<1>2. IsDate(home.start) /\ IsDate(home.end) /\ home.start <= home.end /\ home.start \in Int BY <1>1, Ends
<1>3. Calendars BY <1>1, <1>2 DEF Calendars
<1>4. Booked
  <2>1. Postings(bank) /\ \A p \in bank : home.start <= p.on BY <1>1, <1>2, DueArePostings DEF Init
  <2>2. IsFiniteSet(pairs) BY FS_EmptySet DEF Init
  <2> QED BY <2>1, <2>2 DEF Init, Booked
<1>5. ClosingsAreTrue BY FS_EmptySet DEF Init, ClosingsAreTrue
<1>6. Answers
  <2>1. home.budget \in Nat BY <1>1, HouseholdsAreWhole
  <2> QED BY <2>1 DEF Init, Answers
<1> QED BY <1>3, <1>4, <1>5, <1>6 DEF HInv

(* A departure from routine uses one up.                                     *)
LEMMA Departs ==
  ASSUME HInv, NEW kind, Depart(kind), home' = home, decisions' = decisions
  PROVE  Answers'
<1>1. home.budget \in Nat BY HouseholdsAreWhole DEF HInv, Calendars
<1> QED BY <1>1 DEF HInv, Answers, Depart

(* A step that leaves the decisions leaves them answers.                     *)
LEMMA SameAnswers ==
  ASSUME HInv, home' = home, decisions' = decisions, left' = left
  PROVE  Answers'
BY DEF HInv, Answers

(* Every step keeps it.                                                      *)
LEMMA StepKeeps == HInv /\ [Next]_vars => HInv'
<1> SUFFICES ASSUME HInv, [Next]_vars PROVE HInv' OBVIOUS
<1>0. Used \subseteq Accounts BY DEF Used, HInv, Booked, Postings
<1>1. CASE DayPasses
  <2>1. Answers' BY <1>1, SameAnswers DEF DayPasses, Passes
  <2> QED BY <1>1, <2>1, ComingIs, DaysPass DEF DayPasses, Passes
<1>2. CASE SkipBill
  <2>1. PICK p \in Coming : Depart("skip") /\ Passes(Coming \ {p}) BY <1>2 DEF SkipBill
  <2>2. Answers' BY <2>1, Departs DEF Passes
  <2>3. PICK posted : posted = Coming \ {p} OBVIOUS
  <2>4. Postings(Coming) /\ \A q \in Coming : today < q.on BY <2>1, ComingIs DEF Passes
  <2>5. Postings(posted)
    <3>1. IsFiniteSet(posted) BY <2>3, <2>4, FS_Difference DEF Postings
    <3> QED BY <2>3, <2>4, <3>1 DEF Postings
  <2>6. \A q \in posted : today < q.on BY <2>3, <2>4
  <2>7. Passes(posted) BY <2>1, <2>3
  <2> QED BY <2>2, <2>5, <2>6, <2>7, DaysPass
<1>3. CASE Buy
  <2>1. PICK b \in home.buys :
            /\ Depart("buy")
            /\ Passes(Coming \cup {Posting(b.text, b.account, NextLook, b.amount, b.category)})
    BY <1>3 DEF Buy
  <2>2. Answers' BY <2>1, Departs DEF Passes
  <2>3. PICK bought : bought = {Posting(b.text, b.account, NextLook, b.amount, b.category)} OBVIOUS
  <2>4. today < home.end BY <2>1 DEF Passes
  <2>5. IsDate(NextLook) /\ today < NextLook BY <2>4, NextLookIs DEF HInv
  <2>6. /\ b.text \in DOMAIN Merchant /\ b.account \in Accounts /\ b.amount \in Int
        /\ b.category \in Categories \cup {None}
    BY HouseholdsAreWhole DEF HInv, Calendars
  <2>7. Postings(bought) /\ \A q \in bought : today < q.on
    <3>1. NextLook \in Int BY <2>5 DEF IsDate
    <3>2. PICK p : p = Posting(b.text, b.account, NextLook, b.amount, b.category) OBVIOUS
    <3>3. Postings({p}) /\ p.on = NextLook BY <2>6, <3>1, <3>2, OnePosting
    <3>4. bought = {p} BY ONLY <2>3, <3>2
    <3> QED BY ONLY <2>5, <3>3, <3>4
  <2>8. Postings(Coming) /\ \A q \in Coming : today < q.on BY <2>4, ComingIs
  <2>9. PICK posted : posted = Coming \cup bought OBVIOUS
  <2>10. Postings(posted) /\ \A q \in posted : today < q.on BY <2>7, <2>8, <2>9, MorePostings
  <2>11. Passes(posted) BY <2>1, <2>3, <2>9
  <2> QED BY <2>2, <2>10, <2>11, DaysPass
<1>4. CASE MoveMoney
  <2>1. PICK m \in home.moves :
            /\ Depart("move")
            /\ Passes(Coming
                 \cup {Posting(m.debit, m.from, NextLook, -m.amount, None),
                       Posting(m.credit, m.to, plus_days(NextLook, m.days), m.amount, None)})
    BY <1>4 DEF MoveMoney
  <2>2. Answers' BY <2>1, Departs DEF Passes
  <2>3. PICK d, c : /\ d = Posting(m.debit, m.from, NextLook, -m.amount, None)
                    /\ c = Posting(m.credit, m.to, plus_days(NextLook, m.days), m.amount, None)
    OBVIOUS
  <2>4. today < home.end BY <2>1 DEF Passes
  <2>5. IsDate(NextLook) /\ today < NextLook BY <2>4, NextLookIs DEF HInv
  <2>6. /\ m.debit \in DOMAIN Merchant /\ m.credit \in DOMAIN Merchant
        /\ m.from \in Accounts /\ m.to \in Accounts /\ m.amount \in Nat /\ m.days \in Nat
    BY HouseholdsAreWhole DEF HInv, Calendars
  <2>7. plus_days(NextLook, m.days) \in Int /\ NextLook <= plus_days(NextLook, m.days)
    BY <2>5, <2>6, PlusDays
  <2>8. NextLook \in Int /\ today \in Int /\ -m.amount \in Int /\ m.amount \in Int
        /\ None \in Categories \cup {None}
    BY <2>5, <2>6 DEF IsDate, HInv, Calendars
  <2>9. Postings({d}) /\ d.on = NextLook BY <2>3, <2>6, <2>8, OnePosting
  <2>10. Postings({c}) /\ c.on = plus_days(NextLook, m.days) BY <2>3, <2>6, <2>7, <2>8, OnePosting
  <2>11. today < d.on /\ today < c.on BY <2>5, <2>7, <2>8, <2>9, <2>10
  <2>12. Postings(Coming) /\ \A q \in Coming : today < q.on BY <2>4, ComingIs
  <2>13. PICK D, C : D = {d} /\ C = {c} OBVIOUS
  <2>14. PICK posted : posted = Coming \cup (D \cup C) OBVIOUS
  <2>15. Postings(posted)
    <3>1. Postings(D) /\ Postings(C) BY <2>9, <2>10, <2>13
    <3>2. Postings(D \cup C) BY <3>1, MorePostings
    <3> QED BY <2>12, <2>14, <3>2, MorePostings
  <2>16. \A q \in posted : today < q.on BY <2>11, <2>12, <2>13, <2>14
  <2>17. Passes(posted)
    <3>1. posted = Coming \cup {d, c} BY <2>13, <2>14
    <3> QED BY <2>1, <2>3, <3>1
  <2> QED BY <2>2, <2>15, <2>16, <2>17, DaysPass
<1>5. CASE FallBehind
  <2>1. Answers' BY <1>5, Departs DEF FallBehind
  <2> QED BY <1>5, <2>1, AnswersOnly DEF FallBehind, HInv, Booked
<1>6. CASE Import
  <2>1. PICK a \in Used : Statement(a, Printed(a), {}) /\ UNCHANGED left BY <1>6 DEF Import
  <2>2. Answers' BY <2>1, SameAnswers DEF Statement
  <2>3. PICK closing : closing = Printed(a) OBVIOUS
  <2>4. closing = {} \/ closing = {Balance(a, today)} BY <2>3 DEF Printed
  <2> QED BY <1>0, <2>1, <2>2, <2>3, <2>4, StatementKeeps
<1>7. CASE ImportCsv
  <2>1. PICK a \in Used : Depart("csv") /\ Statement(a, {}, {}) BY <1>7 DEF ImportCsv
  <2>2. Answers' BY <2>1, Departs DEF Statement
  <2> QED BY <1>0, <2>1, <2>2, StatementKeeps
<1>8. CASE ImportLosesRow
  <2>1. PICK a \in Used, p \in bank : Depart("lose") /\ Statement(a, Printed(a), {p})
    BY <1>8 DEF ImportLosesRow
  <2>2. Answers' BY <2>1, Departs DEF Statement
  <2>3. PICK closing : closing = Printed(a) OBVIOUS
  <2>4. closing = {} \/ closing = {Balance(a, today)} BY <2>3 DEF Printed
  <2> QED BY <1>0, <2>1, <2>2, <2>3, <2>4, StatementKeeps
<1>9. ASSUME NEW s \in Streams, NEW status \in {"none", "confirmed", "dismissed"}, Decide(s, status)
      PROVE  HInv'
  <2>1. home.budget \in Nat BY HouseholdsAreWhole DEF HInv, Calendars
  <2>2. left' \in 0..home.budget BY <1>9, <2>1 DEF Decide, Depart, HInv, Answers
  <2>3. decisions' \in [Streams -> {"none", "confirmed", "dismissed"}]
    BY <1>9 DEF Decide, HInv, Answers
  <2>4. Answers' BY <1>9, <2>2, <2>3 DEF Answers, Decide
  <2> QED BY <1>9, <2>4, AnswersOnly DEF Decide, HInv, Booked
<1>10. CASE confirm BY <1>9, <1>10, StreamsFound DEF confirm
<1>11. CASE dismiss BY <1>9, <1>11, StreamsFound DEF dismiss
<1>12. CASE reset BY <1>9, <1>12, StreamsFound DEF reset
<1>13. CASE dismiss_alert
  <2>1. Depart("dismiss") /\ UNCHANGED <<home, today, bank, rows, periods, decisions, pairs>>
    BY <1>13 DEF dismiss_alert
  <2>2. Answers' BY <2>1, Departs
  <2> QED BY <2>1, <2>2, AnswersOnly DEF HInv, Booked
<1>14. CASE confirm_transfer
  <2>1. PICK m : pairs' = pairs \cup {m} /\ UNCHANGED <<home, today, bank, rows, periods, decisions, left>>
    BY <1>14 DEF confirm_transfer
  <2>2. Answers' BY <2>1, SameAnswers
  <2>3. IsFiniteSet(pairs)' BY <2>1, FS_AddElement DEF HInv, Booked
  <2> QED BY <2>1, <2>2, <2>3, AnswersOnly
<1>15. CASE unlink_transfer
  <2>1. PICK m \in pairs : /\ Depart("unlink") /\ pairs' = pairs \ {m}
                           /\ UNCHANGED <<home, today, bank, rows, periods, decisions>>
    BY <1>15 DEF unlink_transfer
  <2>2. Answers' BY <2>1, Departs
  <2>3. IsFiniteSet(pairs)' BY <2>1, FS_Difference DEF HInv, Booked
  <2> QED BY <2>1, <2>2, <2>3, AnswersOnly
<1>16. CASE UNCHANGED vars
  <2>1. UNCHANGED <<home, today, bank, rows, periods, decisions, left, pairs>> BY <1>16 DEF vars
  <2>2. Answers' BY <2>1, SameAnswers
  <2> QED BY <2>1, <2>2, AnswersOnly DEF HInv, Booked
<1>17. CASE Over BY <1>16, <1>17 DEF Over
<1> QED BY <1>1, <1>2, <1>3, <1>4, <1>5, <1>6, <1>7, <1>8, <1>10, <1>11, <1>12, <1>13, <1>14,
           <1>15, <1>16, <1>17 DEF Next

-----------------------------------------------------------------------------
(* What the invariant means.                                                 *)

(* The invariant holds throughout.                                           *)
LEMMA HAlways == Spec => []HInv
<1> QED BY Begins, StepKeeps, PTL DEF Spec

(* The vault's rows are of the bank, its statements of days that were, its   *)
(* decisions of streams there are, and the departures left within bounds.    *)
THEOREM TypeCorrect == Spec => []TypeOK
<1>1. HInv => TypeOK
  <2> SUFFICES ASSUME HInv PROVE TypeOK OBVIOUS
  <2>1. today \in home.start..home.end
    <3>1. home.start \in Int /\ home.end \in Int BY Ends DEF HInv, Calendars
    <3> QED BY <3>1 DEF HInv, Calendars, IsDate
  <2> QED BY <2>1 DEF HInv, Calendars, Booked, ClosingsAreTrue, Answers, TypeOK
<1> QED BY <1>1, HAlways, PTL

(* The vault's rows are filed rows, and so are the bank's postings.          *)
LEMMA FiledInTheVault ==
  ASSUME HInv
  PROVE  FiledRows(rows) /\ FiledRows(bank)
<1>1. FiledRows(bank) BY DEF HInv, Booked, Postings, FiledRows, Rows
<1> QED BY <1>1, PartsAreFiled DEF HInv, Booked

(* Every way of adding a period up agrees.                                   *)
LEMMA TilesMean == HInv => TilesAgree
<1> SUFFICES ASSUME HInv, NEW mode \in Modes, NEW scope \in {Everything} \cup {{a} : a \in Used}
             PROVE
        LET prefs  == [mode |-> mode, year |-> year(today), month |-> month(today)]
            p      == resolve_period(prefs, today)
            count  == Counted(rows, excluded, prefs, scope, today)
            tiles  == summary(count)
            tree   == drill_down(count, pairs, prefs, scope, today)
            says   == month_summary(rows, excluded, prefs, scope, today)
            trend  == monthly_trend(rows, excluded, prefs, scope, today)[1]
        IN /\ tree.income.amount = tiles.income
           /\ tree.spending.amount = tiles.expenditure
           /\ tree.income.count + tree.spending.count = Cardinality(count)
           /\ SumFunction(spending_by_category(count)) = tiles.expenditure
           /\ mode \in {"current_month", "previous_month", "specific_month"} =>
                trend = [income |-> tiles.income, expenditure |-> tiles.expenditure]
           /\ says.verdict # "silent" /\ p[2] < today => says.spend = tiles.expenditure
           /\ scope = Everything =>
                tree.transfers.count = Cardinality({m \in pairs : p[1] <= m.debit.on /\ m.debit.on <= p[2]})
  BY DEF TilesAgree
<1> DEFINE prefs  == [mode |-> mode, year |-> year(today), month |-> month(today)]
           p      == resolve_period(prefs, today)
           count  == Counted(rows, excluded, prefs, scope, today)
           tiles  == summary(count)
           tree   == drill_down(count, pairs, prefs, scope, today)
           says   == month_summary(rows, excluded, prefs, scope, today)
           trend  == monthly_trend(rows, excluded, prefs, scope, today)[1]
<1>0. prefs = Prefs(mode, today) BY DEF Prefs
<1>1. Date(today) /\ IsFiniteSet(pairs) /\ FiledRows(rows) BY FiledInTheVault, DateIs DEF HInv, Calendars, Booked
<1>2. FiledRows(count) BY <1>1, CountedRows
<1>3. tiles.income = Total(Earned(count)) /\ tiles.expenditure = Total(count \ Earned(count))
  BY DEF summary
<1>4. /\ tree.income = category_branch(Earned(count))
      /\ tree.spending = category_branch(count \ Earned(count))
      /\ tree.transfers = transfers_branch(pairs, prefs, scope, today)
  BY DEF drill_down
<1>5. PICK S : S = count OBVIOUS
<1>6. FiledRows(S) /\ Rows(S) BY <1>2, <1>5 DEF FiledRows
<1>7. /\ tree.income.amount = tiles.income
      /\ tree.spending.amount = tiles.expenditure
      /\ tree.income.count + tree.spending.count = Cardinality(count)
  <2> HIDE DEF count, tiles, tree
  <2> QED BY <1>3, <1>4, <1>5, <1>6, BranchesAgree
<1>8. SumFunction(spending_by_category(count)) = tiles.expenditure
  <2> HIDE DEF count, tiles
  <2> QED BY <1>3, <1>5, <1>6, DonutAgrees
<1>9. mode \in {"current_month", "previous_month", "specific_month"} =>
        trend = [income |-> tiles.income, expenditure |-> tiles.expenditure]
  <2> SUFFICES ASSUME mode \in MonthModes
               PROVE  trend = [income |-> tiles.income, expenditure |-> tiles.expenditure]
    BY DEF MonthModes
  <2>1. trend = [income |-> Total(Earned(count)), expenditure |-> Total(count \ Earned(count))]
    BY <1>0, <1>1, TrendAgrees
  <2> HIDE DEF trend, tiles, count
  <2> QED BY <1>3, <2>1
<1>10. says.verdict # "silent" /\ p[2] < today => says.spend = tiles.expenditure
  <2> SUFFICES ASSUME says.verdict # "silent" /\ p[2] < today PROVE says.spend = tiles.expenditure
    OBVIOUS
  <2>1. says.spend = Total(Spent(count)) BY <1>0, <1>1, SummaryAgrees
  <2> HIDE DEF says, tiles, count
  <2> QED BY <1>3, <1>5, <1>6, <2>1, SpentIsAll
<1>11. scope = Everything =>
        tree.transfers.count = Cardinality({m \in pairs : p[1] <= m.debit.on /\ m.debit.on <= p[2]})
  BY <1>1, <1>4, TransfersAgree
<1> QED BY <1>7, <1>8, <1>9, <1>10, <1>11


-----------------------------------------------------------------------------
(* The balances.                                                             *)

(* The sum of a set of one number is the number.                             *)
LEMMA SumSetOne ==
  ASSUME NEW x \in Int
  PROVE  SumSet({x}) = x
<1> DEFINE A == {x}
           f == [y \in A |-> y]
           IsM(it) == it = [s \in SUBSET A |-> IF s = {} THEN 0 ELSE SomeOf(s) + it[s \ {SomeOf(s)}]]
<1>1. IsFiniteSet(A) BY FS_Singleton
<1>2. ASSUME NEW it PROVE IsM(it) <=> IsIter(it, f, A)
  <2>1. \A s \in SUBSET A : s # {} => f[SomeOf(s)] = SomeOf(s) BY SomeOfIn
  <2> QED BY <2>1 DEF IsIter
<1>3. SumSet(A) = (CHOOSE it : IsM(it))[A]
  BY DEF SumSet, FoldSet, MapThenFoldSet, SomeOf
<1>4. \E it : IsM(it) BY <1>1, <1>2, IterExists
<1>7. f[x] = x OBVIOUS
<1>8. Sum(f, A) = x
  <2> HIDE DEF f
  <2> QED BY <1>7, SumOne
<1> HIDE DEF IsM, f
<1>5. IsM(CHOOSE it : IsM(it)) BY <1>4
<1>6. IsIter(CHOOSE it : IsM(it), f, A) BY <1>2, <1>5
<1>9. SumSet(A) = Sum(f, A)
  <2> HIDE DEF A
  <2> QED BY <1>1, <1>3, <1>6, SumFrom
<1> QED BY <1>8, <1>9

(* A closing is the balance the bank had.                                    *)
LEMMA ClosingIs ==
  ASSUME HInv, NEW p \in periods, p.closing # {}
  PROVE  /\ p.account \in Accounts /\ p.end \in Int /\ home.start <= p.end /\ p.end <= today
         /\ Closing(p) = Balance(p.account, p.end) /\ Closing(p) \in Int
<1>1. home.start \in Int /\ today \in Int BY Ends DEF HInv, Calendars, IsDate
<1>2. p.account \in Accounts /\ p.end \in home.start..today /\ p.closing = {Balance(p.account, p.end)}
  BY DEF HInv, ClosingsAreTrue
<1>3. Balance(p.account, p.end) \in Int
  <2>1. PICK A : A = {q \in bank : q.account = p.account /\ q.on <= p.end} OBVIOUS
  <2>2. Balance(p.account, p.end) = Amount(A) BY <2>1, BalanceIs
  <2>3. IsFiniteSet(bank) /\ \A r \in bank : r.amount \in Int BY DEF HInv, Booked, Postings
  <2>4. A \in SUBSET bank BY <2>1
  <2>5. Amount(A) = Sum(Amounts(bank), A) /\ IsFiniteSet(A) BY <2>3, <2>4, AmountIs, FS_Subset
  <2>6. \A r \in A : Amounts(bank)[r] \in Int BY <2>3, <2>4 DEF Amounts
  <2> QED BY <2>2, <2>5, <2>6, SumInt
<1>4. PICK b \in Int : b = Balance(p.account, p.end) BY <1>3
<1>5. Closing(p) = b BY <1>2, <1>4, SumSetOne DEF Closing
<1> QED BY <1>1, <1>2, <1>4, <1>5

(* From one day to a later one a balance moves by the vault's rows and the   *)
(* rows the vault never got.                                                 *)
LEMMA Stretch ==
  ASSUME HInv, NEW a, NEW u \in Int, NEW v \in Int, u <= v
  PROVE  /\ Balance(a, u) \in Int /\ Balance(a, v) \in Int
         /\ sum_after(a, u, v) \in Int /\ LostSum(a, u, v) \in Int
         /\ Balance(a, v) = Balance(a, u) + sum_after(a, u, v) + LostSum(a, u, v)
<1>1. /\ IsFiniteSet(bank) /\ rows \in SUBSET bank
      /\ \A r \in bank : r.amount \in Int /\ r.on \in Int
  BY DEF HInv, Booked, Postings
<1>2. PICK U, V, R, L : /\ U = {p \in bank : p.account = a /\ p.on <= u}
                        /\ V = {p \in bank : p.account = a /\ p.on <= v}
                        /\ R = {r \in rows : r.account = a /\ r.on > u /\ r.on <= v}
                        /\ L = Lost(a, u, v)
  OBVIOUS
<1>3. /\ Balance(a, u) = Amount(U) /\ Balance(a, v) = Amount(V)
      /\ sum_after(a, u, v) = Amount(R) /\ LostSum(a, u, v) = Amount(L)
  <2>1. Balance(a, u) = Amount(U) /\ Balance(a, v) = Amount(V) BY <1>2, BalanceIs
  <2>2. sum_after(a, u, v) = Amount(R) BY <1>2 DEF sum_after, Amount
  <2>3. LostSum(a, u, v) = Amount(L) BY <1>2 DEF LostSum, Amount
  <2> QED BY <2>1, <2>2, <2>3
<1>4. U \in SUBSET bank /\ V \in SUBSET bank /\ R \in SUBSET bank /\ L \in SUBSET bank
  BY <1>1, <1>2 DEF Lost
<1>5. IsFiniteSet(U) /\ IsFiniteSet(V) /\ IsFiniteSet(R) /\ IsFiniteSet(L)
  BY <1>1, <1>4, FS_Subset
<1>6. PICK f : f = Amounts(bank) OBVIOUS
<1>7. \A r \in bank : f[r] \in Int BY <1>1, <1>6 DEF Amounts
<1>8. Amount(U) = Sum(f, U) /\ Amount(V) = Sum(f, V) /\ Amount(R) = Sum(f, R) /\ Amount(L) = Sum(f, L)
  BY <1>1, <1>4, <1>6, AmountIs
<1>9. Sum(f, U) \in Int /\ Sum(f, V) \in Int /\ Sum(f, R) \in Int /\ Sum(f, L) \in Int
  <2>1. /\ \A r \in U : f[r] \in Int
        /\ \A r \in V : f[r] \in Int
        /\ \A r \in R : f[r] \in Int
        /\ \A r \in L : f[r] \in Int
    BY <1>4, <1>7
  <2> QED BY ONLY <1>5, <2>1, SumInt
<1>10. R \cap L = {} /\ U \cap (R \cup L) = {} /\ V = U \cup (R \cup L)
  <2>1. R \cap L = {} BY <1>2 DEF Lost
  <2>2. U \cap (R \cup L) = {} BY <1>1, <1>2 DEF Lost
  <2>3. V = U \cup (R \cup L) BY <1>1, <1>2 DEF Lost
  <2> QED BY <2>1, <2>2, <2>3
<1>11. Sum(f, R \cup L) = Sum(f, R) + Sum(f, L)
  <2>1. \A r \in R \cup L : f[r] \in Int BY <1>4, <1>7
  <2> QED BY ONLY <1>5, <1>10, <2>1, SumUnion
<1>12. Sum(f, V) = Sum(f, U) + Sum(f, R \cup L)
  <2>1. \A r \in U \cup (R \cup L) : f[r] \in Int BY <1>4, <1>7
  <2>2. IsFiniteSet(R \cup L) BY <1>5, FS_Union
  <2> QED BY ONLY <1>5, <1>10, <2>1, <2>2, SumUnion
<1> QED BY ONLY <1>3, <1>8, <1>9, <1>11, <1>12

(* What does not bridge two closings is what was lost between them.          *)
LEMMA BridgeIsLost ==
  ASSUME HInv, NEW a, NEW link \in Chain(a)
  PROVE  bridge(link[1], link[2]) = LostSum(a, link[1].end, link[2].end)
<1>1. PICK p, q : p = link[1] /\ q = link[2] OBVIOUS
<1>2. /\ p \in closing_balances_for_account(a) /\ q \in closing_balances_for_account(a)
      /\ p.end < q.end
  BY <1>1 DEF Chain
<1>3. p \in periods /\ q \in periods /\ p.closing # {} /\ q.closing # {} /\ p.account = a /\ q.account = a
  BY <1>2 DEF closing_balances_for_account
<1>4. /\ p.end \in Int /\ q.end \in Int
      /\ Closing(p) = Balance(a, p.end) /\ Closing(q) = Balance(a, q.end)
  BY <1>3, ClosingIs
<1>5. p.end <= q.end BY <1>2, <1>4
<1>6. /\ Balance(a, p.end) \in Int /\ Balance(a, q.end) \in Int
      /\ sum_after(a, p.end, q.end) \in Int /\ LostSum(a, p.end, q.end) \in Int
      /\ Balance(a, q.end) = Balance(a, p.end) + sum_after(a, p.end, q.end) + LostSum(a, p.end, q.end)
  BY <1>4, <1>5, Stretch
<1>7. bridge(p, q) = Balance(a, q.end) - (Balance(a, p.end) + sum_after(a, p.end, q.end))
  BY <1>3, <1>4 DEF bridge
<1>8. bridge(p, q) = LostSum(a, p.end, q.end) BY ONLY <1>6, <1>7
<1> QED BY <1>1, <1>8

(* An account with a closing has a latest one.                               *)
LEMMA LatestIs ==
  ASSUME HInv, NEW a, closing_balances_for_account(a) # {}
  PROVE  latest_closing_balance(a) \in closing_balances_for_account(a)
<1>1. PICK C : C = closing_balances_for_account(a) OBVIOUS
<1>2. C \in SUBSET periods /\ \A p \in C : p.closing # {}
  BY <1>1 DEF closing_balances_for_account
<1>3. IsFiniteSet(C) BY <1>2, FS_Subset DEF HInv, ClosingsAreTrue
<1>4. \A p \in C : p.end \in Int BY <1>2, ClosingIs
<1>5. PICK g : g = [p \in C |-> p.end] OBVIOUS
<1>6. PICK E : E = {g[p] : p \in DOMAIN g} OBVIOUS
<1>7. IsFiniteSet(E) BY <1>3, <1>5, <1>6, FiniteImage
<1>8. E # {} /\ \A e \in E : e \in Int BY <1>1, <1>4, <1>5, <1>6
<1>9. PICK e \in E : \A d \in E : d <= e BY <1>7, <1>8, GreatestInt
<1>10. PICK p \in C : p.end = e BY <1>5, <1>6
<1>11. \A q \in C : q.end <= p.end
  <2> TAKE q \in C
  <2>1. q.end \in E BY <1>5, <1>6
  <2> QED BY <1>9, <1>10, <2>1
<1> QED BY <1>1, <1>10, <1>11 DEF latest_closing_balance

(* The forecast's start, when nothing was lost since the latest closings.    *)
LEMMA AnchorIs ==
  ASSUME HInv, Anchored # {}, \A a \in Anchored : Lost(a, latest_closing_balance(a).end, today) = {}
  PROVE  MapThenSumSet(AnchorSource, Anchored) = MapThenSumSet(LAMBDA a : Balance(a, today), Anchored)
<1>1. ASSUME NEW a \in Anchored PROVE AnchorSource(a) = Balance(a, today)
  <2>1. PICK p : p = latest_closing_balance(a) OBVIOUS
  <2>2. p \in closing_balances_for_account(a) BY <2>1, LatestIs DEF Anchored
  <2>3. p \in periods /\ p.closing # {} /\ p.account = a BY <2>2 DEF closing_balances_for_account
  <2>4. p.end \in Int /\ p.end <= today /\ Closing(p) = Balance(a, p.end) BY <2>3, ClosingIs
  <2>5. today \in Int BY DEF HInv, Calendars, IsDate
  <2>6. /\ Balance(a, p.end) \in Int /\ Balance(a, today) \in Int
        /\ sum_after(a, p.end, today) \in Int
        /\ Balance(a, today) = Balance(a, p.end) + sum_after(a, p.end, today) + LostSum(a, p.end, today)
    BY <2>4, <2>5, Stretch
  <2>7. LostSum(a, p.end, today) = 0
    <3>1. Lost(a, p.end, today) = {} BY <2>1
    <3>2. LostSum(a, p.end, today) = Amount({}) BY <3>1 DEF LostSum, Amount
    <3>3. Amount({}) = 0
      <4>1. PICK S : S = {} OBVIOUS
      <4>2. IsFiniteSet(S) /\ S \in SUBSET S BY <4>1, FS_EmptySet
      <4>3. Amount(S) = Sum(Amounts(S), S) BY <4>2, AmountIs
      <4>4. Sum(Amounts(S), S) = 0 BY <4>1, <4>2, SumZero
      <4> QED BY <4>1, <4>3, <4>4
    <3> QED BY <3>2, <3>3
  <2>8. AnchorSource(a) = Balance(a, p.end) + sum_after(a, p.end, today)
    BY <2>1, <2>4 DEF AnchorSource
  <2> QED BY ONLY <2>6, <2>7, <2>8
<1>2. IsFiniteSet(Anchored)
  <2>1. Anchored \in SUBSET Accounts BY DEF Anchored
  <2> QED BY <2>1, HouseholdsAreWhole, FS_Subset
<1> DEFINE f == [a \in Anchored |-> Balance(a, today)]
           IsA(it) == it = [s \in SUBSET Anchored |-> IF s = {} THEN 0
                                ELSE AnchorSource(SomeOf(s)) + it[s \ {SomeOf(s)}]]
           IsB(it) == it = [s \in SUBSET Anchored |-> IF s = {} THEN 0
                                ELSE Balance(SomeOf(s), today) + it[s \ {SomeOf(s)}]]
<1>3. ASSUME NEW it PROVE (IsA(it) <=> IsIter(it, f, Anchored)) /\ (IsB(it) <=> IsIter(it, f, Anchored))
  <2>1. \A s \in SUBSET Anchored : s # {} => /\ f[SomeOf(s)] = AnchorSource(SomeOf(s))
                                             /\ f[SomeOf(s)] = Balance(SomeOf(s), today)
    BY <1>1, SomeOfIn
  <2> HIDE DEF f
  <2> QED BY <2>1 DEF IsIter
<1>4. MapThenSumSet(AnchorSource, Anchored) = (CHOOSE it : IsA(it))[Anchored]
  BY DEF MapThenSumSet, MapThenFoldSet, SomeOf
<1>5. MapThenSumSet(LAMBDA a : Balance(a, today), Anchored) = (CHOOSE it : IsB(it))[Anchored]
  BY DEF MapThenSumSet, MapThenFoldSet, SomeOf
<1> HIDE DEF IsA, IsB, f
<1>6. \E it : IsA(it) BY <1>2, <1>3, IterExists
<1>7. \E it : IsB(it) BY <1>2, <1>3, IterExists
<1>8. IsA(CHOOSE it : IsA(it)) BY <1>6
<1>9. IsB(CHOOSE it : IsB(it)) BY <1>7
<1>10. IsIter(CHOOSE it : IsA(it), f, Anchored) /\ IsIter(CHOOSE it : IsB(it), f, Anchored)
  BY <1>3, <1>8, <1>9
<1>11. (CHOOSE it : IsA(it))[Anchored] = Sum(f, Anchored) BY <1>2, <1>10, SumFrom
<1>12. (CHOOSE it : IsB(it))[Anchored] = Sum(f, Anchored) BY <1>2, <1>10, SumFrom
<1> QED BY <1>4, <1>5, <1>11, <1>12

(* An account reconciles when nothing was lost, and the anchor is the bank's. *)
LEMMA BalancesMean == HInv => HonestBalance
<1> SUFFICES ASSUME HInv PROVE HonestBalance OBVIOUS
<1>1. ASSUME NEW a \in Accounts, account_status(a) \in {"reconciled", "off"}
      PROVE  (account_status(a) = "reconciled")
               <=> \A link \in Chain(a) : LostSum(a, link[1].end, link[2].end) = 0
  <2>1. account_status(a) = reconcile_account(a) /\ Chain(a) # {}
    BY <1>1 DEF account_status, reconcile_account
  <2>2. (account_status(a) = "reconciled") <=> \A link \in Chain(a) : bridge(link[1], link[2]) = 0
    BY <2>1 DEF reconcile_account
  <2> QED BY <2>2, BridgeIsLost
<1>2. ASSUME Anchored # {}, \A a \in Anchored : Lost(a, latest_closing_balance(a).end, today) = {}
      PROVE  anchor = {MapThenSumSet(LAMBDA a : Balance(a, today), Anchored)}
  <2>1. anchor = {MapThenSumSet(AnchorSource, Anchored)} BY <1>2 DEF anchor
  <2> QED BY <1>2, <2>1, AnchorIs
<1> QED BY <1>1, <1>2 DEF HonestBalance

(* Whatever the household did and whatever the vault lost: the tiles, the    *)
(* donut, the drill-down, the trend and the summary add a period up alike;   *)
(* and an account is called reconciled exactly when nothing was lost between *)
(* two closings, the anchor being the bank's balance when nothing was lost   *)
(* after the last.                                                           *)
THEOREM Figures == Spec => []FiguresAgree
<1>1. HInv => FiguresAgree BY TilesMean, BalancesMean DEF FiguresAgree
<1> QED BY <1>1, HAlways, PTL

-----------------------------------------------------------------------------
(* The beat of a bill: the days it falls due on, one after the other.        *)

(* The months counted from year 0, where each begins, and its length.        *)
MonthIndex(d) == 12 * year(d) + month(d) - 1
MonthStart(k) == DaysBeforeYear(k \div 12) + DaysBeforeMonth(k \div 12, (k % 12) + 1)
MonthLength(k) == monthrange(k \div 12, (k % 12) + 1)
MonthDay(k, aim) == InMonth(k \div 12, (k % 12) + 1, aim)

(* A month begins where the one before it ends.                              *)
LEMMA MonthsFollow ==
  ASSUME NEW k \in Int
  PROVE  /\ k \div 12 \in Int /\ (k % 12) + 1 \in 1..12
         /\ MonthStart(k) \in Int /\ MonthLength(k) \in 28..31
         /\ MonthStart(k + 1) = MonthStart(k) + MonthLength(k)
<1>1. PICK y \in Int, m \in 1..12 : y = k \div 12 /\ m = (k % 12) + 1 BY ONLY k \in Int
<1>2. PICK s \in Int, l \in 28..31, D \in Int :
        s = DaysBeforeMonth(y, m) /\ l = monthrange(y, m) /\ D = DaysBeforeYear(y)
  <2>1. PICK s \in Int : s = DaysBeforeMonth(y, m) BY MonthIs
  <2>2. PICK l \in 28..31 : l = monthrange(y, m) BY MonthIs
  <2>3. PICK D \in Int : D = DaysBeforeYear(y) BY YearIs
  <2> WITNESS s \in Int, l \in 28..31, D \in Int
  <2> QED BY <2>1, <2>2, <2>3
<1>3. MonthStart(k) = D + s /\ MonthLength(k) = l BY <1>1, <1>2 DEF MonthStart, MonthLength
<1>4. MonthStart(k + 1) = D + s + l
  <2>1. CASE m < 12
    <3>1. (k + 1) \div 12 = y /\ ((k + 1) % 12) + 1 = m + 1 BY ONLY <1>1, <2>1, k \in Int
    <3>2. DaysBeforeMonth(y, m + 1) = s + l
      <4>1. m \in 1..11 BY <2>1
      <4>2. DaysBeforeMonth(y, m + 1) = DaysBeforeMonth(y, m) + monthrange(y, m) BY <4>1, MonthsMeet
      <4> QED BY <1>2, <4>2
    <3> QED BY <1>2, <3>1, <3>2 DEF MonthStart
  <2>2. CASE m = 12
    <3>1. (k + 1) \div 12 = y + 1 /\ ((k + 1) % 12) + 1 = 1 BY ONLY <1>1, <2>2, k \in Int
    <3>2. PICK b \in 0..1 : b = IF Leap(y) THEN 1 ELSE 0 OBVIOUS
    <3>3. s + l = 365 + b
      <4>1. DaysBeforeMonth(y, m) + monthrange(y, m) = 365 + (IF Leap(y) THEN 1 ELSE 0)
        BY <2>2, DecemberLast
      <4> QED BY <1>2, <3>2, <4>1
    <3>4. DaysBeforeYear(y + 1) = D + 365 + b BY <1>2, <3>2, YearStarts
    <3>5. PICK z \in Int, o \in 1..12 : z = y + 1 /\ o = 1 OBVIOUS
    <3>6. DaysBeforeMonth(z, o) = 0 BY <3>5, JanuaryFirst
    <3>7. MonthStart(k + 1) = DaysBeforeYear(z) + DaysBeforeMonth(z, o) BY <3>1, <3>5 DEF MonthStart
    <3>8. DaysBeforeYear(z) = D + 365 + b BY <3>4, <3>5
    <3> QED BY <1>2, <3>2, <3>3, <3>6, <3>7, <3>8
  <2> QED BY <2>1, <2>2
<1> QED BY <1>1, <1>2, <1>3, <1>4

(* A date is its month and its day.                                          *)
LEMMA MonthOf ==
  ASSUME NEW d, IsDate(d)
  PROVE  /\ MonthIndex(d) \in Int
         /\ year(d) = MonthIndex(d) \div 12 /\ month(d) = (MonthIndex(d) % 12) + 1
         /\ ordinal(d) = MonthStart(MonthIndex(d)) + day(d) - 1
         /\ day(d) \in 1..MonthLength(MonthIndex(d))
<1>1. PICK y \in Int, m \in 1..12, e \in 1..31 : y = year(d) /\ m = month(d) /\ e = day(d) BY DateIs
<1>2. PICK k \in Int : k = 12 * y + m - 1 OBVIOUS
<1>3. k \div 12 = y /\ (k % 12) + 1 = m BY ONLY <1>2, y \in Int, m \in 1..12
<1>4. MonthIndex(d) = k BY <1>1, <1>2 DEF MonthIndex
<1>5. ordinal(d) = MonthStart(k) + e - 1 BY <1>1, <1>3 DEF ordinal, MonthStart
<1>6. e \in 1..MonthLength(k) BY <1>1, <1>3 DEF IsDate, MonthLength
<1> QED BY <1>1, <1>3, <1>4, <1>5, <1>6

(* The day of a month nearest below the one aimed at.                        *)
LEMMA MonthDayIs ==
  ASSUME NEW k \in Int, NEW aim \in 1..31
  PROVE  LET d == MonthDay(k, aim)
         IN /\ IsDate(d) /\ d \in Int /\ MonthIndex(d) = k
            /\ day(d) = (IF aim <= MonthLength(k) THEN aim ELSE MonthLength(k))
            /\ ordinal(d) = MonthStart(k) + day(d) - 1
<1>1. PICK y \in Int, m \in 1..12 : y = k \div 12 /\ m = (k % 12) + 1 BY MonthsFollow
<1>2. PICK l \in 28..31 : l = monthrange(y, m) BY MonthIs
<1>3. MonthLength(k) = l BY <1>1, <1>2 DEF MonthLength
<1>4. PICK e : e = IF aim <= l THEN aim ELSE l OBVIOUS
<1>5. e \in 1..99 /\ e \in 1..l BY <1>2, <1>4
<1>6. Min({aim, l}) = e
  <2>1. e \in {aim, l} /\ \A x \in {aim, l} : e <= x BY <1>2, <1>4
  <2>2. \A f \in {aim, l} : (\A x \in {aim, l} : f <= x) => f = e BY <1>2, <1>4
  <2> QED BY <2>1, <2>2 DEF Min
<1>7. MonthDay(k, aim) = date(y, m, e) BY <1>1, <1>2, <1>6 DEF MonthDay, InMonth
<1>8. PICK d : d = date(y, m, e) OBVIOUS
<1>9. d \in Int /\ year(d) = y /\ month(d) = m /\ day(d) = e BY <1>5, <1>8, DateParts
<1>10. IsDate(d) BY <1>2, <1>5, <1>9 DEF IsDate
<1>11. MonthIndex(d) = k
  <2>1. 12 * y + m - 1 = k BY ONLY <1>1, k \in Int
  <2> QED BY <1>9, <2>1 DEF MonthIndex
<1>12. ordinal(d) = MonthStart(k) + e - 1 BY <1>9, <1>10, <1>11, MonthOf
<1> QED BY <1>3, <1>4, <1>7, <1>8, <1>9, <1>10, <1>11, <1>12

(* The day's place in its month.                                             *)
LEMMA MonthDayOn ==
  ASSUME NEW k \in Int, NEW aim \in 1..31
  PROVE  ordinal(MonthDay(k, aim))
           = MonthStart(k) + (IF aim <= MonthLength(k) THEN aim ELSE MonthLength(k)) - 1
<1>1. PICK d : d = MonthDay(k, aim) OBVIOUS
<1>2. /\ day(d) = (IF aim <= MonthLength(k) THEN aim ELSE MonthLength(k))
      /\ ordinal(d) = MonthStart(k) + day(d) - 1
  BY ONLY <1>1, MonthDayIs, k \in Int, aim \in 1..31
<1> QED BY ONLY <1>1, <1>2

(* From one month's day to the next month's is four weeks, and three days at *)
(* the most.                                                                 *)
LEMMA MonthGap ==
  ASSUME NEW k \in Int, NEW aim \in 1..31
  PROVE  ordinal(MonthDay(k + 1, aim)) - ordinal(MonthDay(k, aim)) \in 28..31
<1>1. PICK j \in Int : j = k + 1 OBVIOUS
<1>2. PICK s \in Int, t \in Int, l \in 28..31, n \in 28..31 :
        /\ s = MonthStart(k) /\ t = MonthStart(j) /\ l = MonthLength(k) /\ n = MonthLength(j)
        /\ t = s + l
  <2>1. PICK s \in Int : s = MonthStart(k) BY MonthsFollow
  <2>2. PICK l \in 28..31 : l = MonthLength(k) BY MonthsFollow
  <2>3. PICK n \in 28..31 : n = MonthLength(j) BY <1>1, MonthsFollow
  <2>4. PICK t \in Int : t = s + l OBVIOUS
  <2>5. t = MonthStart(j) BY <1>1, <2>1, <2>2, <2>4, MonthsFollow
  <2> WITNESS s \in Int, t \in Int, l \in 28..31, n \in 28..31
  <2> QED BY <2>1, <2>2, <2>3, <2>4, <2>5
<1>3. PICK x, y : x = (IF aim <= l THEN aim ELSE l) /\ y = (IF aim <= n THEN aim ELSE n) OBVIOUS
<1>4. ordinal(MonthDay(k, aim)) = s + x - 1
  <2>1. ordinal(MonthDay(k, aim))
          = MonthStart(k) + (IF aim <= MonthLength(k) THEN aim ELSE MonthLength(k)) - 1
    BY MonthDayOn
  <2> QED BY ONLY <1>2, <1>3, <2>1
<1>5. ordinal(MonthDay(j, aim)) = t + y - 1
  <2>1. ordinal(MonthDay(j, aim))
          = MonthStart(j) + (IF aim <= MonthLength(j) THEN aim ELSE MonthLength(j)) - 1
    BY MonthDayOn
  <2> QED BY ONLY <1>2, <1>3, <2>1
<1>6. (t + y - 1) - (s + x - 1) \in 28..31 BY <1>2, <1>3
<1> QED BY <1>1, <1>4, <1>5, <1>6

(* Days that come in an order come in that order as dates.                   *)
LEMMA DatesGrow ==
  ASSUME NEW d, IsDate(d), NEW e, IsDate(e)
  PROVE  /\ d \in Int /\ e \in Int /\ ordinal(d) \in Int /\ ordinal(e) \in Int
         /\ d < e <=> ordinal(d) < ordinal(e)
         /\ d <= e <=> ordinal(d) <= ordinal(e)
         /\ d = e <=> ordinal(d) = ordinal(e)
<1>1. d \in Int /\ e \in Int BY DEF IsDate
<1>2. ordinal(d) \in Int /\ ordinal(e) \in Int BY DateIs
<1>3. d < e => ordinal(d) < ordinal(e) BY OrdinalGrows
<1>4. e < d => ordinal(e) < ordinal(d) BY OrdinalGrows
<1> QED BY <1>1, <1>2, <1>3, <1>4

(* The k-th day of a bill's beat, and the least and the greatest number of   *)
(* days from one to the next.                                                *)
Beat(b, k) == IF b.every > 0 THEN plus_days(home.start, b.every * k)
              ELSE MonthDay(MonthIndex(home.start) + k, b.due)
ShortStep(b) == IF b.every > 0 THEN b.every ELSE 28
LongStep(b) == IF b.every > 0 THEN b.every ELSE 31

(* The fields of a bill.                                                     *)
LEMMA BillIs ==
  ASSUME home \in Households, NEW b \in home.bills
  PROVE  /\ b.every \in Nat /\ b.due \in 1..31 /\ b.amount \in Int /\ b.text \in DOMAIN Merchant
         /\ ShortStep(b) \in Nat /\ ShortStep(b) > 0 /\ LongStep(b) \in Nat
         /\ IsDate(home.start)
<1>1. b.every \in Nat /\ b.due \in 1..31 /\ b.amount \in Int /\ b.text \in DOMAIN Merchant
  BY HouseholdsAreWhole
<1> QED BY <1>1, Ends DEF ShortStep, LongStep

(* The beat is of dates, a step apart.                                       *)
LEMMA BeatIs ==
  ASSUME home \in Households, NEW b \in home.bills, NEW k \in Nat
  PROVE  /\ IsDate(Beat(b, k)) /\ Beat(b, k) \in Int /\ ordinal(Beat(b, k)) \in Int
         /\ ordinal(Beat(b, k + 1)) - ordinal(Beat(b, k)) \in ShortStep(b)..LongStep(b)
<1>1. b.every \in Nat /\ b.due \in 1..31 /\ IsDate(home.start) BY BillIs
<1>2. CASE b.every > 0
  <2>1. PICK e \in Nat : e = b.every BY <1>1
  <2>2. PICK i \in Nat, j \in Nat : i = e * k /\ j = e * (k + 1) OBVIOUS
  <2>3. Beat(b, k) = plus_days(home.start, i) /\ Beat(b, k + 1) = plus_days(home.start, j)
    BY <1>2, <2>1, <2>2 DEF Beat
  <2>4. PICK o \in Int : o = ordinal(home.start) BY <1>1, DateIs
  <2>5. /\ IsDate(Beat(b, k)) /\ Beat(b, k) \in Int
        /\ ordinal(Beat(b, k)) = o + i /\ ordinal(Beat(b, k + 1)) = o + j
    BY <1>1, <2>3, <2>4, PlusDays
  <2>6. (o + j) - (o + i) = e BY ONLY <2>2, o \in Int, i \in Nat, j \in Nat, e \in Nat, k \in Nat
  <2>7. ShortStep(b) = e /\ LongStep(b) = e BY <1>2, <2>1 DEF ShortStep, LongStep
  <2>8. ordinal(Beat(b, k + 1)) - ordinal(Beat(b, k)) = e BY <2>5, <2>6
  <2>9. ordinal(Beat(b, k + 1)) - ordinal(Beat(b, k)) \in ShortStep(b)..LongStep(b)
    BY <2>7, <2>8
  <2>10. ordinal(Beat(b, k)) \in Int BY <2>5
  <2> QED BY <2>5, <2>9, <2>10
<1>3. CASE ~(b.every > 0)
  <2>1. PICK x \in Int : x = MonthIndex(home.start) + k BY <1>1, MonthOf
  <2>2. x + 1 = MonthIndex(home.start) + (k + 1) BY <1>1, <2>1, MonthOf
  <2>3. Beat(b, k) = MonthDay(x, b.due) /\ Beat(b, k + 1) = MonthDay(x + 1, b.due)
    BY <1>3, <2>1, <2>2 DEF Beat
  <2>4. ShortStep(b) = 28 /\ LongStep(b) = 31 BY <1>3 DEF ShortStep, LongStep
  <2>5. IsDate(Beat(b, k)) BY <1>1, <2>3, MonthDayIs
  <2>6. ordinal(Beat(b, k + 1)) - ordinal(Beat(b, k)) \in 28..31 BY <1>1, <2>3, MonthGap
  <2> QED BY <2>4, <2>5, <2>6, DatesGrow
<1> QED BY <1>2, <1>3

(* So many steps on, at least as many short steps of days have passed.       *)
LEMMA BeatGoesOn ==
  ASSUME home \in Households, NEW b \in home.bills, NEW k \in Nat
  PROVE  \A n \in Nat : ordinal(Beat(b, k)) + ShortStep(b) * n <= ordinal(Beat(b, k + n))
<1>0. PICK s \in Nat : s = ShortStep(b) BY BillIs
<1> DEFINE S == {n \in Nat : ordinal(Beat(b, k)) + ShortStep(b) * n <= ordinal(Beat(b, k + n))}
<1>1. PICK o \in Int : o = ordinal(Beat(b, k)) BY BeatIs
<1>2. 0 \in S
  <2>1. k + 0 = k OBVIOUS
  <2> QED BY <1>0, <1>1, <2>1
<1>3. ASSUME NEW n \in S PROVE n + 1 \in S
  <2>1. n \in Nat /\ o + s * n <= ordinal(Beat(b, k + n)) BY <1>0, <1>1, <1>3
  <2>2. PICK j \in Nat : j = k + n BY <2>1
  <2>3. j + 1 = k + (n + 1) BY <2>1, <2>2
  <2>4. PICK p \in Int, q \in Int : p = ordinal(Beat(b, j)) /\ q = ordinal(Beat(b, j + 1))
    <3>1. j + 1 \in Nat OBVIOUS
    <3> QED BY <3>1, BeatIs
  <2>5. q - p >= s
    <3>1. LongStep(b) \in Nat BY BillIs
    <3>2. q - p \in s..LongStep(b) BY <1>0, <2>4, BeatIs
    <3> QED BY <3>1, <3>2
  <2>6. o + s * n <= p BY <2>1, <2>2, <2>4
  <2>7. o + s * (n + 1) <= q BY ONLY <2>1, <2>5, <2>6, s \in Nat, o \in Int, p \in Int, q \in Int, n \in Nat
  <2>8. ordinal(Beat(b, k)) + ShortStep(b) * (n + 1) <= ordinal(Beat(b, k + (n + 1)))
    BY <1>0, <1>1, <2>3, <2>4, <2>7
  <2> QED BY <2>1, <2>8
<1>4. S \in SUBSET Nat OBVIOUS
<1>5. S = Nat
  <2> HIDE DEF S
  <2> QED BY <1>2, <1>3, <1>4, NatSetInduction
<1> QED BY <1>5

(* A later beat is a later date.                                             *)
LEMMA BeatGrows ==
  ASSUME home \in Households, NEW b \in home.bills, NEW j \in Nat, NEW k \in Nat
  PROVE  /\ j < k <=> Beat(b, j) < Beat(b, k)
         /\ j <= k <=> Beat(b, j) <= Beat(b, k)
         /\ j = k <=> Beat(b, j) = Beat(b, k)
<1>1. PICK s \in Nat : s = ShortStep(b) /\ s > 0 BY BillIs
<1>2. ASSUME NEW i \in Nat, NEW l \in Nat, i < l PROVE Beat(b, i) < Beat(b, l)
  <2>1. PICK n \in Nat : l = i + n /\ n > 0
    <3>1. l - i \in Nat /\ l = i + (l - i) /\ l - i > 0 BY <1>2
    <3> QED BY <3>1
  <2>2. PICK p \in Int, q \in Int : p = ordinal(Beat(b, i)) /\ q = ordinal(Beat(b, l)) BY BeatIs
  <2>3. p + s * n <= q BY <1>1, <2>1, <2>2, BeatGoesOn
  <2>4. p < q BY ONLY <1>1, <2>1, <2>3, s \in Nat, n \in Nat, p \in Int, q \in Int
  <2>5. IsDate(Beat(b, i)) /\ IsDate(Beat(b, l)) BY BeatIs
  <2> QED BY <2>2, <2>4, <2>5, DatesGrow
<1>3. Beat(b, j) \in Int /\ Beat(b, k) \in Int BY BeatIs
<1>4. j < k => Beat(b, j) < Beat(b, k) BY <1>2
<1>5. k < j => Beat(b, k) < Beat(b, j) BY <1>2
<1> QED BY <1>3, <1>4, <1>5

(* Dates in the order of their months.                                       *)
LEMMA MonthsInOrder ==
  ASSUME NEW d, IsDate(d), NEW e, IsDate(e), d <= e
  PROVE  MonthIndex(d) <= MonthIndex(e)
<1>1. PICK y \in Int, m \in 1..12, a \in 1..31 : y = year(d) /\ m = month(d) /\ a = day(d) BY DateIs
<1>2. PICK z \in Int, n \in 1..12, c \in 1..31 : z = year(e) /\ n = month(e) /\ c = day(e) BY DateIs
<1>3. d = 10000 * y + 100 * m + a /\ e = 10000 * z + 100 * n + c BY <1>1, <1>2, DateIs DEF date
<1>4. 12 * y + m - 1 <= 12 * z + n - 1 BY <1>1, <1>2, <1>3
<1> QED BY <1>1, <1>2, <1>4 DEF MonthIndex

(* A bill falls due on its beat.                                             *)
LEMMA DueOnTheBeat ==
  ASSUME home \in Households, NEW b \in home.bills, NEW from, NEW to, IsDate(from), IsDate(to),
         home.start <= from
  PROVE  \A d : d \in DueDates(b, from, to) <=> \E k \in Nat : d = Beat(b, k) /\ from <= d /\ d <= to
<1>1. b.every \in Nat /\ b.due \in 1..31 /\ IsDate(home.start) BY BillIs
<1>2. CASE b.every > 0
  <2>1. PICK e \in Nat : e = b.every /\ e > 0 BY <1>1, <1>2
  <2>2. PICK o \in Int, t \in Int : o = ordinal(home.start) /\ t = ordinal(to) BY <1>1, DateIs
  <2>3. PICK n \in Int : n = (t - o) \div e BY <2>1
  <2>4. \A d : d \in DueDates(b, from, to)
                 <=> /\ \E k \in 0..n : d = plus_days(home.start, e * k)
                     /\ from <= d /\ d <= to
    BY <1>2, <2>1, <2>2, <2>3 DEF DueDates, Every, days_between
  <2>5. \A k \in Nat : Beat(b, k) = plus_days(home.start, e * k) BY <1>2, <2>1 DEF Beat
  <2>6. \A k \in Nat : Beat(b, k) <= to => k \in 0..n
    <3> SUFFICES ASSUME NEW k \in Nat, Beat(b, k) <= to PROVE k \in 0..n OBVIOUS
    <3>1. PICK i \in Nat : i = e * k OBVIOUS
    <3>2. IsDate(plus_days(home.start, i)) /\ ordinal(plus_days(home.start, i)) = o + i
      BY <1>1, <2>2, PlusDays
    <3>3. o + i <= t
      <4>1. Beat(b, k) = plus_days(home.start, i) BY <2>5, <3>1
      <4> QED BY <2>2, <3>2, <4>1, DatesGrow
    <3>4. k <= n BY ONLY <2>1, <2>3, <3>1, <3>3, e \in Nat, k \in Nat, i \in Nat, o \in Int, t \in Int, n \in Int
    <3> QED BY <3>4
  <2>7. 0..n \subseteq Nat OBVIOUS
  <2> QED BY <2>4, <2>5, <2>6, <2>7
<1>3. CASE ~(b.every > 0)
  <2>1. PICK x \in Int, f \in Int, t \in Int :
          x = MonthIndex(home.start) /\ f = MonthIndex(from) /\ t = MonthIndex(to)
    BY <1>1, MonthOf
  <2>2. x <= f BY <1>1, <2>1, MonthsInOrder
  <2>3. \A d : d \in DueDates(b, from, to)
                 <=> /\ \E k \in f..t : d = MonthDay(k, b.due)
                     /\ from <= d /\ d <= to
    BY <1>3, <2>1 DEF DueDates, BillMonths, MonthDay, MonthIndex
  <2>4. \A k \in Nat : Beat(b, k) = MonthDay(x + k, b.due) BY <1>3, <2>1 DEF Beat
  <2>5. \A k \in Int : from <= MonthDay(k, b.due) /\ MonthDay(k, b.due) <= to => k \in f..t
    <3> SUFFICES ASSUME NEW k \in Int, from <= MonthDay(k, b.due), MonthDay(k, b.due) <= to
                 PROVE  k \in f..t
      OBVIOUS
    <3>1. PICK d : d = MonthDay(k, b.due) OBVIOUS
    <3>2. IsDate(d) /\ MonthIndex(d) = k BY <1>1, <3>1, MonthDayIs
    <3>3. from <= d /\ d <= to BY <3>1
    <3>4. f <= k /\ k <= t BY <2>1, <3>2, <3>3, MonthsInOrder
    <3> QED BY <3>4
  <2>6. ASSUME NEW d, d \in DueDates(b, from, to)
        PROVE  \E k \in Nat : d = Beat(b, k) /\ from <= d /\ d <= to
    <3>1. PICK k \in f..t : d = MonthDay(k, b.due) BY <2>3, <2>6
    <3>2. from <= d /\ d <= to BY <2>3, <2>6
    <3>3. PICK j \in Nat : k = x + j
      <4>1. k - x \in Nat /\ k = x + (k - x) BY <2>2
      <4> QED BY <4>1
    <3> QED BY <2>4, <3>1, <3>2, <3>3
  <2>7. ASSUME NEW d, NEW k \in Nat, d = Beat(b, k), from <= d, d <= to
        PROVE  d \in DueDates(b, from, to)
    <3>1. PICK j \in Int : j = x + k OBVIOUS
    <3>2. d = MonthDay(j, b.due) BY <2>4, <2>7, <3>1
    <3>3. j \in f..t BY <2>5, <2>7, <3>2
    <3> QED BY <2>3, <2>7, <3>2, <3>3
  <2> QED BY <2>6, <2>7
<1> QED BY <1>2, <1>3

(* Days of the beat, one after the other.                                    *)
Run(b, lo, hi) == {Beat(b, k) : k \in lo..hi}

(* The days a bill fell due on up to a date, when there are three of them.   *)
LEMMA DueIsARun ==
  ASSUME home \in Households, NEW b \in home.bills, NEW to, IsDate(to), home.start <= to,
         Cardinality(DueDates(b, home.start, to)) >= 3
  PROVE  \E lo \in Nat, hi \in Nat :
            /\ lo + 2 <= hi /\ DueDates(b, home.start, to) = Run(b, lo, hi)
            /\ Beat(b, hi) <= to /\ to < Beat(b, hi + 1)
<1>1. IsDate(home.start) /\ home.start \in Int /\ to \in Int BY Ends DEF IsDate
<1>2. PICK S : S = DueDates(b, home.start, to) OBVIOUS
<1>3. \A d : d \in S <=> \E k \in Nat : d = Beat(b, k) /\ home.start <= d /\ d <= to
  BY <1>1, <1>2, DueOnTheBeat
<1>4. PICK K : K = {k \in Nat : home.start <= Beat(b, k) /\ Beat(b, k) <= to} OBVIOUS
<1>5. IsFiniteSet(K)
  <2>1. PICK s \in Nat : s = ShortStep(b) /\ s > 0 BY BillIs
  <2>2. PICK z \in Nat : z = 0 OBVIOUS
  <2>3. PICK o \in Int, t \in Int : o = ordinal(Beat(b, z)) /\ t = ordinal(to) BY DateIs, BeatIs
  <2>4. K \in SUBSET (z..(t - o))
    <3> SUFFICES ASSUME NEW k \in K PROVE k \in z..(t - o) OBVIOUS
    <3>1. k \in Nat /\ Beat(b, k) <= to BY <1>4
    <3>2. PICK p \in Int : p = ordinal(Beat(b, k)) /\ p <= t BY <2>3, <3>1, BeatIs, DatesGrow
    <3>3. z + k = k BY <2>2, <3>1
    <3>4. o + s * k <= p BY <2>1, <2>3, <3>1, <3>2, <3>3, BeatGoesOn
    <3>5. k <= t - o BY ONLY <2>1, <3>1, <3>2, <3>4, s \in Nat, k \in Nat, o \in Int, t \in Int, p \in Int
    <3> QED BY <2>2, <3>1, <3>5
  <2>5. IsFiniteSet(z..(t - o)) BY FS_Interval
  <2> QED BY <2>4, <2>5, FS_Subset
<1>6. K # {}
  <2>1. S # {}
    <3>1. Cardinality({}) = 0 BY FS_EmptySet
    <3> QED BY <1>2, <3>1
  <2> QED BY <1>3, <1>4, <2>1
<1>7. \A k \in K : k \in Int BY <1>4
<1>8. PICK lo \in K : \A k \in K : lo <= k BY <1>5, <1>6, <1>7, LeastInt
<1>9. PICK hi \in K : \A k \in K : k <= hi BY <1>5, <1>6, <1>7, GreatestInt
<1>10. lo \in Nat /\ hi \in Nat /\ lo <= hi BY <1>4, <1>9
<1>11. K = lo..hi
  <2>0. \A k \in K : k \in lo..hi
    <3> TAKE k \in K
    <3>1. lo <= k /\ k <= hi /\ k \in Int BY <1>7, <1>8, <1>9
    <3> QED BY <1>10, <3>1
  <2> SUFFICES ASSUME NEW k \in lo..hi PROVE k \in K BY <2>0
  <2>1. k \in Nat /\ lo <= k /\ k <= hi BY <1>10
  <2>2. Beat(b, lo) <= Beat(b, k) /\ Beat(b, k) <= Beat(b, hi) BY <1>10, <2>1, BeatGrows
  <2>3. Beat(b, lo) \in Int /\ Beat(b, k) \in Int /\ Beat(b, hi) \in Int BY <1>10, <2>1, BeatIs
  <2>4. home.start <= Beat(b, lo) /\ Beat(b, hi) <= to BY <1>4
  <2>5. home.start <= Beat(b, k) /\ Beat(b, k) <= to BY <1>1, <2>2, <2>3, <2>4
  <2> QED BY <1>4, <2>1, <2>5
<1>12. S = Run(b, lo, hi)
  <2>1. \A d : d \in S <=> \E k \in K : d = Beat(b, k) BY <1>3, <1>4
  <2> QED BY <1>11, <2>1 DEF Run
<1>13. lo + 2 <= hi
  <2> SUFFICES ASSUME hi < lo + 2 PROVE FALSE BY <1>10
  <2>1. PICK x, y : x = Beat(b, lo) /\ y = Beat(b, lo + 1) OBVIOUS
  <2>2. \A k \in lo..hi : k = lo \/ k = lo + 1 BY <1>10
  <2>3. PICK X, Y : X = {x} /\ Y = {y} OBVIOUS
  <2>4. S \subseteq X \cup Y BY <1>12, <2>1, <2>2, <2>3 DEF Run
  <2>5. IsFiniteSet(X) /\ IsFiniteSet(Y) /\ Cardinality(X) = 1 /\ Cardinality(Y) = 1
    BY <2>3, FS_Singleton
  <2>6. IsFiniteSet(X \cup Y) /\ Cardinality(X \cup Y) = Cardinality(X) + Cardinality(Y) - Cardinality(X \cap Y)
    BY <2>5, FS_Union
  <2>7. IsFiniteSet(X \cap Y) /\ Cardinality(X \cap Y) \in Nat BY <2>5, FS_Intersection, FS_CardinalityType
  <2>8. Cardinality(S) <= Cardinality(X \cup Y) BY <2>4, <2>6, FS_Subset
  <2>9. Cardinality(S) \in Nat BY <2>4, <2>6, FS_Subset, FS_CardinalityType
  <2>10. PICK c \in Nat, i \in Nat : c = Cardinality(S) /\ i = Cardinality(X \cap Y) BY <2>7, <2>9
  <2>11. Cardinality(X \cup Y) = 2 - i BY <2>5, <2>6, <2>10
  <2>12. c <= 2 - i BY <2>8, <2>10, <2>11
  <2>13. c >= 3 BY <1>2, <2>10
  <2> QED BY <2>10, <2>12, <2>13
<1>14. Beat(b, hi) <= to BY <1>4
<1>15. to < Beat(b, hi + 1)
  <2>1. PICK n \in Nat : n = hi + 1 BY <1>10
  <2>2. n \notin K BY <1>9, <1>10, <2>1
  <2>3. Beat(b, n) \in Int /\ Beat(b, hi) \in Int BY <1>10, BeatIs
  <2>4. Beat(b, hi) <= Beat(b, n) BY <1>10, <2>1, BeatGrows
  <2>5. home.start <= Beat(b, hi) BY <1>4
  <2>6. home.start <= Beat(b, n) BY <1>1, <2>3, <2>4, <2>5
  <2>7. ~(Beat(b, n) <= to) BY <1>4, <2>2, <2>6
  <2> QED BY <1>1, <2>1, <2>3, <2>7
<1> QED BY <1>2, <1>10, <1>12, <1>13, <1>14, <1>15

(* The first and the last of a run, and its gaps.                            *)
LEMMA RunIs ==
  ASSUME home \in Households, NEW b \in home.bills, NEW lo \in Nat, NEW hi \in Nat, lo + 2 <= hi
  PROVE  /\ Max(Run(b, lo, hi)) = Beat(b, hi)
         /\ \A g \in Gaps(Run(b, lo, hi)) : g \in ShortStep(b)..LongStep(b)
         /\ Gaps(Run(b, lo, hi)) # {}
         /\ IsFiniteSet(Run(b, lo, hi)) /\ Cardinality(Run(b, lo, hi)) >= 3
<1>1. PICK S : S = Run(b, lo, hi) OBVIOUS
<1>2. \A d : d \in S <=> \E k \in lo..hi : d = Beat(b, k) BY <1>1 DEF Run
<1>3. lo..hi \subseteq Nat /\ hi \in lo..hi /\ lo \in lo..hi /\ lo + 1 \in lo..hi OBVIOUS
<1>4. \A k \in lo..hi : Beat(b, k) \in Int /\ Beat(b, k) <= Beat(b, hi) /\ Beat(b, k) \in S
  <2> TAKE k \in lo..hi
  <2>1. k \in Nat /\ k <= hi BY <1>3
  <2> QED BY <1>2, <2>1, BeatIs, BeatGrows
<1>5. IsFiniteSet(S)
  <2>1. PICK g : g = [k \in lo..hi |-> Beat(b, k)] OBVIOUS
  <2>2. DOMAIN g = lo..hi BY <2>1
  <2>3. IsFiniteSet(lo..hi) BY FS_Interval
  <2>4. S = {g[k] : k \in DOMAIN g} BY <1>1, <2>1, <2>2 DEF Run
  <2> QED BY <2>2, <2>3, <2>4, FiniteImage
<1>6. \A d \in S : d \in Int /\ d <= Beat(b, hi) BY <1>2, <1>4
<1>7. Beat(b, hi) \in S BY <1>3, <1>4
<1>8. Max(S) = Beat(b, hi)
  <2>1. Max(S) \in S /\ \A d \in S : d <= Max(S) BY <1>5, <1>6, <1>7, MaxIs
  <2>2. PICK m \in Int : m = Max(S) BY <1>6, <2>1
  <2>3. Beat(b, hi) \in Int /\ Beat(b, hi) <= m /\ m <= Beat(b, hi) BY <1>6, <1>7, <2>1, <2>2
  <2> QED BY <2>2, <2>3
<1>9. ASSUME NEW k \in lo..hi, k # hi
      PROVE  Min({e \in S : e > Beat(b, k)}) = Beat(b, k + 1)
  <2>1. k \in Nat /\ k < hi /\ k + 1 \in lo..hi /\ k + 1 \in Nat BY <1>3, <1>9
  <2>2. PICK n \in Nat : n = k + 1 /\ n \in lo..hi BY <2>1
  <2>3. PICK U : U = {e \in S : e > Beat(b, k)} OBVIOUS
  <2>4. Beat(b, n) \in U
    <3>1. Beat(b, k) < Beat(b, n) BY <2>1, <2>2, BeatGrows
    <3>2. Beat(b, k) \in Int /\ Beat(b, n) \in Int /\ Beat(b, n) \in S BY <1>4, <2>2
    <3> QED BY <2>3, <3>1, <3>2
  <2>5. \A e \in U : e \in Int /\ Beat(b, n) <= e
    <3> TAKE e \in U
    <3>1. e \in S /\ e > Beat(b, k) BY <2>3
    <3>2. PICK j \in lo..hi : e = Beat(b, j) BY <1>2, <3>1
    <3>3. j \in Nat /\ Beat(b, k) \in Int /\ Beat(b, j) \in Int BY <1>3, <1>4
    <3>4. k < j BY <2>1, <3>1, <3>2, <3>3, BeatGrows
    <3>5. n <= j BY <2>1, <2>2, <3>3, <3>4
    <3> QED BY <2>2, <3>2, <3>3, <3>5, BeatGrows
  <2>6. IsFiniteSet(U)
    <3>1. U \in SUBSET S BY <2>3
    <3> QED BY <1>5, <3>1, FS_Subset
  <2>7. Min(U) \in U /\ \A e \in U : Min(U) <= e BY <2>4, <2>5, <2>6, MinIs
  <2>8. PICK m \in Int : m = Min(U) BY <2>5, <2>7
  <2>9. Beat(b, n) \in Int /\ m <= Beat(b, n) /\ Beat(b, n) <= m BY <2>4, <2>5, <2>7, <2>8
  <2> QED BY <2>2, <2>3, <2>8, <2>9
<1>10. ASSUME NEW k \in lo..hi, k # hi
       PROVE  days_between(Beat(b, k), Min({e \in S : e > Beat(b, k)})) \in ShortStep(b)..LongStep(b)
  <2>1. k \in Nat BY <1>3
  <2> QED BY <1>9, <1>10, <2>1, BeatIs DEF days_between
<1>11. \A g \in Gaps(S) : g \in ShortStep(b)..LongStep(b)
  <2> TAKE g \in Gaps(S)
  <2>1. PICK d \in S \ {Max(S)} : g = days_between(d, Min({e \in S : e > d})) BY DEF Gaps
  <2>2. PICK k \in lo..hi : d = Beat(b, k) BY <1>2, <2>1
  <2>3. k # hi BY <1>8, <2>1, <2>2
  <2> QED BY <1>10, <2>1, <2>2, <2>3
<1>12. Gaps(S) # {}
  <2>1. Beat(b, lo) < Beat(b, hi) BY BeatGrows
  <2>2. Beat(b, lo) \in S /\ Beat(b, lo) \in Int /\ Beat(b, hi) \in Int BY <1>3, <1>4
  <2>3. Beat(b, lo) \in S \ {Max(S)} BY <1>8, <2>1, <2>2
  <2> QED BY <2>3 DEF Gaps
<1>13. Cardinality(S) >= 3
  <2>1. PICK x \in Int, y \in Int, z \in Int :
          x = Beat(b, lo) /\ y = Beat(b, lo + 1) /\ z = Beat(b, hi)
    BY <1>3, <1>4
  <2>2. x < y /\ y < z
    <3>1. PICK n \in Nat : n = lo + 1 /\ lo < n /\ n < hi OBVIOUS
    <3> QED BY <2>1, <3>1, BeatGrows
  <2>3. x \in S /\ y \in S /\ z \in S BY <1>3, <1>4, <2>1
  <2>4. PICK A, B, C : A = {x} /\ B = A \cup {y} /\ C = B \cup {z} OBVIOUS
  <2>5. IsFiniteSet(A) /\ Cardinality(A) = 1 BY <2>4, FS_Singleton
  <2>6. y \notin A /\ z \notin B BY <2>2, <2>4
  <2>7. IsFiniteSet(B) /\ Cardinality(B) = 2
    <3>1. IsFiniteSet(B) /\ Cardinality(B) = Cardinality(A) + 1 BY <2>4, <2>5, <2>6, FS_AddElement
    <3> QED BY <2>5, <3>1
  <2>8. IsFiniteSet(C) /\ Cardinality(C) = 3
    <3>1. IsFiniteSet(C) /\ Cardinality(C) = Cardinality(B) + 1 BY <2>4, <2>6, <2>7, FS_AddElement
    <3> QED BY <2>7, <3>1
  <2>9. C \in SUBSET S BY <2>3, <2>4
  <2>10. Cardinality(C) <= Cardinality(S) BY <1>5, <2>9, FS_Subset
  <2>11. Cardinality(S) \in Nat BY <1>5, FS_CardinalityType
  <2> QED BY <2>8, <2>10, <2>11
<1> QED BY <1>1, <1>5, <1>8, <1>11, <1>12, <1>13

(* The cadence a bill of an ordinary household keeps.                        *)
Cadence(b) == IF b.every = 7 THEN "weekly" ELSE IF b.every = 14 THEN "fortnightly" ELSE "monthly"
Regular(b) == b.every \in {0, 7, 14}

(* The steps of each cadence, and how they are told apart.                   *)
LEMMA CadenceIs ==
  ASSUME NEW b, Regular(b)
  PROVE  /\ Cadence(b) \in Cadences /\ Nominal[Cadence(b)] \in Nat
         /\ ShortStep(b) \in Nat /\ LongStep(b) \in Nat
         /\ Nominal[Cadence(b)] - 2 \in 1..ShortStep(b)
         /\ Nominal[Cadence(b)] = (IF b.every > 0 THEN b.every ELSE 30)
         /\ \A c \in Cadences : \A g \in ShortStep(b)..LongStep(b) : g \in Bands[c] <=> c = Cadence(b)
<1>1. /\ Bands["weekly"] = 5..10 /\ Bands["fortnightly"] = 11..18
      /\ Bands["monthly"] = 25..35 /\ Bands["yearly"] = 330..400
  BY DEF Bands
<1>2. Nominal["weekly"] = 7 /\ Nominal["fortnightly"] = 14 /\ Nominal["monthly"] = 30 BY DEF Nominal
<1>3. \A c \in Cadences : c = "weekly" \/ c = "fortnightly" \/ c = "monthly" \/ c = "yearly"
  BY DEF Cadences
<1>4. CASE b.every = 0
  <2>1. Cadence(b) = "monthly" /\ ShortStep(b) = 28 /\ LongStep(b) = 31
    BY <1>4 DEF Cadence, ShortStep, LongStep
  <2> QED BY <1>1, <1>2, <1>3, <1>4, <2>1 DEF Cadences
<1>5. CASE b.every = 7
  <2>1. Cadence(b) = "weekly" /\ ShortStep(b) = 7 /\ LongStep(b) = 7
    BY <1>5 DEF Cadence, ShortStep, LongStep
  <2> QED BY <1>1, <1>2, <1>3, <1>5, <2>1 DEF Cadences
<1>6. CASE b.every = 14
  <2>1. Cadence(b) = "fortnightly" /\ ShortStep(b) = 14 /\ LongStep(b) = 14
    BY <1>6 DEF Cadence, ShortStep, LongStep
  <2> QED BY <1>1, <1>2, <1>3, <1>6, <2>1 DEF Cadences
<1> QED BY <1>4, <1>5, <1>6 DEF Regular

(* A run of days is of the bill's cadence.                                   *)
LEMMA RunCadence ==
  ASSUME home \in Households, NEW b \in home.bills, Regular(b),
         NEW lo \in Nat, NEW hi \in Nat, lo + 2 <= hi
  PROVE  classify(Run(b, lo, hi)) = Cadence(b)
<1>1. PICK S : S = Run(b, lo, hi) OBVIOUS
<1>2. /\ \A g \in Gaps(S) : g \in ShortStep(b)..LongStep(b)
      /\ Gaps(S) # {} /\ IsFiniteSet(S) /\ Cardinality(S) >= 3
  BY <1>1, RunIs
<1>3. \A c \in Cadences : Gaps(S) \subseteq Bands[c] <=> c = Cadence(b)
  <2> TAKE c \in Cadences
  <2>1. PICK g \in Gaps(S) : g \in ShortStep(b)..LongStep(b) BY <1>2
  <2>2. \A h \in Gaps(S) : h \in Bands[c] <=> c = Cadence(b) BY <1>2, CadenceIs
  <2> QED BY <2>1, <2>2
<1>4. {c \in Cadences : Gaps(S) \subseteq Bands[c]} = {Cadence(b)} BY <1>3, CadenceIs
<1>5. Cardinality(S) \in Nat BY <1>2, FS_CardinalityType
<1>6. ~(Cardinality(S) < 3) BY <1>2, <1>5
<1>7. PICK C : C = {Cadence(b)} OBVIOUS
<1>8. classify(S) = CHOOSE c \in C : TRUE BY <1>4, <1>6, <1>7 DEF classify
<1> QED BY <1>1, <1>7, <1>8

(* Of two months one has 31 days.                                            *)
LEMMA LongMonth ==
  ASSUME NEW k \in Int
  PROVE  MonthLength(k) = 31 \/ MonthLength(k + 1) = 31
<1>1. PICK y \in Int, m \in 1..12 : y = k \div 12 /\ m = (k % 12) + 1 BY MonthsFollow
<1>2. CASE m \in {1, 3, 5, 7, 8, 10, 12}
  <2>1. monthrange(y, m) = 31 BY <1>2 DEF monthrange
  <2> QED BY <1>1, <2>1 DEF MonthLength
<1>3. CASE m \notin {1, 3, 5, 7, 8, 10, 12}
  <2>1. m \in {2, 4, 6, 9, 11} BY <1>3
  <2>2. PICK z : z = (k + 1) \div 12 OBVIOUS
  <2>3. ((k + 1) % 12) + 1 = m + 1 BY ONLY <1>1, <2>1, k \in Int, m \in 1..12
  <2>4. monthrange(z, m + 1) = 31 BY <2>1 DEF monthrange
  <2> QED BY <2>2, <2>3, <2>4 DEF MonthLength
<1> QED BY <1>2, <1>3

(* Of a monthly bill three days give the day it aims at away, however short  *)
(* the month of the last.                                                    *)
LEMMA RunAim ==
  ASSUME home \in Households, NEW b \in home.bills, b.every = 0,
         NEW lo \in Nat, NEW hi \in Nat, lo + 2 <= hi
  PROVE  intended_day(Run(b, lo, hi)) = b.due
<1>1. b.due \in 1..31 /\ IsDate(home.start) BY BillIs
<1>2. PICK x \in Int : x = MonthIndex(home.start) BY <1>1, MonthOf
<1>3. \A k \in Nat : Beat(b, k) = MonthDay(x + k, b.due) BY <1>2 DEF Beat
<1>4. ASSUME NEW k \in Nat
      PROVE  /\ day(Beat(b, k)) = (IF b.due <= MonthLength(x + k) THEN b.due ELSE MonthLength(x + k))
             /\ MonthLength(x + k) \in 28..31
             /\ monthrange(year(Beat(b, k)), month(Beat(b, k))) = MonthLength(x + k)
             /\ day(Beat(b, k)) \in Int /\ day(Beat(b, k)) <= b.due
  <2>1. PICK j \in Int : j = x + k OBVIOUS
  <2>2. PICK d : d = MonthDay(j, b.due) OBVIOUS
  <2>3. d = Beat(b, k) BY <1>3, <2>1, <2>2
  <2>4. IsDate(d) /\ MonthIndex(d) = j /\ day(d) = (IF b.due <= MonthLength(j) THEN b.due ELSE MonthLength(j))
    BY <1>1, <2>2, MonthDayIs
  <2>5. MonthLength(j) \in 28..31 BY MonthsFollow
  <2>6. year(d) = j \div 12 /\ month(d) = (j % 12) + 1 BY <2>4, MonthOf
  <2>7. monthrange(year(d), month(d)) = MonthLength(j) BY <2>6 DEF MonthLength
  <2>8. day(d) \in Int /\ day(d) <= b.due BY <1>1, <2>4, <2>5
  <2> QED BY <2>1, <2>3, <2>4, <2>5, <2>7, <2>8
<1>5. PICK S : S = Run(b, lo, hi) OBVIOUS
<1>6. IsFiniteSet(S) /\ Max(S) = Beat(b, hi) BY <1>5, RunIs
<1>7. PICK D : D = {day(d) : d \in S} OBVIOUS
<1>8. IsFiniteSet(D)
  <2>1. PICK g : g = [d \in S |-> day(d)] OBVIOUS
  <2>2. DOMAIN g = S /\ D = {g[d] : d \in DOMAIN g} BY <1>7, <2>1
  <2> QED BY <1>6, <2>2, FiniteImage
<1>9. \A e \in D : e \in Int /\ e <= b.due
  <2> TAKE e \in D
  <2>1. PICK d \in S : e = day(d) BY <1>7
  <2>2. PICK k \in lo..hi : d = Beat(b, k) BY <1>5, <2>1 DEF Run
  <2>3. k \in Nat OBVIOUS
  <2> QED BY <1>4, <2>1, <2>2, <2>3
<1>10. b.due \in D
  <2>1. PICK i \in Nat : i + 1 = hi /\ i \in lo..hi /\ hi \in lo..hi
    <3>1. hi - 1 \in Nat /\ (hi - 1) + 1 = hi /\ hi - 1 \in lo..hi /\ hi \in lo..hi OBVIOUS
    <3> QED BY <3>1
  <2>2. PICK j \in Int : j = x + i OBVIOUS
  <2>3. j + 1 = x + hi BY <2>1, <2>2
  <2>4. MonthLength(x + i) = 31 \/ MonthLength(x + hi) = 31 BY <2>2, <2>3, LongMonth
  <2>5. PICK k \in Nat : k \in lo..hi /\ MonthLength(x + k) = 31 BY <2>1, <2>4
  <2>6. day(Beat(b, k)) = b.due BY <1>1, <1>4, <2>5
  <2>7. Beat(b, k) \in S BY <1>5, <2>5 DEF Run
  <2> QED BY <1>7, <2>6, <2>7
<1>11. Max(D) = b.due
  <2>1. Max(D) \in D /\ \A e \in D : e <= Max(D) BY <1>8, <1>9, <1>10, MaxIs
  <2>2. PICK m \in Int : m = Max(D) BY <1>9, <2>1
  <2> QED BY <1>1, <1>9, <1>10, <2>1, <2>2
<1>12. PICK l : l = Beat(b, hi) OBVIOUS
<1>13. intended_day(S) = IF day(l) = monthrange(year(l), month(l)) THEN Max(D) ELSE day(l)
  BY <1>6, <1>7, <1>12 DEF intended_day
<1>14. day(l) # monthrange(year(l), month(l)) => day(l) = b.due BY <1>4, <1>12
<1> QED BY <1>5, <1>11, <1>13, <1>14

(* Counted on from the last day of a run, the cadence is the beat.           *)
LEMMA CadenceIsTheBeat ==
  ASSUME home \in Households, NEW b \in home.bills, Regular(b), NEW hi \in Nat, NEW aim,
         b.every = 0 => aim = b.due
  PROVE  \A n \in Nat : add_cadence_n(Beat(b, hi), Cadence(b), n, aim) = Beat(b, hi + n)
<1> SUFFICES ASSUME NEW n \in Nat PROVE add_cadence_n(Beat(b, hi), Cadence(b), n, aim) = Beat(b, hi + n)
  OBVIOUS
<1>1. b.due \in 1..31 /\ IsDate(home.start) BY BillIs
<1>2. PICK d : d = Beat(b, hi) OBVIOUS
<1>3. CASE b.every # 0
  <2>1. PICK e \in Nat : e = b.every /\ e \in {7, 14} /\ e > 0 BY <1>3 DEF Regular
  <2>2. PICK i \in Nat, j \in Nat, s \in Nat : i = e * hi /\ j = e * n /\ s = e * (hi + n) OBVIOUS
  <2>3. d = plus_days(home.start, i) /\ Beat(b, hi + n) = plus_days(home.start, s)
    BY <1>2, <2>1, <2>2 DEF Beat
  <2>4. add_cadence_n(d, Cadence(b), n, aim) = plus_days(d, j)
    <3>1. CASE e = 7
      <4>1. Cadence(b) = "weekly" BY <2>1, <3>1 DEF Cadence
      <4> QED BY <2>2, <3>1, <4>1 DEF add_cadence_n
    <3>2. CASE e = 14
      <4>1. Cadence(b) = "fortnightly" BY <2>1, <3>2 DEF Cadence
      <4> QED BY <2>2, <3>2, <4>1 DEF add_cadence_n
    <3> QED BY <2>1, <3>1, <3>2
  <2>5. PICK o \in Int : o = ordinal(home.start) BY <1>1, DateIs
  <2>6. IsDate(d) /\ ordinal(d) = o + i BY <1>1, <2>3, <2>5, PlusDays
  <2>7. PICK x, y : x = plus_days(d, j) /\ y = plus_days(home.start, s) OBVIOUS
  <2>8. IsDate(x) /\ ordinal(x) = (o + i) + j BY <2>6, <2>7, PlusDays
  <2>9. IsDate(y) /\ ordinal(y) = o + s BY <1>1, <2>5, <2>7, PlusDays
  <2>10. (o + i) + j = o + s BY ONLY <2>2, o \in Int, e \in Nat, n \in Nat, hi \in Nat, i \in Nat, j \in Nat, s \in Nat
  <2>11. x = y BY <2>8, <2>9, <2>10, DatesGrow
  <2> QED BY <1>2, <2>3, <2>4, <2>7, <2>11
<1>4. CASE b.every = 0
  <2>1. Cadence(b) = "monthly" /\ aim = b.due BY <1>4 DEF Cadence
  <2>2. PICK x \in Int : x = MonthIndex(home.start) BY <1>1, MonthOf
  <2>3. PICK j \in Int : j = x + hi OBVIOUS
  <2>4. d = MonthDay(j, b.due) BY <1>2, <1>4, <2>2, <2>3 DEF Beat
  <2>5. IsDate(d) /\ MonthIndex(d) = j BY <1>1, <2>4, MonthDayIs
  <2>6. PICK y \in Int, m \in 1..12 : y = year(d) /\ m = month(d) BY <2>5, DateIs
  <2>7. j = 12 * y + m - 1 BY <2>5, <2>6 DEF MonthIndex
  <2>8. PICK t \in Int : t = m - 1 + n OBVIOUS
  <2>9. y + t \div 12 = (j + n) \div 12 /\ t % 12 = (j + n) % 12
    BY ONLY <2>7, <2>8, y \in Int, m \in 1..12, n \in Nat, j \in Int, t \in Int
  <2>10. add_months(d, n, b.due) = InMonth(y + t \div 12, (t % 12) + 1, b.due)
    <3>1. b.due # 0 BY <1>1
    <3> QED BY <2>6, <2>8, <3>1 DEF add_months
  <2>11. add_months(d, n, b.due) = MonthDay(j + n, b.due) BY <2>9, <2>10 DEF MonthDay
  <2>12. Beat(b, hi + n) = MonthDay(x + (hi + n), b.due) BY <1>4, <2>2 DEF Beat
  <2>13. x + (hi + n) = j + n BY <2>3
  <2>14. add_cadence_n(d, Cadence(b), n, aim) = add_months(d, n, b.due) BY <2>1 DEF add_cadence_n
  <2> QED BY <1>2, <2>11, <2>12, <2>13, <2>14
<1> QED BY <1>3, <1>4

-----------------------------------------------------------------------------
(* Bills, and what the program makes of them.                                *)

(* Bills fall due every month, week or fortnight, for some amount, and       *)
(* nothing else is posted under a bill's text.                               *)
OrdinaryBills ==
    \A h \in Households : \A b \in h.bills :
        /\ Regular(b) /\ b.amount # 0
        /\ \A x \in h.buys : x.text # b.text
        /\ \A m \in h.moves : m.debit # b.text /\ m.credit # b.text

(* The owner has confirmed no row of a bill's as a leg of a transfer.        *)
BillsAreNotTransfers ==
    \A b \in home.bills, r \in rows : r.text = b.text => r.id \notin excluded

(* What the bank posted under a bill's text is a bill it took when due.      *)
BillsAreTaken ==
    \A b \in home.bills, p \in bank :
        p.text = b.text =>
            \E c \in home.bills : p = BillPosting(c, p.on) /\ p.on \in DueDates(c, home.start, today)

(* What is due in a stretch of days is due in a longer one.                  *)
LEMMA DueInMore ==
  ASSUME home \in Households, NEW b \in home.bills,
         NEW f, NEW g, NEW s, NEW t, IsDate(f), IsDate(g), IsDate(s), IsDate(t),
         home.start <= f, f <= g, s <= t
  PROVE  DueDates(b, g, s) \subseteq DueDates(b, f, t)
<1>1. f \in Int /\ g \in Int /\ s \in Int /\ t \in Int /\ home.start \in Int BY Ends DEF IsDate
<1>2. home.start <= g BY <1>1
<1> SUFFICES ASSUME NEW d, d \in DueDates(b, g, s) PROVE d \in DueDates(b, f, t) OBVIOUS
<1>3. PICK k \in Nat : d = Beat(b, k) /\ g <= d /\ d <= s BY <1>2, DueOnTheBeat
<1>4. d \in Int BY <1>3, BeatIs
<1>5. f <= d /\ d <= t BY <1>1, <1>3, <1>4
<1> QED BY <1>3, <1>5, DueOnTheBeat

(* A step leaves the days a bill is due on as they are.                      *)
LEMMA DueNext ==
  ASSUME home' = home
  PROVE  \A b, f, t : DueDates(b, f, t)' = DueDates(b, f, t)
BY DEF DueDates, Every, BillMonths

(* Days that pass: bills taken as they fall due, and other things.           *)
LEMMA BillsGoOn ==
  ASSUME HInv, BillsAreTaken, NEW posted, Passes(posted),
         \A p \in posted : p \in Coming \/ \A b \in home.bills : p.text # b.text
  PROVE  BillsAreTaken'
<1>1. /\ home' = home /\ today' = NextLook /\ bank' = bank \cup posted /\ today < home.end
  BY DEF Passes
<1>2. IsDate(NextLook) /\ today < NextLook /\ NextLook <= home.end BY <1>1, NextLookIs DEF HInv
<1>3. /\ home \in Households /\ IsDate(today) /\ IsDate(home.start) /\ home.start <= today
      /\ home.start \in Int /\ today \in Int /\ NextLook \in Int
  BY <1>2, Ends DEF HInv, Calendars, IsDate
<1>4. PICK f : f = plus_days(today, 1) OBVIOUS
<1>5. IsDate(f) /\ f \in Int /\ today < f BY <1>3, <1>4, PlusDays
<1>6. home.start <= f /\ home.start <= home.start /\ today <= NextLook BY <1>2, <1>3, <1>5
<1> SUFFICES ASSUME NEW b \in home.bills, NEW p \in bank \cup posted, p.text = b.text
             PROVE  \E c \in home.bills : /\ p = BillPosting(c, p.on)
                                          /\ p.on \in DueDates(c, home.start, NextLook)
  <2>1. \A d : \A c \in home.bills : BillPosting(c, d)' = BillPosting(c, d) OBVIOUS
  <2>2. \A c \in home.bills : DueDates(c, home.start, today)' = DueDates(c, home.start, NextLook)
    BY <1>1 DEF DueDates, Every, BillMonths
  <2> QED BY <1>1, <2>2 DEF BillsAreTaken
<1>7. CASE p \in bank
  <2>1. PICK c \in home.bills : p = BillPosting(c, p.on) /\ p.on \in DueDates(c, home.start, today)
    BY <1>7 DEF BillsAreTaken
  <2>2. DueDates(c, home.start, today) \subseteq DueDates(c, home.start, NextLook)
    BY <1>2, <1>3, <1>6, DueInMore
  <2> QED BY <2>1, <2>2
<1>8. CASE p \in Coming
  <2>1. PICK c \in home.bills : \E d \in DueDates(c, f, NextLook) : p = BillPosting(c, d)
    BY <1>4, <1>8 DEF Coming, Due
  <2>2. PICK d \in DueDates(c, f, NextLook) : p = BillPosting(c, d) BY <2>1
  <2>3. p.on = d BY <2>2 DEF BillPosting, Posting
  <2>4. DueDates(c, f, NextLook) \subseteq DueDates(c, home.start, NextLook)
    <3>1. PICK n : n = NextLook /\ IsDate(n) /\ n \in Int BY <1>2, <1>3
    <3>2. home.start <= home.start /\ n <= n BY <1>3, <3>1
    <3>3. DueDates(c, f, n) \subseteq DueDates(c, home.start, n)
      BY ONLY <1>3, <1>5, <1>6, <3>1, <3>2, c \in home.bills, DueInMore
    <3> QED BY <3>1, <3>3
  <2> QED BY <2>2, <2>3, <2>4
<1> QED BY <1>7, <1>8

(* The first day's bills are taken, and every step keeps it so.              *)
LEMMA BillsBegin == Init => BillsAreTaken
<1> SUFFICES ASSUME Init, NEW b \in home.bills, NEW p \in bank, p.text = b.text
             PROVE  \E c \in home.bills : /\ p = BillPosting(c, p.on)
                                          /\ p.on \in DueDates(c, home.start, today)
  BY DEF BillsAreTaken
<1>1. PICK c \in home.bills : \E d \in DueDates(c, home.start, today) : p = BillPosting(c, d)
  BY DEF Init, Due
<1>2. PICK d \in DueDates(c, home.start, today) : p = BillPosting(c, d) BY <1>1
<1>3. p.on = d BY <1>2 DEF BillPosting, Posting
<1> QED BY <1>2, <1>3

(* A step posts no bill but one that falls due, and nothing else under its   *)
(* text.                                                                     *)
LEMMA BillsKept ==
  ASSUME OrdinaryBills
  PROVE  HInv /\ BillsAreTaken /\ [Next]_vars => BillsAreTaken'
<1> SUFFICES ASSUME HInv, BillsAreTaken, [Next]_vars PROVE BillsAreTaken' OBVIOUS
<1>0. home \in Households BY DEF HInv, Calendars
<1>1. CASE DayPasses BY <1>1, BillsGoOn DEF DayPasses
<1>2. CASE SkipBill
  <2>1. PICK p \in Coming : Passes(Coming \ {p}) BY <1>2 DEF SkipBill
  <2> QED BY <2>1, BillsGoOn
<1>3. CASE Buy
  <2>1. PICK x \in home.buys :
            Passes(Coming \cup {Posting(x.text, x.account, NextLook, x.amount, x.category)})
    BY <1>3 DEF Buy
  <2>2. PICK q : q = Posting(x.text, x.account, NextLook, x.amount, x.category) OBVIOUS
  <2>3. q.text = x.text BY <2>2 DEF Posting
  <2>4. \A b \in home.bills : q.text # b.text BY <1>0, <2>3 DEF OrdinaryBills
  <2>5. PICK posted : posted = Coming \cup {q} OBVIOUS
  <2>6. \A p \in posted : p \in Coming \/ \A b \in home.bills : p.text # b.text BY <2>4, <2>5
  <2>7. Passes(posted) BY <2>1, <2>2, <2>5
  <2> QED BY <2>6, <2>7, BillsGoOn
<1>4. CASE MoveMoney
  <2>1. PICK m \in home.moves :
            Passes(Coming
                 \cup {Posting(m.debit, m.from, NextLook, -m.amount, None),
                       Posting(m.credit, m.to, plus_days(NextLook, m.days), m.amount, None)})
    BY <1>4 DEF MoveMoney
  <2>2. PICK d, c : /\ d = Posting(m.debit, m.from, NextLook, -m.amount, None)
                    /\ c = Posting(m.credit, m.to, plus_days(NextLook, m.days), m.amount, None)
    OBVIOUS
  <2>3. d.text = m.debit /\ c.text = m.credit BY <2>2 DEF Posting
  <2>4. \A b \in home.bills : d.text # b.text /\ c.text # b.text BY <1>0, <2>3 DEF OrdinaryBills
  <2>5. PICK posted : posted = Coming \cup {d, c} OBVIOUS
  <2>6. \A p \in posted : p \in Coming \/ \A b \in home.bills : p.text # b.text BY <2>4, <2>5
  <2>7. Passes(posted) BY <2>1, <2>2, <2>5
  <2> QED BY <2>6, <2>7, BillsGoOn
<1>5. ASSUME UNCHANGED <<home, today, bank>> PROVE BillsAreTaken'
  <2>1. \A b \in home.bills : DueDates(b, home.start, today)' = DueDates(b, home.start, today)
    BY <1>5, DueNext
  <2> QED BY <1>5, <2>1 DEF BillsAreTaken
<1>6. ASSUME Next, ~DayPasses, ~SkipBill, ~Buy, ~MoveMoney PROVE UNCHANGED <<home, today, bank>>
  BY <1>6 DEF Next, FallBehind, Import, ImportCsv, ImportLosesRow, Statement, confirm, dismiss, reset,
              Decide, dismiss_alert, confirm_transfer, unlink_transfer, Over, vars
<1>7. CASE UNCHANGED vars BY <1>5, <1>7 DEF vars
<1> QED BY <1>1, <1>2, <1>3, <1>4, <1>5, <1>6, <1>7

BillsInv == HInv /\ BillsAreTaken /\ BillsAreNotTransfers

(* The rows of a bill's merchant, when it has no other, are the bill's.      *)
LEMMA StreamIsTheBill ==
  ASSUME OrdinaryBills, BillsInv, NEW b \in home.bills, OnlyBill(b),
         NEW r \in rows, Key(r) = Merchant[b.text]
  PROVE  /\ r = BillPosting(b, r.on) /\ r.on \in DueDates(b, home.start, today)
         /\ r.amount = b.amount /\ r.amount # 0 /\ r.id \notin excluded
         /\ Direction(r) = Direction(b) /\ Magnitude(r) = Magnitude(b)
         /\ r \in StreamRows(b)
<1>1. r \in bank /\ home \in Households BY DEF BillsInv, HInv, Booked, Calendars
<1>2. r.text = b.text BY <1>1 DEF OnlyBill
<1>3. PICK c \in home.bills : r = BillPosting(c, r.on) /\ r.on \in DueDates(c, home.start, today)
  BY <1>1, <1>2 DEF BillsInv, BillsAreTaken
<1>4. r.text = c.text /\ r.amount = c.amount BY <1>3 DEF BillPosting, Posting
<1>5. c = b BY <1>2, <1>4 DEF OnlyBill
<1>6. b.amount # 0 BY <1>1 DEF OrdinaryBills
<1>7. r.id \notin excluded BY <1>2 DEF BillsInv, BillsAreNotTransfers
<1>8. Direction(r) = Direction(b) /\ Magnitude(r) = Magnitude(b)
  BY <1>4, <1>5 DEF Direction, Magnitude
<1>9. r \in StreamRows(b) BY <1>8 DEF StreamRows
<1> QED BY <1>3, <1>4, <1>5, <1>6, <1>7, <1>8, <1>9

(* The rows of one direction and merchant the program looks at together.     *)
Kept == {r \in rows : r.id \notin excluded /\ r.amount # 0}
GroupOf(s) == {r \in Kept : <<Direction(r), Key(r)>> = s}

(* What is found of a bill's merchant is the item of the bill's rows.        *)
LEMMA StreamIsOneItem ==
  ASSUME OrdinaryBills, BillsInv, NEW b \in home.bills, OnlyBill(b)
  PROVE  /\ \A i \in detect_recurring(rows, today, excluded) :
              i.key = Merchant[b.text] => i = RecurringItem(StreamRows(b)) /\ Qualifies(StreamRows(b), today)
         /\ StreamRows(b) # {} /\ Qualifies(StreamRows(b), today)
              => RecurringItem(StreamRows(b)) \in detect_recurring(rows, today, excluded)
<1>1. PICK sb : sb = <<Direction(b), Merchant[b.text]>> OBVIOUS
<1>2. PICK D : D = detect_recurring(rows, today, excluded) OBVIOUS
<1>3. D = {RecurringItem(g) : g \in {h \in {GroupOf(s) : s \in {<<Direction(r), Key(r)>> : r \in Kept}} :
                                       Qualifies(h, today)}}
  BY <1>2 DEF detect_recurring, GroupOf, Kept
<1>4. \A r \in rows : Key(r) = Merchant[b.text] => r \in Kept /\ r \in StreamRows(b)
  BY StreamIsTheBill DEF Kept
<1>5. GroupOf(sb) = StreamRows(b)
  <2>1. Kept \subseteq rows BY DEF Kept
  <2>2. \A r \in StreamRows(b) : r \in rows /\ Key(r) = Merchant[b.text] /\ Direction(r) = Direction(b)
    BY DEF StreamRows
  <2>3. \A r : r \in GroupOf(sb) <=> r \in Kept /\ Direction(r) = Direction(b) /\ Key(r) = Merchant[b.text]
    BY <1>1 DEF GroupOf
  <2> QED BY <1>4, <2>1, <2>2, <2>3
<1>6. ASSUME NEW i \in D, i.key = Merchant[b.text]
      PROVE  i = RecurringItem(StreamRows(b)) /\ Qualifies(StreamRows(b), today)
  <2>1. PICK g \in {h \in {GroupOf(s) : s \in {<<Direction(r), Key(r)>> : r \in Kept}} : Qualifies(h, today)} :
          i = RecurringItem(g)
    BY <1>3
  <2>2. Qualifies(g, today) /\ g \in {GroupOf(s) : s \in {<<Direction(r), Key(r)>> : r \in Kept}}
    OBVIOUS
  <2>3. PICK s \in {<<Direction(r), Key(r)>> : r \in Kept} : g = GroupOf(s) BY <2>2
  <2>4. PICK q \in Kept : s = <<Direction(q), Key(q)>> BY <2>3
  <2>5. q \in g BY <2>3, <2>4 DEF GroupOf
  <2>6. PICK y \in g : y = CHOOSE x \in g : TRUE BY <2>5
  <2>7. i.key = Key(y) BY <2>1, <2>6 DEF RecurringItem
  <2>8. Key(y) = Key(q) BY <2>3, <2>4 DEF GroupOf
  <2>9. q \in rows /\ Key(q) = Merchant[b.text] BY <1>6, <2>4, <2>7, <2>8 DEF Kept
  <2>10. Direction(q) = Direction(b) BY <2>9, StreamIsTheBill
  <2>11. s = sb BY <1>1, <2>4, <2>9, <2>10
  <2> QED BY <1>5, <2>1, <2>2, <2>3, <2>11
<1>7. ASSUME StreamRows(b) # {}, Qualifies(StreamRows(b), today)
      PROVE  RecurringItem(StreamRows(b)) \in D
  <2>1. PICK r \in StreamRows(b) : TRUE BY <1>7
  <2>2. r \in rows /\ Key(r) = Merchant[b.text] /\ Direction(r) = Direction(b) BY DEF StreamRows
  <2>3. r \in Kept /\ <<Direction(r), Key(r)>> = sb BY <1>1, <1>4, <2>2
  <2>4. sb \in {<<Direction(x), Key(x)>> : x \in Kept} BY <2>3
  <2>5. StreamRows(b) \in {GroupOf(s) : s \in {<<Direction(x), Key(x)>> : x \in Kept}} BY <1>5, <2>4
  <2>6. StreamRows(b) \in {h \in {GroupOf(s) : s \in {<<Direction(x), Key(x)>> : x \in Kept}} :
                             Qualifies(h, today)}
    BY <1>7, <2>5
  <2> QED BY <1>3, <2>6
<1> QED BY <1>2, <1>6, <1>7

(* What an item says of a bill whose latest day is the hi-th of its beat.    *)
Follows(i, b, hi) ==
    /\ i.key = Merchant[b.text] /\ i.direction = Direction(b) /\ i.cadence = Cadence(b)
    /\ i.amount = Magnitude(b) /\ i.last_seen = Beat(b, hi) /\ i.next_expected = Beat(b, hi + 1)
    /\ \A n \in Nat : add_cadence_n(i.last_seen, i.cadence, n, i.day_of_month) = Beat(b, hi + n)

(* Rows of one amount: it is their median, and none is out of tolerance.     *)
LEMMA OneAmount ==
  ASSUME NEW G, IsFiniteSet(G), G # {}, NEW m \in Nat, \A r \in G : Magnitude(r) = m
  PROVE  median_low(G) = m /\ WithinTolerance(G)
<1>1. PICK c \in Nat : c = Cardinality(G) BY FS_CardinalityType
<1>2. {r \in G : Magnitude(r) <= m} = G OBVIOUS
<1>3. {Magnitude(r) : r \in G} = {m} OBVIOUS
<1>4. c >= (c + 1) \div 2
  <2>1. c # 0 BY <1>1, FS_EmptySet
  <2> QED BY ONLY <2>1, c \in Nat
<1>5. {v \in {m} : Cardinality({r \in G : Magnitude(r) <= v}) >= (c + 1) \div 2} = {m} BY <1>1, <1>2, <1>4
<1>6. median_low(G) = Min({m}) BY <1>1, <1>3, <1>5 DEF median_low
<1>7. Min({m}) = m
  <2>1. PICK S : S = {m} OBVIOUS
  <2>2. Min(S) \in S
    <3>1. IsFiniteSet(S) /\ S # {} /\ \A x \in S : x \in Int BY <2>1, FS_Singleton
    <3> QED BY <3>1, MinIs
  <2> QED BY <2>1, <2>2
<1>8. median_low(G) = m BY <1>6, <1>7
<1>9. WithinTolerance(G)
  <2> SUFFICES ASSUME NEW r \in G
               PROVE  LET off == Magnitude(r) - m
                      IN 100 * (IF off < 0 THEN -off ELSE off) <= 10 * m
    BY <1>8 DEF WithinTolerance
  <2>1. Magnitude(r) - m = 0 OBVIOUS
  <2>2. 100 * 0 <= 10 * m OBVIOUS
  <2> QED BY <2>1, <2>2
<1> QED BY <1>8, <1>9

(* The item of a bill's rows follows its beat, and is found while the bill   *)
(* is not silent for two of its steps.                                       *)
LEMMA ItemFollows ==
  ASSUME OrdinaryBills, BillsInv, NEW b \in home.bills, OnlyBill(b),
         NEW lo \in Nat, NEW hi \in Nat, lo + 2 <= hi, Days(StreamRows(b)) = Run(b, lo, hi)
  PROVE  /\ StreamRows(b) # {} /\ Follows(RecurringItem(StreamRows(b)), b, hi)
         /\ days_between(Beat(b, hi), today) <= 2 * Nominal[Cadence(b)]
              => Qualifies(StreamRows(b), today)
<1>0. home \in Households /\ Regular(b) /\ b.amount \in Int /\ b.amount # 0
  <2>1. home \in Households BY DEF BillsInv, HInv, Calendars
  <2> QED BY <2>1, BillIs DEF OrdinaryBills
<1>1. PICK G : G = StreamRows(b) OBVIOUS
<1>2. \A r \in G : r \in rows /\ Key(r) = Merchant[b.text] /\ Direction(r) = Direction(b)
  BY <1>1 DEF StreamRows
<1>3. \A r \in G : Magnitude(r) = Magnitude(b) BY <1>2, StreamIsTheBill
<1>4. PICK m \in Nat : m = Magnitude(b) BY <1>0 DEF Magnitude
<1>5. PICK S : S = Run(b, lo, hi) OBVIOUS
<1>6. Days(G) = S /\ Max(S) = Beat(b, hi) /\ IsFiniteSet(S) /\ Cardinality(S) >= 3
      /\ classify(S) = Cadence(b)
  BY <1>0, <1>1, <1>5, RunIs, RunCadence
<1>7. IsFiniteSet(G)
  <2>1. G \in SUBSET bank BY <1>2 DEF BillsInv, HInv, Booked
  <2> QED BY <2>1, FS_Subset DEF BillsInv, HInv, Booked, Postings
<1>8. Cardinality(G) >= Cardinality(S) /\ Cardinality(G) \in Nat /\ Cardinality(S) \in Nat
  <2>1. PICK f : f = [r \in G |-> r.on] OBVIOUS
  <2>2. f \in Surjection(G, S) BY <1>6, <2>1 DEF Days, Surjection
  <2> QED BY <1>6, <1>7, <2>2, FS_Surjection, FS_CardinalityType
<1>9. G # {}
  <2>1. Cardinality({}) = 0 BY FS_EmptySet
  <2> QED BY <1>6, <1>8, <2>1
<1>10. median_low(G) = m /\ WithinTolerance(G) BY <1>3, <1>4, <1>7, <1>9, OneAmount
<1>11. PICK aim : aim = intended_day(S) OBVIOUS
<1>12. b.every = 0 => aim = b.due BY <1>0, <1>5, <1>11, RunAim
<1>13. \A n \in Nat : add_cadence_n(Beat(b, hi), Cadence(b), n, aim) = Beat(b, hi + n)
  BY <1>0, <1>12, CadenceIsTheBeat
<1>14. PICK i : i = RecurringItem(G) OBVIOUS
<1>15. PICK y \in G : y = CHOOSE x \in G : TRUE BY <1>9
<1>16. /\ i.key = Key(y) /\ i.direction = Direction(y) /\ i.cadence = classify(S)
       /\ i.amount = median_low(G) /\ i.last_seen = Max(S) /\ i.day_of_month = aim
       /\ i.next_expected = add_cadence_n(Max(S), classify(S), 1, aim)
  BY <1>6, <1>11, <1>14, <1>15 DEF RecurringItem
<1>17. i.next_expected = Beat(b, hi + 1)
  <2>1. PICK n \in Nat : n = 1 OBVIOUS
  <2>2. add_cadence_n(Beat(b, hi), Cadence(b), n, aim) = Beat(b, hi + n) BY <1>13
  <2> QED BY <1>6, <1>16, <2>1, <2>2
<1>18. Follows(i, b, hi) BY <1>2, <1>4, <1>6, <1>10, <1>13, <1>15, <1>16, <1>17 DEF Follows
<1>19. ASSUME days_between(Beat(b, hi), today) <= 2 * Nominal[Cadence(b)] PROVE Qualifies(G, today)
  <2>1. Active(S, today) BY <1>6, <1>19 DEF Active, ActiveGrace
  <2>2. classify(S) # "none" BY <1>6 DEF Cadence
  <2>3. Cardinality(G) >= 3 BY <1>6, <1>8
  <2> QED BY <1>6, <1>10, <2>1, <2>2, <2>3 DEF Qualifies, MinOccurrences
<1> QED BY <1>1, <1>9, <1>14, <1>18, <1>19

(* What is confirmed of a bill's merchant is its item.                       *)
LEMMA StreamFound ==
  ASSUME OrdinaryBills, BillsInv, NEW b \in home.bills, OnlyBill(b), Known(b),
         NEW lo \in Nat, NEW hi \in Nat, lo + 2 <= hi, Days(StreamRows(b)) = Run(b, lo, hi)
  PROVE  /\ \A i \in found.confirmed : i.key = Merchant[b.text] => Follows(i, b, hi)
         /\ days_between(Beat(b, hi), today) <= 2 * Nominal[Cadence(b)]
              => \E i \in found.confirmed : Follows(i, b, hi)
<1>1. PICK D : D = detect_recurring(rows, today, excluded) OBVIOUS
<1>2. found.confirmed = {i \in D : decisions[<<i.direction, i.key>>] = "confirmed"}
  BY <1>1 DEF found, snapshot
<1>3. PICK G : G = StreamRows(b) OBVIOUS
<1>4. /\ \A i \in D : i.key = Merchant[b.text] => i = RecurringItem(G)
      /\ G # {} /\ Qualifies(G, today) => RecurringItem(G) \in D
  BY <1>1, <1>3, StreamIsOneItem
<1>5. /\ G # {} /\ Follows(RecurringItem(G), b, hi)
      /\ days_between(Beat(b, hi), today) <= 2 * Nominal[Cadence(b)] => Qualifies(G, today)
  BY <1>3, ItemFollows
<1>6. decisions[<<RecurringItem(G).direction, RecurringItem(G).key>>] = "confirmed"
  BY <1>5 DEF Follows, Known
<1> QED BY <1>2, <1>4, <1>5, <1>6

-----------------------------------------------------------------------------
(* The forecast.                                                             *)

(* A later date is of the day after or later.                                *)
LEMMA DayAfter ==
  ASSUME NEW d, IsDate(d), NEW e, IsDate(e)
  PROVE  /\ IsDate(plus_days(d, 1)) /\ d < plus_days(d, 1)
         /\ d < e <=> plus_days(d, 1) <= e
<1>1. PICK f : f = plus_days(d, 1) OBVIOUS
<1>2. IsDate(f) /\ ordinal(f) = ordinal(d) + 1 BY <1>1, PlusDays
<1>3. PICK o \in Int, p \in Int : o = ordinal(d) /\ p = ordinal(e) BY DateIs
<1>4. d < e <=> o < p BY <1>3, DatesGrow
<1>5. f <= e <=> o + 1 <= p BY <1>2, <1>3, DatesGrow
<1>6. d < f BY <1>2, <1>3, DatesGrow
<1> QED BY <1>1, <1>2, <1>3, <1>4, <1>5, <1>6

(* The horizons are today or later.                                          *)
LEMMA HorizonsAre ==
  ASSUME IsDate(today), NEW h \in horizons
  PROVE  IsDate(h) /\ today <= h
<1>1. CASE \E n \in {30, 60, 90} : h = plus_days(today, n)
  <2>1. PICK n \in Nat : h = plus_days(today, n) BY <1>1
  <2> QED BY <2>1, PlusDays
<1>2. CASE h = month_bounds(<<year(today), month(today)>>)[2]
  <2>1. PICK y \in Int, m \in 1..12, e \in 1..31 : y = year(today) /\ m = month(today) /\ e = day(today)
    BY DateIs
  <2>2. PICK l \in 28..31 : l = monthrange(y, m) BY MonthIs
  <2>3. h = date(y, m, l) BY <1>2, <2>1, <2>2 DEF month_bounds
  <2>4. l \in 1..99 /\ l \in 1..l BY <2>2
  <2>5. h \in Int /\ year(h) = y /\ month(h) = m /\ day(h) = l BY <2>3, <2>4, DateParts
  <2>6. IsDate(h) BY <2>2, <2>4, <2>5 DEF IsDate
  <2>7. today = date(y, m, e) BY <2>1, DateIs
  <2>8. e <= l
    <3>1. e \in 1..l BY <2>1, <2>2 DEF IsDate
    <3> QED BY <2>2, <3>1
  <2>9. today <= h BY <2>2, <2>3, <2>7, <2>8 DEF date
  <2> QED BY <2>6, <2>9
<1> QED BY <1>1, <1>2 DEF horizons

(* The occurrences of an item that follows a bill are the days it is due.    *)
LEMMA OccurrencesAre ==
  ASSUME home \in Households, NEW b \in home.bills, Regular(b), NEW hi \in Nat,
         NEW i, Follows(i, b, hi), NEW h, IsDate(h), IsDate(today), home.start <= today, today <= h,
         Beat(b, hi) <= today
  PROVE  occurrences(i, today, h) = DueDates(b, plus_days(today, 1), h)
<1>1. IsDate(Beat(b, hi)) BY BeatIs
<1>2. PICK o \in Int, p \in Int : o = ordinal(Beat(b, hi)) /\ p = ordinal(h) BY <1>1, DateIs
<1>3. PICK s \in Nat, v \in Int :
         s = ShortStep(b) /\ v = Nominal[Cadence(b)] - 2 /\ 1 <= v /\ v <= s
  BY CadenceIs
<1>4. PICK z \in Int : z = ((p - o) \div v) + 1 BY <1>3
<1>5. i.last_seen = Beat(b, hi) /\ i.cadence = Cadence(b)
      /\ \A n \in Nat : add_cadence_n(i.last_seen, i.cadence, n, i.day_of_month) = Beat(b, hi + n)
  BY DEF Follows
<1>6. days_between(i.last_seen, h) \div (Nominal[i.cadence] - 2) + 1 = z
  BY <1>2, <1>3, <1>4, <1>5 DEF days_between
<1>7. occurrences(i, today, h)
        = {d \in {add_cadence_n(i.last_seen, i.cadence, n, i.day_of_month) : n \in 0..z} :
              today < d /\ d <= h}
  BY <1>6 DEF occurrences
<1>8. \A n \in 0..z : n \in Nat OBVIOUS
<1>9. \A d : d \in occurrences(i, today, h) <=> \E n \in 0..z : d = Beat(b, hi + n) /\ today < d /\ d <= h
  BY <1>5, <1>7, <1>8
<1>10. PICK f : f = plus_days(today, 1) OBVIOUS
<1>11. IsDate(f) /\ today < f BY <1>10, DayAfter
<1>12. home.start \in Int /\ today \in Int /\ f \in Int /\ h \in Int BY <1>11, Ends DEF IsDate
<1>13. home.start <= f BY <1>11, <1>12
<1>14. \A d : d \in DueDates(b, f, h) <=> \E k \in Nat : d = Beat(b, k) /\ f <= d /\ d <= h
  BY <1>11, <1>13, DueOnTheBeat
<1>15. \A k \in Nat : today < Beat(b, k) <=> f <= Beat(b, k) BY <1>10, BeatIs, DayAfter
<1>16. ASSUME NEW d, d \in occurrences(i, today, h) PROVE d \in DueDates(b, f, h)
  <2>1. PICK n \in 0..z : d = Beat(b, hi + n) /\ today < d /\ d <= h BY <1>9, <1>16
  <2>2. PICK k \in Nat : k = hi + n BY <1>8
  <2> QED BY <1>14, <1>15, <2>1, <2>2
<1>17. ASSUME NEW d, d \in DueDates(b, f, h) PROVE d \in occurrences(i, today, h)
  <2>1. PICK k \in Nat : d = Beat(b, k) /\ f <= d /\ d <= h BY <1>14, <1>17
  <2>2. today < d BY <1>15, <2>1
  <2>3. d \in Int /\ Beat(b, hi) \in Int BY <2>1, BeatIs
  <2>4. hi < k
    <3>1. Beat(b, hi) < Beat(b, k) BY <1>12, <2>1, <2>2, <2>3
    <3> QED BY <3>1, BeatGrows
  <2>5. PICK n \in Nat : k = hi + n
    <3>1. k - hi \in Nat /\ k = hi + (k - hi) BY <2>4
    <3> QED BY <3>1
  <2>6. PICK q \in Int : q = ordinal(d) /\ q <= p
    <3>1. IsDate(d) BY <2>1, BeatIs
    <3> QED BY <1>2, <2>1, <3>1, DatesGrow
  <2>7. o + s * n <= q BY <1>2, <1>3, <2>1, <2>5, <2>6, BeatGoesOn
  <2>8. n <= z
    <3>1. v * n <= p - o
      <4>1. v * n <= s * n BY ONLY <1>3, n \in Nat, s \in Nat, v \in Int
      <4>2. PICK a \in Int, c \in Int : a = v * n /\ c = s * n OBVIOUS
      <4> QED BY <2>6, <2>7, <4>1, <4>2
    <3>2. n <= (p - o) \div v BY ONLY <1>3, <3>1, n \in Nat, v \in Int, p \in Int, o \in Int
    <3> QED BY <1>3, <1>4, <3>2
  <2>9. n \in 0..z BY <2>8
  <2> QED BY <1>9, <2>1, <2>2, <2>5, <2>9
<1> QED BY <1>10, <1>16, <1>17

(* A statement's day is a date, and none came later.                         *)
LEMMA LastEndIs ==
  ASSUME HInv, NEW a, LastEnd(a) > 0
  PROVE  IsDate(LastEnd(a)) /\ home.start <= LastEnd(a) /\ LastEnd(a) <= today
<1>0. home.start \in Int /\ today \in Int BY Ends DEF HInv, Calendars, IsDate
<1>1. PICK Q : Q = {q \in periods : q.account = a} OBVIOUS
<1>2. PICK E : E = {p.end : p \in Q} OBVIOUS
<1>3. IsFiniteSet(Q)
  <2>1. Q \in SUBSET periods BY <1>1
  <2> QED BY <2>1, FS_Subset DEF HInv, ClosingsAreTrue
<1>4. IsFiniteSet(E)
  <2>1. PICK g : g = [p \in Q |-> p.end] OBVIOUS
  <2>2. DOMAIN g = Q /\ E = {g[p] : p \in DOMAIN g} BY <1>2, <2>1
  <2> QED BY <1>3, <2>2, FiniteImage
<1>5. PICK S : S = E \cup {0} OBVIOUS
<1>6. IsFiniteSet(S) BY <1>4, <1>5, FS_AddElement
<1>7. \A e \in E : e \in Int /\ IsDate(e) /\ home.start <= e /\ e <= today
  BY <1>0, <1>1, <1>2 DEF HInv, ClosingsAreTrue
<1>8. Max(S) \in S
  <2>1. S # {} /\ \A e \in S : e \in Int BY <1>5, <1>7
  <2> QED BY <1>6, <2>1, MaxIs
<1>9. LastEnd(a) = Max(S) BY <1>1, <1>2, <1>5 DEF LastEnd
<1>10. LastEnd(a) \in E BY <1>5, <1>8, <1>9
<1> QED BY <1>7, <1>10

(* A bill heard of within a step of its is not silent for two.               *)
LEMMA HeardIsActive ==
  ASSUME home \in Households, NEW b \in home.bills, Regular(b), NEW hi \in Nat,
         NEW heard, IsDate(heard), IsDate(today), heard < Beat(b, hi + 1),
         days_between(heard, today) <= (IF b.every > 0 THEN b.every ELSE 28)
  PROVE  days_between(Beat(b, hi), today) <= 2 * Nominal[Cadence(b)]
<1>1. PICK n \in Nat : n = hi + 1 OBVIOUS
<1>2. IsDate(Beat(b, hi)) /\ IsDate(Beat(b, n)) BY BeatIs
<1>3. PICK o \in Int, p \in Int, q \in Int, t \in Int :
         /\ o = ordinal(Beat(b, hi)) /\ p = ordinal(Beat(b, n))
         /\ q = ordinal(heard) /\ t = ordinal(today)
  BY <1>2, DateIs
<1>4. PICK l \in Nat : l = LongStep(b) BY BillIs
<1>5. p - o <= l
  <2>1. ShortStep(b) \in Nat BY BillIs
  <2>2. p - o \in ShortStep(b)..l BY <1>1, <1>3, <1>4, BeatIs
  <2> QED BY <2>1, <2>2
<1>6. q < p BY <1>1, <1>2, <1>3, DatesGrow
<1>7. t - q <= (IF b.every > 0 THEN b.every ELSE 28) BY <1>3 DEF days_between
<1>8. Nominal[Cadence(b)] = (IF b.every > 0 THEN b.every ELSE 30) BY CadenceIs
<1>9. l = (IF b.every > 0 THEN b.every ELSE 31) BY <1>4 DEF LongStep
<1>10. b.every \in Nat BY BillIs
<1>11. t - o <= 2 * Nominal[Cadence(b)] BY <1>3, <1>4, <1>5, <1>6, <1>7, <1>8, <1>9, <1>10
<1> QED BY <1>3, <1>11 DEF days_between

(* What is projected of a bill, then, is what the bank will take.            *)
LEMMA ForecastMeans ==
  ASSUME OrdinaryBills, BillsInv
  PROVE  ForecastMeetsTheBank
<1> SUFFICES ASSUME NEW b \in home.bills, Known(b), OnlyBill(b),
                    NEW heard, heard = LastEnd(b.account),
                    Days(StreamRows(b)) = DueDates(b, home.start, heard),
                    Cardinality(DueDates(b, home.start, heard)) >= 3, heard > 0,
                    days_between(heard, today) <= (IF b.every > 0 THEN b.every ELSE 28),
                    NEW h \in horizons
             PROVE  {<<e.on, e.amount>> : e \in {f \in forecast(h).events : f.key = Merchant[b.text]}}
                      = {<<d, b.amount>> : d \in DueDates(b, plus_days(today, 1), h)}
  BY DEF ForecastMeetsTheBank
<1>1. /\ HInv /\ home \in Households /\ IsDate(today) /\ home.start <= today /\ Regular(b)
      /\ b.amount \in Int
  <2>1. HInv /\ home \in Households /\ IsDate(today) /\ home.start <= today
    BY DEF BillsInv, HInv, Calendars
  <2> QED BY <2>1, BillIs DEF OrdinaryBills
<1>2. IsDate(heard) /\ home.start <= heard /\ heard <= today BY <1>1, LastEndIs
<1>3. PICK lo \in Nat, hi \in Nat :
        /\ lo + 2 <= hi /\ DueDates(b, home.start, heard) = Run(b, lo, hi)
        /\ Beat(b, hi) <= heard /\ heard < Beat(b, hi + 1)
  BY <1>1, <1>2, DueIsARun
<1>4. days_between(Beat(b, hi), today) <= 2 * Nominal[Cadence(b)] BY <1>1, <1>2, <1>3, HeardIsActive
<1>5. /\ \A i \in found.confirmed : i.key = Merchant[b.text] => Follows(i, b, hi)
      /\ \E i \in found.confirmed : Follows(i, b, hi)
  BY <1>3, <1>4, StreamFound
<1>6. IsDate(h) /\ today <= h BY <1>1, HorizonsAre
<1>7. Beat(b, hi) <= today
  <2>1. Beat(b, hi) \in Int /\ heard \in Int /\ today \in Int BY <1>1, <1>2, BeatIs DEF IsDate
  <2> QED BY <1>2, <1>3, <2>1
<1>8. PICK T : T = DueDates(b, plus_days(today, 1), h) OBVIOUS
<1>9. \A i : Follows(i, b, hi) => occurrences(i, today, h) = T BY <1>1, <1>6, <1>7, <1>8, OccurrencesAre
<1>10. \A i : Follows(i, b, hi) => i.key = Merchant[b.text] /\ Signed(i) = b.amount
  BY <1>1 DEF Follows, Signed, Direction, Magnitude
<1>11. PICK V : V = forecast(h).events OBVIOUS
<1>12. V = UNION {{[on |-> d, key |-> i.key, direction |-> i.direction, amount |-> Signed(i)]
                     : d \in occurrences(i, today, h)} : i \in found.confirmed}
  BY <1>11 DEF forecast, project_forecast, ForecastEvents
<1>13. ASSUME NEW e \in V, e.key = Merchant[b.text] PROVE e.on \in T /\ e.amount = b.amount
  <2>1. PICK i \in found.confirmed :
          e \in {[on |-> d, key |-> i.key, direction |-> i.direction, amount |-> Signed(i)]
                   : d \in occurrences(i, today, h)}
    BY <1>12
  <2>2. PICK d \in occurrences(i, today, h) :
          e = [on |-> d, key |-> i.key, direction |-> i.direction, amount |-> Signed(i)]
    BY <2>1
  <2>3. e.on = d /\ e.key = i.key /\ e.amount = Signed(i) BY <2>2
  <2>4. Follows(i, b, hi) BY <1>5, <1>13, <2>3
  <2> QED BY <1>9, <1>10, <2>3, <2>4
<1>14. ASSUME NEW d \in T
       PROVE  \E e \in V : e.key = Merchant[b.text] /\ e.on = d /\ e.amount = b.amount
  <2>1. PICK i \in found.confirmed : Follows(i, b, hi) BY <1>5
  <2>2. d \in occurrences(i, today, h) BY <1>9, <2>1
  <2>3. PICK e : e = [on |-> d, key |-> i.key, direction |-> i.direction, amount |-> Signed(i)] OBVIOUS
  <2>4. PICK W : W = {[on |-> x, key |-> i.key, direction |-> i.direction, amount |-> Signed(i)]
                        : x \in occurrences(i, today, h)}
    OBVIOUS
  <2>5. e \in W /\ W \subseteq V BY <1>12, <2>2, <2>3, <2>4
  <2>6. e.key = Merchant[b.text] /\ e.on = d /\ e.amount = b.amount BY <1>10, <2>1, <2>3
  <2> QED BY <2>5, <2>6
<1>15. PICK F : F = {f \in V : f.key = Merchant[b.text]} OBVIOUS
<1>16. {<<e.on, e.amount>> : e \in F} = {<<d, b.amount>> : d \in T}
  <2>1. \A e \in F : e.on \in T /\ e.amount = b.amount BY <1>13, <1>15
  <2>2. \A d \in T : \E e \in F : e.on = d /\ e.amount = b.amount BY <1>14, <1>15
  <2> QED BY <2>1, <2>2
<1> QED BY <1>8, <1>11, <1>15, <1>16

-----------------------------------------------------------------------------
(* The bills not taken.                                                      *)

(* When the vault holds everything posted, what it has of a bill is what the *)
(* bank took of it, on days it was due.                                      *)
LEMMA TakenIs ==
  ASSUME OrdinaryBills, BillsInv, NEW b \in home.bills, OnlyBill(b), Whole
  PROVE  Days(StreamRows(b)) = Taken(b) /\ Taken(b) \subseteq DueDates(b, home.start, today)
<1>1. home \in Households /\ IsDate(home.start) /\ IsDate(today) /\ rows \subseteq bank
  BY Ends DEF BillsInv, HInv, Booked, Calendars
<1>2. ASSUME NEW p \in bank, p.text = b.text
      PROVE  p \in StreamRows(b) /\ p.on \in DueDates(b, home.start, today)
  <2>1. PICK c \in home.bills : p = BillPosting(c, p.on) /\ p.on \in DueDates(c, home.start, today)
    BY <1>2 DEF BillsInv, BillsAreTaken
  <2>2. p.text = c.text /\ p.amount = c.amount BY <2>1 DEF BillPosting, Posting
  <2>3. c = b BY <1>2, <2>2 DEF OnlyBill
  <2>4. p.on <= today BY <1>1, <2>1, DueDatesAre
  <2>5. p \in rows BY <2>4 DEF Whole
  <2>6. Key(p) = Merchant[b.text] BY <1>2 DEF Key
  <2> QED BY <2>1, <2>3, <2>5, <2>6, StreamIsTheBill
<1>3. ASSUME NEW r \in StreamRows(b) PROVE r \in bank /\ r.text = b.text
  <2>1. r \in bank /\ Key(r) = Merchant[b.text] BY <1>1 DEF StreamRows
  <2> QED BY <2>1 DEF OnlyBill
<1>4. Taken(b) = {p.on : p \in {q \in bank : q.text = b.text}} BY DEF Taken
<1>5. {q \in bank : q.text = b.text} = StreamRows(b) BY <1>2, <1>3
<1>6. Days(StreamRows(b)) = Taken(b) BY <1>4, <1>5 DEF Days
<1>7. ASSUME NEW d \in Taken(b) PROVE d \in DueDates(b, home.start, today)
  <2>1. PICK p \in {q \in bank : q.text = b.text} : d = p.on BY <1>4
  <2> QED BY <1>2, <2>1
<1> QED BY <1>6, <1>7

(* The days a bill was taken on, when it was taken without fail up to the    *)
(* last of three at least, are a run.                                        *)
LEMMA TakenIsARun ==
  ASSUME OrdinaryBills, BillsInv, NEW b \in home.bills, OnlyBill(b), Whole,
         \A d \in Skipped(b) : Max(Taken(b)) < d, Cardinality(Taken(b)) >= 3
  PROVE  \E lo \in Nat, hi \in Nat :
            lo + 2 <= hi /\ Taken(b) = Run(b, lo, hi) /\ Max(Taken(b)) = Beat(b, hi)
<1>1. home \in Households /\ IsDate(home.start) /\ IsDate(today) /\ home.start <= today
      /\ home.start \in Int /\ today \in Int
  BY Ends DEF BillsInv, HInv, Calendars, IsDate
<1>2. PICK T : T = Taken(b) OBVIOUS
<1>3. PICK A : A = DueDates(b, home.start, today) OBVIOUS
<1>4. T \subseteq A BY <1>2, <1>3, TakenIs
<1>5. IsFiniteSet(A) /\ \A d \in A : d \in Int /\ home.start <= d /\ d <= today
  BY <1>1, <1>3, DueDatesAre
<1>6. \A d : d \in A <=> \E k \in Nat : d = Beat(b, k) /\ home.start <= d /\ d <= today
  BY <1>1, <1>3, DueOnTheBeat
<1>7. IsFiniteSet(T) /\ T # {}
  <2>1. IsFiniteSet(T) BY <1>4, <1>5, FS_Subset
  <2>2. Cardinality({}) = 0 BY FS_EmptySet
  <2> QED BY <1>2, <2>1, <2>2
<1>8. PICK m : m = Max(T) /\ m \in T /\ \A d \in T : d <= m BY <1>4, <1>5, <1>7, MaxIs
<1>9. m \in A /\ m \in Int /\ home.start <= m /\ m <= today /\ IsDate(m)
  <2>1. m \in A BY <1>4, <1>8
  <2>2. PICK k \in Nat : m = Beat(b, k) BY <1>6, <2>1
  <2> QED BY <1>1, <1>5, <2>1, <2>2, BeatIs
<1>10. \A d : d \in DueDates(b, home.start, m) <=> \E k \in Nat : d = Beat(b, k) /\ home.start <= d /\ d <= m
  BY <1>1, <1>9, DueOnTheBeat
<1>11. \A d \in A : d \notin T => m < d BY <1>2, <1>3, <1>8 DEF Skipped
<1>12. DueDates(b, home.start, m) = T
  <2>1. ASSUME NEW d \in T PROVE d \in DueDates(b, home.start, m)
    <3>1. PICK k \in Nat : d = Beat(b, k) /\ home.start <= d BY <1>4, <1>6
    <3> QED BY <1>8, <1>10, <3>1
  <2>2. ASSUME NEW d, d \in DueDates(b, home.start, m) PROVE d \in T
    <3>1. PICK k \in Nat : d = Beat(b, k) /\ home.start <= d /\ d <= m BY <1>10, <2>2
    <3>2. d \in Int BY <1>1, <3>1, BeatIs
    <3>3. d <= today BY <1>1, <1>9, <3>1, <3>2
    <3>4. d \in A BY <1>6, <3>1, <3>3
    <3>5. ~(m < d) BY <1>9, <3>1, <3>2
    <3> QED BY <1>11, <3>4, <3>5
  <2> QED BY <2>1, <2>2
<1>13. Cardinality(DueDates(b, home.start, m)) >= 3 BY <1>2, <1>12
<1>14. PICK lo \in Nat, hi \in Nat : lo + 2 <= hi /\ DueDates(b, home.start, m) = Run(b, lo, hi)
  BY <1>1, <1>9, <1>13, DueIsARun
<1>15. Max(Run(b, lo, hi)) = Beat(b, hi) BY <1>1, <1>14, RunIs
<1> QED BY <1>2, <1>12, <1>14, <1>15

(* A missed payment is told of for an item overdue, and no other alert is    *)
(* one.                                                                      *)
LEMMA MissedAlerts ==
  \A k : <<"missed_debit", k>> \in {<<a.kind, a.key>> : a \in shown_alerts}
           <=> /\ <<"missed_debit", k>> \notin dismissed
               /\ \E i \in found.confirmed :
                    /\ i.direction = "out" /\ plus_days(i.next_expected, 3) < today
                    /\ k = <<i.key, i.next_expected>>
<1>1. PICK C, N, K : /\ C = found.confirmed
                     /\ N = detect_new_recurring(found.suggested)
                     /\ K = detect_category_spikes(
                              spike_inputs(rows, excluded, prev_month(<<year(today), month(today)>>)),
                              prev_month(<<year(today), month(today)>>))
  OBVIOUS
<1>2. PICK M : M = detect_missed_debits(C, today) OBVIOUS
<1>3. shown_alerts = {a \in (N \cup K) \cup M : <<a.kind, a.key>> \notin dismissed}
  BY <1>1, <1>2 DEF shown_alerts, alerts, found
<1>4. \A a \in N : a.kind = "new_recurring"
  <2> TAKE a \in N
  <2>1. PICK i : a = [kind |-> "new_recurring", key |-> <<i.key>>, amount |-> i.amount]
    BY <1>1 DEF detect_new_recurring
  <2> QED BY <2>1
<1>5. \A a \in K : a.kind = "category_spike"
  <2> TAKE a \in K
  <2>1. PICK c, ym, n : a = [kind |-> "category_spike", key |-> <<c, ym>>, amount |-> n]
    BY <1>1 DEF detect_category_spikes
  <2> QED BY <2>1
<1>6. ASSUME NEW a \in M
      PROVE  \E i \in C : /\ i.direction = "out" /\ plus_days(i.next_expected, 3) < today
                          /\ a.kind = "missed_debit" /\ a.key = <<i.key, i.next_expected>>
  <2>1. PICK i \in {j \in Outgoing(C) : plus_days(j.next_expected, MissGrace) < today} :
          a = [kind |-> "missed_debit", key |-> <<i.key, i.next_expected>>, amount |-> i.amount]
    BY <1>2 DEF detect_missed_debits
  <2>2. i \in C /\ i.direction = "out" /\ plus_days(i.next_expected, 3) < today
    BY DEF Outgoing, MissGrace
  <2> QED BY <2>1, <2>2
<1>7. ASSUME NEW i \in C, i.direction = "out", plus_days(i.next_expected, 3) < today
      PROVE  \E a \in M : a.kind = "missed_debit" /\ a.key = <<i.key, i.next_expected>>
  <2>1. i \in {j \in Outgoing(C) : plus_days(j.next_expected, MissGrace) < today}
    BY <1>7 DEF Outgoing, MissGrace
  <2>2. PICK a : a = [kind |-> "missed_debit", key |-> <<i.key, i.next_expected>>, amount |-> i.amount]
    OBVIOUS
  <2>3. a \in M BY <1>2, <2>1, <2>2 DEF detect_missed_debits
  <2> QED BY <2>2, <2>3
<1>8. ASSUME NEW k, <<"missed_debit", k>> \in {<<a.kind, a.key>> : a \in shown_alerts}
      PROVE  /\ <<"missed_debit", k>> \notin dismissed
             /\ \E i \in C : /\ i.direction = "out" /\ plus_days(i.next_expected, 3) < today
                             /\ k = <<i.key, i.next_expected>>
  <2>1. PICK a \in shown_alerts : <<"missed_debit", k>> = <<a.kind, a.key>> BY <1>8
  <2>2. a.kind = "missed_debit" /\ a.key = k BY <2>1
  <2>3. a \in M BY <1>3, <1>4, <1>5, <2>2
  <2>4. <<"missed_debit", k>> \notin dismissed BY <1>3, <2>1
  <2> QED BY <1>6, <2>2, <2>3, <2>4
<1>9. ASSUME NEW k, <<"missed_debit", k>> \notin dismissed,
             NEW i \in C, i.direction = "out", plus_days(i.next_expected, 3) < today,
             k = <<i.key, i.next_expected>>
      PROVE  <<"missed_debit", k>> \in {<<a.kind, a.key>> : a \in shown_alerts}
  <2>1. PICK a \in M : a.kind = "missed_debit" /\ a.key = k BY <1>7, <1>9
  <2>2. a \in shown_alerts BY <1>3, <1>9, <2>1
  <2> QED BY <2>1, <2>2
<1> QED BY <1>1, <1>8, <1>9

(* With the invariant, a failed bill is told of once its grace is past, and  *)
(* nothing else is told of.                                                  *)
LEMMA MissedMeans ==
  ASSUME OrdinaryBills, BillsInv
  PROVE  MissedIsTold
<1> SUFFICES ASSUME NEW b \in home.bills, b.amount < 0, Known(b), OnlyBill(b), Whole,
                    \A d \in Skipped(b) : /\ Cardinality({e \in Taken(b) : e < d}) >= 3
                                          /\ Max(Taken(b)) < d
             PROVE
        LET key(d) == <<"missed_debit", <<Merchant[b.text], d>>>>
            shown  == {<<a.kind, a.key>> : a \in shown_alerts}
            told   == {k[2][2] : k \in {j \in shown : j[1] = "missed_debit" /\ j[2][1] = Merchant[b.text]}}
            skips  == Skipped(b)
        IN /\ told \subseteq skips
           /\ \A d \in skips : /\ \A e \in skips : d <= e
                               /\ plus_days(d, 3) < today
                               /\ days_between(Max(Taken(b)), today) <= 2 * (IF b.every > 0 THEN b.every ELSE 30)
                => d \in told \/ key(d) \in dismissed
  BY DEF MissedIsTold
<1>1. /\ home \in Households /\ IsDate(today) /\ IsDate(home.start) /\ home.start <= today
      /\ home.start \in Int /\ today \in Int /\ Regular(b)
  <2>1. home \in Households /\ IsDate(today) /\ home.start <= today BY DEF BillsInv, HInv, Calendars
  <2> QED BY <2>1, Ends DEF OrdinaryBills, IsDate
<1>2. PICK T, A, S, m : /\ T = Taken(b) /\ A = DueDates(b, home.start, today) /\ S = Skipped(b)
                        /\ m = Max(Taken(b))
  OBVIOUS
<1>3. T \subseteq A /\ S = A \ T /\ Days(StreamRows(b)) = T BY <1>2, TakenIs DEF Skipped
<1>4. \A d : d \in A <=> \E k \in Nat : d = Beat(b, k) /\ home.start <= d /\ d <= today
  BY <1>1, <1>2, DueOnTheBeat
<1>5. IsFiniteSet(T)
  <2>1. IsFiniteSet(A) BY <1>1, <1>2, DueDatesAre
  <2> QED BY <1>3, <2>1, FS_Subset
<1>6. ASSUME Cardinality(T) >= 3
      PROVE  \E hi \in Nat :
               /\ m = Beat(b, hi)
               /\ \A i \in found.confirmed : i.key = Merchant[b.text] => Follows(i, b, hi)
               /\ days_between(m, today) <= 2 * Nominal[Cadence(b)]
                    => \E i \in found.confirmed : Follows(i, b, hi)
               /\ \A d : d = Beat(b, hi + 1) /\ d <= today => d \in S
  <2>1. PICK lo \in Nat, hi \in Nat : lo + 2 <= hi /\ T = Run(b, lo, hi) /\ m = Beat(b, hi)
    BY <1>2, <1>6, TakenIsARun
  <2>2. Days(StreamRows(b)) = Run(b, lo, hi) BY <1>3, <2>1
  <2>3. /\ \A i \in found.confirmed : i.key = Merchant[b.text] => Follows(i, b, hi)
        /\ days_between(Beat(b, hi), today) <= 2 * Nominal[Cadence(b)]
             => \E i \in found.confirmed : Follows(i, b, hi)
    BY <2>1, <2>2, StreamFound
  <2>4. ASSUME NEW d, d = Beat(b, hi + 1), d <= today PROVE d \in S
    <3>1. PICK n \in Nat : n = hi + 1 /\ hi < n OBVIOUS
    <3>2. m < d /\ m \in Int /\ d \in Int BY <1>1, <2>1, <2>4, <3>1, BeatIs, BeatGrows
    <3>3. m \in A
      <4>1. hi \in lo..hi BY <2>1
      <4>2. Beat(b, hi) \in T BY <2>1, <4>1 DEF Run
      <4> QED BY <1>3, <2>1, <4>2
    <3>4. home.start <= d
      <4>1. home.start <= m BY <1>4, <3>3
      <4> QED BY <1>1, <3>2, <4>1
    <3>5. d \in A BY <1>4, <2>4, <3>1, <3>4
    <3>6. d \notin T
      <4> SUFFICES ASSUME d \in T PROVE FALSE OBVIOUS
      <4>1. PICK k \in lo..hi : d = Beat(b, k) BY <2>1 DEF Run
      <4>2. k \in Nat /\ k <= hi OBVIOUS
      <4>3. d <= m BY <2>1, <4>1, <4>2, <1>1, BeatGrows
      <4> QED BY <3>2, <4>3
    <3> QED BY <1>3, <3>5, <3>6
  <2> QED BY <2>1, <2>3, <2>4
<1>7. ASSUME NEW i \in found.confirmed, i.key = Merchant[b.text] PROVE Cardinality(T) >= 3
  <2>1. i \in detect_recurring(rows, today, excluded) BY DEF found, snapshot
  <2>2. Qualifies(StreamRows(b), today) BY <1>7, <2>1, StreamIsOneItem
  <2>3. classify(T) # "none" BY <1>3, <2>2 DEF Qualifies
  <2>4. ~(Cardinality(T) < 3) BY <2>3 DEF classify
  <2>5. Cardinality(T) \in Nat BY <1>5, FS_CardinalityType
  <2> QED BY <2>4, <2>5
<1> DEFINE shown == {<<a.kind, a.key>> : a \in shown_alerts}
           told  == {k[2][2] : k \in {j \in shown : j[1] = "missed_debit" /\ j[2][1] = Merchant[b.text]}}
<1>8. told \subseteq S
  <2> SUFFICES ASSUME NEW j \in shown, j[1] = "missed_debit", j[2][1] = Merchant[b.text]
               PROVE  j[2][2] \in S
    OBVIOUS
  <2>1. PICK k : k = j[2] OBVIOUS
  <2>2. j = <<"missed_debit", k>> BY <2>1
  <2>3. PICK i \in found.confirmed : /\ i.direction = "out" /\ plus_days(i.next_expected, 3) < today
                                     /\ k = <<i.key, i.next_expected>>
    <3> HIDE DEF told
    <3> QED BY <2>2, MissedAlerts
  <2>4. i.key = Merchant[b.text] /\ j[2][2] = i.next_expected BY <2>1, <2>3
  <2>5. PICK hi \in Nat : /\ \A x \in found.confirmed : x.key = Merchant[b.text] => Follows(x, b, hi)
                          /\ \A d : d = Beat(b, hi + 1) /\ d <= today => d \in S
    BY <1>6, <1>7, <2>4
  <2>6. PICK n \in Nat : n = hi + 1 OBVIOUS
  <2>7. PICK d : d = i.next_expected /\ d = Beat(b, n) BY <2>4, <2>5, <2>6 DEF Follows
  <2>8. IsDate(d) /\ d \in Int BY <1>1, <2>7, BeatIs
  <2>9. plus_days(d, 3) \in Int /\ d <= plus_days(d, 3) /\ plus_days(d, 3) < today BY <2>3, <2>7, <2>8, PlusDays
  <2>10. d <= today BY <1>1, <2>8, <2>9
  <2> QED BY <2>4, <2>5, <2>6, <2>7, <2>10
<1>9. ASSUME NEW d \in S, \A e \in S : d <= e, plus_days(d, 3) < today,
             days_between(m, today) <= 2 * (IF b.every > 0 THEN b.every ELSE 30)
      PROVE  d \in told \/ <<"missed_debit", <<Merchant[b.text], d>>>> \in dismissed
  <2>1. Cardinality(T) >= 3
    <3>1. PICK B : B = {e \in T : e < d} OBVIOUS
    <3>2. Cardinality(B) >= 3 BY <1>2, <3>1
    <3>3. B \in SUBSET T BY <3>1
    <3>4. IsFiniteSet(B) /\ Cardinality(B) <= Cardinality(T) BY <1>5, <3>3, FS_Subset
    <3>5. Cardinality(B) \in Nat /\ Cardinality(T) \in Nat BY <1>5, <3>4, FS_CardinalityType
    <3> QED BY <3>2, <3>4, <3>5
  <2>2. Nominal[Cadence(b)] = (IF b.every > 0 THEN b.every ELSE 30) BY <1>1, CadenceIs
  <2>3. PICK hi \in Nat :
           /\ m = Beat(b, hi)
           /\ \E i \in found.confirmed : Follows(i, b, hi)
           /\ \A x : x = Beat(b, hi + 1) /\ x <= today => x \in S
    BY <1>6, <1>9, <2>1, <2>2
  <2>4. PICK i \in found.confirmed : Follows(i, b, hi) BY <2>3
  <2>5. PICK n \in Nat : n = hi + 1 OBVIOUS
  <2>6. PICK k \in Nat : d = Beat(b, k) /\ d <= today BY <1>3, <1>4
  <2>7. m < d BY <1>2
  <2>8. d = Beat(b, n)
    <3>1. hi < k BY <1>1, <2>3, <2>6, <2>7, BeatGrows
    <3>2. Beat(b, n) <= d BY <1>1, <2>5, <2>6, <3>1, BeatGrows
    <3>3. Beat(b, n) \in Int /\ d \in Int BY <1>1, <2>6, BeatIs
    <3>4. Beat(b, n) <= today BY <1>1, <2>6, <3>2, <3>3
    <3>5. Beat(b, n) \in S BY <2>3, <2>5, <3>4
    <3>6. d <= Beat(b, n) BY <1>9, <3>5
    <3> QED BY <3>2, <3>3, <3>6
  <2>9. i.next_expected = d /\ i.key = Merchant[b.text] /\ i.direction = "out"
    <3>1. Direction(b) = "out" BY DEF Direction
    <3> QED BY <2>4, <2>5, <2>8, <3>1 DEF Follows
  <2>10. PICK k2 : k2 = <<Merchant[b.text], d>> OBVIOUS
  <2>11. <<"missed_debit", k2>> \in shown \/ <<"missed_debit", k2>> \in dismissed
    <3> HIDE DEF told
    <3> QED BY <1>9, <2>9, <2>10, MissedAlerts
  <2>12. <<"missed_debit", k2>> \in shown => d \in told
    <3> SUFFICES ASSUME <<"missed_debit", k2>> \in shown PROVE d \in told OBVIOUS
    <3>1. PICK j : j = <<"missed_debit", k2>> OBVIOUS
    <3>2. j \in shown /\ j[1] = "missed_debit" /\ j[2] = k2 BY <3>1
    <3>3. k2[1] = Merchant[b.text] /\ k2[2] = d BY <2>10
    <3> QED BY <3>2, <3>3
  <2> QED BY <2>10, <2>11, <2>12
<1> QED BY <1>2, <1>8, <1>9

(* The invariant holds throughout, whatever the owner confirms.              *)
LEMMA BillsAlways == ASSUME OrdinaryBills PROVE Spec => [](HInv /\ BillsAreTaken)
<1>1. Init => HInv /\ BillsAreTaken BY Begins, BillsBegin
<1>2. HInv /\ BillsAreTaken /\ [Next]_vars => HInv' /\ BillsAreTaken' BY StepKeeps, BillsKept
<1> QED BY <1>1, <1>2, PTL DEF Spec

(* Of a confirmed bill heard of within its step, the forecast projects the   *)
(* days the bank will take it on and no other, at every horizon: of any      *)
(* household of ordinary bills, in any years, whatever else is bought, moved, *)
(* lost or answered, while the owner confirms no bill as a transfer.         *)
THEOREM ForecastIsTheBanks ==
  ASSUME OrdinaryBills
  PROVE  Spec /\ []BillsAreNotTransfers => []ForecastMeetsTheBank
<1>1. HInv /\ BillsAreTaken /\ BillsAreNotTransfers => ForecastMeetsTheBank
  BY ForecastMeans DEF BillsInv
<1> QED BY <1>1, BillsAlways, PTL

(* Of such a household, too: the first failure to take a confirmed bill is   *)
(* told of from the fourth day on, and nothing is told of but a failure.     *)
THEOREM MissesAreTold ==
  ASSUME OrdinaryBills
  PROVE  Spec /\ []BillsAreNotTransfers => []MissedIsTold
<1>1. HInv /\ BillsAreTaken /\ BillsAreNotTransfers => MissedIsTold
  BY MissedMeans DEF BillsInv
<1> QED BY <1>1, BillsAlways, PTL

-----------------------------------------------------------------------------
(* The month summary and the spike alert.  First, totals of disjoint rows.   *)

(* What is never negative adds up to what is not.                            *)
LEMMA SumNat ==
  ASSUME NEW S, IsFiniteSet(S), NEW f, \A x \in S : f[x] \in Nat
  PROVE  Sum(f, S) \in Nat
<1> DEFINE F == {s \in SUBSET S : Sum(f, s) \notin Nat}
<1> SUFFICES ASSUME F # {} PROVE FALSE OBVIOUS
<1>1. F \in SUBSET SUBSET S OBVIOUS
<1>2. PICK U \in F : \A u \in F : u \subseteq U => u = U
  <2> HIDE DEF F
  <2> QED BY <1>1, FiniteSetMinimal
<1>3. IsFiniteSet(U) /\ U \in SUBSET S BY <1>2, FS_Subset
<1>4. U # {}
  <2> SUFFICES ASSUME U = {} PROVE FALSE OBVIOUS
  <2>1. Sum(f, {}) = 0 BY <1>3, SumRec
  <2> QED BY <1>2, <2>1
<1>5. PICK c \in U : c = SomeOf(U) BY <1>4, SomeOfIn
<1>6. U \ {c} \notin F
  <2>1. U \ {c} # U /\ U \ {c} \subseteq U BY <1>3
  <2> HIDE DEF F
  <2> QED BY <1>2, <2>1
<1>7. Sum(f, U \ {c}) \in Nat BY <1>6, <1>3
<1>8. Sum(f, U) = f[c] + Sum(f, U \ {c}) BY <1>3, <1>4, <1>5, SumRec
<1>9. f[c] \in Nat BY <1>3
<1> QED BY <1>2, <1>7, <1>8, <1>9

(* A total is never negative, that of no rows is nothing, that of one row is *)
(* its magnitude, and that of disjoint rows is the sum.                      *)
LEMMA TotalsAdd ==
  ASSUME NEW S, Rows(S)
  PROVE  /\ \A A \in SUBSET S : Rows(A) /\ Total(A) \in Nat
         /\ Total({}) = 0
         /\ \A r \in S : Total({r}) = Magnitude(r) /\ Magnitude(r) \in Nat
         /\ \A A, B \in SUBSET S : A \cap B = {} => Total(A \cup B) = Total(A) + Total(B)
<1>1. IsFiniteSet(S) /\ \A A \in SUBSET S : IsFiniteSet(A) BY FS_Subset DEF Rows
<1>2. PICK f : f = Magnitudes(S) OBVIOUS
<1>3. \A r \in S : f[r] \in Nat /\ f[r] = Magnitude(r)
  <2>1. \A r \in S : Magnitude(r) \in Nat BY DEF Rows, Magnitude
  <2> QED BY <1>2, <2>1 DEF Magnitudes
<1>4. \A A \in SUBSET S : Total(A) = Sum(f, A) BY <1>1, <1>2, TotalIs
<1>5. ASSUME NEW A \in SUBSET S PROVE Rows(A) /\ Total(A) \in Nat
  <2>1. Rows(A) BY <1>1 DEF Rows
  <2>2. \A r \in A : f[r] \in Nat BY <1>3
  <2>3. IsFiniteSet(A) BY <1>1
  <2>4. Sum(f, A) \in Nat BY <2>2, <2>3, SumNat
  <2> QED BY <1>4, <2>1, <2>4
<1>6. Total({}) = 0
  <2>1. Sum(f, {}) = 0 BY <1>1, SumRec
  <2> QED BY <1>4, <2>1
<1>7. ASSUME NEW r \in S PROVE Total({r}) = Magnitude(r) /\ Magnitude(r) \in Nat
  <2>1. f[r] \in Int BY <1>3
  <2>2. Sum(f, {r}) = f[r] BY <2>1, SumOne
  <2>3. {r} \in SUBSET S OBVIOUS
  <2> QED BY <1>3, <1>4, <2>2, <2>3
<1>8. ASSUME NEW A \in SUBSET S, NEW B \in SUBSET S, A \cap B = {}
      PROVE  Total(A \cup B) = Total(A) + Total(B)
  <2>1. IsFiniteSet(A) /\ IsFiniteSet(B) /\ A \cup B \in SUBSET S BY <1>1
  <2>2. \A x \in A \cup B : f[x] \in Int BY <1>3
  <2>3. Sum(f, A \cup B) = Sum(f, A) + Sum(f, B) BY <1>8, <2>1, <2>2, SumUnion
  <2> QED BY <1>4, <2>1, <2>3
<1> QED BY <1>5, <1>6, <1>7, <1>8

-----------------------------------------------------------------------------
(* What a month takes: its bills, and the rest.                              *)

(* A later month's days are later; in one month a later day is a later date. *)
LEMMA DaysInOrder ==
  ASSUME NEW d, IsDate(d), NEW e, IsDate(e)
  PROVE  /\ d \in Int /\ e \in Int /\ MonthIndex(d) \in Int /\ MonthIndex(e) \in Int
         /\ MonthIndex(d) < MonthIndex(e) => d < e
         /\ MonthIndex(d) = MonthIndex(e) => (d <= e <=> day(d) <= day(e))
<1>1. d \in Int /\ e \in Int /\ MonthIndex(d) \in Int /\ MonthIndex(e) \in Int
  <2>1. \A f : IsDate(f) => f \in Int BY DEF IsDate
  <2> QED BY <2>1, MonthOf
<1>2. ASSUME e <= d PROVE MonthIndex(e) <= MonthIndex(d)
  BY ONLY <1>1, <1>2, MonthsInOrder, IsDate(d), IsDate(e)
<1>3. ASSUME MonthIndex(d) = MonthIndex(e) PROVE d <= e <=> day(d) <= day(e)
  <2>1. year(d) = year(e) /\ month(d) = month(e)
    <3>1. year(d) = MonthIndex(d) \div 12 /\ month(d) = (MonthIndex(d) % 12) + 1 BY MonthOf
    <3>2. year(e) = MonthIndex(e) \div 12 /\ month(e) = (MonthIndex(e) % 12) + 1 BY MonthOf
    <3> QED BY ONLY <1>3, <3>1, <3>2
  <2>2. PICK y \in Int, m \in 1..12, i \in 1..31, j \in 1..31 :
            y = year(d) /\ m = month(d) /\ i = day(d) /\ j = day(e)
    BY DateIs
  <2>3. d = date(y, m, i) /\ e = date(y, m, j) BY <2>1, <2>2, DateIs
  <2> QED BY <2>2, <2>3 DEF date
<1> QED BY <1>1, <1>2, <1>3

(* The head of a month still running, or 0 for all of it.                    *)
IsHead(k, h) == h = 0 \/ h \in 1..(MonthLength(k) - 1)
UpTo(k, h) == MonthDay(k, IF h = 0 THEN 31 ELSE h)

(* What the summary counts of a month, the bills due up to a head, and what  *)
(* of it is of no bill.                                                      *)
SpentIn(k, h) ==
    {r \in Spent(rows) : MonthDay(k, 1) <= r.on /\ r.on <= UpTo(k, h) /\ r.id \notin excluded}
BillsBy(h) == {b \in Spent(home.bills) : h = 0 \/ b.due <= h}
Paid(k, Q) == {BillPosting(b, MonthDay(k, b.due)) : b \in Q}
OthersIn(k, h) == {r \in SpentIn(k, h) : \A b \in home.bills : r.text # b.text}

(* The vault begins with a month, no two bills have one text, and what goes  *)
(* out every month is enough to speak of.                                    *)
SteadyBills ==
    /\ day(home.start) = 1
    /\ \A b, c \in home.bills : b.text = c.text => b = c
    /\ Total(Spent(home.bills)) >= Minor(1000)

(* What the summary is held to: the vault has it all, and every bill, due    *)
(* once a month, was taken.                                                  *)
AllTaken == Whole /\ \A b \in home.bills : b.every = 0 /\ Skipped(b) = {}
SteadyInv == BillsInv /\ SteadyBills /\ AllTaken

(* The bounds of a month, and of its head.                                   *)
LEMMA HeadEnds ==
  ASSUME NEW k \in Int, NEW h, IsHead(k, h)
  PROVE  /\ IsDate(MonthDay(k, 1)) /\ MonthIndex(MonthDay(k, 1)) = k /\ MonthDay(k, 1) \in Int
         /\ IsDate(UpTo(k, h)) /\ MonthIndex(UpTo(k, h)) = k /\ UpTo(k, h) \in Int
         /\ day(MonthDay(k, 1)) = 1 /\ day(UpTo(k, h)) = (IF h = 0 THEN MonthLength(k) ELSE h)
         /\ MonthLength(k) \in 28..31
<1>1. PICK l \in 28..31 : l = MonthLength(k) BY MonthsFollow
<1>2. h \in 0..30 BY <1>1 DEF IsHead
<1>3. PICK a \in 1..31 : a = IF h = 0 THEN 31 ELSE h BY <1>2
<1>4. UpTo(k, h) = MonthDay(k, a) BY <1>3 DEF UpTo
<1>5. /\ IsDate(MonthDay(k, a)) /\ MonthDay(k, a) \in Int /\ MonthIndex(MonthDay(k, a)) = k
      /\ day(MonthDay(k, a)) = (IF a <= l THEN a ELSE l)
  BY <1>1, MonthDayIs
<1>6. PICK o \in 1..31 : o = 1 OBVIOUS
<1>7. /\ IsDate(MonthDay(k, o)) /\ MonthDay(k, o) \in Int /\ MonthIndex(MonthDay(k, o)) = k
      /\ day(MonthDay(k, o)) = (IF o <= l THEN o ELSE l)
  BY <1>1, MonthDayIs
<1>8. (IF a <= l THEN a ELSE l) = (IF h = 0 THEN l ELSE h) BY <1>1, <1>3 DEF IsHead
<1>9. (IF o <= l THEN o ELSE l) = 1 BY <1>1, <1>6
<1>10. day(UpTo(k, h)) = (IF h = 0 THEN l ELSE h) BY <1>4, <1>5, <1>8
<1>11. day(MonthDay(k, 1)) = 1 BY <1>6, <1>7, <1>9
<1> QED BY <1>1, <1>4, <1>5, <1>6, <1>7, <1>10, <1>11

(* A day of a bill's is in a month's head when the bill is due by it.        *)
LEMMA DueInMonth ==
  ASSUME NEW b, b.due \in 1..31, NEW k \in Int, NEW h, IsHead(k, h), NEW j \in Int
  PROVE  LET d == MonthDay(j, b.due)
         IN /\ IsDate(d) /\ d \in Int
            /\ MonthDay(k, 1) <= d /\ d <= UpTo(k, h) <=> j = k /\ (h = 0 \/ b.due <= h)
<1>1. PICK d : d = MonthDay(j, b.due) OBVIOUS
<1>2. PICK a \in 1..31 : a = b.due OBVIOUS
<1>3. /\ IsDate(d) /\ d \in Int /\ MonthIndex(d) = j
      /\ day(d) = (IF a <= MonthLength(j) THEN a ELSE MonthLength(j))
  BY <1>1, <1>2, MonthDayIs
<1>4. PICK f, u, l : f = MonthDay(k, 1) /\ u = UpTo(k, h) /\ l = MonthLength(k) OBVIOUS
<1>5. /\ IsDate(f) /\ IsDate(u) /\ MonthIndex(f) = k /\ MonthIndex(u) = k /\ l \in 28..31
      /\ f \in Int /\ u \in Int /\ day(f) = 1 /\ day(u) = (IF h = 0 THEN l ELSE h)
  BY <1>4, HeadEnds
<1>6. f <= d /\ d <= u => j = k
  <2>1. j < k => d < f BY <1>3, <1>5, DaysInOrder
  <2>2. k < j => u < d BY <1>3, <1>5, DaysInOrder
  <2> QED BY <1>3, <1>5, <2>1, <2>2
<1>7. ASSUME j = k PROVE f <= d /\ d <= u <=> h = 0 \/ a <= h
  <2>1. f <= d <=> 1 <= day(d) BY <1>3, <1>5, <1>7, DaysInOrder
  <2>2. d <= u <=> day(d) <= day(u) BY <1>3, <1>5, <1>7, DaysInOrder
  <2>3. PICK i \in 1..31 : i = day(d) BY <1>3, DateIs
  <2>4. i = (IF a <= l THEN a ELSE l) BY <1>3, <1>4, <1>7, <2>3
  <2>5. h = 0 \/ h \in 1..(l - 1) BY <1>4 DEF IsHead
  <2>6. d <= u <=> i <= (IF h = 0 THEN l ELSE h) BY <1>5, <2>2, <2>3
  <2>7. f <= d BY <2>1, <2>3
  <2>8. i <= (IF h = 0 THEN l ELSE h) <=> h = 0 \/ a <= h BY ONLY <1>2, <1>5, <2>4, <2>5, a \in 1..31
  <2> QED BY <2>6, <2>7, <2>8
<1> QED BY <1>1, <1>2, <1>3, <1>4, <1>6, <1>7

(* A bill's row is the bill's, posted on a day it was due.                   *)
LEMMA BillRowIs ==
  ASSUME SteadyInv, NEW b \in home.bills, NEW r \in rows, r.text = b.text
  PROVE  /\ r = BillPosting(b, r.on) /\ r.amount = b.amount /\ r.category = b.category
         /\ \E n \in Nat : r.on = Beat(b, n)
<1>1. r \in bank /\ home \in Households BY DEF SteadyInv, BillsInv, HInv, Booked, Calendars
<1>2. PICK c \in home.bills : r = BillPosting(c, r.on) /\ r.on \in DueDates(c, home.start, today)
  BY <1>1 DEF SteadyInv, BillsInv, BillsAreTaken
<1>3. PICK d : d = r.on OBVIOUS
<1>4. /\ r.text = c.text /\ r.amount = c.amount /\ r.category = c.category
  BY <1>2 DEF BillPosting, Posting
<1>5. c = b
  <2>1. \A x, y \in home.bills : x.text = y.text => x = y BY DEF SteadyInv, SteadyBills
  <2>2. c.text = b.text BY <1>4
  <2> QED BY ONLY <2>1, <2>2, c \in home.bills, b \in home.bills
<1>6. IsDate(today) /\ IsDate(home.start) /\ home.start <= home.start /\ home.start \in Int
  BY <1>1, Ends DEF SteadyInv, BillsInv, HInv, Calendars
<1>7. \E n \in Nat : d = Beat(b, n) BY <1>1, <1>2, <1>3, <1>5, <1>6, DueOnTheBeat
<1> QED BY <1>2, <1>3, <1>4, <1>5, <1>7

(* Every bill due so far is in the vault, and is counted.                    *)
LEMMA BillIsPosted ==
  ASSUME SteadyInv, NEW b \in home.bills, NEW n \in Nat, Beat(b, n) <= today
  PROVE  BillPosting(b, Beat(b, n)) \in rows /\ BillPosting(b, Beat(b, n)).id \notin excluded
<1>1. home \in Households /\ IsDate(today) BY DEF SteadyInv, BillsInv, HInv, Calendars
<1>2. IsDate(home.start) /\ home.start \in Int /\ today \in Int BY <1>1, Ends DEF IsDate
<1>3. PICK d : d = Beat(b, n) OBVIOUS
<1>4. home.start <= d
  <2>1. PICK z \in Nat : z = 0 OBVIOUS
  <2>2. z <= n /\ Beat(b, z) <= d /\ Beat(b, z) \in Int /\ d \in Int
    BY <1>1, <1>3, <2>1, BeatGrows, BeatIs
  <2>3. CASE b.every > 0
    <3>1. FALSE BY <2>3 DEF SteadyInv, AllTaken
    <3> QED BY <3>1
  <2>4. PICK k, e, s, a : k = MonthIndex(home.start) /\ e = Beat(b, z) /\ s = home.start /\ a = b.due OBVIOUS
  <2>5. b.every = 0 /\ a \in 1..31 BY <1>1, <2>4, BillIs DEF SteadyInv, AllTaken
  <2>6. k \in Int BY <1>2, <2>4, MonthOf
  <2>7. k + z = k BY <2>1, <2>6
  <2>8. e = MonthDay(k, a) BY <2>4, <2>5, <2>7 DEF Beat
  <2>9. IsDate(e) /\ MonthIndex(e) = k BY <2>5, <2>6, <2>8, MonthDayIs
  <2>10. day(s) = 1 /\ 1 <= day(e) BY <2>4, <2>9, DateIs DEF SteadyInv, SteadyBills
  <2>11. s <= e BY <1>2, <2>4, <2>9, <2>10, DaysInOrder
  <2> QED BY <1>2, <2>2, <2>4, <2>11
<1>5. d \in DueDates(b, home.start, today)
  <2>1. home.start <= home.start BY <1>2
  <2>2. d <= today BY <1>3
  <2> QED BY <1>1, <1>2, <1>3, <1>4, <2>1, <2>2, DueOnTheBeat
<1>6. d \notin Skipped(b) BY DEF SteadyInv, AllTaken
<1>7. d \in Taken(b) BY <1>5, <1>6 DEF Skipped
<1>8. PICK p \in bank : p.text = b.text /\ p.on = d BY <1>7 DEF Taken
<1>9. p \in rows BY <1>3, <1>8 DEF SteadyInv, AllTaken, Whole
<1>10. p = BillPosting(b, d) BY <1>8, <1>9, BillRowIs
<1>11. p.id \notin excluded BY <1>8, <1>9 DEF SteadyInv, BillsInv, BillsAreNotTransfers
<1> QED BY <1>3, <1>9, <1>10, <1>11

(* A month's spending up to its head, when that has come, is of the bills    *)
(* due by it, each once, and of the rest.                                    *)
LEMMA BillsOfMonth ==
  ASSUME SteadyInv, NEW k \in Int, NEW h, IsHead(k, h), home.start <= MonthDay(k, 1), UpTo(k, h) <= today
  PROVE  /\ SpentIn(k, h) = Paid(k, BillsBy(h)) \cup OthersIn(k, h)
         /\ Paid(k, BillsBy(h)) \cap OthersIn(k, h) = {}
<1>1. home \in Households /\ IsDate(today) BY DEF SteadyInv, BillsInv, HInv, Calendars
<1>2. IsDate(home.start) /\ home.start \in Int /\ today \in Int BY <1>1, Ends DEF IsDate
<1>3. PICK s \in Int : s = MonthIndex(home.start) BY <1>2, MonthOf
<1>4. \A b \in home.bills : b.due \in 1..31 /\ \A n \in Nat : Beat(b, n) = MonthDay(s + n, b.due)
  BY <1>1, <1>3, BillIs DEF SteadyInv, AllTaken, Beat
<1>5. s <= k
  <2>1. IsDate(MonthDay(k, 1)) /\ MonthIndex(MonthDay(k, 1)) = k BY HeadEnds
  <2> QED BY <1>2, <1>3, <2>1, MonthsInOrder
<1>6. UpTo(k, h) \in Int BY HeadEnds
<1>7. ASSUME NEW b \in BillsBy(h)
      PROVE  /\ BillPosting(b, MonthDay(k, b.due)) \in SpentIn(k, h)
             /\ BillPosting(b, MonthDay(k, b.due)).text = b.text /\ b \in home.bills
  <2>1. b \in home.bills /\ b.amount < 0 /\ (h = 0 \/ b.due <= h) BY DEF BillsBy, Spent
  <2>2. PICK n \in Nat : n = k - s BY <1>3, <1>5
  <2>3. s + n = k BY <1>3, <2>2
  <2>4. PICK d : d = MonthDay(k, b.due) OBVIOUS
  <2>5. d = Beat(b, n) BY <1>4, <2>1, <2>3, <2>4
  <2>6. d \in Int /\ MonthDay(k, 1) <= d /\ d <= UpTo(k, h) BY <1>4, <2>1, <2>4, DueInMonth
  <2>7. d <= today BY <1>2, <1>6, <2>6
  <2>8. BillPosting(b, d) \in rows /\ BillPosting(b, d).id \notin excluded
    BY <2>1, <2>5, <2>7, BillIsPosted
  <2>9. BillPosting(b, d).amount = b.amount /\ BillPosting(b, d).on = d /\ BillPosting(b, d).text = b.text
    BY DEF BillPosting, Posting
  <2> QED BY <2>1, <2>4, <2>6, <2>8, <2>9 DEF SpentIn, Spent
<1>8. ASSUME NEW r \in SpentIn(k, h), r \notin OthersIn(k, h) PROVE r \in Paid(k, BillsBy(h))
  <2>1. r \in rows /\ r.amount < 0 /\ MonthDay(k, 1) <= r.on /\ r.on <= UpTo(k, h)
    BY DEF SpentIn, Spent
  <2>2. PICK b \in home.bills : r.text = b.text BY <1>8 DEF OthersIn
  <2>3. PICK n \in Nat : r = BillPosting(b, r.on) /\ r.amount = b.amount /\ r.on = Beat(b, n)
    BY <2>1, <2>2, BillRowIs
  <2>4. PICK j \in Int : j = s + n BY <1>3
  <2>5. r.on = MonthDay(j, b.due) BY <1>4, <2>3, <2>4
  <2>6. j = k /\ (h = 0 \/ b.due <= h) BY <1>4, <2>1, <2>5, DueInMonth
  <2>7. b \in BillsBy(h) BY <2>1, <2>3, <2>6 DEF BillsBy, Spent
  <2> QED BY <2>3, <2>5, <2>6, <2>7 DEF Paid
<1>9. Paid(k, BillsBy(h)) \subseteq SpentIn(k, h) BY <1>7 DEF Paid
<1>10. Paid(k, BillsBy(h)) \cap OthersIn(k, h) = {} BY <1>7 DEF Paid, OthersIn
<1>11. OthersIn(k, h) \subseteq SpentIn(k, h) BY DEF OthersIn
<1> QED BY <1>8, <1>9, <1>10, <1>11

(* Bills come to as much in any month.                                       *)
LEMMA PaidTotal ==
  ASSUME home \in Households, SteadyBills, NEW Q \in SUBSET home.bills, NEW k \in Int
  PROVE  Rows(Q) /\ Rows(Paid(k, Q)) /\ Total(Paid(k, Q)) = Total(Q)
<1>1. Rows(home.bills) BY HouseholdsAreWhole DEF Rows
<1>2. Rows(Q) /\ IsFiniteSet(Q) BY <1>1, TotalsAdd DEF Rows
<1>3. PICK g : g = [b \in Q |-> BillPosting(b, MonthDay(k, b.due))] OBVIOUS
<1>4. \A b \in Q : /\ g[b].text = b.text /\ g[b].amount = b.amount
                   /\ Magnitude(g[b]) = Magnitude(b) /\ b.amount \in Int
  BY <1>2, <1>3 DEF BillPosting, Posting, Magnitude, Rows
<1>5. PICK P : P = {g[b] : b \in Q} OBVIOUS
<1>6. P = Paid(k, Q) BY <1>3, <1>5 DEF Paid
<1>7. Rows(P)
  <2>1. DOMAIN g = Q BY <1>3
  <2>2. IsFiniteSet({g[b] : b \in DOMAIN g}) BY <1>2, <2>1, FiniteImage
  <2>3. \A r \in P : r.amount \in Int BY <1>4, <1>5
  <2> QED BY <1>5, <2>1, <2>2, <2>3 DEF Rows
<1> DEFINE of(q) == {g[b] : b \in q}
           F == {q \in SUBSET Q : Total(of(q)) # Total(q)}
<1>8. F = {}
  <2> SUFFICES ASSUME F # {} PROVE FALSE OBVIOUS
  <2>1. F \in SUBSET SUBSET Q OBVIOUS
  <2>2. PICK U \in F : \A u \in F : u \subseteq U => u = U
    <3> HIDE DEF F
    <3> QED BY <1>2, <2>1, FiniteSetMinimal
  <2>3. U \in SUBSET Q /\ Total(of(U)) # Total(U) BY <2>2
  <2>4. U # {}
    <3> SUFFICES ASSUME U = {} PROVE FALSE OBVIOUS
    <3>1. of(U) = {} OBVIOUS
    <3> QED BY <2>3, <3>1
  <2>5. PICK c \in U : TRUE BY <2>4
  <2>6. PICK V : V = U \ {c} OBVIOUS
  <2>7. V \in SUBSET Q /\ V # U /\ V \subseteq U BY <2>3, <2>5, <2>6
  <2>8. V \notin F
    <3> HIDE DEF F
    <3> QED BY <2>2, <2>7
  <2>9. Total(of(V)) = Total(V) BY <2>7, <2>8
  <2>10. U = {c} \cup V /\ {c} \cap V = {} /\ {c} \in SUBSET Q /\ c \in Q BY <2>3, <2>5, <2>6
  <2>11. Total(U) = Total({c}) + Total(V) /\ Total({c}) = Magnitude(c)
    <3> HIDE DEF F
    <3> QED BY <1>2, <2>7, <2>10, TotalsAdd
  <2>12. of(U) = {g[c]} \cup of(V) BY <2>10
  <2>13. {g[c]} \cap of(V) = {}
    <3> SUFFICES ASSUME NEW b \in V, g[b] = g[c] PROVE FALSE OBVIOUS
    <3>1. b \in home.bills /\ c \in home.bills /\ b.text = c.text /\ b # c BY <1>4, <2>6, <2>7, <2>10
    <3> QED BY <3>1 DEF SteadyBills
  <2>14. PICK B, C : B = of(V) /\ C = {g[c]} OBVIOUS
  <2>15. B \in SUBSET P /\ C \in SUBSET P /\ C \cap B = {} /\ g[c] \in P
    BY <1>5, <2>7, <2>10, <2>13, <2>14
  <2>16. Total(C \cup B) = Total(C) + Total(B) /\ Total(C) = Magnitude(g[c])
    <3> HIDE DEF F, of
    <3> QED BY <1>7, <2>14, <2>15, TotalsAdd
  <2>17. Magnitude(g[c]) = Magnitude(c) BY <1>4, <2>10
  <2> HIDE DEF F, of
  <2> QED BY <2>3, <2>9, <2>11, <2>12, <2>14, <2>16, <2>17
<1>9. Q \notin F BY <1>8
<1>10. Total(of(Q)) = Total(Q) BY <1>9
<1> QED BY <1>2, <1>5, <1>6, <1>7, <1>10

(* The rows, or bills, of some texts and categories.                         *)
Of(S, W) == {r \in S : <<r.text, r.category>> \in W}
Load(h, W) == Total(Of(BillsBy(h), W))

(* Such a cut of a month comes to its bills and the rest.                    *)
LEMMA MonthTotal ==
  ASSUME SteadyInv, NEW k \in Int, NEW h, IsHead(k, h), home.start <= MonthDay(k, 1), UpTo(k, h) <= today,
         NEW W
  PROVE  /\ Total(Of(SpentIn(k, h), W)) = Load(h, W) + Total(Of(OthersIn(k, h), W))
         /\ Load(h, W) \in Nat /\ Total(Of(OthersIn(k, h), W)) \in Nat
<1>1. home \in Households /\ Rows(rows) BY FiledInTheVault DEF SteadyInv, BillsInv, HInv, Calendars, FiledRows
<1>2. PICK B : B = BillsBy(h) OBVIOUS
<1>3. B \in SUBSET home.bills BY <1>2 DEF BillsBy, Spent
<1>4. PICK Q : Q = Of(B, W) OBVIOUS
<1>5. Q \in SUBSET home.bills BY <1>3, <1>4 DEF Of
<1>6. SteadyBills BY DEF SteadyInv
<1>7. Rows(Q) /\ Total(Paid(k, Q)) = Total(Q) BY <1>1, <1>5, <1>6, PaidTotal
<1>8. Of(Paid(k, B), W) = Paid(k, Q)
  <2>1. \A b, d : BillPosting(b, d).text = b.text /\ BillPosting(b, d).category = b.category
    BY DEF BillPosting, Posting
  <2> QED BY <1>4, <2>1 DEF Of, Paid
<1>9. PICK S, P, O : S = SpentIn(k, h) /\ P = Paid(k, B) /\ O = OthersIn(k, h) OBVIOUS
<1>10. S = P \cup O /\ P \cap O = {} BY <1>2, <1>9, BillsOfMonth
<1>11. PICK SW, PW, OW : SW = Of(S, W) /\ PW = Of(P, W) /\ OW = Of(O, W) OBVIOUS
<1>12. SW = PW \cup OW /\ PW \cap OW = {} BY <1>10, <1>11 DEF Of
<1>13. S \in SUBSET rows BY <1>9 DEF SpentIn, Spent
<1>14. PW \in SUBSET rows /\ OW \in SUBSET rows BY <1>10, <1>11, <1>13 DEF Of
<1>15. Total(SW) = Total(PW) + Total(OW) /\ Total(OW) \in Nat BY <1>1, <1>12, <1>14, TotalsAdd
<1>16. Total(PW) = Total(Q) BY <1>7, <1>8, <1>9, <1>11
<1>17. Total(Q) \in Nat BY <1>7, TotalsAdd
<1>18. Load(h, W) = Total(Q) BY <1>2, <1>4 DEF Load
<1> QED BY <1>9, <1>11, <1>15, <1>16, <1>17, <1>18

(* The smaller of two.                                                       *)
LEMMA MinOfTwo ==
  ASSUME NEW a \in Int, NEW b \in Int
  PROVE  Min({a, b}) = IF a <= b THEN a ELSE b
<1>1. PICK e \in Int : e = IF a <= b THEN a ELSE b OBVIOUS
<1>2. e \in {a, b} /\ \A x \in {a, b} : e <= x BY <1>1
<1>3. \A f \in {a, b} : (\A x \in {a, b} : f <= x) => f = e BY <1>1
<1> QED BY <1>1, <1>2, <1>3 DEF Min

(* A month by its number.                                                    *)
YM(k) == <<k \div 12, (k % 12) + 1>>

(* It is in a year, follows another, and has its bounds and length.          *)
LEMMA MonthNumber ==
  ASSUME NEW k \in Int
  PROVE  /\ Month(YM(k)) /\ prev_month(YM(k)) = YM(k - 1)
         /\ month_bounds(YM(k)) = <<MonthDay(k, 1), MonthDay(k, 31)>>
         /\ monthrange(YM(k)[1], YM(k)[2]) = MonthLength(k)
<1>1. PICK y \in Int, m \in 1..12 : y = k \div 12 /\ m = (k % 12) + 1 BY MonthsFollow
<1>2. YM(k) = <<y, m>> BY <1>1 DEF YM
<1>3. k = 12 * y + m - 1 BY ONLY <1>1, k \in Int
<1>4. prev_month(YM(k)) = YM(k - 1)
  <2>1. CASE m = 1
    <3>1. (k - 1) \div 12 = y - 1 /\ ((k - 1) % 12) + 1 = 12
      BY ONLY <1>3, <2>1, k \in Int, y \in Int
    <3> QED BY <1>2, <2>1, <3>1 DEF prev_month, YM
  <2>2. CASE m # 1
    <3>1. (k - 1) \div 12 = y /\ ((k - 1) % 12) + 1 = m - 1
      BY ONLY <1>3, <2>2, k \in Int, y \in Int, m \in 1..12
    <3> QED BY <1>2, <2>2, <3>1 DEF prev_month, YM
  <2> QED BY <2>1, <2>2
<1>5. PICK l \in 28..31 : l = monthrange(y, m) BY MonthIs
<1>6. MonthLength(k) = l BY <1>1, <1>5 DEF MonthLength
<1>7. Min({1, l}) = 1 /\ Min({31, l}) = l
  <2>1. PICK a \in Int, b \in Int : a = 1 /\ b = 31 OBVIOUS
  <2>2. Min({a, l}) = a /\ Min({b, l}) = l BY <1>5, <2>1, MinOfTwo
  <2> QED BY <2>1, <2>2
<1>8. MonthDay(k, 1) = date(y, m, 1) /\ MonthDay(k, 31) = date(y, m, l)
  BY <1>1, <1>5, <1>7 DEF MonthDay, InMonth
<1>9. month_bounds(YM(k)) = <<date(y, m, 1), date(y, m, l)>> BY <1>2, <1>5 DEF month_bounds
<1> QED BY <1>2, <1>4, <1>5, <1>6, <1>8, <1>9 DEF Month

(* The months back from a date's.                                            *)
LEMMA MonthsBackAre ==
  ASSUME NEW d, IsDate(d), NEW n \in Nat
  PROVE  /\ <<year(d), month(d)>> = YM(MonthIndex(d))
         /\ DOMAIN MonthsBack(<<year(d), month(d)>>, n) = 1..n
         /\ \A j \in 1..n : MonthsBack(<<year(d), month(d)>>, n)[j] = YM(MonthIndex(d) - j + 1)
<1>1. PICK y \in Int, m \in 1..12 : y = year(d) /\ m = month(d) BY DateIs
<1>2. <<y, m>> = YM(MonthIndex(d)) BY <1>1, MonthOf DEF YM
<1>3. \A j \in 1..n : MonthIndex(d) - j + 1 = 12 * y + m - j BY <1>1 DEF MonthIndex
<1>4. \A j \in 1..n : MonthsBack(<<y, m>>, n)[j] = <<(12 * y + m - j) \div 12, ((12 * y + m - j) % 12) + 1>>
  BY DEF MonthsBack
<1>5. DOMAIN MonthsBack(<<y, m>>, n) = 1..n BY DEF MonthsBack
<1>6. \A j \in 1..n : MonthsBack(<<y, m>>, n)[j] = YM(MonthIndex(d) - j + 1) BY <1>3, <1>4 DEF YM
<1> QED BY <1>1, <1>2, <1>5, <1>6

(* What the program counts as spent in a month.                              *)
LEMMA SpendRowsAre ==
  ASSUME NEW k \in Int, NEW h, IsHead(k, h)
  PROVE  spend_rows(rows, YM(k), h, Everything, excluded) = SpentIn(k, h)
<1>1. PICK b : b = month_bounds(YM(k)) OBVIOUS
<1>2. b = <<MonthDay(k, 1), MonthDay(k, 31)>> BY <1>1, MonthNumber
<1>3. PICK u : u = UpTo(k, h) OBVIOUS
<1>4. /\ IsDate(u) /\ MonthIndex(u) = k /\ day(u) = (IF h = 0 THEN MonthLength(k) ELSE h)
  BY <1>3, HeadEnds
<1>5. (IF h = 0 THEN b[2] ELSE date(YM(k)[1], YM(k)[2], h)) = u
  <2>1. CASE h = 0 BY <1>2, <1>3, <2>1 DEF UpTo
  <2>2. CASE h # 0
    <3>1. u = date(year(u), month(u), h) BY <1>4, <2>2, DateIs
    <3>2. year(u) = YM(k)[1] /\ month(u) = YM(k)[2] BY <1>4, MonthOf DEF YM
    <3> QED BY <2>2, <3>1, <3>2
  <2> QED BY <2>1, <2>2
<1>6. spend_rows(rows, YM(k), h, Everything, excluded)
        = {r \in Spent(rows_in_range(rows, b[1], u, Everything)) : r.id \notin excluded}
  BY <1>1, <1>5 DEF spend_rows
<1>7. Spent(rows_in_range(rows, b[1], u, Everything))
        = {r \in Spent(rows) : b[1] <= r.on /\ r.on <= u}
  BY DEF Spent, rows_in_range
<1> QED BY <1>2, <1>3, <1>6, <1>7 DEF SpentIn

(* How far a month still running is compared: to a day that has come, and    *)
(* before the end of each of the months.                                     *)
LEMMA HeadDayIs ==
  ASSUME IsDate(today), NEW k \in Int, k = MonthIndex(today), NEW months,
         DOMAIN months = 1..4, \A j \in 1..4 : months[j] = YM(k - j + 1)
  PROVE  LET h == head_day(today, months)
         IN h \in Int /\ 1 <= h /\ h <= day(today) /\ \A j \in 1..4 : h <= MonthLength(k - j + 1) - 1
<1>1. PICK g : g = [j \in 1..4 |-> monthrange(months[j][1], months[j][2])] OBVIOUS
<1>2. \A j \in 1..4 : g[j] = MonthLength(k - j + 1) /\ g[j] \in 28..31
  <2> TAKE j \in 1..4
  <2>1. k - j + 1 \in Int OBVIOUS
  <2> QED BY <1>1, <2>1, MonthNumber, MonthsFollow
<1>3. PICK S : S = {g[j] : j \in 1..4} OBVIOUS
<1>4. S = {monthrange(months[j][1], months[j][2]) : j \in DOMAIN months} BY <1>1, <1>3
<1>5. IsFiniteSet(S)
  <2>1. PICK a \in Int, b \in Int : a = 1 /\ b = 4 OBVIOUS
  <2>2. IsFiniteSet(a..b) BY FS_Interval
  <2>3. DOMAIN g = a..b BY <1>1, <2>1
  <2>4. IsFiniteSet({g[j] : j \in DOMAIN g}) BY <2>2, <2>3, FiniteImage
  <2> QED BY <1>3, <2>1, <2>3, <2>4
<1>6. S # {} /\ \A x \in S : x \in 28..31 BY <1>2, <1>3
<1>7. PICK s : s = Min(S) OBVIOUS
<1>8. s \in 28..31 /\ \A x \in S : s <= x
  <2>1. \A x \in S : x \in Int BY <1>6
  <2>2. s \in S /\ \A x \in S : s <= x BY <1>5, <1>6, <1>7, <2>1, MinIs
  <2> QED BY <1>6, <2>2
<1>9. \A j \in 1..4 : s <= MonthLength(k - j + 1) BY <1>2, <1>3, <1>8
<1>10. PICK d \in 1..31 : d = day(today) BY DateIs
<1>11. PICK t : t = s - 1 OBVIOUS
<1>12. t \in Int /\ d \in Int BY <1>8, <1>10, <1>11
<1>13. PICK h : h = IF d <= t THEN d ELSE t OBVIOUS
<1>14. Min({d, t}) = h BY <1>12, <1>13, MinOfTwo
<1>15. head_day(today, months) = Min({d, t}) BY <1>4, <1>7, <1>10, <1>11 DEF head_day
<1>16. h \in Int /\ 1 <= h /\ h <= d /\ h <= s - 1 BY <1>8, <1>10, <1>11, <1>13
<1>17. head_day(today, months) = h BY <1>14, <1>15
<1>18. \A j \in 1..4 : MonthLength(k - j + 1) \in Int BY <1>2
<1>19. \A j \in 1..4 : h <= MonthLength(k - j + 1) - 1 BY <1>8, <1>9, <1>16, <1>18
<1> QED BY <1>10, <1>16, <1>17, <1>19

(* The three months before a month, those of them with anything spent, and   *)
(* that.                                                                     *)
Before(k, h) == UNION {SpentIn(k - j + 1, h) : j \in {i \in 2..4 : SpentIn(k - i + 1, h) # {}}}
Priors(k, h) == {j \in 2..4 : SpentIn(k - j + 1, h) # {}}

(* The summary of period p sums up month k and the three before it, each up  *)
(* to its day h (0: all of it): a day that has come.                         *)
SumsUp(mode, prefs, p, k, h, days) ==
    /\ p = <<MonthDay(k, 1), MonthDay(k, 31)>>
    /\ month_bounds(MonthsBack(<<year(p[1]), month(p[1])>>, 4)[4])[1] = MonthDay(k - 3, 1)
    /\ \A j \in 1..4 : IsHead(k - j + 1, h) /\ UpTo(k - j + 1, h) <= today
    /\ mode = "previous_month" => h = 0
    /\ month_summary(rows, excluded, prefs, Everything, today)
         = summarise_month([partial |-> h # 0, started |-> TRUE, days |-> days,
             spend |-> Total(SpentIn(k, h)), prior_total |-> Total(Before(k, h)),
             prior_count |-> Cardinality(Priors(k, h)),
             candidate |-> candidate(SpentIn(k, h), Before(k, h))])

(* It does so of some month.                                                 *)
LEMMA SummaryIs ==
  ASSUME IsDate(today), NEW mode \in {"current_month", "previous_month"},
         NEW prefs, prefs = [mode |-> mode, year |-> None, month |-> None],
         NEW p, p = resolve_period(prefs, today)
  PROVE  \E k, h, days : k \in Int /\ SumsUp(mode, prefs, p, k, h, days)
<1>1. PICK t \in Int : t = MonthIndex(today) BY MonthOf
<1>2. prefs = [mode |-> mode, year |-> None, month |-> None] OBVIOUS
<1>3. PICK k \in Int : k = IF mode = "current_month" THEN t ELSE t - 1 BY <1>1
<1>4. p = resolve_period(prefs, today) OBVIOUS
<1>5. p = month_bounds(YM(k))
  <2>1. <<year(today), month(today)>> = YM(t)
    <3>1. 4 \in Nat OBVIOUS
    <3> QED BY <1>1, <3>1, MonthsBackAre
  <2>2. prev_month(YM(t)) = YM(t - 1) BY <1>1, MonthNumber
  <2> QED BY <1>2, <1>3, <1>4, <2>1, <2>2 DEF resolve_period
<1>6. p = <<MonthDay(k, 1), MonthDay(k, 31)>> BY <1>5, MonthNumber
<1>7. PICK f, e : f = MonthDay(k, 1) /\ e = MonthDay(k, 31) OBVIOUS
<1>8. IsDate(f) /\ IsDate(e) /\ MonthIndex(f) = k /\ MonthIndex(e) = k /\ f \in Int /\ e \in Int
         /\ day(f) = 1 /\ day(e) = MonthLength(k)
  BY <1>7, HeadEnds DEF IsHead, UpTo
<1>9. PICK months : months = MonthsBack(<<year(e), month(e)>>, 4) OBVIOUS
<1>10. DOMAIN months = 1..4 /\ \A j \in 1..4 : months[j] = YM(k - j + 1)
  <2>1. PICK n \in Nat : n = 4 OBVIOUS
  <2>2. months = MonthsBack(<<year(e), month(e)>>, n) BY <1>9, <2>1
  <2> QED BY <1>8, <2>1, <2>2, MonthsBackAre
<1>11. month_bounds(MonthsBack(<<year(p[1]), month(p[1])>>, 4)[4])[1] = MonthDay(k - 3, 1)
  <2>1. PICK n \in Nat : n = 4 OBVIOUS
  <2>2. PICK back : back = MonthsBack(<<year(f), month(f)>>, n) OBVIOUS
  <2>3. back[n] = YM(k - n + 1) BY <1>8, <2>1, <2>2, MonthsBackAre
  <2>4. k - n + 1 = k - 3 /\ k - 3 \in Int BY <2>1
  <2>5. month_bounds(YM(k - 3))[1] = MonthDay(k - 3, 1) BY <2>4, MonthNumber
  <2> QED BY <1>6, <1>7, <2>1, <2>2, <2>3, <2>4, <2>5
<1>12. PICK partial : partial = (f <= today /\ today <= e) OBVIOUS
<1>13. today \in Int /\ f <= today BY <1>1, <1>3, <1>8, DaysInOrder, DateIs
<1>14. partial <=> mode = "current_month"
  <2>1. CASE mode = "current_month"
    <3>1. MonthIndex(today) = MonthIndex(e) /\ day(today) <= day(e)
      BY <1>1, <1>3, <1>8, <2>1, MonthOf
    <3>2. today <= e BY <1>8, <3>1, DaysInOrder
    <3> QED BY <1>12, <1>13, <2>1, <3>2
  <2>2. CASE mode = "previous_month"
    <3>1. k < t /\ MonthIndex(e) < MonthIndex(today) BY <1>1, <1>3, <1>8, <2>2
    <3>2. e < today BY <1>8, <3>1, DaysInOrder
    <3>3. ~ (today <= e) BY <1>8, <1>13, <3>2
    <3>4. ~ partial BY <1>12, <3>3
    <3> QED BY <2>2, <3>4
  <2> QED BY <2>1, <2>2
<1>15. PICK h : h = IF partial THEN head_day(today, months) ELSE 0 OBVIOUS
<1>16. partial => /\ h \in Int /\ 1 <= h /\ h <= day(today)
                  /\ \A j \in 1..4 : h <= MonthLength(k - j + 1) - 1
  BY <1>1, <1>3, <1>10, <1>14, <1>15, HeadDayIs
<1>17. h # 0 <=> partial BY <1>15, <1>16
<1>18. ASSUME NEW j \in 1..4 PROVE IsHead(k - j + 1, h) /\ UpTo(k - j + 1, h) <= today
  <2>1. PICK i \in Int : i = k - j + 1 OBVIOUS
  <2>2. PICK l \in 28..31 : l = MonthLength(i) BY <2>1, MonthsFollow
  <2>3. IsHead(i, h) BY <1>15, <1>16, <2>1, <2>2 DEF IsHead
  <2>4. PICK u : u = UpTo(i, h) OBVIOUS
  <2>5. IsDate(u) /\ MonthIndex(u) = i /\ day(u) = (IF h = 0 THEN l ELSE h) BY <2>2, <2>3, <2>4, HeadEnds
  <2>6. i <= t BY <1>3, <2>1
  <2>7. CASE i < t
    <3>1. u < today BY <1>1, <2>5, <2>7, DaysInOrder
    <3> QED BY <1>13, <2>1, <2>3, <2>4, <2>5, <3>1 DEF IsDate
  <2>8. CASE i = t
    <3>1. mode = "current_month" BY <1>3, <2>1, <2>8
    <3>2. h <= day(today) /\ h # 0 BY <1>14, <1>16, <1>17, <3>1
    <3>3. u <= today BY <1>1, <2>5, <2>8, <3>2, DaysInOrder
    <3> QED BY <2>1, <2>3, <2>4, <3>3
  <2> QED BY <1>1, <2>1, <2>6, <2>7, <2>8
<1>19. \A j \in 1..4 : spend_rows(rows, months[j], h, Everything, excluded) = SpentIn(k - j + 1, h)
  <2> TAKE j \in 1..4
  <2>1. k - j + 1 \in Int OBVIOUS
  <2> QED BY <1>10, <1>18, <2>1, SpendRowsAre
<1>20. PICK window : window = [j \in DOMAIN months |-> spend_rows(rows, months[j], h, Everything, excluded)] OBVIOUS
<1>21. Len(window) = 4 /\ \A j \in 1..4 : window[j] = SpentIn(k - j + 1, h)
  <2>1. DOMAIN window = 1..4 BY <1>10, <1>20
  <2>2. \A j \in 1..4 : window[j] = SpentIn(k - j + 1, h) BY <1>10, <1>19, <1>20
  <2>3. window \in Seq({window[j] : j \in 1..4}) BY <1>10, <1>20, <2>1
  <2> QED BY <2>1, <2>2, <2>3
<1>22. {j \in 2..Len(window) : window[j] # {}} = Priors(k, h) BY <1>21 DEF Priors
<1>23. UNION {window[j] : j \in {j \in 2..Len(window) : window[j] # {}}} = Before(k, h)
  <2>1. \A j \in 2..4 : window[j] = SpentIn(k - j + 1, h) BY <1>21
  <2> QED BY <1>21, <2>1 DEF Before
<1>24. window[1] = SpentIn(k, h)
  <2>1. k - 1 + 1 = k /\ 1 \in 1..4 OBVIOUS
  <2> QED BY <1>21, <2>1
<1>25. PICK days : days = IF partial THEN h ELSE monthrange(months[1][1], months[1][2]) OBVIOUS
<1>26. month_bounds(months[1]) = p
  <2>1. k - 1 + 1 = k /\ 1 \in 1..4 OBVIOUS
  <2> QED BY <1>5, <1>10, <2>1
<1>27. month_summary(rows, excluded, prefs, Everything, today)
         = summarise_month([partial |-> partial, started |-> f <= today, days |-> days,
                spend |-> Total(window[1]), prior_total |-> Total(Before(k, h)),
                prior_count |-> Cardinality(Priors(k, h)), candidate |-> candidate(window[1], Before(k, h))])
  <2> DEFINE end     == resolve_period(prefs, today)[2]
             ms      == MonthsBack(<<year(end), month(end)>>, BaselineMonths + 1)
             bounds  == month_bounds(ms[1])
             started == bounds[1] <= today
             part    == started /\ today <= bounds[2]
             head    == IF part THEN head_day(today, ms) ELSE 0
             win     == [j \in DOMAIN ms |-> spend_rows(rows, ms[j], head, Everything, excluded)]
             priors  == {j \in 2..Len(win) : win[j] # {}}
             before  == UNION {win[j] : j \in priors}
             item    == [partial |-> part, started |-> started,
                         days |-> IF part THEN head ELSE monthrange(ms[1][1], ms[1][2]),
                         spend |-> Total(win[1]), prior_total |-> Total(before),
                         prior_count |-> Cardinality(priors), candidate |-> candidate(win[1], before)]
  <2>1. month_summary(rows, excluded, prefs, Everything, today)
          = IF \/ prefs.mode \notin MonthModes
               \/ prefs.mode = "specific_month" /\ (prefs.year = None \/ prefs.month = None)
            THEN [verdict |-> "silent", cause |-> None, spend |-> 0]
            ELSE summarise_month(item)
    BY DEF month_summary
  <2>2. prefs.mode \in MonthModes /\ prefs.mode # "specific_month" BY <1>2 DEF MonthModes
  <2>3. end = e BY <1>4, <1>6, <1>7
  <2>4. ms = months BY <1>9, <2>3 DEF BaselineMonths
  <2>5. bounds[1] = f /\ bounds[2] = e
    <3> HIDE DEF ms
    <3> QED BY <1>6, <1>7, <1>26, <2>4
  <2>6. part = partial /\ started = (f <= today)
    <3> HIDE DEF bounds
    <3> QED BY <1>12, <2>5
  <2>7. head = h
    <3> HIDE DEF part, ms
    <3> QED BY <1>15, <2>4, <2>6
  <2>8. win = window
    <3> HIDE DEF head, ms
    <3> QED BY <1>20, <2>4, <2>7
  <2>9. priors = Priors(k, h)
    <3> HIDE DEF win
    <3> QED BY <1>22, <2>8
  <2>10. before = Before(k, h)
    <3>1. before = UNION {win[j] : j \in {j \in 2..Len(win) : win[j] # {}}} OBVIOUS
    <3> HIDE DEF win, before
    <3> QED BY <1>23, <2>8, <3>1
  <2>11. item = [partial |-> partial, started |-> f <= today, days |-> days,
                spend |-> Total(window[1]), prior_total |-> Total(Before(k, h)),
                prior_count |-> Cardinality(Priors(k, h)), candidate |-> candidate(window[1], Before(k, h))]
    <3> HIDE DEF part, started, head, win, priors, before, ms
    <3> QED BY <1>25, <2>4, <2>6, <2>7, <2>8, <2>9, <2>10
  <2> HIDE DEF item
  <2> QED BY <2>1, <2>2, <2>11
<1>28. month_summary(rows, excluded, prefs, Everything, today)
         = summarise_month([partial |-> h # 0, started |-> TRUE, days |-> days,
                spend |-> Total(SpentIn(k, h)), prior_total |-> Total(Before(k, h)),
                prior_count |-> Cardinality(Priors(k, h)), candidate |-> candidate(SpentIn(k, h), Before(k, h))])
  <2>1. (f <= today) = TRUE BY <1>13
  <2>2. partial = (h # 0) BY <1>12, <1>17
  <2> QED BY <1>24, <1>27, <2>1, <2>2
<1>29. mode = "previous_month" => h = 0 BY <1>14, <1>17
<1>30. SumsUp(mode, prefs, p, k, h, days) BY <1>6, <1>11, <1>18, <1>28, <1>29 DEF SumsUp
<1> QED BY <1>30

(* No row is of two months.                                                  *)
LEMMA MonthsDiffer ==
  ASSUME SteadyInv, NEW i \in Int, NEW j \in Int, i < j, NEW h, IsHead(i, h), IsHead(j, h)
  PROVE  SpentIn(i, h) \cap SpentIn(j, h) = {}
<1>1. PICK u, f : u = UpTo(i, h) /\ f = MonthDay(j, 1) OBVIOUS
<1>2. IsDate(u) /\ IsDate(f) /\ MonthIndex(u) = i /\ MonthIndex(f) = j BY <1>1, HeadEnds
<1>3. u < f /\ u \in Int /\ f \in Int BY <1>2, DaysInOrder
<1>4. \A r \in rows : r.on \in Int BY DEF SteadyInv, BillsInv, HInv, Booked, Postings
<1> SUFFICES ASSUME NEW r \in SpentIn(i, h), r \in SpentIn(j, h) PROVE FALSE OBVIOUS
<1>5. r.on <= u /\ f <= r.on /\ r \in rows BY <1>1 DEF SpentIn, Spent
<1> QED BY <1>3, <1>4, <1>5

(* Three disjoint sets of rows.                                              *)
LEMMA ThreeAdd ==
  ASSUME NEW S, Rows(S), NEW A \in SUBSET S, NEW B \in SUBSET S, NEW C \in SUBSET S,
         A \cap B = {}, A \cap C = {}, B \cap C = {}
  PROVE  Total(A \cup B \cup C) = Total(A) + Total(B) + Total(C)
<1>1. PICK D : D = A \cup B OBVIOUS
<1>2. D \in SUBSET S /\ D \cap C = {} BY <1>1
<1>3. Total(D) = Total(A) + Total(B) BY <1>1, TotalsAdd
<1>4. Total(D \cup C) = Total(D) + Total(C) BY <1>2, TotalsAdd
<1> QED BY <1>1, <1>3, <1>4

(* What was spent in the three months before, of no bill.                    *)
OthersBefore(k, h) == {r \in Before(k, h) : \A b \in home.bills : r.text # b.text}

(* A month and the three before it, all since the vault began and each up to *)
(* a day that has come.                                                      *)
Full(k, h) ==
    /\ k \in Int /\ home.start <= MonthDay(k - 3, 1)
    /\ \A j \in 1..4 : IsHead(k - j + 1, h) /\ UpTo(k - j + 1, h) <= today

(* Each such month takes the bills, and what no bill is for.                 *)
LEMMA FullMonths ==
  ASSUME SteadyInv, NEW k, NEW h, Full(k, h), NEW W
  PROVE  /\ \A j \in 1..4 :
              LET S == SpentIn(k - j + 1, h) IN LET O == OthersIn(k - j + 1, h)
              IN Total(Of(S, W)) = Load(h, W) + Total(Of(O, W)) /\ Total(Of(O, W)) \in Nat
         /\ Load(h, W) \in Nat
         /\ Total(Of(Before(k, h), W)) = 3 * Load(h, W) + Total(Of(OthersBefore(k, h), W))
         /\ Total(Of(OthersBefore(k, h), W)) \in Nat
<1>1. k \in Int /\ home \in Households /\ Rows(rows)
  BY FiledInTheVault DEF Full, SteadyInv, BillsInv, HInv, Calendars, FiledRows
<1>2. home.start \in Int BY <1>1, Ends
<1>3. ASSUME NEW j \in 1..4
      PROVE  /\ k - j + 1 \in Int /\ IsHead(k - j + 1, h) /\ UpTo(k - j + 1, h) <= today
             /\ home.start <= MonthDay(k - j + 1, 1)
  <2>1. PICK i \in Int, l \in Int : i = k - j + 1 /\ l = k - 3 /\ l <= i BY <1>1
  <2>2. IsHead(i, h) /\ UpTo(i, h) <= today BY <2>1 DEF Full
  <2>3. IsHead(l, 0) BY DEF IsHead
  <2>4. PICK d, e : d = MonthDay(l, 1) /\ e = MonthDay(i, 1) OBVIOUS
  <2>5. IsDate(d) /\ IsDate(e) /\ MonthIndex(d) = l /\ MonthIndex(e) = i /\ day(d) = 1 /\ day(e) = 1
        /\ d \in Int /\ e \in Int
    BY <2>1, <2>2, <2>3, <2>4, HeadEnds
  <2>6. d <= e
    <3>1. CASE l < i BY <2>5, <3>1, DaysInOrder
    <3>2. CASE l = i BY <2>4, <2>5, <3>2
    <3> QED BY <2>1, <3>1, <3>2
  <2>7. home.start <= d BY <1>1, <2>1, <2>4 DEF Full
  <2> QED BY <1>2, <2>1, <2>2, <2>4, <2>5, <2>6, <2>7
<1>4. ASSUME NEW j \in 1..4
      PROVE  /\ Total(Of(SpentIn(k - j + 1, h), W)) = Load(h, W) + Total(Of(OthersIn(k - j + 1, h), W))
             /\ Total(Of(OthersIn(k - j + 1, h), W)) \in Nat /\ Load(h, W) \in Nat
  BY <1>3, MonthTotal
<1>5. PICK S2, S3, S4, O2, O3, O4 :
        /\ S2 = SpentIn(k - 1, h) /\ S3 = SpentIn(k - 2, h) /\ S4 = SpentIn(k - 3, h)
        /\ O2 = OthersIn(k - 1, h) /\ O3 = OthersIn(k - 2, h) /\ O4 = OthersIn(k - 3, h)
  OBVIOUS
<1>6. /\ k - 2 + 1 = k - 1 /\ k - 3 + 1 = k - 2 /\ k - 4 + 1 = k - 3
      /\ k - 1 \in Int /\ k - 2 \in Int /\ k - 3 \in Int
      /\ k - 3 < k - 2 /\ k - 3 < k - 1 /\ k - 2 < k - 1
  BY <1>1
<1>7. IsHead(k - 1, h) /\ IsHead(k - 2, h) /\ IsHead(k - 3, h)
  <2>1. 2 \in 1..4 /\ 3 \in 1..4 /\ 4 \in 1..4 OBVIOUS
  <2>2. IsHead(k - 2 + 1, h) /\ IsHead(k - 3 + 1, h) /\ IsHead(k - 4 + 1, h) BY <1>3, <2>1
  <2> QED BY <1>6, <2>2
<1>8. S2 \cap S3 = {} /\ S2 \cap S4 = {} /\ S3 \cap S4 = {}
  BY <1>5, <1>6, <1>7, MonthsDiffer
<1>9. S2 \in SUBSET rows /\ S3 \in SUBSET rows /\ S4 \in SUBSET rows BY <1>5 DEF SpentIn, Spent
<1>10. Before(k, h) = S2 \cup S3 \cup S4
  <2>1. Before(k, h) = UNION {SpentIn(k - j + 1, h) : j \in 2..4}
    <3>1. \A j \in 2..4 : SpentIn(k - j + 1, h) # {} \/ SpentIn(k - j + 1, h) = {} OBVIOUS
    <3> QED BY DEF Before
  <2>2. \A j \in 2..4 : j = 2 \/ j = 3 \/ j = 4 OBVIOUS
  <2>3. 2 \in 2..4 /\ 3 \in 2..4 /\ 4 \in 2..4 OBVIOUS
  <2>4. /\ SpentIn(k - 2 + 1, h) = S2 /\ SpentIn(k - 3 + 1, h) = S3 /\ SpentIn(k - 4 + 1, h) = S4
    BY <1>5, <1>6
  <2> QED BY <2>1, <2>2, <2>3, <2>4
<1>11. OthersBefore(k, h) = O2 \cup O3 \cup O4 /\ O2 \subseteq S2 /\ O3 \subseteq S3 /\ O4 \subseteq S4
  BY <1>5, <1>10 DEF OthersBefore, OthersIn
<1>12. PICK A2, A3, A4, B2, B3, B4 :
         /\ A2 = Of(S2, W) /\ A3 = Of(S3, W) /\ A4 = Of(S4, W)
         /\ B2 = Of(O2, W) /\ B3 = Of(O3, W) /\ B4 = Of(O4, W)
  OBVIOUS
<1>13. /\ A2 \subseteq S2 /\ A3 \subseteq S3 /\ A4 \subseteq S4
       /\ B2 \subseteq O2 /\ B3 \subseteq O3 /\ B4 \subseteq O4
       /\ Of(Before(k, h), W) = A2 \cup A3 \cup A4
       /\ Of(OthersBefore(k, h), W) = B2 \cup B3 \cup B4
  BY <1>10, <1>11, <1>12 DEF Of
<1>14. Total(A2 \cup A3 \cup A4) = Total(A2) + Total(A3) + Total(A4)
  <2>1. A2 \in SUBSET rows /\ A3 \in SUBSET rows /\ A4 \in SUBSET rows BY <1>9, <1>13
  <2>2. A2 \cap A3 = {} /\ A2 \cap A4 = {} /\ A3 \cap A4 = {} BY <1>8, <1>13
  <2> QED BY ONLY <1>1, <2>1, <2>2, ThreeAdd
<1>15. Total(B2 \cup B3 \cup B4) = Total(B2) + Total(B3) + Total(B4)
  <2>1. B2 \in SUBSET rows /\ B3 \in SUBSET rows /\ B4 \in SUBSET rows BY <1>9, <1>11, <1>13
  <2>2. B2 \cap B3 = {} /\ B2 \cap B4 = {} /\ B3 \cap B4 = {} BY <1>8, <1>11, <1>13
  <2> QED BY ONLY <1>1, <2>1, <2>2, ThreeAdd
<1>16. /\ Total(A2) = Load(h, W) + Total(B2) /\ Total(B2) \in Nat /\ Load(h, W) \in Nat
       /\ Total(A3) = Load(h, W) + Total(B3) /\ Total(B3) \in Nat
       /\ Total(A4) = Load(h, W) + Total(B4) /\ Total(B4) \in Nat
  <2>1. 2 \in 1..4 /\ 3 \in 1..4 /\ 4 \in 1..4 OBVIOUS
  <2>2. /\ Total(Of(SpentIn(k - 1, h), W)) = Load(h, W) + Total(Of(OthersIn(k - 1, h), W))
        /\ Total(Of(OthersIn(k - 1, h), W)) \in Nat /\ Load(h, W) \in Nat
        /\ Total(Of(SpentIn(k - 2, h), W)) = Load(h, W) + Total(Of(OthersIn(k - 2, h), W))
        /\ Total(Of(OthersIn(k - 2, h), W)) \in Nat
        /\ Total(Of(SpentIn(k - 3, h), W)) = Load(h, W) + Total(Of(OthersIn(k - 3, h), W))
        /\ Total(Of(OthersIn(k - 3, h), W)) \in Nat
    BY <1>4, <1>6, <2>1
  <2> QED BY <1>5, <1>12, <2>2
<1> QED BY <1>4, <1>13, <1>14, <1>15, <1>16

(* An earlier date is of the day before or earlier.                          *)
LEMMA DayBefore ==
  ASSUME NEW d, IsDate(d), NEW e, IsDate(e), d < e
  PROVE  plus_days(e, -1) \in Int /\ d <= plus_days(e, -1)
<1>1. PICK y0 \in Int : y0 = year(e) BY DateIs
<1>2. PICK o \in Int : o = ordinal(e) BY DateIs
<1>3. DaysBeforeYear(y0) <= o /\ o < DaysBeforeYear(y0 + 1) BY <1>1, <1>2, DateIs
<1>4. PICK N \in Int, x \in Int, z \in Int : N = o - 1 /\ x = y0 - 2 /\ z = y0 - 1 OBVIOUS
<1>5. plus_days(e, -1) = OfOrdinal(N, x..y0)
  <2>1. PICK m \in Int : m = -1 OBVIOUS
  <2>2. PICK t \in Int : t = m \div 365 OBVIOUS
  <2>3. 365 * t <= m /\ m < 365 * t + 365 BY ONLY <2>2, m \in Int, t \in Int
  <2>4. m < 0 /\ t + 1 = 0 BY ONLY <2>1, <2>3, m \in Int, t \in Int
  <2>5. plus_days(e, m) = OfOrdinal(o + m, (y0 + t - 1)..y0) BY <1>1, <1>2, <2>2, <2>4 DEF plus_days
  <2>6. o + m = N /\ y0 + t - 1 = x BY <1>4, <2>1, <2>4
  <2> QED BY <2>1, <2>5, <2>6
<1>6. PICK Y : Y = {k \in x..y0 : DaysBeforeYear(k) <= N} OBVIOUS
<1>7. PICK a \in Int, b \in Int, c \in Int :
        a = DaysBeforeYear(z) /\ b = DaysBeforeYear(y0) /\ c = DaysBeforeYear(y0 + 1) /\ a + 365 <= b
  <2>1. z + 1 = y0 BY <1>4
  <2>2. DaysBeforeYear(z) \in Int /\ DaysBeforeYear(y0) \in Int /\ DaysBeforeYear(y0 + 1) \in Int
        /\ DaysBeforeYear(z + 1) = DaysBeforeYear(z) + 365 + (IF Leap(z) THEN 1 ELSE 0)
    BY <1>4, YearStarts
  <2>3. DaysBeforeYear(z) + 365 <= DaysBeforeYear(y0) BY <2>1, <2>2
  <2> QED BY <2>2, <2>3
<1>8. z \in Y
  <2>1. a <= N /\ z \in x..y0 BY <1>2, <1>3, <1>4, <1>7
  <2> QED BY <1>6, <1>7, <2>1
<1>9. IsFiniteSet(Y) /\ \A k \in Y : k \in Int
  <2>1. IsFiniteSet(x..y0) BY FS_Interval
  <2>2. Y \in SUBSET (x..y0) BY <1>6
  <2> QED BY <1>6, <2>1, <2>2, FS_Subset
<1>10. PICK y \in Y : y = Max(Y) /\ \A k \in Y : k <= y BY <1>8, <1>9, MaxIs
<1>11. y \in Int /\ x <= y /\ y <= y0 /\ DaysBeforeYear(y) <= N BY <1>6, <1>9, <1>10
<1>12. N < DaysBeforeYear(y + 1)
  <2>0. PICK w \in Int : w = y + 1 BY <1>11
  <2>1. DaysBeforeYear(w) \in Int BY YearStarts
  <2>2. CASE y < y0
    <3>1. w \in x..y0 /\ w \notin Y BY <1>10, <1>11, <2>0, <2>2
    <3>2. ~(DaysBeforeYear(w) <= N) BY <1>6, <3>1
    <3> QED BY <2>0, <2>1, <3>2
  <2>3. CASE y = y0 BY <1>3, <1>4, <1>7, <2>3
  <2> QED BY <1>11, <2>2, <2>3
<1>13. PICK D \in Int : D = DaysBeforeYear(y) BY <1>11, YearStarts
<1>14. PICK q \in Nat : q = N - D BY <1>11, <1>13
<1>15. D + q = N BY <1>13, <1>14
<1>16. PICK f : f = plus_days(e, -1) OBVIOUS
<1>17. f = OfYear(y, q) BY <1>5, <1>6, <1>10, <1>13, <1>14, <1>16 DEF OfOrdinal
<1>18. IsDate(f) /\ ordinal(f) = o - 1
  <2>1. DaysBeforeYear(y) + q < DaysBeforeYear(y + 1) BY <1>12, <1>13, <1>15
  <2>2. IsDate(OfYear(y, q)) /\ ordinal(OfYear(y, q)) = DaysBeforeYear(y) + q BY <1>11, <2>1, OfYearIs
  <2> QED BY <1>4, <1>13, <1>15, <1>17, <2>2
<1>19. f \in Int BY <1>18, DatesGrow
<1>20. PICK i \in Int : i = ordinal(d) BY DateIs
<1>21. i < o BY <1>2, <1>20, DatesGrow
<1>22. i <= ordinal(f) BY <1>18, <1>21
<1>23. d <= f BY <1>18, <1>20, <1>22, DatesGrow
<1> QED BY <1>16, <1>19, <1>23

(* What is of no bill in a month is out of the ordinary.                     *)
LEMMA OthersOfMonth ==
  ASSUME SteadyInv, NEW k \in Int, NEW h, IsHead(k, h)
  PROVE  OthersIn(k, h) \subseteq OneOffs(MonthDay(k, 1), MonthDay(k, 31))
<1>1. rows \subseteq bank /\ \A r \in rows : r.on \in Int
  BY DEF SteadyInv, BillsInv, HInv, Booked, Postings
<1>2. SUFFICES ASSUME NEW r \in OthersIn(k, h) PROVE r \in OneOffs(MonthDay(k, 1), MonthDay(k, 31))
  OBVIOUS
<1>3. /\ r \in rows /\ r.amount < 0 /\ r.id \notin excluded /\ MonthDay(k, 1) <= r.on /\ r.on <= UpTo(k, h)
      /\ \A b \in home.bills : r.text # b.text
  BY DEF OthersIn, SpentIn, Spent
<1>4. PICK u, e : u = UpTo(k, h) /\ e = UpTo(k, 0) OBVIOUS
<1>5. /\ IsDate(u) /\ MonthIndex(u) = k /\ day(u) = (IF h = 0 THEN MonthLength(k) ELSE h)
      /\ IsDate(e) /\ MonthIndex(e) = k /\ day(e) = MonthLength(k) /\ MonthLength(k) \in 28..31
  BY <1>4, HeadEnds DEF IsHead
<1>6. day(u) <= day(e) BY <1>5 DEF IsHead
<1>7. u <= e /\ u \in Int /\ e \in Int BY <1>5, <1>6, DaysInOrder
<1>8. r.on <= e BY <1>1, <1>3, <1>4, <1>7
<1>9. e = MonthDay(k, 31) BY <1>4 DEF UpTo
<1> QED BY <1>1, <1>3, <1>8, <1>9 DEF OneOffs

(* ... and in the months before it.                                          *)
LEMMA OthersAreOneOffs ==
  ASSUME SteadyInv, NEW k, NEW h, Full(k, h)
  PROVE  /\ OthersIn(k, h) \subseteq OneOffs(MonthDay(k, 1), MonthDay(k, 31))
         /\ OthersBefore(k, h) \subseteq OneOffs(MonthDay(k - 3, 1), plus_days(MonthDay(k, 1), -1))
<1>1. rows \subseteq bank /\ \A r \in rows : r.on \in Int
  BY DEF SteadyInv, BillsInv, HInv, Booked, Postings
<1>2. k \in Int BY DEF Full
<1>3. \A j \in 1..4 : k - j + 1 \in Int /\ IsHead(k - j + 1, h) BY <1>2 DEF Full
<1>4. IsHead(k, h)
  <2>1. 1 \in 1..4 /\ k - 1 + 1 = k BY <1>2
  <2> QED BY <1>3, <2>1
<1>5. OthersIn(k, h) \subseteq OneOffs(MonthDay(k, 1), MonthDay(k, 31)) BY <1>2, <1>4, OthersOfMonth
<1>6. ASSUME NEW r \in OthersBefore(k, h)
      PROVE  r \in OneOffs(MonthDay(k - 3, 1), plus_days(MonthDay(k, 1), -1))
  <2>1. PICK j \in 2..4 : r \in SpentIn(k - j + 1, h) BY DEF OthersBefore, Before
  <2>2. \A b \in home.bills : r.text # b.text BY DEF OthersBefore
  <2>3. PICK i \in Int, l \in Int : i = k - j + 1 /\ l = k - 3 /\ l <= i /\ i < k BY <1>2
  <2>4. /\ r \in rows /\ r.amount < 0 /\ r.id \notin excluded /\ MonthDay(i, 1) <= r.on /\ r.on <= UpTo(i, h)
    BY <2>1, <2>3 DEF SpentIn, Spent
  <2>5. IsHead(i, h) /\ IsHead(l, 0) /\ IsHead(k, 0) BY <1>3, <2>3 DEF IsHead
  <2>6. PICK f, g, u, e : f = MonthDay(l, 1) /\ g = MonthDay(i, 1) /\ u = UpTo(i, h) /\ e = MonthDay(k, 1) OBVIOUS
  <2>7. /\ IsDate(f) /\ IsDate(g) /\ IsDate(u) /\ IsDate(e)
        /\ MonthIndex(f) = l /\ MonthIndex(g) = i /\ MonthIndex(u) = i /\ MonthIndex(e) = k
        /\ day(f) = 1 /\ day(g) = 1
        /\ f \in Int /\ g \in Int /\ u \in Int
    BY <1>2, <2>3, <2>5, <2>6, HeadEnds
  <2>8. f <= g
    <3>1. l < i => f < g BY <2>7, DaysInOrder
    <3>2. l = i => f = g BY <2>6
    <3> QED BY <2>3, <2>7, <3>1, <3>2
  <2>9. u < e BY <2>3, <2>7, DaysInOrder
  <2>10. PICK z : z = plus_days(e, -1) OBVIOUS
  <2>11. z \in Int /\ u <= z BY <2>7, <2>9, <2>10, DayBefore
  <2>12. f <= r.on /\ r.on <= z BY <1>1, <2>4, <2>6, <2>7, <2>8, <2>11
  <2> QED BY <1>1, <2>2, <2>3, <2>4, <2>6, <2>10, <2>12 DEF OneOffs
<1> QED BY <1>5, <1>6

(* All texts and categories, and those of a merchant or of a category.       *)
All == {<<x.text, x.category>> : x \in rows \cup home.bills}
KeyCut(x) == {w \in All : Merchant[w[1]] = x}
CategoryCut(c) == {w \in All : w[2] = c}

(* The rows, and bills, they cut.                                            *)
LEMMA Cuts ==
  /\ \A S \in SUBSET rows : Of(S, All) = S
  /\ \A Q \in SUBSET home.bills : Of(Q, All) = Q
  /\ \A x : \A S \in SUBSET rows : Of(S, KeyCut(x)) = {r \in S : Key(r) = x}
  /\ \A c : \A S \in SUBSET rows : Of(S, CategoryCut(c)) = {r \in S : r.category = c}
<1>1. \A r \in rows \cup home.bills : <<r.text, r.category>> \in All BY DEF All
<1>2. \A S \in SUBSET rows : Of(S, All) = S BY <1>1 DEF Of
<1>3. \A Q \in SUBSET home.bills : Of(Q, All) = Q BY <1>1 DEF Of
<1>4. ASSUME NEW S \in SUBSET rows, NEW x PROVE Of(S, KeyCut(x)) = {r \in S : Key(r) = x}
  <2>1. \A r \in S : <<r.text, r.category>> \in KeyCut(x) <=> Key(r) = x BY <1>1 DEF KeyCut, Key
  <2> QED BY <2>1 DEF Of
<1>5. ASSUME NEW S \in SUBSET rows, NEW c PROVE Of(S, CategoryCut(c)) = {r \in S : r.category = c}
  <2>1. \A r \in S : <<r.text, r.category>> \in CategoryCut(c) <=> r.category = c BY <1>1 DEF CategoryCut
  <2> QED BY <2>1 DEF Of
<1> QED BY <1>2, <1>3, <1>4, <1>5

(* What the bills of all a month come to is enough to speak of.              *)
LEMMA WholeLoad ==
  ASSUME SteadyInv
  PROVE  Load(0, All) >= Minor(1000) /\ Minor(1000) \in Nat /\ Minor(1000) > 0
         /\ Minor(50) \in Nat /\ Minor(50) > 0
<1>1. BillsBy(0) = Spent(home.bills) BY DEF BillsBy, Spent
<1>2. Spent(home.bills) \in SUBSET home.bills BY DEF Spent
<1>3. Load(0, All) = Total(Spent(home.bills)) BY <1>1, <1>2, Cuts DEF Load
<1>4. PICK u \in Nat : u = 10^Exponent /\ u > 0 BY MinorUnitsCount
<1>5. Minor(1000) = 1000 * u /\ Minor(50) = 50 * u BY <1>4 DEF Minor
<1> QED BY <1>3, <1>4, <1>5 DEF SteadyInv, SteadyBills

(* Rows that come to something are some.                                     *)
LEMMA SomeRow ==
  ASSUME SteadyInv, NEW S \in SUBSET rows, NEW W, Total(Of(S, W)) > 0
  PROVE  \E r \in S : <<r.text, r.category>> \in W
<1>1. Rows(rows) BY FiledInTheVault DEF SteadyInv, BillsInv, FiledRows
<1>2. Total({}) = 0 BY <1>1, TotalsAdd
<1>3. Of(S, W) # {}
  <2> SUFFICES ASSUME Of(S, W) = {} PROVE FALSE OBVIOUS
  <2> QED BY <1>2
<1> QED BY <1>3 DEF Of

(* A month's spending against the mean of the three before it: the bills are *)
(* in both alike.                                                            *)
LEMMA MonthAgainstMean ==
  ASSUME SteadyInv, NEW k, NEW h, Full(k, h), NEW W
  PROVE  LET spend == Total(Of(SpentIn(k, h), W))
             base  == baseline_mean(Total(Of(Before(k, h), W)))
         IN /\ spend \in Nat /\ base \in Nat /\ Load(h, W) \in Nat
            /\ Load(h, W) <= spend /\ Load(h, W) <= base
            /\ spend > base => Total(Of(OthersIn(k, h), W)) > 0
            /\ spend < base => Total(Of(OthersBefore(k, h), W)) > 0
<1>1. k - 1 + 1 = k /\ 1 \in 1..4 BY DEF Full
<1>2. PICK s, m, L, o, q :
        /\ s = Total(Of(SpentIn(k, h), W)) /\ m = Total(Of(Before(k, h), W)) /\ L = Load(h, W)
        /\ o = Total(Of(OthersIn(k, h), W)) /\ q = Total(Of(OthersBefore(k, h), W))
  OBVIOUS
<1>3. s = L + o /\ L \in Nat /\ o \in Nat /\ m = 3 * L + q /\ q \in Nat
  <2>1. /\ Total(Of(SpentIn(k - 1 + 1, h), W)) = Load(h, W) + Total(Of(OthersIn(k - 1 + 1, h), W))
        /\ Total(Of(OthersIn(k - 1 + 1, h), W)) \in Nat
    BY <1>1, FullMonths
  <2>2. /\ Load(h, W) \in Nat
        /\ Total(Of(Before(k, h), W)) = 3 * Load(h, W) + Total(Of(OthersBefore(k, h), W))
        /\ Total(Of(OthersBefore(k, h), W)) \in Nat
    BY FullMonths
  <2> QED BY <1>1, <1>2, <2>1, <2>2
<1>4. PICK e : e = baseline_mean(m) OBVIOUS
<1>5. e = (m + 1) \div 3
  <2>1. 3 \div 2 = 1 OBVIOUS
  <2> QED BY <1>4, <2>1 DEF baseline_mean, BaselineMonths
<1>6. PICK f \in Nat : f = (q + 1) \div 3 /\ (q = 0 => f = 0)
  <2>1. q \in Nat BY <1>3
  <2>2. PICK g : g = (q + 1) \div 3 OBVIOUS
  <2>3. g \in Int /\ 3 * g <= q + 1 /\ q + 1 < 3 * g + 3 BY ONLY <2>1, <2>2
  <2>4. g \in Nat /\ (q = 0 => g = 0) BY ONLY <2>1, <2>3
  <2> QED BY <2>2, <2>4
<1>7. e = L + f
  <2>1. L \in Nat /\ q \in Nat /\ m = 3 * L + q BY <1>3
  <2> QED BY ONLY <1>5, <1>6, <2>1
<1>8. s > e => o > 0 BY <1>3, <1>6, <1>7
<1>9. s < e => q > 0 BY <1>3, <1>6, <1>7
<1>10. s \in Nat /\ e \in Nat /\ L <= s /\ L <= e BY <1>3, <1>6, <1>7
<1> QED BY <1>2, <1>3, <1>4, <1>8, <1>9, <1>10

(* The mean of three months is an integer.                                   *)
LEMMA MeanIs == ASSUME NEW m \in Int PROVE baseline_mean(m) \in Int
<1>1. PICK g : g = (m + 1) \div 3 OBVIOUS
<1>2. g \in Int BY <1>1
<1>3. baseline_mean(m) = g
  <2>1. 3 \div 2 = 1 OBVIOUS
  <2> QED BY <1>1, <2>1 DEF baseline_mean, BaselineMonths
<1> QED BY <1>2, <1>3

(* A merchant named is one of the month's, which took more than its mean.    *)
LEMMA CandidateIs ==
  ASSUME SteadyInv, NEW S \in SUBSET rows, NEW B \in SUBSET rows, NEW c, c = candidate(S, B), c.excess > 0
  PROVE  Total({r \in S : Key(r) = c.key}) > baseline_mean(Total({r \in B : Key(r) = c.key}))
<1>1. Rows(rows) /\ \A r \in rows : r.text \in DOMAIN Merchant
  BY FiledInTheVault DEF SteadyInv, BillsInv, FiledRows, HInv, Booked, Postings
<1>2. PICK of : of = [T \in SUBSET rows |-> [x \in Int |-> {r \in T : Key(r) = x}]] OBVIOUS
<1>3. \A T \in SUBSET rows, x \in Int : of[T][x] = {r \in T : Key(r) = x} /\ Total(of[T][x]) \in Int
  <2> TAKE T \in SUBSET rows, x \in Int
  <2>1. of[T][x] = {r \in T : Key(r) = x} BY <1>2
  <2>2. of[T][x] \in SUBSET rows BY <2>1
  <2> QED BY <1>1, <2>1, <2>2, TotalsAdd
<1>4. PICK g : g = [x \in Int |-> Total(of[S][x]) - baseline_mean(Total(of[B][x]))] OBVIOUS
<1>5. \A x \in Int :
         /\ g[x] = Total({r \in S : Key(r) = x}) - baseline_mean(Total({r \in B : Key(r) = x}))
         /\ Total({r \in S : Key(r) = x}) \in Int
         /\ baseline_mean(Total({r \in B : Key(r) = x})) \in Int
  <2> TAKE x \in Int
  <2>1. Total(of[S][x]) \in Int /\ Total(of[B][x]) \in Int BY <1>3
  <2>2. baseline_mean(Total(of[B][x])) \in Int BY <2>1, MeanIs
  <2> QED BY <1>3, <1>4, <2>1, <2>2
<1>6. PICK keys : keys = {Key(r) : r \in S} OBVIOUS
<1>7. keys \subseteq Int BY <1>1, <1>6, KeysAreOrdered DEF Key
<1>8. IsFiniteSet(keys)
  <2>1. PICK f : f = [r \in S |-> Key(r)] OBVIOUS
  <2>2. IsFiniteSet(S) BY <1>1, FS_Subset DEF Rows
  <2>3. IsFiniteSet({f[r] : r \in DOMAIN f}) BY <2>1, <2>2, FiniteImage
  <2> QED BY <1>6, <2>1, <2>3
<1>9. PICK best : best = {x \in keys : g[x] > 0 /\ \A y \in {z \in keys : g[z] > 0} : g[x] >= g[y]} OBVIOUS
<1>10. \A x \in keys : Total({r \in S : Key(r) = x}) - baseline_mean(Total({r \in B : Key(r) = x})) = g[x]
  BY <1>5, <1>7
<1>11. c = IF best = {} THEN [key |-> None, excess |-> 0]
           ELSE [key |-> Min(best), excess |-> Total({r \in S : Key(r) = Min(best)})
                                  - baseline_mean(Total({r \in B : Key(r) = Min(best)}))]
  <2>1. {x \in keys : Total({r \in S : Key(r) = x}) - baseline_mean(Total({r \in B : Key(r) = x})) > 0}
          = {x \in keys : g[x] > 0}
    BY <1>10
  <2>2. PICK over : over = {x \in keys : g[x] > 0} OBVIOUS
  <2>3. {x \in over : \A y \in over :
            Total({r \in S : Key(r) = x}) - baseline_mean(Total({r \in B : Key(r) = x}))
              >= Total({r \in S : Key(r) = y}) - baseline_mean(Total({r \in B : Key(r) = y}))}
          = {x \in over : \A y \in over : g[x] >= g[y]}
    BY <1>10, <2>2
  <2>4. best = {x \in over : \A y \in over : g[x] >= g[y]} BY <1>9, <2>2
  <2>5. PICK ks, ov, be :
          /\ ks = {Key(r) : r \in S}
          /\ ov = {x \in ks : Total({r \in S : Key(r) = x}) - baseline_mean(Total({r \in B : Key(r) = x})) > 0}
          /\ be = {x \in ov : \A y \in ov :
                    Total({r \in S : Key(r) = x}) - baseline_mean(Total({r \in B : Key(r) = x}))
                      >= Total({r \in S : Key(r) = y}) - baseline_mean(Total({r \in B : Key(r) = y}))}
    OBVIOUS
  <2>6. candidate(S, B) = IF be = {} THEN [key |-> None, excess |-> 0]
           ELSE [key |-> Min(be), excess |-> Total({r \in S : Key(r) = Min(be)})
                                  - baseline_mean(Total({r \in B : Key(r) = Min(be)}))]
    BY <2>5 DEF candidate
  <2>7. ks = keys BY <1>6, <2>5
  <2>8. ov = over BY <2>1, <2>2, <2>5, <2>7
  <2>9. be = best BY <2>3, <2>4, <2>5, <2>8
  <2> QED BY <2>6, <2>9
<1>12. best # {} BY <1>11
<1>13. IsFiniteSet(best) /\ best \subseteq keys BY <1>8, <1>9, FS_Subset
<1>14. Min(best) \in best
  <2>1. \A x \in best : x \in Int BY <1>7, <1>13
  <2> QED BY <1>12, <1>13, <2>1, MinIs
<1>15. PICK x \in Int : x = Min(best) /\ g[x] > 0 BY <1>7, <1>9, <1>13, <1>14
<1>16. c.key = x BY <1>11, <1>12, <1>15
<1> QED BY <1>5, <1>15, <1>16

(* A month and the three before it are of rows of the vault.                 *)
LEMMA MonthsAreRows ==
  ASSUME SteadyInv, NEW k, NEW h
  PROVE  /\ SpentIn(k, h) \in SUBSET rows /\ Before(k, h) \in SUBSET rows
         /\ OthersIn(k, h) \in SUBSET rows /\ OthersBefore(k, h) \in SUBSET rows
         /\ Of(SpentIn(k, h), All) = SpentIn(k, h) /\ Of(Before(k, h), All) = Before(k, h)
<1>1. \A i : SpentIn(i, h) \in SUBSET rows BY DEF SpentIn, Spent
<1>2. SpentIn(k, h) \in SUBSET rows BY <1>1
<1>3. Before(k, h) \in SUBSET rows BY <1>1 DEF Before
<1>4. OthersIn(k, h) \in SUBSET rows BY <1>2 DEF OthersIn
<1>5. OthersBefore(k, h) \in SUBSET rows BY <1>3 DEF OthersBefore
<1> QED BY <1>2, <1>3, <1>4, <1>5, Cuts

(* Every month of a full one that is over took more than nothing.            *)
LEMMA NoneIsEmpty ==
  ASSUME SteadyInv, NEW k, Full(k, 0)
  PROVE  /\ Total(SpentIn(k, 0)) > 0
         /\ Cardinality(Priors(k, 0)) = 3
         /\ baseline_mean(Total(Before(k, 0))) >= Minor(1000)
<1>1. Load(0, All) >= Minor(1000) /\ Minor(1000) \in Nat /\ Minor(1000) > 0 BY WholeLoad
<1>2. Rows(rows) BY FiledInTheVault DEF SteadyInv, BillsInv, FiledRows
<1>3. k \in Int BY DEF Full
<1>4. ASSUME NEW j \in 2..4 PROVE SpentIn(k - j + 1, 0) # {}
  <2>1. PICK i : i = k - j + 1 OBVIOUS
  <2>2. j \in 1..4 OBVIOUS
  <2>3. /\ Total(Of(SpentIn(i, 0), All)) = Load(0, All) + Total(Of(OthersIn(i, 0), All))
        /\ Total(Of(OthersIn(i, 0), All)) \in Nat /\ Load(0, All) \in Nat
    BY <2>1, <2>2, FullMonths
  <2>4. Of(SpentIn(i, 0), All) = SpentIn(i, 0) BY MonthsAreRows
  <2>5. Total(SpentIn(i, 0)) > 0 BY <1>1, <2>3, <2>4
  <2>6. Total({}) = 0 BY <1>2, TotalsAdd
  <2> QED BY <2>1, <2>5, <2>6
<1>5. Priors(k, 0) = 2..4 BY <1>4 DEF Priors
<1>6. Cardinality(2..4) = 3
  <2>1. PICK a \in Int, b \in Int : a = 2 /\ b = 4 OBVIOUS
  <2>2. Cardinality(a..b) = IF a > b THEN 0 ELSE b - a + 1 BY ONLY a \in Int, b \in Int, FS_Interval
  <2>3. (IF a > b THEN 0 ELSE b - a + 1) = 3 BY <2>1
  <2>4. a..b = 2..4 BY <2>1
  <2> QED BY <2>2, <2>3, <2>4
<1>7. PICK s, e : s = Total(SpentIn(k, 0)) /\ e = baseline_mean(Total(Before(k, 0))) OBVIOUS
<1>8. s \in Nat /\ e \in Nat /\ Load(0, All) \in Nat /\ Load(0, All) <= s /\ Load(0, All) <= e
  BY <1>7, MonthAgainstMean, MonthsAreRows
<1>9. s > 0 /\ e >= Minor(1000) BY <1>1, <1>8
<1> QED BY <1>5, <1>6, <1>7, <1>9

(* What the summary says of a month all of which the vault has, and of the   *)
(* three before it, is so.                                                   *)
LEMMA SummaryMeans ==
  ASSUME SteadyInv, NEW mode \in {"current_month", "previous_month"},
         NEW prefs, prefs = [mode |-> mode, year |-> None, month |-> None],
         NEW says, says = month_summary(rows, excluded, prefs, Everything, today),
         NEW p, p = resolve_period(prefs, today),
         NEW from, from = month_bounds(MonthsBack(<<year(p[1]), month(p[1])>>, 4)[4])[1],
         home.start <= from
  PROVE  /\ says.verdict = "higher" => OneOffs(p[1], p[2]) # {}
         /\ says.verdict = "lower" => OneOffs(from, plus_days(p[1], -1)) # {}
         /\ says.cause # None => says.cause \in {Key(o) : o \in OneOffs(p[1], p[2])}
         /\ says.verdict = "silent" => mode = "current_month"
<1>1. IsDate(today) BY DEF SteadyInv, BillsInv, HInv, Calendars
<1>2. PICK k, h, days : k \in Int /\ SumsUp(mode, prefs, p, k, h, days) BY <1>1, SummaryIs
<1>3. Full(k, h) BY <1>2 DEF Full, SumsUp
<1>4. PICK S, B, c : S = SpentIn(k, h) /\ B = Before(k, h) /\ c = candidate(S, B) OBVIOUS
<1>5. S \in SUBSET rows /\ B \in SUBSET rows /\ Of(S, All) = S /\ Of(B, All) = B BY <1>4, MonthsAreRows
<1>6. PICK s, m, e, n :
        s = Total(S) /\ m = Total(B) /\ e = baseline_mean(m) /\ n = Cardinality(Priors(k, h))
  OBVIOUS
<1>7. /\ s \in Nat /\ e \in Nat
      /\ s > e => Total(Of(OthersIn(k, h), All)) > 0
      /\ s < e => Total(Of(OthersBefore(k, h), All)) > 0
  BY <1>3, <1>4, <1>5, <1>6, MonthAgainstMean
<1>8. PICK item : item = [partial |-> h # 0, started |-> TRUE, days |-> days, spend |-> s,
                          prior_total |-> m, prior_count |-> n, candidate |-> c]
  OBVIOUS
<1>9. says = summarise_month(item) BY <1>2, <1>4, <1>6, <1>8 DEF SumsUp
<1>10. /\ item.spend = s /\ item.prior_total = m /\ item.prior_count = n /\ item.candidate = c
       /\ item.partial = (h # 0) /\ item.started = TRUE
  BY <1>8
<1>11. /\ says.verdict \in {"higher", "lower"} =>
             says.verdict = verdict(s, e) /\ Material(s - e, e) /\ e >= Minor(1000)
       /\ says.cause # None => c.excess > 0 /\ says.cause = c.key
       /\ says.verdict = "silent" =>
             (n < 3 \/ e < Minor(1000) \/ h # 0 \/ s = 0)
  <2>1. PICK v : v = verdict(s, e) OBVIOUS
  <2>2. v \in {"higher", "lower", "normal"} /\ (v # "normal" => Material(s - e, e)) BY <2>1 DEF verdict
  <2>3. PICK hush \in BOOLEAN :
          hush <=> (n < 3 \/ e < Minor(1000) \/ (h # 0 /\ days < MinElapsedDays) \/ s = 0)
    OBVIOUS
  <2>4. /\ hush => says = [verdict |-> "silent", cause |-> None, spend |-> 0]
        /\ ~ hush => /\ says.verdict = v
                     /\ says.cause = IF v = "higher" /\ explains(c, s - e) THEN c.key ELSE None
    BY <1>6, <1>8, <1>9, <2>1, <2>3 DEF summarise_month, BaselineMonths
  <2>5. CASE hush
    <3>1. says.verdict = "silent" /\ says.cause = None BY <2>4, <2>5
    <3> QED BY <2>3, <2>5, <3>1
  <2>6. CASE ~ hush
    <3>1. says.verdict = v /\ says.cause = IF v = "higher" /\ explains(c, s - e) THEN c.key ELSE None
      BY <2>4, <2>6
    <3>2. ~ (e < Minor(1000)) BY <2>3, <2>6
    <3>3. e >= Minor(1000)
      <4>1. Minor(1000) \in Nat BY WholeLoad
      <4> QED BY <1>7, <3>2, <4>1
    <3>4. says.cause # None => c.excess > 0 /\ says.cause = c.key BY <3>1 DEF explains
    <3> QED BY <2>1, <2>2, <3>1, <3>3, <3>4
  <2> QED BY <2>5, <2>6
<1>12. /\ OthersIn(k, h) \subseteq OneOffs(p[1], p[2])
       /\ OthersBefore(k, h) \subseteq OneOffs(from, plus_days(p[1], -1))
  BY <1>2, <1>3, OthersAreOneOffs DEF SumsUp
<1>13. OthersIn(k, h) \in SUBSET rows /\ OthersBefore(k, h) \in SUBSET rows BY MonthsAreRows
<1>14. says.verdict = "higher" => OneOffs(p[1], p[2]) # {}
  <2> SUFFICES ASSUME says.verdict = "higher" PROVE OneOffs(p[1], p[2]) # {} OBVIOUS
  <2>1. s > e BY <1>11 DEF verdict
  <2>2. \E r \in OthersIn(k, h) : <<r.text, r.category>> \in All BY <1>7, <1>13, <2>1, SomeRow
  <2> QED BY <1>12, <2>2
<1>15. says.verdict = "lower" => OneOffs(from, plus_days(p[1], -1)) # {}
  <2> SUFFICES ASSUME says.verdict = "lower" PROVE OneOffs(from, plus_days(p[1], -1)) # {} OBVIOUS
  <2>1. ~ (s > e) /\ Material(s - e, e) /\ e >= Minor(1000) BY <1>11 DEF verdict
  <2>2. Minor(1000) \in Nat /\ Minor(1000) > 0 BY WholeLoad
  <2>3. s # e
    <3> SUFFICES ASSUME s = e PROVE FALSE OBVIOUS
    <3>1. s - e = 0 BY <1>7
    <3>2. 100 * 0 >= 10 * e BY <2>1, <3>1 DEF Material
    <3> QED BY <1>7, <2>1, <2>2, <3>2
  <2>4. s < e BY <1>7, <2>1, <2>3
  <2>5. \E r \in OthersBefore(k, h) : <<r.text, r.category>> \in All BY <1>7, <1>13, <2>4, SomeRow
  <2> QED BY <1>12, <2>5
<1>16. says.cause # None => says.cause \in {Key(o) : o \in OneOffs(p[1], p[2])}
  <2> SUFFICES ASSUME says.cause # None PROVE \E o \in OneOffs(p[1], p[2]) : Key(o) = says.cause OBVIOUS
  <2>1. PICK x : x = c.key OBVIOUS
  <2>2. c.excess > 0 /\ says.cause = x BY <1>11, <2>1
  <2>3. Total({r \in S : Key(r) = x}) > baseline_mean(Total({r \in B : Key(r) = x}))
    BY <1>4, <1>5, <2>1, <2>2, CandidateIs
  <2>4. PICK W : W = KeyCut(x) OBVIOUS
  <2>5. Of(S, W) = {r \in S : Key(r) = x} /\ Of(B, W) = {r \in B : Key(r) = x} BY <1>5, <2>4, Cuts
  <2>6. Total(Of(OthersIn(k, h), W)) > 0 BY <1>3, <1>4, <2>3, <2>5, MonthAgainstMean
  <2>7. PICK r \in OthersIn(k, h) : <<r.text, r.category>> \in W BY <1>13, <2>6, SomeRow
  <2>8. Key(r) = x BY <2>4, <2>7 DEF KeyCut, Key
  <2> QED BY <1>12, <2>2, <2>7, <2>8
<1>17. says.verdict = "silent" => mode = "current_month"
  <2> SUFFICES ASSUME says.verdict = "silent", mode = "previous_month" PROVE FALSE OBVIOUS
  <2>1. h = 0 BY <1>2 DEF SumsUp
  <2>2. s > 0 /\ n = 3 /\ e >= Minor(1000) BY <1>3, <1>4, <1>6, <2>1, NoneIsEmpty
  <2>3. Minor(1000) \in Nat BY WholeLoad
  <2> QED BY <1>7, <1>11, <2>1, <2>2, <2>3
<1> QED BY <1>14, <1>15, <1>16, <1>17

(* The months before month k that hold rows, and what they took of a cut.    *)
Held(k) ==
    {j \in 2..4 : \E r \in rows : MonthDay(k - j + 1, 1) <= r.on /\ r.on <= UpTo(k - j + 1, 0)}
HeldRows(k, W) == UNION {Of(SpentIn(k - j + 1, 0), W) : j \in Held(k)}

(* A month with a row up to its end is one the vault has from its first day. *)
LEMMA SinceTheStart ==
  ASSUME SteadyInv, NEW k \in Int, NEW r \in rows, r.on <= UpTo(k, 0)
  PROVE  home.start <= MonthDay(k, 1)
<1>1. home \in Households /\ rows \in SUBSET bank /\ r.on \in Int /\ home.start <= r.on
  BY DEF SteadyInv, BillsInv, HInv, Calendars, Booked, Postings
<1>2. PICK s : s = home.start OBVIOUS
<1>3. IsDate(s) /\ s \in Int /\ day(s) = 1
  BY <1>1, <1>2, HouseholdsAreWhole, Ends DEF SteadyInv, SteadyBills
<1>4. PICK f, u : f = MonthDay(k, 1) /\ u = UpTo(k, 0) OBVIOUS
<1>5. /\ IsDate(f) /\ MonthIndex(f) = k /\ f \in Int /\ day(f) = 1
      /\ IsDate(u) /\ MonthIndex(u) = k /\ u \in Int
  BY <1>4, HeadEnds DEF IsHead
<1>6. s <= u BY <1>1, <1>2, <1>3, <1>4, <1>5
<1>7. MonthIndex(s) \in Int /\ ~ (k < MonthIndex(s))
  <2>1. MonthIndex(s) \in Int BY <1>3, <1>5, DaysInOrder
  <2>2. k < MonthIndex(s) => u < s BY <1>3, <1>5, DaysInOrder
  <2> QED BY <1>3, <1>5, <1>6, <2>1, <2>2
<1>8. s <= f
  <2>1. MonthIndex(s) < k => s < f BY <1>3, <1>5, DaysInOrder
  <2>2. MonthIndex(s) = k => s <= f BY <1>3, <1>5, DaysInOrder
  <2> QED BY <1>3, <1>5, <1>7, <2>1, <2>2
<1> QED BY <1>2, <1>4, <1>8

(* A month before this one is over.                                          *)
LEMMA OverBefore ==
  ASSUME IsDate(today), NEW k \in Int, k < MonthIndex(today)
  PROVE  UpTo(k, 0) <= today
<1>1. PICK u : u = UpTo(k, 0) OBVIOUS
<1>2. IsDate(u) /\ MonthIndex(u) = k BY <1>1, HeadEnds DEF IsHead
<1>3. u < today /\ u \in Int /\ today \in Int BY <1>2, DaysInOrder
<1> QED BY <1>1, <1>3

(* One more in a set, or not, is one more to its number, or not.             *)
LEMMA OneMore ==
  ASSUME NEW S, IsFiniteSet(S), NEW j, j \notin S, NEW B \in BOOLEAN
  PROVE  LET T == IF B THEN S \cup {j} ELSE S
         IN IsFiniteSet(T) /\ Cardinality(T) = Cardinality(S) + (IF B THEN 1 ELSE 0)
<1>1. Cardinality(S) \in Nat BY FS_CardinalityType
<1>2. CASE B BY <1>2, FS_AddElement
<1>3. CASE ~ B BY <1>1, <1>3
<1> QED BY <1>2, <1>3

(* Of three numbers, how many are in a set of them.                          *)
LEMMA OfThree ==
  ASSUME NEW H \in SUBSET (2..4)
  PROVE  Cardinality(H) = (IF 2 \in H THEN 1 ELSE 0) + (IF 3 \in H THEN 1 ELSE 0)
                            + (IF 4 \in H THEN 1 ELSE 0)
<1>1. PICK a, b, c : a = 2 /\ b = 3 /\ c = 4 OBVIOUS
<1>2. PICK A, B, C : /\ A = IF a \in H THEN {} \cup {a} ELSE {}
                     /\ B = IF b \in H THEN A \cup {b} ELSE A
                     /\ C = IF c \in H THEN B \cup {c} ELSE B
  OBVIOUS
<1>3. IsFiniteSet(A) /\ Cardinality(A) = 0 + (IF a \in H THEN 1 ELSE 0)
  <2>1. IsFiniteSet({}) /\ Cardinality({}) = 0 BY FS_EmptySet
  <2>2. a \notin {} /\ (a \in H) \in BOOLEAN OBVIOUS
  <2> QED BY ONLY <1>2, <2>1, <2>2, OneMore
<1>4. IsFiniteSet(B) /\ Cardinality(B) = Cardinality(A) + (IF b \in H THEN 1 ELSE 0)
  <2>1. b \notin A /\ (b \in H) \in BOOLEAN BY <1>1, <1>2
  <2> QED BY ONLY <1>2, <1>3, <2>1, OneMore
<1>5. IsFiniteSet(C) /\ Cardinality(C) = Cardinality(B) + (IF c \in H THEN 1 ELSE 0)
  <2>1. c \notin B /\ (c \in H) \in BOOLEAN BY <1>1, <1>2
  <2> QED BY ONLY <1>2, <1>4, <2>1, OneMore
<1>6. C = H
  <2>1. \A x \in H : x = a \/ x = b \/ x = c BY <1>1
  <2> QED BY <1>2, <2>1
<1> QED BY <1>1, <1>3, <1>4, <1>5, <1>6

(* Each of the months that hold rows took the bills' share of a cut; if any  *)
(* does, the month after them took it too, and the rest of its own.          *)
LEMMA HeldMonths ==
  ASSUME SteadyInv, NEW k \in Int, k < MonthIndex(today), NEW W
  PROVE  /\ \A j \in Held(k) : /\ Total(Of(SpentIn(k - j + 1, 0), W)) \in Nat
                               /\ Load(0, W) <= Total(Of(SpentIn(k - j + 1, 0), W))
         /\ Held(k) # {} => /\ Total(Of(SpentIn(k, 0), W)) = Load(0, W) + Total(Of(OthersIn(k, 0), W))
                            /\ Load(0, W) \in Nat /\ Total(Of(OthersIn(k, 0), W)) \in Nat
<1>1. /\ home \in Households /\ IsDate(today) /\ today \in Int /\ MonthIndex(today) \in Int
      /\ home.start \in Int
  <2>1. home \in Households /\ IsDate(today) BY DEF SteadyInv, BillsInv, HInv, Calendars
  <2>2. today \in Int /\ MonthIndex(today) \in Int BY <2>1, DaysInOrder
  <2> QED BY <2>1, <2>2, Ends
<1>2. ASSUME NEW j \in Held(k)
      PROVE  /\ k - j + 1 \in Int /\ k - j + 1 < k /\ home.start <= MonthDay(k - j + 1, 1)
             /\ UpTo(k - j + 1, 0) <= today
  <2>1. PICK i \in Int : i = k - j + 1 /\ i < k BY DEF Held
  <2>2. PICK r \in rows : r.on <= UpTo(i, 0) BY <2>1 DEF Held
  <2>3. home.start <= MonthDay(i, 1) BY <2>1, <2>2, SinceTheStart
  <2>4. UpTo(i, 0) <= today BY <1>1, <2>1, OverBefore
  <2> QED BY <2>1, <2>3, <2>4
<1>3. \A i : IsHead(i, 0) BY DEF IsHead
<1>4. ASSUME NEW j \in Held(k)
      PROVE  /\ Total(Of(SpentIn(k - j + 1, 0), W)) \in Nat
             /\ Load(0, W) <= Total(Of(SpentIn(k - j + 1, 0), W))
  <2>1. PICK i \in Int : i = k - j + 1 BY <1>2
  <2>2. home.start <= MonthDay(i, 1) /\ UpTo(i, 0) <= today BY <1>2, <2>1
  <2>3. /\ Total(Of(SpentIn(i, 0), W)) = Load(0, W) + Total(Of(OthersIn(i, 0), W))
        /\ Load(0, W) \in Nat /\ Total(Of(OthersIn(i, 0), W)) \in Nat
    BY <1>3, <2>2, MonthTotal
  <2> QED BY <2>1, <2>3
<1>5. ASSUME Held(k) # {}
      PROVE  /\ Total(Of(SpentIn(k, 0), W)) = Load(0, W) + Total(Of(OthersIn(k, 0), W))
             /\ Load(0, W) \in Nat /\ Total(Of(OthersIn(k, 0), W)) \in Nat
  <2>1. PICK j \in Held(k) : TRUE BY <1>5
  <2>2. PICK i \in Int : i = k - j + 1 /\ i < k /\ home.start <= MonthDay(i, 1) BY <1>2
  <2>3. PICK f, g : f = MonthDay(i, 1) /\ g = MonthDay(k, 1) OBVIOUS
  <2>4. /\ IsDate(f) /\ MonthIndex(f) = i /\ f \in Int
        /\ IsDate(g) /\ MonthIndex(g) = k /\ g \in Int
    BY <1>3, <2>3, HeadEnds
  <2>5. f < g BY <2>2, <2>4, DaysInOrder
  <2>6. home.start <= g BY <1>1, <2>2, <2>3, <2>4, <2>5
  <2>7. UpTo(k, 0) <= today BY <1>1, OverBefore
  <2> QED BY <1>3, <2>3, <2>6, <2>7, MonthTotal
<1> QED BY <1>4, <1>5

(* So all of them together took it as many times as they are.                *)
LEMMA HeldTotal ==
  ASSUME SteadyInv, NEW k \in Int, k < MonthIndex(today), NEW W
  PROVE  LET P == Total(HeldRows(k, W)) IN LET n == Cardinality(Held(k)) IN
         /\ P \in Nat /\ n \in 0..3 /\ (n = 0 => Held(k) = {})
         /\ n = 1 => Load(0, W) <= P
         /\ n = 2 => 2 * Load(0, W) <= P
         /\ n = 3 => 3 * Load(0, W) <= P
<1>1. Rows(rows) BY FiledInTheVault DEF SteadyInv, BillsInv, FiledRows
<1>2. PICK T : T = [j \in 2..4 |-> IF j \in Held(k) THEN Of(SpentIn(k - j + 1, 0), W) ELSE {}] OBVIOUS
<1>3. \A j \in 2..4 : T[j] \in SUBSET rows /\ T[j] \in SUBSET SpentIn(k - j + 1, 0)
  BY <1>2 DEF Of, SpentIn, Spent
<1>4. ASSUME NEW i \in 2..4, NEW j \in 2..4, i < j PROVE T[i] \cap T[j] = {}
  <2>1. PICK a \in Int, b \in Int : a = k - j + 1 /\ b = k - i + 1 /\ a < b BY <1>4
  <2>2. IsHead(a, 0) /\ IsHead(b, 0) BY DEF IsHead
  <2>3. SpentIn(a, 0) \cap SpentIn(b, 0) = {} BY <2>1, <2>2, MonthsDiffer
  <2>4. T[i] \subseteq SpentIn(b, 0) /\ T[j] \subseteq SpentIn(a, 0) BY <1>3, <2>1
  <2> QED BY <2>3, <2>4
<1>5. PICK A, B, C : A = T[2] /\ B = T[3] /\ C = T[4] OBVIOUS
<1>6. /\ A \in SUBSET rows /\ B \in SUBSET rows /\ C \in SUBSET rows
      /\ A \cap B = {} /\ A \cap C = {} /\ B \cap C = {}
  <2>1. A \cap B = {} BY <1>4, <1>5
  <2>2. A \cap C = {} BY <1>4, <1>5
  <2>3. B \cap C = {} BY <1>4, <1>5
  <2> QED BY <1>3, <1>5, <2>1, <2>2, <2>3
<1>7. HeldRows(k, W) = A \cup B \cup C
  <2>1. Held(k) \subseteq 2..4 BY DEF Held
  <2>2. HeldRows(k, W) = UNION {T[j] : j \in Held(k)} BY <1>2, <2>1 DEF HeldRows
  <2>3. \A j \in 2..4 : j \notin Held(k) => T[j] = {} BY <1>2
  <2>4. UNION {T[j] : j \in Held(k)} = UNION {T[j] : j \in 2..4} BY <2>1, <2>3
  <2>5. \A j \in 2..4 : j = 2 \/ j = 3 \/ j = 4 OBVIOUS
  <2>6. 2 \in 2..4 /\ 3 \in 2..4 /\ 4 \in 2..4 OBVIOUS
  <2>7. UNION {T[j] : j \in 2..4} = A \cup B \cup C BY <1>5, <2>5, <2>6
  <2> QED BY <2>2, <2>4, <2>7
<1>8. PICK L, P, x, y, z : /\ L = Load(0, W) /\ P = Total(HeldRows(k, W))
                           /\ x = Total(A) /\ y = Total(B) /\ z = Total(C)
  OBVIOUS
<1>9. P = x + y + z BY <1>1, <1>6, <1>7, <1>8, ThreeAdd
<1>10. x \in Nat /\ y \in Nat /\ z \in Nat BY <1>1, <1>6, <1>8, TotalsAdd
<1>11. \A j \in Held(k) : L <= Total(T[j])
  <2> TAKE j \in Held(k)
  <2>1. T[j] = Of(SpentIn(k - j + 1, 0), W) BY <1>2 DEF Held
  <2> QED BY <1>8, <2>1, HeldMonths
<1>12. (2 \in Held(k) => L <= x) /\ (3 \in Held(k) => L <= y) /\ (4 \in Held(k) => L <= z)
  BY <1>5, <1>8, <1>11
<1>13. PICK n : n = Cardinality(Held(k)) OBVIOUS
<1>14. n = (IF 2 \in Held(k) THEN 1 ELSE 0) + (IF 3 \in Held(k) THEN 1 ELSE 0)
             + (IF 4 \in Held(k) THEN 1 ELSE 0)
  <2>1. Held(k) \in SUBSET (2..4) BY DEF Held
  <2> QED BY <1>13, <2>1, OfThree
<1>15. Held(k) # {} => L \in Nat BY <1>8, HeldMonths
<1>16. n \in 0..3 BY <1>14
<1>17. n = 0 => Held(k) = {}
  <2>1. \A j \in Held(k) : j = 2 \/ j = 3 \/ j = 4 BY DEF Held
  <2> QED BY <1>14, <2>1
<1>18. (n = 1 => L <= P) /\ (n = 2 => 2 * L <= P) /\ (n = 3 => 3 * L <= P)
  <2>1. CASE n = 0 BY <2>1
  <2>2. CASE n # 0
    <3>1. L \in Nat BY <1>14, <1>15, <2>2
    <3> QED BY <1>9, <1>10, <1>12, <1>14, <3>1
  <2> QED BY <2>1, <2>2
<1> QED BY <1>8, <1>9, <1>10, <1>13, <1>16, <1>17, <1>18

(* What the spike alert looks at, of a category.                             *)
Input(k, c) ==
    [category |-> c, current |-> Total(Of(SpentIn(k, 0), CategoryCut(c))),
     prior_total |-> Total(HeldRows(k, CategoryCut(c))), prior_count |-> Cardinality(Held(k))]

(* It is of that alone.                                                      *)
LEMMA InputsAre ==
  ASSUME NEW k \in Int, NEW i \in spike_inputs(rows, excluded, YM(k))
  PROVE  \E c \in Categories : i = Input(k, c)
<1>1. PICK months : months = MonthsBack(YM(k), 4) OBVIOUS
<1>2. \A j \in 1..4 : months[j] = YM(k - j + 1)
  <2>1. PICK d : d = MonthDay(k, 1) OBVIOUS
  <2>2. IsDate(d) /\ MonthIndex(d) = k BY <2>1, HeadEnds DEF IsHead
  <2>3. PICK n \in Nat : n = 4 OBVIOUS
  <2>4. <<year(d), month(d)>> = YM(k) BY <2>2, <2>3, MonthsBackAre
  <2>5. \A j \in 1..n : MonthsBack(<<year(d), month(d)>>, n)[j] = YM(k - j + 1)
    BY <2>2, MonthsBackAre
  <2> QED BY <1>1, <2>3, <2>4, <2>5
<1>3. \A j \in 1..4 : month_bounds(months[j]) = <<MonthDay(k - j + 1, 1), UpTo(k - j + 1, 0)>>
  <2> TAKE j \in 1..4
  <2>1. k - j + 1 \in Int OBVIOUS
  <2> QED BY <1>2, <2>1, MonthNumber DEF UpTo
<1> DEFINE ms == MonthsBack(YM(k), SpikeWindow + 1)
           all(j) == rows_in_range(rows, month_bounds(ms[j])[1], month_bounds(ms[j])[2], Everything)
           under(j, c) == {r \in Spent(all(j)) : r.id \notin excluded /\ r.category = c}
           held == {j \in 2..(SpikeWindow + 1) : all(j) # {}}
           used == {c \in Categories : \E j \in 1..(SpikeWindow + 1) : under(j, c) # {}}
<1>4. PICK c \in Categories :
        i = [category |-> c, current |-> Total(under(1, c)),
             prior_total |-> Total(UNION {under(j, c) : j \in held}),
             prior_count |-> Cardinality(held)]
  <2>1. i \in {[category |-> c, current |-> Total(under(1, c)),
                prior_total |-> Total(UNION {under(j, c) : j \in held}),
                prior_count |-> Cardinality(held)] : c \in used}
    BY DEF spike_inputs
  <2> HIDE DEF under, held, all, ms
  <2> QED BY <2>1
<1>5. ms = months BY <1>1 DEF SpikeWindow
<1>6. \A j \in 1..4 : all(j) = {r \in rows : MonthDay(k - j + 1, 1) <= r.on /\ r.on <= UpTo(k - j + 1, 0)}
  <2> HIDE DEF ms
  <2> QED BY <1>3, <1>5 DEF rows_in_range
<1>7. \A j \in 1..4 : under(j, c) = Of(SpentIn(k - j + 1, 0), CategoryCut(c))
  <2> TAKE j \in 1..4
  <2>1. under(j, c) = {r \in SpentIn(k - j + 1, 0) : r.category = c}
    <3> HIDE DEF all
    <3> QED BY <1>6 DEF Spent, SpentIn
  <2>2. SpentIn(k - j + 1, 0) \in SUBSET rows BY DEF SpentIn, Spent
  <2> HIDE DEF under
  <2> QED BY <2>1, <2>2, Cuts
<1>8. held = Held(k)
  <2> HIDE DEF all
  <2>1. SpikeWindow + 1 = 4 BY DEF SpikeWindow
  <2>2. \A j \in 2..4 : all(j) # {} <=> \E r \in rows : MonthDay(k - j + 1, 1) <= r.on /\ r.on <= UpTo(k - j + 1, 0)
    BY <1>6
  <2> QED BY <2>1, <2>2 DEF Held
<1>9. UNION {under(j, c) : j \in held} = HeldRows(k, CategoryCut(c))
  <2>1. \A j \in Held(k) : under(j, c) = Of(SpentIn(k - j + 1, 0), CategoryCut(c)) BY <1>7 DEF Held
  <2> HIDE DEF under, held
  <2> QED BY <1>8, <2>1 DEF HeldRows
<1>10. under(1, c) = Of(SpentIn(k, 0), CategoryCut(c))
  <2>1. 1 \in 1..4 /\ k - 1 + 1 = k OBVIOUS
  <2> HIDE DEF under
  <2> QED BY <1>7, <2>1
<1> HIDE DEF under, held
<1> QED BY <1>4, <1>8, <1>9, <1>10 DEF Input

(* Of up to three numbers, their mean is not below what each is.             *)
LEMMA MeanAtLeast ==
  ASSUME NEW P \in Nat, NEW L \in Nat, NEW n \in 1..3,
         n = 1 => L <= P, n = 2 => 2 * L <= P, n = 3 => 3 * L <= P
  PROVE  (P + n \div 2) \div n \in Nat /\ L <= (P + n \div 2) \div n
<1>1. CASE n = 1
  <2>1. PICK g : g = (P + 0) \div 1 OBVIOUS
  <2>2. 1 \div 2 = 0 OBVIOUS
  <2>3. g = P BY <2>1
  <2> QED BY <1>1, <2>1, <2>2, <2>3
<1>2. CASE n = 2
  <2>1. PICK g : g = (P + 1) \div 2 OBVIOUS
  <2>2. 2 \div 2 = 1 OBVIOUS
  <2>3. g \in Int /\ 2 * g <= P + 1 /\ P + 1 < 2 * g + 2 BY <2>1
  <2>4. 2 * L <= P BY <1>2
  <2>5. g \in Nat /\ L <= g BY <2>3, <2>4
  <2> QED BY <1>2, <2>1, <2>2, <2>5
<1>3. CASE n = 3
  <2>1. PICK g : g = (P + 1) \div 3 OBVIOUS
  <2>2. 3 \div 2 = 1 OBVIOUS
  <2>3. g \in Int /\ 3 * g <= P + 1 /\ P + 1 < 3 * g + 3 BY <2>1
  <2>4. 3 * L <= P BY <1>3
  <2>5. g \in Nat /\ L <= g BY <2>3, <2>4
  <2> QED BY <1>3, <2>1, <2>2, <2>5
<1> QED BY <1>1, <1>2, <1>3

(* A category spikes only when something was bought under it.                *)
LEMMA SpikesMean ==
  ASSUME SteadyInv, NEW a \in shown_alerts, a.kind = "category_spike"
  PROVE  LET b == month_bounds(a.key[2])
         IN \E o \in OneOffs(b[1], b[2]) : o.category = a.key[1]
<1>1. IsDate(today) BY DEF SteadyInv, BillsInv, HInv, Calendars
<1>2. PICK t \in Int, k \in Int : t = MonthIndex(today) /\ k = t - 1
  <2>1. PICK t \in Int : t = MonthIndex(today) BY <1>1, MonthOf
  <2> QED BY <2>1
<1>3. PICK ym : ym = prev_month(<<year(today), month(today)>>) OBVIOUS
<1>4. ym = YM(k)
  <2>1. 4 \in Nat OBVIOUS
  <2>2. <<year(today), month(today)>> = YM(t) BY <1>1, <1>2, <2>1, MonthsBackAre
  <2> QED BY <1>2, <1>3, <2>2, MonthNumber
<1>5. PICK N, M : N = detect_new_recurring(found.suggested) /\ M = detect_missed_debits(found.confirmed, today)
  OBVIOUS
<1>6. a \in N \cup detect_category_spikes(spike_inputs(rows, excluded, ym), ym) \cup M
  BY <1>3, <1>5 DEF shown_alerts, alerts, found
<1>7. \A x \in N : x.kind = "new_recurring"
  <2> TAKE x \in N
  <2>1. PICK i : x = [kind |-> "new_recurring", key |-> <<i.key>>, amount |-> i.amount]
    BY <1>5 DEF detect_new_recurring
  <2> QED BY <2>1
<1>8. \A x \in M : x.kind = "missed_debit"
  <2> TAKE x \in M
  <2>1. PICK i : x = [kind |-> "missed_debit", key |-> <<i.key, i.next_expected>>, amount |-> i.amount]
    BY <1>5 DEF detect_missed_debits
  <2> QED BY <2>1
<1>9. a \in detect_category_spikes(spike_inputs(rows, excluded, ym), ym) BY <1>6, <1>7, <1>8
<1>10. PICK i \in spike_inputs(rows, excluded, ym) :
         /\ i.prior_count > 0
         /\ i.current >= 2 * ((i.prior_total + i.prior_count \div 2) \div i.prior_count)
         /\ (i.prior_total + i.prior_count \div 2) \div i.prior_count >= Minor(50)
         /\ a = [kind |-> "category_spike", key |-> <<i.category, ym>>, amount |-> i.current]
  BY <1>9 DEF detect_category_spikes, SpikeFactor
<1>11. PICK c \in Categories : i = Input(k, c) BY <1>4, InputsAre
<1>12. PICK W : W = CategoryCut(c) OBVIOUS
<1>13. PICK s, P, n, L, o :
         /\ s = Total(Of(SpentIn(k, 0), W)) /\ P = Total(HeldRows(k, W)) /\ n = Cardinality(Held(k))
         /\ L = Load(0, W) /\ o = Total(Of(OthersIn(k, 0), W))
  OBVIOUS
<1>14. i.category = c /\ i.current = s /\ i.prior_total = P /\ i.prior_count = n
  BY <1>11, <1>12, <1>13 DEF Input
<1>15. k < MonthIndex(today) BY <1>2
<1>16. /\ P \in Nat /\ n \in 1..3 /\ Held(k) # {}
       /\ (n = 1 => L <= P) /\ (n = 2 => 2 * L <= P) /\ (n = 3 => 3 * L <= P)
  <2>1. n > 0 BY <1>10, <1>14
  <2>2. n \in 0..3 BY <1>13, <1>15, HeldTotal
  <2>3. n \in 1..3 BY <2>1, <2>2
  <2>4. Held(k) # {}
    <3>1. Cardinality({}) = 0 BY FS_EmptySet
    <3> QED BY <1>13, <2>1, <3>1
  <2>5. P \in Nat /\ (n = 1 => L <= P) /\ (n = 2 => 2 * L <= P) /\ (n = 3 => 3 * L <= P)
    BY <1>13, <1>15, HeldTotal
  <2> QED BY <2>3, <2>4, <2>5
<1>17. s = L + o /\ L \in Nat /\ o \in Nat BY <1>13, <1>15, <1>16, HeldMonths
<1>18. PICK g : g = (P + n \div 2) \div n OBVIOUS
<1>19. g \in Nat /\ L <= g BY <1>16, <1>17, <1>18, MeanAtLeast
<1>20. s >= 2 * g /\ g >= Minor(50) BY <1>10, <1>14, <1>18
<1>21. o > 0
  <2>1. Minor(50) \in Nat /\ Minor(50) > 0 BY WholeLoad
  <2> QED BY <1>17, <1>19, <1>20, <2>1
<1>22. OthersIn(k, 0) \in SUBSET rows BY MonthsAreRows
<1>23. PICK r \in OthersIn(k, 0) : <<r.text, r.category>> \in W BY <1>13, <1>21, <1>22, SomeRow
<1>24. r.category = c BY <1>12, <1>23 DEF CategoryCut
<1>25. r \in OneOffs(MonthDay(k, 1), MonthDay(k, 31)) BY <1>23, OthersOfMonth DEF IsHead
<1>26. a.key = <<c, ym>> BY <1>10, <1>14
<1>27. month_bounds(ym) = <<MonthDay(k, 1), MonthDay(k, 31)>> BY <1>4, MonthNumber
<1> QED BY <1>24, <1>25, <1>26, <1>27

(* Of bills that are the same every month, the summary is fair.              *)
LEMMA SummaryIsSo == BillsInv /\ SteadyBills => SummaryIsFair
<1> SUFFICES ASSUME BillsInv, SteadyBills, Whole, \A b \in home.bills : b.every = 0 /\ Skipped(b) = {}
             PROVE  SummaryIsFair
  BY DEF SummaryIsFair
<1>1. SteadyInv BY DEF SteadyInv, AllTaken
<1>2. ASSUME NEW mode \in {"current_month", "previous_month"}
      PROVE  LET prefs == [mode |-> mode, year |-> None, month |-> None]
                 says  == month_summary(rows, excluded, prefs, Everything, today)
                 p     == resolve_period(prefs, today)
                 from  == month_bounds(MonthsBack(<<year(p[1]), month(p[1])>>, 4)[4])[1]
             IN home.start <= from =>
                  /\ says.verdict = "higher" => OneOffs(p[1], p[2]) # {}
                  /\ says.verdict = "lower" => OneOffs(from, plus_days(p[1], -1)) # {}
                  /\ says.cause # None => says.cause \in {Key(o) : o \in OneOffs(p[1], p[2])}
                  /\ says.verdict = "silent" => mode = "current_month"
  <2>1. PICK prefs : prefs = [mode |-> mode, year |-> None, month |-> None] OBVIOUS
  <2>2. PICK says, p : says = month_summary(rows, excluded, prefs, Everything, today)
                       /\ p = resolve_period(prefs, today)
    OBVIOUS
  <2>3. PICK from : from = month_bounds(MonthsBack(<<year(p[1]), month(p[1])>>, 4)[4])[1] OBVIOUS
  <2>4. home.start <= from =>
           /\ says.verdict = "higher" => OneOffs(p[1], p[2]) # {}
           /\ says.verdict = "lower" => OneOffs(from, plus_days(p[1], -1)) # {}
           /\ says.cause # None => says.cause \in {Key(o) : o \in OneOffs(p[1], p[2])}
           /\ says.verdict = "silent" => mode = "current_month"
    BY <1>1, <2>1, <2>2, <2>3, SummaryMeans
  <2> QED BY ONLY <2>1, <2>2, <2>3, <2>4
<1>3. \A a \in shown_alerts :
         a.kind = "category_spike" =>
           LET b == month_bounds(a.key[2])
           IN \E o \in OneOffs(b[1], b[2]) : o.category = a.key[1]
  BY <1>1, SpikesMean
<1> QED BY <1>2, <1>3 DEF SummaryIsFair

(* When the vault begins with a month and the bills, each of a text of its   *)
(* own, come to something worth speaking of, no month is called dearer or    *)
(* cheaper, no merchant named and no category said to spike without cause:   *)
(* of any such household of ordinary bills, in any years, while the owner    *)
(* confirms no bill as a transfer.                                           *)
THEOREM SummariesAreFair ==
  ASSUME OrdinaryBills
  PROVE  Spec /\ []BillsAreNotTransfers => [](SteadyBills => SummaryIsFair)
<1>1. HInv /\ BillsAreTaken /\ BillsAreNotTransfers => (SteadyBills => SummaryIsFair)
  BY SummaryIsSo DEF BillsInv
<1> QED BY <1>1, BillsAlways, PTL
================================================================================
