-------------------------- MODULE ImportWizardProofs --------------------------
(***************************************************************************)
(* What the import wizard holds for any library of files, any vault, any    *)
(* batch and any order of answers, cancellations and turns of its timers.   *)
(*                                                                          *)
(* The invariant is one of records and lists of records, and the variables  *)
(* come last. RecOK says of one record what its fields say of each other.   *)
(* Drawn is a list of such records whose previews are what their accounts   *)
(* have yet to get: it holds until the run begins. Scanning and AskOK are   *)
(* what the scan and the questions add: whatever is open has no answer yet, *)
(* but for the records queued to be read again. CountedFrom is what the     *)
(* review adds: every count stands over the account and the ready files     *)
(* before it. RunOK is what is left of that while the run works down the    *)
(* list, with what has been reported so far. OneFine is the single file.    *)
(*                                                                          *)
(* Each operation of BatchImport is proved to keep its part for any list,   *)
(* then each action of the wizard to keep IInv, and the run's invariants    *)
(* follow.                                                                  *)
(*                                                                          *)
(* The last part is the refinement of ApprovedImport: the queue of the      *)
(* ready records from the run's place on is what the owner approved, a turn *)
(* of the run takes its head, and LandsAsSaid, from CountedFrom, is why the *)
(* rows that land are those promised.                                       *)
(***************************************************************************)
EXTENDS ImportWizard, FiniteSetTheorems, WellFoundedInduction, TLAPS, SequenceTheorems

-------------------------------------------------------------------------------
(* Finite sets, iteration and sums.                                          *)

(* A family of subsets of a finite set has a minimal member.                 *)
LEMMA FiniteSetMinimal ==
  ASSUME NEW S, IsFiniteSet(S), NEW F \in SUBSET SUBSET S, F # {}
  PROVE  \E T \in F : \A U \in F : U \subseteq T => U = T
<1> DEFINE R == StrictSubsetOrdering(S)
<1>1. IsWellFoundedOn(R, FiniteSubsetsOf(S)) BY FS_StrictSubsetOrderingWellFounded
<1>2. F \subseteq FiniteSubsetsOf(S) BY FS_Subset DEF FiniteSubsetsOf
<1>3. PICK T \in F : \A U \in F : <<U, T>> \notin R
  <2> HIDE DEF R
  <2> QED BY <1>1, <1>2, WFMin
<1> QED BY <1>2, <1>3 DEF StrictSubsetOrdering

(* Induction over the naturals, of a set in place of a predicate.            *)
LEMMA NatSetInduction ==
  ASSUME NEW S \in SUBSET Nat, 0 \in S, \A n \in S : n + 1 \in S
  PROVE  S = Nat
<1> SUFFICES ASSUME NEW n \in Nat, n \notin S PROVE FALSE OBVIOUS
<1> DEFINE F == {0..m : m \in {m \in Nat : m \notin S /\ m <= n}}
<1>1. IsFiniteSet(0..n) BY FS_Interval
<1>2. F \in SUBSET SUBSET (0..n) /\ F # {} OBVIOUS
<1>3. PICK T \in F : \A U \in F : U \subseteq T => U = T
  <2> HIDE DEF F
  <2>1. PICK I : I = 0..n OBVIOUS
  <2>2. IsFiniteSet(I) /\ F \in SUBSET SUBSET I /\ F # {} BY <1>1, <1>2, <2>1
  <2>3. \E T \in F : \A U \in F : U \subseteq T => U = T
    <3> HIDE <2>1
    <3> QED BY <2>2, FiniteSetMinimal
  <2> QED BY <2>3
<1>4. PICK m \in Nat : m \notin S /\ m <= n /\ T = 0..m BY <1>3
<1>5. m # 0 /\ m - 1 \in Nat BY <1>4
<1>6. m - 1 \notin S
  <2>1. (m - 1) + 1 = m BY <1>5
  <2> QED BY <1>4, <2>1
<1>7. 0..(m - 1) \in F BY <1>4, <1>5, <1>6
<1>8. 0..(m - 1) \subseteq T /\ m \in T /\ m \notin 0..(m - 1) BY <1>4, <1>5
<1> QED BY <1>3, <1>7, <1>8

(* Some sequence in X starts at x0 and goes on by F.                         *)
HasOrbit(X, x0, F) == \E h \in [Nat -> X] : h[0] = x0 /\ \A n \in Nat : h[n + 1] = F[h[n]]

(* A function can be iterated from any start.                                *)
LEMMA NatRecursion ==
  ASSUME NEW X, NEW x0 \in X, NEW F \in [X -> X]
  PROVE  HasOrbit(X, x0, F)
<1> DEFINE IsTrace(g, n) == g \in [0..n -> X] /\ g[0] = x0 /\ \A m \in 0..(n - 1) : g[m + 1] = F[g[m]]
           Done == {n \in Nat : \E g : IsTrace(g, n)}
<1>1. Done = Nat
  <2>1. 0 \in Done
    <3>1. IsTrace([i \in 0..0 |-> x0], 0) OBVIOUS
    <3> QED BY <3>1
  <2>2. ASSUME NEW n \in Done PROVE n + 1 \in Done
    <3>1. PICK g : IsTrace(g, n) OBVIOUS
    <3>2. n \in Nat /\ g[n] \in X BY <3>1
    <3>3. PICK h : h = [i \in 0..(n + 1) |-> IF i = n + 1 THEN F[g[n]] ELSE g[i]] OBVIOUS
    <3>4. h \in [0..(n + 1) -> X]
      <4>1. F[g[n]] \in X BY <3>2
      <4>2. \A i \in 0..(n + 1) : i # n + 1 => i \in 0..n BY <3>2
      <4> QED BY <3>1, <3>3, <4>1, <4>2
    <3>5. h[0] = x0 BY <3>1, <3>2, <3>3
    <3>6. ASSUME NEW m \in 0..((n + 1) - 1) PROVE h[m + 1] = F[h[m]]
      <4>1. h[m] = g[m] BY <3>2, <3>3
      <4>2. CASE m = n BY <3>2, <3>3, <4>1, <4>2
      <4>3. CASE m # n
        <5>1. m \in 0..(n - 1) /\ m + 1 # n + 1 /\ m + 1 \in 0..(n+1) BY <3>2, <4>3
        <5>2. h[m + 1] = g[m + 1] BY <3>3, <5>1
        <5> QED BY <3>1, <4>1, <5>1, <5>2
      <4> QED BY <4>2, <4>3
    <3>7. IsTrace(h, n + 1) BY <3>4, <3>5, <3>6
    <3> QED BY <3>2, <3>7
  <2> HIDE DEF Done
  <2>3. Done \in SUBSET Nat BY DEF Done
  <2> QED BY <2>1, <2>2, <2>3, NatSetInduction
<1>2. ASSUME NEW n \in Nat, NEW g, NEW k \in Nat, NEW h, IsTrace(g, n), IsTrace(h, k)
      PROVE  \A m \in Nat : m <= n /\ m <= k => g[m] = h[m]
  <2> DEFINE Same == {m \in Nat : m <= n /\ m <= k => g[m] = h[m]}
  <2>1. 0 \in Same BY <1>2
  <2>2. ASSUME NEW m \in Same PROVE m + 1 \in Same
    <3> SUFFICES ASSUME m + 1 <= n, m + 1 <= k PROVE g[m + 1] = h[m + 1] OBVIOUS
    <3>1. m \in 0..(n - 1) /\ m \in 0..(k - 1) OBVIOUS
    <3>2. g[m] = h[m] BY <3>1
    <3> QED BY <1>2, <3>1, <3>2
  <2> HIDE DEF Same
  <2>3. Same \in SUBSET Nat BY DEF Same
  <2>4. Same = Nat BY <2>1, <2>2, <2>3, NatSetInduction
  <2> QED BY <2>4 DEF Same
<1>3. PICK tr : tr = [n \in Nat |-> CHOOSE g : IsTrace(g, n)] OBVIOUS
<1>4. \A n \in Nat : IsTrace(tr[n], n)
  <2> TAKE n \in Nat
  <2>1. \E g : IsTrace(g, n) BY <1>1
  <2> HIDE DEF IsTrace
  <2>2. IsTrace(CHOOSE g : IsTrace(g, n), n) BY <2>1
  <2> QED BY <1>3, <2>2
<1>5. PICK h : h = [n \in Nat |-> tr[n][n]] OBVIOUS
<1>6. h \in [Nat -> X]
  <2>1. \A n \in Nat : tr[n][n] \in X BY <1>4
  <2> QED BY <1>5, <2>1
<1>7. h[0] = x0 BY <1>4, <1>5
<1>8. ASSUME NEW n \in Nat PROVE h[n + 1] = F[h[n]]
  <2>1. IsTrace(tr[n + 1], n + 1) /\ IsTrace(tr[n], n) BY <1>4
  <2>2. tr[n + 1][n] = tr[n][n]
    <3>1. n + 1 \in Nat /\ n <= n + 1 /\ n <= n OBVIOUS
    <3> HIDE DEF IsTrace
    <3> QED BY <1>2, <2>1, <3>1
  <2>3. tr[n + 1][n + 1] = F[tr[n + 1][n]]
    <3>1. n \in 0..((n + 1) - 1) OBVIOUS
    <3> QED BY <2>1, <3>1
  <2> QED BY <1>5, <2>2, <2>3
<1> QED BY <1>6, <1>7, <1>8 DEF HasOrbit

(* A finite set of integers has a smallest element.                          *)
LEMMA LeastInt ==
  ASSUME NEW S, IsFiniteSet(S), S # {}, \A x \in S : x \in Int
  PROVE  \E m \in S : \A y \in S : m <= y
<1> DEFINE Down(x) == {y \in S : y <= x}
<1>1. PICK F : F = {Down(x) : x \in S} OBVIOUS
<1>2. F \in SUBSET SUBSET S /\ F # {}
  <2>1. \A x \in S : Down(x) \in SUBSET S OBVIOUS
  <2> HIDE DEF Down
  <2> QED BY <1>1, <2>1
<1>3. PICK T \in F : \A U \in F : U \subseteq T => U = T
  <2> HIDE DEF Down
  <2>1. IsFiniteSet(S) OBVIOUS
  <2> QED BY ONLY <1>2, <2>1, FiniteSetMinimal
<1>4. PICK m \in S : T = Down(m) BY <1>1, <1>3
<1>5. ASSUME NEW y \in S PROVE m <= y
  <2> SUFFICES ASSUME ~(m <= y) PROVE FALSE OBVIOUS
  <2>1. m \in Int /\ y \in Int OBVIOUS
  <2>2. y < m BY <2>1
  <2>3. ASSUME NEW w \in Down(y) PROVE w \in Down(m)
    <3>1. w \in S /\ w \in Int /\ w <= y OBVIOUS
    <3>2. w <= m BY <2>1, <2>2, <3>1
    <3> QED BY <3>1, <3>2
  <2>4. m \in Down(m) /\ m \notin Down(y) BY <2>1, <2>2
  <2>5. Down(y) \in F BY <1>1
  <2> HIDE DEF Down
  <2> QED BY <1>3, <1>4, <2>3, <2>4, <2>5
<1> QED BY <1>5

(* The sum of f over a finite set, as MapThenSumSet computes it.             *)
Total(f, S) == MapThenSumSet(LAMBDA k : f[k], S)
(* The element the fold takes next, and the iteration the fold is.           *)
SomeOf(s) == CHOOSE x \in s : TRUE
IsIter(it, f, S) == it = [s \in SUBSET S |-> IF s = {} THEN 0 ELSE f[SomeOf(s)] + it[s \ {SomeOf(s)}]]

(* Total is a function the sum of each subset comes from.                    *)
LEMMA SumIs ==
  ASSUME NEW f, NEW S
  PROVE Total(f, S) = (CHOOSE it : IsIter(it, f, S))[S]
BY DEF Total, MapThenSumSet, MapThenFoldSet, IsIter, SomeOf

(* CHOOSE takes an element.                                                  *)
LEMMA SomeOfIn == ASSUME NEW s, s # {} PROVE SomeOf(s) \in s
BY DEF SomeOf

(* Two such functions agree.                                                 *)
LEMMA IterUnique ==
  ASSUME NEW f, NEW S, NEW T, IsFiniteSet(S), NEW i, NEW j, IsIter(i, f, S), IsIter(j, f, T)
  PROVE  \A s \in SUBSET (S \cap T) : i[s] = j[s]
<1> DEFINE F == {s \in SUBSET (S \cap T) : i[s] # j[s]}
<1> SUFFICES ASSUME F # {} PROVE FALSE OBVIOUS
<1>1. F \in SUBSET SUBSET S OBVIOUS
<1>2. PICK s \in F : \A u \in F : u \subseteq s => u = s
  <2> HIDE DEF F
  <2> QED BY <1>1, FiniteSetMinimal
<1>3. s \in SUBSET S /\ s \in SUBSET T /\ i[s] # j[s] BY <1>2
<1>4. s # {} BY <1>3 DEF IsIter
<1>5. PICK c \in s : c = SomeOf(s) BY <1>4, SomeOfIn
<1>6. i[s] = f[c] + i[s \ {c}] BY <1>3, <1>4, <1>5 DEF IsIter
<1>7. j[s] = f[c] + j[s \ {c}] BY <1>3, <1>4, <1>5 DEF IsIter
<1>8. s \ {c} \in SUBSET (S \cap T) /\ s \ {c} # s /\ s \ {c} \subseteq s BY <1>3
<1>9. s \ {c} \notin F BY <1>2, <1>8
<1>10. i[s \ {c}] = j[s \ {c}] BY <1>8, <1>9
<1> QED BY <1>3, <1>6, <1>7, <1>10

(* There is such a function.                                                 *)
LEMMA IterExists ==
  ASSUME NEW f, NEW S, IsFiniteSet(S)
  PROVE  \E it : IsIter(it, f, S)
<1> DEFINE F == {s \in SUBSET S : ~ \E it : IsIter(it, f, s)}
<1> SUFFICES ASSUME F # {} PROVE FALSE OBVIOUS
<1>1. F \in SUBSET SUBSET S OBVIOUS
<1>2. PICK U \in F : \A u \in F : u \subseteq U => u = U
  <2> HIDE DEF F
  <2> QED BY <1>1, FiniteSetMinimal
<1> DEFINE own(s) == CHOOSE it : IsIter(it, f, s)
           at(s) == own(s)[s]
           value(s) == IF s = {} THEN 0 ELSE f[SomeOf(s)] + at(s \ {SomeOf(s)})
           it == [s \in SUBSET U |-> value(s)]
<1>3. \A s \in SUBSET U : s # U => IsIter(own(s), f, s)
  <2> TAKE s \in SUBSET U
  <2> HAVE s # U
  <2>1. s \notin F BY <1>2
  <2>2. s \in SUBSET S BY <1>2
  <2>3. \E h : IsIter(h, f, s) BY <2>1, <2>2
  <2> HIDE DEF IsIter
  <2> QED BY <2>3
<1>4. \A s \in SUBSET U : s # U => at(s) = value(s)
  <2> TAKE s \in SUBSET U
  <2> HAVE s # U
  <2>1. IsIter(own(s), f, s) BY <1>3
  <2>2. CASE s = {} 
    <3>1. own(s)[s] = 0 BY <2>1, <2>2 DEF IsIter
    <3> QED BY <3>1, <2>2
  <2>3. CASE s # {}
    <3>1. PICK c \in s : c = SomeOf(s) BY <2>3, SomeOfIn
    <3>2. PICK t : t = s \ {c} OBVIOUS
    <3>3. t \in SUBSET U /\ t # U /\ t \subseteq s BY <3>1, <3>2
    <3>4. IsIter(own(t), f, t) BY <1>3, <3>3
    <3>5. IsFiniteSet(s)
      <4>1. s \in SUBSET S BY <1>2
      <4> QED BY <4>1, FS_Subset
    <3>6. own(s)[t] = own(t)[t]
      <4> HIDE DEF own
      <4> QED BY <2>1, <3>3, <3>4, <3>5, IterUnique
    <3>7. own(s)[s] = f[c] + own(s)[t] BY <2>1, <2>3, <3>1, <3>2 DEF IsIter
    <3> QED BY <2>3, <3>1, <3>2, <3>6, <3>7
  <2> QED BY <2>2, <2>3
<1>5. IsIter(it, f, U)
  <2>1. \A s \in SUBSET U : it[s] = IF s = {} THEN 0 ELSE f[SomeOf(s)] + it[s \ {SomeOf(s)}]
    <3> TAKE s \in SUBSET U
    <3>1. CASE s = {} BY <3>1
    <3>2. CASE s # {}
      <4>1. PICK c \in s : c = SomeOf(s) BY <3>2, SomeOfIn
      <4>2. PICK t : t = s \ {c} OBVIOUS
      <4>3. t \in SUBSET U /\ t # U BY <4>1, <4>2
      <4>4. it[t] = at(t) 
        <5>1. it[t] = value(t) BY <4>3
        <5>2. at(t) = value(t) BY <1>4, <4>3
        <5> QED BY <5>1, <5>2
      <4>5. it[s] = f[c] + at(t) 
        <5> HIDE DEF at
        <5> QED BY <3>2, <4>1, <4>2
      <4> HIDE DEF it, at
      <4> QED BY <3>2, <4>1, <4>2, <4>4, <4>5
    <3> QED BY <3>1, <3>2
  <2>2. DOMAIN it = SUBSET U OBVIOUS
  <2>3. it = [s \in SUBSET U |-> it[s]] OBVIOUS
  <2> HIDE DEF it
  <2> QED BY <2>1, <2>3 DEF IsIter
<1>6. U \notin F
  <2> HIDE DEF it
  <2> QED BY <1>5
<1> QED BY <1>2, <1>6

(* The empty sum, and the sum of the rest and the chosen one.                *)
LEMMA SumRec ==
  ASSUME NEW f, NEW S, IsFiniteSet(S)
  PROVE  /\ Total(f, {}) = 0
         /\ S # {} => Total(f, S) = f[SomeOf(S)] + Total(f, S \ {SomeOf(S)})
<1> DEFINE own(s) == CHOOSE it : IsIter(it, f, s)
<1>1. \A s \in SUBSET S : IsIter(own(s), f, s)
  <2> TAKE s \in SUBSET S
  <2>1. \E h : IsIter(h, f, s) BY FS_Subset, IterExists
  <2> HIDE DEF IsIter
  <2> QED BY <2>1
<1>2. \A s : Total(f, s) = own(s)[s] BY SumIs
<1>3. Total(f, {}) = 0 
  <2>1. IsIter(own({}), f, {}) BY <1>1
  <2>2. own({})[{}] = 0 BY <2>1 DEF IsIter
  <2> QED BY <2>2, <1>2
<1>4. ASSUME S # {} PROVE Total(f, S) = f[SomeOf(S)] + Total(f, S \ {SomeOf(S)})
  <2>1. PICK c \in S : c = SomeOf(S) BY <1>4, SomeOfIn
  <2>2. PICK t : t = S \ {c} OBVIOUS
  <2>3. t \in SUBSET S BY <2>2
  <2>4. own(S)[S] = f[c] + own(S)[t] 
    <3>1. IsIter(own(S), f, S) BY <1>1
    <3> QED BY <3>1, <1>4, <2>1, <2>2 DEF IsIter
  <2>5. own(S)[t] = own(t)[t]
    <3>1. IsIter(own(S), f, S) /\ IsIter(own(t), f, t) BY <1>1, <2>3
    <3> HIDE DEF own
    <3> QED BY <3>1, <2>3, IterUnique
  <2>6. Total(f, S) = f[c] + Total(f, t) BY <1>2, <2>4, <2>5
  <2> QED BY <2>1, <2>2, <2>6
<1> QED BY <1>3, <1>4

(* A sum of naturals is one.                                                 *)
LEMMA SumNat ==
  ASSUME NEW S, IsFiniteSet(S), NEW f, \A x \in S : f[x] \in Nat
  PROVE  Total(f, S) \in Nat
<1> DEFINE F == {s \in SUBSET S : Total(f, s) \notin Nat}
<1> SUFFICES ASSUME F # {} PROVE FALSE OBVIOUS
<1>1. F \in SUBSET SUBSET S OBVIOUS
<1>2. PICK U \in F : \A u \in F : u \subseteq U => u = U
  <2> HIDE DEF F
  <2> QED BY <1>1, FiniteSetMinimal
<1>3. IsFiniteSet(U) /\ U \in SUBSET S BY <1>2, FS_Subset
<1>4. U # {}
  <2> SUFFICES ASSUME U = {} PROVE FALSE OBVIOUS
  <2>1. Total(f, {}) = 0 BY <1>3, SumRec
  <2> QED BY <1>2, <2>1
<1>5. PICK c \in U : c = SomeOf(U) BY <1>4, SomeOfIn
<1>6. U \ {c} \notin F 
  <2>1. U \ {c} # U /\ U \ {c} \subseteq U BY <1>3
  <2> HIDE DEF F
  <2> QED BY <1>2, <2>1
<1>7. Total(f, U \ {c}) \in Nat BY <1>6, <1>3
<1>8. Total(f, U) = f[c] + Total(f, U \ {c}) BY <1>3, <1>4, <1>5, SumRec
<1>9. f[c] \in Nat BY <1>3
<1>10. Total(f, U) \in Nat BY <1>7, <1>8, <1>9
<1> QED BY <1>2, <1>10

(* It does not matter which one is taken first.                              *)
LEMMA SumAny ==
  ASSUME NEW S, IsFiniteSet(S), NEW f, \A x \in S : f[x] \in Nat, NEW x \in S
  PROVE  Total(f, S) = f[x] + Total(f, S \ {x})
<1> DEFINE F == {s \in SUBSET S : \E y \in s : Total(f, s) # f[y] + Total(f, s \ {y})}
<1> SUFFICES ASSUME F # {} PROVE FALSE OBVIOUS
<1>1. F \in SUBSET SUBSET S OBVIOUS
<1>2. PICK U \in F : \A u \in F : u \subseteq U => u = U
  <2> HIDE DEF F
  <2> QED BY <1>1, FiniteSetMinimal
<1>3. IsFiniteSet(U) /\ U \in SUBSET S BY <1>2, FS_Subset
<1>4. PICK y \in U : Total(f, U) # f[y] + Total(f, U \ {y}) BY <1>2
<1>5. PICK c \in U : c = SomeOf(U) BY <1>4, SomeOfIn
<1>6. Total(f, U) = f[c] + Total(f, U \ {c}) BY <1>3, <1>4, <1>5, SumRec
<1>7. y # c BY <1>4, <1>6
<1>8. PICK A, B, C : A = U \ {c} /\ B = U \ {y} /\ C = U \ {c, y} OBVIOUS
<1>9. /\ A \in SUBSET S /\ A # U /\ A \subseteq U /\ B \in SUBSET S /\ B # U /\ B \subseteq U
      /\ A \ {y} = C /\ B \ {c} = C /\ y \in A /\ c \in B /\ C \in SUBSET S
  BY <1>3, <1>7, <1>8
<1>10. A \notin F /\ B \notin F
  <2> HIDE DEF F
  <2> QED BY <1>2, <1>9
<1>11. Total(f, A) = f[y] + Total(f, C) /\ Total(f, B) = f[c] + Total(f, C) 
  BY <1>9, <1>10
<1>12. f[y] \in Nat /\ f[c] \in Nat BY <1>3
<1>13. Total(f, C) \in Nat 
  <2>1. IsFiniteSet(C) BY <1>9, FS_Subset
  <2>2. \A z \in C : f[z] \in Nat BY <1>9
  <2> QED BY <2>1, <2>2, SumNat
<1>14. Total(f, U) = f[y] + Total(f, B)
  <2>1. PICK a, b, c0 : a = Total(f, A) /\ b = Total(f, B) /\ c0 = Total(f, C) OBVIOUS
  <2>2. Total(f, U) = f[c] + a BY <1>6, <1>8, <2>1
  <2> HIDE DEF F
  <2>3. a = f[y] + c0 /\ b = f[c] + c0 /\ c0 \in Nat BY <1>11, <1>13, <2>1
  <2>4. f[c] + a = f[y] + b BY ONLY <2>3, <1>12
  <2> QED BY <2>1, <2>2, <2>4
<1> QED BY <1>4, <1>8, <1>14

(* A sum of more, or of larger, numbers is not smaller.                      *)
LEMMA SumGrows ==
  ASSUME NEW T, IsFiniteSet(T), NEW S \in SUBSET T, NEW f, NEW g,
         \A x \in T : g[x] \in Nat, \A x \in S : f[x] \in Nat /\ f[x] <= g[x]
  PROVE  Total(f, S) <= Total(g, T)
<1> DEFINE F == {s \in SUBSET T : ~(Total(f, s \cap S) <= Total(g, s))}
<1> SUFFICES ASSUME F # {} PROVE FALSE 
  <2>1. T \notin F BY DEF F
  <2>2. T \cap S = S OBVIOUS
  <2> QED BY <2>1, <2>2
<1>1. F \in SUBSET SUBSET T OBVIOUS
<1>2. PICK U \in F : \A u \in F : u \subseteq U => u = U
  <2> HIDE DEF F
  <2> QED BY <1>1, FiniteSetMinimal
<1>3. IsFiniteSet(U) /\ U \in SUBSET T /\ IsFiniteSet(U \cap S) BY <1>2, FS_Subset
<1>4. U # {} 
  <2> SUFFICES ASSUME U = {} PROVE FALSE OBVIOUS
  <2>1. U \cap S = {} OBVIOUS
  <2>2. Total(f, {}) = 0 /\ Total(g, {}) = 0 BY <1>3, SumRec
  <2> QED BY <1>2, <2>1, <2>2
<1>5. PICK c \in U : TRUE BY <1>4
<1>6. PICK A : A = U \ {c} OBVIOUS
<1>7. A \in SUBSET T /\ A # U /\ A \subseteq U /\ IsFiniteSet(A) BY <1>3, <1>5, <1>6, FS_Subset
<1>8. A \notin F
  <2> HIDE DEF F
  <2> QED BY <1>2, <1>7
<1>9. Total(f, A \cap S) <= Total(g, A) BY <1>7, <1>8
<1>10. Total(g, U) = g[c] + Total(g, A) /\ g[c] \in Nat /\ Total(g, A) \in Nat
  <2>1. \A x \in U : g[x] \in Nat BY <1>3
  <2>2. \A x \in A : g[x] \in Nat BY <1>7
  <2> QED BY <2>1, <2>2, <1>3, <1>5, <1>6, <1>7, SumAny, SumNat
<1>11. IsFiniteSet(A \cap S) /\ Total(f, A \cap S) \in Nat
  <2>1. IsFiniteSet(A \cap S) BY <1>7, FS_Subset
  <2>2. \A x \in A \cap S : f[x] \in Nat OBVIOUS
  <2> QED BY <2>1, <2>2, SumNat
<1>0. ~(Total(f, U \cap S) <= Total(g, U)) BY <1>2
<1> HIDE DEF F
<1>12. CASE c \in S
  <2>1. U \cap S = (A \cap S) \cup {c} /\ (U \cap S) \ {c} = A \cap S /\ c \in U \cap S BY <1>6, <1>12
  <2>2. \A x \in U \cap S : f[x] \in Nat OBVIOUS
  <2>3. Total(f, U \cap S) = f[c] + Total(f, A \cap S) 
    <3>1. PICK W : W = U \cap S OBVIOUS
    <3>2. IsFiniteSet(W) /\ c \in W /\ (\A x \in W : f[x] \in Nat) /\ W \ {c} = A \cap S BY <1>3, <2>1, <2>2, <3>1
    <3>3. Total(f, W) = f[c] + Total(f, W \ {c}) BY <3>2, SumAny
    <3> QED BY <3>1, <3>2, <3>3
  <2>4. f[c] \in Nat /\ f[c] <= g[c] BY <1>12
  <2> QED BY <1>0, <1>9, <1>10, <1>11, <2>3, <2>4
<1>13. CASE c \notin S
  <2>1. U \cap S = A \cap S BY <1>6, <1>13
  <2>2. Total(f, U \cap S) = Total(f, A \cap S) BY <2>1
  <2>3. PICK a, b, u : a = Total(f, A \cap S) /\ b = Total(g, A) /\ u = Total(g, U) OBVIOUS
  <2>4. a <= b /\ u = g[c] + b /\ g[c] \in Nat /\ a \in Nat /\ b \in Nat BY <1>9, <1>10, <1>11, <2>3
  <2>5. a <= u BY ONLY <2>4
  <2> QED BY <1>0, <2>2, <2>3, <2>5
<1> QED BY <1>12, <1>13

(* Nothing in a sum of naturals is larger than the sum.                      *)
LEMMA SumBounds ==
  ASSUME NEW S, IsFiniteSet(S), NEW f, \A x \in S : f[x] \in Nat, NEW x \in S
  PROVE  f[x] <= Total(f, S)
<1>1. Total(f, S) = f[x] + Total(f, S \ {x}) BY SumAny
<1>2. Total(f, S \ {x}) \in Nat
  <2>1. IsFiniteSet(S \ {x}) BY FS_Subset
  <2>2. \A y \in S \ {x} : f[y] \in Nat OBVIOUS
  <2> QED BY <2>1, <2>2, SumNat
<1> QED BY <1>1, <1>2

(* How many elements of L are below i.                                       *)
Below(L, i) == Cardinality({j \in L : j < i})

(* The elements of a finite set of numbers are numbered by how many are below. *)
LEMMA BelowNumbers ==
  ASSUME NEW L \in SUBSET Nat, IsFiniteSet(L)
  PROVE  \A n \in 1..Cardinality(L) :
           \E i \in L : Below(L, i) = n - 1 /\ \A j \in L : Below(L, j) = n - 1 => j = i
<1>1. PICK c : c = Cardinality(L) OBVIOUS
<1>2. c \in Nat BY <1>1, FS_CardinalityType
<1>3. \A i \in L : Below(L, i) \in Nat /\ Below(L, i) < c
  <2> TAKE i \in L
  <2>1. PICK B : B = {j \in L : j < i} OBVIOUS
  <2>2. B \in SUBSET L /\ B # L BY <2>1
  <2>3. Cardinality(B) \in Nat /\ Cardinality(B) <= Cardinality(L) /\ Cardinality(B) # Cardinality(L)
    BY <2>2, FS_Subset, FS_CardinalityType
  <2> QED BY <1>1, <1>2, <2>1, <2>3 DEF Below
<1>4. \A i, j \in L : i < j => Below(L, i) < Below(L, j)
  <2> TAKE i, j \in L
  <2> HAVE i < j
  <2>1. PICK A, B : A = {l \in L : l < i} /\ B = {l \in L : l < j} OBVIOUS
  <2>0. \A l \in L : l \in Nat OBVIOUS
  <2>a. i \in Nat /\ j \in Nat BY <2>0
  <2>b. ASSUME NEW l \in A PROVE l \in B
    <3>1. l \in L /\ l < i /\ l \in Nat BY <2>0, <2>1
    <3>2. l < j BY <2>a, <3>1
    <3> QED BY <2>1, <3>1, <3>2
  <2>c. i \in B BY <2>1
  <2>d. i \notin A BY <2>1, <2>a
  <2>2. A \in SUBSET B /\ i \in B /\ i \notin A /\ B \in SUBSET L BY <2>1, <2>b, <2>c, <2>d
  <2>3. IsFiniteSet(B) /\ Cardinality(B) \in Nat BY <2>2, FS_Subset, FS_CardinalityType
  <2>4. Cardinality(A) <= Cardinality(B) /\ Cardinality(A) # Cardinality(B) BY <2>2, <2>3, FS_Subset
  <2>5. IsFiniteSet(A) /\ Cardinality(A) \in Nat BY <2>2, <2>3, FS_Subset, FS_CardinalityType
  <2> QED BY <2>1, <2>3, <2>4, <2>5 DEF Below
<1>5. \A i, j \in L : Below(L, i) = Below(L, j) => i = j
  <2> TAKE i, j \in L
  <2>1. i \in Nat /\ j \in Nat OBVIOUS
  <2>2. i = j \/ i < j \/ j < i BY <2>1
  <2> QED BY <1>3, <1>4, <2>2
<1> DEFINE g == [i \in L |-> Below(L, i)]
<1>6. g \in Injection(L, 0..(c - 1))
  <2>1. g \in [L -> 0..(c - 1)] BY <1>2, <1>3
  <2> QED BY <1>5, <2>1 DEF Injection, IsInjective
<1>7. IsFiniteSet(0..(c - 1)) /\ Cardinality(0..(c - 1)) = c BY <1>2, FS_Interval
<1>8. g \in Surjection(L, 0..(c - 1))
  <2>1. PICK T : T = 0..(c - 1) OBVIOUS
  <2> HIDE DEF g
  <2> QED BY <1>1, <1>6, <1>7, <2>1, FS_Injection
<1>9. ASSUME NEW n \in 1..c PROVE \E i \in L : Below(L, i) = n - 1
  <2>1. n - 1 \in 0..(c - 1) BY <1>2
  <2>2. \E i \in L : g[i] = n - 1 BY <1>8, <2>1 DEF Surjection
  <2> QED BY <2>2
<1> QED BY <1>1, <1>5, <1>9

(* The n-th smallest element of a finite set of numbers.                     *)
Nth(L, n) == CHOOSE i \in L : Below(L, i) = n - 1

(* So the n-th is found by counting.                                         *)
LEMMA NthIs ==
  ASSUME NEW L \in SUBSET Nat, IsFiniteSet(L), NEW n \in 1..Cardinality(L)
  PROVE  /\ Nth(L, n) \in L /\ Below(L, Nth(L, n)) = n - 1
         /\ \A i \in L : Below(L, i) = n - 1 => i = Nth(L, n)
<1>1. PICK m : m = n - 1 OBVIOUS
<1>2. \E i \in L : Below(L, i) = m /\ \A j \in L : Below(L, j) = m => j = i BY <1>1, BelowNumbers
<1> QED BY <1>1, <1>2 DEF Nth

(* Without its least element, the others move up by one.                     *)
LEMMA NthWithout ==
  ASSUME NEW L \in SUBSET Nat, IsFiniteSet(L), NEW m \in L, \A i \in L : m <= i
  PROVE  /\ Cardinality(L) \in Nat \ {0} /\ Cardinality(L \ {m}) = Cardinality(L) - 1
         /\ Nth(L, 1) = m
         /\ \A n \in 1..(Cardinality(L) - 1) : Nth(L \ {m}, n) = Nth(L, n + 1)
<1>1. Cardinality(L) \in Nat /\ Cardinality(L) # 0 BY FS_CardinalityType, FS_EmptySet
<1>2. PICK M : M = L \ {m} OBVIOUS
<1>3. M \in SUBSET Nat /\ IsFiniteSet(M) /\ Cardinality(M) = Cardinality(L) - 1 BY <1>2, FS_RemoveElement
<1>4. Below(L, m) = 0
  <2>0. \A l \in L : l \in Nat OBVIOUS
  <2>1. \A j \in L : ~(j < m) BY <2>0
  <2> QED BY <2>1, FS_EmptySet DEF Below
<1>5. Nth(L, 1) = m
  <2>1. 1 \in 1..Cardinality(L) /\ 1 - 1 = 0 BY <1>1
  <2> QED BY <1>4, <2>1, NthIs
<1>6. ASSUME NEW i \in M PROVE Below(L, i) = Below(M, i) + 1
  <2>1. PICK A, B : A = {j \in L : j < i} /\ B = {j \in M : j < i} OBVIOUS
  <2>2. m < i BY <1>2
  <2>3. A = B \cup {m} /\ m \notin B BY <1>2, <2>1, <2>2
  <2>4. B \in SUBSET M BY <2>1
  <2>5. IsFiniteSet(B) BY <1>3, <2>4, FS_Subset
  <2>6. Cardinality(A) = Cardinality(B) + 1 BY <2>3, <2>5, FS_AddElement
  <2> QED BY <2>1, <2>6 DEF Below
<1>7. ASSUME NEW n \in 1..(Cardinality(L) - 1) PROVE Nth(M, n) = Nth(L, n + 1)
  <2>1. n \in 1..Cardinality(M) /\ n + 1 \in 1..Cardinality(L) /\ n \in Nat BY <1>1, <1>3
  <2>2. PICK i : i = Nth(M, n) OBVIOUS
  <2>3. i \in M /\ Below(M, i) = n - 1 BY <1>3, <2>1, <2>2, NthIs
  <2>4. Below(L, i) = (n + 1) - 1 BY <1>6, <2>1, <2>3
  <2>5. i \in L BY <1>2, <2>3
  <2> QED BY <2>1, <2>2, <2>4, <2>5, NthIs
<1> QED BY <1>1, <1>2, <1>3, <1>5, <1>7


-------------------------------------------------------------------------------
(* One record.                                                               *)

(* What a record's file is.                                                  *)
Lck(r) == Content(r).lock
Layout(r) == Content(r).layout
Kind(r) == Content(r).kind

(* One record of a batch, whatever the phase.                                *)
Whole(r) ==
    /\ r \in Record /\ r.stmt \in DOMAIN Content(r).stmts
    /\ r.preview # None => /\ r.parsed /\ r.account = r.preview.account
                           /\ r.outcome \in {"ready", "already_imported"} \cup Terminal
    /\ r.preview = None => r.account = None
    /\ r.outcome \in {"waiting"} \cup Blocking => ~r.parsed
    /\ r.outcome \in {"ready", "already_imported", "committed"} => r.preview # None
    /\ r.text => Kind(r) # "ofx"
    /\ r.mapping # None => r.text /\ r.mapping \in {"misfit", Needed(Layout(r))}
    /\ r.parsed => r.mapping # "misfit"
    /\ r.outcome = "needs_mapping" => r.text
    /\ r.outcome = "needs_password" => Kind(r) = "pdf" /\ ~r.text
    /\ (r.parsed \/ r.text) /\ r.pending # None => r.pending = Lck(r)

(* No password in hand opens a file that still waits for one.                *)
Untried(r) == r.outcome \in {"waiting", "needs_password"} /\ ~r.text => Lck(r) \notin r.tried

RecOK(r) == Whole(r) /\ Untried(r)

(* Until the run, a preview says what its account has yet to get.            *)
Fresh(r) == r.preview # None => /\ r.account \in DOMAIN accounts
                                /\ r.preview = Preview(r, r.account)
                                /\ r.outcome \in {"ready", "already_imported"}

(* The vault's tables.  Every saved layout is saved as it is read.           *)
VaultOK == /\ DOMAIN accounts \subseteq AccountIds /\ books \in [AccountIds -> [Keys -> Nat]]
           /\ stored \in [AccountIds -> Words]
           /\ \A a \in AccountIds \ DOMAIN accounts : stored[a] = None
           /\ \A l \in DOMAIN profiles : profiles[l] = Needed(l)

(* A layout is read one of two ways.                                         *)
LEMMA NeededIs == \A l : Needed(l) \in {"plain", "reversed"}
BY DEF Needed

(* The account a statement names is one the vault has, or none.              *)
LEMMA MatchIs == ASSUME NEW h PROVE MatchAccount(h) = None \/ MatchAccount(h) \in DOMAIN accounts
<1> DEFINE same == {a \in DOMAIN accounts : accounts[a] = h}
<1>1. CASE Cardinality(same) = 1
  <2>1. same # {} BY <1>1, FS_EmptySet
  <2>2. (CHOOSE a \in same : TRUE) \in same BY <2>1
  <2> QED BY <2>2 DEF MatchAccount
<1>2. CASE Cardinality(same) # 1
  BY <1>2 DEF MatchAccount
<1> QED BY <1>1, <1>2

(* What the library says of a statement.                                     *)
LEMMA StmtIs == ASSUME NEW r, r.path \in DOMAIN Library, r.stmt \in DOMAIN Content(r).stmts
                PROVE  Stmt(r).rows \in [Keys -> Nat] /\ Kind(r) \in {"csv", "ofx", "pdf"}
                       /\ r.stmt \in Nat \ {0}
BY FilesAreRead DEF Stmt, Content, Kind

(* A preview is a count per key, for an account the vault has.               *)
LEMMA PreviewIs ==
    ASSUME VaultOK, NEW r \in Record, r.stmt \in DOMAIN Content(r).stmts, NEW a \in DOMAIN accounts
    PROVE  Preview(r, a) \in Previews /\ Preview(r, a) # None /\ Preview(r, a).account = a
           /\ a \in AccountIds /\ a # None
<1>1. Stmt(r).rows \in [Keys -> Nat] BY StmtIs DEF Record
<1>2. a \in AccountIds /\ books[a] \in [Keys -> Nat] BY DEF VaultOK
<1>3. Preview(r, a) \in Previews BY <1>1, <1>2 DEF Preview, Previews
<1>4. Preview(r, a).account = a BY DEF Preview
<1> QED BY <1>2, <1>3, <1>4, NoneIsNothing

(* What reading a record never changes.                                      *)
SameFile(q, r) == q.path = r.path /\ q.stmt = r.stmt /\ q.pending = r.pending /\ q.rescan = r.rescan
                  /\ q.remember = r.remember

(* A record that was read may be pointed at any account: its preview is      *)
(* computed for that one.                                                    *)
LEMMA PointedOK ==
    ASSUME VaultOK, NEW r, RecOK(r), NEW a \in DOMAIN accounts, r.parsed
    PROVE  LET q == [r EXCEPT !.preview = Preview(r, a), !.account = a, !.outcome = "ready"]
           IN RecOK(q) /\ Fresh(q) /\ SameFile(q, r) /\ q.parsed
<1>1. r \in Record /\ r.stmt \in DOMAIN Content(r).stmts BY DEF RecOK, Whole
<1>2. Preview(r, a) \in Previews /\ Preview(r, a) # None /\ Preview(r, a).account = a
      /\ a \in AccountIds /\ a # None
  BY <1>1, PreviewIs
<1> DEFINE q == [r EXCEPT !.preview = Preview(r, a), !.account = a, !.outcome = "ready"]
<1>3. /\ q \in Record /\ q.path = r.path /\ q.stmt = r.stmt /\ q.preview = Preview(r, a)
      /\ q.account = a
      /\ q.outcome = "ready" /\ q.parsed = r.parsed /\ q.text = r.text /\ q.mapping = r.mapping
      /\ q.tried = r.tried /\ q.pending = r.pending /\ q.rescan = r.rescan
      /\ q.remember = r.remember
  BY <1>1, <1>2 DEF Record
<1> HIDE DEF q
<1>4. Content(q) = Content(r) /\ Stmt(q) = Stmt(r) /\ Lck(q) = Lck(r) /\ Layout(q) = Layout(r)
      /\ Kind(q) = Kind(r)
      /\ Preview(q, a) = Preview(r, a)
  BY <1>3 DEF Content, Stmt, Lck, Layout, Kind, Preview
<1>5. RecOK(q) BY <1>1, <1>2, <1>3, <1>4 DEF RecOK, Whole, Untried, Blocking
<1>6. Fresh(q) BY <1>3, <1>4 DEF Fresh
<1> QED BY <1>3, <1>5, <1>6 DEF q, SameFile

(* set_account keeps a record, and leaves one alone that is not read or is   *)
(* over.                                                                     *)
LEMMA SetAccountOK ==
    ASSUME VaultOK, NEW r, RecOK(r), Fresh(r), NEW a \in DOMAIN accounts
    PROVE  /\ RecOK(SetAccount(r, a)) /\ Fresh(SetAccount(r, a)) /\ SameFile(SetAccount(r, a), r)
           /\ SetAccount(r, a).parsed = r.parsed
           /\ ~r.parsed => SetAccount(r, a) = r
<1>1. CASE ~r.parsed \/ r.outcome \in Terminal BY <1>1 DEF SetAccount, SameFile
<1>2. CASE r.parsed /\ r.outcome \notin Terminal
  <2>1. PICK q : q = [r EXCEPT !.preview = Preview(r, a), !.account = a, !.outcome = "ready"] OBVIOUS
  <2>2. RecOK(q) /\ Fresh(q) /\ SameFile(q, r) /\ q.parsed BY <1>2, <2>1, PointedOK
  <2>3. q.parsed = r.parsed BY <1>2, <2>1 DEF RecOK, Whole, Record
  <2> QED BY <1>2, <2>1, <2>2, <2>3 DEF SetAccount
<1> QED BY <1>1, <1>2

(* What reading a file may end in.                                           *)
ReadAs(s, r) == /\ RecOK(s) /\ Fresh(s) /\ SameFile(s, r)
                /\ s.outcome \in {"failed", "needs_password", "needs_mapping", "needs_account", "ready"}

(* A record without a preview may end.                                       *)
LEMMA OutcomeOK ==
    ASSUME NEW r, Whole(r), r.preview = None, NEW o \in {"failed", "not_attempted", "skipped"}
    PROVE  LET s == [r EXCEPT !.outcome = o]
           IN RecOK(s) /\ Fresh(s) /\ SameFile(s, r) /\ s.outcome = o /\ s.preview = None
             /\ s.parsed = r.parsed
<1> DEFINE s == [r EXCEPT !.outcome = o]
<1>1. r \in Record BY DEF Whole
<1>2. /\ s \in Record /\ s.outcome = o /\ s.path = r.path /\ s.stmt = r.stmt
      /\ s.preview = r.preview /\ s.account = r.account
      /\ s.parsed = r.parsed /\ s.text = r.text /\ s.mapping = r.mapping /\ s.tried = r.tried
      /\ s.pending = r.pending
      /\ s.rescan = r.rescan /\ s.remember = r.remember
  BY <1>1 DEF Record, Terminal
<1> HIDE DEF s
<1>3. Content(s) = Content(r) /\ Lck(s) = Lck(r) /\ Layout(s) = Layout(r) /\ Kind(s) = Kind(r)
  BY <1>2 DEF Content, Lck, Layout, Kind
<1>4. RecOK(s) BY <1>2, <1>3 DEF RecOK, Whole, Untried, Blocking
<1>5. Fresh(s) BY <1>2 DEF Fresh
<1> QED BY <1>2, <1>4, <1>5 DEF SameFile, s

(* A parsed file is ready for the account it names, or waits for the owner   *)
(* to name one, or failed.                                                   *)
LEMMA SettleParseOK ==
    ASSUME VaultOK, NEW r, Whole(r), r.outcome = "waiting", r.mapping # "misfit",
           r.pending # None => r.pending = Lck(r)
    PROVE  ReadAs(SettleParse(r), r) /\ SettleParse(r).outcome \notin Blocking
<1>0. r \in Record /\ r.preview = None /\ r.account = None
  BY DEF Whole, Terminal
<1> DEFINE p == [r EXCEPT !.parsed = TRUE]
           q == [p EXCEPT !.outcome = "needs_account"]
           a == MatchAccount(Stmt(r).hint)
<1>1. /\ q \in Record /\ q.outcome = "needs_account" /\ q.parsed /\ q.path = r.path
      /\ q.stmt = r.stmt /\ q.preview = None
      /\ q.account = None /\ q.text = r.text /\ q.mapping = r.mapping /\ q.tried = r.tried
      /\ q.pending = r.pending
      /\ q.rescan = r.rescan /\ q.remember = r.remember
  BY <1>0 DEF Record, Unsettled
<1>2. /\ p.parsed /\ p.outcome = "waiting" /\ p.path = r.path /\ p.stmt = r.stmt
  BY <1>0 DEF Record
<1>3. [p EXCEPT !.outcome = "failed"] = [q EXCEPT !.outcome = "failed"]
  BY <1>0 DEF Record
<1>4. ASSUME NEW v, NEW b PROVE [p EXCEPT !.preview = v, !.account = b, !.outcome = "ready"]
                                = [q EXCEPT !.preview = v, !.account = b, !.outcome = "ready"]
  BY <1>0 DEF Record
<1> HIDE DEF p, q
<1>5. Content(q) = Content(r) /\ Lck(q) = Lck(r) /\ Layout(q) = Layout(r) /\ Kind(q) = Kind(r)
      /\ Stmt(q) = Stmt(r) /\ Stmt(p) = Stmt(r)
  BY <1>1, <1>2 DEF Content, Lck, Layout, Kind, Stmt
<1>6. RecOK(q) BY <1>1, <1>5 DEF RecOK, Whole, Untried, Blocking, Terminal
<1>7. CASE Stmt(r).span = None
  <2>1. SettleParse(r) = [q EXCEPT !.outcome = "failed"] BY <1>3, <1>7 DEF SettleParse, p
  <2>2. PICK s : s = [q EXCEPT !.outcome = "failed"] OBVIOUS
  <2>3. RecOK(s) /\ Fresh(s) /\ SameFile(s, q) /\ s.outcome = "failed"
    <3>1. Whole(q) /\ q.preview = None BY <1>1, <1>6 DEF RecOK
    <3>2. LET t == [q EXCEPT !.outcome = "failed"]
          IN /\ RecOK(t) /\ Fresh(t) /\ SameFile(t, q) /\ t.outcome = "failed" /\ t.preview = None
             /\ t.parsed = q.parsed
      BY <3>1, OutcomeOK
    <3> QED BY ONLY <2>2, <3>2
  <2> QED BY <1>1, <2>1, <2>2, <2>3 DEF ReadAs, SameFile, Blocking
<1>8. CASE Stmt(r).span # None /\ a = None
  <2>1. SettleParse(r) = q BY <1>8 DEF SettleParse, p, q
  <2>2. Fresh(q) BY <1>1 DEF Fresh
  <2> QED BY <1>1, <1>6, <2>1, <2>2 DEF ReadAs, SameFile, Blocking
<1>9. CASE Stmt(r).span # None /\ a # None
  <2>1. a \in DOMAIN accounts BY <1>9, MatchIs
  <2>2. SettleParse(r) = SetAccount(p, a) BY <1>9 DEF SettleParse, p
  <2>3. SetAccount(p, a) = [p EXCEPT !.preview = Preview(p, a), !.account = a, !.outcome = "ready"]
    BY <1>2 DEF SetAccount, Terminal
  <2>4. Preview(p, a) = Preview(q, a) BY <1>5 DEF Preview
  <2>5. PICK s : s = [q EXCEPT !.preview = Preview(q, a), !.account = a, !.outcome = "ready"]
    BY Zenon
  <2>6. SettleParse(r) = s BY <1>4, <2>2, <2>3, <2>4, <2>5
  <2>7. RecOK(s) /\ Fresh(s) /\ SameFile(s, q) BY <1>1, <1>6, <2>1, <2>5, PointedOK
  <2>8. s.outcome = "ready" BY <1>1, <2>5 DEF Record
  <2> QED BY <1>1, <2>6, <2>7, <2>8 DEF ReadAs, SameFile, Blocking
<1> QED BY <1>7, <1>8, <1>9

-------------------------------------------------------------------------------
(* Reading a file.                                                           *)

(* What is still to be asked about it.                                       *)
Open(s, run) == /\ s.outcome = "needs_password" => Lck(s) \notin {None} \cup PasswordLadder(run)
                /\ s.outcome = "needs_mapping" => Layout(s) \notin DOMAIN profiles

(* A table is read with the mapping it was given or the one its layout has   *)
(* saved, and asks for one only when neither is there.                       *)
LEMMA ScanCsvOK ==
    ASSUME VaultOK, NEW r, Whole(r), r.outcome = "waiting", Kind(r) # "ofx",
           r.pending # None => r.pending = Lck(r),
           NEW run
    PROVE  ReadAs(ScanCsv(r), r) /\ Open(ScanCsv(r), run)
           /\ (r.mapping # None => ScanCsv(r).outcome # "needs_mapping")
           /\ ScanCsv(r).outcome # "needs_password"
<1>0. r \in Record /\ r.preview = None /\ r.account = None /\ ~r.parsed
  BY DEF Whole, Terminal
<1> DEFINE t == [r EXCEPT !.text = TRUE]
           layout == Content(r).layout
<1>1. /\ t \in Record /\ t.text /\ t.outcome = "waiting" /\ ~t.parsed /\ t.path = r.path
      /\ t.stmt = r.stmt /\ t.preview = None
      /\ t.account = None /\ t.mapping = r.mapping /\ t.tried = r.tried /\ t.pending = r.pending
      /\ t.rescan = r.rescan /\ t.remember = r.remember
  BY <1>0 DEF Record
<1>2. Content(t) = Content(r) /\ Lck(t) = Lck(r) /\ Layout(t) = Layout(r) /\ Kind(t) = Kind(r)
      /\ Stmt(t) = Stmt(r)
      /\ Layout(r) = layout
  BY <1>1 DEF Content, Lck, Layout, Kind, Stmt
<1>3. Whole(t) BY <1>1, <1>2 DEF Whole, Blocking
<1>4. CASE r.mapping = "misfit"
  <2>1. PICK s : s = [t EXCEPT !.outcome = "failed"] OBVIOUS
  <2>2. ScanCsv(r) = s BY <1>4, <2>1 DEF ScanCsv
  <2>3. RecOK(s) /\ Fresh(s) /\ SameFile(s, t) /\ s.outcome = "failed" BY <1>1, <1>3, <2>1,
        OutcomeOK
  <2> QED BY <1>1, <2>2, <2>3 DEF ReadAs, Open, SameFile
<1>5. CASE r.mapping # "misfit" /\ r.mapping # None
  <2>1. ScanCsv(r) = SettleParse(t) BY <1>5 DEF ScanCsv
  <2>2. ReadAs(SettleParse(t), t) /\ SettleParse(t).outcome \notin Blocking
    <3> HIDE DEF t
    <3> QED BY <1>1, <1>2, <1>3, <1>5, SettleParseOK
  <2> QED BY <1>1, <2>1, <2>2 DEF ReadAs, Open, Blocking, SameFile
<1>6. CASE r.mapping = None /\ layout \in DOMAIN profiles
  <2>1. PICK m : m = profiles[layout] OBVIOUS
  <2>2. m = Needed(layout) /\ m # None /\ m # "misfit" /\ m \in Mappings
    BY <1>6, <2>1, NeededIs, NoneIsNothing DEF VaultOK, Mappings
  <2>3. PICK u : u = [t EXCEPT !.mapping = m] OBVIOUS
  <2>4. /\ u \in Record /\ u.text /\ u.outcome = "waiting" /\ ~u.parsed /\ u.path = r.path
        /\ u.stmt = r.stmt /\ u.preview = None
        /\ u.account = None /\ u.mapping = m /\ u.tried = r.tried /\ u.pending = r.pending
        /\ u.rescan = r.rescan /\ u.remember = r.remember
    BY <1>0, <2>2, <2>3 DEF Record
  <2>5. Content(u) = Content(r) /\ Lck(u) = Lck(r) /\ Layout(u) = Layout(r) /\ Kind(u) = Kind(r)
    BY <2>4 DEF Content, Lck, Layout, Kind
  <2>6. Whole(u) BY <2>4, <2>5, <1>2, <2>2, <1>3, <1>1 DEF Whole, Blocking
  <2>7. ScanCsv(r) = SettleParse(u) BY <1>6, <2>1, <2>2, <2>3, NoneIsNothing DEF ScanCsv, Mappings
  <2>8. ReadAs(SettleParse(u), u) /\ SettleParse(u).outcome \notin Blocking
    BY <2>2, <2>4, <2>5, <2>6, SettleParseOK
  <2> QED BY <1>6, <2>4, <2>7, <2>8 DEF ReadAs, Open, Blocking, SameFile
<1>7. CASE r.mapping = None /\ layout \notin DOMAIN profiles
  <2>1. PICK s : s = [t EXCEPT !.outcome = "needs_mapping"] OBVIOUS
  <2>2. ScanCsv(r) = s BY <1>7, <2>1, NoneIsNothing DEF ScanCsv, Mappings
  <2>3. /\ s \in Record /\ s.text /\ s.outcome = "needs_mapping" /\ ~s.parsed /\ s.path = r.path
        /\ s.stmt = r.stmt /\ s.preview = None
        /\ s.account = None /\ s.mapping = None /\ s.tried = r.tried /\ s.pending = r.pending
        /\ s.rescan = r.rescan /\ s.remember = r.remember
    BY <1>0, <1>7, <2>1 DEF Record, Unsettled, Blocking
  <2>4. Content(s) = Content(r) /\ Lck(s) = Lck(r) /\ Layout(s) = Layout(r) /\ Kind(s) = Kind(r)
    BY <2>3 DEF Content, Lck, Layout, Kind
  <2>5. RecOK(s) BY <1>3, <1>1, <1>2, <2>3, <2>4 DEF RecOK, Whole, Untried, Terminal
  <2>6. Fresh(s) BY <2>3 DEF Fresh
  <2> QED BY <1>2, <1>7, <2>2, <2>3, <2>4, <2>5, <2>6 DEF ReadAs, Open, SameFile
<1> QED BY <1>4, <1>5, <1>6, <1>7

(* A PDF asks for a password only when none that is stored or was typed      *)
(* opens it.                                                                 *)
LEMMA ScanPdfOK ==
    ASSUME VaultOK, NEW r, RecOK(r), r.outcome = "waiting", Kind(r) = "pdf",
           NEW run \in SUBSET Passwords,
           ~r.text /\ r.pending # None /\ Lck(r) \in {None} \cup PasswordLadder(run)
             => r.pending = Lck(r)
    PROVE  ReadAs(ScanPdf(r, run), r) /\ Open(ScanPdf(r, run), run)
           /\ (r.mapping # None => ScanPdf(r, run).outcome # "needs_mapping")
           /\ (r.text => ScanPdf(r, run).outcome # "needs_password")
<1>0. r \in Record /\ r.preview = None /\ r.account = None /\ ~r.parsed /\ Whole(r) /\ Untried(r)
  BY DEF RecOK, Whole, Terminal
<1> DEFINE try == ({None} \cup PasswordLadder(run)) \ r.tried
           tried == [r EXCEPT !.tried = @ \cup try]
<1>1. CASE r.text
  <2>1. ScanPdf(r, run) = ScanCsv(r) BY <1>1 DEF ScanPdf
  <2>2. r.pending # None => r.pending = Lck(r) BY <1>0, <1>1 DEF Whole
  <2> QED BY <1>0, <2>1, <2>2, ScanCsvOK
<1>2. CASE ~r.text
  <2>1. try \in SUBSET Words
    BY DEF VaultOK, Words, PasswordLadder, StoredPasswords
  <2>2. /\ tried \in Record /\ tried.tried = r.tried \cup try
        /\ tried.text = r.text /\ tried.outcome = "waiting" /\ ~tried.parsed
        /\ tried.path = r.path /\ tried.stmt = r.stmt
        /\ tried.preview = None /\ tried.account = None /\ tried.mapping = r.mapping
        /\ tried.pending = r.pending
        /\ tried.rescan = r.rescan /\ tried.remember = r.remember
    <3> HIDE DEF try
    <3> QED BY <1>0, <2>1 DEF Record
  <2>3. PICK t : t = tried OBVIOUS
  <2>4. PICK y : y = try OBVIOUS
  <2>5. ScanPdf(r, run) = IF Lck(r) \notin y THEN [t EXCEPT !.outcome = "needs_password"]
                          ELSE IF Content(r).bank THEN SettleParse(t) ELSE ScanCsv(t)
    BY <1>2, <2>3, <2>4 DEF ScanPdf, Lck
  <2>6. /\ t \in Record /\ t.tried = r.tried \cup y
        /\ t.text = r.text /\ t.outcome = "waiting" /\ ~t.parsed /\ t.path = r.path
        /\ t.stmt = r.stmt
        /\ t.preview = None /\ t.account = None /\ t.mapping = r.mapping /\ t.pending = r.pending
        /\ t.rescan = r.rescan /\ t.remember = r.remember
    BY <2>2, <2>3, <2>4
  <2>7. Lck(r) \notin r.tried BY <1>0, <1>2 DEF Untried
  <2>8. Lck(r) \in y <=> Lck(r) \in {None} \cup PasswordLadder(run) BY <2>4, <2>7
  <2> HIDE DEF try, tried
  <2>9. Content(t) = Content(r) /\ Lck(t) = Lck(r) /\ Layout(t) = Layout(r) /\ Kind(t) = Kind(r)
        /\ Stmt(t) = Stmt(r)
    BY <2>6 DEF Content, Lck, Layout, Kind, Stmt
  <2>10. Whole(t) BY <1>0, <2>6, <2>9 DEF Whole
  <2>11. r.mapping = None BY <1>0, <1>2 DEF Whole
  <2>12. CASE Lck(r) \notin y
    <3>1. PICK s : s = [t EXCEPT !.outcome = "needs_password"] OBVIOUS
    <3>2. ScanPdf(r, run) = s BY <2>5, <2>12, <3>1
    <3>3. /\ s \in Record /\ s.text = r.text /\ s.outcome = "needs_password" /\ ~s.parsed
          /\ s.path = r.path /\ s.stmt = r.stmt
          /\ s.preview = None /\ s.account = None /\ s.mapping = r.mapping /\ s.tried = t.tried
          /\ s.pending = r.pending
          /\ s.rescan = r.rescan /\ s.remember = r.remember
      BY <2>6, <3>1 DEF Record, Unsettled, Blocking
    <3>4. Content(s) = Content(r) /\ Lck(s) = Lck(r) /\ Layout(s) = Layout(r) /\ Kind(s) = Kind(r)
      BY <3>3 DEF Content, Lck, Layout, Kind
    <3>5. Whole(s) BY <1>0, <1>2, <2>11, <3>3, <3>4 DEF Whole, Terminal
    <3>6. Untried(s) BY <2>6, <2>7, <2>12, <3>3, <3>4 DEF Untried
    <3>7. Fresh(s) BY <3>3 DEF Fresh
    <3> QED BY <1>2, <2>8, <2>12, <3>2, <3>3, <3>4, <3>5, <3>6, <3>7 DEF ReadAs, Open, RecOK,
        SameFile
  <2>13. CASE Lck(r) \in y
    <3>1. t.pending # None => t.pending = Lck(t) BY <1>2, <2>6, <2>8, <2>9, <2>13
    <3>2. CASE Content(r).bank
      <4>1. ScanPdf(r, run) = SettleParse(t) BY <2>5, <2>13, <3>2
      <4>2. t.mapping # "misfit" BY <2>6, <2>11, NoneIsNothing DEF Mappings
      <4>3. ReadAs(SettleParse(t), t) /\ SettleParse(t).outcome \notin Blocking
        BY <2>6, <2>10, <3>1, <4>2, SettleParseOK
      <4> QED BY <2>6, <4>1, <4>3 DEF ReadAs, Open, Blocking, SameFile
    <3>3. CASE ~Content(r).bank
      <4>1. ScanPdf(r, run) = ScanCsv(t) BY <2>5, <2>13, <3>3
      <4>2. ReadAs(ScanCsv(t), t) /\ Open(ScanCsv(t), run) BY <2>6, <2>9, <2>10, <3>1, ScanCsvOK
      <4> QED BY <1>2, <2>6, <2>11, <4>1, <4>2 DEF ReadAs, SameFile
    <3> QED BY <3>2, <3>3
  <2> QED BY <2>12, <2>13
<1> QED BY <1>1, <1>2

(* A record nothing was done to.                                             *)
Unopened(r) == /\ r.outcome \in {"waiting", "not_attempted"} /\ ~r.text /\ ~r.parsed
               /\ r.pending = None
             /\ r.mapping = None /\ r.preview = None /\ ~r.rescan

(* A new record, field by field.                                             *)
LEMMA BatchFileIs ==
    ASSUME NEW path \in DOMAIN Library
    PROVE  LET b == BatchFile(path)
           IN b \in Record /\ b.path = path /\ b.stmt = 1 /\ b.outcome = "waiting" /\ ~b.parsed
             /\ ~b.text /\ b.mapping = None
              /\ b.preview = None /\ b.account = None /\ b.tried = {} /\ b.pending = None
              /\ ~b.rescan
BY DEF BatchFile, Record, Unsettled, Terminal

(* A record nothing was done to is sound.                                    *)
LEMMA UnreadOK ==
    ASSUME NEW r \in Record, r.stmt \in DOMAIN Content(r).stmts,
           r.outcome \in {"waiting", "not_attempted"}, ~r.parsed, ~r.text,
           r.mapping = None, r.preview = None, r.account = None, r.tried = {}, r.pending = None,
             ~r.rescan
    PROVE  RecOK(r) /\ Unopened(r)
BY DEF RecOK, Whole, Untried, Terminal, Blocking, Unopened

(* So is a new one, refused by the cap or not.                               *)
LEMMA BatchFileOK ==
    ASSUME NEW path \in DOMAIN Library, NEW o \in {"waiting", "not_attempted"}
    PROVE  LET r == [BatchFile(path) EXCEPT !.outcome = o]
           IN RecOK(r) /\ Unopened(r) /\ r.path = path /\ r.outcome = o
<1> DEFINE r == [BatchFile(path) EXCEPT !.outcome = o]
<1>1. PICK b : b = BatchFile(path) OBVIOUS
<1>2. b \in Record /\ b.path = path /\ b.stmt = 1 /\ b.outcome = "waiting" /\ ~b.parsed
      /\ ~b.text /\ b.mapping = None
              /\ b.preview = None /\ b.account = None /\ b.tried = {} /\ b.pending = None
              /\ ~b.rescan
  BY <1>1, BatchFileIs
<1>3. r = [b EXCEPT !.outcome = o] BY <1>1
<1> HIDE DEF r
<1>4. r \in Record /\ r.path = path /\ r.stmt = 1 /\ r.outcome = o /\ ~r.parsed /\ ~r.text
      /\ r.mapping = None
              /\ r.preview = None /\ r.account = None /\ r.tried = {} /\ r.pending = None
              /\ ~r.rescan
  BY <1>2, <1>3 DEF Record, Unsettled, Terminal
<1>5. r.stmt \in DOMAIN Content(r).stmts BY <1>4, FilesAreRead DEF Content
<1>6. RecOK(r) /\ Unopened(r) BY <1>4, <1>5, UnreadOK
<1> QED BY <1>4, <1>6 DEF r

(* What reading a file makes of its record, and of those it fans out to.     *)
Scanned(new, r, run) ==
    /\ new \in Seq(Record) /\ Len(new) >= 1
    /\ \A i \in DOMAIN new :
          /\ RecOK(new[i]) /\ Fresh(new[i]) /\ Open(new[i], run) /\ new[i].path = r.path
          /\ new[i].outcome \in {"failed", "needs_password", "needs_mapping", "needs_account", "ready"}
          /\ IF i = 1 THEN new[i].pending = r.pending /\ new[i].rescan = r.rescan
                      ELSE new[i].pending = None /\ ~new[i].rescan
    /\ r.mapping # None => new[1].outcome # "needs_mapping"
    /\ r.text => new[1].outcome # "needs_password"

(* Reading a file gives at least one record, each sound, and asks only what  *)
(* has no answer.                                                            *)
LEMMA ScanOK ==
    ASSUME VaultOK, NEW r, RecOK(r), r.outcome = "waiting", NEW run \in SUBSET Passwords,
           ~r.text /\ r.pending # None => Kind(r) = "pdf"
               /\ (Lck(r) \in {None} \cup PasswordLadder(run) => r.pending = Lck(r))
    PROVE  Scanned(Scan(r, run), r, run) /\ (Kind(r) # "ofx" => Len(Scan(r, run)) = 1)
<1>0. r \in Record /\ r.preview = None /\ r.account = None /\ ~r.parsed /\ Whole(r) /\ Untried(r)
      /\ r.path \in DOMAIN Library
  BY DEF RecOK, Whole, Terminal, Record
<1>1. ASSUME NEW s, Scan(r, run) = <<s>>, ReadAs(s, r), Open(s, run),
      r.mapping # None => s.outcome # "needs_mapping",
             r.text => s.outcome # "needs_password"
      PROVE  Scanned(Scan(r, run), r, run) /\ (Kind(r) # "ofx" => Len(Scan(r, run)) = 1)
  <2>1. s \in Record BY <1>1 DEF ReadAs, RecOK, Whole
  <2>2. DOMAIN <<s>> = {1} /\ Len(<<s>>) = 1 /\ <<s>> \in Seq(Record) /\ <<s>>[1] = s BY <2>1
  <2>3. Scanned(<<s>>, r, run)
    <3> SUFFICES ASSUME NEW i \in DOMAIN <<s>>
      PROVE i = 1 /\ RecOK(s) /\ Fresh(s) /\ Open(s, run) /\ s.path = r.path
          /\ s.outcome \in {"failed", "needs_password", "needs_mapping", "needs_account", "ready"}
          /\ s.pending = r.pending /\ s.rescan = r.rescan
      BY <1>1, <2>2 DEF Scanned
    <3> QED BY <1>1, <2>2 DEF ReadAs, SameFile
  <2> QED BY <1>1, <2>2, <2>3
<1>2. CASE ~Content(r).ok
  <2>1. PICK s : s = [r EXCEPT !.outcome = "failed"] OBVIOUS
  <2>2. Scan(r, run) = <<s>> BY <1>2, <2>1 DEF Scan
  <2>3. RecOK(s) /\ Fresh(s) /\ SameFile(s, r) /\ s.outcome = "failed" BY <1>0, <2>1, OutcomeOK
  <2> QED BY <1>1, <2>2, <2>3 DEF ReadAs, Open
<1>3. CASE Content(r).ok /\ Kind(r) = "pdf"
  <2>1. Scan(r, run) = <<ScanPdf(r, run)>> BY <1>3 DEF Scan, Kind
  <2>2. ReadAs(ScanPdf(r, run), r) /\ Open(ScanPdf(r, run), run)
        /\ (r.mapping # None => ScanPdf(r, run).outcome # "needs_mapping")
        /\ (r.text => ScanPdf(r, run).outcome # "needs_password") BY <1>3, ScanPdfOK
  <2>3. PICK s : s = ScanPdf(r, run) OBVIOUS
  <2> QED BY <1>1, <2>1, <2>2, <2>3
<1>4. CASE Content(r).ok /\ Kind(r) = "csv"
  <2>1. Scan(r, run) = <<ScanCsv(r)>> BY <1>4 DEF Scan, Kind
  <2>0. r.pending # None => r.pending = Lck(r) BY <1>0, <1>4 DEF Whole
  <2>2. ReadAs(ScanCsv(r), r) /\ Open(ScanCsv(r), run)
        /\ (r.mapping # None => ScanCsv(r).outcome # "needs_mapping")
        /\ ScanCsv(r).outcome # "needs_password" BY <1>0, <1>4, <2>0, ScanCsvOK
  <2>3. PICK s : s = ScanCsv(r) OBVIOUS
  <2> QED BY <1>1, <2>1, <2>2, <2>3
<1>5. CASE Content(r).ok /\ Kind(r) = "ofx"
  <2>1. Scan(r, run) = ScanOfx(r) BY <1>5 DEF Scan, Kind
  <2>2. ~r.text /\ r.pending = None /\ r.mapping = None
    BY <1>0, <1>5 DEF Whole
  <2>3. PICK n : n = Len(Content(r).stmts) OBVIOUS
  <2>4. n \in Nat /\ n >= 1 /\ DOMAIN Content(r).stmts = 1..n
    BY <1>0, <2>3, FilesAreRead DEF Content
  <2> DEFINE at(i) == [IF i = 1 THEN r ELSE BatchFile(r.path) EXCEPT !.stmt = i]
  <2>5. ScanOfx(r) = [i \in 1..n |-> SettleParse(at(i))] BY <2>3 DEF ScanOfx
  <2>6. ASSUME NEW i \in 1..n
        PROVE  /\ Whole(at(i)) /\ at(i).outcome = "waiting" /\ at(i).mapping = None
               /\ at(i).pending = None
               /\ at(i).path = r.path /\ (i = 1 => at(i).rescan = r.rescan)
                  /\ (i # 1 => ~at(i).rescan)
    <3>1. CASE i = 1
      <4>1. PICK s : s = [r EXCEPT !.stmt = 1] OBVIOUS
      <4>2. at(i) = s BY <3>1, <4>1
      <4>3. /\ s \in Record /\ s.text = r.text /\ s.outcome = "waiting" /\ ~s.parsed
            /\ s.path = r.path /\ s.stmt = 1
            /\ s.preview = None /\ s.account = None /\ s.mapping = None /\ s.tried = r.tried
            /\ s.pending = None
            /\ s.rescan = r.rescan
        BY <1>0, <2>2, <4>1 DEF Record
      <4>4. Content(s) = Content(r) /\ Lck(s) = Lck(r) /\ Layout(s) = Layout(r) /\ Kind(s) = Kind(r)
        BY <4>3 DEF Content, Lck, Layout, Kind
      <4>5. Whole(s) BY <1>0, <2>2, <2>4, <4>3, <4>4 DEF Whole, Terminal
      <4> QED BY <3>1, <4>2, <4>3, <4>5
    <3>2. CASE i # 1
      <4>1. PICK b : b = BatchFile(r.path) OBVIOUS
      <4>2. b \in Record /\ b.path = r.path /\ b.stmt = 1 /\ b.outcome = "waiting" /\ ~b.parsed
            /\ ~b.text /\ b.mapping = None
              /\ b.preview = None /\ b.account = None /\ b.tried = {} /\ b.pending = None
              /\ ~b.rescan
        BY <1>0, <4>1, BatchFileIs
      <4>3. PICK s : s = [b EXCEPT !.stmt = i] OBVIOUS
      <4>4. at(i) = s BY <3>2, <4>1, <4>3
      <4>5. s \in Record /\ s.path = r.path /\ s.stmt = i /\ s.outcome = "waiting" /\ ~s.parsed
            /\ ~s.text /\ s.mapping = None
              /\ s.preview = None /\ s.account = None /\ s.tried = {} /\ s.pending = None
              /\ ~s.rescan
        BY <2>4, <4>2, <4>3 DEF Record
      <4>6. s.stmt \in DOMAIN Content(s).stmts BY <2>4, <4>5 DEF Content
      <4>7. RecOK(s) BY <4>5, <4>6, UnreadOK
      <4> QED BY <3>2, <4>4, <4>5, <4>7 DEF RecOK
    <3> QED BY <3>1, <3>2
  <2>7. ASSUME NEW i \in 1..n
        PROVE  ReadAs(SettleParse(at(i)), at(i)) /\ SettleParse(at(i)).outcome \notin Blocking
    <3>1. PICK s : s = at(i) OBVIOUS
    <3>2. Whole(s) /\ s.outcome = "waiting" /\ s.mapping = None /\ s.pending = None BY <2>6, <3>1
    <3>3. s.mapping # "misfit" BY <3>2, NoneIsNothing DEF Mappings
    <3>4. ReadAs(SettleParse(s), s) /\ SettleParse(s).outcome \notin Blocking
      BY <3>2, <3>3, SettleParseOK
    <3> QED BY <3>1, <3>4
  <2>8. PICK new : new = [i \in 1..n |-> SettleParse(at(i))] OBVIOUS
  <2> HIDE DEF at
  <2>9. \A i \in 1..n : new[i] \in Record BY <2>7, <2>8 DEF ReadAs, RecOK, Whole
  <2>10. new \in Seq(Record) /\ Len(new) = n /\ DOMAIN new = 1..n BY <2>4, <2>8, <2>9
  <2>11. ASSUME NEW i \in 1..n
         PROVE /\ RecOK(new[i]) /\ Fresh(new[i]) /\ Open(new[i], run) /\ new[i].path = r.path
               /\ new[i].outcome \in {"failed", "needs_password", "needs_mapping", "needs_account", "ready"}
               /\ IF i = 1 THEN new[i].pending = r.pending /\ new[i].rescan = r.rescan
                           ELSE new[i].pending = None /\ ~new[i].rescan
    <3>1. PICK s, t : s = at(i) /\ t = SettleParse(s) OBVIOUS
    <3>2. new[i] = t BY <2>8, <3>1
    <3>3. ReadAs(t, s) /\ t.outcome \notin Blocking BY <2>7, <3>1
    <3>4. s.mapping = None /\ s.pending = None /\ s.path = r.path
          /\ (i = 1 => s.rescan = r.rescan) /\ (i # 1 => ~s.rescan)
      BY <2>6, <3>1
    <3> QED BY <2>2, <3>2, <3>3, <3>4 DEF ReadAs, SameFile, Open, Blocking
  <2>12. Scanned(new, r, run) BY <2>2, <2>4, <2>10, <2>11 DEF Scanned
  <2> QED BY <1>5, <2>1, <2>5, <2>8, <2>12
<1>6. Kind(r) \in {"csv", "ofx", "pdf"} BY <1>0, FilesAreRead DEF Kind, Content
<1> QED BY <1>2, <1>3, <1>4, <1>5, <1>6

-------------------------------------------------------------------------------
(* Lists of records: the scan and the questions.                             *)

(* Two records that differ in their marks only: asked, remember, rescan.     *)
Alike(s, r) == /\ s.path = r.path /\ s.stmt = r.stmt /\ s.outcome = r.outcome
               /\ s.parsed = r.parsed /\ s.text = r.text
               /\ s.mapping = r.mapping /\ s.preview = r.preview /\ s.account = r.account
               /\ s.tried = r.tried
               /\ s.pending = r.pending

(* Soundness does not look at the marks.                                     *)
LEMMA AlikeOK ==
    ASSUME NEW r, RecOK(r), NEW s \in Record, Alike(s, r)
    PROVE  RecOK(s) /\ (Fresh(r) => Fresh(s)) /\ Lck(s) = Lck(r) /\ Layout(s) = Layout(r)
           /\ Stmt(s) = Stmt(r) /\ Kind(s) = Kind(r)
<1>1. Content(s) = Content(r) /\ Lck(s) = Lck(r) /\ Layout(s) = Layout(r) /\ Kind(s) = Kind(r)
      /\ Stmt(s) = Stmt(r)
  BY DEF Alike, Content, Lck, Layout, Kind, Stmt
<1>2. RecOK(s) BY <1>1 DEF Alike, RecOK, Whole, Untried
<1>3. Preview(s, r.account) = Preview(r, r.account) BY <1>1 DEF Preview
<1>4. Fresh(r) => Fresh(s) BY <1>3 DEF Alike, Fresh
<1> QED BY <1>1, <1>2, <1>4

(* A list rebuilt record by record.                                          *)
LEMMA SameLen ==
    ASSUME NEW fs \in Seq(Record), NEW gs, gs = [j \in DOMAIN fs |-> gs[j]],
           \A j \in DOMAIN fs : gs[j] \in Record
    PROVE  gs \in Seq(Record) /\ Len(gs) = Len(fs) /\ DOMAIN gs = DOMAIN fs
<1>1. Len(fs) \in Nat /\ DOMAIN fs = 1..Len(fs) OBVIOUS
<1>2. DOMAIN gs = 1..Len(fs) BY <1>1
<1>3. gs \in Seq(Record) BY <1>1, <1>2
<1> QED BY <1>1, <1>2, <1>3

(* A list with one record replaced.                                          *)
LEMMA Replace ==
    ASSUME NEW fs \in Seq(Record), NEW i \in DOMAIN fs, NEW r \in Record
    PROVE  LET gs == [fs EXCEPT ![i] = r]
           IN gs \in Seq(Record) /\ Len(gs) = Len(fs) /\ DOMAIN gs = DOMAIN fs /\ gs[i] = r
              /\ \A j \in DOMAIN fs : j # i => gs[j] = fs[j]
OBVIOUS

(* The records of a batch that has not begun to import.                      *)
Drawn(fs) == fs \in Seq(Record) /\ \A i \in DOMAIN fs : RecOK(fs[i]) /\ Fresh(fs[i])

(* The records that wait for an answer.                                      *)
BlockedIn(fs) == {i \in DOMAIN fs : fs[i].outcome \in Blocking}

(* Read as far as idx.                                                       *)
Scanning(fs, idx) ==
    /\ Drawn(fs)
    /\ \A i \in DOMAIN fs : /\ ~fs[i].rescan /\ fs[i].pending = None /\ Open(fs[i], {})
                            /\ i < idx => fs[i].outcome # "waiting"
                            /\ i >= idx => Unopened(fs[i])

(* No question is open that has an answer, but for the records queued for a  *)
(* second reading.                                                           *)
AskOK(fs, run, saved) == \A i \in DOMAIN fs :
    /\ fs[i].outcome # "waiting"
    /\ fs[i].outcome = "needs_password" /\ ~fs[i].rescan
       => Lck(fs[i]) \notin {None} \cup PasswordLadder(run)
    /\ fs[i].outcome = "needs_mapping" /\ ~fs[i].rescan => Layout(fs[i]) \notin saved \/ Full(fs)
    /\ fs[i].outcome = "needs_password" /\ fs[i].pending # None =>
          ~fs[i].rescan /\ \A j \in BlockedIn(fs) : i <= j

(* Whether the draft cap is reached depends on which statements were parsed. *)
LEMMA FullKept ==
    ASSUME NEW fs, NEW gs, DOMAIN gs = DOMAIN fs,
           \A i \in DOMAIN fs : gs[i].path = fs[i].path /\ gs[i].stmt = fs[i].stmt
             /\ gs[i].parsed = fs[i].parsed
    PROVE  Full(gs) = Full(fs)
<1>1. \A i \in DOMAIN fs : Sum(Stmt(gs[i]).rows) = Sum(Stmt(fs[i]).rows)
  BY DEF Stmt, Content
<1>2. [i \in DOMAIN gs |-> Sum(Stmt(gs[i]).rows)] = [i \in DOMAIN fs |-> Sum(Stmt(fs[i]).rows)]
  BY <1>1
<1>3. {i \in DOMAIN gs : gs[i].parsed} = {i \in DOMAIN fs : fs[i].parsed} OBVIOUS
<1>4. \A hs : DraftTotal(hs) = Total([i \in DOMAIN hs |-> Sum(Stmt(hs[i]).rows)], {i \in DOMAIN hs : hs[i].parsed})
  BY DEF DraftTotal, Total
<1>5. DraftTotal(gs) = DraftTotal(fs) BY <1>2, <1>3, <1>4
<1> QED BY <1>5 DEF Full

(* When every file was read, nothing typed is an answer yet, and the         *)
(* questions may begin.                                                      *)
LEMMA ScanEnds ==
    ASSUME NEW fs, NEW idx, Scanning(fs, idx), NEW run, run = {}, \A i \in DOMAIN fs : i < idx
    PROVE  AskOK(fs, run, DOMAIN profiles)
BY DEF Scanning, AskOK, Open

(* A scan stopped has read what it has read, and attempts nothing more.      *)
LEMMA StopFromScanOK ==
    ASSUME NEW fs, NEW idx \in Nat, Scanning(fs, idx)
    PROVE  LET gs == StopFrom(fs, idx)
           IN Scanning(gs, Len(fs) + 1) /\ Len(gs) = Len(fs) /\ DOMAIN gs = DOMAIN fs
              /\ \A i \in DOMAIN fs : i < idx => gs[i] = fs[i]
<1>1. PICK gs : gs = StopFrom(fs, idx) OBVIOUS
<1>2. fs \in Seq(Record) /\ Len(fs) \in Nat /\ DOMAIN fs = 1..Len(fs) BY DEF Scanning, Drawn
<1>3. gs = [j \in DOMAIN fs |-> gs[j]] /\ \A j \in DOMAIN fs :
        gs[j] = IF j >= idx /\ fs[j].outcome \in {"waiting", "ready"}
                THEN [fs[j] EXCEPT !.outcome = "not_attempted"] ELSE fs[j]
  BY <1>1 DEF StopFrom
<1>4. ASSUME NEW j \in DOMAIN fs, j < idx PROVE gs[j] = fs[j]
  BY <1>2, <1>3, <1>4
<1>5. ASSUME NEW j \in DOMAIN fs
      PROVE  /\ RecOK(gs[j]) /\ Fresh(gs[j]) /\ gs[j] \in Record /\ ~gs[j].rescan
             /\ gs[j].pending = None /\ Open(gs[j], {})
             /\ gs[j].outcome # "waiting"
  <2>0. RecOK(fs[j]) /\ Fresh(fs[j]) /\ Open(fs[j], {}) /\ ~fs[j].rescan /\ fs[j].pending = None
        /\ fs[j] \in Record
    BY DEF Scanning, Drawn, RecOK, Whole
  <2>1. CASE j < idx
    BY <1>4, <2>0, <2>1 DEF Scanning
  <2>2. CASE j >= idx
    <3>1. Unopened(fs[j]) BY <2>2 DEF Scanning
    <3>2. CASE fs[j].outcome = "waiting"
      <4>1. PICK r, s : r = fs[j] /\ s = [r EXCEPT !.outcome = "not_attempted"] OBVIOUS
      <4>2. gs[j] = s BY <1>3, <2>2, <3>2, <4>1
      <4>3. RecOK(s) /\ Fresh(s) /\ SameFile(s, r) /\ s.outcome = "not_attempted"
        BY <2>0, <3>1, <4>1, OutcomeOK DEF RecOK, Unopened
      <4> QED BY <2>0, <4>1, <4>2, <4>3 DEF SameFile, Open, RecOK, Whole
    <3>3. CASE fs[j].outcome # "waiting"
      <4>1. gs[j] = fs[j] BY <1>3, <3>1, <3>3 DEF Unopened
      <4> QED BY <2>0, <3>3, <4>1
    <3> QED BY <3>2, <3>3
  <2> QED BY <1>2, <2>1, <2>2
<1>6. gs \in Seq(Record) /\ Len(gs) = Len(fs) /\ DOMAIN gs = DOMAIN fs BY <1>2, <1>3, <1>5, SameLen
<1>7. Scanning(gs, Len(fs) + 1)
  <2>1. \A j \in DOMAIN gs : ~(j >= Len(fs) + 1) BY <1>2, <1>6
  <2> QED BY <1>5, <1>6, <2>1 DEF Scanning, Drawn
<1> QED BY <1>1, <1>4, <1>6, <1>7

(* A scan reads the next file, and those it fans out to, and no other.       *)
LEMMA ScanStepOK ==
    ASSUME VaultOK, typed = {}, NEW fs, NEW idx \in Nat \ {0}, idx <= Len(fs), Scanning(fs, idx)
    PROVE  LET st == ScanStep(fs, idx)
           IN /\ Scanning(st.files, st.next) /\ st.next \in Nat \ {0}
              /\ \A i \in DOMAIN fs : i < idx => i \in DOMAIN st.files /\ st.files[i] = fs[i]
<1>0. fs \in Seq(Record) /\ Len(fs) \in Nat /\ DOMAIN fs = 1..Len(fs) /\ idx \in DOMAIN fs
  BY DEF Scanning, Drawn
<1>1. CASE fs[idx].outcome \in Terminal
  <2>1. ScanStep(fs, idx) = [files |-> fs, next |-> idx + 1] BY <1>1 DEF ScanStep
  <2>2. Scanning(fs, idx + 1)
    <3> SUFFICES ASSUME NEW i \in DOMAIN fs
                 PROVE  (i < idx + 1 => fs[i].outcome # "waiting")
                        /\ (i >= idx + 1 => Unopened(fs[i]))
      BY DEF Scanning
    <3>1. i \in Nat BY <1>0
    <3>2. i < idx + 1 => i < idx \/ i = idx BY <3>1
    <3>3. i >= idx + 1 => i >= idx BY <3>1
    <3>4. i < idx => fs[i].outcome # "waiting" BY DEF Scanning
    <3>5. i >= idx => Unopened(fs[i]) BY DEF Scanning
    <3>6. i = idx => fs[i].outcome # "waiting" BY <1>1 DEF Terminal
    <3> QED BY <3>2, <3>3, <3>4, <3>5, <3>6
  <2> QED BY <2>1, <2>2
<1>2. CASE fs[idx].outcome \notin Terminal /\ Full(fs)
  <2>1. ScanStep(fs, idx) = [files |-> StopFrom(fs, idx), next |-> Len(fs) + 1] BY <1>2 DEF ScanStep
  <2>2. Scanning(StopFrom(fs, idx), Len(fs) + 1) /\ Len(StopFrom(fs, idx)) = Len(fs)
        /\ DOMAIN StopFrom(fs, idx) = DOMAIN fs
        /\ \A i \in DOMAIN fs : i < idx => StopFrom(fs, idx)[i] = fs[i]
    BY StopFromScanOK
  <2> QED BY <1>0, <2>1, <2>2
<1>3. CASE fs[idx].outcome \notin Terminal /\ ~Full(fs)
  <2>1. PICK r : r = fs[idx] OBVIOUS
  <2>2. PICK new : new = Scan(r, {}) OBVIOUS
  <2>3. PICK gs : gs = Splice(fs, idx, new) OBVIOUS
  <2>4. ScanStep(fs, idx) = [files |-> gs, next |-> idx + Len(new)]
    BY <1>3, <2>1, <2>2, <2>3 DEF ScanStep
  <2>5. RecOK(r) /\ Unopened(r) BY <1>0, <2>1 DEF Scanning, Drawn
  <2>6. Scanned(new, r, {})
    <3>1. r.outcome = "waiting" BY <1>3, <2>1, <2>5 DEF Unopened, Terminal
    <3>2. {} \in SUBSET Passwords /\ r.pending = None BY <2>5 DEF Unopened
    <3> QED BY <2>2, <2>5, <3>1, <3>2, ScanOK
  <2>7. PICK n : n = Len(new) OBVIOUS
  <2>8. n \in Nat /\ n >= 1 /\ DOMAIN new = 1..n /\ new \in Seq(Record) BY <2>6, <2>7 DEF Scanned
  <2>9. /\ gs \in Seq(Record) /\ Len(gs) = Len(fs) + n - 1
        /\ \A i \in 1..Len(gs) : /\ i < idx => gs[i] = fs[i]
                                 /\ i >= idx /\ i < idx + n => gs[i] = new[i - idx + 1]
                                 /\ i >= idx + n => gs[i] = fs[i - n + 1]
    <3>1. PICK A, B : A = SubSeq(fs, 1, idx - 1) /\ B = SubSeq(fs, idx + 1, Len(fs)) OBVIOUS
    <3>2. A \in Seq(Record) /\ Len(A) = idx - 1 /\ \A i \in 1..(idx - 1) : A[i] = fs[i]
      BY <1>0, <3>1
    <3>3. B \in Seq(Record) /\ Len(B) = Len(fs) - idx
          /\ \A i \in 1..(Len(fs) - idx) : B[i] = fs[idx + i]
      <4>1. idx + 1 \in Int /\ Len(fs) \in Int /\ \A i \in (idx + 1)..Len(fs) : fs[i] \in Record
        <5>1. \A i \in 1..Len(fs) : fs[i] \in Record BY <1>0
        <5>2. \A i \in (idx + 1)..Len(fs) : i \in 1..Len(fs) BY <1>0
        <5> QED BY <1>0, <5>1, <5>2
      <4>2. PICK m : m = idx + 1 OBVIOUS
      <4>3. /\ B \in Seq(Record) /\ Len(B) = IF m <= Len(fs) THEN Len(fs) - m + 1 ELSE 0
            /\ \A i \in 1..(Len(fs) - m + 1) : B[i] = fs[m + i - 1]
        BY <3>1, <4>1, <4>2, SubSeqProperties
      <4>4. Len(fs) - m + 1 = Len(fs) - idx BY <1>0, <4>2
      <4>5. Len(B) = Len(fs) - idx
        <5>1. CASE m <= Len(fs) BY <4>3, <4>4, <5>1
        <5>2. CASE ~(m <= Len(fs))
          <6>0. PICK n0 : n0 = Len(fs) OBVIOUS
          <6>a. n0 \in Nat /\ idx <= n0 /\ idx \in Nat BY <1>0, <6>0
          <6>b. ~(idx + 1 <= n0) BY <4>2, <5>2, <6>0
          <6>c. idx = n0 BY ONLY <6>a, <6>b
          <6>1. idx = Len(fs) BY <6>0, <6>c
          <6>2. Len(B) = 0 BY <4>3, <5>2
          <6> QED BY <1>0, <6>1, <6>2
        <5> QED BY <5>1, <5>2
      <4>6. \A i \in 1..(Len(fs) - idx) : m + i - 1 = idx + i BY <1>0, <4>2
      <4> QED BY <4>3, <4>4, <4>5, <4>6
    <3>4. PICK AN : AN = A \o new OBVIOUS
    <3>5. AN \in Seq(Record) /\ Len(AN) = idx - 1 + n
          /\ \A i \in 1..(idx - 1 + n) : AN[i] = IF i <= idx - 1 THEN A[i] ELSE new[i - (idx - 1)]
      <4>1. /\ AN \in Seq(Record) /\ Len(AN) = Len(A) + Len(new)
            /\ \A i \in 1..Len(A) + Len(new) : AN[i] = IF i <= Len(A) THEN A[i] ELSE new[i - Len(A)]
        BY <2>8, <3>2, <3>4, ConcatProperties
      <4> QED BY <2>7, <3>2, <4>1
    <3>6. gs = AN \o B BY <2>3, <3>1, <3>4 DEF Splice
    <3>7. gs \in Seq(Record) /\ Len(gs) = idx - 1 + n + (Len(fs) - idx)
          /\ \A i \in 1..Len(gs) : gs[i] = IF i <= idx - 1 + n THEN AN[i] ELSE B[i - (idx - 1 + n)]
      <4>1. /\ gs \in Seq(Record) /\ Len(gs) = Len(AN) + Len(B)
            /\ \A i \in 1..Len(AN) + Len(B) : gs[i] = IF i <= Len(AN) THEN AN[i] ELSE B[i - Len(AN)]
        BY <3>3, <3>5, <3>6, ConcatProperties
      <4> QED BY <3>3, <3>5, <4>1
    <3>8. Len(gs) = Len(fs) + n - 1 BY <3>7, <2>8, <1>0
    <3> SUFFICES ASSUME NEW i \in 1..Len(gs)
                 PROVE  /\ i < idx => gs[i] = fs[i]
                        /\ i >= idx /\ i < idx + n => gs[i] = new[i - idx + 1]
                        /\ i >= idx + n => gs[i] = fs[i - n + 1]
      BY <3>7, <3>8
    <3>9. i \in Nat /\ i >= 1 /\ i <= Len(fs) + n - 1 BY <3>8, <2>8, <1>0
    <3>10. ASSUME i < idx PROVE gs[i] = fs[i]
      <4>1. i <= idx - 1 /\ i <= idx - 1 + n /\ i \in 1..(idx - 1) /\ i \in 1..(idx - 1 + n)
        BY <3>9, <3>10, <2>8
      <4> QED BY <3>2, <3>5, <3>7, <4>1
    <3>11. ASSUME i >= idx /\ i < idx + n PROVE gs[i] = new[i - idx + 1]
      <4>1. ~(i <= idx - 1) /\ i <= idx - 1 + n /\ i \in 1..(idx - 1 + n)
            /\ i - (idx - 1) = i - idx + 1 BY <3>9, <3>11, <2>8
      <4> QED BY <3>5, <3>7, <4>1
    <3>12. ASSUME i >= idx + n PROVE gs[i] = fs[i - n + 1]
      <4>1. ~(i <= idx - 1 + n) /\ i - (idx - 1 + n) \in 1..(Len(fs) - idx)
            /\ idx + (i - (idx - 1 + n)) = i - n + 1
        BY <3>9, <3>12, <2>8, <1>0
      <4> QED BY <3>3, <3>7, <4>1
    <3> QED BY <3>10, <3>11, <3>12
  <2>10. DOMAIN gs = 1..Len(gs) /\ Len(gs) \in Nat BY <2>9
  <2>11. Scanning(gs, idx + n)
    <3> SUFFICES ASSUME NEW i \in DOMAIN gs
                 PROVE  /\ RecOK(gs[i]) /\ Fresh(gs[i]) /\ ~gs[i].rescan /\ gs[i].pending = None
                        /\ Open(gs[i], {})
                        /\ i < idx + n => gs[i].outcome # "waiting"
                        /\ i >= idx + n => Unopened(gs[i])
      BY <2>9 DEF Scanning, Drawn
    <3>0. i \in Nat /\ i >= 1 /\ i <= Len(fs) + n - 1 BY <2>9, <2>10, <2>8, <1>0
    <3>1. CASE i < idx
      <4>1. i \in DOMAIN fs /\ gs[i] = fs[i] /\ ~(i >= idx + n) BY <1>0, <2>8, <2>9, <2>10, <3>0,
            <3>1
      <4> QED BY <3>1, <4>1 DEF Scanning, Drawn
    <3>2. CASE i >= idx /\ i < idx + n
      <4>1. PICK j : j = i - idx + 1 OBVIOUS
      <4>2. j \in DOMAIN new /\ gs[i] = new[j] /\ ~(i >= idx + n) BY <2>8, <2>9, <2>10, <3>0,
            <3>2, <4>1
      <4>3. RecOK(new[j]) /\ Fresh(new[j]) /\ Open(new[j], {}) /\ new[j].outcome # "waiting"
            /\ ~new[j].rescan
            /\ new[j].pending = None
        BY <2>5, <2>6, <4>2 DEF Scanned, Unopened
      <4> QED BY <4>2, <4>3
    <3>3. CASE i >= idx + n
      <4>1. PICK j : j = i - n + 1 OBVIOUS
      <4>2. j \in DOMAIN fs /\ gs[i] = fs[j] /\ j >= idx /\ ~(i < idx + n) BY <1>0, <2>8, <2>9,
            <2>10, <3>0, <3>3, <4>1
      <4> QED BY <4>2 DEF Scanning, Drawn
    <3> QED BY <2>8, <3>0, <3>1, <3>2, <3>3
  <2>12. \A i \in DOMAIN fs : i < idx => i \in DOMAIN gs /\ gs[i] = fs[i] BY <1>0, <2>8, <2>9, <2>10
  <2>13. idx + n \in Nat \ {0} BY <2>8
  <2> QED BY <2>4, <2>7, <2>11, <2>12, <2>13
<1> QED BY <1>1, <1>2, <1>3

(* A list is kept: nothing that was read is unread.                          *)
Kept(gs, fs) == /\ gs \in Seq(Record) /\ Len(gs) = Len(fs) /\ DOMAIN gs = DOMAIN fs
                /\ \A j \in DOMAIN fs : fs[j].parsed => gs[j].parsed

(* Reading a blocked file again asks only what is still unanswered.          *)
LEMMA RescannedOK ==
    ASSUME VaultOK, NEW r, RecOK(r), r.outcome \in Blocking, NEW run \in SUBSET Passwords,
           ~r.text /\ r.pending # None /\ Lck(r) \in {None} \cup PasswordLadder(run)
             => r.pending = Lck(r)
    PROVE  LET s == Rescanned(r, run)
           IN /\ RecOK(s) /\ Fresh(s) /\ Open(s, run) /\ s.path = r.path /\ s.pending = r.pending
              /\ s.rescan = r.rescan
              /\ s.outcome \in {"failed", "needs_password", "needs_mapping", "needs_account", "ready"}
              /\ r.mapping # None => s.outcome # "needs_mapping"
              /\ r.text => s.outcome # "needs_password"
<1>1. PICK q : q = [r EXCEPT !.outcome = "waiting"] OBVIOUS
<1>2. r \in Record /\ Whole(r) /\ Untried(r) BY DEF RecOK, Whole
<1>3. /\ q \in Record /\ q.outcome = "waiting" /\ q.path = r.path /\ q.stmt = r.stmt
      /\ q.preview = r.preview /\ q.account = r.account
      /\ q.parsed = r.parsed /\ q.text = r.text /\ q.mapping = r.mapping /\ q.tried = r.tried
      /\ q.pending = r.pending
      /\ q.rescan = r.rescan /\ q.remember = r.remember
  BY <1>1, <1>2 DEF Record, Unsettled
<1>4. Content(q) = Content(r) /\ Lck(q) = Lck(r) /\ Layout(q) = Layout(r) /\ Kind(q) = Kind(r)
  BY <1>3 DEF Content, Lck, Layout, Kind
<1>5. /\ r.outcome = "needs_password" \/ r.outcome = "needs_mapping"
      /\ r.outcome = "needs_password" => Kind(r) = "pdf" /\ ~r.text
      /\ r.outcome = "needs_mapping" => r.text
      /\ Kind(r) # "ofx"
      /\ ~r.text => Kind(r) = "pdf"
  <2>1. r.outcome = "needs_password" \/ r.outcome = "needs_mapping" BY DEF Blocking
  <2>2. r.outcome = "needs_password" => Kind(r) = "pdf" /\ ~r.text BY <1>2 DEF Whole
  <2>3. r.outcome = "needs_mapping" => r.text BY <1>2 DEF Whole
  <2>4. r.text => Kind(r) # "ofx" BY <1>2 DEF Whole
  <2>5. CASE r.outcome = "needs_password" BY <2>2, <2>5
  <2>6. CASE r.outcome = "needs_mapping" BY <2>3, <2>4, <2>6
  <2> QED BY <2>1, <2>5, <2>6
<1>6. ~r.parsed /\ r.preview = None BY <1>2 DEF Whole, Blocking, Terminal
<1>7. RecOK(q) BY <1>2, <1>3, <1>4, <1>5, <1>6 DEF RecOK, Whole, Untried, Terminal
<1>8. ~q.text /\ q.pending # None => Kind(q) = "pdf"
      /\ (Lck(q) \in {None} \cup PasswordLadder(run) => q.pending = Lck(q))
  BY <1>3, <1>4, <1>5
<1>9. Scanned(Scan(q, run), q, run) /\ Len(Scan(q, run)) = 1
  BY <1>3, <1>4, <1>5, <1>7, <1>8, ScanOK
<1>10. PICK new : new = Scan(q, run) OBVIOUS
<1>11. 1 \in DOMAIN new BY <1>9, <1>10 DEF Scanned
<1>12. Rescanned(r, run) = new[1] BY <1>1, <1>10 DEF Rescanned
<1> QED BY <1>3, <1>9, <1>10, <1>11, <1>12 DEF Scanned

(* A blocked file may be skipped, or left when the cap is reached.           *)
LEMMA LetGoOK ==
    ASSUME NEW fs, Drawn(fs), NEW i \in BlockedIn(fs), NEW o \in {"not_attempted", "skipped"},
           NEW run, NEW saved,
           AskOK(fs, run, saved), NEW more, more = saved \/ Full(fs)
    PROVE  LET gs == [fs EXCEPT ![i].outcome = o]
           IN Drawn(gs) /\ AskOK(gs, run, more) /\ Kept(gs, fs) /\ gs[i].outcome = o
<1>0. fs \in Seq(Record) /\ i \in DOMAIN fs /\ fs[i].outcome \in Blocking BY DEF Drawn, BlockedIn
<1>1. PICK r, s : r = fs[i] /\ s = [r EXCEPT !.outcome = o] OBVIOUS
<1>2. PICK gs : gs = [fs EXCEPT ![i].outcome = o] OBVIOUS
<1>3. gs = [fs EXCEPT ![i] = s] BY <1>1, <1>2
<1>4. RecOK(r) /\ r.preview = None /\ ~r.parsed
  <2>1. RecOK(r) /\ r.outcome \in Blocking BY <1>0, <1>1 DEF Drawn
  <2>2. /\ r.preview # None => r.outcome \in {"ready", "already_imported"} \cup Terminal
        /\ r.outcome \in {"waiting"} \cup Blocking => ~r.parsed
    BY <2>1 DEF RecOK, Whole
  <2> QED BY ONLY <2>1, <2>2 DEF Terminal, Blocking
<1>5. RecOK(s) /\ Fresh(s) /\ SameFile(s, r) /\ s.outcome = o /\ s.parsed = r.parsed
  <2>1. Whole(r) /\ r.preview = None BY <1>4 DEF RecOK
  <2>2. LET t == [r EXCEPT !.outcome = o]
        IN /\ RecOK(t) /\ Fresh(t) /\ SameFile(t, r) /\ t.outcome = o /\ t.preview = None
           /\ t.parsed = r.parsed
    BY <2>1, OutcomeOK
  <2> QED BY ONLY <1>1, <2>2
<1>6. s \in Record BY <1>5 DEF RecOK, Whole
<1>7. gs \in Seq(Record) /\ Len(gs) = Len(fs) /\ DOMAIN gs = DOMAIN fs /\ gs[i] = s
      /\ \A j \in DOMAIN fs : j # i => gs[j] = fs[j]
  BY <1>0, <1>3, <1>6, Replace
<1>8. Drawn(gs)
  BY <1>5, <1>7 DEF Drawn
<1>9. Kept(gs, fs) BY <1>1, <1>4, <1>7 DEF Kept
<1>10. Full(gs) = Full(fs)
  <2>1. \A j \in DOMAIN fs : gs[j].path = fs[j].path /\ gs[j].stmt = fs[j].stmt
        /\ gs[j].parsed = fs[j].parsed
    BY <1>1, <1>5, <1>7 DEF SameFile
  <2> QED BY <1>7, <2>1, FullKept
<1>11. AskOK(gs, run, more)
  <2> SUFFICES ASSUME NEW j \in DOMAIN fs
               PROVE /\ gs[j].outcome # "waiting"
                     /\ gs[j].outcome = "needs_password" /\ ~gs[j].rescan
                        => Lck(gs[j]) \notin {None} \cup PasswordLadder(run)
                     /\ gs[j].outcome = "needs_mapping" /\ ~gs[j].rescan
                        => Layout(gs[j]) \notin more \/ Full(gs)
                     /\ gs[j].outcome = "needs_password" /\ gs[j].pending # None =>
                           ~gs[j].rescan /\ \A k \in BlockedIn(gs) : j <= k
    BY <1>7 DEF AskOK
  <2>1. CASE j = i BY <1>5, <1>7, <2>1
  <2>2. CASE j # i
    <3>1. gs[j] = fs[j] BY <1>7, <2>2
    <3>2. \A k \in BlockedIn(gs) : k \in BlockedIn(fs)
      <4> TAKE k \in BlockedIn(gs)
      <4>1. k \in DOMAIN fs /\ gs[k].outcome \in Blocking BY <1>7 DEF BlockedIn
      <4>2. k # i BY <1>5, <1>7, <4>1 DEF Blocking
      <4>3. gs[k] = fs[k] BY <1>7, <4>1, <4>2
      <4> QED BY <4>1, <4>3 DEF BlockedIn
    <3> QED BY <1>10, <3>1, <3>2 DEF AskOK
  <2> QED BY <2>1, <2>2
<1> QED BY <1>2, <1>5, <1>7, <1>8, <1>9, <1>11

(* Marks on the records: how often asked, whether to remember, whether to    *)
(* read again.                                                               *)
LEMMA MarkedOK ==
    ASSUME NEW fs, Drawn(fs), NEW i \in DOMAIN fs, NEW s \in Record, Alike(s, fs[i]),
           s.rescan = fs[i].rescan \/ fs[i].outcome \notin Blocking,
           NEW run, NEW saved, AskOK(fs, run, saved)
    PROVE  LET gs == [fs EXCEPT ![i] = s]
           IN Drawn(gs) /\ AskOK(gs, run, saved) /\ Kept(gs, fs)
<1>1. PICK gs : gs = [fs EXCEPT ![i] = s] OBVIOUS
<1>2. gs \in Seq(Record) /\ Len(gs) = Len(fs) /\ DOMAIN gs = DOMAIN fs /\ gs[i] = s
      /\ \A j \in DOMAIN fs : j # i => gs[j] = fs[j]
  BY <1>1, Replace DEF Drawn
<1>3. RecOK(s) /\ Fresh(s) /\ Lck(s) = Lck(fs[i]) /\ Layout(s) = Layout(fs[i]) BY AlikeOK DEF Drawn
<1>4. Drawn(gs) BY <1>2, <1>3 DEF Drawn
<1>5. Kept(gs, fs) BY <1>2 DEF Kept, Alike
<1>6. Full(gs) = Full(fs)
  <2>1. \A j \in DOMAIN fs : gs[j].path = fs[j].path /\ gs[j].stmt = fs[j].stmt
        /\ gs[j].parsed = fs[j].parsed
    BY <1>2 DEF Alike
  <2> QED BY <1>2, <2>1, FullKept
<1>7. BlockedIn(gs) = BlockedIn(fs)
  <2>1. \A j \in DOMAIN fs : gs[j].outcome = fs[j].outcome BY <1>2 DEF Alike
  <2> QED BY <1>2, <2>1 DEF BlockedIn
<1>8. AskOK(gs, run, saved)
  <2> SUFFICES ASSUME NEW j \in DOMAIN fs
               PROVE /\ gs[j].outcome # "waiting"
                     /\ gs[j].outcome = "needs_password" /\ ~gs[j].rescan
                        => Lck(gs[j]) \notin {None} \cup PasswordLadder(run)
                     /\ gs[j].outcome = "needs_mapping" /\ ~gs[j].rescan
                        => Layout(gs[j]) \notin saved \/ Full(gs)
                     /\ gs[j].outcome = "needs_password" /\ gs[j].pending # None =>
                           ~gs[j].rescan /\ \A k \in BlockedIn(gs) : j <= k
    BY <1>2 DEF AskOK
  <2>1. CASE j = i
    BY <1>2, <1>3, <1>6, <1>7, <2>1 DEF AskOK, Alike, Blocking
  <2>2. CASE j # i
    BY <1>2, <1>6, <1>7, <2>2 DEF AskOK
  <2> QED BY <2>1, <2>2
<1> QED BY <1>1, <1>4, <1>5, <1>8

(* An answer queues the others blocked on the same kind of question, and     *)
(* changes nothing else of them.                                             *)
LEMMA QueueBlockedIs ==
    ASSUME NEW fs, Drawn(fs), NEW i, NEW outcome
    PROVE  LET gs == QueueBlocked(fs, i, outcome)
           IN /\ Drawn(gs) /\ Kept(gs, fs) /\ BlockedIn(gs) = BlockedIn(fs) /\ Full(gs) = Full(fs)
              /\ \A j \in DOMAIN fs : /\ Alike(gs[j], fs[j]) /\ Lck(gs[j]) = Lck(fs[j])
                                      /\ Layout(gs[j]) = Layout(fs[j])
                                      /\ IF j # i /\ fs[j].outcome = outcome THEN gs[j].rescan
                                         ELSE gs[j] = fs[j]
<1>1. PICK gs : gs = QueueBlocked(fs, i, outcome) OBVIOUS
<1>2. gs = [j \in DOMAIN fs |-> gs[j]] /\ \A j \in DOMAIN fs :
        gs[j] = IF j # i /\ fs[j].outcome = outcome THEN [fs[j] EXCEPT !.rescan = TRUE] ELSE fs[j]
  BY <1>1 DEF QueueBlocked
<1>3. ASSUME NEW j \in DOMAIN fs
      PROVE /\ RecOK(gs[j]) /\ Fresh(gs[j]) /\ gs[j] \in Record
            /\ Alike(gs[j], fs[j]) /\ Lck(gs[j]) = Lck(fs[j]) /\ Layout(gs[j]) = Layout(fs[j])
            /\ IF j # i /\ fs[j].outcome = outcome THEN gs[j].rescan ELSE gs[j] = fs[j]
  <2>1. PICK r, s : r = fs[j] /\ s = [r EXCEPT !.rescan = TRUE] OBVIOUS
  <2>2. RecOK(r) /\ Fresh(r) /\ r \in Record BY <2>1 DEF Drawn, RecOK, Whole
  <2>3. s \in Record /\ Alike(s, r) /\ s.rescan BY <2>1, <2>2 DEF Record, Alike
  <2>4. RecOK(s) /\ Fresh(s) /\ Lck(s) = Lck(r) /\ Layout(s) = Layout(r) BY <2>2, <2>3, AlikeOK
  <2>5. Alike(r, r) BY DEF Alike
  <2>6. gs[j] = IF j # i /\ r.outcome = outcome THEN s ELSE r BY <1>2, <2>1
  <2>7. CASE j # i /\ r.outcome = outcome
    <3>1. gs[j] = s BY <2>6, <2>7
    <3> QED BY <2>1, <2>3, <2>4, <2>7, <3>1
  <2>8. CASE ~(j # i /\ r.outcome = outcome)
    <3>1. gs[j] = r BY <2>6, <2>8
    <3> QED BY <2>1, <2>2, <2>5, <2>8, <3>1
  <2> QED BY <2>7, <2>8
<1>4. gs \in Seq(Record) /\ Len(gs) = Len(fs) /\ DOMAIN gs = DOMAIN fs
  BY <1>2, <1>3, SameLen DEF Drawn
<1>5. Drawn(gs) BY <1>3, <1>4 DEF Drawn
<1>6. Kept(gs, fs) BY <1>3, <1>4 DEF Kept, Alike
<1>7. BlockedIn(gs) = BlockedIn(fs)
  <2>1. \A j \in DOMAIN fs : gs[j].outcome = fs[j].outcome BY <1>3 DEF Alike
  <2> QED BY <1>4, <2>1 DEF BlockedIn
<1>8. Full(gs) = Full(fs)
  <2>1. \A j \in DOMAIN fs : gs[j].path = fs[j].path /\ gs[j].stmt = fs[j].stmt
        /\ gs[j].parsed = fs[j].parsed
    BY <1>3 DEF Alike
  <2> QED BY <1>4, <2>1, FullKept
<1> QED BY <1>1, <1>3, <1>5, <1>6, <1>7, <1>8

(* A password typed is tried on the file that asked, and on the others       *)
(* before they ask again.                                                    *)
LEMMA AnswerPasswordOK ==
    ASSUME VaultOK, NEW fs, Drawn(fs), typed \in SUBSET Passwords,
           AskOK(fs, typed, DOMAIN profiles),
           NEW i \in BlockedIn(fs), fs[i].outcome = "needs_password", ~fs[i].rescan,
             \A j \in BlockedIn(fs) : i <= j,
           NEW p \in Passwords
    PROVE  LET gs == AnswerPassword(fs, i, p)
           IN Drawn(gs) /\ AskOK(gs, IF Full(fs) THEN typed ELSE typed \cup {p}, DOMAIN profiles)
             /\ Kept(gs, fs)
<1>0. fs \in Seq(Record) /\ i \in DOMAIN fs /\ DOMAIN fs = 1..Len(fs) /\ Len(fs) \in Nat
  BY DEF Drawn, BlockedIn
<1>00. \A j \in DOMAIN fs : j \in Nat BY <1>0
<1>1. CASE Full(fs)
  <2>1. AnswerPassword(fs, i, p) = [fs EXCEPT ![i].outcome = "not_attempted"]
    BY <1>1 DEF AnswerPassword, Terminal
  <2>2. PICK sv : sv = DOMAIN profiles OBVIOUS
  <2>3. PICK o \in {"not_attempted", "skipped"} : o = "not_attempted" OBVIOUS
  <2>4. PICK gs : gs = [fs EXCEPT ![i].outcome = o] OBVIOUS
  <2>5. Drawn(gs) /\ AskOK(gs, typed, sv) /\ Kept(gs, fs) BY <2>2, <2>4, LetGoOK
  <2> QED BY <1>1, <2>1, <2>2, <2>3, <2>4, <2>5
<1>2. CASE ~Full(fs)
  <2>1. PICK run : run = typed \cup {p} OBVIOUS
  <2>2. PICK r : r = [fs[i] EXCEPT !.pending = p] OBVIOUS
  <2>3. PICK s : s = Rescanned(r, run) OBVIOUS
  <2>4. PICK hs : hs = [fs EXCEPT ![i] = s] OBVIOUS
  <2>5. PICK gs : gs = QueueBlocked(hs, i, "needs_password") OBVIOUS
  <2>6. AnswerPassword(fs, i, p) = gs
    BY <1>2, <2>1, <2>2, <2>3, <2>4, <2>5 DEF AnswerPassword, Terminal
  <2>7. run \in SUBSET Passwords BY <2>1
  <2>8. RecOK(fs[i]) /\ fs[i] \in Record /\ ~fs[i].parsed /\ ~fs[i].text /\ Kind(fs[i]) = "pdf"
    BY <1>0 DEF Drawn, RecOK, Whole, Blocking
  <2>9. /\ r \in Record /\ r.outcome = "needs_password" /\ r.path = fs[i].path
        /\ r.stmt = fs[i].stmt /\ r.preview = fs[i].preview
        /\ r.account = fs[i].account /\ r.parsed = fs[i].parsed /\ r.text = fs[i].text
        /\ r.mapping = fs[i].mapping
        /\ r.tried = fs[i].tried /\ r.pending = p /\ r.rescan = fs[i].rescan
    BY <2>2, <2>8 DEF Record
  <2>10. Content(r) = Content(fs[i]) /\ Lck(r) = Lck(fs[i]) /\ Layout(r) = Layout(fs[i])
         /\ Kind(r) = Kind(fs[i])
    BY <2>9 DEF Content, Lck, Layout, Kind
  <2>11. RecOK(r) BY <2>8, <2>9, <2>10 DEF RecOK, Whole, Untried
  <2>12. Lck(fs[i]) \notin {None} \cup PasswordLadder(typed) BY <1>0 DEF AskOK
  <2>13. Lck(r) \in {None} \cup PasswordLadder(run) => r.pending = Lck(r)
    BY <2>1, <2>9, <2>10, <2>12 DEF PasswordLadder
  <2>14. r.outcome \in Blocking BY <2>9 DEF Blocking
  <2>15. /\ RecOK(s) /\ Fresh(s) /\ Open(s, run) /\ s.path = r.path /\ s.pending = r.pending
         /\ s.rescan = r.rescan
         /\ s.outcome \in {"failed", "needs_password", "needs_mapping", "needs_account", "ready"}
    BY <2>3, <2>7, <2>11, <2>13, <2>14, RescannedOK
  <2>16. s \in Record BY <2>15 DEF RecOK, Whole
  <2>17. hs \in Seq(Record) /\ Len(hs) = Len(fs) /\ DOMAIN hs = DOMAIN fs /\ hs[i] = s
         /\ \A j \in DOMAIN fs : j # i => hs[j] = fs[j]
    BY <1>0, <2>4, <2>16, Replace
  <2>18. Drawn(hs) BY <2>15, <2>17 DEF Drawn
  <2>19. Kept(hs, fs) BY <2>8, <2>17 DEF Kept
  <2>20. BlockedIn(hs) \subseteq BlockedIn(fs)
    <3> SUFFICES ASSUME NEW j \in DOMAIN fs, hs[j].outcome \in Blocking
      PROVE fs[j].outcome \in Blocking
      BY <2>17 DEF BlockedIn
    <3> QED BY <2>17 DEF Blocking
  <2>21. /\ Drawn(gs) /\ Kept(gs, hs) /\ BlockedIn(gs) = BlockedIn(hs) /\ Full(gs) = Full(hs)
         /\ \A j \in DOMAIN hs : /\ Alike(gs[j], hs[j]) /\ Lck(gs[j]) = Lck(hs[j])
                                 /\ Layout(gs[j]) = Layout(hs[j])
                                 /\ IF j # i /\ hs[j].outcome = "needs_password"
                                    THEN gs[j].rescan ELSE gs[j] = hs[j]
    <3>1. PICK o : o = "needs_password" OBVIOUS
    <3>2. gs = QueueBlocked(hs, i, o) BY <2>5, <3>1
    <3> QED BY <2>18, <3>1, <3>2, QueueBlockedIs
  <2>22. Kept(gs, fs) BY <2>17, <2>19, <2>21 DEF Kept
  <2>23. AskOK(gs, run, DOMAIN profiles)
    <3> SUFFICES ASSUME NEW j \in DOMAIN fs
                 PROVE /\ gs[j].outcome # "waiting"
                       /\ gs[j].outcome = "needs_password" /\ ~gs[j].rescan
                          => Lck(gs[j]) \notin {None} \cup PasswordLadder(run)
                       /\ gs[j].outcome = "needs_mapping" /\ ~gs[j].rescan
                          => Layout(gs[j]) \notin DOMAIN profiles
                       /\ gs[j].outcome = "needs_password" /\ gs[j].pending # None =>
                             ~gs[j].rescan /\ \A k \in BlockedIn(gs) : j <= k
      BY <2>22 DEF AskOK, Kept
    <3>1. CASE j = i
      <4>1. gs[j] = s BY <2>17, <2>21, <3>1
      <4> QED BY <2>9, <2>15, <2>20, <2>21, <3>1, <4>1 DEF Open
    <3>2. CASE j # i
      <4>1. hs[j] = fs[j] BY <2>17, <3>2
      <4>2. CASE fs[j].outcome = "needs_password"
        <5>1. gs[j].rescan /\ gs[j].outcome = "needs_password" /\ gs[j].pending = fs[j].pending
          BY <2>17, <2>21, <3>2, <4>1, <4>2 DEF Alike
        <5>2. fs[j].pending = None
          <6> SUFFICES ASSUME fs[j].pending # None PROVE FALSE OBVIOUS
          <6>1. j <= i BY <4>2 DEF AskOK
          <6>2. j \in BlockedIn(fs) BY <4>2 DEF BlockedIn, Blocking
          <6>3. i <= j BY <6>2
          <6>4. i \in Nat /\ j \in Nat BY <1>0, <1>00
          <6> QED BY <3>2, <6>1, <6>3, <6>4
        <5> QED BY <5>1, <5>2
      <4>3. CASE fs[j].outcome # "needs_password"
        <5>1. gs[j] = fs[j] BY <2>17, <2>21, <4>1, <4>3
        <5> QED BY <1>2, <4>3, <5>1 DEF AskOK
      <4> QED BY <4>2, <4>3
    <3> QED BY <3>1, <3>2
  <2> QED BY <1>2, <2>1, <2>6, <2>21, <2>22, <2>23
<1> QED BY <1>1, <1>2

(* A mapping reaches the other files of its layout that wait for one.        *)
LEMMA ShareMappingIs ==
    ASSUME NEW fs, Drawn(fs), NEW i \in DOMAIN fs
    PROVE  LET gs == ShareMapping(fs, i)
           IN /\ Drawn(gs) /\ Kept(gs, fs) /\ BlockedIn(gs) = BlockedIn(fs)
              /\ \A j \in DOMAIN fs : /\ gs[j].path = fs[j].path /\ gs[j].outcome = fs[j].outcome
                                      /\ gs[j].rescan = fs[j].rescan
                                      /\ fs[j].outcome # "needs_mapping" \/ j = i => gs[j] = fs[j]
<1>1. PICK gs : gs = ShareMapping(fs, i) OBVIOUS
<1>2. PICK m : m = fs[i].mapping OBVIOUS
<1>3. gs = [j \in DOMAIN fs |-> gs[j]] /\ \A j \in DOMAIN fs :
        gs[j] = IF j # i /\ fs[j].outcome = "needs_mapping" /\ Layout(fs[j]) = Layout(fs[i])
                THEN [fs[j] EXCEPT !.mapping = m] ELSE fs[j]
  BY <1>1, <1>2 DEF ShareMapping, Layout
<1>4. m \in Mappings \cup {None} /\ (m # None => m \in {"misfit", Needed(Layout(fs[i]))})
  BY <1>2 DEF Drawn, RecOK, Whole, Record
<1>5. ASSUME NEW j \in DOMAIN fs
      PROVE /\ RecOK(gs[j]) /\ Fresh(gs[j]) /\ gs[j] \in Record
            /\ gs[j].path = fs[j].path /\ gs[j].outcome = fs[j].outcome
            /\ gs[j].rescan = fs[j].rescan /\ gs[j].parsed = fs[j].parsed
            /\ fs[j].outcome # "needs_mapping" \/ j = i => gs[j] = fs[j]
  <2>1. PICK r, s : r = fs[j] /\ s = [r EXCEPT !.mapping = m] OBVIOUS
  <2>2. RecOK(r) /\ Fresh(r) /\ r \in Record BY <2>1 DEF Drawn, RecOK, Whole
  <2>3. CASE j # i /\ r.outcome = "needs_mapping" /\ Layout(r) = Layout(fs[i])
    <3>1. gs[j] = s BY <1>3, <2>1, <2>3
    <3>2. /\ s \in Record /\ s.outcome = r.outcome /\ s.path = r.path /\ s.stmt = r.stmt
          /\ s.preview = r.preview /\ s.account = r.account
          /\ s.parsed = r.parsed /\ s.text = r.text /\ s.mapping = m /\ s.tried = r.tried
          /\ s.pending = r.pending
          /\ s.rescan = r.rescan /\ s.remember = r.remember
      BY <1>4, <2>1, <2>2 DEF Record
    <3>3. Content(s) = Content(r) /\ Lck(s) = Lck(r) /\ Layout(s) = Layout(r) /\ Kind(s) = Kind(r)
      BY <3>2 DEF Content, Lck, Layout, Kind
    <3>4. r.text /\ ~r.parsed /\ r.preview = None BY <2>2, <2>3 DEF RecOK, Whole, Blocking, Terminal
    <3>5. m # None => m \in {"misfit", Needed(Layout(r))} BY <1>4, <2>3
    <3>6. Whole(s) BY <2>2, <2>3, <3>2, <3>3, <3>4, <3>5 DEF RecOK, Whole, Terminal
    <3>7. Untried(s) BY <3>2, <3>4 DEF Untried
    <3>8. Fresh(s) BY <3>2, <3>4 DEF Fresh
    <3> QED BY <2>1, <2>3, <3>1, <3>2, <3>6, <3>7, <3>8 DEF RecOK
  <2>4. CASE ~(j # i /\ r.outcome = "needs_mapping" /\ Layout(r) = Layout(fs[i]))
    <3>1. gs[j] = r BY <1>3, <2>1, <2>4
    <3> QED BY <2>1, <2>2, <3>1
  <2> QED BY <2>3, <2>4
<1>6. gs \in Seq(Record) /\ Len(gs) = Len(fs) /\ DOMAIN gs = DOMAIN fs
  BY <1>3, <1>5, SameLen DEF Drawn
<1>7. Drawn(gs) BY <1>5, <1>6 DEF Drawn
<1>8. Kept(gs, fs) BY <1>5, <1>6 DEF Kept
<1>9. BlockedIn(gs) = BlockedIn(fs) BY <1>5, <1>6 DEF BlockedIn
<1> QED BY <1>1, <1>5, <1>7, <1>8, <1>9

(* A mapping chosen settles the file that asked.  The layout it saves is     *)
(* asked for again only when the draft cap was reached.                      *)
LEMMA AnswerMappingOK ==
    ASSUME VaultOK, NEW fs, Drawn(fs), typed \in SUBSET Passwords,
           AskOK(fs, typed, DOMAIN profiles),
           NEW i \in BlockedIn(fs), fs[i].outcome = "needs_mapping", ~fs[i].rescan,
             \A j \in BlockedIn(fs) : i <= j,
           NEW m \in {"misfit", Needed(Layout(fs[i]))}, NEW saved,
             saved \subseteq DOMAIN profiles \cup {Layout(fs[i])}
    PROVE  LET gs == AnswerMapping(fs, i, m)
           IN Drawn(gs) /\ AskOK(gs, typed, saved) /\ Kept(gs, fs)
<1>0. fs \in Seq(Record) /\ i \in DOMAIN fs /\ DOMAIN fs = 1..Len(fs) /\ Len(fs) \in Nat
  BY DEF Drawn, BlockedIn
<1>00. \A j \in DOMAIN fs : j \in Nat BY <1>0
<1>1. CASE Full(fs)
  <2>1. AnswerMapping(fs, i, m) = [fs EXCEPT ![i].outcome = "not_attempted"]
    BY <1>1 DEF AnswerMapping, Terminal
  <2>2. PICK sv : sv = DOMAIN profiles OBVIOUS
  <2>3. PICK o \in {"not_attempted", "skipped"} : o = "not_attempted" OBVIOUS
  <2>4. PICK gs : gs = [fs EXCEPT ![i].outcome = o] OBVIOUS
  <2>5. Drawn(gs) /\ AskOK(gs, typed, saved) /\ Kept(gs, fs) BY <1>1, <2>2, <2>4, LetGoOK
  <2> QED BY <2>1, <2>3, <2>4, <2>5
<1>2. CASE ~Full(fs)
  <2>2. PICK r : r = [fs[i] EXCEPT !.mapping = m] OBVIOUS
  <2>3. PICK s : s = Rescanned(r, typed) OBVIOUS
  <2>4. PICK hs : hs = [fs EXCEPT ![i] = s] OBVIOUS
  <2>a. PICK ks : ks = ShareMapping(hs, i) OBVIOUS
  <2>5. PICK gs : gs = QueueBlocked(ks, i, "needs_mapping") OBVIOUS
  <2>6. AnswerMapping(fs, i, m) = gs
    BY <1>2, <2>2, <2>3, <2>4, <2>5, <2>a DEF AnswerMapping, Terminal
  <2>8. RecOK(fs[i]) /\ fs[i] \in Record /\ ~fs[i].parsed /\ fs[i].text /\ fs[i].preview = None
    BY <1>0 DEF Drawn, RecOK, Whole, Blocking, Terminal
  <2>b. m \in Mappings /\ m # None BY NeededIs, NoneIsNothing DEF Mappings
  <2>9. /\ r \in Record /\ r.outcome = "needs_mapping" /\ r.path = fs[i].path
        /\ r.stmt = fs[i].stmt /\ r.preview = fs[i].preview
        /\ r.account = fs[i].account /\ r.parsed = fs[i].parsed /\ r.text = fs[i].text
        /\ r.mapping = m
        /\ r.tried = fs[i].tried /\ r.pending = fs[i].pending /\ r.rescan = fs[i].rescan
    <3>1. PICK w \in Record : w = fs[i] BY <2>8
    <3>2. w.outcome = "needs_mapping" BY <3>1 DEF Drawn
    <3>3. r = [w EXCEPT !.mapping = m] BY <2>2, <3>1
    <3>4. r \in Record BY <2>b, <3>3 DEF Record
    <3>5. /\ r.outcome = w.outcome /\ r.path = w.path /\ r.stmt = w.stmt /\ r.preview = w.preview
          /\ r.account = w.account /\ r.parsed = w.parsed /\ r.text = w.text /\ r.mapping = m
          /\ r.tried = w.tried /\ r.pending = w.pending /\ r.rescan = w.rescan
      BY <3>3 DEF Record
    <3> QED BY ONLY <3>1, <3>2, <3>4, <3>5
  <2>10. Content(r) = Content(fs[i]) /\ Lck(r) = Lck(fs[i]) /\ Layout(r) = Layout(fs[i])
         /\ Kind(r) = Kind(fs[i])
    BY <2>9 DEF Content, Lck, Layout, Kind
  <2>11. RecOK(r)
    <3>1. Whole(r) BY <2>8, <2>9, <2>10 DEF RecOK, Whole
    <3>2. Untried(r) BY <2>8, <2>9 DEF Untried
    <3> QED BY <3>1, <3>2 DEF RecOK
  <2>14. r.outcome \in Blocking /\ r.text BY <2>8, <2>9 DEF Blocking
  <2>15. /\ RecOK(s) /\ Fresh(s) /\ Open(s, typed) /\ s.path = r.path /\ s.pending = r.pending
         /\ s.rescan = r.rescan
         /\ s.outcome \in {"failed", "needs_account", "ready"}
    <3>1. /\ RecOK(s) /\ Fresh(s) /\ Open(s, typed) /\ s.path = r.path /\ s.pending = r.pending
          /\ s.rescan = r.rescan
          /\ s.outcome \in {"failed", "needs_password", "needs_mapping", "needs_account", "ready"}
          /\ r.mapping # None => s.outcome # "needs_mapping"
          /\ r.text => s.outcome # "needs_password"
      BY <2>3, <2>11, <2>14, RescannedOK
    <3> QED BY <2>14, <2>b, <2>9, <3>1
  <2>16. s \in Record BY <2>15 DEF RecOK, Whole
  <2>17. hs \in Seq(Record) /\ Len(hs) = Len(fs) /\ DOMAIN hs = DOMAIN fs /\ hs[i] = s
         /\ \A j \in DOMAIN fs : j # i => hs[j] = fs[j]
    BY <1>0, <2>4, <2>16, Replace
  <2>18. Drawn(hs) BY <2>15, <2>17 DEF Drawn
  <2>19. Kept(hs, fs) BY <2>8, <2>17 DEF Kept
  <2>c. /\ Drawn(ks) /\ Kept(ks, hs)
        /\ \A j \in DOMAIN hs : /\ ks[j].path = hs[j].path /\ ks[j].outcome = hs[j].outcome
                                /\ ks[j].rescan = hs[j].rescan
                                /\ hs[j].outcome # "needs_mapping" \/ j = i => ks[j] = hs[j]
    BY <1>0, <2>17, <2>18, <2>a, ShareMappingIs
  <2>21. /\ Drawn(gs) /\ Kept(gs, ks)
         /\ \A j \in DOMAIN ks : /\ Alike(gs[j], ks[j])
                                 /\ IF j # i /\ ks[j].outcome = "needs_mapping" THEN gs[j].rescan
                                    ELSE gs[j] = ks[j]
    <3>1. PICK o : o = "needs_mapping" OBVIOUS
    <3>2. gs = QueueBlocked(ks, i, o) BY <2>5, <3>1
    <3> QED BY <2>c, <3>1, <3>2, QueueBlockedIs
  <2>22. Kept(gs, fs) BY <2>17, <2>19, <2>c, <2>21 DEF Kept
  <2>d. ASSUME NEW j \in DOMAIN fs, j # i, fs[j].outcome = "needs_mapping"
        PROVE  gs[j].outcome = "needs_mapping" /\ gs[j].rescan
    BY <2>17, <2>c, <2>21, <2>d DEF Alike, Kept
  <2>e. ASSUME NEW j \in DOMAIN fs, j # i, fs[j].outcome # "needs_mapping"
        PROVE  gs[j] = fs[j]
    BY <2>17, <2>c, <2>21, <2>e DEF Kept
  <2>f. gs[i] = s BY <1>0, <2>15, <2>17, <2>c, <2>21 DEF Kept
  <2>23. AskOK(gs, typed, saved)
    <3> SUFFICES ASSUME NEW j \in DOMAIN fs
                 PROVE /\ gs[j].outcome # "waiting"
                       /\ gs[j].outcome = "needs_password" /\ ~gs[j].rescan
                          => Lck(gs[j]) \notin {None} \cup PasswordLadder(typed)
                       /\ gs[j].outcome = "needs_mapping" => gs[j].rescan
                       /\ gs[j].outcome = "needs_password" => gs[j].pending = None
      BY <2>22 DEF AskOK, Kept
    <3>1. CASE j = i
      BY <2>15, <2>f, <3>1
    <3>2. CASE j # i
      <4>2. CASE fs[j].outcome = "needs_mapping" BY <2>d, <3>2, <4>2
      <4>3. CASE fs[j].outcome # "needs_mapping"
        <5>1. gs[j] = fs[j] BY <2>e, <3>2, <4>3
        <5>2. fs[j].outcome = "needs_password" => fs[j].pending = None
          <6> SUFFICES ASSUME fs[j].outcome = "needs_password", fs[j].pending # None
            PROVE FALSE OBVIOUS
          <6>1. j <= i BY DEF AskOK
          <6>2. j \in BlockedIn(fs) BY DEF BlockedIn, Blocking
          <6>3. i <= j BY <6>2
          <6>4. i \in Nat /\ j \in Nat BY <1>0, <1>00
          <6> QED BY <3>2, <6>1, <6>3, <6>4
        <5> QED BY <4>3, <5>1, <5>2 DEF AskOK
      <4> QED BY <4>2, <4>3
    <3> QED BY <3>1, <3>2
  <2> QED BY <2>6, <2>21, <2>22, <2>23
<1> QED BY <1>1, <1>2

(* The first of a set of records.                                            *)
LEMMA LeastIs ==
    ASSUME NEW fs \in Seq(Record), NEW S \in SUBSET DOMAIN fs, S # {}
    PROVE  Min(S) \in S /\ \A j \in S : Min(S) <= j
<1>1. IsFiniteSet(DOMAIN fs) /\ DOMAIN fs \in SUBSET Int
  <2>1. DOMAIN fs = 1..Len(fs) /\ Len(fs) \in Nat OBVIOUS
  <2> QED BY <2>1, FS_Interval
<1>2. IsFiniteSet(S) /\ S \in SUBSET Int BY <1>1, FS_Subset
<1>3. \E m \in S : \A j \in S : m <= j BY <1>2, LeastInt
<1> QED BY <1>3 DEF Min

(* Reading a queued file again leaves no question with an answer.            *)
LEMMA RescanStepOK ==
    ASSUME VaultOK, NEW fs, Drawn(fs), typed \in SUBSET Passwords,
           AskOK(fs, typed, DOMAIN profiles), Queued(fs) # {}
    PROVE  LET gs == RescanStep(fs) IN Drawn(gs) /\ AskOK(gs, typed, DOMAIN profiles)
           /\ Kept(gs, fs)
<1>0. fs \in Seq(Record) BY DEF Drawn
<1>1. PICK i : i = Min(Queued(fs)) OBVIOUS
<1>2. i \in DOMAIN fs /\ fs[i].rescan
  <2>1. Queued(fs) \in SUBSET DOMAIN fs BY DEF Queued
  <2>2. i \in Queued(fs) BY <1>0, <1>1, <2>1, LeastIs
  <2> QED BY <2>2 DEF Queued
<1>3. PICK r : r = [fs[i] EXCEPT !.rescan = FALSE] OBVIOUS
<1>4. PICK hs : hs = [fs EXCEPT ![i] = r] OBVIOUS
<1>5. PICK gs : gs = RescanStep(fs) OBVIOUS
<1>6. gs = IF fs[i].outcome \notin Blocking THEN hs
           ELSE IF Full(fs) THEN [hs EXCEPT ![i].outcome = "not_attempted"]
           ELSE [hs EXCEPT ![i] = Rescanned(@, typed)]
  BY <1>1, <1>3, <1>4, <1>5 DEF RescanStep
<1>7. RecOK(fs[i]) /\ fs[i] \in Record /\ Fresh(fs[i]) BY <1>2 DEF Drawn, RecOK, Whole
<1>8. r \in Record /\ Alike(r, fs[i]) /\ ~r.rescan BY <1>3, <1>7 DEF Record, Alike
<1>9. RecOK(r) /\ Fresh(r) /\ Lck(r) = Lck(fs[i]) BY <1>7, <1>8, AlikeOK
<1>10. hs \in Seq(Record) /\ Len(hs) = Len(fs) /\ DOMAIN hs = DOMAIN fs /\ hs[i] = r
       /\ \A j \in DOMAIN fs : j # i => hs[j] = fs[j]
  BY <1>0, <1>2, <1>4, <1>8, Replace
<1>11. Drawn(hs) BY <1>9, <1>10 DEF Drawn
<1>12. Kept(hs, fs) BY <1>8, <1>10 DEF Kept, Alike
<1>13. CASE fs[i].outcome \notin Blocking
  <2>1. gs = [fs EXCEPT ![i] = r] BY <1>4, <1>6, <1>13
  <2>2. PICK sv : sv = DOMAIN profiles OBVIOUS
  <2>3. AskOK(gs, typed, sv) BY <1>2, <1>8, <1>13, <2>1, <2>2, MarkedOK
  <2> QED BY <1>4, <1>5, <1>11, <1>12, <2>1, <2>2, <2>3
<1>14. CASE fs[i].outcome \in Blocking /\ Full(fs)
  <2>1. gs = [fs EXCEPT ![i] = [r EXCEPT !.outcome = "not_attempted"]]
    <3>1. gs = [hs EXCEPT ![i] = [hs[i] EXCEPT !.outcome = "not_attempted"]] BY <1>6, <1>14
    <3>2. gs = [hs EXCEPT ![i] = [r EXCEPT !.outcome = "not_attempted"]] BY <1>10, <3>1
    <3> QED BY <1>4, <3>2
  <2>2. PICK s : s = [r EXCEPT !.outcome = "not_attempted"] OBVIOUS
  <2>3. r.preview = None /\ ~r.parsed BY <1>8, <1>9, <1>14 DEF Alike, RecOK, Whole, Terminal,
        Blocking
  <2>4. RecOK(s) /\ Fresh(s) /\ SameFile(s, r) /\ s.outcome = "not_attempted" /\ s.parsed = r.parsed
    BY <1>9, <2>2, <2>3, OutcomeOK DEF RecOK
  <2>5. s \in Record BY <2>4 DEF RecOK, Whole
  <2>6. gs \in Seq(Record) /\ Len(gs) = Len(fs) /\ DOMAIN gs = DOMAIN fs /\ gs[i] = s
        /\ \A j \in DOMAIN fs : j # i => gs[j] = fs[j]
    BY <1>0, <1>2, <2>1, <2>2, <2>5, Replace
  <2>7. Drawn(gs) BY <2>4, <2>6 DEF Drawn
  <2>8. Kept(gs, fs) BY <1>8, <2>3, <2>6 DEF Kept, Alike
  <2>9. Full(gs)
    <3>1. \A j \in DOMAIN fs : gs[j].path = fs[j].path /\ gs[j].stmt = fs[j].stmt
          /\ gs[j].parsed = fs[j].parsed
      BY <1>8, <2>4, <2>6 DEF Alike, SameFile
    <3> QED BY <1>14, <2>6, <3>1, FullKept
  <2>10. AskOK(gs, typed, DOMAIN profiles)
    <3>1. BlockedIn(gs) \subseteq BlockedIn(fs)
      <4> SUFFICES ASSUME NEW j \in DOMAIN fs, gs[j].outcome \in Blocking
        PROVE fs[j].outcome \in Blocking
        BY <2>6 DEF BlockedIn
      <4> QED BY <1>14, <2>6
    <3> SUFFICES ASSUME NEW j \in DOMAIN fs
                 PROVE /\ gs[j].outcome # "waiting"
                       /\ gs[j].outcome = "needs_password" /\ ~gs[j].rescan
                          => Lck(gs[j]) \notin {None} \cup PasswordLadder(typed)
                       /\ gs[j].outcome = "needs_password" /\ gs[j].pending # None =>
                             ~gs[j].rescan /\ \A k \in BlockedIn(gs) : j <= k
      BY <2>6, <2>9 DEF AskOK
    <3>2. CASE j = i BY <2>4, <2>6, <3>2
    <3>3. CASE j # i
      <4>1. gs[j] = fs[j] BY <2>6, <3>3
      <4> QED BY <3>1, <4>1 DEF AskOK
    <3> QED BY <3>2, <3>3
  <2> QED BY <1>5, <2>7, <2>8, <2>10
<1>15. CASE fs[i].outcome \in Blocking /\ ~Full(fs)
  <2>1. PICK s : s = Rescanned(r, typed) OBVIOUS
  <2>2. gs = [fs EXCEPT ![i] = s]
    <3>1. gs = [hs EXCEPT ![i] = Rescanned(hs[i], typed)] BY <1>6, <1>15
    <3>2. gs = [hs EXCEPT ![i] = s] BY <1>10, <2>1, <3>1
    <3> QED BY <1>4, <3>2
  <2>3. r.outcome \in Blocking BY <1>8, <1>15 DEF Alike
  <2>4. r.outcome = "needs_password" => r.pending = None BY <1>2, <1>8 DEF Alike, AskOK
  <2>5. r.outcome = "needs_mapping" => r.text BY <1>9 DEF RecOK, Whole
  <2>6. ~r.text => r.pending = None BY <2>3, <2>4, <2>5 DEF Blocking
  <2>7. /\ RecOK(s) /\ Fresh(s) /\ Open(s, typed) /\ s.path = r.path /\ s.pending = r.pending
        /\ s.rescan = r.rescan
        /\ s.outcome \in {"failed", "needs_password", "needs_mapping", "needs_account", "ready"}
        /\ r.text => s.outcome # "needs_password"
    BY <1>9, <2>1, <2>3, <2>6, RescannedOK
  <2>8. s \in Record BY <2>7 DEF RecOK, Whole
  <2>9. gs \in Seq(Record) /\ Len(gs) = Len(fs) /\ DOMAIN gs = DOMAIN fs /\ gs[i] = s
        /\ \A j \in DOMAIN fs : j # i => gs[j] = fs[j]
    BY <1>0, <1>2, <2>2, <2>8, Replace
  <2>10. Drawn(gs) BY <2>7, <2>9 DEF Drawn
  <2>11. ~fs[i].parsed BY <1>7, <1>15 DEF RecOK, Whole
  <2>12. Kept(gs, fs) BY <2>9, <2>11 DEF Kept
  <2>13. s.outcome = "needs_password" => s.pending = None
    <3>1. r.text \/ ~r.text OBVIOUS
    <3>2. CASE r.text BY <2>7, <3>2
    <3>3. CASE ~r.text BY <2>6, <2>7, <3>3
    <3> QED BY <3>1, <3>2, <3>3
  <2>14. AskOK(gs, typed, DOMAIN profiles)
    <3>1. BlockedIn(gs) \subseteq BlockedIn(fs)
      <4> SUFFICES ASSUME NEW j \in DOMAIN fs, gs[j].outcome \in Blocking
        PROVE fs[j].outcome \in Blocking
        BY <2>9 DEF BlockedIn
      <4> QED BY <1>15, <2>9
    <3> SUFFICES ASSUME NEW j \in DOMAIN fs
                 PROVE /\ gs[j].outcome # "waiting"
                       /\ gs[j].outcome = "needs_password" /\ ~gs[j].rescan
                          => Lck(gs[j]) \notin {None} \cup PasswordLadder(typed)
                       /\ gs[j].outcome = "needs_mapping" /\ ~gs[j].rescan
                          => Layout(gs[j]) \notin DOMAIN profiles
                       /\ gs[j].outcome = "needs_password" /\ gs[j].pending # None =>
                             ~gs[j].rescan /\ \A k \in BlockedIn(gs) : j <= k
      BY <2>9 DEF AskOK
    <3>2. CASE j = i BY <2>7, <2>9, <2>13, <3>2 DEF Open
    <3>3. CASE j # i
      <4>1. gs[j] = fs[j] BY <2>9, <3>3
      <4> QED BY <1>15, <3>1, <4>1 DEF AskOK
    <3> QED BY <3>2, <3>3
  <2> QED BY <1>5, <2>10, <2>12, <2>14
<1> QED BY <1>13, <1>14, <1>15

-------------------------------------------------------------------------------
(* The claims of a batch and its review.                                     *)

(* What the files of a batch lay claim to, by account and key, and what one  *)
(* file adds.                                                                *)
Claims == [AccountIds -> [Keys -> Nat]]
NoClaims == [a \in AccountIds |-> [k \in Keys |-> 0]]
ClaimStep(r, c) ==
    IF ~Live(r) THEN c
    ELSE LET a == r.preview.account  take == Take(r, c)
         IN [c EXCEPT ![a] = [k \in Keys |-> @[k] + take[k]]]

(* What a file takes of what its preview saw, after the files before it.     *)
LEMMA TakeIs ==
    ASSUME NEW r, RecOK(r), r.preview # None, NEW c \in Claims
    PROVE  /\ r.preview.account \in AccountIds /\ r.preview.fresh \in [Keys -> Nat]
           /\ c[r.preview.account] \in [Keys -> Nat] /\ Take(r, c) \in [Keys -> Nat]
<1>1. r.preview \in Previews BY DEF RecOK, Whole, Record
<1>2. r.preview.account \in AccountIds /\ r.preview.fresh \in [Keys -> Nat] BY <1>1 DEF Previews
<1>3. c[r.preview.account] \in [Keys -> Nat] BY <1>2 DEF Claims
<1>4. Take(r, c) \in [Keys -> Nat] BY <1>2, <1>3 DEF Take
<1> QED BY <1>2, <1>3, <1>4

(* A file adds to the claims.                                                *)
LEMMA ClaimStepIs ==
    ASSUME NEW r, RecOK(r), NEW c \in Claims
    PROVE  ClaimStep(r, c) \in Claims
<1>1. CASE ~Live(r) BY <1>1 DEF ClaimStep
<1>2. CASE Live(r)
  <2>1. PICK a, t : a = r.preview.account /\ t = Take(r, c) OBVIOUS
  <2>2. a \in AccountIds /\ t \in [Keys -> Nat] /\ c[a] \in [Keys -> Nat]
    BY <1>2, <2>1, TakeIs DEF Live
  <2>3. ClaimStep(r, c) = [c EXCEPT ![a] = [k \in Keys |-> c[a][k] + t[k]]]
    BY <1>2, <2>1, <2>2 DEF ClaimStep, Claims
  <2>4. PICK u : u = [k \in Keys |-> c[a][k] + t[k]] OBVIOUS
  <2>5. u \in [Keys -> Nat] BY <2>2, <2>4
  <2>6. ClaimStep(r, c) = [c EXCEPT ![a] = u] BY <2>3, <2>4
  <2> QED BY <2>2, <2>5, <2>6 DEF Claims
<1> QED BY <1>1, <1>2

(* Claimed is the fold of ClaimStep over the batch: its recursion has one    *)
(* solution.                                                                 *)
LEMMA ClaimedIs ==
    ASSUME NEW fs, Drawn(fs)
    PROVE  /\ Claimed(fs)[0] = NoClaims
           /\ \A i \in 1..Len(fs) : Claimed(fs)[i] = ClaimStep(fs[i], Claimed(fs)[i - 1])
           /\ \A i \in 0..Len(fs) : Claimed(fs)[i] \in Claims
<1>0. fs \in Seq(Record) /\ Len(fs) \in Nat /\ DOMAIN fs = 1..Len(fs) BY DEF Drawn
<1>1. NoClaims \in Claims BY DEF NoClaims, Claims
<1> DEFINE body(f, i) == IF i = 0 THEN NoClaims ELSE ClaimStep(fs[i], f[i - 1])
           IsIt(f) == f = [i \in 0..Len(fs) |-> body(f, i)]
<1>2. Claimed(fs) = CHOOSE f : IsIt(f)
  <2>1. \A f : [i \in 0..Len(fs) |-> body(f, i)]
             = [i \in 0..Len(fs) |->
                  IF i = 0 THEN [a \in AccountIds |-> [k \in Keys |-> 0]]
                  ELSE IF ~Live(fs[i]) THEN f[i - 1]
                  ELSE LET a == fs[i].preview.account  take == Take(fs[i], f[i - 1])
                       IN [f[i - 1] EXCEPT ![a] = [k \in Keys |-> @[k] + take[k]]]]
    BY DEF NoClaims, ClaimStep
  <2> QED BY <2>1 DEF Claimed
<1>3. \E f : IsIt(f)
  <2> DEFINE X == Nat \X Claims
             next(x) == IF x[1] + 1 \in DOMAIN fs THEN ClaimStep(fs[x[1] + 1], x[2]) ELSE x[2]
             F == [x \in X |-> <<x[1] + 1, next(x)>>]
  <2>1. F \in [X -> X]
    <3> SUFFICES ASSUME NEW x \in X PROVE x[1] + 1 \in Nat /\ next(x) \in Claims OBVIOUS
    <3>1. x[1] \in Nat /\ x[2] \in Claims OBVIOUS
    <3>2. CASE x[1] + 1 \in DOMAIN fs
      <4>1. RecOK(fs[x[1] + 1]) BY <3>2 DEF Drawn
      <4> QED BY <3>1, <3>2, <4>1, ClaimStepIs
    <3>3. CASE x[1] + 1 \notin DOMAIN fs BY <3>1, <3>3
    <3> QED BY <3>1, <3>2, <3>3
  <2>2. <<0, NoClaims>> \in X BY <1>1
  <2>3. PICK h \in [Nat -> X] : h[0] = <<0, NoClaims>> /\ \A n \in Nat : h[n + 1] = F[h[n]]
    <3>1. PICK Y, y0, G : Y = X /\ y0 = <<0, NoClaims>> /\ G = F OBVIOUS
    <3> HIDE DEF X, F
    <3>2. y0 \in Y /\ G \in [Y -> Y] BY <2>1, <2>2, <3>1
    <3>3. HasOrbit(Y, y0, G) BY ONLY <3>2, NatRecursion
    <3>4. \E h \in [Nat -> Y] : h[0] = y0 /\ \A n \in Nat : h[n + 1] = G[h[n]] BY ONLY <3>3 DEF HasOrbit
    <3> QED BY <3>1, <3>4
  <2>4. \A n \in Nat : h[n][1] = n
    <3> DEFINE S == {n \in Nat : h[n][1] = n}
    <3>1. 0 \in S BY <2>3
    <3>2. ASSUME NEW n \in S PROVE n + 1 \in S
      <4>1. n \in Nat /\ h[n][1] = n /\ h[n] \in X OBVIOUS
      <4>2. h[n + 1] = F[h[n]] BY <2>3, <4>1
      <4>3. F[h[n]] = <<h[n][1] + 1, next(h[n])>> BY <4>1
      <4>4. h[n + 1][1] = n + 1 BY <4>1, <4>2, <4>3
      <4> QED BY <4>1, <4>4
    <3> HIDE DEF S
    <3>3. S \in SUBSET Nat BY DEF S
    <3>4. S = Nat BY <3>1, <3>2, <3>3, NatSetInduction
    <3> QED BY <3>4 DEF S
  <2>5. PICK g : g = [i \in 0..Len(fs) |-> h[i][2]] OBVIOUS
  <2>6. ASSUME NEW i \in 0..Len(fs) PROVE g[i] = body(g, i)
    <3>1. CASE i = 0 BY <2>3, <2>5, <3>1
    <3>2. CASE i # 0
      <4>1. PICK n : n = i - 1 OBVIOUS
      <4>2. n \in Nat /\ i = n + 1 /\ n \in 0..Len(fs) /\ i \in DOMAIN fs BY <1>0, <3>2, <4>1
      <4>3. h[i] = F[h[n]] /\ h[n] \in X BY <2>3, <4>2
      <4>4. F[h[n]] = <<h[n][1] + 1, next(h[n])>> BY <4>3
      <4>5. h[i][2] = next(h[n])
        <5>1. PICK u, v : u = h[n][1] + 1 /\ v = next(h[n]) OBVIOUS
        <5>2. h[i] = <<u, v>> BY <4>3, <4>4, <5>1
        <5> QED BY <5>1, <5>2
      <4>6. h[n][1] + 1 = i BY <2>4, <4>2
      <4>7. next(h[n]) = ClaimStep(fs[i], h[n][2]) BY <4>2, <4>6
      <4>8. g[i] = h[i][2] /\ g[n] = h[n][2] BY <2>5, <4>2
      <4> HIDE DEF next, F, X
      <4> QED BY <3>2, <4>1, <4>5, <4>7, <4>8
    <3> QED BY <3>1, <3>2
  <2>7. IsIt(g) 
    <3>1. g = [i \in 0..Len(fs) |-> g[i]] BY <2>5
    <3> HIDE DEF body
    <3> QED BY <2>6, <3>1
  <2> HIDE DEF IsIt
  <2> QED BY <2>7
<1>4. PICK c : c = Claimed(fs) OBVIOUS
<1>5. IsIt(c)
  <2> HIDE DEF IsIt
  <2> QED BY <1>2, <1>3, <1>4
<1>6. c[0] = NoClaims
  <2>1. 0 \in 0..Len(fs) BY <1>0
  <2>2. c[0] = body(c, 0)
    <3> HIDE DEF body
    <3> QED BY <1>5, <2>1
  <2> QED BY <2>2
<1>7. ASSUME NEW i \in 1..Len(fs) PROVE c[i] = ClaimStep(fs[i], c[i - 1])
  <2>1. i \in 0..Len(fs) /\ i # 0 BY <1>0
  <2>2. c[i] = body(c, i)
    <3> HIDE DEF body
    <3> QED BY <1>5, <2>1
  <2> QED BY <2>1, <2>2
<1>8. \A i \in 0..Len(fs) : c[i] \in Claims
  <2> DEFINE S == {n \in Nat : n <= Len(fs) => c[n] \in Claims}
  <2>1. 0 \in S BY <1>1, <1>6
  <2>2. ASSUME NEW n \in S PROVE n + 1 \in S
    <3> SUFFICES ASSUME n + 1 <= Len(fs) PROVE c[n + 1] \in Claims OBVIOUS
    <3>1. n \in Nat /\ n <= Len(fs) /\ n + 1 \in 1..Len(fs) /\ (n + 1) - 1 = n BY <1>0
    <3>2. c[n] \in Claims BY <3>1
    <3>3. c[n + 1] = ClaimStep(fs[n + 1], c[n]) BY <1>7, <3>1
    <3>4. RecOK(fs[n + 1]) BY <1>0, <3>1 DEF Drawn
    <3> QED BY <3>2, <3>3, <3>4, ClaimStepIs
  <2> HIDE DEF S
  <2>3. S \in SUBSET Nat BY DEF S
  <2>4. S = Nat BY <2>1, <2>2, <2>3, NatSetInduction
  <2>5. \A i \in 0..Len(fs) : i \in Nat /\ i <= Len(fs) BY <1>0
  <2> QED BY <2>4, <2>5 DEF S
<1> QED BY <1>4, <1>6, <1>7, <1>8

(* The rows a base does not hold.                                            *)
Left(rows, base) == [k \in Keys |-> IF rows[k] > base[k] THEN rows[k] - base[k] ELSE 0]

(* The sum over the keys is zero only of zeros, and grows with each.         *)
LEMMA SumOfKeys ==
    ASSUME NEW f \in [Keys -> Nat]
    PROVE  /\ Sum(f) = Total(f, Keys) /\ Sum(f) \in Nat
           /\ Sum(f) = 0 => \A k \in Keys : f[k] = 0
           /\ \A g \in [Keys -> Nat] : (\A k \in Keys : f[k] <= g[k]) => Sum(f) <= Sum(g)
<1>1. IsFiniteSet(Keys) BY FilesAreRead
<1>2. \A g \in [Keys -> Nat] : Sum(g) = Total(g, Keys) BY DEF Sum, Total
<1>3. Total(f, Keys) \in Nat BY <1>1, SumNat
<1>4. ASSUME Sum(f) = 0, NEW k \in Keys PROVE f[k] = 0
  <2>1. \A x \in Keys : f[x] \in Nat OBVIOUS
  <2>2. f[k] <= Total(f, Keys) BY <1>1, <2>1, SumBounds
  <2> QED BY <1>2, <1>4, <2>1, <2>2
<1>5. ASSUME NEW g \in [Keys -> Nat], \A k \in Keys : f[k] <= g[k] PROVE Sum(f) <= Sum(g)
  <2>1. \A x \in Keys : f[x] \in Nat /\ g[x] \in Nat OBVIOUS
  <2>2. Total(f, Keys) <= Total(g, Keys) BY <1>1, <1>5, <2>1, SumGrows
  <2> QED BY <1>2, <2>2
<1> QED BY <1>2, <1>3, <1>4, <1>5

(* A claim on an account covers the file's rows beyond what the account      *)
(* holds, and is no larger than some file made it.                           *)
LEMMA ClaimGrows ==
    ASSUME VaultOK, NEW r, RecOK(r), Fresh(r), r.preview # None, NEW c \in Claims, NEW k \in Keys
    PROVE  LET a == r.account  rows == Stmt(r).rows  d == ClaimStep(r, c)
           IN /\ a \in AccountIds /\ rows[k] \in Nat /\ books[a][k] \in Nat /\ c[a][k] \in Nat
              /\ d[a][k] \in Nat
              /\ \A b \in AccountIds : b # a => d[b] = c[b]
              /\ d[a][k] >= c[a][k]
              /\ rows[k] <= books[a][k] + d[a][k]
              /\ d[a][k] = c[a][k] \/ (rows[k] = books[a][k] + d[a][k] /\ Take(r, c)[k] # 0)
              /\ Take(r, c)[k] = IF rows[k] > books[a][k] + c[a][k]
                 THEN rows[k] - (books[a][k] + c[a][k]) ELSE 0
<1>1. PICK a : a = r.account OBVIOUS
<1>2. r.preview.account = a /\ r.preview = Preview(r, a)
      /\ r.outcome \in {"ready", "already_imported"} /\ a \in DOMAIN accounts
  BY <1>1 DEF RecOK, Whole, Fresh
<1>3. Live(r) BY <1>2 DEF Live, Terminal
<1>4. PICK rows : rows = Stmt(r).rows OBVIOUS
<1>5. rows \in [Keys -> Nat] BY <1>4, StmtIs DEF RecOK, Whole, Record
<1>6. a \in AccountIds /\ books[a] \in [Keys -> Nat] /\ c[a] \in [Keys -> Nat]
  <2>1. a \in AccountIds BY <1>2 DEF VaultOK
  <2> QED BY <2>1 DEF VaultOK, Claims
<1>7. PICK d : d = ClaimStep(r, c) OBVIOUS
<1>8. PICK t : t = Take(r, c) OBVIOUS
<1>9. r.preview.fresh[k] = IF rows[k] > books[a][k] THEN rows[k] - books[a][k] ELSE 0
  BY <1>2, <1>4 DEF Preview
<1>10. t[k] = IF r.preview.fresh[k] > c[a][k] THEN r.preview.fresh[k] - c[a][k] ELSE 0
  BY <1>2, <1>8 DEF Take
<1>11. d = [c EXCEPT ![a] = [l \in Keys |-> c[a][l] + t[l]]]
  BY <1>2, <1>3, <1>6, <1>7, <1>8 DEF ClaimStep, Claims
<1>12. d[a][k] = c[a][k] + t[k] BY <1>6, <1>11 DEF Claims
<1>13. \A b \in AccountIds : b # a => d[b] = c[b] BY <1>11 DEF Claims
<1>14. PICK R, B, C, T, D, Y : R = rows[k] /\ B = books[a][k] /\ C = c[a][k] /\ T = t[k]
       /\ D = d[a][k] /\ Y = r.preview.fresh[k] OBVIOUS
<1>15. R \in Nat /\ B \in Nat /\ C \in Nat BY <1>5, <1>6, <1>14
<1>16. Y = (IF R > B THEN R - B ELSE 0) /\ T = (IF Y > C THEN Y - C ELSE 0) /\ D = C + T
  BY <1>9, <1>10, <1>12, <1>14
<1>17. /\ D \in Nat /\ D >= C /\ R <= B + D /\ (D = C \/ (R = B + D /\ T # 0))
       /\ T = IF R > B + C THEN R - (B + C) ELSE 0
  BY ONLY <1>15, <1>16
<1> QED BY <1>1, <1>4, <1>6, <1>7, <1>8, <1>13, <1>14, <1>15, <1>17

(* The review recounts the records that have a preview, and changes no       *)
(* other.                                                                    *)
LEMMA ReviewIs ==
    ASSUME VaultOK, NEW fs, Drawn(fs)
    PROVE  LET gs == Review(fs)
           IN /\ Drawn(gs) /\ Kept(gs, fs)
              /\ \A i \in DOMAIN fs :
                    /\ fs[i].preview = None => gs[i] = fs[i]
                    /\ fs[i].preview # None =>
                         /\ gs[i].new = NewCount(fs, i)
                         /\ gs[i].outcome \in {"ready", "already_imported"}
                         /\ gs[i].outcome = "already_imported" => gs[i].new = 0
                         /\ gs[i].new # 0 => gs[i].outcome = "ready"
                    /\ gs[i].path = fs[i].path /\ gs[i].stmt = fs[i].stmt
                    /\ gs[i].preview = fs[i].preview
                    /\ gs[i].account = fs[i].account /\ gs[i].parsed = fs[i].parsed
                    /\ gs[i].pending = fs[i].pending
                    /\ gs[i].rescan = fs[i].rescan /\ Stmt(gs[i]) = Stmt(fs[i])
<1>0. fs \in Seq(Record) /\ Len(fs) \in Nat /\ DOMAIN fs = 1..Len(fs) BY DEF Drawn
<1>1. PICK gs : gs = Review(fs) OBVIOUS
<1>2. gs = [i \in DOMAIN fs |-> gs[i]] /\ \A i \in DOMAIN fs :
        gs[i] = IF ~Live(fs[i]) THEN fs[i]
                ELSE [fs[i] EXCEPT !.new = NewCount(fs, i),
                        !.outcome = IF NewCount(fs, i) = 0
                          /\ <<fs[i].preview.account, Stmt(fs[i]).span>> \in spans
                                    THEN "already_imported" ELSE "ready"]
  BY <1>1 DEF Review
<1>3. ASSUME NEW i \in DOMAIN fs
      PROVE /\ RecOK(gs[i]) /\ Fresh(gs[i]) /\ gs[i] \in Record
            /\ fs[i].preview = None => gs[i] = fs[i]
            /\ fs[i].preview # None =>
                 /\ gs[i].new = NewCount(fs, i) /\ gs[i].outcome \in {"ready", "already_imported"}
                 /\ gs[i].outcome = "already_imported" => gs[i].new = 0
                 /\ gs[i].new # 0 => gs[i].outcome = "ready"
            /\ gs[i].path = fs[i].path /\ gs[i].stmt = fs[i].stmt /\ gs[i].preview = fs[i].preview
            /\ gs[i].account = fs[i].account /\ gs[i].parsed = fs[i].parsed
            /\ gs[i].pending = fs[i].pending
            /\ gs[i].rescan = fs[i].rescan /\ Stmt(gs[i]) = Stmt(fs[i])
  <2>1. PICK r : r = fs[i] OBVIOUS
  <2>2. RecOK(r) /\ Fresh(r) /\ r \in Record BY <2>1 DEF Drawn, RecOK, Whole
  <2>3. CASE r.preview = None
    <3>1. gs[i] = r BY <1>2, <2>1, <2>3 DEF Live
    <3> QED BY <2>1, <2>2, <2>3, <3>1
  <2>4. CASE r.preview # None
    <3>1. Live(r) BY <2>2, <2>4 DEF Live, Fresh, Terminal
    <3>2. PICK n : n = NewCount(fs, i) OBVIOUS
    <3>3. n \in Nat
      <4>1. i - 1 \in 0..Len(fs) BY <1>0
      <4>2. PICK c : c = Claimed(fs)[i - 1] OBVIOUS
      <4>3. c \in Claims BY <4>1, <4>2, ClaimedIs
      <4>4. Take(r, c) \in [Keys -> Nat] BY <2>2, <2>4, <4>3, TakeIs
      <4>5. n = Sum(Take(r, c)) BY <2>1, <3>2, <4>2 DEF NewCount
      <4> QED BY <4>4, <4>5, SumOfKeys
    <3>4. PICK o : o = IF n = 0 /\ <<r.preview.account, Stmt(r).span>> \in spans
          THEN "already_imported" ELSE "ready" OBVIOUS
    <3>5. o \in {"ready", "already_imported"} /\ (o = "already_imported" => n = 0) BY <3>4
    <3>6. PICK s : s = [r EXCEPT !.new = n, !.outcome = o] OBVIOUS
    <3>7. gs[i] = s BY <1>2, <2>1, <3>1, <3>2, <3>4, <3>6
    <3>8. /\ s \in Record /\ s.outcome = o /\ s.new = n /\ s.path = r.path /\ s.stmt = r.stmt
          /\ s.preview = r.preview /\ s.account = r.account
          /\ s.parsed = r.parsed /\ s.text = r.text /\ s.mapping = r.mapping /\ s.tried = r.tried
          /\ s.pending = r.pending
          /\ s.rescan = r.rescan /\ s.remember = r.remember
      BY <2>2, <3>3, <3>5, <3>6 DEF Record
    <3>9. Content(s) = Content(r) /\ Lck(s) = Lck(r) /\ Layout(s) = Layout(r)
          /\ Kind(s) = Kind(r) /\ Stmt(s) = Stmt(r)
      BY <3>8 DEF Content, Lck, Layout, Kind, Stmt
    <3>10. Preview(s, r.account) = Preview(r, r.account) BY <3>9 DEF Preview
    <3>11. RecOK(s) BY <2>2, <2>4, <3>5, <3>8, <3>9 DEF RecOK, Whole, Untried, Terminal, Blocking
    <3>12. Fresh(s) BY <2>2, <2>4, <3>5, <3>8, <3>10 DEF Fresh
    <3> QED BY <2>1, <2>4, <3>2, <3>5, <3>7, <3>8, <3>9, <3>11, <3>12
  <2> QED BY <2>1, <2>3, <2>4
<1>4. gs \in Seq(Record) /\ Len(gs) = Len(fs) /\ DOMAIN gs = DOMAIN fs BY <1>0, <1>2, <1>3, SameLen
<1>5. Drawn(gs) BY <1>3, <1>4 DEF Drawn
<1>6. Kept(gs, fs) BY <1>3, <1>4 DEF Kept
<1> QED BY <1>1, <1>3, <1>5, <1>6

(* The review's count of a file: its rows without what the account holds and *)
(* what the files before it bring.                                           *)
ReadyIn(fs, from, a, j) == {i \in DOMAIN fs : i >= from /\ i < j /\ fs[i].outcome = "ready"
  /\ fs[i].account = a}
Lost(fs, a, j) == \E i \in DOMAIN fs : i < j /\ fs[i].account = a
  /\ fs[i].outcome \in {"failed", "not_attempted"}

Counted(fs, from, j, base) ==
    LET a == fs[j].account IN
    /\ fs[j].new = Sum(Left(Stmt(fs[j]).rows, base))
    /\ fs[j].outcome = "already_imported" => fs[j].new = 0
    /\ \A k \in Keys : books[a][k] <= base[k]
    /\ \A i \in ReadyIn(fs, from, a, j) : \A k \in Keys : Stmt(fs[i]).rows[k] <= base[k]
    /\ \/ Lost(fs, a, j)
       \/ \A k \in Keys : base[k] = books[a][k]
          \/ \E i \in ReadyIn(fs, from, a, j) : Stmt(fs[i]).rows[k] = base[k]

CountedFrom(fs, from) ==
    \A j \in DOMAIN fs : j >= from /\ fs[j].outcome \in {"ready", "already_imported"} =>
        \E base \in [Keys -> Nat] : Counted(fs, from, j, base)

(* The review counts every file over what the account holds and the ready    *)
(* files before it bring: the counting base is never below either, and in    *)
(* each key it is one of them.                                               *)
LEMMA ReviewCounts ==
    ASSUME VaultOK, NEW fs, Drawn(fs)
    PROVE  CountedFrom(Review(fs), 1)
<1>0. fs \in Seq(Record) /\ Len(fs) \in Nat /\ DOMAIN fs = 1..Len(fs) BY DEF Drawn
<1>1. PICK gs : gs = Review(fs) OBVIOUS
<1>2. /\ DOMAIN gs = DOMAIN fs
      /\ \A i \in DOMAIN fs :
            /\ fs[i].preview # None =>
                 /\ gs[i].new = NewCount(fs, i) /\ gs[i].outcome \in {"ready", "already_imported"}
                 /\ gs[i].outcome = "already_imported" => gs[i].new = 0
                 /\ gs[i].new # 0 => gs[i].outcome = "ready"
            /\ gs[i].preview = fs[i].preview /\ gs[i].account = fs[i].account
            /\ Stmt(gs[i]) = Stmt(fs[i])
            /\ RecOK(gs[i])
  BY <1>1, ReviewIs DEF Kept, Drawn
<1>3. PICK C : C = Claimed(fs) OBVIOUS
<1>4. /\ C[0] = NoClaims
      /\ \A i \in 1..Len(fs) : C[i] = ClaimStep(fs[i], C[i - 1])
      /\ \A i \in 0..Len(fs) : C[i] \in Claims
  BY <1>3, ClaimedIs
<1> DEFINE Upper(n, a, k) == \A i \in DOMAIN fs : i <= n /\ fs[i].preview # None
    /\ fs[i].account = a
                                => Stmt(fs[i]).rows[k] <= books[a][k] + C[n][a][k]
           Met(n, a, k) == C[n][a][k] = 0 \/ \E i \in DOMAIN fs :
                                i <= n /\ gs[i].outcome = "ready" /\ fs[i].account = a
                                  /\ Stmt(fs[i]).rows[k] = books[a][k] + C[n][a][k]
           Q(n) == \A a \in AccountIds, k \in Keys : Upper(n, a, k) /\ Met(n, a, k)
           S == {n \in Nat : n <= Len(fs) => Q(n)}
<1>5. 0 \in S
  <2>1. \A i \in DOMAIN fs : ~(i <= 0) BY <1>0
  <2>2. \A a \in AccountIds, k \in Keys : C[0][a][k] = 0 BY <1>4 DEF NoClaims
  <2> QED BY <2>1, <2>2
<1>6. ASSUME NEW n \in S PROVE n + 1 \in S
  <2> SUFFICES ASSUME n + 1 <= Len(fs), NEW a \in AccountIds, NEW k \in Keys
               PROVE  Upper(n + 1, a, k) /\ Met(n + 1, a, k)
    OBVIOUS
  <2>1. n \in Nat /\ n <= Len(fs) /\ n \in 0..Len(fs) /\ n + 1 \in 1..Len(fs)
        /\ n + 1 \in DOMAIN fs BY <1>0
  <2>2. Upper(n, a, k) /\ Met(n, a, k) BY <2>1
  <2>3. PICK m : m = n + 1 OBVIOUS
  <2>4. m \in Nat /\ m \in DOMAIN fs /\ m - 1 = n /\ \A i \in DOMAIN fs : i <= m <=> i <= n
        \/ i = m BY <1>0, <2>1, <2>3
  <2>5. PICK r : r = fs[m] OBVIOUS
  <2>6. RecOK(r) /\ Fresh(r) BY <2>4, <2>5 DEF Drawn
  <2>7. PICK c, d : c = C[n] /\ d = C[m] OBVIOUS
  <2>8. c \in Claims /\ d = ClaimStep(r, c) /\ d \in Claims BY <1>4, <2>1, <2>3, <2>4, <2>5, <2>7
  <2>9. books[a][k] \in Nat /\ c[a][k] \in Nat /\ d[a][k] \in Nat BY <2>8 DEF VaultOK, Claims
  <2>10. CASE r.preview = None \/ r.account # a
    <3>1. d[a][k] = c[a][k]
      <4>1. CASE r.preview = None BY <2>8, <4>1 DEF ClaimStep, Live
      <4>2. CASE r.preview # None
        <5>1. r.account # a BY <2>10, <4>2
        <5>2. d[a] = c[a] BY <2>6, <2>8, <4>2, <5>1, ClaimGrows
        <5> QED BY <5>2
      <4> QED BY <4>1, <4>2
    <3>2. Upper(m, a, k) BY <2>2, <2>4, <2>5, <2>7, <2>10, <3>1
    <3>3. Met(m, a, k) BY <2>2, <2>4, <2>7, <3>1
    <3> QED BY <2>3, <3>2, <3>3
  <2>11. CASE r.preview # None /\ r.account = a
    <3>1. /\ Stmt(r).rows[k] \in Nat /\ d[a][k] >= c[a][k]
          /\ Stmt(r).rows[k] <= books[a][k] + d[a][k]
          /\ d[a][k] = c[a][k] \/ (Stmt(r).rows[k] = books[a][k] + d[a][k] /\ Take(r, c)[k] # 0)
      BY <2>6, <2>8, <2>11, ClaimGrows
    <3>2. Upper(m, a, k)
      <4> SUFFICES ASSUME NEW i \in DOMAIN fs, i <= m, fs[i].preview # None, fs[i].account = a
                   PROVE  Stmt(fs[i]).rows[k] <= books[a][k] + d[a][k]
        BY <2>7
      <4>1. CASE i = m BY <2>5, <3>1, <4>1
      <4>2. CASE i # m
        <5>1. Stmt(fs[i]).rows[k] <= books[a][k] + c[a][k] BY <2>2, <2>4, <2>7, <4>2
        <5>2. Stmt(fs[i]).rows[k] \in Nat
          <6>1. RecOK(fs[i]) BY DEF Drawn
          <6>2. Stmt(fs[i]).rows \in [Keys -> Nat] BY <6>1, StmtIs DEF RecOK, Whole, Record
          <6> QED BY <6>2
        <5>3. PICK x, y, z, w : x = Stmt(fs[i]).rows[k] /\ y = books[a][k] /\ z = c[a][k]
              /\ w = d[a][k] OBVIOUS
        <5>4. x \in Nat /\ y \in Nat /\ z \in Nat /\ w \in Nat /\ x <= y + z /\ w >= z
          BY <2>9, <3>1, <5>1, <5>2, <5>3
        <5>5. x <= y + w BY ONLY <5>4
        <5> QED BY <5>3, <5>5
      <4> QED BY <4>1, <4>2
    <3>3. Met(m, a, k)
      <4>1. CASE d[a][k] = c[a][k] BY <2>2, <2>4, <2>7, <4>1
      <4>2. CASE Stmt(r).rows[k] = books[a][k] + d[a][k] /\ Take(r, c)[k] # 0
        <5>1. gs[m].outcome = "ready"
          <6>1. gs[m].new = Sum(Take(r, c)) BY <1>2, <1>3, <2>4, <2>5, <2>7, <2>11 DEF NewCount
          <6>2. Take(r, c) \in [Keys -> Nat] BY <2>6, <2>8, <2>11, TakeIs
          <6>3. Sum(Take(r, c)) # 0 BY <4>2, <6>2, SumOfKeys
          <6> QED BY <1>2, <2>4, <2>5, <2>11, <6>1, <6>3
        <5>2. m <= m BY <2>4
        <5> QED BY <2>4, <2>5, <2>7, <2>11, <4>2, <5>1, <5>2
      <4> QED BY <3>1, <4>1, <4>2
    <3> QED BY <2>3, <3>2, <3>3
  <2> QED BY <2>10, <2>11
<1>7. S = Nat
  <2> HIDE DEF Q
  <2>1. S \in SUBSET Nat OBVIOUS
  <2> HIDE DEF S
  <2> QED BY <1>5, <1>6, <2>1, NatSetInduction
<1>8. ASSUME NEW n \in 0..Len(fs) PROVE Q(n)
  <2>1. n \in Nat /\ n <= Len(fs) BY <1>0
  <2>2. n \in S BY <1>7, <2>1
  <2> HIDE DEF Q
  <2> QED BY <2>1, <2>2
<1>9. ASSUME NEW j \in DOMAIN gs, gs[j].outcome \in {"ready", "already_imported"}
      PROVE  \E base \in [Keys -> Nat] : Counted(gs, 1, j, base)
  <2>1. j \in DOMAIN fs /\ j \in Nat /\ j >= 1 /\ j - 1 \in 0..Len(fs) BY <1>0, <1>2
  <2>2. fs[j].preview # None BY <1>2, <1>9, <2>1 DEF RecOK, Whole
  <2>3. PICK r : r = fs[j] OBVIOUS
  <2>4. RecOK(r) /\ Fresh(r) /\ r.preview # None BY <2>1, <2>2, <2>3 DEF Drawn
  <2>5. PICK a : a = r.account OBVIOUS
  <2>6. a \in AccountIds BY <2>4, <2>5 DEF Fresh, VaultOK
  <2>7. PICK n : n = j - 1 OBVIOUS
  <2>8. n \in 0..Len(fs) /\ \A i \in DOMAIN fs : i < j <=> i <= n BY <1>0, <2>1, <2>7
  <2>9. PICK c : c = C[n] OBVIOUS
  <2>10. c \in Claims BY <1>4, <2>8, <2>9
  <2>11. books[a] \in [Keys -> Nat] /\ c[a] \in [Keys -> Nat] BY <2>6, <2>10 DEF VaultOK, Claims
  <2>12. PICK base : base = [k \in Keys |-> books[a][k] + c[a][k]] OBVIOUS
  <2>13. base \in [Keys -> Nat] BY <2>11, <2>12
  <2>14. gs[j].new = Sum(Left(Stmt(gs[j]).rows, base))
    <3>1. gs[j].new = Sum(Take(r, c)) BY <1>2, <1>3, <2>1, <2>2, <2>3, <2>7, <2>9 DEF NewCount
    <3>2. Take(r, c) = Left(Stmt(r).rows, base)
      <4>1. \A k \in Keys : Take(r, c)[k] = IF Stmt(r).rows[k] > books[a][k] + c[a][k]
            THEN Stmt(r).rows[k] - (books[a][k] + c[a][k]) ELSE 0
        BY <2>4, <2>5, <2>10, ClaimGrows
      <4>2. \A k \in Keys : Take(r, c)[k] = Left(Stmt(r).rows, base)[k] BY <2>12, <4>1 DEF Left
      <4>3. Take(r, c) \in [Keys -> Nat] BY <2>4, <2>10, TakeIs
      <4>4. DOMAIN Left(Stmt(r).rows, base) = Keys
            /\ Left(Stmt(r).rows, base) = [k \in Keys |-> Left(Stmt(r).rows, base)[k]] BY DEF Left
      <4> QED BY <4>2, <4>3, <4>4
    <3> QED BY <1>2, <2>1, <2>3, <3>1, <3>2
  <2>15. gs[j].account = a BY <1>2, <2>1, <2>3, <2>5
  <2>16. gs[j].outcome = "already_imported" => gs[j].new = 0 BY <1>2, <2>1, <2>2
  <2>17. \A k \in Keys : books[a][k] <= base[k] BY <2>11, <2>12
  <2>18. ASSUME NEW i \in ReadyIn(gs, 1, a, j), NEW k \in Keys PROVE Stmt(gs[i]).rows[k] <= base[k]
    <3>1. i \in DOMAIN fs /\ i <= n /\ gs[i].outcome = "ready" /\ fs[i].account = a
          /\ fs[i].preview # None
      BY <1>2, <2>8 DEF ReadyIn, RecOK, Whole
    <3>2. Upper(n, a, k) BY <1>8, <2>6, <2>8
    <3> QED BY <1>2, <2>9, <2>12, <3>1, <3>2
  <2>19. ASSUME NEW k \in Keys
         PROVE  base[k] = books[a][k]
                \/ \E i \in ReadyIn(gs, 1, a, j) : Stmt(gs[i]).rows[k] = base[k]
    <3>1. Met(n, a, k) BY <1>8, <2>6, <2>8
    <3>2. CASE c[a][k] = 0 BY <2>11, <2>12, <3>2
    <3>3. CASE c[a][k] # 0
      <4>1. PICK i \in DOMAIN fs : i <= n /\ gs[i].outcome = "ready" /\ fs[i].account = a
            /\ Stmt(fs[i]).rows[k] = books[a][k] + c[a][k]
        BY <2>9, <3>1, <3>3
      <4>2. i >= 1 /\ i < j BY <1>0, <2>8, <4>1
      <4>3. i \in ReadyIn(gs, 1, a, j) BY <1>2, <4>1, <4>2 DEF ReadyIn
      <4> QED BY <1>2, <2>12, <4>1, <4>3
    <3> QED BY <3>2, <3>3
  <2> QED BY <2>13, <2>14, <2>15, <2>16, <2>17, <2>18, <2>19 DEF Counted
<1> QED BY <1>1, <1>9 DEF CountedFrom

-------------------------------------------------------------------------------
(* The single file.                                                          *)

(* The single file.                                                          *)
File(o) == Library[o.path]

(* The account box of the single file: the owner's choice, else the          *)
(* statement's own account, else the pick step's.                            *)
Rule(o) == o.combo = IF o.chosen # None THEN o.chosen
                     ELSE IF o.mapping = None /\ MatchAccount(OneStmt(o).hint) # None
                       THEN MatchAccount(OneStmt(o).hint)
                     ELSE o.pick

(* What its fields say, whatever the step, and what its page adds.           *)
Held(o, f) ==
    /\ o \in Single /\ o.stmt \in DOMAIN File(o).stmts
    /\ o.pick \in DOMAIN accounts /\ o.combo \in DOMAIN accounts
    /\ o.mapping # None => o.mapping = Needed(File(o).layout) /\ File(o).kind # "ofx"
    /\ o.step = "map" \/ o.mapping # None => f \in {"plain", Needed(File(o).layout)}
    /\ o.keep # None => o.keep = File(o).lock

OneFine(o, f) ==
    /\ Held(o, f)
    /\ o.step = "preview" => o.preview # None
    /\ o.step = "prompt" => o.preview = None /\ File(o).kind = "pdf"
    /\ o.step = "map" => File(o).kind # "ofx" /\ (o.preview # None => o.mapping # None)
    /\ o.preview = None => o.combo = o.pick /\ o.chosen = None /\ o.mapping = None
    /\ o.preview # None => o.preview.account = o.combo /\ Rule(o)

(* The single file has a preview for every account.                          *)
LEMMA OnePreviewIs ==
    ASSUME VaultOK, NEW o, o.path \in DOMAIN Library, o.stmt \in DOMAIN File(o).stmts,
           NEW a \in AccountIds
    PROVE  /\ Preview(o, a) \in Previews /\ Preview(o, a) # None /\ Preview(o, a).account = a
           /\ a # None
           /\ Stmt(o) = OneStmt(o) /\ OneStmt(o).rows \in [Keys -> Nat]
<1>1. OneStmt(o).rows \in [Keys -> Nat] /\ Stmt(o) = OneStmt(o) BY FilesAreRead DEF File,
      OneStmt, Stmt, Content
<1>2. books[a] \in [Keys -> Nat] BY DEF VaultOK
<1>3. Preview(o, a) \in Previews BY <1>1, <1>2 DEF Preview, Previews
<1>4. Preview(o, a).account = a BY DEF Preview
<1> QED BY <1>1, <1>3, <1>4, NoneIsNothing

(* Computing its preview keeps the single file sound.                        *)
LEMMA PreviewedOK ==
    ASSUME VaultOK, NEW o, NEW f, Held(o, f), Rule(o)
    PROVE  OneFine(Previewed(o), f)
<1>1. o \in Single /\ o.path \in DOMAIN Library /\ o.combo \in AccountIds BY DEF Held, Single
<1>2. PICK v : v = Preview(o, o.combo) OBVIOUS
<1>3. v \in Previews /\ v # None /\ v.account = o.combo BY <1>1, <1>2, OnePreviewIs DEF Held
<1>4. PICK q : q = [o EXCEPT !.preview = v, !.step = "preview"] OBVIOUS
<1>5. Previewed(o) = q BY <1>2, <1>4 DEF Previewed
<1>6. /\ q \in Single /\ q.path = o.path /\ q.stmt = o.stmt /\ q.step = "preview"
      /\ q.pick = o.pick /\ q.combo = o.combo
      /\ q.preview = v /\ q.mapping = o.mapping /\ q.keep = o.keep /\ q.chosen = o.chosen
  BY <1>1, <1>3, <1>4 DEF Single
<1>7. File(q) = File(o) /\ OneStmt(q) = OneStmt(o) BY <1>6 DEF File, OneStmt
<1>8. Rule(q) BY <1>6, <1>7 DEF Rule
<1>9. Held(q, f) BY <1>6, <1>7 DEF Held
<1> QED BY <1>3, <1>5, <1>6, <1>8, <1>9 DEF OneFine

(* So does choosing a statement of an OFX file.                              *)
LEMMA ShowStatementOK ==
    ASSUME VaultOK, NEW o, NEW f, Held(o, f), o.mapping = None, o.step # "map",
           NEW i \in DOMAIN File(o).stmts
    PROVE  OneFine(ShowStatement(o, i), f)
<1>1. o \in Single /\ o.path \in DOMAIN Library BY DEF Held, Single
<1>2. i \in Nat BY <1>1, FilesAreRead DEF File
<1>3. PICK p : p = [o EXCEPT !.stmt = i] OBVIOUS
<1>4. /\ p \in Single /\ p.path = o.path /\ p.stmt = i /\ p.step = o.step /\ p.pick = o.pick
      /\ p.combo = o.combo
      /\ p.preview = o.preview /\ p.mapping = None /\ p.keep = o.keep /\ p.chosen = o.chosen
  BY <1>1, <1>2, <1>3 DEF Single, Held
<1>5. PICK h, a : h = OneStmt(p).hint /\ a = MatchAccount(h) OBVIOUS
<1>6. PICK c, b : c = (IF a = None THEN p.pick ELSE a)
      /\ b = (h # None /\ \A n \in DOMAIN accounts : accounts[n] # h) OBVIOUS
<1>7. c \in DOMAIN accounts /\ c \in AccountIds /\ b \in BOOLEAN
  <2>1. a = None \/ a \in DOMAIN accounts BY <1>5, MatchIs
  <2>2. b \in BOOLEAN BY <1>6
  <2> QED BY <1>4, <1>6, <2>1, <2>2 DEF Held, VaultOK
<1>8. PICK q : q = [p EXCEPT !.combo = c, !.chosen = None, !.hint = b] OBVIOUS
<1>9. ApplyAccountMatch(p) = q BY <1>5, <1>6, <1>8 DEF ApplyAccountMatch
<1>10. /\ q \in Single /\ q.path = o.path /\ q.stmt = i /\ q.step = o.step /\ q.pick = o.pick
       /\ q.combo = c
       /\ q.preview = o.preview /\ q.mapping = None /\ q.keep = o.keep /\ q.chosen = None
  BY <1>4, <1>7, <1>8 DEF Single
<1>11. File(q) = File(o) /\ OneStmt(q) = OneStmt(p) BY <1>4, <1>10 DEF File, OneStmt
<1>12. Held(q, f) BY <1>7, <1>10, <1>11 DEF Held
<1>13. Rule(q) BY <1>4, <1>5, <1>6, <1>10, <1>11 DEF Rule
<1>14. OneFine(Previewed(q), f) BY <1>12, <1>13, PreviewedOK
<1> QED BY <1>3, <1>9, <1>14 DEF ShowStatement

(* A table goes to its preview when its layout is saved, else to the map     *)
(* page.                                                                     *)
LEMMA ShowTableOK ==
    ASSUME VaultOK, NEW o, NEW f, Held(o, f), o.mapping = None, o.preview = None,
           o.chosen = None, o.combo = o.pick,
           File(o).kind # "ofx"
    PROVE  LET layout == File(o).layout
           IN /\ layout \in DOMAIN profiles
                 => OneFine(Previewed([o EXCEPT !.mapping = profiles[layout]]), profiles[layout])
                                               /\ profiles[layout] \in {"plain", "reversed"}
              /\ layout \notin DOMAIN profiles => OneFine([o EXCEPT !.step = "map"], "plain")
<1>1. o \in Single /\ o.path \in DOMAIN Library BY DEF Held, Single
<1>2. PICK layout : layout = File(o).layout OBVIOUS
<1>3. ASSUME layout \in DOMAIN profiles
      PROVE  OneFine(Previewed([o EXCEPT !.mapping = profiles[layout]]), profiles[layout])
             /\ profiles[layout] \in {"plain", "reversed"}
  <2>1. PICK m : m = profiles[layout] OBVIOUS
  <2>2. m = Needed(layout) /\ m \in {"plain", "reversed"} /\ m # None
    BY <1>3, <2>1, NeededIs, NoneIsNothing DEF VaultOK, Mappings
  <2>3. PICK q : q = [o EXCEPT !.mapping = m] OBVIOUS
  <2>4. /\ q \in Single /\ q.path = o.path /\ q.stmt = o.stmt /\ q.step = o.step
        /\ q.pick = o.pick /\ q.combo = o.combo
        /\ q.preview = o.preview /\ q.mapping = m /\ q.keep = o.keep /\ q.chosen = None
    BY <1>1, <2>2, <2>3 DEF Single
  <2>5. File(q) = File(o) BY <2>4 DEF File
  <2>6. Held(q, m) BY <1>2, <2>2, <2>4, <2>5 DEF Held
  <2>7. Rule(q) BY <2>2, <2>4 DEF Rule
  <2> QED BY <2>1, <2>2, <2>3, <2>6, <2>7, PreviewedOK
<1>4. OneFine([o EXCEPT !.step = "map"], "plain")
  <2>1. PICK q : q = [o EXCEPT !.step = "map"] OBVIOUS
  <2>2. /\ q \in Single /\ q.path = o.path /\ q.stmt = o.stmt /\ q.step = "map"
        /\ q.pick = o.pick /\ q.combo = o.combo
        /\ q.preview = o.preview /\ q.mapping = None /\ q.keep = o.keep /\ q.chosen = None
    BY <1>1, <2>1 DEF Single
  <2>3. File(q) = File(o) BY <2>2 DEF File
  <2>4. Held(q, "plain") BY <2>2, <2>3 DEF Held
  <2>5. OneFine(q, "plain") BY <2>2, <2>3, <2>4 DEF OneFine
  <2> QED BY <2>1, <2>5
<1> QED BY <1>2, <1>3, <1>4

-------------------------------------------------------------------------------
(* The inductive invariant.                                                  *)

(* What the run says of a file it has passed is so.                          *)
Reported(fs, i) ==
    /\ fs[i].outcome = "committed" => Landed(fs[i])
    /\ fs[i].outcome = "already_imported" => Landed(fs[i]) \/ Lost(fs, fs[i].account, i)

(* A run that has come to idx.                                               *)
RunOK(fs, idx) ==
    /\ \A i \in DOMAIN fs :
          /\ fs[i].outcome \in Terminal \cup {"ready", "already_imported"}
          /\ i < idx => fs[i].outcome # "ready" /\ Reported(fs, i)
          /\ i >= idx => fs[i].outcome # "committed" /\ (fs[i].outcome = "failed"
             => fs[i].preview = None)
          /\ fs[i].outcome = "not_attempted" => fs[i].preview = None
    /\ CountedFrom(fs, idx)

(* A batch ready to run.                                                     *)
Reviewed(fs) == /\ Drawn(fs) /\ CountedFrom(fs, 1)
                /\ \A i \in DOMAIN fs : fs[i].outcome \notin Blocking \cup {"waiting"}

(* The parts of the batch's invariant: types, what each record refers to,    *)
(* the phase, the picker and the question.                                   *)
Types == /\ files \in Seq(Record) /\ index \in Nat \ {0}
         /\ phase \in {"idle", "scan", "ask", "review", "run", "report"}
         /\ armed \in [{"scan", "ask", "run"} -> Nat]
         /\ asking \in DOMAIN files \cup {None} /\ picking \in DOMAIN files \cup {None}
         /\ typed \subseteq Passwords /\ form \in {"plain", "reversed"} /\ picks \in Nat

Accounted == \A i \in DOMAIN files :
    RecOK(files[i]) /\ (files[i].preview # None => files[i].account \in DOMAIN accounts)

PhaseOK ==
    /\ phase = "idle" => files = <<>>
    /\ phase = "scan" => typed = {} /\ Scanning(files, index)
    /\ phase = "ask" => Drawn(files) /\ AskOK(files, typed, DOMAIN profiles)
    /\ phase = "review" => Reviewed(files)
    /\ phase = "run" => RunOK(files, index)
    /\ phase = "report" => \A i \in DOMAIN files :
           files[i].outcome \in Terminal \cup {"already_imported"} /\ Reported(files, i)

PickOK == picking # None => phase \in {"scan", "ask", "review"} /\ picking \in DOMAIN files
  /\ files[picking].parsed

QuestionOK == asking # None =>
    /\ phase = "ask" /\ asking \in BlockedIn(files) /\ Queued(files) = {}
    /\ \A j \in BlockedIn(files) : asking <= j
    /\ files[asking].outcome = "needs_mapping" => form = "plain"

BatchOK == Types /\ Accounted /\ PhaseOK /\ PickOK /\ QuestionOK
OneOK == one = None \/ (phase = "idle" /\ OneFine(one, form))
VaultFine == VaultOK /\ RememberedOpens

(* The inductive invariant.                                                  *)
IInv == VaultFine /\ BatchOK /\ OneOK

(* No batch is open: the invariant asks for no more.                         *)
LEMMA EmptyBatchOK ==
    ASSUME files = <<>>, phase = "idle", index \in Nat \ {0},
           armed \in [{"scan", "ask", "run"} -> Nat],
           typed \subseteq Passwords, form \in {"plain", "reversed"}, picks \in Nat,
             asking = None, picking = None
    PROVE  BatchOK
BY DEF BatchOK, Types, Accounted, PhaseOK, PickOK, QuestionOK

(* Outside a batch there is no record, question or picker.                   *)
LEMMA IdleIs == ASSUME BatchOK, phase = "idle" PROVE files = <<>> /\ asking = None /\ picking = None
BY DEF BatchOK, PhaseOK, PickOK, QuestionOK

(* A step that leaves the vault alone.                                       *)
LEMMA VaultSame == ASSUME VaultFine, UNCHANGED vault PROVE VaultFine'
BY DEF VaultFine, VaultOK, RememberedOpens, vault

(* A new account has no rows, no password and no effect on the others.       *)
LEMMA AccountAdded ==
    ASSUME VaultFine, NEW a \in AccountIds \ DOMAIN accounts, NEW n,
           accounts' = [b \in DOMAIN accounts \cup {a} |-> IF b = a THEN n ELSE accounts[b]],
           UNCHANGED <<books, spans, stored, profiles>>
    PROVE  VaultFine' /\ DOMAIN accounts \subseteq DOMAIN accounts' /\ a \in DOMAIN accounts'
<1>1. DOMAIN accounts' = DOMAIN accounts \cup {a} OBVIOUS
<1>2. VaultOK' BY <1>1 DEF VaultFine, VaultOK
<1>3. RememberedOpens'
  <2> SUFFICES ASSUME NEW b \in DOMAIN accounts'
               PROVE  \/ stored[b] = None \/ \E past \in Past : stored[b] = past.stored[b]
                      \/ \E path \in DOMAIN Library : \E i \in DOMAIN Library[path].stmts :
                            /\ Library[path].lock = stored[b]
                            /\ <<b, Library[path].stmts[i].span>> \in spans
    BY DEF RememberedOpens
  <2>1. CASE b = a BY <2>1 DEF VaultFine, VaultOK
  <2>2. CASE b # a BY <1>1, <2>2 DEF VaultFine, RememberedOpens
  <2> QED BY <2>1, <2>2
<1> QED BY <1>1, <1>2, <1>3 DEF VaultFine

(* A layout is saved as it is read.                                          *)
LEMMA LayoutSaved ==
    ASSUME VaultFine, NEW l, NEW m, NEW named \in BOOLEAN, named => m = Needed(l),
           profiles' = IF named THEN [k \in DOMAIN profiles \cup {l} |-> IF k = l THEN m
             ELSE profiles[k]] ELSE profiles,
           UNCHANGED <<accounts, books, spans, stored>>
    PROVE  VaultFine' /\ DOMAIN profiles' \subseteq DOMAIN profiles \cup {l}
<1>1. \A k \in DOMAIN profiles' : profiles'[k] = Needed(k) BY DEF VaultFine, VaultOK
<1>2. VaultOK' BY <1>1 DEF VaultFine, VaultOK
<1>3. RememberedOpens' BY DEF VaultFine, RememberedOpens
<1> QED BY <1>2, <1>3 DEF VaultFine

(* An import adds rows, a span and possibly a password that opens the        *)
(* statement.                                                                *)
LEMMA Imported ==
    ASSUME VaultFine, NEW a \in DOMAIN accounts, NEW path \in DOMAIN Library,
           NEW i \in DOMAIN Library[path].stmts,
           NEW fresh \in [Keys -> Nat],
             books' = [books EXCEPT ![a] = [k \in Keys |-> @[k] + fresh[k]]],
           spans' = spans \cup {<<a, Library[path].stmts[i].span>>},
           NEW w, stored' = (IF w = None THEN stored ELSE [stored EXCEPT ![a] = w]),
           w # None => w \in Passwords /\ w = Library[path].lock, UNCHANGED <<accounts, profiles>>
    PROVE  VaultFine'
<1>1. a \in AccountIds /\ books[a] \in [Keys -> Nat] BY DEF VaultFine, VaultOK
<1>2. PICK u : u = [k \in Keys |-> books[a][k] + fresh[k]] OBVIOUS
<1>3. u \in [Keys -> Nat] BY <1>1, <1>2
<1>4. books' = [books EXCEPT ![a] = u] BY <1>1, <1>2 DEF VaultFine, VaultOK
<1>5. books' \in [AccountIds -> [Keys -> Nat]] BY <1>3, <1>4 DEF VaultFine, VaultOK
<1>6. w # None => w \in Words BY DEF Words
<1>7. stored' \in [AccountIds -> Words] BY <1>1, <1>6 DEF VaultFine, VaultOK
<1>8. \A b \in AccountIds : b # a => stored'[b] = stored[b] BY DEF VaultFine, VaultOK
<1>9. VaultOK' BY <1>5, <1>7, <1>8 DEF VaultFine, VaultOK
<1>10. RememberedOpens'
  <2> SUFFICES ASSUME NEW b \in DOMAIN accounts
               PROVE  \/ stored'[b] = None \/ \E past \in Past : stored'[b] = past.stored[b]
                      \/ \E p \in DOMAIN Library : \E j \in DOMAIN Library[p].stmts :
                            /\ Library[p].lock = stored'[b]
                            /\ <<b, Library[p].stmts[j].span>> \in spans'
    BY DEF RememberedOpens
  <2>1. CASE b = a /\ w # None
    <3>1. stored'[b] = w BY <1>1, <2>1 DEF VaultFine, VaultOK
    <3> QED BY <2>1, <3>1
  <2>2. CASE ~(b = a /\ w # None)
    <3>1. b \in AccountIds BY DEF VaultFine, VaultOK
    <3>2. stored'[b] = stored[b] BY <1>8, <2>2, <3>1
    <3> QED BY <3>2 DEF VaultFine, RememberedOpens
  <2> QED BY <2>1, <2>2
<1> QED BY <1>9, <1>10 DEF VaultFine

(* What the one-file actions do to the rest: no batch is open.               *)
LEMMA OneBatch ==
    ASSUME BatchOK, phase = "idle", form' \in {"plain", "reversed"}, picks' \in Nat, UNCHANGED batch
    PROVE  BatchOK' /\ phase' = "idle"
<1>1. files = <<>> /\ asking = None /\ picking = None BY IdleIs
<1>2. /\ files' = <<>> /\ phase' = "idle" /\ index' \in Nat \ {0}
                       /\ armed' \in [{"scan", "ask", "run"} -> Nat]
      /\ typed' \subseteq Passwords /\ form' \in {"plain", "reversed"} /\ picks' \in Nat
      /\ asking' = None /\ picking' = None
  BY <1>1 DEF BatchOK, Types, batch
<1>3. (/\ files = <<>> /\ phase = "idle" /\ index \in Nat \ {0}
                       /\ armed \in [{"scan", "ask", "run"} -> Nat]
       /\ typed \subseteq Passwords /\ form \in {"plain", "reversed"} /\ picks \in Nat
       /\ asking = None /\ picking = None
       => BatchOK)'
  BY EmptyBatchOK, PTL
<1> QED BY <1>2, <1>3

(* The single file rests on the accounts only.                               *)
LEMMA FineSame ==
    ASSUME NEW o, NEW f, OneFine(o, f), UNCHANGED accounts
    PROVE  OneFine(o, f)'
BY DEF OneFine, Held, Rule, MatchAccount

-------------------------------------------------------------------------------
(* The actions on a single file.                                             *)

(* While a single file is open there is no batch.                            *)
LEMMA IdleHeld == ASSUME IInv, one # None PROVE phase = "idle" /\ OneFine(one, form) /\ VaultOK
BY DEF IInv, OneOK, VaultFine

(* The end of opening a table.                                               *)
LEMMA ShowTableStep ==
    ASSUME VaultOK, NEW o, Held(o, form), o.mapping = None, o.preview = None, o.chosen = None,
           o.combo = o.pick,
           File(o).kind # "ofx", ShowTable(o)
    PROVE  OneFine(one', form') /\ form' \in {"plain", "reversed"}
<1>1. CASE File(o).layout \in DOMAIN profiles
  <2>1. one' = Previewed([o EXCEPT !.mapping = profiles[File(o).layout]])
        /\ form' = profiles[File(o).layout]
    BY <1>1 DEF ShowTable, File
  <2> QED BY <1>1, <2>1, ShowTableOK
<1>2. CASE File(o).layout \notin DOMAIN profiles
  <2>1. one' = [o EXCEPT !.step = "map"] /\ form' = "plain"
    BY <1>2 DEF ShowTable, File, ResetForm
  <2> QED BY <1>2, <2>1, ShowTableOK
<1> QED BY <1>1, <1>2

(* The end of opening a PDF that needs no password or was given it.          *)
LEMMA ShowPlaintextStep ==
    ASSUME VaultOK, NEW o, Held(o, form), o.mapping = None, o.preview = None, o.chosen = None,
           o.combo = o.pick,
           File(o).kind # "ofx", o.step # "map", form \in {"plain", "reversed"}, ShowPlaintext(o)
    PROVE  OneFine(one', form') /\ form' \in {"plain", "reversed"}
<1>1. CASE File(o).bank
  <2>1. one' = ShowStatement(o, 1) /\ form' = form BY <1>1 DEF ShowPlaintext, File
  <2>2. 1 \in DOMAIN File(o).stmts BY FilesAreRead DEF Held, Single, File
  <2>3. PICK i : i = 1 OBVIOUS
  <2>4. OneFine(ShowStatement(o, i), form) BY <2>2, <2>3, ShowStatementOK
  <2> QED BY <2>1, <2>3, <2>4
<1>2. CASE ~File(o).bank
  <2>1. ShowTable(o) BY <1>2 DEF ShowPlaintext, File
  <2> QED BY <2>1, ShowTableStep
<1> QED BY <1>1, <1>2

(* _select_file, for one path.                                               *)
LEMMA SelectFileStep ==
    ASSUME IInv, NEW path \in DOMAIN Library, NEW a \in AccountIds, SelectFile(path, a)
    PROVE  IInv'
<1>0. VaultFine /\ VaultOK /\ BatchOK /\ phase = "idle" /\ form \in {"plain", "reversed"}
      /\ picks \in Nat
  BY DEF IInv, VaultFine, BatchOK, Types, SelectFile
<1>1. PICK o : o = [path |-> path, stmt |-> 1, step |-> "prompt", pick |-> a, combo |-> a,
              preview |-> None, mapping |-> None, hint |-> FALSE, keep |-> None,
                chosen |-> None] OBVIOUS
<1>2. 1 \in DOMAIN Library[path].stmts BY FilesAreRead
<1>3. a \in DOMAIN accounts BY DEF SelectFile
<1>4. o \in Single BY <1>1 DEF Single
<1>5. /\ o.path = path /\ o.stmt = 1 /\ o.step = "prompt" /\ o.pick = a /\ o.combo = a
      /\ o.preview = None /\ o.mapping = None
      /\ o.keep = None /\ o.chosen = None
  BY <1>1
<1>6. File(o) = Library[path] BY <1>5 DEF File
<1>7. Held(o, form) BY <1>2, <1>3, <1>4, <1>5, <1>6 DEF Held
<1>8. \/ Library[path].kind = "ofx" /\ one' = ShowStatement(o, 1) /\ form' = form
      \/ Library[path].kind = "csv" /\ ShowTable(o)
      \/ Library[path].kind = "pdf" /\ ShowPlaintext(o)
      \/ Library[path].kind = "pdf" /\ one' = o /\ form' = form
  <2>1. Library[path].kind \in {"csv", "ofx", "pdf"} BY FilesAreRead
  <2> QED BY <1>1, <2>1 DEF SelectFile
<1>9. OneFine(one', form') /\ form' \in {"plain", "reversed"}
  <2>1. CASE one' = ShowStatement(o, 1) /\ form' = form
    <3>1. PICK i : i = 1 OBVIOUS
    <3>2. OneFine(ShowStatement(o, i), form) BY <1>0, <1>2, <1>5, <1>6, <1>7, <3>1, ShowStatementOK
    <3> QED BY <1>0, <2>1, <3>1, <3>2
  <2>2. CASE Library[path].kind = "csv" /\ ShowTable(o)
    BY <1>0, <1>5, <1>6, <1>7, <2>2, ShowTableStep
  <2>3. CASE Library[path].kind = "pdf" /\ ShowPlaintext(o)
    BY <1>0, <1>5, <1>6, <1>7, <2>3, ShowPlaintextStep
  <2>4. CASE Library[path].kind = "pdf" /\ one' = o /\ form' = form
    <3>1. OneFine(o, form) BY <1>5, <1>6, <1>7, <2>4 DEF OneFine
    <3> QED BY <1>0, <2>4, <3>1
  <2> QED BY <1>8, <2>1, <2>2, <2>3, <2>4
<1>10. UNCHANGED vault /\ UNCHANGED batch /\ picks' \in Nat BY <1>0 DEF SelectFile
<1>11. VaultFine' BY <1>0, <1>10, VaultSame
<1>12. BatchOK' /\ phase' = "idle" BY <1>0, <1>9, <1>10, OneBatch
<1>13. OneOK'
  <2>1. PICK q, f : q = one' /\ f = form' OBVIOUS
  <2>2. OneFine(q, f)' BY <1>9, <1>10, <2>1, FineSame DEF vault
  <2> QED BY <1>12, <2>1, <2>2 DEF OneOK
<1> QED BY <1>11, <1>12, <1>13 DEF IInv

(* The common end of the actions on the single file.                         *)
LEMMA OneKept ==
    ASSUME IInv, one # None, VaultFine', one' = None \/ OneFine(one', form'),
           UNCHANGED <<accounts, batch>>,
           form' \in {"plain", "reversed"}, picks' = picks
    PROVE  IInv'
<1>0. VaultFine /\ VaultOK /\ BatchOK /\ phase = "idle" /\ picks \in Nat
  BY IdleHeld DEF IInv, VaultFine, BatchOK, Types
<1>1. BatchOK' /\ phase' = "idle" BY <1>0, OneBatch
<1>2. OneOK'
  <2>1. CASE one' = None BY <2>1 DEF OneOK
  <2>2. CASE OneFine(one', form')
    <3>1. PICK q, f : q = one' /\ f = form' OBVIOUS
    <3>2. OneFine(q, f)' BY <2>2, <3>1, FineSame
    <3> QED BY <1>1, <3>1, <3>2 DEF OneOK
  <2> QED BY <2>1, <2>2
<1> QED BY <1>1, <1>2 DEF IInv

(* The password box of the single file.                                      *)
LEMMA OnPdfPasswordStep ==
    ASSUME IInv, NEW p \in Passwords, NEW remember \in BOOLEAN, OnPdfPassword(p, remember)
    PROVE  IInv'
<1>0. one # None /\ OneFine(one, form) /\ VaultOK /\ VaultFine /\ form \in {"plain", "reversed"}
  BY IdleHeld DEF OnPdfPassword, IInv, BatchOK, Types
<1>1. PICK w : w = IF remember THEN p ELSE None OBVIOUS
<1>2. PICK o : o = [one EXCEPT !.keep = w] OBVIOUS
<1>3. ShowPlaintext(o) BY <1>1, <1>2 DEF OnPdfPassword
<1>4. one \in Single /\ w \in Passwords \cup {None} BY <1>0, <1>1 DEF OneFine, Held
<1>5. /\ o \in Single /\ o.path = one.path /\ o.stmt = one.stmt /\ o.step = one.step
      /\ o.pick = one.pick /\ o.combo = one.combo
      /\ o.preview = one.preview /\ o.mapping = one.mapping /\ o.keep = w /\ o.chosen = one.chosen
  BY <1>2, <1>4 DEF Single
<1>6. File(o) = File(one) BY <1>5 DEF File
<1>7. one.step = "prompt" /\ p = File(one).lock BY DEF OnPdfPassword, File
<1>8. Held(o, form) BY <1>0, <1>1, <1>5, <1>6, <1>7 DEF OneFine, Held
<1>9. /\ o.mapping = None /\ o.preview = None /\ o.chosen = None /\ o.combo = o.pick
      /\ File(o).kind # "ofx" /\ o.step # "map"
  BY <1>0, <1>5, <1>6, <1>7 DEF OneFine
<1>10. OneFine(one', form') /\ form' \in {"plain", "reversed"} BY <1>0, <1>3, <1>8, <1>9,
       ShowPlaintextStep
<1>11. UNCHANGED <<vault, batch, picks>> BY DEF OnPdfPassword
<1>12. VaultFine' BY <1>0, <1>11, VaultSame
<1> QED BY <1>0, <1>10, <1>11, <1>12, OneKept DEF vault

(* The map page of the single file.                                          *)
LEMMA OnOneMapNextStep ==
    ASSUME IInv, NEW named \in BOOLEAN, OnOneMapNext(named)
    PROVE  IInv'
<1>0. one # None /\ OneFine(one, form) /\ VaultOK /\ VaultFine /\ one.step = "map"
  BY IdleHeld DEF OnOneMapNext, IInv
<1>1. PICK l, m : l = File(one).layout /\ m = Ticked(l) OBVIOUS
<1>2. m = Needed(l) BY <1>0, <1>1, NeededIs DEF OneFine, Held, Ticked
<1>3. m \in {"plain", "reversed"} /\ m # None BY <1>2, NeededIs, NoneIsNothing DEF Mappings
<1>4. one' = Previewed([one EXCEPT !.mapping = m]) /\ form' = m BY <1>1 DEF OnOneMapNext, File
<1>5. PICK o : o = [one EXCEPT !.mapping = m] OBVIOUS
<1>6. one \in Single BY <1>0 DEF OneFine, Held
<1>7. /\ o \in Single /\ o.path = one.path /\ o.stmt = one.stmt /\ o.step = one.step
      /\ o.pick = one.pick /\ o.combo = one.combo
      /\ o.preview = one.preview /\ o.mapping = m /\ o.keep = one.keep /\ o.chosen = one.chosen
  BY <1>3, <1>5, <1>6 DEF Single
<1>8. File(o) = File(one) BY <1>7 DEF File
<1>9. Held(o, m) BY <1>0, <1>1, <1>2, <1>7, <1>8 DEF OneFine, Held
<1>10. Rule(o) BY <1>0, <1>3, <1>7 DEF OneFine, Rule
<1>11. OneFine(one', form') BY <1>0, <1>4, <1>5, <1>9, <1>10, PreviewedOK
<1>12. VaultFine'
  <2>1. profiles' = IF named THEN [k \in DOMAIN profiles \cup {l} |-> IF k = l THEN m
        ELSE profiles[k]] ELSE profiles
    BY <1>1 DEF OnOneMapNext, File
  <2>2. UNCHANGED <<accounts, books, spans, stored>> BY DEF OnOneMapNext
  <2> QED BY <1>0, <1>2, <2>1, <2>2, LayoutSaved
<1>13. UNCHANGED <<accounts, batch, picks>> BY DEF OnOneMapNext
<1> QED BY <1>0, <1>3, <1>4, <1>11, <1>12, <1>13, OneKept

(* Another statement of an OFX file.                                         *)
LEMMA OnOfxStatementChangedStep ==
    ASSUME IInv, NEW path \in DOMAIN Library, NEW i \in DOMAIN Library[path].stmts,
           OnOfxStatementChanged(i)
    PROVE  IInv'
<1>0. one # None /\ OneFine(one, form) /\ VaultOK /\ VaultFine /\ form \in {"plain", "reversed"}
  BY IdleHeld DEF OnOfxStatementChanged, IInv, BatchOK, Types
<1>1. one.step = "preview" /\ File(one).kind = "ofx" /\ i \in DOMAIN File(one).stmts
      /\ one' = ShowStatement(one, i)
  BY DEF OnOfxStatementChanged, File
<1>2. Held(one, form) /\ one.mapping = None BY <1>0, <1>1 DEF OneFine, Held
<1>3. OneFine(ShowStatement(one, i), form) BY <1>0, <1>1, <1>2, ShowStatementOK
<1>4. UNCHANGED <<vault, batch, form, picks>> BY DEF OnOfxStatementChanged
<1>5. VaultFine' BY <1>0, <1>4, VaultSame
<1> QED BY <1>0, <1>1, <1>3, <1>4, <1>5, OneKept DEF vault

(* The single file previewed for another account.                            *)
LEMMA RetargetedOK ==
    ASSUME VaultOK, NEW o, OneFine(o, form), NEW a \in AccountIds
    PROVE  LET q == Retargeted(o, a)
           IN /\ q \in Single /\ q.path = o.path /\ q.stmt = o.stmt /\ q.step = "preview"
              /\ q.pick = o.pick /\ q.combo = a
              /\ q.preview # None /\ q.preview.account = a /\ q.mapping = o.mapping
              /\ q.keep = o.keep /\ q.chosen = a /\ a # None
<1>1. PICK p : p = [o EXCEPT !.combo = a, !.hint = FALSE, !.chosen = a] OBVIOUS
<1>2. o \in Single /\ a # None BY NoneIsNothing DEF OneFine, Held
<1>3. /\ p \in Single /\ p.path = o.path /\ p.stmt = o.stmt /\ p.step = o.step /\ p.pick = o.pick
      /\ p.combo = a
      /\ p.preview = o.preview /\ p.mapping = o.mapping /\ p.keep = o.keep /\ p.chosen = a
  BY <1>1, <1>2 DEF Single
<1>4. PICK v : v = Preview(p, a) OBVIOUS
<1>5. p.path \in DOMAIN Library /\ p.stmt \in DOMAIN File(p).stmts BY <1>2, <1>3 DEF Single,
      OneFine, Held, File
<1>6. v \in Previews /\ v # None /\ v.account = a BY <1>4, <1>5, OnePreviewIs
<1>7. PICK q : q = [p EXCEPT !.preview = v, !.step = "preview"] OBVIOUS
<1>8. Retargeted(o, a) = q BY <1>1, <1>3, <1>4, <1>7 DEF Retargeted, Previewed
<1>9. /\ q \in Single /\ q.path = o.path /\ q.stmt = o.stmt /\ q.step = "preview"
      /\ q.pick = o.pick /\ q.combo = a
      /\ q.preview = v /\ q.mapping = o.mapping /\ q.keep = o.keep /\ q.chosen = a
  BY <1>3, <1>6, <1>7 DEF Single
<1> QED BY <1>2, <1>6, <1>8, <1>9

(* Another account in the account box.                                       *)
LEMMA OnConfirmAccountChangedStep ==
    ASSUME IInv, NEW a \in AccountIds, OnConfirmAccountChanged(a)
    PROVE  IInv'
<1>0. one # None /\ OneFine(one, form) /\ VaultOK /\ VaultFine /\ form \in {"plain", "reversed"}
      /\ a \in DOMAIN accounts
  BY IdleHeld DEF OnConfirmAccountChanged, IInv, BatchOK, Types
<1>1. PICK q : q = Retargeted(one, a) OBVIOUS
<1>2. one' = q BY <1>1 DEF OnConfirmAccountChanged
<1>3. /\ q \in Single /\ q.path = one.path /\ q.stmt = one.stmt /\ q.step = "preview"
      /\ q.pick = one.pick /\ q.combo = a
      /\ q.preview # None /\ q.preview.account = a /\ q.mapping = one.mapping
      /\ q.keep = one.keep /\ q.chosen = a /\ a # None
  BY <1>0, <1>1, RetargetedOK
<1>4. File(q) = File(one) BY <1>3 DEF File
<1>5. OneFine(q, form) BY <1>0, <1>3, <1>4 DEF OneFine, Held, Rule
<1>6. UNCHANGED <<vault, batch, form, picks>> BY DEF OnConfirmAccountChanged
<1>7. VaultFine' BY <1>0, <1>6, VaultSame
<1> QED BY <1>0, <1>2, <1>5, <1>6, <1>7, OneKept DEF vault

(* A new account made from the preview page.                                 *)
LEMMA CreateAccountFromStep ==
    ASSUME IInv, NEW a \in AccountIds, NEW n, CreateAccountFrom(a, n)
    PROVE  IInv'
<1>0. one # None /\ phase = "idle" /\ OneFine(one, form) /\ VaultOK /\ VaultFine
      /\ form \in {"plain", "reversed"} /\ a \notin DOMAIN accounts
      /\ BatchOK /\ picks \in Nat
  BY IdleHeld DEF CreateAccountFrom, IInv, BatchOK, Types
<1>1. PICK q : q = Retargeted(one, a) OBVIOUS
<1>2. one' = q BY <1>1 DEF CreateAccountFrom
<1>3. /\ q \in Single /\ q.path = one.path /\ q.stmt = one.stmt /\ q.step = "preview"
      /\ q.pick = one.pick /\ q.combo = a
      /\ q.preview # None /\ q.preview.account = a /\ q.mapping = one.mapping
      /\ q.keep = one.keep /\ q.chosen = a /\ a # None
  BY <1>0, <1>1, RetargetedOK
<1>4. File(q) = File(one) BY <1>3 DEF File
<1>5. accounts' = [b \in DOMAIN accounts \cup {a} |-> IF b = a THEN n ELSE accounts[b]]
      /\ UNCHANGED <<books, spans, stored, profiles, batch, form, picks>>
  BY DEF CreateAccountFrom
<1>6. VaultFine' /\ DOMAIN accounts \subseteq DOMAIN accounts' /\ a \in DOMAIN accounts'
  BY <1>0, <1>5, AccountAdded
<1>7. OneFine(q, form)' BY <1>0, <1>2, <1>3, <1>4, <1>5, <1>6 DEF OneFine, Held, Rule
<1>8. BatchOK' /\ phase' = "idle" BY <1>0, <1>5, OneBatch
<1>9. OneOK' BY <1>2, <1>7, <1>8 DEF OneOK
<1> QED BY <1>6, <1>8, <1>9 DEF IInv

(* The single file imported.                                                 *)
LEMMA OnImportStep ==
    ASSUME IInv, OnImport
    PROVE  IInv'
<1>0. one # None /\ OneFine(one, form) /\ VaultOK /\ VaultFine
  BY IdleHeld DEF OnImport, IInv
<1>1. PICK a : a = one.preview.account OBVIOUS
<1>2. one.step = "preview" /\ one.preview # None BY <1>0 DEF OnImport, OneFine
<1>3. a = one.combo /\ a \in DOMAIN accounts /\ a \in AccountIds BY <1>0, <1>1, <1>2 DEF OneFine,
      Held, VaultOK
<1>4. PICK fresh : fresh = Preview(one, a).fresh OBVIOUS
<1>5. fresh \in [Keys -> Nat] 
  <2>1. one.path \in DOMAIN Library /\ one.stmt \in DOMAIN File(one).stmts BY <1>0 DEF OneFine,
        Held, Single
  <2>2. Preview(one, a) \in Previews BY <1>0, <1>3, <2>1, OnePreviewIs
  <2> QED BY <1>4, <2>2 DEF Previews
<1>6a. PICK path \in DOMAIN Library : path = one.path
  BY <1>0 DEF OneFine, Held, Single
<1>6. PICK i \in DOMAIN Library[path].stmts : i = one.stmt
  BY <1>0, <1>6a DEF OneFine, Held, Single, File
<1>7. PICK w : w = one.keep OBVIOUS
<1>8. w # None => w \in Passwords /\ w = Library[path].lock BY <1>0, <1>6a, <1>6,
      <1>7 DEF OneFine, Held, Single, File
<1>9. /\ books' = [books EXCEPT ![a] = [k \in Keys |-> @[k] + fresh[k]]]
      /\ spans' = spans \cup {<<a, Library[path].stmts[i].span>>}
      /\ stored' = (IF w = None THEN stored ELSE [stored EXCEPT ![a] = w])
      /\ UNCHANGED <<accounts, profiles>>
  BY <1>1, <1>4, <1>6a, <1>6, <1>7 DEF OnImport, OneStmt, SaveRememberedPw
<1>10. VaultFine' BY <1>0, <1>3, <1>5, <1>8, <1>9, Imported
<1>11. one' = None /\ form' = "plain" /\ UNCHANGED <<accounts, batch, picks>> BY DEF OnImport
<1> QED BY <1>0, <1>10, <1>11, OneKept

(* Every step on a single file keeps the invariant.                          *)
LEMMA OneNextStep == ASSUME IInv, OneNext PROVE IInv'
<1>1. ASSUME NEW path \in DOMAIN Library, NEW a \in AccountIds, SelectFile(path, a) PROVE IInv'
  BY <1>1, SelectFileStep
<1>2. ASSUME NEW p \in Passwords, NEW remember \in BOOLEAN, OnPdfPassword(p, remember)
  PROVE IInv' BY <1>2, OnPdfPasswordStep
<1>3. CASE CancelPrompt \/ LeaveWizard
  <2>1. one # None /\ one' = None /\ UNCHANGED vault /\ UNCHANGED <<accounts, batch>>
        /\ picks' = picks /\ (form' = form \/ form' = "plain")
    BY <1>3 DEF CancelPrompt, LeaveWizard, vault
  <2>2. VaultFine' BY <2>1, VaultSame DEF IInv
  <2>3. form' \in {"plain", "reversed"} BY <2>1 DEF IInv, BatchOK, Types
  <2> QED BY <2>1, <2>2, <2>3, OneKept
<1>4. CASE OnPreviewBack
  <2>1. one # None /\ one.step = "preview" /\ one.mapping # None
        /\ UNCHANGED <<vault, batch, form, picks>> BY <1>4 DEF OnPreviewBack
  <2>2. OneFine(one, form) BY <2>1, IdleHeld
  <2>3. PICK q : q = [one EXCEPT !.step = "map"] OBVIOUS
  <2>4. one' = q BY <1>4, <2>3 DEF OnPreviewBack
  <2>5. one \in Single BY <2>2 DEF OneFine, Held
  <2>6. /\ q \in Single /\ q.path = one.path /\ q.stmt = one.stmt /\ q.step = "map"
        /\ q.pick = one.pick /\ q.combo = one.combo
        /\ q.preview = one.preview /\ q.mapping = one.mapping /\ q.keep = one.keep
        /\ q.chosen = one.chosen
    BY <2>3, <2>5 DEF Single
  <2>7. File(q) = File(one) /\ OneStmt(q) = OneStmt(one) BY <2>6 DEF File, OneStmt
  <2>8. OneFine(q, form) BY <2>1, <2>2, <2>6, <2>7 DEF OneFine, Held, Rule
  <2>9. VaultFine' BY <2>1, VaultSame DEF IInv
  <2>10. form' \in {"plain", "reversed"} BY <2>1 DEF IInv, BatchOK, Types
  <2> QED BY <2>1, <2>4, <2>8, <2>9, <2>10, OneKept DEF vault
<1>5. CASE OnImport BY <1>5, OnImportStep
<1>6. ASSUME NEW named \in BOOLEAN, OnOneMapNext(named) PROVE IInv' BY <1>6, OnOneMapNextStep
<1>7. ASSUME NEW path \in DOMAIN Library, NEW i \in DOMAIN Library[path].stmts,
      OnOfxStatementChanged(i) PROVE IInv'
  BY <1>7, OnOfxStatementChangedStep
<1>8. ASSUME NEW a \in AccountIds, OnConfirmAccountChanged(a) PROVE IInv'
  BY <1>8, OnConfirmAccountChangedStep
<1>9. ASSUME NEW a \in AccountIds, NEW n, CreateAccountFrom(a, n) PROVE IInv'
  BY <1>9, CreateAccountFromStep
<1> QED BY <1>1, <1>2, <1>3, <1>4, <1>5, <1>6, <1>7, <1>8, <1>9 DEF OneNext

-------------------------------------------------------------------------------
(* The actions on a batch.                                                   *)

(* What a list of records that stands gives once it is the batch.            *)
LEMMA DrawnThen ==
    ASSUME NEW gs, Drawn(gs), files' = gs, UNCHANGED <<accounts, books>>
    PROVE  Drawn(files)' /\ Accounted' /\ files' \in Seq(Record)
<1>1. files' \in Seq(Record) BY DEF Drawn
<1>2. ASSUME NEW i \in DOMAIN gs PROVE Fresh(gs[i])'
  BY <1>2 DEF Drawn, Fresh, Preview
<1>3. Drawn(files)' BY <1>1, <1>2 DEF Drawn, Fresh, Preview, RecOK, Whole, Untried, Content,
      Kind, Lck, Layout, Needed
<1>4. Accounted' BY <1>2 DEF Accounted, Drawn, Fresh, RecOK, Whole, Untried, Content, Kind, Lck,
      Layout, Needed
<1> QED BY <1>1, <1>3, <1>4

(* So do its questions.                                                      *)
LEMMA AskThen ==
    ASSUME NEW gs, NEW run, NEW saved, AskOK(gs, run, saved), files' = gs, typed' = run,
           DOMAIN profiles' = saved,
           StoredPasswords' = StoredPasswords
    PROVE  AskOK(files, typed, DOMAIN profiles)'
<1>1. Full(files)' = Full(gs) OBVIOUS
<1>2. BlockedIn(files)' = BlockedIn(gs) BY DEF BlockedIn
<1> QED BY <1>1, <1>2 DEF AskOK, PasswordLadder, Lck, Layout, Content

(* So does its scan.                                                         *)
LEMMA ScanThen ==
    ASSUME NEW gs, NEW idx, Scanning(gs, idx), files' = gs, index' = idx,
           UNCHANGED <<accounts, books, profiles>>,
           StoredPasswords' = StoredPasswords
    PROVE  Scanning(files, index)'
<1>1. Drawn(files)' BY DrawnThen DEF Scanning
<1>2. \A i \in DOMAIN gs : Open(gs[i], {})' BY DEF Scanning, Open, PasswordLadder, Lck, Layout,
      Content
<1> QED BY <1>1, <1>2 DEF Scanning, Unopened, Open, PasswordLadder, Lck, Layout, Content

(* The stored passwords are those of the accounts there are.                 *)
LEMMA StoredSame == ASSUME UNCHANGED <<accounts, stored>> PROVE StoredPasswords' = StoredPasswords
BY DEF StoredPasswords

(* A record given an account, and the batch reviewed.                        *)
Settled(fs, i, a) == Review([fs EXCEPT ![i] = SetAccount(@, a)])

(* Choosing an account for a record, and the review that follows, in the     *)
(* records' own terms.                                                       *)
LEMMA SettleIs ==
    ASSUME VaultOK, NEW fs, Drawn(fs), NEW i \in DOMAIN fs, NEW a \in DOMAIN accounts
    PROVE  LET gs == Settled(fs, i, a)
           IN /\ Drawn(gs) /\ Kept(gs, fs) /\ CountedFrom(gs, 1)
              /\ \A j \in DOMAIN fs : /\ gs[j].path = fs[j].path /\ gs[j].stmt = fs[j].stmt
                                      /\ gs[j].pending = fs[j].pending
                                      /\ gs[j].rescan = fs[j].rescan /\ gs[j].parsed = fs[j].parsed
                                      /\ (~fs[j].parsed => gs[j] = fs[j])
                                      /\ (fs[j].parsed
                                         => gs[j].outcome \notin {"waiting"} \cup Blocking)
<1>1. PICK s : s = SetAccount(fs[i], a) OBVIOUS
<1>2. RecOK(s) /\ Fresh(s) /\ SameFile(s, fs[i]) /\ s.parsed = fs[i].parsed
      /\ (~fs[i].parsed => s = fs[i])
  BY <1>1, SetAccountOK DEF Drawn
<1>3. PICK hs : hs = [fs EXCEPT ![i] = s] OBVIOUS
<1>4. fs \in Seq(Record) /\ s \in Record BY <1>2 DEF Drawn, RecOK, Whole
<1>5. hs \in Seq(Record) /\ Len(hs) = Len(fs) /\ DOMAIN hs = DOMAIN fs /\ hs[i] = s
      /\ \A j \in DOMAIN fs : j # i => hs[j] = fs[j]
  BY <1>3, <1>4, Replace
<1>6. Drawn(hs) BY <1>2, <1>5 DEF Drawn
<1>7. PICK gs : gs = Review(hs) OBVIOUS
<1>8. Settled(fs, i, a) = gs BY <1>1, <1>3, <1>7 DEF Settled
<1>9. Drawn(gs) /\ Kept(gs, hs) /\ CountedFrom(gs, 1) BY <1>6, <1>7, ReviewIs, ReviewCounts
<1>10. \A j \in DOMAIN hs :
           /\ hs[j].preview = None => gs[j] = hs[j]
           /\ gs[j].path = hs[j].path /\ gs[j].stmt = hs[j].stmt /\ gs[j].pending = hs[j].pending
           /\ gs[j].rescan = hs[j].rescan /\ gs[j].parsed = hs[j].parsed
  BY <1>6, <1>7, ReviewIs
<1>11. \A j \in DOMAIN fs : /\ hs[j].path = fs[j].path /\ hs[j].stmt = fs[j].stmt
                            /\ hs[j].pending = fs[j].pending
                            /\ hs[j].rescan = fs[j].rescan /\ hs[j].parsed = fs[j].parsed
                            /\ (~fs[j].parsed => hs[j] = fs[j])
  BY <1>2, <1>5 DEF SameFile
<1>12. \A j \in DOMAIN fs : ~fs[j].parsed => fs[j].preview = None BY DEF Drawn, RecOK, Whole
<1>13. DOMAIN gs = DOMAIN fs /\ Kept(gs, fs) BY <1>5, <1>9, <1>11 DEF Kept
<1>14. \A j \in DOMAIN fs : gs[j].parsed => gs[j].outcome \notin {"waiting"} \cup Blocking
  BY <1>9, <1>13 DEF Drawn, RecOK, Whole
<1> QED BY <1>5, <1>8, <1>9, <1>10, <1>11, <1>12, <1>13, <1>14

(* Every phase before the run is kept by it, and so are the questions.       *)
SettledWell(gs, fs, idx, run, saved) ==
    /\ Drawn(gs) /\ Kept(gs, fs) /\ CountedFrom(gs, 1)
    /\ Scanning(fs, idx) => Scanning(gs, idx)
    /\ AskOK(fs, run, saved) => AskOK(gs, run, saved)
    /\ (\A j \in DOMAIN fs : fs[j].outcome \notin Blocking \cup {"waiting"}) => Reviewed(gs)
    /\ \A j \in DOMAIN fs : gs[j].parsed = fs[j].parsed
    /\ BlockedIn(gs) = BlockedIn(fs) /\ Queued(gs) = Queued(fs)
    /\ \A j \in BlockedIn(fs) : gs[j] = fs[j]

SettlesWell == \A fs, i, a, idx, run, saved :
    VaultOK /\ Drawn(fs) /\ i \in DOMAIN fs /\ a \in DOMAIN accounts =>
        SettledWell(Settled(fs, i, a), fs, idx, run, saved)

(* So is every phase kept, for any list and any choice.                      *)
LEMMA SettledOK == SettlesWell
<1> SUFFICES ASSUME NEW fs, NEW i, NEW a, NEW idx, NEW run, NEW saved,
                    VaultOK, Drawn(fs), i \in DOMAIN fs, a \in DOMAIN accounts
             PROVE  SettledWell(Settled(fs, i, a), fs, idx, run, saved)
  BY DEF SettlesWell
<1>1. PICK gs : gs = Settled(fs, i, a) OBVIOUS
<1>2. Drawn(gs) /\ Kept(gs, fs) /\ CountedFrom(gs, 1) /\ DOMAIN gs = DOMAIN fs
  BY <1>1, SettleIs DEF Kept
<1>3. \A j \in DOMAIN fs : /\ gs[j].path = fs[j].path /\ gs[j].stmt = fs[j].stmt
                           /\ gs[j].pending = fs[j].pending
                           /\ gs[j].rescan = fs[j].rescan /\ gs[j].parsed = fs[j].parsed
                           /\ (~fs[j].parsed => gs[j] = fs[j])
                           /\ (fs[j].parsed => gs[j].outcome \notin {"waiting"} \cup Blocking)
  BY <1>1, SettleIs
<1>4. \A j \in DOMAIN fs : fs[j].outcome \in {"waiting"} \cup Blocking => ~fs[j].parsed
  BY DEF Drawn, RecOK, Whole
<1>5. BlockedIn(gs) = BlockedIn(fs) /\ (\A j \in BlockedIn(fs) : gs[j] = fs[j])
  BY <1>2, <1>3, <1>4 DEF BlockedIn
<1>6. Queued(gs) = Queued(fs) BY <1>2, <1>3 DEF Queued
<1>7. ASSUME Scanning(fs, idx) PROVE Scanning(gs, idx)
  <2> SUFFICES ASSUME NEW j \in DOMAIN fs
               PROVE  /\ ~gs[j].rescan /\ gs[j].pending = None /\ Open(gs[j], {})
                      /\ j < idx => gs[j].outcome # "waiting"
                      /\ j >= idx => Unopened(gs[j])
    BY <1>2 DEF Scanning
  <2>1. CASE ~fs[j].parsed BY <1>3, <1>7, <2>1 DEF Scanning
  <2>2. CASE fs[j].parsed
    <3>1. ~(j >= idx) BY <1>7, <2>2 DEF Scanning, Unopened
    <3> QED BY <1>3, <1>7, <2>2, <3>1 DEF Scanning, Open, Blocking
  <2> QED BY <2>1, <2>2
<1>8. ASSUME AskOK(fs, run, saved) PROVE AskOK(gs, run, saved)
  <2>1. Full(gs) = Full(fs) BY <1>2, <1>3, FullKept
  <2> SUFFICES ASSUME NEW j \in DOMAIN fs
      PROVE /\ gs[j].outcome # "waiting"
            /\ gs[j].outcome = "needs_password" /\ ~gs[j].rescan
               => Lck(gs[j]) \notin {None} \cup PasswordLadder(run)
            /\ gs[j].outcome = "needs_mapping" /\ ~gs[j].rescan => Layout(gs[j]) \notin saved
               \/ Full(gs)
            /\ gs[j].outcome = "needs_password" /\ gs[j].pending # None =>
                  ~gs[j].rescan /\ \A l \in BlockedIn(gs) : j <= l
    BY <1>2 DEF AskOK
  <2>2. CASE ~fs[j].parsed
    <3>1. gs[j] = fs[j] BY <1>3, <2>2
    <3> QED BY <1>5, <1>8, <2>1, <3>1 DEF AskOK
  <2>3. CASE fs[j].parsed BY <1>3, <2>3 DEF Blocking
  <2> QED BY <2>2, <2>3
<1>9. ASSUME \A j \in DOMAIN fs : fs[j].outcome \notin Blocking \cup {"waiting"} PROVE Reviewed(gs)
  <2>1. \A j \in DOMAIN fs : gs[j].outcome \notin Blocking \cup {"waiting"} BY <1>3, <1>9
  <2> QED BY <1>2, <2>1 DEF Reviewed
<1> QED BY <1>1, <1>2, <1>3, <1>5, <1>6, <1>7, <1>8, <1>9 DEF SettledWell

(* Early in a batch the records are drawn from the vault as it is.           *)
LEMMA Early == ASSUME BatchOK, phase \in {"scan", "ask", "review"} PROVE Drawn(files)
BY DEF BatchOK, PhaseOK, Scanning, Reviewed

(* A scan stands as long as its list is drawn from the vault and nothing was *)
(* learnt.                                                                   *)
LEMMA ScanWith ==
    ASSUME NEW gs, NEW idx, Scanning(gs, idx), Drawn(gs)', UNCHANGED profiles,
           StoredPasswords' = StoredPasswords
    PROVE  Scanning(gs, idx)'
<1>1. \A i \in DOMAIN gs : Open(gs[i], {})' BY DEF Scanning, Open, PasswordLadder, Lck, Layout,
      Content
<1> QED BY <1>1 DEF Scanning, Unopened, Open, PasswordLadder, Lck, Layout, Content

(* The questions stand as long as no password was stored.                    *)
LEMMA AskWith ==
    ASSUME NEW gs, NEW run, NEW saved, AskOK(gs, run, saved), StoredPasswords' = StoredPasswords
    PROVE  AskOK(gs, run, saved)'
BY DEF AskOK, PasswordLadder

(* Choosing an account for a record, the picker's or a new one.              *)
LEMMA SettleStep ==
    ASSUME BatchOK, VaultOK', picking # None, NEW a, a \in DOMAIN accounts',
           DOMAIN accounts \subseteq DOMAIN accounts',
           files' = Settled(files, picking, a), picking' = None, StoredPasswords' = StoredPasswords,
           UNCHANGED <<books, spans, stored, profiles, index, phase, armed, asking, typed, form, picks>>
    PROVE  BatchOK'
<1>1. phase \in {"scan", "ask", "review"} /\ picking \in DOMAIN files BY DEF BatchOK, PickOK
<1>2. Drawn(files) BY <1>1, Early
<1>3. PICK fs, i, idx, run, saved : fs = files /\ i = picking /\ idx = index /\ run = typed
      /\ saved = DOMAIN profiles OBVIOUS
<1>4. Drawn(fs)' 
  <2>1. ASSUME NEW j \in DOMAIN fs PROVE Fresh(fs[j])'
    BY <1>2, <1>3 DEF Drawn, Fresh, Preview
  <2> QED BY <1>2, <1>3, <2>1 DEF Drawn, Fresh, Preview, RecOK, Whole, Untried, Content, Kind,
      Lck, Layout, Needed
<1>5. PICK gs : gs = Settled(fs, i, a) OBVIOUS
<1>6. Settled(fs, i, a)' = gs
  <2>1. SetAccount(fs[i], a)' = SetAccount(fs[i], a) BY DEF SetAccount, Preview
  <2>2. PICK hs : hs = [fs EXCEPT ![i] = SetAccount(fs[i], a)] OBVIOUS
  <2>3. Review(hs)' = Review(hs) BY DEF Review, NewCount
  <2> QED BY <1>5, <2>1, <2>2, <2>3 DEF Settled
<1>7. SettlesWell' BY SettledOK, PTL
<1>8. SettledWell(gs, fs, idx, run, saved)' BY <1>1, <1>3, <1>4, <1>6, <1>7 DEF SettlesWell
<1>9. files' = gs BY <1>3, <1>5
<1>10. Drawn(gs)' /\ Kept(gs, fs) /\ CountedFrom(gs, 1)' BY <1>8 DEF SettledWell
<1>11. Drawn(files)' BY <1>9, <1>10
<1>12. Accounted' BY <1>11 DEF Accounted, Drawn, Fresh
<1>13. gs \in Seq(Record) /\ DOMAIN gs = DOMAIN files BY <1>3, <1>10 DEF Kept
<1>14. Types' BY <1>9, <1>13 DEF BatchOK, Types
<1>15. PhaseOK'
  <2>1. CASE phase = "scan"
    <3>1. typed = {} /\ Scanning(fs, idx) BY <1>3, <2>1 DEF BatchOK, PhaseOK
    <3>2. Scanning(fs, idx)' BY <1>4, <3>1, ScanWith
    <3>3. Scanning(gs, idx)' BY <1>8, <3>2 DEF SettledWell
    <3>4. Scanning(files, index)' BY <1>3, <1>9, <3>3
    <3> QED BY <2>1, <3>1, <3>4 DEF PhaseOK
  <2>2. CASE phase = "ask"
    <3>1. AskOK(fs, run, saved) BY <1>3, <2>2 DEF BatchOK, PhaseOK
    <3>2. AskOK(fs, run, saved)' BY <3>1, AskWith
    <3>3. AskOK(gs, run, saved)' BY <1>8, <3>2 DEF SettledWell
    <3>4. AskOK(files, typed, DOMAIN profiles)' BY <1>3, <1>9, <3>3
    <3> QED BY <1>11, <2>2, <3>4 DEF PhaseOK
  <2>3. CASE phase = "review"
    <3>1. \A j \in DOMAIN fs : fs[j].outcome \notin Blocking \cup {"waiting"}
      BY <1>3, <2>3 DEF BatchOK, PhaseOK, Reviewed
    <3>2. Reviewed(gs)' BY <1>8, <3>1 DEF SettledWell
    <3>3. Reviewed(files)' BY <1>9, <3>2
    <3> QED BY <2>3, <3>3 DEF PhaseOK
  <2> QED BY <1>1, <2>1, <2>2, <2>3
<1>16. PickOK' BY DEF PickOK
<1>17. QuestionOK'
  <2>1. fs[asking].outcome = "needs_mapping" /\ asking \in BlockedIn(fs)
        => gs[asking] = fs[asking] BY <1>8 DEF SettledWell
  <2>2. BlockedIn(files') = BlockedIn(files) /\ Queued(files') = Queued(files)
    BY <1>3, <1>8, <1>9 DEF SettledWell
  <2> QED BY <1>1, <1>3, <1>8, <1>9, <2>1, <2>2 DEF BatchOK, QuestionOK, SettledWell
<1> QED BY <1>12, <1>14, <1>15, <1>16, <1>17 DEF BatchOK

(* How often each timer is armed.                                            *)
Slots == [{"scan", "ask", "run"} -> Nat]

(* A turn of a timer taken leaves its count a number.                        *)
LEMMA TurnIs == ASSUME armed \in Slots, NEW slot, NEW next, Turn(slot, next) PROVE armed' \in Slots
<1>1. \A s \in DOMAIN armed : armed'[s] \in Nat BY DEF Turn, Slots
<1> QED BY <1>1 DEF Turn, Slots

(* So does arming one.                                                       *)
LEMMA ArmIs == ASSUME armed \in Slots, NEW slot \in {"scan", "ask", "run"}, Arm(slot)
  PROVE armed' \in Slots
BY DEF Arm, Slots

(* A phase stays as it is while its records, its place and the vault do.     *)
LEMMA PhaseSame ==
    ASSUME PhaseOK, Accounted, UNCHANGED <<vault, files, index, phase, typed>>
    PROVE  PhaseOK' /\ Accounted'
<1>0. accounts' = accounts /\ books' = books /\ profiles' = profiles
      /\ StoredPasswords' = StoredPasswords
  BY StoredSame DEF vault
<1>1. Accounted' BY <1>0 DEF Accounted, RecOK, Whole, Untried, Content, Kind, Lck, Layout, Needed
<1>2. CASE phase = "scan"
  <2>1. Scanning(files, index)' BY <1>0, <1>2, ScanThen DEF PhaseOK
  <2> QED BY <1>1, <1>2, <2>1 DEF PhaseOK
<1>3. CASE phase = "ask"
  <2>1. Drawn(files)' BY <1>0, <1>3, DrawnThen DEF PhaseOK
  <2>2. AskOK(files, typed, DOMAIN profiles)' BY <1>0, <1>3, AskThen DEF PhaseOK
  <2> QED BY <1>1, <1>3, <2>1, <2>2 DEF PhaseOK
<1>4. CASE phase = "review"
  <2>1. Drawn(files)' BY <1>0, <1>4, DrawnThen DEF PhaseOK, Reviewed
  <2>2. CountedFrom(files, 1)' BY <1>0, <1>4 DEF PhaseOK, Reviewed, CountedFrom, Counted
  <2> QED BY <1>1, <1>4, <2>1, <2>2 DEF PhaseOK, Reviewed
<1>5. CASE phase = "run"
  <2>2. CountedFrom(files, index)' BY <1>0, <1>5 DEF PhaseOK, RunOK, CountedFrom, Counted
  <2>3. \A i \in DOMAIN files : Reported(files, i) => Reported(files, i)' BY <1>0 DEF Reported,
        Landed
  <2> QED BY <1>1, <1>5, <2>2, <2>3 DEF PhaseOK, RunOK
<1>6. CASE phase = "report"
  <2>3. \A i \in DOMAIN files : Reported(files, i) => Reported(files, i)' BY <1>0 DEF Reported,
        Landed
  <2> QED BY <1>1, <1>6, <2>3 DEF PhaseOK
<1>7. CASE phase \notin {"scan", "ask", "review", "run", "report"}
  BY <1>1, <1>7 DEF PhaseOK
<1> QED BY <1>2, <1>3, <1>4, <1>5, <1>6, <1>7

(* The account picked in the table.                                          *)
LEMMA ApplyAccountStep ==
    ASSUME VaultFine, BatchOK, NEW a \in AccountIds, ApplyAccount(a)
    PROVE  VaultFine' /\ BatchOK'
<1>1. UNCHANGED vault BY DEF ApplyAccount
<1>2. VaultFine' /\ StoredPasswords' = StoredPasswords BY <1>1, VaultSame, StoredSame DEF vault
<1>3. files' = Settled(files, picking, a) BY DEF ApplyAccount, Settle, Settled
<1>4. BatchOK' BY <1>1, <1>2, <1>3, SettleStep DEF ApplyAccount, Settle, vault, VaultFine
<1> QED BY <1>2, <1>4

(* An account made from the picker.                                          *)
LEMMA CreatedStep ==
    ASSUME VaultFine, BatchOK, NEW a \in AccountIds, NEW n, Created(a, n)
    PROVE  VaultFine' /\ BatchOK'
<1>1. /\ accounts' = [b \in DOMAIN accounts \cup {a} |-> IF b = a THEN n ELSE accounts[b]]
      /\ UNCHANGED <<books, spans, stored, profiles>> /\ a \in AccountIds \ DOMAIN accounts
  BY DEF Created
<1>2. VaultFine' /\ DOMAIN accounts \subseteq DOMAIN accounts' /\ a \in DOMAIN accounts'
  BY <1>1, AccountAdded
<1>3. stored[a] = None /\ DOMAIN accounts' = DOMAIN accounts \cup {a} BY <1>1 DEF VaultFine, VaultOK
<1>4. StoredPasswords' = StoredPasswords BY <1>1, <1>3 DEF StoredPasswords
<1>5. files' = Settled(files, picking, a) BY DEF Created, Settle, Settled
<1>6. BatchOK' BY <1>1, <1>2, <1>4, <1>5, SettleStep DEF Created, Settle, VaultFine
<1> QED BY <1>2, <1>6

(* The picker opened on a record.                                            *)
LEMMA ChooseAccountStep ==
    ASSUME VaultFine, BatchOK, NEW i \in DOMAIN files, ChooseAccount(i)
    PROVE  VaultFine' /\ BatchOK'
<1>1. VaultFine' BY VaultSame DEF ChooseAccount
<1>2. PhaseOK' /\ Accounted' BY PhaseSame DEF ChooseAccount, BatchOK
<1>3. Types' /\ QuestionOK' BY DEF ChooseAccount, BatchOK, Types, QuestionOK, TableOnTop
<1>4. phase \in {"scan", "ask", "review"} /\ PickOK' BY DEF ChooseAccount, BatchOK, Types,
      TableOnTop, PickOK
<1> QED BY <1>1, <1>2, <1>3, <1>4 DEF BatchOK

(* The picker closed, nothing picked.                                        *)
LEMMA ClosePickerStep ==
    ASSUME VaultFine, BatchOK, ClosePicker
    PROVE  VaultFine' /\ BatchOK'
<1>1. VaultFine' BY VaultSame DEF ClosePicker
<1>2. PhaseOK' /\ Accounted' BY PhaseSame DEF ClosePicker, BatchOK
<1>3. Types' /\ QuestionOK' /\ PickOK' BY DEF ClosePicker, BatchOK, Types, QuestionOK, BlockedIn,
      Queued, PickOK
<1> QED BY <1>1, <1>2, <1>3 DEF BatchOK

(* A turn armed for a batch that is gone.                                    *)
LEMMA StaleTurnStep ==
    ASSUME VaultFine, BatchOK, StaleTurn
    PROVE  VaultFine' /\ BatchOK'
<1>1. VaultFine' BY VaultSame DEF StaleTurn
<1>2. PhaseOK' /\ Accounted' BY PhaseSame DEF StaleTurn, BatchOK
<1>3. armed' \in Slots BY TurnIs DEF StaleTurn, BatchOK, Types, Slots
<1>4. Types' /\ QuestionOK' /\ PickOK' BY <1>3 DEF StaleTurn, BatchOK, Types, QuestionOK,
      BlockedIn, Queued, PickOK, Slots
<1> QED BY <1>1, <1>2, <1>4 DEF BatchOK

(* The wizard closed and opened again.                                       *)
LEMMA NewWizardStep ==
    ASSUME VaultFine, BatchOK, NewWizard
    PROVE  VaultFine' /\ BatchOK'
<1>1. VaultFine' BY VaultSame DEF NewWizard
<1>2. (/\ files = <<>> /\ phase = "idle" /\ index \in Nat \ {0}
                       /\ armed \in [{"scan", "ask", "run"} -> Nat]
       /\ typed \subseteq Passwords /\ form \in {"plain", "reversed"} /\ picks \in Nat
       /\ asking = None /\ picking = None
       => BatchOK)'
  <2>1. /\ files = <<>> /\ phase = "idle" /\ index \in Nat \ {0}
                        /\ armed \in [{"scan", "ask", "run"} -> Nat]
        /\ typed \subseteq Passwords /\ form \in {"plain", "reversed"} /\ picks \in Nat
        /\ asking = None /\ picking = None
        => BatchOK
    BY EmptyBatchOK
  <2> QED BY EmptyBatchOK, PTL
<1>3. BatchOK' BY <1>2 DEF NewWizard, Idle, BatchOK, Types
<1> QED BY <1>1, <1>3

(* Several paths selected: a batch begins.                                   *)
LEMMA SelectFilesStep ==
    ASSUME VaultFine, BatchOK, NEW paths \in SUBSET DOMAIN Library, SelectFiles(paths)
    PROVE  VaultFine' /\ BatchOK'
<1>1. VaultFine' BY VaultSame DEF SelectFiles
<1>2. asking = None /\ picking = None /\ phase = "idle" BY IdleIs DEF SelectFiles
<1> DEFINE n == Cardinality(paths)
           nth(i) == CHOOSE p \in paths : Cardinality({q \in paths : q < p}) = i - 1
<1>3. PICK o : o = IF n > MaxFiles THEN "not_attempted" ELSE "waiting" OBVIOUS
<1>4. o \in {"waiting", "not_attempted"} BY <1>3
<1>5. IsFiniteSet(paths) /\ paths \subseteq Nat /\ n \in Nat BY FilesAreRead, FS_Subset,
      FS_CardinalityType
<1>6. \A i \in 1..n : nth(i) \in paths BY <1>5, NthIs DEF Nth, Below
<1>7. PICK gs : gs = [i \in 1..n |-> [BatchFile(nth(i)) EXCEPT !.outcome = o]] OBVIOUS
<1>8. files' = gs BY <1>3, <1>7 DEF SelectFiles
<1>9. \A i \in 1..n : RecOK(gs[i]) /\ Unopened(gs[i]) BY <1>4, <1>6, <1>7, BatchFileOK
<1>10. gs \in Seq(Record) /\ Len(gs) = n /\ DOMAIN gs = 1..n
  <2>1. PICK m : m = n OBVIOUS
  <2>2. m \in Nat /\ DOMAIN gs = 1..m /\ gs = [i \in 1..m |-> gs[i]] BY <1>5, <1>7, <2>1
  <2>3. \A i \in 1..m : gs[i] \in Record BY <1>9, <2>1 DEF RecOK, Whole
  <2> QED BY <2>1, <2>2, <2>3
<1>11. Scanning(gs, 1) BY <1>9, <1>10 DEF Scanning, Drawn, Fresh, Unopened, Open
<1>12. Scanning(files, index)' BY <1>8, <1>11, ScanThen, StoredSame DEF SelectFiles, vault
<1>13. armed' \in Slots BY ArmIs DEF SelectFiles, BatchOK, Types, Slots
<1>14. Accounted' BY <1>8, <1>11, DrawnThen DEF Scanning, SelectFiles, vault
<1>15. Types'
  <2>1. index' = 1 /\ phase' = "scan" /\ asking' = None /\ picking' = picking /\ typed' = {}
        /\ form' = form /\ picks' = picks + 1
    BY DEF SelectFiles
  <2>2. files' \in Seq(Record) BY <1>8, <1>10
  <2> QED BY <1>2, <1>13, <2>1, <2>2 DEF BatchOK, Types, Slots
<1>16. PhaseOK' BY <1>12 DEF SelectFiles, PhaseOK
<1>17. PickOK' /\ QuestionOK' BY <1>2 DEF SelectFiles, PickOK, QuestionOK
<1> QED BY <1>1, <1>14, <1>15, <1>16, <1>17 DEF BatchOK

(* One turn of the scan.                                                     *)
LEMMA ScanNextStep ==
    ASSUME VaultFine, BatchOK, ScanNext
    PROVE  VaultFine' /\ BatchOK'
<1>1. VaultFine' BY VaultSame DEF ScanNext
<1>2. PICK st : st = ScanStep(files, index) OBVIOUS
<1>3. typed = {} /\ Scanning(files, index) /\ index \in Nat \ {0} /\ index <= Len(files)
  BY DEF ScanNext, BatchOK, PhaseOK, Types
<1>4. /\ Scanning(st.files, st.next) /\ st.next \in Nat \ {0}
      /\ \A i \in DOMAIN files : i < index => i \in DOMAIN st.files /\ st.files[i] = files[i]
  BY <1>2, <1>3, ScanStepOK DEF VaultFine
<1>5. files' = st.files /\ index' = st.next /\ UNCHANGED vault BY <1>2 DEF ScanNext
<1>6. Scanning(files, index)' BY <1>4, <1>5, ScanThen, StoredSame DEF vault
<1>7. Accounted' BY <1>4, <1>5, DrawnThen DEF Scanning, vault
<1>8. armed' \in Slots BY TurnIs DEF ScanNext, BatchOK, Types, Slots
<1>9. asking = None BY DEF ScanNext, BatchOK, QuestionOK
<1>10. picking # None => picking < index BY <1>3 DEF BatchOK, PickOK, Scanning, Unopened
<1>11. PickOK' BY <1>4, <1>5, <1>10 DEF ScanNext, BatchOK, PickOK
<1>12. Types' BY <1>4, <1>5, <1>8, <1>9, <1>11 DEF ScanNext, BatchOK, Types, Scanning, Drawn,
       Slots, PickOK
<1>13. PhaseOK' BY <1>3, <1>6 DEF ScanNext, PhaseOK
<1>14. QuestionOK' BY <1>9 DEF ScanNext, QuestionOK
<1> QED BY <1>1, <1>7, <1>11, <1>12, <1>13, <1>14 DEF BatchOK

(* Import pressed: the reviewed batch becomes the run.                       *)
LEMMA OnBatchImportStep ==
    ASSUME VaultFine, BatchOK, OnBatchImport
    PROVE  VaultFine' /\ BatchOK'
<1>1. VaultFine' BY VaultSame DEF OnBatchImport
<1>2. Reviewed(files) /\ asking = None /\ picking = None BY DEF OnBatchImport, TableOnTop,
      BatchOK, PhaseOK
<1>3. Accounted' BY DEF OnBatchImport, BatchOK, Accounted, vault
<1>4. armed' \in Slots BY ArmIs DEF OnBatchImport, BatchOK, Types, Slots
<1>5. Types' BY <1>4 DEF OnBatchImport, BatchOK, Types, Slots
<1>6. PickOK' /\ QuestionOK' BY <1>2 DEF OnBatchImport, PickOK, QuestionOK
<1>7. RunOK(files, 1)
  <2> SUFFICES ASSUME NEW i \in DOMAIN files
      PROVE /\ files[i].outcome \in Terminal \cup {"ready", "already_imported"}
            /\ ~(i < 1) /\ files[i].outcome # "committed"
            /\ (files[i].outcome \in Terminal => files[i].preview = None)
    BY <1>2 DEF RunOK, Reviewed, Terminal
  <2>1. RecOK(files[i]) /\ Fresh(files[i]) /\ files[i] \in Record /\ i \in Nat /\ i >= 1
    BY <1>2 DEF Reviewed, Drawn, RecOK, Whole
  <2>2. files[i].outcome \notin Unsettled BY DEF OnBatchImport, CanImport
  <2>3. files[i].outcome \in Terminal \cup {"ready", "already_imported"} BY <2>1, <2>2 DEF Record
  <2>4. files[i].outcome \in Terminal => files[i].preview = None BY <2>1 DEF Fresh, Terminal
  <2>5. files[i].outcome # "committed" BY <2>1, <2>4 DEF RecOK, Whole, Terminal
  <2>6. ~(i < 1) BY <2>1
  <2> QED BY <2>3, <2>4, <2>5, <2>6
<1>8. \A i \in DOMAIN files : Reported(files, i) => Reported(files, i)' BY DEF Reported, Landed,
      OnBatchImport, vault
<1>9. RunOK(files, index)'
  <2>1. CountedFrom(files, index)' BY <1>7 DEF RunOK, CountedFrom, Counted, OnBatchImport, vault
  <2> QED BY <1>7, <1>8, <2>1 DEF RunOK, OnBatchImport
<1>10. PhaseOK' BY <1>9 DEF OnBatchImport, PhaseOK
<1> QED BY <1>1, <1>3, <1>5, <1>6, <1>10 DEF BatchOK

(* A run that is over, or broken off: every file is told of as it is.        *)
LEMMA RunEndsStep ==
    ASSUME VaultFine, BatchOK, RunEnds
    PROVE  VaultFine' /\ BatchOK'
<1>1. VaultFine' BY VaultSame DEF RunEnds
<1>2. Accounted' BY DEF RunEnds, BatchOK, Accounted, vault
<1>3. armed' \in Slots BY TurnIs DEF RunEnds, BatchOK, Types, Slots
<1>4. asking = None /\ picking = None BY DEF RunEnds, BatchOK, QuestionOK, PickOK
<1>5. Types' BY <1>3 DEF RunEnds, BatchOK, Types, Slots
<1>6. PickOK' /\ QuestionOK' BY <1>4 DEF RunEnds, PickOK, QuestionOK
<1>7. \A i \in DOMAIN files : i < index BY DEF RunEnds, BatchOK, Types
<1>8. \A i \in DOMAIN files : files[i].outcome \in Terminal \cup {"already_imported"}
      /\ Reported(files, i)
  BY <1>7 DEF RunEnds, BatchOK, PhaseOK, RunOK
<1>9. \A i \in DOMAIN files : Reported(files, i) => Reported(files, i)' BY DEF Reported, Landed,
      RunEnds, vault
<1>10. PhaseOK' BY <1>8, <1>9 DEF RunEnds, PhaseOK
<1> QED BY <1>1, <1>2, <1>5, <1>6, <1>10 DEF BatchOK

(* The common end of the steps that leave the batch asking.                  *)
LEMMA AskStep ==
    ASSUME BatchOK, phase \in {"scan", "ask"}, phase' = "ask", NEW gs,
           NEW run \in SUBSET Passwords, NEW saved,
           Drawn(gs), AskOK(gs, run, saved), Kept(gs, files), files' = gs, typed' = run,
             DOMAIN profiles' = saved,
           UNCHANGED <<accounts, books, stored, index, picking, picks>>, armed' \in Slots,
           form' \in {"plain", "reversed"}, asking' \in DOMAIN files \cup {None}, QuestionOK'
    PROVE  BatchOK'
<1>1. StoredPasswords' = StoredPasswords BY StoredSame
<1>2. Drawn(files)' /\ Accounted' /\ files' \in Seq(Record) BY DrawnThen
<1>3. AskOK(files, typed, DOMAIN profiles)' BY <1>1, AskThen
<1>4. PhaseOK' BY <1>2, <1>3 DEF PhaseOK
<1>5. DOMAIN files' = DOMAIN files BY DEF Kept
<1>6. PickOK' BY <1>5 DEF BatchOK, PickOK, Kept
<1>7. Types' BY <1>2, <1>5 DEF BatchOK, Types, Slots
<1> QED BY <1>2, <1>4, <1>6, <1>7 DEF BatchOK

(* What the chain finds when it comes to ask.                                *)
LEMMA AskBegins ==
    ASSUME VaultFine, BatchOK,
           \/ phase = "scan" /\ index > Len(files)
           \/ phase = "ask"
    PROVE  /\ Drawn(files) /\ AskOK(files, typed, DOMAIN profiles) /\ typed \in SUBSET Passwords
           /\ asking \in DOMAIN files \cup {None} /\ (asking # None => Queued(files) = {})
           /\ VaultOK /\ form \in {"plain", "reversed"}
<1>1. CASE phase = "scan" /\ index > Len(files)
  <2>1. typed = {} /\ Scanning(files, index) BY <1>1 DEF BatchOK, PhaseOK
  <2>2. \A i \in DOMAIN files : i < index BY <1>1 DEF BatchOK, Types
  <2>3. AskOK(files, typed, DOMAIN profiles) BY <2>1, <2>2, ScanEnds
  <2> QED BY <2>1, <2>3 DEF VaultFine, BatchOK, Types, QuestionOK, Scanning
<1>2. CASE phase = "ask"
  BY <1>2 DEF VaultFine, BatchOK, Types, QuestionOK, PhaseOK
<1> QED BY <1>1, <1>2

(* NextQuestion is the first blocked record, if any is blocked.              *)
LEMMA BlockedFirst ==
    ASSUME NEW fs \in Seq(Record)
    PROVE  \/ NextQuestion(fs) = None /\ BlockedIn(fs) = {}
           \/ NextQuestion(fs) # None /\ NextQuestion(fs) \in BlockedIn(fs)
              /\ \A j \in BlockedIn(fs) : NextQuestion(fs) <= j
<1>1. CASE BlockedIn(fs) = {}
  <2>1. ~\E i \in DOMAIN fs : fs[i].outcome \in Blocking BY <1>1 DEF BlockedIn
  <2> QED BY <1>1, <2>1 DEF NextQuestion
<1>2. CASE BlockedIn(fs) # {}
  <2>1. \E i \in DOMAIN fs : fs[i].outcome \in Blocking BY <1>2 DEF BlockedIn
  <2>2. NextQuestion(fs) = Min(BlockedIn(fs)) BY <2>1 DEF NextQuestion, BlockedIn
  <2>3. BlockedIn(fs) \in SUBSET DOMAIN fs /\ DOMAIN fs \subseteq Nat BY DEF BlockedIn
  <2>4. NextQuestion(fs) \in BlockedIn(fs) /\ \A j \in BlockedIn(fs) : NextQuestion(fs) <= j
    BY <1>2, <2>2, <2>3, LeastIs
  <2> QED BY <2>3, <2>4, NoneIsNothing
<1> QED BY <1>1, <1>2

(* One turn of the questions: a queued file is read again, or the next       *)
(* question is put, or the review begins.                                    *)
LEMMA BeginAskStep ==
    ASSUME VaultFine, BatchOK, BeginAsk
    PROVE  VaultFine' /\ BatchOK'
<1>1. VaultFine' BY VaultSame DEF BeginAsk
<1>2. /\ Drawn(files) /\ AskOK(files, typed, DOMAIN profiles) /\ typed \in SUBSET Passwords
      /\ asking \in DOMAIN files \cup {None} /\ (asking # None => Queued(files) = {})
      /\ VaultOK /\ form \in {"plain", "reversed"}
  BY AskBegins DEF BeginAsk
<1>3. PICK slot : slot = IF phase = "scan" THEN "scan" ELSE "ask" OBVIOUS
<1>4. phase \in {"scan", "ask"}
      /\ UNCHANGED <<accounts, books, stored, profiles, index, picking, picks, typed>>
        BY DEF BeginAsk, vault
<1>5. files \in Seq(Record) BY <1>2 DEF Drawn
<1>6. CASE Queued(files) # {}
  <2>1. files' = RescanStep(files) /\ phase' = "ask" /\ Turn(slot, "ask")
        /\ UNCHANGED <<asking, form>>
    BY <1>3, <1>6 DEF BeginAsk
  <2>2. armed' \in Slots BY <2>1, TurnIs DEF BatchOK, Types, Slots
  <2>3. PICK gs : gs = RescanStep(files) OBVIOUS
  <2>4. Drawn(gs) /\ AskOK(gs, typed, DOMAIN profiles) /\ Kept(gs, files) BY <1>2, <1>6, <2>3,
        RescanStepOK
  <2>5. asking' = None BY <1>2, <1>6, <2>1
  <2>6. BatchOK' BY <1>2, <1>4, <2>1, <2>2, <2>3, <2>4, <2>5, AskStep DEF QuestionOK
  <2> QED BY <1>1, <2>6
<1>7. CASE Queued(files) = {}
  <2>1. AskNext(slot) BY <1>3, <1>7 DEF BeginAsk
  <2>2. PICK i : i = NextQuestion(files) OBVIOUS
  <2>3. CASE i = None
    <3>1. files' = Review(files) /\ phase' = "review" /\ asking' = None /\ Turn(slot, None)
          /\ UNCHANGED form
      BY <2>1, <2>2, <2>3 DEF AskNext
    <3>2. armed' \in Slots BY <3>1, TurnIs DEF BatchOK, Types, Slots
    <3>3. BlockedIn(files) = {} BY <1>5, <2>2, <2>3, BlockedFirst
    <3>4. PICK gs : gs = Review(files) OBVIOUS
    <3>5. Drawn(gs) /\ Kept(gs, files) /\ CountedFrom(gs, 1) BY <1>2, <3>4, ReviewIs, ReviewCounts
    <3>6. \A j \in DOMAIN gs : gs[j].outcome \notin Blocking \cup {"waiting"}
      <4>1. \A j \in DOMAIN files : /\ files[j].preview = None => gs[j] = files[j]
                                    /\ files[j].preview # None
                                       => gs[j].outcome \in {"ready", "already_imported"}
        BY <1>2, <3>4, ReviewIs
      <4>2. \A j \in DOMAIN files : files[j].outcome \notin Blocking \cup {"waiting"}
        BY <1>2, <3>3 DEF BlockedIn, AskOK
      <4> QED BY <3>5, <4>1, <4>2 DEF Kept, Blocking
    <3>7. Drawn(files)' /\ Accounted' /\ files' \in Seq(Record) BY <1>4, <3>1, <3>4, <3>5, DrawnThen
    <3>8. CountedFrom(files, 1)' BY <1>4, <3>1, <3>4, <3>5 DEF CountedFrom, Counted
    <3>9. Reviewed(files)' BY <3>1, <3>4, <3>6, <3>7, <3>8 DEF Reviewed
    <3>10. PhaseOK' BY <3>1, <3>9 DEF PhaseOK
    <3>11. DOMAIN files' = DOMAIN files BY <3>1, <3>4, <3>5 DEF Kept
    <3>12. PickOK' BY <1>4, <3>1, <3>4, <3>5, <3>11 DEF BatchOK, PickOK, Kept
    <3>13. Types' BY <1>4, <3>1, <3>2, <3>7, <3>11 DEF BatchOK, Types, Slots
    <3>14. QuestionOK' BY <3>1 DEF QuestionOK
    <3> QED BY <1>1, <3>7, <3>10, <3>12, <3>13, <3>14 DEF BatchOK
  <2>4. CASE i # None
    <3>1. i \in BlockedIn(files) /\ (\A j \in BlockedIn(files) : i <= j) /\ i \in DOMAIN files
      BY <1>5, <2>2, <2>4, BlockedFirst DEF BlockedIn
    <3>2. PICK tired : tired = (files[i].outcome = "needs_password"
          /\ files[i].prompts >= MaxPrompts) OBVIOUS
    <3>3. phase' = "ask" BY <2>1, <2>2, <2>4 DEF AskNext
    <3>4. CASE tired
      <4>1. files' = Decline(files, i) /\ asking' = None /\ Turn(slot, "ask") /\ UNCHANGED form
        BY <2>1, <2>2, <2>4, <3>2, <3>4 DEF AskNext
      <4>2. armed' \in Slots BY <4>1, TurnIs DEF BatchOK, Types, Slots
      <4>3. files' = [files EXCEPT ![i].outcome = "skipped"] BY <3>1, <4>1 DEF Decline,
            BlockedIn, Blocking, Terminal
      <4>4. PICK o : o = "skipped" OBVIOUS
      <4>5. PICK gs : gs = [files EXCEPT ![i].outcome = o] OBVIOUS
      <4>6. Drawn(gs) /\ AskOK(gs, typed, DOMAIN profiles) /\ Kept(gs, files)
        BY <1>2, <3>1, <4>4, <4>5, LetGoOK
      <4>7. BatchOK' BY <1>2, <1>4, <3>3, <4>1, <4>2, <4>3, <4>4, <4>5, <4>6, AskStep DEF QuestionOK
      <4> QED BY <1>1, <4>7
    <3>5. CASE ~tired /\ files[i].outcome = "needs_password"
      <4>1. asking' = i /\ Turn(slot, None) /\ files' = [files EXCEPT ![i].prompts = @ + 1]
            /\ UNCHANGED form
        BY <2>1, <2>2, <2>4, <3>2, <3>5 DEF AskNext
      <4>2. armed' \in Slots BY <4>1, TurnIs DEF BatchOK, Types, Slots
      <4>3. PICK s : s = [files[i] EXCEPT !.prompts = @ + 1] OBVIOUS
      <4>4. files[i] \in Record BY <1>5, <3>1
      <4>5. s \in Record /\ Alike(s, files[i]) /\ s.rescan = files[i].rescan
        BY <4>3, <4>4 DEF Record, Alike
      <4>6. PICK gs : gs = [files EXCEPT ![i] = s] OBVIOUS
      <4>7. Drawn(gs) /\ AskOK(gs, typed, DOMAIN profiles) /\ Kept(gs, files)
        BY <1>2, <3>1, <4>5, <4>6, MarkedOK
      <4>8. files' = gs BY <4>1, <4>3, <4>6
      <4>9. gs[i] = s /\ DOMAIN gs = DOMAIN files /\ \A j \in DOMAIN files : j # i
            => gs[j] = files[j] BY <1>5, <3>1, <4>5, <4>6, Replace
      <4>10. BlockedIn(gs) = BlockedIn(files) /\ Queued(gs) = Queued(files)
        BY <4>5, <4>9 DEF BlockedIn, Queued, Alike
      <4>11. gs[i].outcome = "needs_password" BY <3>5, <4>5, <4>9 DEF Alike
      <4>12. QuestionOK' BY <1>7, <3>1, <3>3, <4>1, <4>8, <4>10, <4>11 DEF QuestionOK
      <4>13. BatchOK' BY <1>2, <1>4, <3>1, <3>3, <4>1, <4>2, <4>7, <4>8, <4>12, AskStep
      <4> QED BY <1>1, <4>13
    <3>6. CASE ~tired /\ files[i].outcome # "needs_password"
      <4>1. asking' = i /\ Turn(slot, None) /\ form' = "plain" /\ UNCHANGED files
        BY <2>1, <2>2, <2>4, <3>2, <3>6 DEF AskNext, ResetForm
      <4>2. armed' \in Slots BY <4>1, TurnIs DEF BatchOK, Types, Slots
      <4>3. PICK gs : gs = files OBVIOUS
      <4>4. Drawn(gs) /\ AskOK(gs, typed, DOMAIN profiles) /\ Kept(gs, files)
        BY <1>2, <1>5, <4>3 DEF Kept
      <4>5. QuestionOK' BY <1>7, <3>1, <3>3, <4>1 DEF QuestionOK, BlockedIn, Queued
      <4>6. BatchOK' BY <1>2, <1>4, <3>1, <3>3, <4>1, <4>2, <4>3, <4>4, <4>5, AskStep
      <4> QED BY <1>1, <4>6
    <3> QED BY <3>4, <3>5, <3>6
  <2> QED BY <2>3, <2>4
<1> QED BY <1>6, <1>7

(* The question on screen: the first of the blocked records, none queued.    *)
LEMMA AskedIs ==
    ASSUME VaultFine, BatchOK, asking # None
    PROVE  /\ Drawn(files) /\ AskOK(files, typed, DOMAIN profiles) /\ typed \in SUBSET Passwords
           /\ phase = "ask"
           /\ asking \in BlockedIn(files) /\ asking \in DOMAIN files /\ ~files[asking].rescan
           /\ (\A j \in BlockedIn(files) : asking <= j)
           /\ VaultOK /\ form \in {"plain", "reversed"} /\ files \in Seq(Record)
           /\ files[asking].outcome = "needs_mapping" => form = "plain"
<1>1. phase = "ask" /\ asking \in BlockedIn(files) /\ Queued(files) = {}
      /\ (\A j \in BlockedIn(files) : asking <= j)
      /\ (files[asking].outcome = "needs_mapping" => form = "plain")
  BY DEF BatchOK, QuestionOK
<1>2. Drawn(files) /\ AskOK(files, typed, DOMAIN profiles) BY <1>1 DEF BatchOK, PhaseOK
<1>3. asking \in DOMAIN files /\ ~files[asking].rescan BY <1>1 DEF BlockedIn, Queued
<1> QED BY <1>1, <1>2, <1>3 DEF VaultFine, BatchOK, Types

(* A question declined skips its file.                                       *)
LEMMA DeclineIs ==
    ASSUME NEW fs, NEW i \in BlockedIn(fs)
    PROVE  Decline(fs, i) = [fs EXCEPT ![i].outcome = "skipped"]
BY DEF Decline, BlockedIn, Blocking, Terminal

(* The password box answered or cancelled.                                   *)
LEMMA OnBatchPasswordStep ==
    ASSUME VaultFine, BatchOK, NEW p \in Passwords \cup {None}, NEW remember \in BOOLEAN,
           OnBatchPassword(p, remember)
    PROVE  VaultFine' /\ BatchOK'
<1>1. VaultFine' BY VaultSame DEF OnBatchPassword
<1>2. /\ Drawn(files) /\ AskOK(files, typed, DOMAIN profiles) /\ typed \in SUBSET Passwords
      /\ phase = "ask"
      /\ asking \in BlockedIn(files) /\ asking \in DOMAIN files /\ ~files[asking].rescan
      /\ (\A j \in BlockedIn(files) : asking <= j)
      /\ VaultOK /\ form \in {"plain", "reversed"} /\ files \in Seq(Record)
  BY AskedIs DEF OnBatchPassword
<1>3. files[asking].outcome = "needs_password" /\ asking' = None /\ Arm("ask") /\ phase' = "ask"
      /\ UNCHANGED <<accounts, books, stored, profiles, index, picking, picks, form>>
  BY <1>2 DEF OnBatchPassword, ResumeAsk, vault
<1>4. PICK run : run = IF p = None \/ Full(files) THEN typed ELSE typed \cup {p} OBVIOUS
<1>5. PICK gs : gs = IF p = None THEN Decline(files, asking)
      ELSE AnswerPassword(files, asking, p) OBVIOUS
<1>6. Drawn(gs) /\ AskOK(gs, run, DOMAIN profiles) /\ Kept(gs, files)
  <2>1. CASE p = None
    <3>1. PICK o : o = "skipped" OBVIOUS
    <3>2. gs = [files EXCEPT ![asking].outcome = o] BY <1>2, <1>5, <2>1, <3>1, DeclineIs
    <3> QED BY <1>2, <1>4, <2>1, <3>1, <3>2, LetGoOK
  <2>2. CASE p # None /\ Full(files)
    BY <1>2, <1>3, <1>4, <1>5, <2>2, AnswerPasswordOK
  <2>3. CASE p # None /\ ~Full(files)
    BY <1>2, <1>3, <1>4, <1>5, <2>3, AnswerPasswordOK
  <2> QED BY <2>1, <2>2, <2>3
<1>7. gs \in Seq(Record) /\ DOMAIN gs = DOMAIN files BY <1>6 DEF Kept
<1>8. PICK s : s = [gs[asking] EXCEPT !.remember = remember] OBVIOUS
<1>9. gs[asking] \in Record BY <1>2, <1>7
<1>10. s \in Record /\ Alike(s, gs[asking]) /\ s.rescan = gs[asking].rescan
  BY <1>8, <1>9 DEF Record, Alike
<1>11. PICK hs : hs = [gs EXCEPT ![asking] = s] OBVIOUS
<1>12. Drawn(hs) /\ AskOK(hs, run, DOMAIN profiles) /\ Kept(hs, gs) BY <1>2, <1>6, <1>7, <1>10,
       <1>11, MarkedOK
<1>13. Kept(hs, files) BY <1>6, <1>12 DEF Kept
<1>14. files' = hs BY <1>5, <1>8, <1>11 DEF OnBatchPassword
<1>15. typed' = run /\ run \in SUBSET Passwords BY <1>2, <1>4 DEF OnBatchPassword
<1>16. armed' \in Slots BY <1>3, ArmIs DEF BatchOK, Types, Slots
<1>17. BatchOK' BY <1>2, <1>3, <1>12, <1>13, <1>14, <1>15, <1>16, AskStep DEF QuestionOK
<1> QED BY <1>1, <1>17

(* The map page cancelled.                                                   *)
LEMMA OnMapCancelStep ==
    ASSUME VaultFine, BatchOK, OnMapCancel
    PROVE  VaultFine' /\ BatchOK'
<1>1. VaultFine' BY VaultSame DEF OnMapCancel
<1>2. /\ Drawn(files) /\ AskOK(files, typed, DOMAIN profiles) /\ typed \in SUBSET Passwords
      /\ phase = "ask"
      /\ asking \in BlockedIn(files) /\ asking \in DOMAIN files
      /\ form \in {"plain", "reversed"}
  BY AskedIs DEF OnMapCancel
<1>3. asking' = None /\ Arm("ask") /\ phase' = "ask" /\ typed' = typed
      /\ UNCHANGED <<accounts, books, stored, profiles, index, picking, picks, form>>
  BY <1>2 DEF OnMapCancel, ResumeAsk, vault
<1>4. PICK o : o = "skipped" OBVIOUS
<1>5. PICK gs : gs = [files EXCEPT ![asking].outcome = o] OBVIOUS
<1>6. files' = gs BY <1>2, <1>4, <1>5, DeclineIs DEF OnMapCancel
<1>7. Drawn(gs) /\ AskOK(gs, typed, DOMAIN profiles) /\ Kept(gs, files) BY <1>2, <1>4, <1>5, LetGoOK
<1>8. armed' \in Slots BY <1>3, ArmIs DEF BatchOK, Types, Slots
<1>9. BatchOK' BY <1>2, <1>3, <1>6, <1>7, <1>8, AskStep DEF QuestionOK
<1> QED BY <1>1, <1>9

(* The map page answered, well or not, its layout saved or not.              *)
LEMMA OnMapNextStep ==
    ASSUME VaultFine, BatchOK, NEW fits \in BOOLEAN, NEW named \in BOOLEAN, OnMapNext(fits, named)
    PROVE  VaultFine' /\ BatchOK'
<1>1. files[asking].outcome = "needs_mapping" /\ asking # None /\ (named => fits) BY DEF OnMapNext
<1>2. /\ Drawn(files) /\ AskOK(files, typed, DOMAIN profiles) /\ typed \in SUBSET Passwords
      /\ phase = "ask"
      /\ asking \in BlockedIn(files) /\ asking \in DOMAIN files /\ ~files[asking].rescan
      /\ (\A j \in BlockedIn(files) : asking <= j)
      /\ VaultOK /\ form = "plain" /\ files \in Seq(Record)
  BY <1>1, AskedIs
<1>3. PICK l : l = Layout(files[asking]) OBVIOUS
<1>4. PICK m : m = IF fits THEN Ticked(l) ELSE "misfit" OBVIOUS
<1>5. Ticked(l) = Needed(l) BY <1>2 DEF Ticked
<1>6. m \in {"misfit", Needed(Layout(files[asking]))} /\ (named => m = Needed(l))
  BY <1>1, <1>3, <1>4, <1>5
<1>7. /\ form' = Ticked(l) /\ files' = AnswerMapping(files, asking, m) /\ asking' = None
      /\ Arm("ask")
      /\ profiles' = IF named THEN [k \in DOMAIN profiles \cup {l} |-> IF k = l THEN m
         ELSE profiles[k]] ELSE profiles
      /\ phase' = "ask"
      /\ UNCHANGED <<accounts, books, spans, stored, index, picking, typed, picks>>
  BY <1>2, <1>3, <1>4 DEF OnMapNext, ResumeAsk, Layout
<1>8. VaultFine' /\ DOMAIN profiles' \subseteq DOMAIN profiles \cup {l} BY <1>6, <1>7, LayoutSaved
<1>9. PICK gs : gs = AnswerMapping(files, asking, m) OBVIOUS
<1>10. PICK saved : saved = DOMAIN profiles' OBVIOUS
<1>11. Drawn(gs) /\ AskOK(gs, typed, saved) /\ Kept(gs, files)
  BY <1>1, <1>2, <1>3, <1>6, <1>8, <1>9, <1>10, AnswerMappingOK
<1>12. form' \in {"plain", "reversed"} BY <1>5, <1>7, NeededIs
<1>13. armed' \in Slots BY <1>7, ArmIs DEF BatchOK, Types, Slots
<1>14. BatchOK' BY <1>2, <1>7, <1>9, <1>10, <1>11, <1>12, <1>13, AskStep DEF QuestionOK
<1> QED BY <1>8, <1>14

-------------------------------------------------------------------------------
(* The run.                                                                  *)

(* A ready record may end without landing.                                   *)
LEMMA EndedOK ==
    ASSUME NEW r, RecOK(r), r.outcome = "ready", NEW o \in {"failed", "not_attempted"}
    PROVE  LET s == [r EXCEPT !.outcome = o]
           IN RecOK(s) /\ s.path = r.path /\ s.stmt = r.stmt /\ s.outcome = o
             /\ s.preview = r.preview
              /\ s.account = r.account /\ s.new = r.new
<1>0. r \in Record BY DEF RecOK, Whole
<1>1. PICK s : s = [r EXCEPT !.outcome = o] OBVIOUS
<1>2. /\ s \in Record /\ s.path = r.path /\ s.stmt = r.stmt /\ s.outcome = o
      /\ s.preview = r.preview /\ s.account = r.account /\ s.new = r.new /\ s.parsed = r.parsed
      /\ s.text = r.text
      /\ s.mapping = r.mapping /\ s.pending = r.pending
  BY <1>0, <1>1 DEF Record, Terminal
<1>3. RecOK(s) BY <1>2 DEF RecOK, Whole, Untried, Content, Kind, Lck, Layout, Blocking, Terminal
<1> QED BY <1>1, <1>2, <1>3

(* Or landed.                                                                *)
LEMMA CommittedOK ==
    ASSUME NEW r, RecOK(r), r.outcome = "ready", NEW n \in Nat
    PROVE  LET s == [r EXCEPT !.outcome = "committed", !.added = n]
           IN RecOK(s) /\ s.path = r.path /\ s.stmt = r.stmt /\ s.outcome = "committed"
             /\ s.preview = r.preview
              /\ s.account = r.account /\ s.new = r.new
<1>0. r \in Record BY DEF RecOK, Whole
<1>1. PICK s : s = [r EXCEPT !.outcome = "committed", !.added = n] OBVIOUS
<1>2. /\ s \in Record /\ s.path = r.path /\ s.stmt = r.stmt /\ s.outcome = "committed"
      /\ s.preview = r.preview /\ s.account = r.account /\ s.new = r.new /\ s.parsed = r.parsed
      /\ s.text = r.text
      /\ s.mapping = r.mapping /\ s.pending = r.pending
  BY <1>0, <1>1 DEF Record, Terminal
<1>3. RecOK(s) BY <1>0, <1>2 DEF RecOK, Whole, Untried, Content, Kind, Lck, Layout, Blocking,
      Terminal
<1> QED BY <1>1, <1>2, <1>3

(* What the review counted as nothing new is there, or rows it counted on    *)
(* were lost.                                                                *)
LEMMA NothingNew ==
    ASSUME VaultOK, NEW fs \in Seq(Record), NEW from, NEW j \in DOMAIN fs, RecOK(fs[j]),
           NEW base \in [Keys -> Nat],
           Counted(fs, from, j, base), fs[j].outcome = "already_imported"
    PROVE  \/ Landed(fs[j]) \/ Lost(fs, fs[j].account, j)
           \/ \E i \in ReadyIn(fs, from, fs[j].account, j) : TRUE
<1>1. PICK rows : rows = Stmt(fs[j]).rows OBVIOUS
<1>2. rows \in [Keys -> Nat] BY <1>1, StmtIs DEF RecOK, Whole, Record
<1>3. PICK left : left = Left(rows, base) OBVIOUS
<1>4. left \in [Keys -> Nat] BY <1>2, <1>3 DEF Left
<1>5. Sum(left) = 0 BY <1>1, <1>3 DEF Counted
<1>6. \A k \in Keys : left[k] = 0 BY <1>4, <1>5, SumOfKeys
<1>7. ASSUME NEW k \in Keys PROVE rows[k] <= base[k] BY <1>2, <1>3, <1>6 DEF Left
<1>8. CASE \A k \in Keys : base[k] = books[fs[j].account][k] BY <1>1, <1>7, <1>8 DEF Landed
<1> QED BY <1>8 DEF Counted

(* A run broken off: what was still to land is lost.                         *)
LEMMA StoppedOK ==
    ASSUME VaultOK, NEW fs \in Seq(Record), NEW idx \in Nat, RunOK(fs, idx),
           \A j \in DOMAIN fs : RecOK(fs[j]),
           NEW gs, DOMAIN gs = DOMAIN fs,
           \A j \in DOMAIN fs : /\ gs[j].path = fs[j].path /\ gs[j].stmt = fs[j].stmt
                                /\ gs[j].account = fs[j].account
                                /\ fs[j].outcome = "ready"
                                   => gs[j].outcome \in {"failed", "not_attempted"}
                                /\ fs[j].outcome # "ready" => gs[j].outcome = fs[j].outcome
    PROVE  \A j \in DOMAIN gs : gs[j].outcome \in Terminal \cup {"already_imported"}
           /\ Reported(gs, j)
<1> SUFFICES ASSUME NEW j \in DOMAIN fs
             PROVE  gs[j].outcome \in Terminal \cup {"already_imported"} /\ Reported(gs, j)
  OBVIOUS
<1>1. fs[j].outcome \in Terminal \cup {"ready", "already_imported"} BY DEF RunOK
<1>2. gs[j].outcome \in Terminal \cup {"already_imported"} BY <1>1 DEF Terminal
<1>3. Landed(fs[j]) => Landed(gs[j]) BY DEF Landed, Stmt, Content
<1>4. Lost(fs, fs[j].account, j) => Lost(gs, gs[j].account, j) BY DEF Lost
<1>5. j < idx \/ j >= idx OBVIOUS
<1>6. gs[j].outcome = "committed" => Landed(gs[j]) BY <1>3, <1>5 DEF RunOK, Reported
<1>7. ASSUME gs[j].outcome = "already_imported" PROVE Landed(gs[j]) \/ Lost(gs, gs[j].account, j)
  <2>1. fs[j].outcome = "already_imported" BY <1>1, <1>7
  <2>2. CASE j >= idx
    <3>1. PICK base \in [Keys -> Nat] : Counted(fs, idx, j, base) BY <2>1, <2>2 DEF RunOK,
          CountedFrom
    <3>2. \/ Landed(fs[j]) \/ Lost(fs, fs[j].account, j)
             \/ \E i \in ReadyIn(fs, idx, fs[j].account, j) : TRUE
      BY <2>1, <3>1, NothingNew
    <3>3. ASSUME NEW i \in ReadyIn(fs, idx, fs[j].account, j) PROVE Lost(gs, gs[j].account, j)
      BY <3>3 DEF ReadyIn, Lost
    <3> QED BY <1>3, <1>4, <3>2, <3>3
  <2>3. CASE j < idx BY <1>3, <1>4, <2>1, <2>3 DEF RunOK, Reported
  <2> QED BY <1>5, <2>2, <2>3
<1> QED BY <1>2, <1>6, <1>7 DEF Reported

(* What holds while the run goes on.                                         *)
LEMMA RunIs ==
    ASSUME VaultFine, BatchOK, phase = "run"
    PROVE  /\ RunOK(files, index) /\ files \in Seq(Record) /\ index \in Nat \ {0} /\ VaultOK
           /\ asking = None /\ picking = None /\ form \in {"plain", "reversed"} /\ picks \in Nat
           /\ typed \subseteq Passwords
           /\ \A j \in DOMAIN files : RecOK(files[j]) /\ (files[j].preview # None
              => files[j].account \in DOMAIN accounts)
BY DEF VaultFine, BatchOK, PhaseOK, Types, QuestionOK, PickOK, Accounted

(* The common end of a run stopped and a run broken off: the report tells    *)
(* every file as it is.                                                      *)
LEMMA ReportOpens ==
    ASSUME VaultFine, BatchOK, phase = "run", UNCHANGED vault, phase' = "report", typed' = {},
           armed' \in Slots,
           index' \in Nat \ {0}, UNCHANGED <<asking, picking, form, picks>>,
           NEW gs \in Seq(Record), files' = gs, DOMAIN gs = DOMAIN files,
           \A j \in DOMAIN files : /\ RecOK(gs[j]) /\ gs[j].path = files[j].path
                                   /\ gs[j].stmt = files[j].stmt
                                   /\ gs[j].account = files[j].account
                                   /\ gs[j].preview = files[j].preview
                                   /\ files[j].outcome = "ready"
                                      => gs[j].outcome \in {"failed", "not_attempted"}
                                   /\ files[j].outcome # "ready" => gs[j].outcome = files[j].outcome
    PROVE  VaultFine' /\ BatchOK'
<1>1. VaultFine' BY VaultSame
<1>2. /\ RunOK(files, index) /\ files \in Seq(Record) /\ index \in Nat \ {0} /\ VaultOK
      /\ asking = None /\ picking = None /\ form \in {"plain", "reversed"} /\ picks \in Nat
      /\ \A j \in DOMAIN files : RecOK(files[j]) /\ (files[j].preview # None
         => files[j].account \in DOMAIN accounts)
  BY RunIs
<1>3. \A j \in DOMAIN gs : gs[j].outcome \in Terminal \cup {"already_imported"} /\ Reported(gs, j)
  BY <1>2, StoppedOK
<1>4. \A j \in DOMAIN gs : Reported(gs, j) => Reported(gs, j)' BY DEF Reported, Landed, vault
<1>5. PhaseOK' BY <1>3, <1>4 DEF PhaseOK
<1>6. Accounted'
  <2>1. ASSUME NEW j \in DOMAIN gs PROVE RecOK(gs[j])' BY <2>1 DEF RecOK, Whole, Untried,
        Content, Kind, Lck, Layout, Needed
  <2> QED BY <1>2, <2>1 DEF Accounted, vault
<1>7. Types' BY <1>2 DEF Types, Slots
<1>8. PickOK' /\ QuestionOK' BY <1>2 DEF PickOK, QuestionOK
<1> QED BY <1>1, <1>5, <1>6, <1>7, <1>8 DEF BatchOK

(* What a stop makes of the records from a place on.                         *)
LEMMA StopFromIs ==
    ASSUME NEW fs \in Seq(Record), \A j \in DOMAIN fs : RecOK(fs[j]), NEW idx \in Nat,
           NEW from \in Nat, RunOK(fs, idx),
           \A j \in DOMAIN fs : fs[j].outcome = "ready" => j >= from
    PROVE  LET gs == StopFrom(fs, from)
           IN /\ gs \in Seq(Record) /\ DOMAIN gs = DOMAIN fs
              /\ \A j \in DOMAIN fs : /\ RecOK(gs[j]) /\ gs[j].path = fs[j].path
                                      /\ gs[j].stmt = fs[j].stmt
                                      /\ gs[j].account = fs[j].account
                                      /\ gs[j].preview = fs[j].preview
                                      /\ fs[j].outcome = "ready" => gs[j].outcome = "not_attempted"
                                      /\ fs[j].outcome # "ready" => gs[j] = fs[j]
<1>1. PICK gs : gs = StopFrom(fs, from) OBVIOUS
<1>2. PICK o : o = "not_attempted" OBVIOUS
<1>3. ASSUME NEW j \in DOMAIN fs
      PROVE  gs[j] = IF fs[j].outcome = "ready" THEN [fs[j] EXCEPT !.outcome = o] ELSE fs[j]
  <2>1. fs[j].outcome \in Terminal \cup {"ready", "already_imported"} BY DEF RunOK
  <2>2. fs[j].outcome # "waiting" BY <2>1 DEF Terminal
  <2> QED BY <1>1, <1>2, <2>2 DEF StopFrom
<1>4. ASSUME NEW j \in DOMAIN fs
      PROVE  /\ RecOK(gs[j]) /\ gs[j].path = fs[j].path /\ gs[j].stmt = fs[j].stmt
             /\ gs[j].account = fs[j].account /\ gs[j].preview = fs[j].preview
             /\ fs[j].outcome = "ready" => gs[j].outcome = "not_attempted"
             /\ fs[j].outcome # "ready" => gs[j] = fs[j]
  <2>1. CASE fs[j].outcome = "ready"
    <3>1. o \in {"failed", "not_attempted"} BY <1>2
    <3>2. PICK q : q = [fs[j] EXCEPT !.outcome = o] OBVIOUS
    <3>3. /\ RecOK(q) /\ q.path = fs[j].path /\ q.stmt = fs[j].stmt /\ q.outcome = o
          /\ q.preview = fs[j].preview
          /\ q.account = fs[j].account
      BY <2>1, <3>1, <3>2, EndedOK
    <3> QED BY <1>2, <1>3, <2>1, <3>2, <3>3
  <2>2. CASE fs[j].outcome # "ready" BY <1>3, <2>2
  <2> QED BY <2>1, <2>2
<1>5. gs = [j \in DOMAIN fs |-> gs[j]] BY <1>1 DEF StopFrom
<1>6. \A j \in DOMAIN fs : gs[j] \in Record BY <1>4 DEF RecOK, Whole
<1>7. gs \in Seq(Record) /\ DOMAIN gs = DOMAIN fs BY <1>5, <1>6, SameLen
<1> QED BY <1>1, <1>4, <1>7

(* Cancel, in each phase.                                                    *)
LEMMA OnBatchCancelStep ==
    ASSUME VaultFine, BatchOK, OnBatchCancel
    PROVE  VaultFine' /\ BatchOK'
<1>1. CASE phase = "run"
  <2>1. phase' = "report" /\ files' = StopFrom(files, index) /\ typed' = {}
        /\ UNCHANGED <<vault, index, armed, asking, picking, form, picks>>
    BY <1>1 DEF OnBatchCancel
  <2>2. RunOK(files, index) /\ files \in Seq(Record) /\ index \in Nat \ {0}
        /\ \A j \in DOMAIN files : RecOK(files[j])
    BY <1>1, RunIs
  <2>3. \A j \in DOMAIN files : files[j].outcome = "ready" => j >= index BY <2>2 DEF RunOK
  <2>4. PICK gs : gs = StopFrom(files, index) OBVIOUS
  <2>5. /\ gs \in Seq(Record) /\ DOMAIN gs = DOMAIN files
        /\ \A j \in DOMAIN files : /\ RecOK(gs[j]) /\ gs[j].path = files[j].path
                                   /\ gs[j].stmt = files[j].stmt
                                   /\ gs[j].account = files[j].account
                                   /\ gs[j].preview = files[j].preview
                                   /\ files[j].outcome = "ready" => gs[j].outcome = "not_attempted"
                                   /\ files[j].outcome # "ready" => gs[j] = files[j]
    BY <2>2, <2>3, <2>4, StopFromIs
  <2>6. armed' \in Slots BY <2>1 DEF BatchOK, Types, Slots
  <2> QED BY <1>1, <2>1, <2>2, <2>4, <2>5, <2>6, ReportOpens
<1>2. CASE phase # "run"
  <2>1. phase' = "idle" /\ files' = <<>> /\ typed' = {}
                                         /\ UNCHANGED <<vault, index, armed, asking, picking, form, picks>>
        /\ asking = None /\ picking = None
    BY <1>2 DEF OnBatchCancel, TableOnTop
  <2>2. VaultFine' BY <2>1, VaultSame
  <2>3. (/\ files = <<>> /\ phase = "idle" /\ index \in Nat \ {0}
                         /\ armed \in [{"scan", "ask", "run"} -> Nat]
         /\ typed \subseteq Passwords /\ form \in {"plain", "reversed"} /\ picks \in Nat
         /\ asking = None /\ picking = None
         => BatchOK)'
    BY EmptyBatchOK, PTL
  <2>4. BatchOK' BY <2>1, <2>3 DEF BatchOK, Types
  <2> QED BY <2>2, <2>4
<1> QED BY <1>1, <1>2

(* An error no handler expected.                                             *)
LEMMA RunBreaksStep ==
    ASSUME VaultFine, BatchOK, RunBreaks
    PROVE  VaultFine' /\ BatchOK'
<1>1. /\ phase = "run" /\ index <= Len(files) /\ files[index].outcome = "ready"
      /\ files' = StopFrom([files EXCEPT ![index].outcome = "failed"], index + 1)
      /\ index' = Len(files) + 1 /\ phase' = "report" /\ typed' = {} /\ Turn("run", None)
      /\ UNCHANGED <<vault, asking, picking, form, picks>>
  BY DEF RunBreaks, Running
<1>2. RunOK(files, index) /\ files \in Seq(Record) /\ index \in Nat \ {0}
      /\ \A j \in DOMAIN files : RecOK(files[j])
  BY <1>1, RunIs
<1>3. index \in DOMAIN files BY <1>1, <1>2
<1>4. armed' \in Slots BY <1>1, TurnIs DEF BatchOK, Types, Slots
<1>5. PICK o : o = "failed" OBVIOUS
<1>6. PICK q : q = [files[index] EXCEPT !.outcome = o] OBVIOUS
<1>7. /\ RecOK(q) /\ q.path = files[index].path /\ q.stmt = files[index].stmt /\ q.outcome = o
      /\ q.preview = files[index].preview
      /\ q.account = files[index].account
  <2>1. o \in {"failed", "not_attempted"} BY <1>5
  <2> QED BY <1>1, <1>2, <1>3, <1>6, <2>1, EndedOK
<1>8. PICK hs : hs = [files EXCEPT ![index] = q] OBVIOUS
<1>9. hs \in Seq(Record) /\ DOMAIN hs = DOMAIN files /\ hs[index] = q
      /\ (\A j \in DOMAIN files : j # index => hs[j] = files[j])
  BY <1>2, <1>3, <1>7, <1>8, Replace DEF RecOK, Whole
<1>10. PICK gs : gs = StopFrom(hs, index + 1) OBVIOUS
<1>11. files' = gs BY <1>1, <1>5, <1>6, <1>8, <1>10
<1>12. \A j \in DOMAIN files : /\ files[j].outcome = "ready" => j >= index
                               /\ files[j].outcome \in Terminal \cup {"ready", "already_imported"}
  BY <1>2 DEF RunOK
<1>13. PICK n : n = "not_attempted" OBVIOUS
<1>14. ASSUME NEW j \in DOMAIN files
       PROVE  gs[j] = IF hs[j].outcome = "ready" THEN [hs[j] EXCEPT !.outcome = n] ELSE hs[j]
  <2>1. hs[j].outcome # "waiting" BY <1>5, <1>7, <1>9, <1>12 DEF Terminal
  <2>2. hs[j].outcome = "ready" => j >= index + 1 BY <1>2, <1>5, <1>7, <1>9, <1>12
  <2> QED BY <1>9, <1>10, <1>13, <2>1, <2>2 DEF StopFrom
<1>15. ASSUME NEW j \in DOMAIN files
       PROVE  /\ RecOK(gs[j]) /\ gs[j].path = files[j].path /\ gs[j].stmt = files[j].stmt
              /\ gs[j].account = files[j].account /\ gs[j].preview = files[j].preview
              /\ files[j].outcome = "ready" => gs[j].outcome \in {"failed", "not_attempted"}
              /\ files[j].outcome # "ready" => gs[j].outcome = files[j].outcome
  <2>1. CASE j = index BY <1>1, <1>5, <1>7, <1>9, <1>14, <2>1
  <2>2. CASE j # index /\ files[j].outcome = "ready"
    <3>1. n \in {"failed", "not_attempted"} BY <1>13
    <3>2. PICK s : s = [files[j] EXCEPT !.outcome = n] OBVIOUS
    <3>3. /\ RecOK(s) /\ s.path = files[j].path /\ s.stmt = files[j].stmt /\ s.outcome = n
          /\ s.preview = files[j].preview
          /\ s.account = files[j].account
      BY <1>2, <2>2, <3>1, <3>2, EndedOK
    <3> QED BY <1>9, <1>13, <1>14, <2>2, <3>2, <3>3
  <2>3. CASE j # index /\ files[j].outcome # "ready" BY <1>2, <1>9, <1>14, <2>3
  <2> QED BY <2>1, <2>2, <2>3
<1>16. gs = [j \in DOMAIN hs |-> gs[j]] BY <1>10 DEF StopFrom
<1>17. \A j \in DOMAIN hs : gs[j] \in Record BY <1>9, <1>15 DEF RecOK, Whole
<1>18. gs \in Seq(Record) /\ DOMAIN gs = DOMAIN files BY <1>9, <1>16, <1>17, SameLen
<1>19. index' \in Nat \ {0} BY <1>1, <1>2
<1> QED BY <1>1, <1>4, <1>11, <1>15, <1>18, <1>19, ReportOpens

(* An account's rows with a file's: the larger count of each key.            *)
More(rows, held) == [k \in Keys |-> IF rows[k] > held[k] THEN rows[k] ELSE held[k]]

(* One file on, the review's counts of the others still hold.                *)
LEMMA CountsOn ==
    ASSUME VaultOK, files \in Seq(Record), NEW i \in Nat \ {0}, i \in DOMAIN files,
           \A j \in DOMAIN files : RecOK(files[j]),
           CountedFrom(files, i),
           \A j \in DOMAIN files : files[j].outcome = "ready" => files[j].account \in AccountIds,
           NEW gs, DOMAIN gs = DOMAIN files, \A j \in DOMAIN files : j # i => gs[j] = files[j],
           gs[i].account = files[i].account, Stmt(gs[i]) = Stmt(files[i]),
           \/ files[i].outcome # "ready" /\ gs[i] = files[i] /\ books' = books
           \/ files[i].outcome = "ready" /\ gs[i].outcome = "failed" /\ books' = books
           \/ /\ files[i].outcome = "ready" /\ gs[i].outcome = "committed"
              /\ books' = [books EXCEPT ![files[i].account] = More(Stmt(files[i]).rows, @)]
    PROVE  CountedFrom(gs, i + 1)'
<1> SUFFICES ASSUME NEW j \in DOMAIN files, j >= i + 1,
    gs[j].outcome \in {"ready", "already_imported"}
             PROVE  \E base \in [Keys -> Nat] : Counted(gs, i + 1, j, base)'
  BY DEF CountedFrom
<1>0. j \in Nat /\ i < j /\ j # i /\ gs[j] = files[j] OBVIOUS
<1>1. PICK base \in [Keys -> Nat] : Counted(files, i, j, base) BY <1>0 DEF CountedFrom
<1>2. PICK b, a, rows : b = files[j].account /\ a = files[i].account
      /\ rows = Stmt(files[i]).rows OBVIOUS
<1>3. b \in AccountIds /\ books[b] \in [Keys -> Nat]
  <2>1. files[j].preview # None BY <1>0 DEF RecOK, Whole
  <2>2. b \in AccountIds BY <1>2, <2>1 DEF RecOK, Whole, Record, Previews
  <2> QED BY <2>2 DEF VaultOK
<1>4. ReadyIn(gs, i + 1, b, j) = ReadyIn(files, i, b, j) \ {i} BY <1>0 DEF ReadyIn
<1>5. i \in ReadyIn(files, i, b, j) <=> files[i].outcome = "ready" /\ a = b
  BY <1>0, <1>2 DEF ReadyIn
<1>6. Lost(files, b, j) => Lost(gs, b, j)
  <2> SUFFICES ASSUME NEW l \in DOMAIN files, l < j, files[l].account = b,
      files[l].outcome \in {"failed", "not_attempted"}
               PROVE  Lost(gs, b, j)
    BY DEF Lost
  <2>1. gs[l].account = b /\ gs[l].outcome \in {"failed", "not_attempted"} OBVIOUS
  <2> QED BY <2>1 DEF Lost
<1>7. \A l \in ReadyIn(gs, i + 1, b, j) : gs[l] = files[l] BY <1>4 DEF ReadyIn
<1>8. /\ files[j].new = Sum(Left(Stmt(files[j]).rows, base))
      /\ files[j].outcome = "already_imported" => files[j].new = 0
      /\ \A k \in Keys : books[b][k] <= base[k]
      /\ \A l \in ReadyIn(files, i, b, j) : \A k \in Keys : Stmt(files[l]).rows[k] <= base[k]
      /\ \/ Lost(files, b, j)
         \/ \A k \in Keys : base[k] = books[b][k]
            \/ \E l \in ReadyIn(files, i, b, j) : Stmt(files[l]).rows[k] = base[k]
  BY <1>1, <1>2 DEF Counted
<1>9. PICK now : now = books' OBVIOUS
<1>10. /\ \A k \in Keys : now[b][k] <= base[k]
       /\ \/ Lost(gs, b, j)
          \/ \A k \in Keys : base[k] = now[b][k]
             \/ \E l \in ReadyIn(files, i, b, j) \ {i} : Stmt(files[l]).rows[k] = base[k]
  <2>1. CASE books' = books /\ ~(files[i].outcome = "ready" /\ a = b)
    BY <1>5, <1>6, <1>8, <1>9, <2>1
  <2>2. CASE books' = books /\ gs[i].outcome = "failed" /\ a = b
    <3>1. Lost(gs, b, j) BY <1>0, <1>2, <2>2 DEF Lost
    <3> QED BY <1>8, <1>9, <2>2, <3>1
  <2>3. CASE files[i].outcome = "ready" /\ a # b /\ books' = [books EXCEPT ![a] = More(rows, @)]
    <3>1. now[b] = books[b] BY <1>3, <1>9, <2>3 DEF VaultOK
    <3> QED BY <1>5, <1>6, <1>8, <2>3, <3>1
  <2>4. CASE files[i].outcome = "ready" /\ a = b /\ books' = [books EXCEPT ![a] = More(rows, @)]
    <3>1. now[b] = More(rows, books[b]) BY <1>3, <1>9, <2>4 DEF VaultOK
    <3>2. rows \in [Keys -> Nat] BY <1>2, StmtIs DEF RecOK, Whole, Record
    <3>3. \A k \in Keys : rows[k] <= base[k] BY <1>2, <1>5, <1>8, <2>4
    <3>4. ASSUME NEW k \in Keys
          PROVE  /\ now[b][k] = IF rows[k] > books[b][k] THEN rows[k] ELSE books[b][k]
                 /\ now[b][k] <= base[k]
                 /\ rows[k] = base[k] \/ base[k] = books[b][k] => base[k] = now[b][k]
      <4>1. rows[k] \in Nat /\ books[b][k] \in Nat /\ base[k] \in Nat BY <1>3, <3>2
      <4>2. now[b][k] = IF rows[k] > books[b][k] THEN rows[k] ELSE books[b][k] BY <3>1 DEF More
      <4> QED BY <1>8, <3>3, <4>1, <4>2
    <3>5. CASE Lost(files, b, j) BY <1>6, <3>4, <3>5
    <3>6. CASE \A k \in Keys : base[k] = books[b][k]
          \/ \E l \in ReadyIn(files, i, b, j) : Stmt(files[l]).rows[k] = base[k]
      BY <1>2, <3>4, <3>6
    <3> QED BY <1>8, <3>5, <3>6
  <2> QED BY <1>2, <2>1, <2>2, <2>3, <2>4
<1>11. /\ gs[j].new = Sum(Left(Stmt(gs[j]).rows, base))
       /\ gs[j].outcome = "already_imported" => gs[j].new = 0
       /\ \A k \in Keys : now[b][k] <= base[k]
       /\ \A l \in ReadyIn(gs, i + 1, b, j) : \A k \in Keys : Stmt(gs[l]).rows[k] <= base[k]
       /\ \/ Lost(gs, b, j)
          \/ \A k \in Keys : base[k] = now[b][k]
             \/ \E l \in ReadyIn(gs, i + 1, b, j) : Stmt(gs[l]).rows[k] = base[k]
  BY <1>0, <1>4, <1>7, <1>8, <1>10
<1>12. Counted(gs, i + 1, j, base)' BY <1>0, <1>2, <1>9, <1>11 DEF Counted
<1> QED BY <1>12

(* One file on, what was told of the files before still holds.               *)
LEMMA RunOn ==
    ASSUME VaultOK, files \in Seq(Record), NEW i \in Nat \ {0}, i \in DOMAIN files,
           \A j \in DOMAIN files : RecOK(files[j]),
           RunOK(files, i), NEW gs, DOMAIN gs = DOMAIN files,
             \A j \in DOMAIN files : j # i => gs[j] = files[j],
           gs[i].account = files[i].account, gs[i].preview = files[i].preview,
             Stmt(gs[i]) = Stmt(files[i]),
           \/ files[i].outcome # "ready" /\ gs[i] = files[i] /\ books' = books
           \/ files[i].outcome = "ready" /\ gs[i].outcome = "failed" /\ books' = books
           \/ /\ files[i].outcome = "ready" /\ gs[i].outcome = "committed"
              /\ books' = [books EXCEPT ![files[i].account] = More(Stmt(files[i]).rows, @)]
    PROVE  RunOK(gs, i + 1)'
<1>1. \A j \in DOMAIN files : files[j].preview # None => files[j].account \in AccountIds
  BY DEF RecOK, Whole, Record, Previews
<1>2. \A j \in DOMAIN files : files[j].outcome \in {"ready", "already_imported", "committed"}
      => files[j].account \in AccountIds
  BY <1>1 DEF RecOK, Whole
<1>3. \A j \in DOMAIN files : Stmt(files[j]).rows \in [Keys -> Nat] BY StmtIs DEF RecOK, Whole,
      Record
<1>4. CountedFrom(gs, i + 1)' BY <1>2, CountsOn DEF RunOK
<1>5. PICK now : now = books' OBVIOUS
<1>6. ASSUME NEW a \in AccountIds, NEW k \in Keys
  PROVE books[a][k] \in Nat /\ now[a][k] \in Nat /\ books[a][k] <= now[a][k]
  <2>1. books[a][k] \in Nat BY DEF VaultOK
  <2>2. CASE books' = books BY <1>5, <2>1, <2>2
  <2>3. CASE files[i].outcome = "ready"
        /\ books' = [books EXCEPT ![files[i].account] = More(Stmt(files[i]).rows, @)]
    <3>1. CASE a = files[i].account
      <4>1. now[a] = More(Stmt(files[i]).rows, books[a]) BY <1>5, <2>3, <3>1 DEF VaultOK
      <4>2. now[a][k] = IF Stmt(files[i]).rows[k] > books[a][k] THEN Stmt(files[i]).rows[k]
            ELSE books[a][k] BY <4>1 DEF More
      <4>3. Stmt(files[i]).rows[k] \in Nat BY <1>3
      <4> QED BY <2>1, <4>2, <4>3
    <3>2. CASE a # files[i].account
      <4>1. now[a] = books[a] BY <1>5, <2>3, <3>2 DEF VaultOK
      <4> QED BY <2>1, <4>1
    <3> QED BY <3>1, <3>2
  <2> QED BY <2>2, <2>3
<1>7. ASSUME NEW r, r.account \in AccountIds, Stmt(r).rows \in [Keys -> Nat], Landed(r)
  PROVE Landed(r)'
  <2> SUFFICES ASSUME NEW k \in Keys PROVE Stmt(r).rows[k] <= now[r.account][k]
    BY <1>5 DEF Landed
  <2>1. Stmt(r).rows[k] \in Nat /\ Stmt(r).rows[k] <= books[r.account][k] BY <1>7 DEF Landed
  <2> QED BY <1>6, <1>7, <2>1
<1>8. ASSUME NEW j \in DOMAIN files, NEW a, Lost(files, a, j),
      j < i \/ files[i].outcome # "ready" PROVE Lost(gs, a, j)
  BY <1>8 DEF Lost
<1>9. ASSUME NEW j \in DOMAIN files, j < i PROVE gs[j].outcome # "ready" /\ Reported(gs, j)'
  <2>1. gs[j] = files[j] /\ files[j].outcome # "ready" /\ Reported(files, j) BY <1>9 DEF RunOK
  <2>2. gs[j].outcome = "committed" => Landed(gs[j])' BY <1>2, <1>3, <1>7, <2>1 DEF Reported
  <2>3. gs[j].outcome = "already_imported" => Landed(gs[j])' \/ Lost(gs, gs[j].account, j)
    BY <1>2, <1>3, <1>7, <1>8, <1>9, <2>1 DEF Reported
  <2> QED BY <2>1, <2>2, <2>3 DEF Reported
<1>10. gs[i].outcome # "ready" /\ Reported(gs, i)'
  <2>1. CASE files[i].outcome # "ready" /\ gs[i] = files[i] /\ books' = books
    <3>1. files[i].outcome # "committed" BY DEF RunOK
    <3>2. ASSUME files[i].outcome = "already_imported"
      PROVE Landed(gs[i])' \/ Lost(gs, gs[i].account, i)
      <4>1. PICK base \in [Keys -> Nat] : Counted(files, i, i, base) BY <3>2 DEF RunOK, CountedFrom
      <4>2. ReadyIn(files, i, files[i].account, i) = {} BY DEF ReadyIn
      <4>3. Landed(files[i]) \/ Lost(files, files[i].account, i) BY <3>2, <4>1, <4>2, NothingNew
      <4> QED BY <1>2, <1>3, <1>7, <1>8, <2>1, <3>2, <4>3
    <3> QED BY <2>1, <3>1, <3>2 DEF Reported
  <2>2. CASE gs[i].outcome = "failed" BY <2>2 DEF Reported
  <2>3. CASE /\ files[i].outcome = "ready" /\ gs[i].outcome = "committed"
             /\ books' = [books EXCEPT ![files[i].account] = More(Stmt(files[i]).rows, @)]
    <3>1. files[i].account \in AccountIds BY <1>2, <2>3
    <3>2. now[files[i].account] = More(Stmt(files[i]).rows, books[files[i].account])
      BY <1>5, <2>3, <3>1 DEF VaultOK
    <3> SUFFICES ASSUME NEW k \in Keys PROVE Stmt(files[i]).rows[k] <= now[files[i].account][k]
      BY <1>5, <2>3 DEF Reported, Landed
    <3>3. Stmt(files[i]).rows[k] \in Nat /\ books[files[i].account][k] \in Nat
      BY <1>3, <3>1 DEF VaultOK
    <3>4. now[files[i].account][k] = IF Stmt(files[i]).rows[k] > books[files[i].account][k]
          THEN Stmt(files[i]).rows[k]
                                     ELSE books[files[i].account][k]
      BY <3>2 DEF More
    <3> QED BY <3>3, <3>4
  <2> QED BY <2>1, <2>2, <2>3
<1>11. ASSUME NEW j \in DOMAIN files
       PROVE /\ gs[j].outcome \in Terminal \cup {"ready", "already_imported"}
             /\ j < i + 1 => gs[j].outcome # "ready" /\ Reported(gs, j)'
             /\ j >= i + 1 => gs[j].outcome # "committed" /\ (gs[j].outcome = "failed"
                => gs[j].preview = None)
             /\ gs[j].outcome = "not_attempted" => gs[j].preview = None
  <2>1. CASE j < i BY <1>9, <2>1 DEF RunOK
  <2>2. CASE j = i BY <1>10, <2>2 DEF RunOK, Terminal
  <2>3. CASE j > i BY <2>3 DEF RunOK
  <2> QED BY <2>1, <2>2, <2>3
<1> QED BY <1>4, <1>11 DEF RunOK

(* The run's step, of the variables.                                         *)
LEMMA RunGoesOn ==
    ASSUME VaultFine, VaultFine', BatchOK, phase = "run", index \in DOMAIN files,
           index' = index + 1, armed' \in Slots,
           UNCHANGED <<accounts, profiles, phase, asking, picking, typed, form, picks>>,
           NEW q, RecOK(q), q.account = files[index].account, q.preview = files[index].preview,
             Stmt(q) = Stmt(files[index]),
           files' = [files EXCEPT ![index] = q],
           \/ files[index].outcome # "ready" /\ q = files[index] /\ books' = books
           \/ files[index].outcome = "ready" /\ q.outcome = "failed" /\ books' = books
           \/ /\ files[index].outcome = "ready" /\ q.outcome = "committed"
              /\ books' = [books EXCEPT ![files[index].account] = More(Stmt(files[index]).rows, @)]
    PROVE  BatchOK'
<1>1. /\ RunOK(files, index) /\ files \in Seq(Record) /\ index \in Nat \ {0} /\ VaultOK
      /\ asking = None /\ picking = None /\ form \in {"plain", "reversed"} /\ picks \in Nat
      /\ typed \subseteq Passwords
      /\ \A j \in DOMAIN files : RecOK(files[j]) /\ (files[j].preview # None
         => files[j].account \in DOMAIN accounts)
  BY RunIs
<1>2. PICK gs : gs = files' OBVIOUS
<1>3. gs \in Seq(Record) /\ DOMAIN gs = DOMAIN files /\ gs[index] = q
      /\ (\A j \in DOMAIN files : j # index => gs[j] = files[j])
  BY <1>1, <1>2, Replace DEF RecOK, Whole
<1>4. PICK i : i = index OBVIOUS
<1>5. RunOK(gs, i + 1)' BY <1>1, <1>3, <1>4, RunOn
<1>6. RunOK(files, index)' BY <1>2, <1>4, <1>5
<1>7. PhaseOK' BY <1>6 DEF PhaseOK
<1>8. Accounted'
  <2>1. ASSUME NEW j \in DOMAIN gs PROVE RecOK(gs[j]) BY <1>1, <1>3
  <2>2. ASSUME NEW j \in DOMAIN gs PROVE RecOK(gs[j])' BY <2>1 DEF RecOK, Whole, Untried,
        Content, Kind, Lck, Layout, Needed
  <2>3. \A j \in DOMAIN gs : gs[j].preview # None => gs[j].account \in DOMAIN accounts BY <1>1, <1>3
  <2> QED BY <1>2, <2>2, <2>3 DEF Accounted
<1>9. Types' BY <1>1, <1>2, <1>3 DEF BatchOK, Types, Slots
<1>10. PickOK' /\ QuestionOK' BY <1>1 DEF PickOK, QuestionOK
<1> QED BY <1>7, <1>8, <1>9, <1>10 DEF BatchOK

(* One turn of the run: the file lands, is refused, or was not due.          *)
LEMMA RunNextStep ==
    ASSUME VaultFine, BatchOK, RunNext
    PROVE  VaultFine' /\ BatchOK'
<1>1. /\ phase = "run" /\ index <= Len(files) /\ Turn("run", "run") /\ index' = index + 1
      /\ UNCHANGED <<accounts, profiles, phase, asking, picking, typed, form, picks>>
  BY DEF RunNext, Running
<1>2. /\ RunOK(files, index) /\ files \in Seq(Record) /\ index \in Nat \ {0} /\ VaultOK
      /\ \A j \in DOMAIN files : RecOK(files[j]) /\ (files[j].preview # None
         => files[j].account \in DOMAIN accounts)
  BY <1>1, RunIs
<1>3. index \in DOMAIN files BY <1>1, <1>2
<1>4. armed' \in Slots BY <1>1, TurnIs DEF BatchOK, Types, Slots
<1>5. PICK r : r = files[index] OBVIOUS
<1>6. RecOK(r) /\ r \in Record BY <1>2, <1>3, <1>5 DEF RecOK, Whole
<1>7. CASE r.outcome # "ready"
  <2>1. UNCHANGED <<files, books, spans, stored>> BY <1>5, <1>7 DEF RunNext
  <2>2. VaultFine' BY <1>1, <2>1, VaultSame DEF vault
  <2>3. files' = [files EXCEPT ![index] = r] BY <1>2, <1>3, <1>5, <2>1
  <2>4. BatchOK' BY <1>1, <1>3, <1>4, <1>5, <1>6, <1>7, <2>1, <2>2, <2>3, RunGoesOn
  <2> QED BY <2>2, <2>4
<1>8. CASE r.outcome = "ready" /\ ~Stmt(r).sound
  <2>1. files' = [files EXCEPT ![index].outcome = "failed"] /\ UNCHANGED <<books, spans, stored>>
    BY <1>5, <1>8 DEF RunNext
  <2>2. VaultFine' BY <1>1, <2>1, VaultSame DEF vault
  <2>3. PICK o : o = "failed" OBVIOUS
  <2>4. PICK q : q = [r EXCEPT !.outcome = o] OBVIOUS
  <2>5. RecOK(q) /\ q.path = r.path /\ q.stmt = r.stmt /\ q.outcome = o /\ q.preview = r.preview
        /\ q.account = r.account
    <3>1. o \in {"failed", "not_attempted"} BY <2>3
    <3> QED BY <1>6, <1>8, <2>4, <3>1, EndedOK
  <2>6. files' = [files EXCEPT ![index] = q] BY <1>5, <2>1, <2>3, <2>4
  <2>7. Stmt(q) = Stmt(r) BY <2>5 DEF Stmt, Content
  <2>8. BatchOK' BY <1>1, <1>3, <1>4, <1>5, <1>8, <2>1, <2>2, <2>3, <2>5, <2>6, <2>7, RunGoesOn
  <2> QED BY <2>2, <2>8
<1>9. CASE r.outcome = "ready" /\ Stmt(r).sound
  <2>1. Commit(r) BY <1>5, <1>9 DEF RunNext
  <2>2. PICK a, rows : a = r.account /\ rows = Stmt(r).rows OBVIOUS
  <2>3. r.preview # None /\ r.preview.account = a /\ r.parsed BY <1>6, <1>9, <2>2 DEF RecOK, Whole
  <2>4. a \in DOMAIN accounts /\ a \in AccountIds BY <1>2, <1>3, <1>5, <2>2, <2>3 DEF VaultOK
  <2>5. PICK fresh : fresh = Preview(r, a).fresh OBVIOUS
  <2>6. rows \in [Keys -> Nat] /\ books[a] \in [Keys -> Nat] BY <1>2, <1>6, <2>2, <2>4,
        StmtIs DEF RecOK, Whole, Record, VaultOK
  <2>7. fresh = [k \in Keys |-> IF rows[k] > books[a][k] THEN rows[k] - books[a][k] ELSE 0]
    BY <2>2, <2>5 DEF Preview
  <2>8. fresh \in [Keys -> Nat] BY <2>6, <2>7
  <2>9. /\ books' = [books EXCEPT ![a] = [k \in Keys |-> @[k] + fresh[k]]]
        /\ spans' = spans \cup {<<a, Stmt(r).span>>} /\ stored' = Remembering(r)
        /\ files' = [files EXCEPT ![index].outcome = "committed", ![index].added = Sum(fresh)]
    BY <2>1, <2>3, <2>5 DEF Commit
  <2>10. PICK path \in DOMAIN Library : path = r.path BY <1>6 DEF Record
  <2>11. PICK s \in DOMAIN Library[path].stmts : s = r.stmt BY <1>6, <2>10 DEF RecOK, Whole, Content
  <2>12. Stmt(r) = Library[path].stmts[s] BY <2>10, <2>11 DEF Stmt, Content
  <2>13. PICK w : w = IF r.remember /\ r.pending # None THEN r.pending ELSE None OBVIOUS
  <2>14. stored' = (IF w = None THEN stored ELSE [stored EXCEPT ![a] = w])
    BY <2>2, <2>9, <2>13 DEF Remembering
  <2>15. w # None => w \in Passwords /\ w = Library[path].lock
    <3>1. r.pending # None => r.pending = Library[path].lock BY <1>6, <2>3, <2>10 DEF RecOK,
          Whole, Lck, Content
    <3>2. r.pending \in Passwords \cup {None} BY <1>6 DEF Record
    <3> QED BY <2>13, <3>1, <3>2
  <2>16. VaultFine' BY <1>1, <2>4, <2>8, <2>9, <2>12, <2>14, <2>15, Imported
  <2>17. [k \in Keys |-> books[a][k] + fresh[k]] = More(rows, books[a])
    <3>1. ASSUME NEW k \in Keys
      PROVE books[a][k] + fresh[k] = IF rows[k] > books[a][k] THEN rows[k] ELSE books[a][k]
      <4>1. rows[k] \in Nat /\ books[a][k] \in Nat BY <2>6
      <4>2. fresh[k] = IF rows[k] > books[a][k] THEN rows[k] - books[a][k] ELSE 0 BY <2>7
      <4> QED BY <4>1, <4>2
    <3> QED BY <3>1 DEF More
  <2>18. books' = [books EXCEPT ![a] = More(rows, @)] BY <2>9, <2>17
  <2>19. PICK n : n = Sum(fresh) OBVIOUS
  <2>20. n \in Nat BY <2>8, <2>19, SumOfKeys
  <2>21. PICK q : q = [r EXCEPT !.outcome = "committed", !.added = n] OBVIOUS
  <2>22. RecOK(q) /\ q.path = r.path /\ q.stmt = r.stmt /\ q.outcome = "committed"
         /\ q.preview = r.preview /\ q.account = r.account
    BY <1>6, <1>9, <2>20, <2>21, CommittedOK
  <2>23. files' = [files EXCEPT ![index] = q] BY <1>2, <1>3, <1>5, <2>9, <2>19, <2>21
  <2>24. Stmt(q) = Stmt(r) BY <2>22 DEF Stmt, Content
  <2>25. BatchOK' BY <1>1, <1>3, <1>4, <1>5, <1>9, <2>2, <2>16, <2>18, <2>22, <2>23, <2>24,
         RunGoesOn
  <2> QED BY <2>16, <2>25
<1> QED BY <1>7, <1>8, <1>9

-------------------------------------------------------------------------------
(* The theorems of the invariant.                                            *)

(* Every step on a batch keeps the invariant.                                *)
LEMMA BatchNextStep ==
    ASSUME VaultFine, BatchOK, BatchNext
    PROVE  VaultFine' /\ BatchOK'
<1>1. ASSUME NEW paths \in SUBSET DOMAIN Library, SelectFiles(paths) PROVE VaultFine' /\ BatchOK'
  BY <1>1, SelectFilesStep
<1>2. CASE ScanNext BY <1>2, ScanNextStep
<1>3. CASE BeginAsk BY <1>3, BeginAskStep
<1>4. CASE RunNext BY <1>4, RunNextStep
<1>5. CASE RunEnds BY <1>5, RunEndsStep
<1>6. CASE StaleTurn BY <1>6, StaleTurnStep
<1>7. ASSUME NEW p \in Passwords \cup {None}, NEW remember \in BOOLEAN, OnBatchPassword(p, remember)
      PROVE  VaultFine' /\ BatchOK'
  BY <1>7, OnBatchPasswordStep
<1>8. ASSUME NEW fits \in BOOLEAN, NEW named \in BOOLEAN, OnMapNext(fits, named)
  PROVE VaultFine' /\ BatchOK'
  BY <1>8, OnMapNextStep
<1>9. CASE OnMapCancel BY <1>9, OnMapCancelStep
<1>10. CASE RunBreaks BY <1>10, RunBreaksStep
<1>11. ASSUME NEW i \in DOMAIN files, ChooseAccount(i) PROVE VaultFine' /\ BatchOK'
  BY <1>11, ChooseAccountStep
<1>12. ASSUME NEW a \in AccountIds, ApplyAccount(a) PROVE VaultFine' /\ BatchOK'
  BY <1>12, ApplyAccountStep
<1>13. ASSUME NEW a \in AccountIds, NEW n, Created(a, n) PROVE VaultFine' /\ BatchOK'
  BY <1>13, CreatedStep
<1>14. CASE ClosePicker BY <1>14, ClosePickerStep
<1>15. CASE OnBatchImport BY <1>15, OnBatchImportStep
<1>16. CASE OnBatchCancel BY <1>16, OnBatchCancelStep
<1>17. CASE Close \/ Lock BY <1>17, NewWizardStep DEF Close, Lock
<1> QED BY <1>1, <1>2, <1>3, <1>4, <1>5, <1>6, <1>7, <1>8, <1>9, <1>10, <1>11, <1>12, <1>13,
    <1>14, <1>15, <1>16, <1>17
        DEF BatchNext, ChainTurn, OwnerAnswers

(* The vaults the wizard opens on satisfy the invariant.                     *)
LEMMA InitOK == Init => IInv
<1> SUFFICES ASSUME Init PROVE IInv OBVIOUS
<1>1. PICK past \in Past : accounts = past.accounts /\ books = past.books /\ spans = past.spans
      /\ stored = past.stored
  BY DEF Init, BatchInit
<1>2. profiles = <<>> BY DEF Init, BatchInit
<1>3. DOMAIN profiles = {} BY <1>2
<1>4. stored = [a \in AccountIds |-> stored[a]] /\ \A a \in AccountIds : stored[a] \in Words
  <2>1. stored = [a \in AccountIds |-> stored[a]] BY <1>1, VaultsAreWhole
  <2>2. ASSUME NEW a \in AccountIds PROVE stored[a] \in Words BY <1>1 DEF Words
  <2> QED BY <2>1, <2>2
<1>5. VaultOK BY <1>1, <1>3, <1>4, VaultsAreWhole DEF VaultOK
<1>6. RememberedOpens BY <1>1 DEF RememberedOpens
<1>7. BatchOK BY EmptyBatchOK DEF Init, BatchInit, Idle
<1> QED BY <1>5, <1>6, <1>7 DEF Init, IInv, VaultFine, OneOK

(* Every step keeps it.                                                      *)
LEMMA StepOK == IInv /\ [Next]_vars => IInv'
<1> SUFFICES ASSUME IInv, [Next]_vars PROVE IInv' OBVIOUS
<1>1. CASE OneNext BY <1>1, OneNextStep
<1>2. CASE BatchNext /\ one = None /\ UNCHANGED one
  <2>1. VaultFine' /\ BatchOK' BY <1>2, BatchNextStep DEF IInv
  <2> QED BY <1>2, <2>1 DEF IInv, OneOK
<1>3. CASE UNCHANGED vars
  <2>1. VaultFine' BY <1>3, VaultSame DEF IInv, vars
  <2>2. PhaseOK' /\ Accounted' BY <1>3, PhaseSame DEF IInv, BatchOK, vars, batch
  <2>3. Types' /\ PickOK' /\ QuestionOK' BY <1>3 DEF IInv, BatchOK, Types, PickOK, QuestionOK,
        vars, batch, BlockedIn, Queued
  <2>4. OneOK'
    <3>1. PICK q, f : q = one /\ f = form OBVIOUS
    <3>2. OneFine(q, f) => OneFine(q, f)' BY <1>3, FineSame DEF vars, vault
    <3> QED BY <1>3, <3>1, <3>2 DEF IInv, OneOK, vars, batch
  <2> QED BY <2>1, <2>2, <2>3, <2>4 DEF IInv, BatchOK
<1> QED BY <1>1, <1>2, <1>3 DEF Next

(* So it holds in every state.                                               *)
LEMMA Inductive == Spec => []IInv
BY InitOK, StepOK, PTL DEF Spec

(* TypeOK in every state: every table, record, question and counter of the   *)
(* wizard is of its type, and an open picker or question is about a record   *)
(* that is there (ui/import_wizard.py).                                      *)
THEOREM TypeCorrect == Spec => []TypeOK
<1>1. IInv => TypeOK
  <2> SUFFICES ASSUME IInv PROVE TypeOK OBVIOUS
  <2>1. VaultOK /\ Types /\ OneOK BY DEF IInv, VaultFine, BatchOK
  <2>2. one \in Single \cup {None} BY <2>1 DEF OneOK, OneFine, Held
  <2>3. \A l \in DOMAIN profiles : profiles[l] \in {"plain", "reversed"}
    BY <2>1, NeededIs DEF VaultOK
  <2> QED BY <2>1, <2>2, <2>3 DEF TypeOK, Types, VaultOK
<1> QED BY <1>1, Inductive, PTL

(* ReportIsTrue in every state: what the report calls imported, or already   *)
(* imported, is in the account it shows, for any files, answers and          *)
(* interruptions, short of a refused file the review counted on              *)
(* (services/batch_import.py).                                               *)
THEOREM Reports == Spec => []ReportIsTrue
<1>1. IInv => ReportIsTrue
  <2> SUFFICES ASSUME IInv, phase = "report", NEW i \in DOMAIN files
      PROVE  /\ files[i].outcome \in Terminal \cup {"already_imported"}
             /\ files[i].outcome = "committed" => Landed(files[i])
             /\ files[i].outcome = "already_imported" =>
                   \/ Landed(files[i])
                   \/ \E j \in 1..(i - 1) : files[j].account = files[i].account
                                            /\ files[j].outcome \in {"failed", "not_attempted"}
    BY DEF ReportIsTrue
  <2>1. files[i].outcome \in Terminal \cup {"already_imported"} /\ Reported(files, i)
    BY DEF IInv, BatchOK, PhaseOK
  <2>2. files \in Seq(Record) BY DEF IInv, BatchOK, Types
  <2>3. ASSUME Lost(files, files[i].account, i)
        PROVE  \E j \in 1..(i - 1) : files[j].account = files[i].account
               /\ files[j].outcome \in {"failed", "not_attempted"}
    <3>1. PICK j \in DOMAIN files : j < i /\ files[j].account = files[i].account
          /\ files[j].outcome \in {"failed", "not_attempted"}
      BY <2>3 DEF Lost
    <3>2. j \in 1..(i - 1) BY <2>2, <3>1
    <3> QED BY <3>1, <3>2
  <2> QED BY <2>1, <2>3 DEF Reported
<1> QED BY <1>1, Inductive, PTL

(* NeverAsksTwice in every state: no password is asked for that a stored or  *)
(* typed one answers, and no mapping for a layout already saved, short of    *)
(* the draft cap (BatchImportService.scan, answer and the rescans).          *)
THEOREM Asks == Spec => []NeverAsksTwice
<1>1. IInv => NeverAsksTwice
  <2> SUFFICES ASSUME IInv, asking # None
      PROVE /\ files[asking].outcome = "needs_password"
               => Content(files[asking]).lock \notin PasswordLadder(typed)
            /\ files[asking].outcome = "needs_mapping" /\ ~Full(files)
               => Content(files[asking]).layout \notin DOMAIN profiles
    BY DEF NeverAsksTwice
  <2>1. AskOK(files, typed, DOMAIN profiles) /\ asking \in DOMAIN files /\ ~files[asking].rescan
    BY AskedIs DEF IInv
  <2> QED BY <2>1 DEF AskOK, Lck, Layout
<1> QED BY <1>1, Inductive, PTL

(* AnswersStayPut in every state: a remembered password opens a statement of *)
(* its account, a file goes to the account shown, which is the owner's       *)
(* choice, the statement's own or the pick step's, and a saved mapping reads *)
(* its layout as the owner said (ui/import_wizard.py,                        *)
(* services/batch_import.py).                                                *)
THEOREM Stays == Spec => []AnswersStayPut
<1>1. IInv => AnswersStayPut
  <2> SUFFICES ASSUME IInv PROVE AnswersStayPut OBVIOUS
  <2>1. RememberedOpens BY DEF IInv, VaultFine
  <2>2. ASSUME NEW i \in DOMAIN files
        PROVE /\ files[i].preview # None => files[i].preview.account = files[i].account
              /\ files[i].parsed /\ files[i].mapping # None
                 => files[i].mapping = Needed(Content(files[i]).layout)
    BY DEF IInv, BatchOK, Accounted, RecOK, Whole, Layout
  <2>3. one # None => OneFine(one, form) BY DEF IInv, OneOK
  <2>4. FilesItself BY <2>2, <2>3 DEF FilesItself, OneFine, Rule
  <2>5. NoSignFlip BY <2>2, <2>3 DEF NoSignFlip, OneFine, Held, File, IInv, VaultFine, VaultOK
  <2> QED BY <2>1, <2>4, <2>5 DEF AnswersStayPut
<1> QED BY <1>1, Inductive, PTL

-------------------------------------------------------------------------------
(* The refinement of ApprovedImport.                                         *)

(* The run's queue: the ready records from a place on, as the abstract       *)
(* specification sees them.                                                  *)
Due(fs, idx) == {i \in DOMAIN fs : i >= idx /\ fs[i].outcome = "ready"}
Entry(r) == [account |-> r.account, rows |-> Stmt(r).rows, promised |-> r.new]
Queue(fs, idx) == [n \in 1..Cardinality(Due(fs, idx)) |-> Entry(fs[Nth(Due(fs, idx), n)])]

(* No file before idx was refused.                                           *)
Exact(fs, idx) == \A j \in DOMAIN fs : j < idx /\ fs[j].outcome = "failed" => fs[j].preview = None

(* What is approved is the queue of the run, and outside a run nothing.      *)
LEMMA ApprovedIs == Approved = IF phase # "run" THEN <<>> ELSE Queue(files, index)
BY DEF Approved, Queue, Due, Entry, Nth, Below

(* The records due are finitely many.                                        *)
LEMMA DueIs ==
    ASSUME NEW fs \in Seq(Record), NEW idx
    PROVE  IsFiniteSet(Due(fs, idx)) /\ Due(fs, idx) \in SUBSET Nat
<1>1. DOMAIN fs = 1..Len(fs) /\ Len(fs) \in Nat OBVIOUS
<1>2. IsFiniteSet(DOMAIN fs) BY <1>1, FS_Interval
<1> QED BY <1>1, <1>2, FS_Subset DEF Due

(* A turn takes the head of the queue.                                       *)
LEMMA QueueIs ==
    ASSUME NEW fs \in Seq(Record), NEW idx \in DOMAIN fs, fs[idx].outcome = "ready", NEW gs,
           DOMAIN gs = DOMAIN fs,
           \A j \in DOMAIN fs : j # idx => gs[j] = fs[j], gs[idx].outcome # "ready"
    PROVE  Queue(fs, idx) # <<>> /\ Head(Queue(fs, idx)) = Entry(fs[idx])
                                 /\ Tail(Queue(fs, idx)) = Queue(gs, idx + 1)
<1>1. PICK L, M, c : L = Due(fs, idx) /\ M = Due(gs, idx + 1) /\ c = Cardinality(L) OBVIOUS
<1>2. IsFiniteSet(L) /\ L \in SUBSET Nat /\ idx \in L /\ (\A i \in L : idx <= i)
  BY <1>1, DueIs DEF Due
<1>3. M = L \ {idx} BY <1>1 DEF Due
<1>4. /\ c \in Nat \ {0} /\ Cardinality(M) = c - 1 /\ Nth(L, 1) = idx
      /\ \A n \in 1..(c - 1) : Nth(M, n) = Nth(L, n + 1)
  <2>1. /\ Cardinality(L) \in Nat \ {0} /\ Cardinality(L \ {idx}) = Cardinality(L) - 1
        /\ Nth(L, 1) = idx
        /\ \A n \in 1..(Cardinality(L) - 1) : Nth(L \ {idx}, n) = Nth(L, n + 1)
    BY ONLY <1>2, NthWithout
  <2> QED BY <1>1, <1>3, <2>1
<1>5. PICK q, p : q = Queue(fs, idx) /\ p = Queue(gs, idx + 1) OBVIOUS
<1>6. q = [n \in 1..c |-> Entry(fs[Nth(L, n)])] BY <1>1, <1>5 DEF Queue
<1>7. p = [n \in 1..(c - 1) |-> Entry(gs[Nth(M, n)])] BY <1>1, <1>4, <1>5 DEF Queue
<1>8. PICK S : S = {Entry(fs[i]) : i \in L} OBVIOUS
<1>9. \A n \in 1..c : q[n] \in S
  <2> TAKE n \in 1..c
  <2>1. Nth(L, n) \in L BY <1>1, <1>2, NthIs
  <2> QED BY <1>6, <1>8, <2>1
<1>10. q \in Seq(S) /\ Len(q) = c BY <1>4, <1>6, <1>9
<1>11. q # <<>> BY <1>4, <1>10
<1>12. Head(q) = Entry(fs[idx]) BY <1>4, <1>6, <1>10, <1>11
<1>13. \A n \in 1..(c - 1) : p[n] = q[n + 1]
  <2> TAKE n \in 1..(c - 1)
  <2>1. M = Due(gs, idx + 1) /\ n \in 1..Cardinality(M) /\ IsFiniteSet(M) /\ M \in SUBSET Nat
    BY <1>1, <1>2, <1>3, <1>4, FS_Subset
  <2>2. Nth(M, n) \in M BY <2>1, NthIs
  <2>3. gs[Nth(M, n)] = fs[Nth(M, n)] BY <1>1, <1>3, <2>2 DEF Due
  <2>4. n + 1 \in 1..c /\ Nth(M, n) = Nth(L, n + 1) BY <1>4
  <2> QED BY <1>6, <1>7, <2>3, <2>4
<1>14. Tail(q) \in Seq(S) /\ Len(Tail(q)) = c - 1 /\ \A n \in 1..(c - 1) : Tail(q)[n] = q[n + 1]
  BY <1>10, <1>11, HeadTailProperties
<1>15. p \in Seq(S) /\ Len(p) = c - 1
  <2>1. \A n \in 1..(c - 1) : p[n] \in S BY <1>4, <1>9, <1>13
  <2> QED BY <1>4, <1>7, <2>1
<1>16. Tail(q) = p BY <1>13, <1>14, <1>15, SeqEqual
<1> QED BY <1>5, <1>11, <1>12, <1>16

(* What lands is what the review said, unless a file before it was refused.  *)
LEMMA LandsAsSaid ==
    ASSUME VaultOK, NEW fs \in Seq(Record), NEW i \in DOMAIN fs,
           \A j \in DOMAIN fs : RecOK(fs[j]), RunOK(fs, i),
           fs[i].outcome = "ready"
    PROVE  LET adds == Sum(Left(Stmt(fs[i]).rows, books[fs[i].account]))
           IN adds >= fs[i].new /\ (Exact(fs, i) => adds = fs[i].new)
<1>1. PICK a, rows, held : a = fs[i].account /\ rows = Stmt(fs[i]).rows
      /\ held = books[fs[i].account] OBVIOUS
<1>2. fs[i].preview # None /\ a \in AccountIds BY <1>1 DEF RecOK, Whole, Record, Previews
<1>3. rows \in [Keys -> Nat] /\ held \in [Keys -> Nat] BY <1>1, <1>2, StmtIs DEF RecOK, Whole,
      Record, VaultOK
<1>4. PICK base \in [Keys -> Nat] : Counted(fs, i, i, base) BY DEF RunOK, CountedFrom
<1>5. PICK f, g : f = Left(rows, base) /\ g = Left(rows, held) OBVIOUS
<1>6. f \in [Keys -> Nat] /\ g \in [Keys -> Nat] BY <1>3, <1>5 DEF Left
<1>7. fs[i].new = Sum(f) /\ \A k \in Keys : held[k] <= base[k] BY <1>1, <1>4, <1>5 DEF Counted
<1>8. \A k \in Keys : f[k] <= g[k]
  <2> TAKE k \in Keys
  <2>1. rows[k] \in Nat /\ held[k] \in Nat /\ base[k] \in Nat /\ held[k] <= base[k] BY <1>3, <1>7
  <2>2. f[k] = (IF rows[k] > base[k] THEN rows[k] - base[k] ELSE 0)
        /\ g[k] = (IF rows[k] > held[k] THEN rows[k] - held[k] ELSE 0)
    BY <1>5 DEF Left
  <2> QED BY <2>1, <2>2
<1>9. Sum(f) <= Sum(g) /\ Sum(f) \in Nat /\ Sum(g) \in Nat BY <1>6, <1>8, SumOfKeys
<1>10. ASSUME Exact(fs, i) PROVE f = g
  <2>1. ~Lost(fs, a, i)
    <3> SUFFICES ASSUME NEW j \in DOMAIN fs, j < i, fs[j].account = a,
        fs[j].outcome \in {"failed", "not_attempted"}
                 PROVE  FALSE
      BY DEF Lost
    <3>1. fs[j].preview = None BY <1>10 DEF Exact, RunOK
    <3>2. fs[j].account = None BY <3>1 DEF RecOK, Whole
    <3> QED BY <1>2, <3>2, NoneIsNothing
  <2>2. ReadyIn(fs, i, a, i) = {} BY DEF ReadyIn
  <2>3. \A k \in Keys : base[k] = held[k] BY <1>1, <1>4, <2>1, <2>2 DEF Counted
  <2> QED BY <1>5, <2>3 DEF Left
<1> QED BY <1>1, <1>5, <1>7, <1>9, <1>10

(* The two specifications count rows alike.                                  *)
LEMMA SizeIs == ASSUME NEW r PROVE Promise!Size(r) = Sum(r)
BY DEF Promise!Size, Sum, MapThenSumSet, Promise!MapThenSumSet, MapThenFoldSet,
  Promise!MapThenFoldSet

(* Outside a run nothing is approved.                                        *)
LEMMA NoneApproved == phase # "run" => Approved = <<>>
BY ApprovedIs

(* A step outside a run that adds no row is no step of the promise.          *)
LEMMA QuietStep ==
    ASSUME UNCHANGED books, phase # "run", phase' # "run"
    PROVE  [Promise!Next]_<<books, Approved>>
<1>1. (phase # "run" => Approved = <<>>)' BY NoneApproved, PTL
<1> QED BY <1>1, NoneApproved

(* A run that ends drops the rest of its queue.                              *)
LEMMA StopStep ==
    ASSUME UNCHANGED books, phase' # "run"
    PROVE  [Promise!Next]_<<books, Approved>>
<1>1. (phase # "run" => Approved = <<>>)' BY NoneApproved, PTL
<1> QED BY <1>1 DEF Promise!Next, Promise!Stop

(* The rest of the queue, when nothing of it has changed.                    *)
LEMMA SameStep ==
    ASSUME UNCHANGED <<books, files, index, phase>>
    PROVE  [Promise!Next]_<<books, Approved>>
<1>1. (Approved = IF phase # "run" THEN <<>> ELSE Queue(files, index))' BY ApprovedIs, PTL
<1> QED BY <1>1, ApprovedIs

(* Import pressed approves what the review shows.                            *)
LEMMA ApproveStep ==
    ASSUME VaultFine, BatchOK, OnBatchImport
    PROVE  [Promise!Next]_<<books, Approved>>
<1>1. phase = "review" /\ phase' = "run" /\ index' = 1 /\ UNCHANGED <<books, files>>
      /\ CanImport(files)
  BY DEF OnBatchImport, vault
<1>2. Approved = <<>> BY <1>1, NoneApproved
<1>3. (Approved = IF phase # "run" THEN <<>> ELSE Queue(files, index))' BY ApprovedIs, PTL
<1>4. Approved' = Queue(files, 1) BY <1>1, <1>3
<1>5. PICK L, c : L = Due(files, 1) /\ c = Cardinality(L) OBVIOUS
<1>6. files \in Seq(Record) BY DEF BatchOK, Types
<1>7. IsFiniteSet(L) BY <1>5, <1>6, DueIs
<1>8. PICK i \in DOMAIN files : files[i].outcome = "ready" BY <1>1 DEF CanImport
<1>9. i \in L BY <1>5, <1>6, <1>8 DEF Due
<1>10. c \in Nat \ {0} BY <1>5, <1>7, <1>9, FS_CardinalityType, FS_EmptySet
<1>11. DOMAIN Queue(files, 1) = 1..c BY <1>5 DEF Queue
<1>12. Queue(files, 1) # <<>> BY <1>10, <1>11
<1>13. Exact(files', index') BY <1>1, <1>6 DEF Exact
<1>14. Promise!Approve
  <2>1. \A j \in DOMAIN files' : j < index' /\ files'[j].outcome = "failed"
        => files'[j].preview = None BY <1>13 DEF Exact
  <2> QED BY <1>1, <1>2, <1>4, <1>12, <2>1 DEF Promise!Approve
<1> QED BY <1>14 DEF Promise!Next

(* A turn of the run lands the head of the queue as it was promised, drops   *)
(* it, or is no step of the promise.                                         *)
LEMMA LandStep ==
    ASSUME VaultFine, BatchOK, RunNext
    PROVE  [Promise!Next]_<<books, Approved>>
<1>1. phase = "run" /\ phase' = "run" /\ index <= Len(files) /\ index' = index + 1
  BY DEF RunNext, Running
<1>2. /\ RunOK(files, index) /\ files \in Seq(Record) /\ index \in Nat \ {0} /\ VaultOK
      /\ \A j \in DOMAIN files : RecOK(files[j])
  BY <1>1, RunIs
<1>3. PICK i : i = index OBVIOUS
<1>4. i \in DOMAIN files /\ i \in Nat BY <1>1, <1>2, <1>3
<1>5. PICK r : r = files[i] OBVIOUS
<1>6. PICK gs : gs = files' OBVIOUS
<1>7. Approved = Queue(files, i) BY <1>1, <1>3, ApprovedIs
<1>8. (Approved = IF phase # "run" THEN <<>> ELSE Queue(files, index))' BY ApprovedIs, PTL
<1>9. Approved' = Queue(gs, i + 1) BY <1>1, <1>3, <1>6, <1>8
<1>10. CASE r.outcome # "ready"
  <2>1. UNCHANGED <<files, books>> BY <1>3, <1>5, <1>10 DEF RunNext
  <2>2. Due(files, i + 1) = Due(files, i) BY <1>2, <1>4, <1>5, <1>10 DEF Due
  <2>3. Queue(files, i + 1) = Queue(files, i) BY <2>2 DEF Queue
  <2> QED BY <1>6, <1>7, <1>9, <2>1, <2>3
<1>11. CASE r.outcome = "ready" /\ ~Stmt(r).sound
  <2>1. files' = [files EXCEPT ![i].outcome = "failed"] /\ UNCHANGED books
    BY <1>3, <1>5, <1>11 DEF RunNext
  <2>2. r \in Record /\ r.preview # None BY <1>2, <1>4, <1>5, <1>11 DEF RecOK, Whole
  <2>3. PICK q : q = [r EXCEPT !.outcome = "failed"] OBVIOUS
  <2>4. q.outcome = "failed" /\ q.preview # None /\ q \in Record BY <2>2, <2>3 DEF Record, Terminal
  <2>5. gs = [files EXCEPT ![i] = q] BY <1>5, <1>6, <2>1, <2>3
  <2>6. DOMAIN gs = DOMAIN files /\ gs[i] = q /\ \A j \in DOMAIN files : j # i => gs[j] = files[j]
    BY <1>2, <1>4, <2>4, <2>5, Replace
  <2>7. Queue(files, i) # <<>> /\ Tail(Queue(files, i)) = Queue(gs, i + 1) BY <1>2, <1>4, <1>5,
                                  <1>11, <2>4, <2>6, QueueIs
  <2>8. ~\A j \in DOMAIN gs : j < i + 1 /\ gs[j].outcome = "failed" => gs[j].preview = None
    BY <1>4, <2>4, <2>6
  <2>9. Promise!Refuse BY <1>1, <1>3, <1>6, <1>7, <1>9, <2>1, <2>7, <2>8 DEF Promise!Refuse
  <2> QED BY <2>9 DEF Promise!Next
<1>12. CASE r.outcome = "ready" /\ Stmt(r).sound
  <2>1. Commit(r) BY <1>3, <1>5, <1>12 DEF RunNext
  <2>2. PICK a, rows, held : a = r.account /\ rows = Stmt(r).rows /\ held = books[a] OBVIOUS
  <2>3. r \in Record /\ r.preview # None /\ r.preview.account = a /\ a \in AccountIds
    BY <1>2, <1>4, <1>5, <1>12, <2>2 DEF RecOK, Whole, Record, Previews
  <2>4. rows \in [Keys -> Nat] /\ held \in [Keys -> Nat] BY <1>2, <1>4, <1>5, <2>2, <2>3,
        StmtIs DEF RecOK, Whole, Record, VaultOK
  <2>5. PICK now : now = Left(rows, held) OBVIOUS
  <2>6. Preview(r, a).fresh = now BY <2>2, <2>5 DEF Preview, Left
  <2>7. books' = [books EXCEPT ![a] = [k \in Keys |-> @[k] + now[k]]]
        /\ files' = [files EXCEPT ![i].outcome = "committed", ![i].added = Sum(now)]
    BY <1>3, <2>1, <2>3, <2>6 DEF Commit
  <2>8. PICK n : n = Sum(now) OBVIOUS
  <2>9. now \in [Keys -> Nat] BY <2>4, <2>5 DEF Left
  <2>10. n \in Nat BY <2>8, <2>9, SumOfKeys
  <2>11. PICK q : q = [r EXCEPT !.outcome = "committed", !.added = n] OBVIOUS
  <2>12. q.outcome = "committed" /\ q \in Record BY <2>3, <2>10, <2>11 DEF Record, Terminal
  <2>13. gs = [files EXCEPT ![i] = q] BY <1>2, <1>4, <1>5, <1>6, <2>7, <2>8, <2>11
  <2>14. DOMAIN gs = DOMAIN files /\ gs[i] = q /\ \A j \in DOMAIN files : j # i => gs[j] = files[j]
    BY <1>2, <1>4, <2>12, <2>13, Replace
  <2>15. Queue(files, i) # <<>> /\ Head(Queue(files, i)) = Entry(r)
                                /\ Tail(Queue(files, i)) = Queue(gs, i + 1)
    BY <1>2, <1>4, <1>5, <1>12, <2>12, <2>14, QueueIs
  <2>16. PICK next : next = Head(Approved) OBVIOUS
  <2>17. next.account = a /\ next.rows = rows /\ next.promised = r.new BY <1>7, <2>2, <2>15,
         <2>16 DEF Entry
  <2>18. Promise!Adds(held, rows) = now BY <2>4, <2>5 DEF Promise!Adds, Left
  <2>19. Promise!Size(now) = n BY <2>8, SizeIs
  <2>20. n >= r.new /\ (Exact(files, i) => n = r.new) BY <1>2, <1>3, <1>4, <1>5, <1>12, <2>2,
         <2>5, <2>8, LandsAsSaid
  <2>21. Promise!Merge(held, rows) = [k \in Keys |-> held[k] + now[k]]
    <3>1. ASSUME NEW k \in Keys
      PROVE held[k] + now[k] = IF rows[k] > held[k] THEN rows[k] ELSE held[k]
      <4>1. rows[k] \in Nat /\ held[k] \in Nat BY <2>4
      <4>2. now[k] = IF rows[k] > held[k] THEN rows[k] - held[k] ELSE 0 BY <2>5 DEF Left
      <4> QED BY <4>1, <4>2
    <3> QED BY <2>4, <3>1 DEF Promise!Merge
  <2>22. books' = [books EXCEPT ![a] = Promise!Merge(@, rows)] BY <2>2, <2>7, <2>21
  <2>23. Exact(gs, i + 1) <=> Exact(files, i)
    <3>1. \A j \in DOMAIN files : j < i + 1 /\ gs[j].outcome = "failed" <=> j < i
          /\ files[j].outcome = "failed"
      <4> TAKE j \in DOMAIN files
      <4>1. j \in Nat BY <1>2
      <4>2. CASE j = i BY <1>4, <1>5, <1>12, <2>12, <2>14, <4>2
      <4>3. CASE j # i BY <1>4, <2>14, <4>1, <4>3
      <4> QED BY <4>2, <4>3
    <3> QED BY <1>4, <2>14, <3>1 DEF Exact
  <2>24. Promise!Land
    <3>1. Approved # <<>> /\ Approved' = Tail(Approved) BY <1>7, <1>9, <2>15
    <3>2. Promise!Adds(books[next.account], next.rows) = now BY <2>2, <2>17, <2>18
    <3>3. (\A j \in DOMAIN files : j < index /\ files[j].outcome = "failed"
          => files[j].preview = None) <=> Exact(files, i)
      BY <1>3 DEF Exact
    <3>4. (\A j \in DOMAIN files' : j < index' /\ files'[j].outcome = "failed"
          => files'[j].preview = None) <=> Exact(gs, i + 1)
      BY <1>1, <1>3, <1>6 DEF Exact
    <3> HIDE DEF Exact
    <3> QED BY <2>16, <2>17, <2>19, <2>20, <2>22, <2>23, <3>1, <3>2, <3>3, <3>4 DEF Promise!Land
  <2> QED BY <2>24 DEF Promise!Next
<1> QED BY <1>10, <1>11, <1>12

(* The single file is approved and landed at once.                           *)
LEMMA ImportOneStep ==
    ASSUME IInv, OnImport
    PROVE  [Promise!Next]_<<books, Approved>>
<1>0. phase = "idle" /\ phase' = "idle" /\ OneFine(one, form) /\ VaultOK
  BY IdleHeld DEF OnImport, batch
<1>1. Approved = <<>> BY <1>0, NoneApproved
<1>2. (phase # "run" => Approved = <<>>)' BY NoneApproved, PTL
<1>3. Approved' = <<>> BY <1>0, <1>2
<1>4. PICK a, rows, held : a = one.preview.account /\ rows = OneStmt(one).rows
      /\ held = books[a] OBVIOUS
<1>5. one.preview # None /\ a = one.combo /\ a \in AccountIds BY <1>0, <1>4 DEF OnImport,
      OneFine, Held, VaultOK
<1>6. one.path \in DOMAIN Library /\ one.stmt \in DOMAIN Library[one.path].stmts
  BY <1>0 DEF OneFine, Held, Single, File
<1>7. rows \in [Keys -> Nat] /\ held \in [Keys -> Nat] BY <1>0, <1>4, <1>5, <1>6,
      FilesAreRead DEF OneStmt, VaultOK
<1>8. PICK now : now = Left(rows, held) OBVIOUS
<1>9. Preview(one, a).fresh = now BY <1>4, <1>8 DEF Preview, Left, Stmt, Content, OneStmt
<1>10. books' = [books EXCEPT ![a] = [k \in Keys |-> @[k] + now[k]]] BY <1>4, <1>9 DEF OnImport
<1>11. Promise!Merge(held, rows) = [k \in Keys |-> held[k] + now[k]]
  <2>1. ASSUME NEW k \in Keys PROVE held[k] + now[k] = IF rows[k] > held[k] THEN rows[k]
        ELSE held[k]
    <3>1. rows[k] \in Nat /\ held[k] \in Nat BY <1>7
    <3>2. now[k] = IF rows[k] > held[k] THEN rows[k] - held[k] ELSE 0 BY <1>8 DEF Left
    <3> QED BY <3>1, <3>2
  <2> QED BY <1>7, <2>1 DEF Promise!Merge
<1>12. books' = [books EXCEPT ![a] = Promise!Merge(@, rows)] BY <1>4, <1>10, <1>11
<1>13. a \in DOMAIN books BY <1>0, <1>5 DEF VaultOK
<1>14. rows \in UNION {{Library[p].stmts[i].rows : i \in DOMAIN Library[p].stmts} : p \in DOMAIN Library}
  BY <1>4, <1>6 DEF OneStmt
<1>15. Promise!ImportOne BY <1>1, <1>3, <1>12, <1>13, <1>14 DEF Promise!ImportOne
<1> QED BY <1>15 DEF Promise!Next

(* Every step of the wizard is a step of the promise or none.                *)
LEMMA PromiseStep ==
    ASSUME IInv, [Next]_vars
    PROVE  [Promise!Next]_<<books, Approved>>
<1>0. VaultFine /\ BatchOK BY DEF IInv
<1>1. CASE OneNext
  <2>1. CASE OnImport BY <2>1, ImportOneStep
  <2>2. CASE ~OnImport
    <3>1. UNCHANGED books /\ UNCHANGED batch
      BY <1>1, <2>2 DEF OneNext, SelectFile, OnPdfPassword, CancelPrompt, OnPreviewBack,
        LeaveWizard, OnOneMapNext,
                        OnOfxStatementChanged, OnConfirmAccountChanged, CreateAccountFrom, vault
    <3> QED BY <3>1, SameStep DEF batch
  <2> QED BY <2>1, <2>2
<1>2. CASE BatchNext
  <2>1. CASE OnBatchImport BY <1>0, <2>1, ApproveStep
  <2>2. CASE RunNext BY <1>0, <2>2, LandStep
  <2>3. CASE RunBreaks \/ RunEnds \/ OnBatchCancel \/ Close \/ Lock
    BY <2>3, StopStep DEF RunBreaks, RunEnds, OnBatchCancel, Close, Lock, NewWizard, vault
  <2>4. CASE StaleTurn BY <2>4, SameStep DEF StaleTurn, vault
  <2>5. CASE \/ \E paths \in SUBSET DOMAIN Library : SelectFiles(paths)
             \/ ScanNext \/ BeginAsk
    <3>1. UNCHANGED books /\ phase # "run" /\ phase' # "run" BY <2>5 DEF SelectFiles, ScanNext,
          BeginAsk, AskNext, vault
    <3> QED BY <3>1, QuietStep
  <2>6. CASE OwnerAnswers
    <3>1. asking # None /\ UNCHANGED books /\ UNCHANGED phase BY <2>6 DEF OwnerAnswers,
          OnBatchPassword, OnMapNext, OnMapCancel, vault
    <3>2. phase = "ask" BY <1>0, <3>1, AskedIs
    <3> QED BY <3>1, <3>2, QuietStep
  <2>7. CASE \/ \E i \in DOMAIN files : ChooseAccount(i)
             \/ ClosePicker
    BY <2>7, SameStep DEF ChooseAccount, ClosePicker, vault
  <2>8. CASE \/ \E a \in AccountIds : ApplyAccount(a)
             \/ \E a \in AccountIds, n \in Numbers \cup {None} : Created(a, n)
    <3>1. picking # None /\ UNCHANGED books /\ UNCHANGED phase BY <2>8 DEF ApplyAccount, Created,
          vault
    <3>2. phase # "run" BY <1>0, <3>1 DEF BatchOK, PickOK
    <3> QED BY <3>1, <3>2, QuietStep
  <2> QED BY <1>2, <2>1, <2>2, <2>3, <2>4, <2>5, <2>6, <2>7, <2>8 DEF BatchNext, ChainTurn
<1>3. CASE UNCHANGED vars BY <1>3, SameStep DEF vars, vault, batch
<1> QED BY <1>1, <1>2, <1>3 DEF Next

(* The wizard implements ApprovedImport: rows enter an account only for a    *)
(* file the owner approved, in the order approved, at least as many as the   *)
(* review promised and exactly as many as long as no file before it was      *)
(* refused.                                                                  *)
THEOREM Promises == Spec => KeepsItsPromise
<1>1. Init => Promise!Init BY NoneApproved DEF Init, BatchInit, Promise!Init
<1>2. IInv /\ [Next]_vars => [Promise!Next]_<<books, Approved>> BY PromiseStep
<1> QED BY <1>1, <1>2, Inductive, PTL DEF Spec, KeepsItsPromise, Promise!Spec

===============================================================================
