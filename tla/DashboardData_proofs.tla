------------------------ MODULE DashboardData_proofs ------------------------
(***************************************************************************)
(* Proofs about the frequencies of the keys, the similarity of FIPs,       *)
(* check-declarations and the views, for every set of FIPs, documents and  *)
(* models and every number of events.                                      *)
(***************************************************************************)
EXTENDS DashboardData, FiniteSetTheorems, WellFoundedInduction, TLAPS

-----------------------------------------------------------------------------
(* Induction and folds *)

(* Induction over the naturals, of sets instead of predicates. *)
LEMMA SetInduction ==
    ASSUME NEW T, 0 \in T, \A n \in Nat : n \in T => n + 1 \in T
    PROVE  Nat \subseteq T
<1> DEFINE Less == {p \in Nat \X Nat : p[1] < p[2]}
<1>1. IsWellFoundedOn(Less, Nat)
  BY NatLessThanWellFounded DEF OpToRel
<1>2. SUFFICES ASSUME Nat \ T # {} PROVE FALSE
  OBVIOUS
<1>3. PICK x \in Nat \ T : \A y \in Nat \ T : ~(<<y, x>> \in Less)
  <2> HIDE DEF Less
  <2>1. Nat \ T \subseteq Nat
    OBVIOUS
  <2>2. QED
    BY <1>1, <1>2, <2>1, WFMin
<1>4. x - 1 \in Nat /\ x - 1 < x
  BY <1>3
<1>5. x - 1 \in T
  BY <1>3, <1>4
<1>6. QED
  BY <1>3, <1>4, <1>5

(* Induction over the subsets of a finite set, one element at a time: G is *)
(* the set of the good ones.                                               *)
LEMMA SubsetInduction ==
    ASSUME NEW S, IsFiniteSet(S), NEW G, {} \in G,
           \A s \in SUBSET S : s # {} /\ (\A x \in s : s \ {x} \in G) => s \in G
    PROVE  SUBSET S \subseteq G
<1> DEFINE T == {n \in Nat : \A s \in SUBSET S : Cardinality(s) = n => s \in G}
<1>1. 0 \in T
  BY FS_Subset, FS_EmptySet
<1>2. ASSUME NEW n \in Nat, n \in T PROVE n + 1 \in T
  <2> SUFFICES ASSUME NEW s \in SUBSET S, Cardinality(s) = n + 1 PROVE s \in G
    OBVIOUS
  <2>1. IsFiniteSet(s)
    BY FS_Subset
  <2> HIDE DEF T
  <2>2. s # {}
    <3>1. Cardinality({}) = 0
      BY FS_EmptySet
    <3>2. QED
      BY <3>1
  <2>3. SUFFICES ASSUME NEW x \in s PROVE s \ {x} \in G
    BY <2>2
  <2>4. Cardinality(s \ {x}) = n
    <3>1. Cardinality(s \ {x}) = Cardinality(s) - 1
      BY <2>1, FS_RemoveElement
    <3>2. QED
      BY <3>1
  <2>5. QED
    BY <1>2, <2>4 DEF T
<1> HIDE DEF T
<1>3. Nat \subseteq T
  BY <1>1, <1>2, SetInduction
<1>4. ASSUME NEW s \in SUBSET S PROVE s \in G
  <2>1. Cardinality(s) \in T
    BY <1>3, FS_Subset, FS_CardinalityType
  <2>2. QED
    BY <2>1 DEF T
<1>5. QED
  BY <1>4

(* A fold over a finite set whose step is a function is well defined. *)
FoldStep(base, step, g, s) ==
    IF s = {} THEN base ELSE LET x == CHOOSE y \in s : TRUE IN step[<<x, g[s \ {x}]>>]

IsFold(S, D, base, step, g) ==
    g \in [SUBSET S -> D] /\ \A s \in SUBSET S : g[s] = FoldStep(base, step, g, s)

LEMMA FoldExists ==
    ASSUME NEW S, IsFiniteSet(S), NEW D, NEW base \in D, NEW step \in [S \X D -> D]
    PROVE  \E g : IsFold(S, D, base, step, g)
<1> DEFINE Small(n) == {s \in SUBSET S : Cardinality(s) <= n}
           T == {n \in Nat : \E g \in [Small(n) -> D] :
                                \A s \in Small(n) : g[s] = FoldStep(base, step, g, s)}
<1>1. 0 \in T
  <2> DEFINE g == [s \in Small(0) |-> base]
  <2>1. ASSUME NEW s \in Small(0) PROVE g[s] = FoldStep(base, step, g, s)
    <3>1. IsFiniteSet(s) /\ Cardinality(s) \in Nat
      BY FS_Subset, FS_CardinalityType
    <3>2. s = {}
      BY <3>1, FS_EmptySet
    <3>3. QED
      BY <3>2 DEF FoldStep
  <2>2. g \in [Small(0) -> D]
    OBVIOUS
  <2>3. QED
    BY <2>1, <2>2
<1>2. ASSUME NEW n \in Nat, n \in T PROVE n + 1 \in T
  <2>1. PICK g \in [Small(n) -> D] : \A s \in Small(n) : g[s] = FoldStep(base, step, g, s)
    BY <1>2
  <2> DEFINE h == [s \in Small(n + 1) |-> FoldStep(base, step, g, s)]
  <2>2. ASSUME NEW s \in Small(n + 1), s # {}, NEW x \in s
        PROVE  s \ {x} \in Small(n) /\ s \ {x} \in Small(n + 1) /\ x \in S
    <3>1. IsFiniteSet(s) /\ Cardinality(s) \in Nat
      BY FS_Subset, FS_CardinalityType
    <3>2. Cardinality(s \ {x}) = Cardinality(s) - 1
      BY <3>1, FS_RemoveElement
    <3>3. QED
      BY <3>1, <3>2
  <2>3. ASSUME NEW s \in Small(n) PROVE h[s] = g[s]
    <3>1. s \in Small(n + 1)
      <4>1. Cardinality(s) \in Nat
        BY FS_Subset, FS_CardinalityType
      <4>2. QED
        BY <4>1
    <3>2. QED
      BY <2>1, <3>1
  <2>4. ASSUME NEW s \in Small(n + 1) PROVE h[s] \in D /\ h[s] = FoldStep(base, step, h, s)
    <3>1. CASE s = {}
      BY <3>1 DEF FoldStep
    <3>2. CASE s # {}
      <4> DEFINE x == CHOOSE y \in s : TRUE
      <4>1. x \in s
        BY <3>2
      <4> HIDE DEF x
      <4>2. s \ {x} \in Small(n) /\ s \ {x} \in Small(n + 1) /\ x \in S
        BY <2>2, <3>2, <4>1
      <4>3. h[s \ {x}] = g[s \ {x}] /\ g[s \ {x}] \in D
        BY <2>1, <2>3, <4>2
      <4>4. FoldStep(base, step, g, s) = step[<<x, g[s \ {x}]>>]
        BY <3>2 DEF FoldStep, x
      <4>5. FoldStep(base, step, h, s) = step[<<x, h[s \ {x}]>>]
        <5> HIDE DEF h
        <5>1. QED
          BY <3>2 DEF FoldStep, x
      <4>6. QED
        BY <4>2, <4>3, <4>4, <4>5
    <3>3. QED
      BY <3>1, <3>2
  <2>5. h \in [Small(n + 1) -> D]
    BY <2>4
  <2> HIDE DEF h, Small
  <2>6. QED
    BY <2>4, <2>5
<1>3. Cardinality(S) \in T
  <2> HIDE DEF T
  <2>1. QED
    BY <1>1, <1>2, SetInduction, FS_CardinalityType
<1>4. Small(Cardinality(S)) = SUBSET S
  BY FS_Subset
<1>5. QED
  BY <1>3, <1>4 DEF IsFold

-----------------------------------------------------------------------------
(* The frequencies of the keys *)

Counted(R, p) == {f \in DOMAIN R : p \in CurrentPairs(R[f].declarations)}

(* d counts the rows of R, and holds every key that one of them declares *)
DfRight(d, R) ==
    \A p : IF p \in DOMAIN d THEN d[p] = Cardinality(Counted(R, p)) ELSE Counted(R, p) = {}

LEMMA MaxZero ==
    ASSUME NEW n \in Int
    PROVE  Max({0, n}) = IF n > 0 THEN n ELSE 0
<1> DEFINE m == IF n > 0 THEN n ELSE 0
<1>1. m \in {0, n} /\ \A y \in {0, n} : m >= y
  OBVIOUS
<1>2. \A x \in {0, n} : (\A y \in {0, n} : x >= y) => x = m
  OBVIOUS
<1>3. PICK x : x = Max({0, n})
  OBVIOUS
<1>4. x \in {0, n} /\ \A y \in {0, n} : x >= y
  <2> HIDE DEF m
  <2>1. QED
    BY <1>1, <1>3 DEF Max
<1>5. QED
  BY <1>2, <1>3, <1>4

(* unproject_fip takes the FIP out of what is counted. *)
LEMMA BumpDown ==
    ASSUME NEW d, NEW R, NEW f \in DOMAIN R, NEW R2,
           IsFiniteSet(DOMAIN R), DfRight(d, R),
           DOMAIN R2 = DOMAIN R \ {f}, \A x \in DOMAIN R2 : R2[x] = R[x]
    PROVE  DfRight(BumpFerKeyDf(d, R[f].declarations, -1), R2)
<1> DEFINE e == BumpFerKeyDf(d, R[f].declarations, -1)
           pairs == CurrentPairs(R[f].declarations)
<1>1. DOMAIN e = DOMAIN d
  BY DEF BumpFerKeyDf
<1>2. ASSUME NEW p \in DOMAIN d
      PROVE  e[p] = IF p \in pairs THEN Max({0, d[p] - 1}) ELSE d[p]
  BY DEF BumpFerKeyDf
<1> SUFFICES ASSUME NEW p
             PROVE  IF p \in DOMAIN e THEN e[p] = Cardinality(Counted(R2, p)) ELSE Counted(R2, p) = {}
  BY DEF DfRight
<1> HIDE DEF e
<1>3. Counted(R2, p) = Counted(R, p) \ {f} /\ Counted(R, p) \subseteq DOMAIN R
  BY DEF Counted
<1>4. f \in Counted(R, p) <=> p \in pairs
  BY DEF Counted
<1>5. IsFiniteSet(Counted(R, p)) /\ Cardinality(Counted(R, p)) \in Nat
  BY <1>3, FS_Subset, FS_CardinalityType
<1>6. Cardinality(Counted(R2, p)) = IF p \in pairs THEN Cardinality(Counted(R, p)) - 1 ELSE Cardinality(Counted(R, p))
  BY <1>3, <1>4, <1>5, FS_RemoveElement
<1>7. Cardinality(Counted(R2, p)) \in Nat
  <2>1. IsFiniteSet(Counted(R2, p))
    BY <1>3, <1>5, FS_RemoveElement
  <2>2. QED
    BY <2>1, FS_CardinalityType
<1>8. CASE p \in DOMAIN d
  <2>1. d[p] = Cardinality(Counted(R, p))
    BY <1>8 DEF DfRight
  <2>2. p \in pairs => Max({0, d[p] - 1}) = d[p] - 1
    BY <1>5, <1>6, <1>7, <2>1, MaxZero
  <2> HIDE DEF pairs
  <2>3. QED
    BY <1>1, <1>2, <1>6, <1>8, <2>1, <2>2
<1>9. CASE p \notin DOMAIN d
  <2>1. Counted(R, p) = {}
    BY <1>9 DEF DfRight
  <2>2. QED
    BY <1>1, <1>3, <1>9, <2>1
<1>10. QED
  BY <1>8, <1>9

(* The insertion of a row counts it, where it was not counted before. *)
LEMMA BumpUp ==
    ASSUME NEW d, NEW R, NEW f, f \notin DOMAIN R, NEW R2,
           IsFiniteSet(DOMAIN R), DfRight(d, R),
           DOMAIN R2 = DOMAIN R \cup {f}, \A x \in DOMAIN R : R2[x] = R[x]
    PROVE  DfRight(BumpFerKeyDf(d, R2[f].declarations, 1), R2)
<1> DEFINE e == BumpFerKeyDf(d, R2[f].declarations, 1)
           pairs == CurrentPairs(R2[f].declarations)
           old(p) == IF p \in DOMAIN d THEN d[p] ELSE 0
<1>1. DOMAIN e = DOMAIN d \cup pairs
  BY DEF BumpFerKeyDf
<1>2. ASSUME NEW p \in DOMAIN d \cup pairs
      PROVE  e[p] = IF p \in pairs THEN Max({0, old(p) + 1}) ELSE old(p)
  BY DEF BumpFerKeyDf
<1> SUFFICES ASSUME NEW p
             PROVE  IF p \in DOMAIN e THEN e[p] = Cardinality(Counted(R2, p)) ELSE Counted(R2, p) = {}
  BY DEF DfRight
<1> HIDE DEF e
<1>3. Counted(R, p) \subseteq DOMAIN R /\ f \notin Counted(R, p)
  BY DEF Counted
<1>4. Counted(R2, p) = IF p \in pairs THEN Counted(R, p) \cup {f} ELSE Counted(R, p)
  BY DEF Counted
<1>5. IsFiniteSet(Counted(R, p)) /\ Cardinality(Counted(R, p)) \in Nat
  BY <1>3, FS_Subset, FS_CardinalityType
<1>6. old(p) = Cardinality(Counted(R, p))
  BY FS_EmptySet DEF DfRight
<1>7. p \in pairs => Cardinality(Counted(R2, p)) = old(p) + 1
  <2>1. Cardinality(Counted(R, p) \cup {f}) = Cardinality(Counted(R, p)) + 1
    BY <1>3, <1>5, FS_AddElement
  <2> HIDE DEF pairs, old
  <2>2. QED
    BY <1>4, <1>6, <2>1
<1>8. p \in pairs => Max({0, old(p) + 1}) = old(p) + 1
  BY <1>5, <1>6, MaxZero
<1>9. p \notin DOMAIN e => Counted(R2, p) = {}
  BY <1>1, <1>4 DEF DfRight
<1> HIDE DEF pairs, old
<1>10. p \in DOMAIN e => e[p] = Cardinality(Counted(R2, p))
  BY <1>1, <1>2, <1>4, <1>6, <1>7, <1>8
<1>11. QED
  BY <1>9, <1>10

LEMMA BumpDownTyped ==
    ASSUME NEW P, NEW d \in [P -> Nat], NEW decls
    PROVE  BumpFerKeyDf(d, decls, -1) \in [P -> Nat]
<1> DEFINE e == BumpFerKeyDf(d, decls, -1)
           value(p) == IF p \in CurrentPairs(decls) THEN Max({0, d[p] - 1}) ELSE d[p]
<1>1. e = [p \in P |-> value(p)]
  BY DEF BumpFerKeyDf
<1>2. ASSUME NEW p \in P PROVE value(p) \in Nat
  <2>1. d[p] \in Nat
    OBVIOUS
  <2>2. Max({0, d[p] - 1}) \in Nat
    BY <2>1, MaxZero
  <2>3. QED
    BY <2>1, <2>2
<1> HIDE DEF value
<1>3. QED
  BY <1>1, <1>2

LEMMA BumpUpTyped ==
    ASSUME NEW P, NEW Q, NEW d \in [P -> Nat], NEW decls, Q = P \cup CurrentPairs(decls)
    PROVE  BumpFerKeyDf(d, decls, 1) \in [Q -> Nat]
<1> DEFINE e == BumpFerKeyDf(d, decls, 1)
           old(p) == IF p \in P THEN d[p] ELSE 0
           value(p) == IF p \in CurrentPairs(decls) THEN Max({0, old(p) + 1}) ELSE old(p)
<1>1. e = [p \in Q |-> value(p)]
  BY DEF BumpFerKeyDf
<1>2. ASSUME NEW p \in Q PROVE value(p) \in Nat
  <2>1. old(p) \in Nat
    OBVIOUS
  <2> HIDE DEF old
  <2>2. Max({0, old(p) + 1}) \in Nat
    BY <2>1, MaxZero
  <2>3. QED
    BY <2>1, <2>2
<1> HIDE DEF value
<1>3. QED
  BY <1>1, <1>2

(* The part of ReprojectAll that takes the rows of F out *)
DownStep(R, d0, g, s) ==
    IF s = {} THEN d0
    ELSE LET x == CHOOSE y \in s : TRUE IN
         IF x \in DOMAIN R THEN BumpFerKeyDf(g[s \ {x}], R[x].declarations, -1) ELSE g[s \ {x}]

Down(R, d0, F) == CHOOSE g : g = [s \in SUBSET F |-> DownStep(R, d0, g, s)]

IsDown(R, d0, F, g) ==
    /\ g \in [SUBSET F -> [DOMAIN d0 -> Nat]]
    /\ \A s \in SUBSET F : g[s] = DownStep(R, d0, g, s)

LEMMA DownDefined ==
    ASSUME NEW R, NEW d0, d0 \in [DOMAIN d0 -> Nat], NEW F, IsFiniteSet(F)
    PROVE  IsDown(R, d0, F, Down(R, d0, F))
<1> DEFINE g == Down(R, d0, F)
           D == [DOMAIN d0 -> Nat]
           step == [p \in F \X D |-> IF p[1] \in DOMAIN R
                                     THEN BumpFerKeyDf(p[2], R[p[1]].declarations, -1) ELSE p[2]]
<1>1. step \in [F \X D -> D]
  <2>1. ASSUME NEW f \in F, NEW d \in D PROVE BumpFerKeyDf(d, R[f].declarations, -1) \in D
    BY BumpDownTyped
  <2> HIDE DEF D
  <2>2. QED
    BY <2>1
<1>2. d0 \in D
  OBVIOUS
<1>3. PICK h : IsFold(F, D, d0, step, h)
  <2> HIDE DEF step, D
  <2>1. QED
    BY <1>1, <1>2, FoldExists
<1>4. ASSUME NEW k \in [SUBSET F -> D], NEW s \in SUBSET F
      PROVE  FoldStep(d0, step, k, s) = DownStep(R, d0, k, s)
  <2>1. CASE s = {}
    BY <2>1 DEF FoldStep, DownStep
  <2>2. CASE s # {}
    <3> DEFINE x == CHOOSE y \in s : TRUE
    <3>1. x \in s
      BY <2>2
    <3>2. FoldStep(d0, step, k, s) = step[<<x, k[s \ {x}]>>]
      BY <2>2 DEF FoldStep
    <3>3. DownStep(R, d0, k, s) = IF x \in DOMAIN R
              THEN BumpFerKeyDf(k[s \ {x}], R[x].declarations, -1) ELSE k[s \ {x}]
      BY <2>2 DEF DownStep
    <3> HIDE DEF x
    <3>4. s \ {x} \in SUBSET F /\ x \in F
      BY <3>1
    <3> HIDE DEF D
    <3>5. <<x, k[s \ {x}]>> \in F \X D
      BY <3>4
    <3>6. QED
      BY <3>2, <3>3, <3>5
  <2>3. QED
    BY <2>1, <2>2
<1>5. h = [s \in SUBSET F |-> DownStep(R, d0, h, s)]
  <2> HIDE DEF step, D
  <2>1. h \in [SUBSET F -> D] /\ h = [s \in SUBSET F |-> h[s]]
    BY <1>3 DEF IsFold
  <2>2. \A s \in SUBSET F : h[s] = DownStep(R, d0, h, s)
    BY <1>3, <1>4, <2>1 DEF IsFold
  <2>3. QED
    BY <2>1, <2>2
<1>6. g = [s \in SUBSET F |-> DownStep(R, d0, g, s)]
  BY <1>5, Zenon DEF Down
<1> HIDE DEF g
<1>7. ASSUME NEW s \in SUBSET F PROVE g[s] \in D
  <2> DEFINE G == {t \in SUBSET F : g[t] \in D}
  <2> HIDE DEF step, D
  <2>1. {} \in G
    <3>1. g[{}] = d0
      BY <1>6 DEF DownStep
    <3>2. QED
      BY <3>1 DEF D
  <2>2. ASSUME NEW t \in SUBSET F, t # {}, \A x \in t : t \ {x} \in G PROVE t \in G
    <3> DEFINE x == CHOOSE y \in t : TRUE
    <3>1. x \in t
      BY <2>2
    <3>2. g[t] = IF x \in DOMAIN R
              THEN BumpFerKeyDf(g[t \ {x}], R[x].declarations, -1) ELSE g[t \ {x}]
      BY <1>6, <2>2 DEF DownStep
    <3> HIDE DEF x
    <3>3. g[t \ {x}] \in D
      BY <2>2, <3>1
    <3>4. BumpFerKeyDf(g[t \ {x}], R[x].declarations, -1) \in D
      BY <3>3, BumpDownTyped DEF D
    <3>5. QED
      BY <3>2, <3>3, <3>4
  <2> HIDE DEF G
  <2>3. s \in G
    BY <2>1, <2>2, SubsetInduction
  <2>4. QED
    BY <2>3 DEF G
<1>8. g \in [SUBSET F -> D]
  <2> HIDE DEF D
  <2>1. QED
    BY <1>6, <1>7
<1>9. \A s \in SUBSET F : g[s] = DownStep(R, d0, g, s)
  BY <1>6
<1>10. QED
  BY <1>8, <1>9 DEF IsDown, g

(* After it, what is left counts the rows of the others. *)
LEMMA UnprojectedAll ==
    ASSUME NEW R, IsFiniteSet(DOMAIN R), NEW d0, d0 \in [DOMAIN d0 -> Nat], DfRight(d0, R),
           NEW F, IsFiniteSet(F), NEW g, g = Down(R, d0, F)
    PROVE  /\ g[F] \in [DOMAIN d0 -> Nat]
           /\ DfRight(g[F], [x \in DOMAIN R \ F |-> R[x]])
<1> DEFINE Left(s) == [x \in DOMAIN R \ s |-> R[x]]
           G == {s \in SUBSET F : DfRight(g[s], Left(s))}
<1>1. /\ g \in [SUBSET F -> [DOMAIN d0 -> Nat]]
      /\ \A s \in SUBSET F : g[s] = DownStep(R, d0, g, s)
  <2>1. IsDown(R, d0, F, g)
    BY DownDefined
  <2>2. QED
    BY <2>1 DEF IsDown
<1>2. {} \in G
  <2>1. g[{}] = d0
    BY <1>1 DEF DownStep
  <2>2. ASSUME NEW p PROVE Counted(Left({}), p) = Counted(R, p)
    BY DEF Counted
  <2> HIDE DEF Left
  <2>3. QED
    BY <2>1, <2>2 DEF DfRight
<1>3. ASSUME NEW s \in SUBSET F, s # {}, \A x \in s : s \ {x} \in G PROVE s \in G
  <2> DEFINE x == CHOOSE y \in s : TRUE
             t == s \ {x}
  <2>1. x \in s
    BY <1>3
  <2>2. g[s] = IF x \in DOMAIN R THEN BumpFerKeyDf(g[t], R[x].declarations, -1) ELSE g[t]
    BY <1>1, <1>3 DEF DownStep
  <2> HIDE DEF x
  <2>3. DfRight(g[t], Left(t))
    BY <1>3, <2>1
  <2>4. IsFiniteSet(DOMAIN Left(t))
    BY FS_Subset
  <2>5. CASE x \in DOMAIN R
    <3>1. x \in DOMAIN Left(t) /\ Left(t)[x] = R[x] /\ DOMAIN Left(s) = DOMAIN Left(t) \ {x}
      BY <2>1, <2>5
    <3>2. \A y \in DOMAIN Left(s) : Left(s)[y] = Left(t)[y]
      OBVIOUS
    <3> HIDE DEF Left, t
    <3>3. DfRight(BumpFerKeyDf(g[t], R[x].declarations, -1), Left(s))
      BY <2>3, <2>4, <3>1, <3>2, BumpDown
    <3>4. QED
      BY <2>2, <2>5, <3>3
  <2>6. CASE x \notin DOMAIN R
    <3>1. DOMAIN R \ s = DOMAIN R \ t
      BY <2>1, <2>6
    <3>2. Left(s) = Left(t)
      BY <3>1
    <3> HIDE DEF Left, t
    <3>3. QED
      BY <2>2, <2>3, <2>6, <3>2
  <2>7. QED
    BY <2>5, <2>6
<1> HIDE DEF G
<1>4. F \in G
  BY <1>2, <1>3, SubsetInduction
<1>5. QED
  BY <1>1, <1>4 DEF G

(* The part of ReprojectAll that puts the rows of F in *)
UpStep(d0, g, s) ==
    IF s = {} THEN d0
    ELSE LET x == CHOOSE y \in s : TRUE IN BumpFerKeyDf(g[s \ {x}], RowOf(fips[x]).declarations, 1)

Up(d0, F) == CHOOSE g : g = [s \in SUBSET F |-> UpStep(d0, g, s)]

Frequencies(P) == UNION {[Q -> Nat] : Q \in SUBSET P}

IsUp(d0, F, g) ==
    /\ \A s \in SUBSET F : g[s] \in [DOMAIN g[s] -> Nat]
    /\ \A s \in SUBSET F : g[s] = UpStep(d0, g, s)

LEMMA UpDefined ==
    ASSUME NEW d0, d0 \in [DOMAIN d0 -> Nat], NEW F, IsFiniteSet(F)
    PROVE  IsUp(d0, F, Up(d0, F))
<1> DEFINE g == Up(d0, F)
           Pairs(f) == CurrentPairs(RowOf(fips[f]).declarations)
           P == DOMAIN d0 \cup UNION {Pairs(f) : f \in F}
           D == Frequencies(P)
           step == [p \in F \X D |-> BumpFerKeyDf(p[2], RowOf(fips[p[1]]).declarations, 1)]
<1>1. ASSUME NEW f \in F, NEW d \in D PROVE BumpFerKeyDf(d, RowOf(fips[f]).declarations, 1) \in D
  <2>1. PICK Q \in SUBSET P : d \in [Q -> Nat]
    BY DEF Frequencies
  <2> DEFINE Q2 == Q \cup Pairs(f)
  <2>2. Q2 \in SUBSET P
    OBVIOUS
  <2> HIDE DEF P
  <2>3. BumpFerKeyDf(d, RowOf(fips[f]).declarations, 1) \in [Q2 -> Nat]
    BY <2>1, BumpUpTyped
  <2>4. QED
    BY <2>2, <2>3 DEF Frequencies
<1>2. step \in [F \X D -> D]
  <2> HIDE DEF D
  <2>1. QED
    BY <1>1
<1>3. d0 \in D
  <2> HIDE DEF Pairs
  <2>1. DOMAIN d0 \in SUBSET P
    OBVIOUS
  <2> HIDE DEF P
  <2>2. QED
    BY <2>1 DEF Frequencies
<1>4. PICK h : IsFold(F, D, d0, step, h)
  <2> HIDE DEF step, D
  <2>1. QED
    BY <1>2, <1>3, FoldExists
<1> HIDE DEF D
<1>5. ASSUME NEW k \in [SUBSET F -> D], NEW s \in SUBSET F
      PROVE  FoldStep(d0, step, k, s) = UpStep(d0, k, s)
  <2>1. CASE s = {}
    BY <2>1 DEF FoldStep, UpStep
  <2>2. CASE s # {}
    <3> DEFINE x == CHOOSE y \in s : TRUE
    <3>1. x \in s
      BY <2>2
    <3>2. FoldStep(d0, step, k, s) = step[<<x, k[s \ {x}]>>]
      BY <2>2 DEF FoldStep
    <3>3. UpStep(d0, k, s) = BumpFerKeyDf(k[s \ {x}], RowOf(fips[x]).declarations, 1)
      BY <2>2 DEF UpStep
    <3> HIDE DEF x
    <3>4. s \ {x} \in SUBSET F /\ x \in F
      BY <3>1
    <3>5. <<x, k[s \ {x}]>> \in F \X D
      BY <3>4
    <3>6. QED
      BY <3>2, <3>3, <3>5
  <2>3. QED
    BY <2>1, <2>2
<1>6. h = [s \in SUBSET F |-> UpStep(d0, h, s)]
  <2> HIDE DEF step
  <2>1. h \in [SUBSET F -> D] /\ h = [s \in SUBSET F |-> h[s]]
    BY <1>4 DEF IsFold
  <2>2. \A s \in SUBSET F : h[s] = UpStep(d0, h, s)
    BY <1>4, <1>5, <2>1 DEF IsFold
  <2>3. QED
    BY <2>1, <2>2
<1>7. g = [s \in SUBSET F |-> UpStep(d0, g, s)]
  BY <1>6, Zenon DEF Up
<1> HIDE DEF g
<1> DEFINE Typed(d) == d \in [DOMAIN d -> Nat]
           G == {t \in SUBSET F : Typed(g[t])}
<1>8. {} \in G
  <2>1. g[{}] = d0
    BY <1>7 DEF UpStep
  <2>2. QED
    BY <2>1
<1>9. ASSUME NEW t \in SUBSET F, t # {}, \A x \in t : t \ {x} \in G PROVE t \in G
  <2> DEFINE x == CHOOSE y \in t : TRUE
             d == g[t \ {x}]
             pairs == CurrentPairs(RowOf(fips[x]).declarations)
             e == BumpFerKeyDf(d, RowOf(fips[x]).declarations, 1)
  <2>1. x \in t
    BY <1>9
  <2>2. g[t] = e
    BY <1>7, <1>9 DEF UpStep
  <2> HIDE DEF x
  <2>3. Typed(d)
    BY <1>9, <2>1
  <2>4. e \in [DOMAIN d \cup pairs -> Nat]
    <3> HIDE DEF d
    <3>1. QED
      BY <2>3, BumpUpTyped
  <2> HIDE DEF e
  <2>5. Typed(e)
    BY <2>4
  <2>6. QED
    BY <2>2, <2>5
<1>10. \A s \in SUBSET F : Typed(g[s])
  <2> HIDE DEF G
  <2>1. SUBSET F \subseteq G
    BY <1>8, <1>9, SubsetInduction
  <2>2. QED
    BY <2>1 DEF G
<1>11. \A s \in SUBSET F : g[s] = UpStep(d0, g, s)
  BY <1>7
<1>12. QED
  BY <1>10, <1>11 DEF IsUp, g

(* After it, those rows are counted too. *)
LEMMA ProjectedAgain ==
    ASSUME NEW R, IsFiniteSet(DOMAIN R), NEW d0, d0 \in [DOMAIN d0 -> Nat], DfRight(d0, R),
           NEW F, IsFiniteSet(F), DOMAIN R \cap F = {}, NEW g, g = Up(d0, F),
           NEW R2, R2 = [x \in DOMAIN R \cup F |-> IF x \in F THEN RowOf(fips[x]) ELSE R[x]]
    PROVE  g[F] \in [DOMAIN g[F] -> Nat] /\ DfRight(g[F], R2)
<1> DEFINE With(s) == [x \in DOMAIN R \cup s |-> IF x \in F THEN RowOf(fips[x]) ELSE R[x]]
           G == {s \in SUBSET F : DfRight(g[s], With(s))}
<1>1. /\ \A s \in SUBSET F : g[s] \in [DOMAIN g[s] -> Nat]
      /\ \A s \in SUBSET F : g[s] = UpStep(d0, g, s)
  <2>1. IsUp(d0, F, g)
    BY UpDefined
  <2>2. QED
    BY <2>1 DEF IsUp
<1>2. {} \in G
  <2>1. g[{}] = d0
    BY <1>1 DEF UpStep
  <2>2. ASSUME NEW p PROVE Counted(With({}), p) = Counted(R, p)
    BY DEF Counted
  <2> HIDE DEF With
  <2>3. QED
    BY <2>1, <2>2 DEF DfRight
<1>3. ASSUME NEW s \in SUBSET F, s # {}, \A x \in s : s \ {x} \in G PROVE s \in G
  <2> DEFINE x == CHOOSE y \in s : TRUE
             t == s \ {x}
  <2>1. x \in s
    BY <1>3
  <2>2. g[s] = BumpFerKeyDf(g[t], RowOf(fips[x]).declarations, 1)
    BY <1>1, <1>3 DEF UpStep
  <2> HIDE DEF x
  <2>3. DfRight(g[t], With(t))
    BY <1>3, <2>1
  <2>4. IsFiniteSet(DOMAIN With(t))
    <3>1. IsFiniteSet(t)
      BY FS_Subset
    <3> HIDE DEF t
    <3>2. IsFiniteSet(DOMAIN R \cup t)
      BY <3>1, FS_Union
    <3>3. QED
      BY <3>2
  <2>5. x \notin DOMAIN With(t) /\ With(s)[x] = RowOf(fips[x]) /\ DOMAIN With(s) = DOMAIN With(t) \cup {x}
    BY <2>1
  <2>6. \A y \in DOMAIN With(t) : With(s)[y] = With(t)[y]
    OBVIOUS
  <2> HIDE DEF With, t
  <2>7. DfRight(BumpFerKeyDf(g[t], With(s)[x].declarations, 1), With(s))
    BY <2>3, <2>4, <2>5, <2>6, BumpUp
  <2>8. QED
    BY <2>2, <2>5, <2>7
<1> HIDE DEF G
<1>4. F \in G
  BY <1>2, <1>3, SubsetInduction
<1>5. QED
  BY <1>1, <1>4 DEF G

-----------------------------------------------------------------------------
(* The invariant: what is counted is finite, and counted right *)

DfInv ==
    /\ IsFiniteSet(DOMAIN fips) /\ IsFiniteSet(DOMAIN rows)
    /\ df \in [DOMAIN df -> Nat]
    /\ DfCountsRows

LEMMA DfCountsRowsIs == DfCountsRows <=> DfRight(df, rows)
<1>1. ASSUME DfCountsRows, NEW p
      PROVE  IF p \in DOMAIN df THEN df[p] = Cardinality(Counted(rows, p)) ELSE Counted(rows, p) = {}
  BY <1>1 DEF DfCountsRows, Counted
<1>2. ASSUME DfRight(df, rows),
             NEW p \in DOMAIN df \cup UNION {CurrentPairs(rows[f].declarations) : f \in DOMAIN rows}
      PROVE  p \in DOMAIN df /\ df[p] = Cardinality(Counted(rows, p))
  BY <1>2 DEF DfRight, Counted
<1>3. DfCountsRows => DfRight(df, rows)
  BY <1>1 DEF DfRight
<1>4. DfRight(df, rows) => DfCountsRows
  BY <1>2 DEF DfCountsRows, Counted
<1>5. QED
  BY <1>3, <1>4

LEMMA DfInit == DInit => DfInv
<1> SUFFICES ASSUME DInit PROVE DfInv
  OBVIOUS
<1>1. IsFiniteSet(DOMAIN fips) /\ DOMAIN rows = DOMAIN fips
  BY DataAssumption DEF DInit
<1>2. df = [p \in UNION {CurrentPairs(rows[f].declarations) : f \in DOMAIN fips} |->
               Cardinality({f \in DOMAIN fips : p \in CurrentPairs(rows[f].declarations)})]
  BY DEF DInit
<1>3. \A p : Counted(rows, p) = {f \in DOMAIN fips : p \in CurrentPairs(rows[f].declarations)}
  BY <1>1 DEF Counted
<1>4. ASSUME NEW p
      PROVE  /\ p \in DOMAIN df <=> Counted(rows, p) # {}
             /\ p \in DOMAIN df => df[p] = Cardinality(Counted(rows, p))
             /\ Cardinality(Counted(rows, p)) \in Nat
  <2>1. IsFiniteSet(Counted(rows, p))
    BY <1>1, <1>3, FS_Subset
  <2>2. Cardinality(Counted(rows, p)) \in Nat
    BY <2>1, FS_CardinalityType
  <2>3. p \in DOMAIN df <=> \E f \in DOMAIN fips : p \in CurrentPairs(rows[f].declarations)
    BY <1>2
  <2>4. p \in DOMAIN df <=> Counted(rows, p) # {}
    BY <1>3, <2>3
  <2>5. p \in DOMAIN df => df[p] = Cardinality(Counted(rows, p))
    BY <1>2, <1>3
  <2>6. QED
    BY <2>2, <2>4, <2>5
<1>5. df = [p \in DOMAIN df |-> df[p]]
  BY <1>2
<1>6. DfRight(df, rows)
  BY <1>4 DEF DfRight
<1>7. df \in [DOMAIN df -> Nat]
  BY <1>4, <1>5
<1>8. QED
  BY <1>1, <1>6, <1>7, DfCountsRowsIs DEF DfInv

(* unproject_fip *)
LEMMA UnprojectRight ==
    ASSUME DfInv, NEW f
    PROVE  /\ UnprojectedDf(f) \in [DOMAIN df -> Nat]
           /\ DfRight(UnprojectedDf(f), [x \in DOMAIN rows \ {f} |-> rows[x]])
<1> DEFINE R2 == [x \in DOMAIN rows \ {f} |-> rows[x]]
<1>1. DfRight(df, rows) /\ df \in [DOMAIN df -> Nat] /\ IsFiniteSet(DOMAIN rows)
  BY DfCountsRowsIs DEF DfInv
<1>2. CASE f \in DOMAIN rows
  <2>1. UnprojectedDf(f) = BumpFerKeyDf(df, rows[f].declarations, -1)
    BY <1>2 DEF UnprojectedDf
  <2>2. DOMAIN R2 = DOMAIN rows \ {f} /\ \A x \in DOMAIN R2 : R2[x] = rows[x]
    OBVIOUS
  <2> HIDE DEF R2
  <2>3. DfRight(BumpFerKeyDf(df, rows[f].declarations, -1), R2)
    BY <1>1, <1>2, <2>2, BumpDown
  <2>4. BumpFerKeyDf(df, rows[f].declarations, -1) \in [DOMAIN df -> Nat]
    BY <1>1, BumpDownTyped
  <2>5. QED
    BY <2>1, <2>3, <2>4 DEF R2
<1>3. CASE f \notin DOMAIN rows
  <2>1. UnprojectedDf(f) = df
    BY <1>3 DEF UnprojectedDf
  <2>2. ASSUME NEW p PROVE Counted(R2, p) = Counted(rows, p)
    BY <1>3 DEF Counted
  <2> HIDE DEF R2
  <2>3. DfRight(df, R2)
    BY <1>1, <2>2 DEF DfRight
  <2>4. QED
    BY <1>1, <2>1, <2>3 DEF R2
<1>4. QED
  BY <1>2, <1>3

(* What Unproject and Reproject leave *)
LEMMA UnprojectStep ==
    ASSUME DfInv, NEW f, Unproject(f)
    PROVE  DfRight(df', rows') /\ df' \in [DOMAIN df' -> Nat] /\ IsFiniteSet(DOMAIN rows')
<1>1. rows' = [x \in DOMAIN rows \ {f} |-> rows[x]] /\ df' = UnprojectedDf(f)
  BY DEF Unproject
<1>2. DfRight(df', rows')
  BY <1>1, UnprojectRight
<1>3. df' \in [DOMAIN df -> Nat]
  BY <1>1, UnprojectRight
<1>4. IsFiniteSet(DOMAIN rows \ {f})
  BY FS_RemoveElement DEF DfInv
<1>5. QED
  BY <1>1, <1>2, <1>3, <1>4

LEMMA ReprojectStep ==
    ASSUME DfInv, NEW f, NEW row, Reproject(f, row)
    PROVE  DfRight(df', rows') /\ df' \in [DOMAIN df' -> Nat] /\ IsFiniteSet(DOMAIN rows')
<1> DEFINE R1 == [x \in DOMAIN rows \ {f} |-> rows[x]]
           R2 == [x \in DOMAIN rows \cup {f} |-> IF x = f THEN row ELSE rows[x]]
           d1 == UnprojectedDf(f)
<1>1. rows' = R2 /\ df' = BumpFerKeyDf(d1, row.declarations, 1)
  BY DEF Reproject
<1>2. DfRight(d1, R1) /\ d1 \in [DOMAIN df -> Nat]
  BY UnprojectRight
<1>3. IsFiniteSet(DOMAIN R1) /\ IsFiniteSet(DOMAIN R2)
  BY FS_RemoveElement, FS_AddElement DEF DfInv
<1>4. /\ f \notin DOMAIN R1 /\ R2[f] = row /\ DOMAIN R2 = DOMAIN R1 \cup {f}
      /\ \A x \in DOMAIN R1 : R2[x] = R1[x]
  OBVIOUS
<1> HIDE DEF R1, R2, d1
<1>5. DfRight(BumpFerKeyDf(d1, R2[f].declarations, 1), R2)
  BY <1>2, <1>3, <1>4, BumpUp
<1>6. BumpFerKeyDf(d1, row.declarations, 1) \in [DOMAIN df \cup CurrentPairs(row.declarations) -> Nat]
  BY <1>2, BumpUpTyped
<1>7. QED
  BY <1>1, <1>3, <1>4, <1>5, <1>6

LEMMA ReprojectAllStep ==
    ASSUME DfInv, NEW F \in SUBSET DOMAIN fips, ReprojectAll(F)
    PROVE  DfRight(df', rows') /\ df' \in [DOMAIN df' -> Nat] /\ IsFiniteSet(DOMAIN rows')
<1> DEFINE without == FoldSet(LAMBDA f, d : IF f \in DOMAIN rows
                          THEN BumpFerKeyDf(d, rows[f].declarations, -1) ELSE d, df, F)
           R1 == [x \in DOMAIN rows \ F |-> rows[x]]
           R2 == [x \in DOMAIN rows \cup F |-> IF x \in F THEN RowOf(fips[x]) ELSE rows[x]]
<1>1. rows' = R2
  BY DEF ReprojectAll
<1>2. without = Down(rows, df, F)[F]
  BY DEF FoldSet, MapThenFoldSet, Down, DownStep
<1>3. df' = Up(without, F)[F]
  BY DEF ReprojectAll, FoldSet, MapThenFoldSet, Up, UpStep
<1>4. IsFiniteSet(F) /\ IsFiniteSet(DOMAIN rows) /\ df \in [DOMAIN df -> Nat] /\ DfRight(df, rows)
  BY FS_Subset, DfCountsRowsIs DEF DfInv
<1> HIDE DEF without
<1>5. DfRight(without, R1) /\ without \in [DOMAIN without -> Nat]
  <2>1. without \in [DOMAIN df -> Nat] /\ DfRight(without, R1)
    <3> HIDE DEF R1
    <3>1. QED
      BY <1>2, <1>4, UnprojectedAll DEF R1
  <2>2. QED
    BY <2>1
<1>6. IsFiniteSet(DOMAIN R1) /\ DOMAIN R1 \cap F = {}
  BY <1>4, FS_Subset
<1>7. R2 = [x \in DOMAIN R1 \cup F |-> IF x \in F THEN RowOf(fips[x]) ELSE R1[x]]
  OBVIOUS
<1>8. IsFiniteSet(DOMAIN R2)
  BY <1>4, FS_Union
<1> HIDE DEF R1
<1>9. df' \in [DOMAIN df' -> Nat] /\ DfRight(df', R2)
  <2> HIDE DEF R2
  <2>1. PICK g : g = Up(without, F)
    OBVIOUS
  <2>2. g[F] \in [DOMAIN g[F] -> Nat] /\ DfRight(g[F], R2)
    BY <1>4, <1>5, <1>6, <1>7, <2>1, ProjectedAgain
  <2>3. QED
    BY <1>3, <2>1, <2>2
<1> HIDE DEF R2
<1>10. QED
  BY <1>1, <1>8, <1>9

LEMMA DfRightPrimed == (DfCountsRows <=> DfRight(df, rows))'
  BY DfCountsRowsIs, PTL

LEMMA DfNext == DfInv /\ [DNext]_dvars => DfInv'
<1> SUFFICES ASSUME DfInv, [DNext]_dvars PROVE DfInv'
  OBVIOUS
<1> DEFINE Right == DfRight(df', rows') /\ df' \in [DOMAIN df' -> Nat] /\ IsFiniteSet(DOMAIN rows')
           Finite == IsFiniteSet(DOMAIN fips')
<1>1. Right /\ Finite => DfInv'
  BY DfRightPrimed DEF DfInv
<1>2. UNCHANGED <<rows, df>> => Right
  BY DfCountsRowsIs DEF DfInv
<1>3. UNCHANGED fips => Finite
  BY DEF DfInv
<1>4. ASSUME NEW f, NEW doc, Stored(f, doc) PROVE Finite
  <2>1. DOMAIN fips' = DOMAIN fips \cup {f}
    BY <1>4 DEF Stored
  <2>2. QED
    BY <2>1, FS_AddElement DEF DfInv
<1>5. ASSUME NEW f, fips' = [x \in DOMAIN fips \ {f} |-> fips[x]] PROVE Finite
  BY <1>5, FS_RemoveElement DEF DfInv
<1>6. ASSUME NEW f, NEW row, Reproject(f, row) PROVE Right
  BY <1>6, ReprojectStep
<1>7. ASSUME NEW f, Unproject(f) PROVE Right
  BY <1>7, UnprojectStep
<1>8. ASSUME NEW F \in SUBSET DOMAIN fips, ReprojectAll(F) PROVE Right
  BY <1>8, ReprojectAllStep
<1> HIDE DEF Right, Finite
<1>9. ASSUME NEW f, NEW doc, Write(f, doc) PROVE DfInv'
  BY <1>1, <1>4, <1>6, <1>9 DEF Write
<1>10. ASSUME NEW f, NEW doc, WriteUnprojected(f, doc) PROVE DfInv'
  <2>1. rows' = [x \in DOMAIN rows |-> IF x = f THEN [rows[x] EXCEPT !.inTime = FALSE] ELSE rows[x]]
        /\ df' = df
    BY <1>10 DEF WriteUnprojected
  <2>2. \A x \in DOMAIN rows : rows'[x].declarations = rows[x].declarations
    BY <2>1
  <2>3. ASSUME NEW p PROVE Counted(rows', p) = Counted(rows, p)
    BY <2>1, <2>2 DEF Counted
  <2>4. DfRight(df', rows')
    BY <2>1, <2>3, DfCountsRowsIs DEF DfRight, DfInv
  <2>5. Right
    BY <2>1, <2>4 DEF Right, DfInv
  <2>6. QED
    BY <1>1, <1>4, <1>10, <2>5 DEF WriteUnprojected
<1>11. ASSUME NEW f, NEW doc, LateWrite(f, doc) PROVE DfInv'
  <2>1. Finite
    BY <1>11 DEF LateWrite, Finite, DfInv
  <2>2. QED
    BY <1>1, <1>6, <1>11, <2>1 DEF LateWrite
<1>12. ASSUME NEW f, Delete(f) PROVE DfInv'
  BY <1>1, <1>5, <1>7, <1>12 DEF Delete
<1>13. ASSUME NEW f, DeletePastTheHook(f) PROVE DfInv'
  BY <1>1, <1>2, <1>5, <1>13 DEF DeletePastTheHook
<1>14. ASSUME NEW r, NEW c, EditContent(r, c) PROVE DfInv'
  BY <1>1, <1>2, <1>3, <1>14 DEF EditContent
<1>15. ASSUME NEW onlyStale \in BOOLEAN, Backfill(onlyStale) PROVE DfInv'
  <2> DEFINE F == IF onlyStale THEN StaleFips ELSE DOMAIN fips
  <2>1. F \in SUBSET DOMAIN fips
    BY DEF StaleFips
  <2>2. ReprojectAll(F) /\ UNCHANGED fips
    BY <1>15 DEF Backfill
  <2> HIDE DEF F
  <2>3. QED
    BY <1>1, <1>3, <1>8, <2>1, <2>2
<1>16. ASSUME Fix PROVE DfInv'
  <2>1. ReprojectAll(Problems \cap DOMAIN fips) /\ UNCHANGED fips
    BY <1>16 DEF Fix
  <2>2. QED
    BY <1>1, <1>3, <1>8, <2>1
<1>17. ASSUME NEW n, NEW payload, IngestNetwork(n, payload) PROVE DfInv'
  BY <1>1, <1>3, <1>6, <1>17 DEF IngestNetwork
<1>18. ASSUME Refresh PROVE DfInv'
  BY <1>1, <1>2, <1>3, <1>18 DEF Refresh
<1>19. ASSUME UNCHANGED dvars PROVE DfInv'
  BY <1>1, <1>2, <1>3, <1>19 DEF dvars
<1>20. QED
  BY <1>9, <1>10, <1>11, <1>12, <1>13, <1>14, <1>15, <1>16, <1>17, <1>18, <1>19 DEF DNext

(* Nothing the program does to its projections lets fer_key_df drift: not  *)
(* a row that an overlapping request left wrong, not a row of a FIP that   *)
(* was deleted past the hook, and not the backfill that reprojects many    *)
(* FIPs one after the other.                                               *)
THEOREM DSpec_DfCountsRows == DSpec => []DfCountsRows
<1>1. DfInv => DfCountsRows
  BY DEF DfInv
<1>2. QED
  BY <1>1, DfInit, DfNext, PTL DEF DSpec

-----------------------------------------------------------------------------
(* What a row holds is finite *)

LEMMA ImageFinite ==
    ASSUME NEW S, IsFiniteSet(S), NEW f
    PROVE  IsFiniteSet({f[x] : x \in S})
<1> DEFINE Image(s) == {f[x] : x \in s}
           G == {s \in SUBSET S : IsFiniteSet(Image(s))}
<1>1. {} \in G
  BY FS_EmptySet
<1>2. ASSUME NEW s \in SUBSET S, s # {}, \A x \in s : s \ {x} \in G PROVE s \in G
  <2>1. PICK x \in s : TRUE
    BY <1>2
  <2>2. IsFiniteSet(Image(s \ {x}))
    BY <1>2, <2>1
  <2>3. Image(s) = Image(s \ {x}) \cup {f[x]}
    BY <2>1
  <2> HIDE DEF Image
  <2>4. IsFiniteSet(Image(s \ {x}) \cup {f[x]})
    BY <2>2, FS_AddElement
  <2>5. QED
    BY <2>3, <2>4
<1> HIDE DEF G
<1>3. S \in G
  BY <1>1, <1>2, SubsetInduction
<1>4. QED
  BY <1>3 DEF G

(* One step of the loop of Picked *)
PickedStep(list, positions, g, n) ==
    IF n = 0 THEN <<>>
    ELSE IF n \in positions THEN Append(g[n - 1], list[n]) ELSE g[n - 1]

PickedBy(list, positions) ==
    CHOOSE g : g = [n \in 0..Len(list) |-> PickedStep(list, positions, g, n)]

LEMMA PickedDefined ==
    ASSUME NEW list, Len(list) \in Nat, NEW positions
    PROVE  \E g : g = [n \in 0..Len(list) |-> PickedStep(list, positions, g, n)]
<1> DEFINE T == {l \in Nat : \E g : g = [n \in 0..l |-> PickedStep(list, positions, g, n)]}
<1>1. 0 \in T
  <2>1. [n \in 0..0 |-> <<>>] = [n \in 0..0 |-> PickedStep(list, positions, [x \in 0..0 |-> <<>>], n)]
    BY DEF PickedStep
  <2>2. QED
    BY <2>1
<1>2. ASSUME NEW l \in Nat, l \in T PROVE l + 1 \in T
  <2>1. PICK g : g = [n \in 0..l |-> PickedStep(list, positions, g, n)]
    BY <1>2
  <2> DEFINE h == [n \in 0..(l + 1) |-> IF n = l + 1 THEN PickedStep(list, positions, g, n) ELSE g[n]]
  <2>2. ASSUME NEW n \in 0..(l + 1) PROVE h[n] = PickedStep(list, positions, h, n)
    <3>1. CASE n = 0
      <4>1. h[0] = PickedStep(list, positions, g, 0)
        BY <2>1
      <4>2. QED
        BY <3>1, <4>1 DEF PickedStep
    <3>2. CASE n # 0
      <4>1. n - 1 \in 0..(l + 1) /\ n - 1 # l + 1
        BY <3>2
      <4>2. h[n - 1] = g[n - 1]
        BY <4>1
      <4>3. h[n] = PickedStep(list, positions, g, n)
        BY <2>1
      <4> HIDE DEF h
      <4>4. QED
        BY <4>2, <4>3 DEF PickedStep
    <3>3. QED
      BY <3>1, <3>2
  <2>3. h = [n \in 0..(l + 1) |-> h[n]]
    OBVIOUS
  <2> HIDE DEF h
  <2>4. h = [n \in 0..(l + 1) |-> PickedStep(list, positions, h, n)]
    BY <2>2, <2>3
  <2>5. QED
    BY <2>4
<1> HIDE DEF T
<1>3. Len(list) \in T
  BY <1>1, <1>2, SetInduction
<1>4. QED
  BY <1>3 DEF T

LEMMA PickedIsList ==
    ASSUME NEW S, NEW list \in Seq(S), NEW positions
    PROVE  Picked(list, positions) \in Seq(S)
<1> DEFINE g == PickedBy(list, positions)
<1>1. Picked(list, positions) = g[Len(list)]
  BY DEF Picked, PickedBy, PickedStep
<1>2. g = [n \in 0..Len(list) |-> PickedStep(list, positions, g, n)]
  <2>1. \E h : h = [n \in 0..Len(list) |-> PickedStep(list, positions, h, n)]
    BY PickedDefined
  <2>2. QED
    BY <2>1, Zenon DEF PickedBy
<1> HIDE DEF g
<1> DEFINE T == {n \in Nat : n <= Len(list) => g[n] \in Seq(S)}
<1>3. 0 \in T
  BY <1>2 DEF PickedStep
<1>4. ASSUME NEW n \in Nat, n \in T PROVE n + 1 \in T
  <2> SUFFICES ASSUME n + 1 <= Len(list) PROVE g[n + 1] \in Seq(S)
    OBVIOUS
  <2>1. g[n] \in Seq(S)
    BY <1>4
  <2>2. list[n + 1] \in S
    OBVIOUS
  <2>3. g[n + 1] = Append(g[n], list[n + 1]) \/ g[n + 1] = g[n]
    <3>1. n + 1 \in 0..Len(list) /\ n + 1 # 0 /\ (n + 1) - 1 = n
      OBVIOUS
    <3>2. g[n + 1] = PickedStep(list, positions, g, n + 1)
      BY <1>2, <3>1
    <3>3. QED
      BY <3>1, <3>2 DEF PickedStep
  <2> DEFINE x == list[n + 1]
             l == g[n]
  <2>4. Append(l, x) \in Seq(S)
    <3> HIDE DEF x, l
    <3>1. l \in Seq(S) /\ x \in S
      BY <2>1, <2>2 DEF x, l
    <3>2. QED
      BY <3>1
  <2>5. QED
    BY <2>1, <2>3, <2>4
<1> HIDE DEF T
<1>5. Len(list) \in T
  BY <1>3, <1>4, SetInduction
<1>6. QED
  BY <1>1, <1>5 DEF T

(* The list of the declarations that answer a question *)
LEMMA AnswerIsList ==
    ASSUME NEW answers, WellFormed(answers), NEW question
    PROVE  /\ IsList(AnswerTo(answers, question).declarations)
           /\ Len(AnswerTo(answers, question).declarations) \in Nat
<1> DEFINE at == {i \in 1..Len(answers) : answers[i].question = question}
<1>1. answers \in Seq(Range(answers))
  BY DEF WellFormed, IsList
<1>2. CASE at = {}
  <2>1. AnswerTo(answers, question).declarations = <<>>
    BY <1>2 DEF AnswerTo
  <2>2. IsList(<<>>)
    BY DEF IsList, Range
  <2>3. QED
    BY <2>1, <2>2
<1>3. CASE at # {}
  <2>1. Max(at) \in at
    <3>1. at \subseteq Nat /\ \A i \in at : i <= Len(answers)
      BY <1>1
    <3> HIDE DEF at
    <3>2. \E m \in at : \A y \in at : m >= y
      <4> DEFINE T == {n \in Nat : n <= Len(answers) =>
                          ((\E i \in at : i >= Len(answers) - n) =>
                             \E m \in at : \A y \in at : m >= y)}
      <4>1. 0 \in T
        BY <1>1, <3>1
      <4>2. ASSUME NEW n \in Nat, n \in T PROVE n + 1 \in T
        <5> SUFFICES ASSUME n + 1 <= Len(answers), NEW i \in at, i >= Len(answers) - (n + 1)
                     PROVE  \E m \in at : \A y \in at : m >= y
          OBVIOUS
        <5>1. Len(answers) \in Nat
          BY <1>1
        <5>2. CASE \E j \in at : j >= Len(answers) - n
          BY <4>2, <5>1, <5>2
        <5>3. CASE ~\E j \in at : j >= Len(answers) - n
          <6>1. \A y \in at : y < Len(answers) - n
            BY <3>1, <5>1, <5>3
          <6>2. \A y \in at : i >= y
            BY <3>1, <5>1, <6>1
          <6>3. QED
            BY <6>2
        <5>4. QED
          BY <5>2, <5>3
      <4> HIDE DEF T
      <4>3. Len(answers) \in T
        BY <1>1, <4>1, <4>2, SetInduction
      <4>4. \E i \in at : i >= Len(answers) - Len(answers)
        <5>1. Len(answers) \in Nat /\ Len(answers) - Len(answers) = 0
          BY <1>1
        <5>2. PICK i \in at : TRUE
          BY <1>3 DEF at
        <5>3. i >= 0
          BY <3>1
        <5>4. QED
          BY <5>1, <5>3
      <4>5. QED
        BY <1>1, <4>3, <4>4 DEF T
    <3>3. QED
      BY <3>2, Zenon DEF Max
  <2>2. Max(at) \in DOMAIN answers
    BY <1>1, <2>1
  <2>3. AnswerTo(answers, question) = answers[Max(at)]
    BY <1>3, Zenon DEF AnswerTo
  <2>4. IsList(answers[Max(at)].declarations)
    BY <2>2 DEF WellFormed
  <2>5. QED
    BY <2>3, <2>4 DEF IsList
<1>4. QED
  BY <1>2, <1>3

LEMMA VisibleIsFinite ==
    ASSUME NEW c, IsList(c)
    PROVE  IsFiniteSet(Visible(c))
<1>1. c \in Seq(Range(c))
  BY DEF IsList
<1>2. IsFiniteSet(DOMAIN c)
  BY <1>1, FS_Interval
<1>3. QED
  BY <1>2, FS_Subset DEF Visible

LEMMA CellsAreFinite ==
    ASSUME NEW c, IsList(c), NEW answers
    PROVE  IsFiniteSet(CellsOf(c, answers))
<1> DEFINE S == Visible(c)
           f == [i \in S |-> Cell(QuestionColumns(c, i), AnswerTo(answers, c[i].id))]
<1>1. IsFiniteSet(S)
  BY VisibleIsFinite
<1>2. CellsOf(c, answers) = {f[i] : i \in S}
  BY DEF CellsOf
<1> HIDE DEF f, S
<1>3. QED
  BY <1>1, <1>2, ImageFinite

LEMMA DeclarationsAreFinite ==
    ASSUME NEW c, IsList(c), NEW answers, WellFormed(answers)
    PROVE  IsFiniteSet(DeclarationRowsOf(c, answers))
<1> DEFINE S == Visible(c)
           decls(i) == DeclarationsOf(AnswerTo(answers, c[i].id))
           f == [i \in S |->
                    {Declaration(QuestionColumns(c, i), j, decls(i)[j]) : j \in 1..Len(decls(i))}]
<1>1. IsFiniteSet(S)
  BY VisibleIsFinite
<1>2. ASSUME NEW i \in S PROVE IsFiniteSet(f[i])
  <2> DEFINE h == [j \in 1..Len(decls(i)) |-> Declaration(QuestionColumns(c, i), j, decls(i)[j])]
  <2>1. Len(decls(i)) \in Nat
    BY AnswerIsList DEF DeclarationsOf
  <2>2. IsFiniteSet(1..Len(decls(i)))
    BY <2>1, FS_Interval
  <2>3. f[i] = {h[j] : j \in 1..Len(decls(i))}
    OBVIOUS
  <2> HIDE DEF f, h, decls
  <2>4. QED
    BY <2>2, <2>3, ImageFinite
<1>3. DeclarationRowsOf(c, answers) = UNION {f[i] : i \in S}
  BY DEF DeclarationRowsOf
<1> HIDE DEF f, S
<1>4. IsFiniteSet({f[i] : i \in S})
  BY <1>1, ImageFinite
<1>5. QED
  BY <1>2, <1>3, <1>4, FS_UNION

FiniteRow(row) == IsFiniteSet(row.cells) /\ IsFiniteSet(row.declarations)

LEMMA ProjectedIsFinite ==
    ASSUME NEW c, c = None \/ IsList(c), NEW answers, WellFormed(answers)
    PROVE  FiniteRow(ProjectAnswers(c, answers))
<1> DEFINE of == IF c = None THEN <<>> ELSE c
<1>1. IsList(of)
  BY DEF IsList, Range
<1>2. /\ ProjectAnswers(c, answers).cells = CellsOf(of, answers)
      /\ ProjectAnswers(c, answers).declarations = DeclarationRowsOf(of, answers)
  BY DEF ProjectAnswers
<1> HIDE DEF of
<1>3. QED
  BY <1>1, <1>2, CellsAreFinite, DeclarationsAreFinite DEF FiniteRow

LEMMA RowIsFinite ==
    ASSUME NEW c, c = None \/ IsList(c), NEW answers, WellFormed(answers),
           NEW source, NEW ref, NEW from, NEW e
    PROVE  FiniteRow(Row(source, ref, from, ProjectAnswers(c, answers), e))
<1> DEFINE projected == ProjectAnswers(c, answers)
           row == Row(source, ref, from, projected, e)
<1> HIDE DEF projected
<1>1. row.cells = projected.cells /\ row.declarations = projected.declarations
  BY DEF Row
<1>2. FiniteRow(projected)
  BY ProjectedIsFinite DEF projected
<1> HIDE DEF row
<1>3. QED
  BY <1>1, <1>2 DEF FiniteRow, row, projected

(* The key of a declaration says what resource it is of.                   *)
Keyed(d) == \E text : d.key = ConvergenceKey(d.ferId, text, d.status)

KeyedRow(row) == \A d \in row.declarations : Keyed(d)

LEMMA DeclarationsAreKeyed ==
    ASSUME NEW c, NEW answers, NEW d \in DeclarationRowsOf(c, answers)
    PROVE  Keyed(d)
<1>1. PICK i \in Visible(c) :
          d \in {Declaration(QuestionColumns(c, i), j, DeclarationsOf(AnswerTo(answers, c[i].id))[j]) :
                    j \in 1..Len(DeclarationsOf(AnswerTo(answers, c[i].id)))}
  BY Zenon DEF DeclarationRowsOf
<1>2. PICK columns, j, decl : d = Declaration(columns, j, decl)
  BY <1>1
<1>3. d.key = ConvergenceKey(decl.ferId, decl.text, decl.status) /\ d.ferId = decl.ferId
      /\ d.status = decl.status
  BY <1>2 DEF Declaration
<1>4. QED
  BY <1>3 DEF Keyed

LEMMA RowIsKeyed ==
    ASSUME NEW c, NEW answers, NEW source, NEW ref, NEW from, NEW e
    PROVE  KeyedRow(Row(source, ref, from, ProjectAnswers(c, answers), e))
<1>1. PICK of : ProjectAnswers(c, answers).declarations = DeclarationRowsOf(of, answers)
  BY DEF ProjectAnswers
<1>2. PICK projected : projected = ProjectAnswers(c, answers)
  OBVIOUS
<1>3. Row(source, ref, from, projected, e).declarations = projected.declarations
  BY DEF Row
<1>4. QED
  BY <1>1, <1>2, <1>3, DeclarationsAreKeyed DEF KeyedRow

RowsInv ==
    /\ DOMAIN content = Refs /\ \A r \in Refs : content[r] \in Contents[r]
    /\ DOMAIN fips \subseteq FipIds /\ \A f \in DOMAIN fips : fips[f] \in Documents
    /\ IsFiniteSet(DOMAIN network) /\ DOMAIN network \subseteq NetworkIds
    /\ DOMAIN rows \subseteq FipIds \cup NetworkIds
    /\ \A f \in DOMAIN rows : FiniteRow(rows[f]) /\ KeyedRow(rows[f])

LEMMA ContentIsList ==
    ASSUME RowsInv, NEW r \in Refs
    PROVE  content[r] = None \/ IsList(content[r])
  BY DataAssumption DEF RowsInv, IsContent

LEMMA RowOfIsFinite ==
    ASSUME RowsInv, NEW doc \in Documents
    PROVE  FiniteRow(RowOf(doc)) /\ KeyedRow(RowOf(doc))
<1>1. doc.ref \in Refs /\ WellFormed(doc.answers)
  BY DataAssumption
<1>2. content[doc.ref] = None \/ IsList(content[doc.ref])
  BY <1>1, ContentIsList
<1>3. QED
  BY <1>1, <1>2, RowIsFinite, RowIsKeyed DEF RowOf, Projected

LEMMA AnswersFromPayloadWellFormed ==
    ASSUME NEW payload, WellFormed(payload)
    PROVE  WellFormed(AnswersFromPayload(payload))
<1> DEFINE decls(i) == DeclarationsFromPayload(payload[i].declarations)
           answers == [i \in 1..Len(payload) |->
                          [question |-> payload[i].question, notApplicable |-> FALSE,
                           declarations |-> decls(i)]]
           S == {answers[i] : i \in 1..Len(payload)}
           result == AnswersFromPayload(payload)
<1>1. payload \in Seq(Range(payload)) /\ DOMAIN payload = 1..Len(payload)
  BY DEF WellFormed, IsList
<1>2. ASSUME NEW i \in 1..Len(payload) PROVE IsList(decls(i))
  <2> DEFINE list == payload[i].declarations
             from == [j \in 1..Len(list) |-> FromNetwork(list[j])]
             D == {from[j] : j \in 1..Len(list)}
  <2>1. Len(list) \in Nat
    BY <1>1 DEF WellFormed, IsList
  <2>2. from \in Seq(D)
    <3>1. from \in [1..Len(list) -> D]
      OBVIOUS
    <3> HIDE DEF from, D
    <3>2. QED
      BY <2>1, <3>1
  <2>3. decls(i) = Picked(from, {j \in 1..Len(list) : Usable(list[j])})
    BY DEF DeclarationsFromPayload
  <2> HIDE DEF from, D, decls, list
  <2>4. decls(i) \in Seq(D)
    BY <2>2, <2>3, PickedIsList
  <2>5. QED
    BY <2>4 DEF IsList, Range
<1>3. answers \in Seq(S)
  <2>1. answers \in [1..Len(payload) -> S]
    OBVIOUS
  <2> HIDE DEF answers, S
  <2>2. QED
    BY <1>1, <2>1
<1>4. result = Picked(answers, {i \in 1..Len(payload) : answers[i].declarations # <<>>})
  BY DEF AnswersFromPayload
<1>5. \A a \in S : IsList(a.declarations)
  <2> HIDE DEF decls
  <2>1. \A i \in 1..Len(payload) : answers[i].declarations = decls(i)
    OBVIOUS
  <2> HIDE DEF answers
  <2>2. QED
    BY <1>2, <2>1
<1> HIDE DEF answers, S, result
<1>6. result \in Seq(S)
  BY <1>3, <1>4, PickedIsList
<1>7. IsList(result)
  BY <1>6 DEF IsList, Range
<1>8. \A i \in DOMAIN result : result[i] \in S
  BY <1>6
<1>9. QED
  BY <1>5, <1>7, <1>8 DEF WellFormed, result

LEMMA RowsInit == DInit => RowsInv
<1> SUFFICES ASSUME DInit PROVE RowsInv
  OBVIOUS
<1>1. DOMAIN content = Refs /\ \A r \in Refs : content[r] \in Contents[r]
  BY DataAssumption DEF DInit
<1>2. DOMAIN fips \subseteq FipIds /\ \A f \in DOMAIN fips : fips[f] \in Documents
  BY DataAssumption DEF DInit
<1>3. IsFiniteSet(DOMAIN network) /\ DOMAIN network \subseteq NetworkIds
  <2>1. DOMAIN network = {}
    BY DEF DInit
  <2>2. QED
    BY <2>1, FS_EmptySet
<1>4. DOMAIN rows = DOMAIN fips /\ \A f \in DOMAIN rows : rows[f] = RowOf(fips[f])
  BY DEF DInit
<1>5. ASSUME NEW doc \in Documents PROVE FiniteRow(RowOf(doc)) /\ KeyedRow(RowOf(doc))
  <2>1. doc.ref \in Refs /\ WellFormed(doc.answers)
    BY DataAssumption
  <2>2. content[doc.ref] = None \/ IsList(content[doc.ref])
    BY <1>1, <2>1, DataAssumption DEF IsContent
  <2>3. QED
    BY <2>1, <2>2, RowIsFinite, RowIsKeyed DEF RowOf, Projected
<1>6. QED
  BY <1>1, <1>2, <1>3, <1>4, <1>5 DEF RowsInv

LEMMA RowsNext == RowsInv /\ [DNext]_dvars => RowsInv'
<1> SUFFICES ASSUME RowsInv, [DNext]_dvars PROVE RowsInv'
  OBVIOUS
<1> DEFINE ContentOK == DOMAIN content' = Refs /\ \A r \in Refs : content'[r] \in Contents[r]
           FipsOK == DOMAIN fips' \subseteq FipIds /\ \A f \in DOMAIN fips' : fips'[f] \in Documents
           NetworkOK == IsFiniteSet(DOMAIN network') /\ DOMAIN network' \subseteq NetworkIds
           RowsOK == /\ DOMAIN rows' \subseteq FipIds \cup NetworkIds
                     /\ \A f \in DOMAIN rows' : FiniteRow(rows'[f]) /\ KeyedRow(rows'[f])
<1>1. ContentOK /\ FipsOK /\ NetworkOK /\ RowsOK => RowsInv'
  BY DEF RowsInv
<1>2. /\ UNCHANGED content => ContentOK
      /\ UNCHANGED fips => FipsOK
      /\ UNCHANGED network => NetworkOK
      /\ UNCHANGED rows => RowsOK
  BY DEF RowsInv
<1>3. ASSUME NEW f \in FipIds, NEW doc \in Documents, Stored(f, doc) PROVE FipsOK
  BY <1>3 DEF Stored, RowsInv
<1>4. ASSUME NEW f, fips' = [x \in DOMAIN fips \ {f} |-> fips[x]] PROVE FipsOK
  BY <1>4 DEF RowsInv
<1>5. ASSUME NEW f \in FipIds \cup NetworkIds, NEW row, FiniteRow(row), KeyedRow(row), Reproject(f, row)
      PROVE  RowsOK
  <2>1. rows' = [x \in DOMAIN rows \cup {f} |-> IF x = f THEN row ELSE rows[x]]
    BY <1>5 DEF Reproject
  <2>2. \A x \in DOMAIN rows' : rows'[x] = row \/ (x \in DOMAIN rows /\ rows'[x] = rows[x])
    BY <2>1
  <2>3. QED
    BY <1>5, <2>1, <2>2 DEF RowsInv
<1>6. ASSUME NEW f, Unproject(f) PROVE RowsOK
  BY <1>6 DEF Unproject, RowsInv
<1>7. ASSUME NEW F \in SUBSET DOMAIN fips, ReprojectAll(F) PROVE RowsOK
  <2>1. rows' = [x \in DOMAIN rows \cup F |-> IF x \in F THEN RowOf(fips[x]) ELSE rows[x]]
    BY <1>7 DEF ReprojectAll
  <2>2. ASSUME NEW x \in F PROVE x \in FipIds /\ FiniteRow(RowOf(fips[x])) /\ KeyedRow(RowOf(fips[x]))
    BY RowOfIsFinite DEF RowsInv
  <2>3. ASSUME NEW x \in DOMAIN rows'
        PROVE  x \in FipIds \cup NetworkIds /\ FiniteRow(rows'[x]) /\ KeyedRow(rows'[x])
    <3>1. CASE x \in F
      BY <2>1, <2>2, <3>1
    <3>2. CASE x \notin F
      BY <2>1, <3>2 DEF RowsInv
    <3>3. QED
      BY <3>1, <3>2
  <2>4. QED
    BY <2>3
<1> HIDE DEF ContentOK, FipsOK, NetworkOK, RowsOK
<1>8. ASSUME NEW f \in FipIds, NEW doc \in Documents, Write(f, doc) PROVE RowsInv'
  BY <1>1, <1>2, <1>3, <1>5, <1>8, RowOfIsFinite DEF Write
<1>9. ASSUME NEW f \in FipIds, NEW doc \in Documents, WriteUnprojected(f, doc) PROVE RowsInv'
  <2>1. rows' = [x \in DOMAIN rows |-> IF x = f THEN [rows[x] EXCEPT !.inTime = FALSE] ELSE rows[x]]
    BY <1>9 DEF WriteUnprojected
  <2>2. \A x \in DOMAIN rows : rows'[x].declarations = rows[x].declarations /\ rows'[x].cells = rows[x].cells
    BY <2>1
  <2>3. RowsOK
    BY <2>1, <2>2 DEF RowsOK, RowsInv, FiniteRow, KeyedRow
  <2>4. QED
    BY <1>1, <1>2, <1>3, <1>9, <2>3 DEF WriteUnprojected
<1>10. ASSUME NEW f \in FipIds, NEW doc \in Documents, LateWrite(f, doc) PROVE RowsInv'
  <2>1. fips[f] \in Documents /\ Reproject(f, RowOf(fips[f]))
    BY <1>10 DEF LateWrite, RowsInv
  <2>2. RowsOK
    BY <1>5, <2>1, RowOfIsFinite
  <2>3. FipsOK
    BY <1>10 DEF LateWrite, FipsOK, RowsInv
  <2>4. QED
    BY <1>1, <1>2, <1>10, <2>2, <2>3 DEF LateWrite
<1>11. ASSUME NEW f, Delete(f) PROVE RowsInv'
  BY <1>1, <1>2, <1>4, <1>6, <1>11 DEF Delete
<1>12. ASSUME NEW f, DeletePastTheHook(f) PROVE RowsInv'
  BY <1>1, <1>2, <1>4, <1>12 DEF DeletePastTheHook
<1>13. ASSUME NEW r \in Refs, NEW c \in Contents[r], EditContent(r, c) PROVE RowsInv'
  <2>1. ContentOK
    BY <1>13 DEF EditContent, ContentOK, RowsInv
  <2>2. QED
    BY <1>1, <1>2, <1>13, <2>1 DEF EditContent
<1>14. ASSUME NEW onlyStale \in BOOLEAN, Backfill(onlyStale) PROVE RowsInv'
  <2> DEFINE F == IF onlyStale THEN StaleFips ELSE DOMAIN fips
  <2>1. F \in SUBSET DOMAIN fips
    BY DEF StaleFips
  <2>2. ReprojectAll(F) /\ UNCHANGED <<fips, content, network>>
    BY <1>14 DEF Backfill
  <2> HIDE DEF F
  <2>3. QED
    BY <1>1, <1>2, <1>7, <2>1, <2>2
<1>15. ASSUME Fix PROVE RowsInv'
  <2>1. ReprojectAll(Problems \cap DOMAIN fips) /\ UNCHANGED <<fips, content, network>>
    BY <1>15 DEF Fix
  <2>2. QED
    BY <1>1, <1>2, <1>7, <2>1
<1>16. ASSUME NEW n \in NetworkIds, NEW payload \in Payloads, IngestNetwork(n, payload) PROVE RowsInv'
  <2> DEFINE answers == AnswersFromPayload(payload)
             row == Row("network", NetworkRef, None, ProjectAnswers(content[NetworkRef], answers), epoch)
  <2>1. Reproject(n, row) /\ UNCHANGED <<fips, content>>
    BY <1>16 DEF IngestNetwork
  <2>2. DOMAIN network' = DOMAIN network \cup {n}
    BY <1>16 DEF IngestNetwork
  <2>3. NetworkOK
    BY <2>2, FS_AddElement DEF NetworkOK, RowsInv
  <2>4. WellFormed(answers)
    BY DataAssumption, AnswersFromPayloadWellFormed
  <2>5. content[NetworkRef] = None \/ IsList(content[NetworkRef])
    BY DataAssumption, ContentIsList
  <2> HIDE DEF answers
  <2>6. FiniteRow(row) /\ KeyedRow(row)
    BY <2>4, <2>5, RowIsFinite, RowIsKeyed
  <2> HIDE DEF row
  <2>7. RowsOK
    BY <1>5, <2>1, <2>6
  <2>8. QED
    BY <1>1, <1>2, <2>1, <2>3, <2>7
<1>17. ASSUME Refresh PROVE RowsInv'
  BY <1>1, <1>2, <1>17 DEF Refresh
<1>18. ASSUME UNCHANGED dvars PROVE RowsInv'
  BY <1>1, <1>2, <1>18 DEF dvars
<1>19. QED
  BY <1>8, <1>9, <1>10, <1>11, <1>12, <1>13, <1>14, <1>15, <1>16, <1>17, <1>18 DEF DNext

-----------------------------------------------------------------------------
(* Sums and means *)

LEMMA TimesMonotone ==
    ASSUME NEW a \in Int, NEW b \in Int, NEW n \in Nat, a <= b
    PROVE  a * n <= b * n
  OBVIOUS

LEMMA Quotient ==
    ASSUME NEW x \in Nat, NEW n \in Nat \ {0}
    PROVE  x \div n \in Int /\ (x \div n) * n <= x /\ x < (x \div n + 1) * n
  OBVIOUS

LEMMA QuotientBounds ==
    ASSUME NEW x \in Nat, NEW n \in Nat \ {0}, NEW low \in Nat, NEW high \in Nat,
           low * n <= x, x <= high * n
    PROVE  x \div n \in low..high
<1>1. PICK d : d = x \div n
  OBVIOUS
<1>2. d \in Int /\ d * n <= x /\ x < (d + 1) * n
  BY Quotient, <1>1
<1>3. low < d + 1
  BY <1>2, TimesMonotone
<1>4. d <= high
  BY <1>2, TimesMonotone
<1>5. QED
  BY <1>1, <1>2, <1>3, <1>4

(* The fold of SumFunctionOnSet *)
SumStep(f, g, s) ==
    IF s = {} THEN 0 ELSE LET x == CHOOSE y \in s : TRUE IN f[x] + g[s \ {x}]

SumBy(f, S) == CHOOSE g : g = [s \in SUBSET S |-> SumStep(f, g, s)]

IsSum(f, S, g) == \A s \in SUBSET S : g[s] = SumStep(f, g, s)

LEMMA SumDefined ==
    ASSUME NEW S, IsFiniteSet(S), NEW f, \A x \in S : f[x] \in Nat
    PROVE  IsSum(f, S, SumBy(f, S))
<1> DEFINE step == [p \in S \X Nat |-> f[p[1]] + p[2]]
<1>1. step \in [S \X Nat -> Nat]
  OBVIOUS
<1>2. PICK h : IsFold(S, Nat, 0, step, h)
  <2> HIDE DEF step
  <2>1. QED
    BY <1>1, FoldExists
<1>3. h \in [SUBSET S -> Nat] /\ \A s \in SUBSET S : h[s] = FoldStep(0, step, h, s)
  BY <1>2 DEF IsFold
<1>4. ASSUME NEW s \in SUBSET S PROVE FoldStep(0, step, h, s) = SumStep(f, h, s)
  <2>1. CASE s = {}
    BY <2>1 DEF FoldStep, SumStep
  <2>2. CASE s # {}
    <3> DEFINE x == CHOOSE y \in s : TRUE
    <3>1. x \in s
      BY <2>2
    <3>2. FoldStep(0, step, h, s) = step[<<x, h[s \ {x}]>>]
      BY <2>2 DEF FoldStep
    <3>3. SumStep(f, h, s) = f[x] + h[s \ {x}]
      BY <2>2 DEF SumStep
    <3> HIDE DEF x
    <3>4. s \ {x} \in SUBSET S /\ x \in S
      BY <3>1
    <3>5. <<x, h[s \ {x}]>> \in S \X Nat
      BY <1>3, <3>4
    <3>6. QED
      BY <3>2, <3>3, <3>5
  <2>3. QED
    BY <2>1, <2>2
<1> HIDE DEF step
<1>5. h = [s \in SUBSET S |-> h[s]] /\ \A s \in SUBSET S : h[s] = SumStep(f, h, s)
  BY <1>3, <1>4
<1>6. h = [s \in SUBSET S |-> SumStep(f, h, s)]
  BY <1>5
<1>7. SumBy(f, S) = [s \in SUBSET S |-> SumStep(f, SumBy(f, S), s)]
  BY <1>6, Zenon DEF SumBy
<1>8. QED
  BY <1>7 DEF IsSum

LEMMA SumBounds ==
    ASSUME NEW S, IsFiniteSet(S), NEW f, NEW low \in Nat, NEW high \in Nat,
           \A x \in S : f[x] \in low..high
    PROVE  /\ SumFunctionOnSet(f, S) \in Nat
           /\ low * Cardinality(S) <= SumFunctionOnSet(f, S)
           /\ SumFunctionOnSet(f, S) <= high * Cardinality(S)
<1> DEFINE g == SumBy(f, S)
<1>1. SumFunctionOnSet(f, S) = g[S]
  BY DEF SumFunctionOnSet, FoldFunctionOnSet, MapThenFoldSet, SumBy, SumStep
<1>2. \A s \in SUBSET S : g[s] = SumStep(f, g, s)
  <2>1. \A x \in S : f[x] \in Nat
    OBVIOUS
  <2>2. IsSum(f, S, g)
    BY <2>1, SumDefined
  <2>3. QED
    BY <2>2 DEF IsSum
<1> HIDE DEF g
<1> DEFINE Good(s) == g[s] \in Nat /\ low * Cardinality(s) <= g[s] /\ g[s] <= high * Cardinality(s)
           G == {s \in SUBSET S : Good(s)}
<1>3. {} \in G
  <2>1. g[{}] = 0 /\ Cardinality({}) = 0
    BY <1>2, FS_EmptySet DEF SumStep
  <2>2. QED
    BY <2>1
<1>4. ASSUME NEW s \in SUBSET S, s # {}, \A x \in s : s \ {x} \in G PROVE s \in G
  <2> DEFINE x == CHOOSE y \in s : TRUE
             t == s \ {x}
  <2>1. x \in s
    BY <1>4
  <2>2. g[s] = f[x] + g[t]
    BY <1>2, <1>4 DEF SumStep
  <2> HIDE DEF x
  <2>3. IsFiniteSet(s)
    BY FS_Subset
  <2>4. Cardinality(s) \in Nat /\ Cardinality(t) = Cardinality(s) - 1
    BY <2>1, <2>3, FS_CardinalityType, FS_RemoveElement
  <2>5. Good(t) /\ Cardinality(t) \in Nat
    <3>1. IsFiniteSet(t)
      BY <2>3, FS_RemoveElement
    <3>2. QED
      BY <1>4, <2>1, <3>1, FS_CardinalityType
  <2>6. f[x] \in low..high
    BY <2>1
  <2> HIDE DEF t
  <2>7. low * (Cardinality(t) + 1) = low * Cardinality(t) + low
        /\ high * (Cardinality(t) + 1) = high * Cardinality(t) + high
    BY <2>5
  <2>8. Cardinality(s) = Cardinality(t) + 1
    BY <2>4, <2>5
  <2>9. Good(s)
    BY <2>2, <2>5, <2>6, <2>7, <2>8
  <2>10. QED
    BY <2>9
<1> HIDE DEF G
<1>5. S \in G
  BY <1>3, <1>4, SubsetInduction
<1>6. QED
  BY <1>1, <1>5 DEF G

LEMMA MeanBounds ==
    ASSUME NEW S, IsFiniteSet(S), NEW f, NEW low \in Nat, NEW high \in Nat,
           \A x \in S : f[x] \in low..high, S # {} \/ low = 0
    PROVE  MeanOver(f, S) \in low..high
<1>1. CASE S = {}
  BY <1>1 DEF MeanOver
<1>2. CASE S # {}
  <2> DEFINE n == Cardinality(S)
             total == SumFunctionOnSet(f, S)
  <2>1. n \in Nat \ {0}
    BY <1>2, FS_CardinalityType, FS_EmptySet
  <2>2. total \in Nat /\ low * n <= total /\ total <= high * n
    BY SumBounds
  <2>3. MeanOver(f, S) = total \div n
    BY <1>2 DEF MeanOver
  <2> HIDE DEF n, total
  <2>4. QED
    BY <2>1, <2>2, <2>3, QuotientBounds
<1>3. QED
  BY <1>1, <1>2

-----------------------------------------------------------------------------
(* The measure *)

LEMMA QuestionSetsAreFinite ==
    ASSUME NEW x, FiniteRow(x), NEW statuses
    PROVE  LET sx == QuestionSets(x, statuses) IN
           IsFiniteSet(DOMAIN sx) /\ \A q \in DOMAIN sx : IsFiniteSet(sx[q])
<1> DEFINE sx == QuestionSets(x, statuses)
           ask == [c \in x.cells |-> c.question]
           said(q) == {d \in x.declarations : d.question = q /\ d.status \in StatusesOf(statuses)}
           key == [d \in x.declarations |-> d.key]
           na(q) == \E c \in x.cells : c.question = q /\ c.notApplicable
<1>1. DOMAIN sx = {ask[c] : c \in x.cells}
  BY DEF QuestionSets
<1>2. IsFiniteSet(DOMAIN sx)
  <2> HIDE DEF ask, sx
  <2>1. QED
    BY <1>1, ImageFinite DEF FiniteRow
<1>3. ASSUME NEW q \in DOMAIN sx PROVE IsFiniteSet(sx[q])
  <2>1. IsFiniteSet(said(q))
    BY FS_Subset DEF FiniteRow
  <2>2. sx[q] = {key[d] : d \in said(q)} \cup (IF na(q) THEN {NA} ELSE {})
    BY <1>3 DEF QuestionSets
  <2> HIDE DEF said, key, na, sx
  <2>3. IsFiniteSet({key[d] : d \in said(q)})
    BY <2>1, ImageFinite
  <2>4. IsFiniteSet(IF na(q) THEN {NA} ELSE {})
    BY FS_EmptySet, FS_Singleton
  <2>5. QED
    BY <2>2, <2>3, <2>4, FS_Union
<1>4. QED
  BY <1>2, <1>3

LEMMA JaccardBounds ==
    ASSUME NEW A, IsFiniteSet(A), NEW B, IsFiniteSet(B), A \cup B # {}
    PROVE  /\ Jaccard(A, B) \in 0..Unit
           /\ A \cap B = {} => Jaccard(A, B) = 0
           /\ A = B => Jaccard(A, B) = Unit
<1> DEFINE both == Cardinality(A \cap B)
           any == Cardinality(A \cup B)
<1>1. IsFiniteSet(A \cup B) /\ any \in Nat \ {0}
  BY FS_Union, FS_CardinalityType, FS_EmptySet
<1>2. both \in Nat /\ both <= any
  <2>1. A \cap B \subseteq A \cup B
    OBVIOUS
  <2>2. QED
    BY <1>1, <2>1, FS_Subset, FS_CardinalityType
<1>3. Unit \in Nat
  BY SimilarityAssumption
<1>4. Jaccard(A, B) = (Unit * both) \div any
  BY DEF Jaccard
<1>5. A \cap B = {} => both = 0
  BY FS_EmptySet
<1>6. A = B => both = any
  OBVIOUS
<1> HIDE DEF both, any
<1>7. Unit * both \in Nat /\ Unit * both = both * Unit /\ 0 * any = 0 /\ Unit * any = any * Unit
  BY <1>1, <1>2, <1>3
<1>8. Unit * both <= Unit * any
  BY <1>1, <1>2, <1>3, <1>7, TimesMonotone
<1>9. (Unit * both) \div any \in 0..Unit
  BY <1>1, <1>3, <1>7, <1>8, QuotientBounds
<1>10. ASSUME both = 0 PROVE (Unit * both) \div any = 0
  BY <1>1, <1>3, <1>10
<1>11. ASSUME both = any PROVE (Unit * both) \div any = Unit
  <2>1. Unit * both <= Unit * any /\ Unit * any <= Unit * both
    BY <1>7, <1>8, <1>11
  <2>2. (Unit * both) \div any \in Unit..Unit
    BY <1>1, <1>3, <1>7, <2>1, QuotientBounds
  <2>3. QED
    BY <1>3, <2>2
<1>12. QED
  BY <1>4, <1>5, <1>6, <1>9, <1>10, <1>11

(* What score_pair makes of the shares of the questions *)
OverallOf(included, jaccard, sub) ==
    LET principles == {sub[q] : q \in included} \ {None}
        perPrinciple == [p \in principles |-> MeanOver(jaccard, {q \in included : sub[q] = p})]
        letters    == {LetterOf[p] : p \in principles}
        perLetter  == [l \in letters |-> MeanOver(perPrinciple, {p \in principles : LetterOf[p] = l})]
    IN  [question |-> MeanOver(jaccard, included),
         principle |-> MeanOver(perPrinciple, principles),
         letter |-> MeanOver(perLetter, letters)]

LEMMA OverallBounds ==
    ASSUME NEW included, IsFiniteSet(included), NEW jaccard, NEW sub, NEW low \in Nat, NEW high \in Nat,
           \A q \in included : jaccard[q] \in low..high,
           low = 0 \/ \E q \in included : sub[q] # None
    PROVE  LET overall == OverallOf(included, jaccard, sub) IN
           \A w \in DOMAIN overall : overall[w] \in low..high
<1> DEFINE principles == {sub[q] : q \in included} \ {None}
           about(p) == {q \in included : sub[q] = p}
           perPrinciple == [p \in principles |-> MeanOver(jaccard, about(p))]
           letters == {LetterOf[p] : p \in principles}
           of(l) == {p \in principles : LetterOf[p] = l}
           perLetter == [l \in letters |-> MeanOver(perPrinciple, of(l))]
           overall == OverallOf(included, jaccard, sub)
<1>1. overall = [question |-> MeanOver(jaccard, included), principle |-> MeanOver(perPrinciple, principles),
                 letter |-> MeanOver(perLetter, letters)]
  BY DEF OverallOf
<1>2. IsFiniteSet(principles) /\ IsFiniteSet(letters)
  <2>1. IsFiniteSet({sub[q] : q \in included})
    BY ImageFinite
  <2>2. IsFiniteSet(principles)
    BY <2>1, FS_RemoveElement
  <2> HIDE DEF principles
  <2>3. QED
    BY <2>2, ImageFinite
<1>3. low = 0 \/ (included # {} /\ principles # {} /\ letters # {})
  OBVIOUS
<1>4. \A p \in principles : perPrinciple[p] \in low..high
  <2>1. ASSUME NEW p \in principles PROVE perPrinciple[p] \in low..high
    <3>1. about(p) # {}
      OBVIOUS
    <3>2. IsFiniteSet(about(p))
      BY FS_Subset
    <3>3. \A q \in about(p) : jaccard[q] \in low..high
      OBVIOUS
    <3>4. perPrinciple[p] = MeanOver(jaccard, about(p))
      OBVIOUS
    <3> HIDE DEF about, principles, perPrinciple
    <3>5. QED
      BY <3>1, <3>2, <3>3, <3>4, MeanBounds
  <2>2. QED
    BY <2>1
<1>5. \A l \in letters : perLetter[l] \in low..high
  <2>1. ASSUME NEW l \in letters PROVE perLetter[l] \in low..high
    <3>1. of(l) # {}
      OBVIOUS
    <3>2. of(l) \subseteq principles
      OBVIOUS
    <3>3. perLetter[l] = MeanOver(perPrinciple, of(l))
      OBVIOUS
    <3> HIDE DEF of, principles, perPrinciple, letters, perLetter
    <3>4. IsFiniteSet(of(l)) /\ \A p \in of(l) : perPrinciple[p] \in low..high
      BY <1>2, <1>4, <3>2, FS_Subset
    <3>5. QED
      BY <3>1, <3>3, <3>4, MeanBounds
  <2>2. QED
    BY <2>1
<1> HIDE DEF principles, perPrinciple, letters, perLetter, overall
<1>6. MeanOver(jaccard, included) \in low..high
  BY <1>3, MeanBounds
<1>7. MeanOver(perPrinciple, principles) \in low..high
  BY <1>2, <1>3, <1>4, MeanBounds
<1>8. MeanOver(perLetter, letters) \in low..high
  BY <1>2, <1>3, <1>5, MeanBounds
<1>9. QED
  BY <1>1, <1>6, <1>7, <1>8 DEF overall

(* The share of each question, and the sub-principle it counts for *)
Shares(a, b, statuses) ==
    LET sa == QuestionSets(a, statuses)
        sb == QuestionSets(b, statuses)
    IN  [q \in Included(sa, sb) |-> IF sa[q] \cup sb[q] = {} THEN 0 ELSE Jaccard(sa[q], sb[q])]

SubsOf(a, included) == [q \in included |-> SubOf(a, q)]

LEMMA ScoreIsOverall ==
    ASSUME NEW a, NEW b, NEW statuses, NEW included,
           included = Included(QuestionSets(a, statuses), QuestionSets(b, statuses))
    PROVE  ScorePair(a, b, statuses).overall
               = OverallOf(included, Shares(a, b, statuses), SubsOf(a, included))
  BY DEF ScorePair, OverallOf, Shares, SubsOf

LEMMA SharesBounds ==
    ASSUME NEW a, FiniteRow(a), NEW b, FiniteRow(b), NEW statuses,
           NEW sa, sa = QuestionSets(a, statuses), NEW sb, sb = QuestionSets(b, statuses),
           NEW q \in Included(sa, sb)
    PROVE  /\ Shares(a, b, statuses)[q] = Jaccard(sa[q], sb[q])
           /\ Jaccard(sa[q], sb[q]) \in 0..Unit
           /\ sa[q] \cap sb[q] = {} => Jaccard(sa[q], sb[q]) = 0
           /\ sa[q] = sb[q] => Jaccard(sa[q], sb[q]) = Unit
<1>1. sa[q] \cup sb[q] # {} /\ q \in DOMAIN sa /\ q \in DOMAIN sb
  BY DEF Included
<1>2. IsFiniteSet(sa[q]) /\ IsFiniteSet(sb[q])
  BY <1>1, QuestionSetsAreFinite
<1>3. Shares(a, b, statuses)[q] = Jaccard(sa[q], sb[q])
  BY <1>1 DEF Shares
<1>4. QED
  BY <1>1, <1>2, <1>3, JaccardBounds

LEMMA IncludedIsFinite ==
    ASSUME NEW a, FiniteRow(a), NEW b, NEW statuses
    PROVE  IsFiniteSet(Included(QuestionSets(a, statuses), QuestionSets(b, statuses)))
<1> DEFINE sa == QuestionSets(a, statuses)
<1>1. IsFiniteSet(DOMAIN sa)
  BY QuestionSetsAreFinite
<1>2. Included(sa, QuestionSets(b, statuses)) \subseteq DOMAIN sa
  BY DEF Included
<1> HIDE DEF sa
<1>3. QED
  BY <1>1, <1>2, FS_Subset DEF sa

LEMMA MeasureSymmetric ==
    ASSUME NEW a, NEW b, NEW statuses, SameSubs(a, b)
    PROVE  ScorePair(a, b, statuses).overall = ScorePair(b, a, statuses).overall
<1>1. PICK sa : sa = QuestionSets(a, statuses)
  OBVIOUS
<1>2. PICK sb : sb = QuestionSets(b, statuses)
  OBVIOUS
<1>3. PICK included : included = Included(sa, sb)
  OBVIOUS
<1>4. included = Included(sb, sa)
  BY <1>3 DEF Included
<1>5. Shares(a, b, statuses) = Shares(b, a, statuses)
  <2>1. Shares(a, b, statuses) =
            [q \in included |-> IF sa[q] \cup sb[q] = {} THEN 0 ELSE Jaccard(sa[q], sb[q])]
    BY <1>1, <1>2, <1>3 DEF Shares
  <2>2. Shares(b, a, statuses) =
            [q \in included |-> IF sb[q] \cup sa[q] = {} THEN 0 ELSE Jaccard(sb[q], sa[q])]
    BY <1>1, <1>2, <1>4 DEF Shares
  <2>3. \A q \in included : sa[q] \cup sb[q] = sb[q] \cup sa[q] /\ Jaccard(sa[q], sb[q]) = Jaccard(sb[q], sa[q])
    <3>1. \A A, B : A \cup B = B \cup A /\ A \cap B = B \cap A
      OBVIOUS
    <3>2. QED
      BY <3>1 DEF Jaccard
  <2>4. QED
    BY <2>1, <2>2, <2>3
<1>6. SubsOf(a, included) = SubsOf(b, included)
  <2>1. ASSUME NEW q \in included PROVE SubOf(a, q) = SubOf(b, q)
    <3>1. q \in {c.question : c \in a.cells} /\ q \in {c.question : c \in b.cells}
      BY <1>1, <1>2, <1>3 DEF Included, QuestionSets
    <3>2. PICK c : c = CHOOSE x \in a.cells : x.question = q
      OBVIOUS
    <3>3. PICK e : e = CHOOSE x \in b.cells : x.question = q
      OBVIOUS
    <3>4. c \in a.cells /\ c.question = q
      BY <3>1, <3>2
    <3>5. e \in b.cells /\ e.question = q
      BY <3>1, <3>3
    <3>6. c.sub = e.sub
      BY <3>4, <3>5 DEF SameSubs
    <3>7. QED
      BY <3>2, <3>3, <3>6 DEF SubOf
  <2>2. QED
    BY <2>1 DEF SubsOf
<1>7. ScorePair(a, b, statuses).overall = OverallOf(included, Shares(a, b, statuses), SubsOf(a, included))
  BY <1>1, <1>2, <1>3, ScoreIsOverall
<1>8. ScorePair(b, a, statuses).overall = OverallOf(included, Shares(b, a, statuses), SubsOf(b, included))
  BY <1>1, <1>2, <1>4, ScoreIsOverall
<1>9. QED
  BY <1>5, <1>6, <1>7, <1>8

LEMMA DataIsFinite ==
    ASSUME NEW row, FiniteRow(row)
    PROVE  FiniteRow(Data(row))
  BY DEF FiniteRow, Data

LEMMA Measured ==
    ASSUME NEW a, FiniteRow(a), NEW b, FiniteRow(b), NEW statuses
    PROVE  MeasureOK(a, b, statuses)
<1>1. PICK sa : sa = QuestionSets(a, statuses)
  OBVIOUS
<1>2. PICK sb : sb = QuestionSets(b, statuses)
  OBVIOUS
<1>3. PICK score : score = ScorePair(a, b, statuses).overall
  OBVIOUS
<1>4. SameSubs(a, b) => score = ScorePair(b, a, statuses).overall
  BY <1>3, MeasureSymmetric
<1>5. PICK included : included = Included(sa, sb)
  OBVIOUS
<1>6. PICK shares : shares = Shares(a, b, statuses)
  OBVIOUS
<1>7. PICK subs : subs = SubsOf(a, included)
  OBVIOUS
<1>8. score = OverallOf(included, shares, subs)
  BY <1>1, <1>2, <1>3, <1>5, <1>6, <1>7, ScoreIsOverall
<1>9. IsFiniteSet(included)
  BY <1>1, <1>2, <1>5, IncludedIsFinite
<1>10. \A q \in included : /\ shares[q] \in 0..Unit
                           /\ sa[q] \cap sb[q] = {} => shares[q] = 0
                           /\ sa[q] = sb[q] => shares[q] = Unit
  BY <1>1, <1>2, <1>5, <1>6, SharesBounds
<1>11. included \subseteq DOMAIN sa \cap DOMAIN sb
  BY <1>5 DEF Included
<1>12. Unit \in Nat
  BY SimilarityAssumption
<1>13. \A w \in DOMAIN score : score[w] \in 0..Unit
  BY <1>8, <1>9, <1>10, <1>12, OverallBounds
<1>14. ASSUME \A q \in DOMAIN sa \cap DOMAIN sb : sa[q] \cap sb[q] = {}
       PROVE  \A w \in DOMAIN score : score[w] = 0
  <2>1. \A q \in included : shares[q] \in 0..0
    BY <1>10, <1>11, <1>14
  <2>2. \A w \in DOMAIN score : score[w] \in 0..0
    BY <1>8, <1>9, <2>1, OverallBounds
  <2>3. QED
    BY <2>2
<1>15. ASSUME \A q \in DOMAIN sa \cap DOMAIN sb : sa[q] = sb[q],
              \E q \in DOMAIN sa \cap DOMAIN sb : sa[q] # {} /\ SubOf(a, q) # None
       PROVE  \A w \in DOMAIN score : score[w] = Unit
  <2>1. \A q \in included : shares[q] \in Unit..Unit
    BY <1>10, <1>11, <1>12, <1>15
  <2>2. \E q \in included : subs[q] # None
    BY <1>5, <1>7, <1>15 DEF Included, SubsOf
  <2>3. \A w \in DOMAIN score : score[w] \in Unit..Unit
    BY <1>8, <1>9, <1>12, <2>1, <2>2, OverallBounds
  <2>4. QED
    BY <1>12, <2>3
<1>16. QED
  BY <1>1, <1>2, <1>3, <1>4, <1>13, <1>14, <1>15, Zenon DEF MeasureOK

(* Whatever the questionnaires, their versions and what the rows came from *)
(* are: the similarity of two rows lies within its range, does not depend  *)
(* on the direction where the models agree, is nothing without a common    *)
(* answer and full where every common question is answered alike.          *)
THEOREM DSpec_ScoreIsAMeasure == DSpec => []ScoreIsAMeasure
<1>1. RowsInv => ScoreIsAMeasure
  <2> SUFFICES ASSUME RowsInv, NEW f \in DOMAIN rows, NEW g \in DOMAIN rows,
                      NEW statuses \in {"current", "currentPlanned"}
               PROVE  MeasureOK(Data(rows[f]), Data(rows[g]), statuses)
    BY DEF ScoreIsAMeasure
  <2>1. FiniteRow(Data(rows[f])) /\ FiniteRow(Data(rows[g]))
    BY DataIsFinite DEF RowsInv
  <2>2. QED
    BY <2>1, Measured
<1>2. QED
  BY <1>1, RowsInit, RowsNext, PTL DEF DSpec

-----------------------------------------------------------------------------
(* The first elements of a set, in an order *)

LEMMA ImageCardinality ==
    ASSUME NEW S, IsFiniteSet(S), NEW f
    PROVE  Cardinality({f[x] : x \in S}) <= Cardinality(S)
<1> DEFINE Image(s) == {f[x] : x \in s}
           G == {s \in SUBSET S : Cardinality(Image(s)) <= Cardinality(s)}
<1>1. {} \in G
  <2>1. Image({}) = {}
    OBVIOUS
  <2>2. QED
    BY <2>1, FS_EmptySet
<1>2. ASSUME NEW s \in SUBSET S, s # {}, \A x \in s : s \ {x} \in G PROVE s \in G
  <2>1. PICK x \in s : TRUE
    BY <1>2
  <2> DEFINE t == s \ {x}
  <2>2. Cardinality(Image(t)) <= Cardinality(t)
    BY <1>2, <2>1
  <2>3. Image(s) = Image(t) \cup {f[x]}
    BY <2>1
  <2>4. IsFiniteSet(s) /\ IsFiniteSet(t)
    BY FS_Subset
  <2>5. IsFiniteSet(Image(t))
    BY <2>4, ImageFinite
  <2>6. Cardinality(s) \in Nat /\ Cardinality(t) = Cardinality(s) - 1
    BY <2>1, <2>4, FS_CardinalityType, FS_RemoveElement
  <2> HIDE DEF Image, t
  <2>7. Cardinality(Image(t)) \in Nat
    BY <2>5, FS_CardinalityType
  <2>8. CASE f[x] \in Image(t)
    <3>1. Image(s) = Image(t)
      BY <2>3, <2>8
    <3>2. QED
      BY <2>2, <2>6, <2>7, <3>1
  <2>9. CASE f[x] \notin Image(t)
    <3>1. Cardinality(Image(t) \cup {f[x]}) = Cardinality(Image(t)) + 1
      BY <2>5, <2>9, FS_AddElement
    <3>2. Cardinality(Image(s)) = Cardinality(Image(t)) + 1
      BY <2>3, <3>1
    <3>3. QED
      BY <2>2, <2>6, <2>7, <3>2
  <2>10. Cardinality(Image(s)) <= Cardinality(s)
    BY <2>8, <2>9
  <2>11. QED
    BY <2>10
<1> HIDE DEF G
<1>3. S \in G
  BY <1>1, <1>2, SubsetInduction
<1>4. QED
  BY <1>3 DEF G

StrictOrder(Less, S) ==
    /\ \A x \in S : <<x, x>> \notin Less
    /\ \A x, y, z \in S : <<x, y>> \in Less /\ <<y, z>> \in Less => <<x, z>> \in Less

LEMMA LeastExists ==
    ASSUME NEW S, IsFiniteSet(S), S # {}, NEW Less, StrictOrder(Less, S)
    PROVE  \E m \in S : \A y \in S : <<y, m>> \notin Less
<1> DEFINE G == {s \in SUBSET S : s # {} => \E m \in s : \A y \in s : <<y, m>> \notin Less}
<1>1. {} \in G
  OBVIOUS
<1>2. ASSUME NEW s \in SUBSET S, s # {}, \A x \in s : s \ {x} \in G PROVE s \in G
  <2>1. PICK x \in s : TRUE
    BY <1>2
  <2>2. CASE s \ {x} = {}
    BY <2>1, <2>2 DEF StrictOrder
  <2>3. CASE s \ {x} # {}
    <3>1. PICK m \in s \ {x} : \A y \in s \ {x} : <<y, m>> \notin Less
      BY <1>2, <2>1, <2>3
    <3>2. CASE <<x, m>> \notin Less
      BY <2>1, <3>1, <3>2
    <3>3. CASE <<x, m>> \in Less
      <4>1. \A y \in s : <<y, x>> \notin Less
        BY <2>1, <3>1, <3>3 DEF StrictOrder
      <4>2. QED
        BY <2>1, <4>1
    <3>4. QED
      BY <3>2, <3>3
  <2>4. QED
    BY <2>2, <2>3
<1> HIDE DEF G
<1>3. S \in G
  BY <1>1, <1>2, SubsetInduction
<1>4. QED
  BY <1>3 DEF G

LEMMA FirstExists ==
    ASSUME NEW S, IsFiniteSet(S), NEW Less, StrictOrder(Less, S), NEW n \in Nat, n <= Cardinality(S)
    PROVE  \E T \in kSubset(n, S) : \A t \in T, u \in S \ T : <<u, t>> \notin Less
<1> DEFINE First(T) == \A t \in T, u \in S \ T : <<u, t>> \notin Less
           N == {k \in Nat : k <= Cardinality(S) =>
                    \E T \in SUBSET S : Cardinality(T) = k /\ First(T)}
<1>1. 0 \in N
  <2>1. First({}) /\ Cardinality({}) = 0
    BY FS_EmptySet
  <2>2. QED
    BY <2>1
<1>2. ASSUME NEW k \in Nat, k \in N PROVE k + 1 \in N
  <2> SUFFICES ASSUME k + 1 <= Cardinality(S) PROVE \E T \in SUBSET S : Cardinality(T) = k + 1 /\ First(T)
    OBVIOUS
  <2>1. Cardinality(S) \in Nat
    BY FS_CardinalityType
  <2>2. PICK T \in SUBSET S : Cardinality(T) = k /\ First(T)
    BY <1>2, <2>1
  <2>3. S \ T # {}
    <3>1. Cardinality(T) # Cardinality(S)
      BY <2>1, <2>2
    <3>2. QED
      BY <3>1
  <2>4. IsFiniteSet(S \ T) /\ IsFiniteSet(T)
    BY FS_Subset
  <2>5. StrictOrder(Less, S \ T)
    BY DEF StrictOrder
  <2>6. PICK m \in S \ T : \A y \in S \ T : <<y, m>> \notin Less
    BY <2>3, <2>4, <2>5, LeastExists
  <2> DEFINE T2 == T \cup {m}
  <2>7. First(T2)
    BY <2>2, <2>6
  <2>8. Cardinality(T2) = k + 1
    BY <2>2, <2>4, <2>6, FS_AddElement
  <2>9. T2 \in SUBSET S
    OBVIOUS
  <2>10. QED
    BY <2>7, <2>8, <2>9
<1> HIDE DEF N
<1>3. n \in N
  BY <1>1, <1>2, SetInduction
<1>4. PICK T \in SUBSET S : Cardinality(T) = n /\ First(T)
  BY <1>3 DEF N
<1>5. T \in kSubset(n, S)
  BY <1>4 DEF kSubset
<1>6. QED
  BY <1>4, <1>5

(* Everything is ordered by a first number, descending, then by a second.  *)
Precedes(a, b, x, y) == a[x] > a[y] \/ (a[x] = a[y] /\ b[x] < b[y])

LEMMA SomeAreFirst ==
    ASSUME NEW S, IsFiniteSet(S), NEW a \in [S -> Int], NEW b \in [S -> Int], NEW n \in Nat,
           ~(Cardinality(S) <= n)
    PROVE  \E T \in kSubset(n, S) : \A t \in T, u \in S \ T : ~Precedes(a, b, u, t)
<1> DEFINE Less == {p \in S \X S : Precedes(a, b, p[1], p[2])}
<1>1. StrictOrder(Less, S)
  <2>1. \A x, y \in S : <<x, y>> \in Less <=> Precedes(a, b, x, y)
    OBVIOUS
  <2>2. \A x \in S : ~Precedes(a, b, x, x)
    BY DEF Precedes
  <2>3. \A x, y, z \in S : Precedes(a, b, x, y) /\ Precedes(a, b, y, z) => Precedes(a, b, x, z)
    BY DEF Precedes
  <2> HIDE DEF Less
  <2>4. QED
    BY <2>1, <2>2, <2>3 DEF StrictOrder
<1>2. n <= Cardinality(S)
  BY FS_CardinalityType
<1>3. \E T \in kSubset(n, S) : \A t \in T, u \in S \ T : <<u, t>> \notin Less
  <2> HIDE DEF Less
  <2>1. QED
    BY <1>1, <1>2, FirstExists
<1>4. QED
  BY <1>3 DEF kSubset

(* What is kept of S: some of it, and all of it if it is small *)
Kept(S, n, T) == T \subseteq S /\ (Cardinality(S) <= n => T = S)

RarestOf(S, n, d) ==
    LET rarer(x, y) == DfOf(d, x) < DfOf(d, y) IN FirstOf(S, n, rarer)

LEMMA RarestAreKept ==
    ASSUME NEW S, IsFiniteSet(S), NEW d, \A p \in DOMAIN d : d[p] \in Nat, NEW n \in Nat
    PROVE  Kept(S, n, RarestOf(S, n, d))
<1> DEFINE rarer(x, y) == DfOf(d, x) < DfOf(d, y)
           T == RarestOf(S, n, d)
<1>1. CASE Cardinality(S) <= n
  BY <1>1 DEF FirstOf, RarestOf, Kept
<1>2. CASE ~(Cardinality(S) <= n)
  <2> DEFINE a == [x \in S |-> 0]
             b == [x \in S |-> DfOf(d, x)]
  <2>1. a \in [S -> Int] /\ b \in [S -> Int]
    BY DEF DfOf
  <2>2. \A x, y \in S : Precedes(a, b, x, y) <=> rarer(x, y)
    BY DEF Precedes
  <2>3. \E V \in kSubset(n, S) : \A t \in V, u \in S \ V : ~Precedes(a, b, u, t)
    <3> HIDE DEF a, b
    <3>1. QED
      BY <1>2, <2>1, SomeAreFirst
  <2>4. \E V \in kSubset(n, S) : \A t \in V, u \in S \ V : ~rarer(u, t)
    BY <2>2, <2>3 DEF kSubset
  <2>5. T = CHOOSE V \in kSubset(n, S) : \A t \in V, u \in S \ V : ~rarer(u, t)
    BY <1>2 DEF FirstOf, RarestOf
  <2>6. T \in kSubset(n, S)
    BY <2>4, <2>5, Zenon
  <2>7. T \subseteq S
    BY <2>6, Zenon DEF kSubset
  <2> HIDE DEF T
  <2>8. Kept(S, n, T)
    BY <1>2, <2>7 DEF Kept
  <2>9. QED
    BY <2>8 DEF T
<1>3. QED
  BY <1>1, <1>2

(* The keys of f that are looked up, and the lists that are read *)

LEMMA SelectedAreKeys ==
    ASSUME NEW keys, IsFiniteSet(keys), NEW d, \A p \in DOMAIN d : d[p] \in Nat, NEW count
    PROVE  SelectedKeys(keys, d, count) \subseteq keys
<1>1. Kept(keys, MinKeys, RarestOf(keys, MinKeys, d))
  BY SimilarityViewsAssumption, RarestAreKept
<1>2. RarestOf(keys, MinKeys, d) \subseteq keys
  BY <1>1 DEF Kept
<1>3. SelectedKeys(keys, d, count) =
          IF count = 0 THEN {}
          ELSE IF Cardinality({k \in keys : DfOf(d, k) * 100 <= SkipPercent * count}) < MinKeys
          THEN RarestOf(keys, MinKeys, d)
          ELSE {k \in keys : DfOf(d, k) * 100 <= SkipPercent * count}
  BY DEF SelectedKeys, RarestOf
<1>4. QED
  BY <1>2, <1>3

LEMMA UsedAreSelected ==
    ASSUME NEW selected, IsFiniteSet(selected), NEW d, \A p \in DOMAIN d : d[p] \in Nat
    PROVE  KeysUsed(selected, d) \subseteq selected
<1> DEFINE n == (PostingBudget + PostingCap - 1) \div PostingCap
<1>1. n \in Nat
  <2>1. PostingBudget + PostingCap - 1 \in Nat /\ PostingCap \in Nat \ {0}
    BY SimilarityViewsAssumption
  <2>2. PICK m \in Nat, k \in Nat \ {0} : m = PostingBudget + PostingCap - 1 /\ k = PostingCap
    BY <2>1
  <2>3. m \div k \in Nat
    BY <2>2
  <2>4. QED
    BY <2>2, <2>3
<1>2. KeysUsed(selected, d) = RarestOf(selected, n, d)
  BY DEF KeysUsed, RarestOf
<1> HIDE DEF n
<1>3. QED
  BY <1>1, <1>2, RarestAreKept DEF Kept

LEMMA PostingsAreKept ==
    ASSUME NEW R, NEW P, P \subseteq Nat, NEW f, NEW d, IsFiniteSet(PostingList(R, P, f, d))
    PROVE  Kept(PostingList(R, P, f, d), PostingCap, Postings(R, P, f, d))
<1> DEFINE S == PostingList(R, P, f, d)
           T == Postings(R, P, f, d)
           before(x, y) == x[1] < y[1]
<1>1. T = IF Cardinality(S) <= PostingCap THEN S
          ELSE CHOOSE V \in kSubset(PostingCap, S) : \A t \in V, u \in S \ V : ~before(u, t)
  BY DEF Postings, FirstOf
<1>2. \A x \in S : x[1] \in Nat
  <2>1. ASSUME NEW x \in S PROVE x[1] \in P
    <3>1. PICK g \in P \ {f} : x \in {<<g, e.decl>> : e \in {e \in SubjectKeys(R, g) :
                                        e.question = d.question /\ e.key = d.key}}
      BY Zenon DEF PostingList
    <3>2. QED
      BY <3>1
  <2>2. QED
    BY <2>1
<1> HIDE DEF S, T
<1>3. IsFiniteSet(S)
  BY DEF S
<1>4. ASSUME Cardinality(S) <= PostingCap PROVE Kept(S, PostingCap, T)
  BY <1>1, <1>4 DEF Kept
<1>5. ASSUME ~(Cardinality(S) <= PostingCap) PROVE Kept(S, PostingCap, T)
  <2> DEFINE a == [x \in S |-> 0]
             b == [x \in S |-> x[1]]
  <2>1. a \in [S -> Int] /\ b \in [S -> Int]
    BY <1>2
  <2>2. \A x, y \in S : Precedes(a, b, x, y) <=> before(x, y)
    BY DEF Precedes
  <2>3. \E V \in kSubset(PostingCap, S) : \A t \in V, u \in S \ V : ~Precedes(a, b, u, t)
    <3> HIDE DEF a, b
    <3>1. PostingCap \in Nat
      BY SimilarityViewsAssumption
    <3>2. QED
      BY <1>3, <1>5, <2>1, <3>1, SomeAreFirst
  <2>4. \E V \in kSubset(PostingCap, S) : \A t \in V, u \in S \ V : ~before(u, t)
    BY <2>2, <2>3 DEF kSubset
  <2>5. T = CHOOSE V \in kSubset(PostingCap, S) : \A t \in V, u \in S \ V : ~before(u, t)
    BY <1>1, <1>5
  <2>6. T \in kSubset(PostingCap, S)
    BY <2>4, <2>5, Zenon
  <2>7. T \subseteq S
    BY <2>6, Zenon DEF kSubset
  <2>8. QED
    BY <1>5, <2>7 DEF Kept
<1>6. Kept(S, PostingCap, T)
  BY <1>4, <1>5, Zenon
<1>7. QED
  BY <1>6 DEF S, T

LEMMA PostingListsAreFinite ==
    ASSUME NEW R, \A g \in DOMAIN R : FiniteRow(R[g]), NEW P, IsFiniteSet(P), NEW f, NEW d
    PROVE  IsFiniteSet(PostingList(R, P, f, d))
<1> DEFINE same(g) == {e \in SubjectKeys(R, g) : e.question = d.question /\ e.key = d.key}
           posts == [g \in P \ {f} |-> {<<g, e.decl>> : e \in same(g)}]
<1>1. ASSUME NEW g \in P \ {f} PROVE IsFiniteSet(posts[g])
  <2>1. IsFiniteSet(SubjectKeys(R, g))
    <3>1. IsFiniteSet(FetchFipData(R, g).declarations)
      <4>1. CASE g \in DOMAIN R
        BY <4>1 DEF FiniteRow, FetchFipData, Data
      <4>2. CASE g \notin DOMAIN R
        BY <4>2, FS_EmptySet DEF FetchFipData
      <4>3. QED
        BY <4>1, <4>2
    <3>2. QED
      BY <3>1, FS_Subset DEF SubjectKeys
  <2>2. IsFiniteSet(same(g))
    BY <2>1, FS_Subset
  <2> DEFINE of == [e \in same(g) |-> <<g, e.decl>>]
  <2>3. posts[g] = {of[e] : e \in same(g)}
    BY <1>1
  <2> HIDE DEF of, same, posts
  <2>4. QED
    BY <2>2, <2>3, ImageFinite
<1>2. PostingList(R, P, f, d) = UNION {posts[g] : g \in P \ {f}}
  BY DEF PostingList
<1>3. IsFiniteSet(P \ {f})
  BY FS_Subset
<1> HIDE DEF posts
<1>4. IsFiniteSet({posts[g] : g \in P \ {f}})
  BY <1>3, ImageFinite
<1>5. QED
  BY <1>1, <1>2, <1>4, FS_UNION

(* The two orders of neighbours_view *)

HitsOf(R, P, f, used, g) ==
    SumFunction([d \in used |-> Cardinality({x \in Postings(R, P, f, d) : x[1] = g})])

RankedOf(R, P, f, used, S) ==
    LET more(g, h) == \/ HitsOf(R, P, f, used, g) > HitsOf(R, P, f, used, h)
                      \/ HitsOf(R, P, f, used, g) = HitsOf(R, P, f, used, h) /\ g < h
    IN  FirstOf(S, CandidateCap, more)

ClosestOf(S) ==
    LET closer(r, s) == r.similarity > s.similarity \/ (r.similarity = s.similarity /\ r.fip < s.fip)
    IN  FirstOf(S, NeighbourLimit, closer)

LEMMA RankedAreKept ==
    ASSUME NEW R, NEW P, NEW f, NEW used, NEW S, IsFiniteSet(S), S \subseteq Nat,
           \A g \in S : HitsOf(R, P, f, used, g) \in Nat
    PROVE  Kept(S, CandidateCap, RankedOf(R, P, f, used, S))
<1> DEFINE T == RankedOf(R, P, f, used, S)
           hits(g) == HitsOf(R, P, f, used, g)
           more(g, h) == \/ hits(g) > hits(h)
                         \/ hits(g) = hits(h) /\ g < h
<1>1. T = IF Cardinality(S) <= CandidateCap THEN S
          ELSE CHOOSE V \in kSubset(CandidateCap, S) : \A t \in V, u \in S \ V : ~more(u, t)
  BY DEF RankedOf, FirstOf
<1> HIDE DEF T
<1>2. ASSUME Cardinality(S) <= CandidateCap PROVE Kept(S, CandidateCap, T)
  BY <1>1, <1>2 DEF Kept
<1>3. ASSUME ~(Cardinality(S) <= CandidateCap) PROVE Kept(S, CandidateCap, T)
  <2> DEFINE a == [x \in S |-> hits(x)]
             b == [x \in S |-> x]
  <2>1. a \in [S -> Int] /\ b \in [S -> Int]
    OBVIOUS
  <2>2. \A x, y \in S : Precedes(a, b, x, y) <=> more(x, y)
    BY DEF Precedes
  <2>3. \E V \in kSubset(CandidateCap, S) : \A t \in V, u \in S \ V : ~Precedes(a, b, u, t)
    <3> HIDE DEF a, b
    <3>1. CandidateCap \in Nat
      BY SimilarityViewsAssumption
    <3>2. QED
      BY <1>3, <2>1, <3>1, SomeAreFirst
  <2>4. \E V \in kSubset(CandidateCap, S) : \A t \in V, u \in S \ V : ~more(u, t)
    <3> HIDE DEF more, a, b
    <3>1. QED
      BY <2>2, <2>3 DEF kSubset
  <2>5. T = CHOOSE V \in kSubset(CandidateCap, S) : \A t \in V, u \in S \ V : ~more(u, t)
    BY <1>1, <1>3
  <2>6. T \in kSubset(CandidateCap, S)
    <3> HIDE DEF more
    <3>1. QED
      BY <2>4, <2>5, Zenon
  <2>7. T \subseteq S
    BY <2>6, Zenon DEF kSubset
  <2>8. QED
    BY <1>3, <2>7 DEF Kept
<1>4. Kept(S, CandidateCap, T)
  BY <1>2, <1>3, Zenon
<1>5. QED
  BY <1>4 DEF T

LEMMA ClosestAreKept ==
    ASSUME NEW S, IsFiniteSet(S), \A r \in S : r.similarity \in Int /\ r.fip \in Int
    PROVE  Kept(S, NeighbourLimit, ClosestOf(S))
<1> DEFINE T == ClosestOf(S)
           closer(r, s) == r.similarity > s.similarity \/ (r.similarity = s.similarity /\ r.fip < s.fip)
<1>1. T = IF Cardinality(S) <= NeighbourLimit THEN S
          ELSE CHOOSE V \in kSubset(NeighbourLimit, S) : \A t \in V, u \in S \ V : ~closer(u, t)
  BY DEF ClosestOf, FirstOf
<1> HIDE DEF T
<1>2. ASSUME Cardinality(S) <= NeighbourLimit PROVE Kept(S, NeighbourLimit, T)
  BY <1>1, <1>2 DEF Kept
<1>3. ASSUME ~(Cardinality(S) <= NeighbourLimit) PROVE Kept(S, NeighbourLimit, T)
  <2> DEFINE a == [r \in S |-> r.similarity]
             b == [r \in S |-> r.fip]
  <2>1. a \in [S -> Int] /\ b \in [S -> Int]
    OBVIOUS
  <2>2. \A x, y \in S : Precedes(a, b, x, y) <=> closer(x, y)
    BY DEF Precedes
  <2>3. \E V \in kSubset(NeighbourLimit, S) : \A t \in V, u \in S \ V : ~Precedes(a, b, u, t)
    <3> HIDE DEF a, b
    <3>1. NeighbourLimit \in Nat
      BY SimilarityViewsAssumption
    <3>2. QED
      BY <1>3, <2>1, <3>1, SomeAreFirst
  <2>4. \E V \in kSubset(NeighbourLimit, S) : \A t \in V, u \in S \ V : ~closer(u, t)
    <3> HIDE DEF closer, a, b
    <3>1. QED
      BY <2>2, <2>3 DEF kSubset
  <2>5. T = CHOOSE V \in kSubset(NeighbourLimit, S) : \A t \in V, u \in S \ V : ~closer(u, t)
    BY <1>1, <1>3
  <2>6. T \in kSubset(NeighbourLimit, S)
    <3> HIDE DEF closer
    <3>1. QED
      BY <2>4, <2>5, Zenon
  <2>7. T \subseteq S
    BY <2>6, Zenon DEF kSubset
  <2>8. QED
    BY <1>3, <2>7 DEF Kept
<1>4. Kept(S, NeighbourLimit, T)
  BY <1>2, <1>3, Zenon
<1>5. QED
  BY <1>4 DEF T

(* A hit is a declaration in a list that is finite. *)
LEMMA HitsAreNat ==
    ASSUME NEW R, \A g \in DOMAIN R : FiniteRow(R[g]), NEW P, IsFiniteSet(P), P \subseteq Nat,
           NEW f, NEW used, IsFiniteSet(used), NEW g
    PROVE  HitsOf(R, P, f, used, g) \in Nat
<1> DEFINE lists == [d \in used |-> PostingList(R, P, f, d)]
           all == UNION {lists[d] : d \in used}
           hit == [d \in used |-> Cardinality({x \in Postings(R, P, f, d) : x[1] = g})]
<1>1. IsFiniteSet(all)
  <2>1. \A d \in used : IsFiniteSet(lists[d])
    BY PostingListsAreFinite
  <2> HIDE DEF lists
  <2>2. IsFiniteSet({lists[d] : d \in used})
    BY ImageFinite
  <2>3. QED
    BY <2>1, <2>2, FS_UNION
<1>2. ASSUME NEW d \in used PROVE hit[d] \in 0..Cardinality(all)
  <2>1. IsFiniteSet(PostingList(R, P, f, d))
    BY PostingListsAreFinite
  <2>2. Postings(R, P, f, d) \subseteq PostingList(R, P, f, d)
    BY <2>1, PostingsAreKept DEF Kept
  <2>3. lists[d] = PostingList(R, P, f, d)
    OBVIOUS
  <2> DEFINE H == {x \in Postings(R, P, f, d) : x[1] = g}
  <2>4. H \subseteq all
    BY <2>2, <2>3
  <2>5. hit[d] = Cardinality(H)
    OBVIOUS
  <2> HIDE DEF H, all, hit
  <2>6. IsFiniteSet(H) /\ Cardinality(H) <= Cardinality(all)
    BY <1>1, <2>4, FS_Subset
  <2>7. Cardinality(H) \in Nat /\ Cardinality(all) \in Nat
    BY <1>1, <2>6, FS_CardinalityType
  <2>8. QED
    BY <2>5, <2>6, <2>7
<1>3. HitsOf(R, P, f, used, g) = SumFunctionOnSet(hit, used)
  BY DEF HitsOf, SumFunction
<1>4. Cardinality(all) \in Nat
  BY <1>1, FS_CardinalityType
<1> HIDE DEF hit, all
<1>5. QED
  BY <1>2, <1>3, <1>4, SumBounds

(* The parts of neighbours_view *)

KeysAt(R, d, P, f) == SelectedKeys(SubjectKeys(R, f), d, Cardinality(P))

FoundBy(R, P, f, used) == UNION {{x[1] : x \in Postings(R, P, f, k)} : k \in used}

ScoreOf(R, f, g) == ScorePair(FetchFipData(R, f), FetchFipData(R, g), "current")

Entry(R, f, g) ==
    [fip |-> g, similarity |-> ScoreOf(R, f, g).overall["question"],
     sharedKeys |-> ScoreOf(R, f, g).sharedKeys]

SimilarOf(R, f, S) ==
    {Entry(R, f, g) : g \in {g \in S : ScoreOf(R, f, g).overall["question"] >= 0}}

LEMMA NeighboursAre ==
    ASSUME NEW R, NEW d, NEW P, NEW f
    PROVE  LET view     == Neighbours(R, d, P, f, "question", "current", 0)
               selected == KeysAt(R, d, P, f)
               used     == KeysUsed(selected, d)
           IN  /\ view.neighbours =
                      ClosestOf(SimilarOf(R, f, RankedOf(R, P, f, used, FoundBy(R, P, f, used))))
               /\ view.candidateBudgetExhausted = (Cardinality(used) < Cardinality(selected))
               /\ view.postingTruncated = PostingTruncated(used, d)
               /\ view.skippedPopularKeys =
                      {k.key : k \in {k \in SubjectKeys(R, f) : \A e \in selected :
                                         <<k.question, k.key>> # <<e.question, e.key>>}}
  BY DEF Neighbours, KeysAt, ClosestOf, SimilarOf, Entry, ScoreOf, RankedOf, HitsOf, FoundBy

LEMMA FetchedIsFinite ==
    ASSUME NEW R, \A g \in DOMAIN R : FiniteRow(R[g]), NEW f
    PROVE  FiniteRow(FetchFipData(R, f)) /\ IsFiniteSet(SubjectKeys(R, f))
<1>1. FiniteRow(FetchFipData(R, f))
  <2>1. CASE f \in DOMAIN R
    BY <2>1 DEF FiniteRow, FetchFipData, Data
  <2>2. CASE f \notin DOMAIN R
    BY <2>2, FS_EmptySet DEF FiniteRow, FetchFipData
  <2>3. QED
    BY <2>1, <2>2
<1>2. IsFiniteSet(FetchFipData(R, f).declarations)
  BY <1>1 DEF FiniteRow
<1>3. QED
  BY <1>1, <1>2, FS_Subset DEF SubjectKeys

LEMMA SimilarityIsInRange ==
    ASSUME NEW R, \A g \in DOMAIN R : FiniteRow(R[g]), NEW f, NEW g
    PROVE  ScoreOf(R, f, g).overall["question"] \in 0..Unit
<1> DEFINE a == FetchFipData(R, f)
           b == FetchFipData(R, g)
           score == ScorePair(a, b, "current").overall
<1>1. FiniteRow(a) /\ FiniteRow(b)
  BY FetchedIsFinite
<1>2. "question" \in DOMAIN score
  BY DEF ScorePair
<1>3. ScoreOf(R, f, g).overall = score
  BY DEF ScoreOf
<1> HIDE DEF a, b
<1>4. MeasureOK(a, b, "current")
  BY <1>1, Measured
<1>5. \A w \in DOMAIN score : score[w] \in 0..Unit
  BY <1>4, Zenon DEF MeasureOK
<1>6. QED
  BY <1>2, <1>3, <1>5

(* Those found share a key: it is in the list of one that f declares. *)
LEMMA FoundShare ==
    ASSUME NEW M, IsFiniteSet(M), M \subseteq Nat, NEW f, RowsInv, NEW used, used \subseteq SubjectKeys(rows, f)
    PROVE  FoundBy(rows, M, f, used) \subseteq Sharing(M, f)
<1> SUFFICES ASSUME NEW g \in FoundBy(rows, M, f, used) PROVE g \in Sharing(M, f)
  OBVIOUS
<1>1. PICK k \in used : g \in {x[1] : x \in Postings(rows, M, f, k)}
  BY DEF FoundBy
<1>2. Postings(rows, M, f, k) \subseteq PostingList(rows, M, f, k)
  <2>1. IsFiniteSet(PostingList(rows, M, f, k))
    BY PostingListsAreFinite DEF RowsInv
  <2>2. QED
    BY <2>1, PostingsAreKept DEF Kept
<1>3. PICK x \in PostingList(rows, M, f, k) : g = x[1]
  BY <1>1, <1>2
<1>4. PICK h \in M \ {f} : x \in {<<h, e.decl>> : e \in {e \in SubjectKeys(rows, h) :
                                    e.question = k.question /\ e.key = k.key}}
  BY Zenon DEF PostingList
<1>5. PICK e \in SubjectKeys(rows, h) : x = <<h, e.decl>> /\ e.question = k.question /\ e.key = k.key
  BY <1>4
<1>6. g = h
  BY <1>3, <1>5
<1>7. <<k.question, k.key>> \in CurrentPairs(FetchFipData(rows, f).declarations)
  BY <1>1 DEF SubjectKeys, CurrentPairs
<1>8. <<e.question, e.key>> \in CurrentPairs(FetchFipData(rows, h).declarations)
  BY <1>5 DEF SubjectKeys, CurrentPairs
<1>9. QED
  BY <1>4, <1>5, <1>6, <1>7, <1>8 DEF Sharing

(* A key of f whose list is not cut off leads to all that share it. *)
LEMMA SharersAreFound ==
    ASSUME NEW M, IsFiniteSet(M), M \subseteq Nat, NEW f, RowsInv, DfInv,
           NEW used, used \subseteq SubjectKeys(rows, f),
           ~PostingTruncated(used, df), ~CutByRepeats(M, f),
           NEW g \in M \ {f}, NEW k \in used,
           <<k.question, k.key>> \in CurrentPairs(FetchFipData(rows, g).declarations)
    PROVE  g \in FoundBy(rows, M, f, used)
<1> DEFINE p == <<k.question, k.key>>
           list == PostingList(rows, M, f, k)
<1>1. DfRight(df, rows)
  BY DfCountsRowsIs DEF DfInv
<1>2. f \in DOMAIN rows /\ p \in CurrentPairs(rows[f].declarations)
  BY DEF SubjectKeys, FetchFipData, CurrentPairs, Data
<1>3. f \in Counted(rows, p)
  BY <1>2 DEF Counted
<1>4. p \in DOMAIN df /\ df[p] = Cardinality(Counted(rows, p))
  BY <1>1, <1>3 DEF DfRight
<1>5. DfOf(df, k) = Cardinality(Counted(rows, p))
  BY <1>4 DEF DfOf
<1>6. Cardinality(Counted(rows, p)) \in Nat
  BY <1>4 DEF DfInv
<1>7. PostingCap \in Nat
  BY SimilarityViewsAssumption
<1>8. Cardinality(Counted(rows, p)) <= PostingCap
  BY <1>5, <1>6, <1>7 DEF PostingTruncated
<1>9. IsFiniteSet(list) /\ Cardinality(list) \in Nat
  <2>1. IsFiniteSet(list)
    BY PostingListsAreFinite DEF RowsInv
  <2>2. QED
    BY <2>1, FS_CardinalityType
<1>10. Cardinality(list) <= PostingCap
  <2>1. ~(Cardinality(list) > PostingCap)
    BY <1>8 DEF CutByRepeats, Counted
  <2>2. QED
    BY <1>7, <1>9, <2>1
<1>11. Postings(rows, M, f, k) = list
  BY <1>9, <1>10, PostingsAreKept DEF Kept
<1>12. PICK e \in SubjectKeys(rows, g) : e.question = k.question /\ e.key = k.key
  BY DEF SubjectKeys, CurrentPairs
<1>13. <<g, e.decl>> \in list
  <2> DEFINE of(h) == {<<h, x.decl>> : x \in {x \in SubjectKeys(rows, h) :
                            x.question = k.question /\ x.key = k.key}}
  <2>1. <<g, e.decl>> \in of(g)
    BY <1>12
  <2>2. list = UNION {of(h) : h \in M \ {f}}
    BY DEF PostingList
  <2> HIDE DEF of, list
  <2>3. QED
    BY <2>1, <2>2
<1>14. g \in {x[1] : x \in Postings(rows, M, f, k)}
  <2> HIDE DEF list
  <2>1. <<g, e.decl>>[1] = g
    OBVIOUS
  <2>2. QED
    BY <1>11, <1>13, <2>1
<1>15. QED
  BY <1>14, Zenon DEF FoundBy

NeighboursOK(M, f) ==
    LET view  == Neighbours(rows, df, M, f, "question", "current", 0)
        named == {n.fip : n \in view.neighbours}
    IN  /\ named \subseteq Sharing(M, f)
        /\ \/ view.candidateBudgetExhausted \/ view.postingTruncated
           \/ view.skippedPopularKeys # {} \/ CutByRepeats(M, f)
           \/ Cardinality(Sharing(M, f)) > Min({CandidateCap, NeighbourLimit})
           \/ named = Sharing(M, f)

LEMMA NeighboursRight ==
    ASSUME NEW M, IsFiniteSet(M), M \subseteq Nat, NEW f \in M, RowsInv, DfInv
    PROVE  NeighboursOK(M, f)
<1>1. PICK view : view = Neighbours(rows, df, M, f, "question", "current", 0)
  OBVIOUS
<1>2. PICK selected : selected = KeysAt(rows, df, M, f)
  OBVIOUS
<1>3. PICK used : used = KeysUsed(selected, df)
  OBVIOUS
<1>4. PICK found : found = FoundBy(rows, M, f, used)
  OBVIOUS
<1>5. PICK ranked : ranked = RankedOf(rows, M, f, used, found)
  OBVIOUS
<1>6. PICK similar : similar = SimilarOf(rows, f, ranked)
  OBVIOUS
<1>7. /\ view.neighbours = ClosestOf(similar)
      /\ view.candidateBudgetExhausted = (Cardinality(used) < Cardinality(selected))
      /\ view.postingTruncated = PostingTruncated(used, df)
      /\ view.skippedPopularKeys =
             {k.key : k \in {k \in SubjectKeys(rows, f) : \A e \in selected :
                                <<k.question, k.key>> # <<e.question, e.key>>}}
  BY <1>1, <1>2, <1>3, <1>4, <1>5, <1>6, NeighboursAre
<1>8. \A g \in DOMAIN rows : FiniteRow(rows[g])
  BY DEF RowsInv
<1>9. \A p \in DOMAIN df : df[p] \in Nat
  BY DEF DfInv
<1>10. selected \subseteq SubjectKeys(rows, f) /\ IsFiniteSet(selected)
  <2>1. IsFiniteSet(SubjectKeys(rows, f))
    BY <1>8, FetchedIsFinite
  <2>2. selected \subseteq SubjectKeys(rows, f)
    BY <1>2, <1>9, <2>1, SelectedAreKeys DEF KeysAt
  <2>3. QED
    BY <2>1, <2>2, FS_Subset
<1>11. used \subseteq selected /\ IsFiniteSet(used)
  <2>1. used \subseteq selected
    BY <1>3, <1>9, <1>10, UsedAreSelected
  <2>2. QED
    BY <1>10, <2>1, FS_Subset
<1>12. found \subseteq Sharing(M, f)
  BY <1>4, <1>10, <1>11, FoundShare
<1>13. found \subseteq Nat /\ IsFiniteSet(found) /\ Sharing(M, f) \subseteq M
  <2>1. Sharing(M, f) \subseteq M
    BY DEF Sharing
  <2>2. QED
    BY <1>12, <2>1, FS_Subset
<1>14. Kept(found, CandidateCap, ranked)
  <2>1. \A g \in found : HitsOf(rows, M, f, used, g) \in Nat
    BY <1>8, <1>11, HitsAreNat
  <2>2. QED
    BY <1>5, <1>13, <2>1, RankedAreKept
<1>15. IsFiniteSet(ranked) /\ ranked \subseteq found
  BY <1>13, <1>14, FS_Subset DEF Kept
<1>16. \A g : ScoreOf(rows, f, g).overall["question"] \in 0..Unit
  BY <1>8, SimilarityIsInRange
<1>17. similar = {Entry(rows, f, g) : g \in ranked}
  BY <1>6, <1>16 DEF SimilarOf
<1>18. IsFiniteSet(similar) /\ Cardinality(similar) <= Cardinality(ranked)
  <2> DEFINE entry == [g \in ranked |-> Entry(rows, f, g)]
  <2>1. similar = {entry[g] : g \in ranked}
    BY <1>17
  <2> HIDE DEF entry
  <2>2. QED
    BY <1>15, <2>1, ImageFinite, ImageCardinality
<1>19. Kept(similar, NeighbourLimit, view.neighbours)
  <2>1. \A r \in similar : r.similarity \in Int /\ r.fip \in Int
    BY <1>13, <1>15, <1>16, <1>17, SimilarityAssumption DEF Entry
  <2>2. QED
    BY <1>7, <1>18, <2>1, ClosestAreKept
<1> DEFINE named == {n.fip : n \in view.neighbours}
<1>20. {r.fip : r \in similar} = ranked
  <2>1. \A g : Entry(rows, f, g).fip = g
    BY DEF Entry
  <2>2. QED
    BY <1>17, <2>1
<1>21. named \subseteq Sharing(M, f)
  BY <1>12, <1>15, <1>19, <1>20 DEF Kept
<1>22. ASSUME ~view.candidateBudgetExhausted, ~view.postingTruncated, view.skippedPopularKeys = {},
              ~CutByRepeats(M, f), ~(Cardinality(Sharing(M, f)) > Min({CandidateCap, NeighbourLimit}))
       PROVE  named = Sharing(M, f)
  <2>1. used = selected
    <3>1. ~(Cardinality(used) < Cardinality(selected))
      BY <1>7, <1>22
    <3>2. Cardinality(used) <= Cardinality(selected) /\ (Cardinality(used) = Cardinality(selected) => used = selected)
      BY <1>10, <1>11, FS_Subset
    <3>3. Cardinality(used) \in Nat /\ Cardinality(selected) \in Nat
      BY <1>10, <1>11, FS_CardinalityType
    <3>4. QED
      BY <3>1, <3>2, <3>3
  <2>2. Sharing(M, f) \subseteq found
    <3> SUFFICES ASSUME NEW g \in Sharing(M, f) PROVE g \in found
      OBVIOUS
    <3>1. PICK p \in CurrentPairs(FetchFipData(rows, f).declarations) :
                 p \in CurrentPairs(FetchFipData(rows, g).declarations)
      BY DEF Sharing
    <3>2. PICK k \in SubjectKeys(rows, f) : p = <<k.question, k.key>>
      BY DEF CurrentPairs, SubjectKeys
    <3>3. ~ \A e \in selected : <<k.question, k.key>> # <<e.question, e.key>>
      BY <1>7, <1>22
    <3>4. PICK e \in selected : <<e.question, e.key>> = p
      BY <3>2, <3>3
    <3>5. g \in M \ {f} /\ e \in used
      BY <2>1, <3>4 DEF Sharing
    <3>6. ~PostingTruncated(used, df)
      BY <1>7, <1>22
    <3>7. <<e.question, e.key>> \in CurrentPairs(FetchFipData(rows, g).declarations)
      BY <3>1, <3>4
    <3>8. QED
      BY <1>4, <1>10, <1>11, <1>22, <3>5, <3>6, <3>7, SharersAreFound
  <2>3. found = Sharing(M, f)
    BY <1>12, <2>2
  <2>4. Cardinality(found) <= CandidateCap /\ Cardinality(found) <= NeighbourLimit
    <3>1. CandidateCap \in Nat /\ NeighbourLimit \in Nat /\ Cardinality(found) \in Nat
      BY <1>13, FS_CardinalityType, SimilarityViewsAssumption
    <3>2. Min({CandidateCap, NeighbourLimit}) <= CandidateCap
          /\ Min({CandidateCap, NeighbourLimit}) <= NeighbourLimit
          /\ Min({CandidateCap, NeighbourLimit}) \in Nat
      BY <3>1 DEF Min
    <3>3. ~(Cardinality(found) > Min({CandidateCap, NeighbourLimit}))
      BY <1>22, <2>3
    <3>4. QED
      BY <3>1, <3>2, <3>3
  <2>5. ranked = found
    BY <1>14, <2>4 DEF Kept
  <2>6. Cardinality(similar) <= NeighbourLimit
    <3>1. Cardinality(similar) \in Nat /\ Cardinality(found) \in Nat /\ NeighbourLimit \in Nat
      BY <1>13, <1>18, FS_CardinalityType, SimilarityViewsAssumption
    <3>2. QED
      BY <1>18, <2>4, <2>5, <3>1
  <2>7. view.neighbours = similar
    BY <1>19, <2>6 DEF Kept
  <2>8. QED
    BY <1>20, <2>3, <2>5, <2>7
<1> HIDE DEF named
<1>23. NeighboursOK(M, f)
  <2>1. named = {n.fip : n \in view.neighbours}
    BY DEF named
  <2>2. QED
    BY <1>1, <1>21, <1>22, <2>1, Zenon DEF NeighboursOK
<1>24. QED
  BY <1>23

(* Whatever the caps, the population, and the deletions and edits that     *)
(* went past the projection: no neighbour is named that shares nothing,    *)
(* and none is missing unmentioned, except where declarations of one       *)
(* resource are repeated at one question.                                  *)
THEOREM DSpec_NeighboursComplete == DSpec => []NeighboursComplete
<1>1. RowsInv /\ DfInv => NeighboursComplete
  <2> SUFFICES ASSUME RowsInv, DfInv, NEW M \in Resolved, NEW f \in M PROVE NeighboursOK(M, f)
    BY Zenon DEF NeighboursComplete, NeighboursOK
  <2>1. PICK population \in Populations : M = population \cap (DOMAIN fips \cup DOMAIN network)
    BY DEF Resolved, MembersOf
  <2>2. M \subseteq Nat
    BY <2>1, DataAssumption
  <2>3. IsFiniteSet(M)
    <3>1. IsFiniteSet(DOMAIN fips) /\ IsFiniteSet(DOMAIN network)
      BY DEF DfInv, RowsInv
    <3>2. IsFiniteSet(DOMAIN fips \cup DOMAIN network)
      BY <3>1, FS_Union
    <3>3. QED
      BY <2>1, <3>2, FS_Subset
  <2>4. QED
    BY <2>2, <2>3, NeighboursRight
<1>2. QED
  BY <1>1, RowsInit, RowsNext, DfInit, DfNext, PTL DEF DSpec

-----------------------------------------------------------------------------
(* The clusters: what the union-find keeps *)

(* A forest over a set of nodes: the ranks grow towards the roots. *)
RootStep(u, g, n) == IF u.parent[n] = n THEN n ELSE g[u.parent[n]]

Roots(u) == CHOOSE g : g = [n \in DOMAIN u.parent |-> RootStep(u, g, n)]

Ranked(u, all) ==
    /\ u = [parent |-> u.parent, rank |-> u.rank]
    /\ u.parent \in [all -> all] /\ u.rank \in [all -> Nat]
    /\ \A x \in all : u.parent[x] # x => u.rank[x] < u.rank[u.parent[x]]

Rooted(u, all, g) ==
    /\ g \in [all -> all]
    /\ \A n \in all : g[n] = RootStep(u, g, n) /\ u.parent[g[n]] = g[n]

Forest(u, all) == Ranked(u, all) /\ Rooted(u, all, Roots(u))

LEMMA RootIs ==
    ASSUME NEW u, NEW x
    PROVE  Root(u, x) = Roots(u)[x]
  BY DEF Root, Roots, RootStep

(* There is one way to follow the parents. *)
LEMMA RootsAre ==
    ASSUME NEW all, IsFiniteSet(all), NEW u, Ranked(u, all), NEW g, Rooted(u, all, g)
    PROVE  Roots(u) = g
<1> DEFINE h == Roots(u)
<1>1. g = [n \in all |-> RootStep(u, g, n)]
  BY DEF Rooted
<1>2. DOMAIN u.parent = all
  BY DEF Ranked
<1>3. h = [n \in all |-> RootStep(u, h, n)]
  BY <1>1, <1>2, Zenon DEF Roots
<1> HIDE DEF h
<1>4. \A n \in all : h[n] = RootStep(u, h, n)
  BY <1>3
<1>5. \A n \in all : g[n] = RootStep(u, g, n)
  BY DEF Rooted
<1>6. ASSUME NEW n \in all, g[n] # h[n] PROVE FALSE
  <2> DEFINE S == {x \in all : g[x] # h[x]}
             Less == {p \in S \X S : u.rank[p[1]] > u.rank[p[2]]}
  <2>1. IsFiniteSet(S) /\ S # {}
    BY <1>6, FS_Subset
  <2>2. \A x, y \in S : <<x, y>> \in Less <=> u.rank[x] > u.rank[y]
    OBVIOUS
  <2>3. \A x \in S : u.rank[x] \in Nat
    BY DEF Ranked
  <2> HIDE DEF Less
  <2>4. StrictOrder(Less, S)
    BY <2>2, <2>3 DEF StrictOrder
  <2>5. PICK m \in S : \A y \in S : <<y, m>> \notin Less
    <3> HIDE DEF S
    <3>1. QED
      BY <2>1, <2>4, LeastExists
  <2>6. u.parent[m] # m /\ u.parent[m] \in S
    BY <1>4, <1>5, <2>5 DEF RootStep, Ranked
  <2>7. u.rank[u.parent[m]] > u.rank[m]
    BY <2>6 DEF Ranked
  <2>8. QED
    BY <2>2, <2>5, <2>6, <2>7
<1>7. h = g
  BY <1>1, <1>3, <1>6
<1>8. QED
  BY <1>7 DEF h

LEMMA SingletonsAreForest ==
    ASSUME NEW all, IsFiniteSet(all)
    PROVE  Forest(Singletons(all), all) /\ Roots(Singletons(all)) = [n \in all |-> n]
<1> DEFINE u == Singletons(all)
           g == [n \in all |-> n]
<1>1. Ranked(u, all)
  BY DEF Singletons, Ranked
<1>2. Rooted(u, all, g)
  BY DEF Singletons, Rooted, RootStep
<1> HIDE DEF u, g
<1>3. Roots(u) = g
  BY <1>1, <1>2, RootsAre
<1>4. QED
  BY <1>1, <1>2, <1>3 DEF Forest, u, g

(* Two trees become one, and no other does. *)
Joined(r, r2, all, x, y) ==
    \A a, b \in all : r2[a] = r2[b] <=> (r[a] = r[b] \/ {r[a], r[b]} \subseteq {r[x], r[y]})

LEMMA UnionJoins ==
    ASSUME NEW all, IsFiniteSet(all), NEW u, Forest(u, all), NEW x \in all, NEW y \in all
    PROVE  Forest(Union(u, x, y), all) /\ Joined(Roots(u), Roots(Union(u, x, y)), all, x, y)
<1>1. PICK r : r = Roots(u)
  OBVIOUS
<1>2. Root(u, x) = r[x] /\ Root(u, y) = r[y]
  BY <1>1, RootIs
<1>3. Ranked(u, all) /\ Rooted(u, all, r)
  BY <1>1 DEF Forest
<1>4. CASE r[x] = r[y]
  <2>1. Union(u, x, y) = u
    BY <1>2, <1>4 DEF Union
  <2>2. Joined(r, r, all, x, y)
    BY <1>4 DEF Joined
  <2>3. QED
    BY <1>1, <2>1, <2>2
<1>5. CASE r[x] # r[y]
  <2>1. PICK high, low : /\ high = IF u.rank[r[x]] < u.rank[r[y]] THEN r[y] ELSE r[x]
                         /\ low = IF u.rank[r[x]] < u.rank[r[y]] THEN r[x] ELSE r[y]
    OBVIOUS
  <2> DEFINE u2 == [parent |-> [u.parent EXCEPT ![low] = high],
                    rank |-> [u.rank EXCEPT ![high] = IF u.rank[r[x]] = u.rank[r[y]] THEN @ + 1 ELSE @]]
             g == [n \in all |-> IF r[n] = low THEN high ELSE r[n]]
  <2>2. Union(u, x, y) = u2
    BY <1>2, <1>5, <2>1 DEF Union
  <2>3. /\ high \in all /\ low \in all /\ high # low /\ {high, low} = {r[x], r[y]}
        /\ u.parent[high] = high /\ u.parent[low] = low /\ r[high] = high /\ r[low] = low
    BY <1>3, <1>5, <2>1 DEF Rooted, RootStep
  <2>4. u.rank[low] \in Nat /\ u.rank[high] \in Nat /\ u.rank[low] <= u.rank[high]
        /\ (u.rank[r[x]] = u.rank[r[y]] <=> u.rank[low] = u.rank[high])
    BY <1>3, <2>1, <2>3 DEF Ranked, Rooted
  <2>5. Ranked(u2, all)
    <3>1. u2.parent \in [all -> all] /\ u2.rank \in [all -> Nat]
      BY <1>3, <2>3, <2>4 DEF Ranked
    <3>2. ASSUME NEW n \in all, u2.parent[n] # n PROVE u2.rank[n] < u2.rank[u2.parent[n]]
      <4>1. CASE n = low
        BY <1>3, <2>3, <2>4, <4>1 DEF Ranked
      <4>2. CASE n # low
        <5>1. u2.parent[n] = u.parent[n] /\ n # high /\ u2.rank[n] = u.rank[n]
          BY <1>3, <2>3, <3>2, <4>2 DEF Ranked
        <5>2. u.rank[n] < u.rank[u.parent[n]] /\ u.parent[n] \in all
          BY <1>3, <3>2, <5>1 DEF Ranked
        <5>3. u2.rank[u.parent[n]] >= u.rank[u.parent[n]]
          BY <1>3, <2>3, <2>4, <5>2 DEF Ranked
        <5>4. u.rank[n] \in Nat /\ u.rank[u.parent[n]] \in Nat /\ u2.rank[u.parent[n]] \in Nat
          BY <1>3, <3>1, <5>2 DEF Ranked
        <5> HIDE DEF u2
        <5>5. QED
          BY <5>1, <5>2, <5>3, <5>4
      <4>3. QED
        BY <4>1, <4>2
    <3>3. u2 = [parent |-> u2.parent, rank |-> u2.rank]
      OBVIOUS
    <3> HIDE DEF u2
    <3>4. QED
      BY <3>1, <3>2, <3>3 DEF Ranked
  <2>6. Rooted(u2, all, g)
    <3>1. g \in [all -> all]
      BY <1>3, <2>3 DEF Rooted
    <3>2. ASSUME NEW n \in all PROVE u2.parent[n] = IF n = low THEN high ELSE u.parent[n]
      BY <1>3 DEF Ranked
    <3>3. ASSUME NEW n \in all PROVE g[n] = RootStep(u2, g, n) /\ u2.parent[g[n]] = g[n]
      <4>1. /\ r[n] \in all /\ u.parent[r[n]] = r[n] /\ u.parent[n] \in all
            /\ r[n] = IF u.parent[n] = n THEN n ELSE r[u.parent[n]]
        BY <1>3 DEF Rooted, RootStep, Ranked
      <4>2. g[n] = IF r[n] = low THEN high ELSE r[n]
        OBVIOUS
      <4>3. g[u.parent[n]] = IF r[u.parent[n]] = low THEN high ELSE r[u.parent[n]]
        BY <4>1
      <4>4. g[high] = high
        BY <2>3
      <4>5. g[n] \in all /\ g[n] # low
        BY <2>3, <4>1, <4>2
      <4>6. u2.parent[g[n]] = u.parent[g[n]]
        BY <3>2, <4>5
      <4>7. u.parent[g[n]] = g[n]
        BY <2>3, <4>1, <4>2
      <4>8. CASE n = low
        BY <2>3, <3>2, <4>1, <4>2, <4>4, <4>6, <4>7, <4>8 DEF RootStep
      <4>9. CASE n # low
        <5>1. u2.parent[n] = u.parent[n]
          BY <3>2, <4>9
        <5> HIDE DEF u2, g
        <5>2. RootStep(u2, g, n) = IF u.parent[n] = n THEN n ELSE g[u.parent[n]]
          BY <5>1 DEF RootStep
        <5>3. QED
          BY <4>1, <4>2, <4>3, <4>6, <4>7, <4>9, <5>2
      <4>10. QED
        BY <4>8, <4>9
    <3> HIDE DEF u2, g
    <3>4. QED
      BY <3>1, <3>3 DEF Rooted
  <2>7. Joined(r, g, all, x, y)
    BY <2>3 DEF Joined
  <2> HIDE DEF u2, g
  <2>8. Roots(u2) = g
    BY <2>5, <2>6, RootsAre
  <2>9. QED
    BY <1>1, <2>2, <2>5, <2>6, <2>7, <2>8 DEF Forest
<1>6. QED
  BY <1>4, <1>5

(* The edges are taken one by one: their ends get one root, and two nodes  *)
(* that have one root are in the same closed sets.                         *)
Linked(r, s, all) ==
    /\ \A e \in s : r[e[1]] = r[e[2]]
    /\ \A a, b \in all : r[a] = r[b] => \A m \in SUBSET all : Closed(s, m) => (a \in m <=> b \in m)

LEMMA LinkedByJoining ==
    ASSUME NEW all, NEW E \in SUBSET (all \X all), NEW s \in SUBSET E, NEW e \in s,
           NEW r, Linked(r, s \ {e}, all), NEW r2, Joined(r, r2, all, e[1], e[2])
    PROVE  Linked(r2, s, all)
<1>1. e[1] \in all /\ e[2] \in all
  OBVIOUS
<1>2. ASSUME NEW d \in s PROVE r2[d[1]] = r2[d[2]]
  <2>1. d[1] \in all /\ d[2] \in all
    OBVIOUS
  <2>2. CASE d = e
    BY <1>1, <2>2 DEF Joined
  <2>3. CASE d # e
    BY <2>1, <2>3 DEF Joined, Linked
  <2>4. QED
    BY <2>2, <2>3
<1>3. ASSUME NEW a \in all, NEW b \in all, r2[a] = r2[b], NEW m \in SUBSET all, Closed(s, m)
      PROVE  a \in m <=> b \in m
  <2>1. Closed(s \ {e}, m) /\ (e[1] \in m <=> e[2] \in m)
    BY <1>3 DEF Closed
  <2>2. \A x, y \in all : r[x] = r[y] => (x \in m <=> y \in m)
    BY <2>1 DEF Linked
  <2>3. r[a] = r[b] \/ {r[a], r[b]} \subseteq {r[e[1]], r[e[2]]}
    BY <1>3 DEF Joined
  <2>4. QED
    BY <1>1, <2>1, <2>2, <2>3
<1>4. QED
  BY <1>2, <1>3 DEF Linked

UnionStep(base, g, s) ==
    IF s = {} THEN base ELSE LET e == CHOOSE d \in s : TRUE IN Union(g[s \ {e}], e[1], e[2])

UnionBy(base, E) == CHOOSE g : g = [s \in SUBSET E |-> UnionStep(base, g, s)]

IsUnion(base, E, g) == \A s \in SUBSET E : g[s] = UnionStep(base, g, s)

Forests(all) == {u \in [parent : [all -> all], rank : [all -> Nat]] : Forest(u, all)}

LEMMA UnionDefined ==
    ASSUME NEW all, IsFiniteSet(all), NEW E \in SUBSET (all \X all), NEW base, Forest(base, all)
    PROVE  IsUnion(base, E, UnionBy(base, E))
<1> DEFINE D == Forests(all)
           step == [p \in E \X D |-> Union(p[2], p[1][1], p[1][2])]
<1>1. \A u : u \in D <=> Forest(u, all)
  BY DEF Forests, Forest, Ranked
<1>2. IsFiniteSet(E)
  <2>1. IsFiniteSet(all \X all)
    BY FS_Product
  <2>2. QED
    BY <2>1, FS_Subset
<1> HIDE DEF D
<1>3. step \in [E \X D -> D]
  <2>1. ASSUME NEW e \in E, NEW u \in D PROVE Union(u, e[1], e[2]) \in D
    <3>1. e[1] \in all /\ e[2] \in all /\ Forest(u, all)
      BY <1>1
    <3>2. Forest(Union(u, e[1], e[2]), all)
      BY <3>1, UnionJoins
    <3>3. QED
      BY <1>1, <3>2
  <2>2. QED
    BY <2>1
<1>4. PICK h : IsFold(E, D, base, step, h)
  <2> HIDE DEF step
  <2>1. QED
    BY <1>1, <1>2, <1>3, FoldExists
<1>5. h \in [SUBSET E -> D] /\ \A s \in SUBSET E : h[s] = FoldStep(base, step, h, s)
  BY <1>4 DEF IsFold
<1>6. ASSUME NEW s \in SUBSET E PROVE FoldStep(base, step, h, s) = UnionStep(base, h, s)
  <2>1. CASE s = {}
    BY <2>1 DEF FoldStep, UnionStep
  <2>2. CASE s # {}
    <3> DEFINE x == CHOOSE y \in s : TRUE
    <3>1. x \in s
      BY <2>2
    <3>2. FoldStep(base, step, h, s) = step[<<x, h[s \ {x}]>>]
      BY <2>2 DEF FoldStep
    <3>3. UnionStep(base, h, s) = Union(h[s \ {x}], x[1], x[2])
      BY <2>2 DEF UnionStep
    <3> HIDE DEF x
    <3>4. s \ {x} \in SUBSET E /\ x \in E
      BY <3>1
    <3>5. <<x, h[s \ {x}]>> \in E \X D
      BY <1>5, <3>4
    <3>6. QED
      BY <3>2, <3>3, <3>5
  <2>3. QED
    BY <2>1, <2>2
<1> HIDE DEF step
<1>7. h = [s \in SUBSET E |-> h[s]] /\ \A s \in SUBSET E : h[s] = UnionStep(base, h, s)
  BY <1>5, <1>6
<1>8. h = [s \in SUBSET E |-> UnionStep(base, h, s)]
  BY <1>7
<1>9. UnionBy(base, E) = [s \in SUBSET E |-> UnionStep(base, UnionBy(base, E), s)]
  BY <1>8, Zenon DEF UnionBy
<1>10. QED
  BY <1>9 DEF IsUnion

LEMMA UnionLinks ==
    ASSUME NEW all, IsFiniteSet(all), NEW E \in SUBSET (all \X all),
           NEW u, u = UnionBy(Singletons(all), E)[E]
    PROVE  Forest(u, all) /\ Linked(Roots(u), E, all)
<1> DEFINE base == Singletons(all)
           g == UnionBy(base, E)
           G == {s \in SUBSET E : Forest(g[s], all) /\ Linked(Roots(g[s]), s, all)}
<1>1. Forest(base, all) /\ Roots(base) = [n \in all |-> n]
  BY SingletonsAreForest
<1> HIDE DEF base
<1>2. \A s \in SUBSET E : g[s] = UnionStep(base, g, s)
  <2>1. IsUnion(base, E, g)
    BY <1>1, UnionDefined
  <2>2. QED
    BY <2>1 DEF IsUnion
<1> HIDE DEF g
<1>3. IsFiniteSet(E)
  <2>1. IsFiniteSet(all \X all)
    BY FS_Product
  <2>2. QED
    BY <2>1, FS_Subset
<1>4. {} \in G
  <2>1. g[{}] = base
    BY <1>2 DEF UnionStep
  <2>2. Linked(Roots(base), {}, all)
    BY <1>1 DEF Linked
  <2>3. QED
    BY <1>1, <2>1, <2>2
<1>5. ASSUME NEW s \in SUBSET E, s # {}, \A x \in s : s \ {x} \in G PROVE s \in G
  <2> DEFINE e == CHOOSE d \in s : TRUE
             v == g[s \ {e}]
  <2>1. e \in s
    BY <1>5
  <2>2. g[s] = Union(v, e[1], e[2])
    BY <1>2, <1>5 DEF UnionStep
  <2> HIDE DEF e
  <2>3. e[1] \in all /\ e[2] \in all
    BY <2>1
  <2>4. Forest(v, all) /\ Linked(Roots(v), s \ {e}, all)
    BY <1>5, <2>1
  <2> HIDE DEF v, G
  <2>5. Forest(g[s], all) /\ Joined(Roots(v), Roots(g[s]), all, e[1], e[2])
    BY <2>2, <2>3, <2>4, UnionJoins
  <2>6. Linked(Roots(g[s]), s, all)
    BY <2>1, <2>4, <2>5, LinkedByJoining
  <2>7. QED
    BY <2>5, <2>6 DEF G
<1> HIDE DEF G
<1>6. E \in G
  BY <1>3, <1>4, <1>5, SubsetInduction
<1>7. QED
  BY <1>6 DEF G, g, base

(* The union-find computes the connected components. *)
LEMMA ClustersAreMinimal ==
    ASSUME NEW all, IsFiniteSet(all), NEW E \in SUBSET (all \X all)
    PROVE  ClusterEdges(all, E) = Components(all, E)
<1> DEFINE ends == all \cup {e[1] : e \in E} \cup {e[2] : e \in E}
           ufOf(S) == UnionBy(Singletons(S), E)[E]
           classes(S) == {{n \in S : Root(ufOf(S), n) = t} : t \in {Root(ufOf(S), n) : n \in S}}
<1>1. ClusterEdges(all, E) = classes(ends)
  BY DEF ClusterEdges, FoldSet, MapThenFoldSet, UnionBy, UnionStep
<1>2. PICK u : u = ufOf(all)
  OBVIOUS
<1>3. PICK r : r = Roots(u)
  OBVIOUS
<1>4. Linked(r, E, all)
  BY <1>2, <1>3, UnionLinks
<1>5. \A x : Root(u, x) = r[x]
  BY <1>3, RootIs
<1>6. ends = all
  OBVIOUS
<1> DEFINE class(t) == {n \in all : r[n] = t}
<1>7. ClusterEdges(all, E) = {class(t) : t \in {r[n] : n \in all}}
  <2> HIDE DEF ends
  <2>1. ClusterEdges(all, E) = classes(all)
    BY <1>1, <1>6
  <2> HIDE DEF ufOf
  <2>2. QED
    BY <1>2, <1>5, <2>1
<1>8. \A t : class(t) \in SUBSET all /\ Closed(E, class(t))
  BY <1>4 DEF Linked, Closed
<1>9. ASSUME NEW x \in all, NEW m \in SUBSET all, Closed(E, m), x \in m
      PROVE  class(r[x]) \subseteq m
  BY <1>4, <1>9 DEF Linked
<1>10. ASSUME NEW n \in all PROVE class(r[n]) \in Components(all, E)
  <2>1. n \in class(r[n])
    OBVIOUS
  <2>2. ASSUME NEW m \in SUBSET all, m # {}, Closed(E, m), m \subseteq class(r[n])
        PROVE  m = class(r[n])
    <3>1. PICK x \in m : r[x] = r[n]
      BY <2>2
    <3>2. QED
      BY <1>9, <2>2, <3>1
  <2> HIDE DEF class
  <2>3. QED
    BY <1>8, <2>1, <2>2 DEF Components
<1>11. ASSUME NEW m \in Components(all, E) PROVE \E n \in all : m = class(r[n])
  <2>1. m \in SUBSET all /\ m # {} /\ Closed(E, m)
        /\ \A n \in SUBSET all : n # {} /\ Closed(E, n) /\ n \subseteq m => n = m
    BY DEF Components
  <2>2. PICK x \in m : x \in all
    BY <2>1
  <2>3. class(r[x]) \subseteq m /\ x \in class(r[x])
    BY <1>9, <2>1, <2>2
  <2> HIDE DEF class
  <2>4. class(r[x]) = m
    BY <1>8, <2>1, <2>3
  <2>5. QED
    BY <2>2, <2>4
<1> HIDE DEF class
<1>12. QED
  BY <1>7, <1>10, <1>11

(* Components *)

LEMMA ComponentsAreDisjoint ==
    ASSUME NEW M, NEW E, NEW m \in Components(M, E), NEW n \in Components(M, E)
    PROVE  m = n \/ m \cap n = {}
<1> SUFFICES ASSUME m \cap n # {} PROVE m = n
  OBVIOUS
<1>1. m \cap n \in SUBSET M /\ Closed(E, m \cap n)
  BY DEF Components, Closed
<1>2. m \cap n = m /\ m \cap n = n
  BY <1>1 DEF Components
<1>3. QED
  BY <1>2

LEMMA ComponentOf ==
    ASSUME NEW M, NEW E \in SUBSET (M \X M), NEW x \in M
    PROVE  \E n \in Components(M, E) : x \in n
<1> DEFINE n == {y \in M : \A c \in SUBSET M : Closed(E, c) /\ x \in c => y \in c}
<1>1. x \in n /\ n \in SUBSET M
  OBVIOUS
<1>2. Closed(E, n)
  BY DEF Closed
<1>3. ASSUME NEW k \in SUBSET M, k # {}, Closed(E, k), k \subseteq n PROVE k = n
  <2>1. CASE x \in k
    BY <1>3, <2>1
  <2>2. CASE x \notin k
    <3>1. Closed(E, M \ k) /\ x \in M \ k /\ M \ k \in SUBSET M
      BY <1>3, <2>2 DEF Closed
    <3>2. QED
      BY <1>3, <3>1
  <2>3. QED
    BY <2>1, <2>2
<1> HIDE DEF n
<1>4. n \in Components(M, E)
  BY <1>1, <1>2, <1>3 DEF Components
<1>5. QED
  BY <1>1, <1>4

(* With fewer nodes and edges, a component lies inside one. *)
Fewer(M, E, N, F) ==
    /\ E \in SUBSET (M \X M) /\ N \in SUBSET M
    /\ F \in SUBSET E /\ F \in SUBSET (N \X N)

LEMMA ComponentsOfFewer ==
    ASSUME NEW M, NEW E, NEW N, NEW F, Fewer(M, E, N, F), NEW m \in Components(N, F)
    PROVE  \E n \in Components(M, E) : m \subseteq n
<1>1. PICK x \in m : x \in N
  BY DEF Components
<1>2. PICK n \in Components(M, E) : x \in n
  BY <1>1, ComponentOf DEF Fewer
<1>3. m \cap n \in SUBSET N /\ m \cap n # {} /\ Closed(F, m \cap n)
  BY <1>1, <1>2 DEF Components, Closed, Fewer
<1>4. m \cap n = m
  BY <1>3 DEF Components
<1>5. QED
  BY <1>4

(* A node without an edge is alone. *)
LEMMA ComponentsOfTheEnds ==
    ASSUME NEW M, NEW E, NEW N, NEW F, Fewer(M, E, N, F), NEW m, Cardinality(m) >= 2
    PROVE  m \in Components(M, F) <=> m \in Components(N, F)
<1>0. N \in SUBSET M /\ F \in SUBSET (N \X N)
  BY DEF Fewer
<1>1. ASSUME m \in Components(M, F) PROVE m \in Components(N, F)
  <2>1. ASSUME NEW x \in m, x \notin N PROVE FALSE
    <3>1. Closed(F, {x})
      BY <1>0, <2>1 DEF Closed
    <3>2. m = {x}
      BY <1>1, <2>1, <3>1 DEF Components
    <3>3. Cardinality({x}) = 1
      BY FS_Singleton
    <3>4. QED
      BY <3>2, <3>3
  <2>2. m \in SUBSET N
    BY <2>1
  <2>3. QED
    BY <1>1, <2>2 DEF Components
<1>2. ASSUME m \in Components(N, F) PROVE m \in Components(M, F)
  BY <1>0, <1>2 DEF Components
<1>3. QED
  BY <1>1, <1>2

-----------------------------------------------------------------------------
(* The clusters: what is made of them *)

NearPairs(R, pairs) ==
    {x \in pairs : ScorePair(FetchFipData(R, x[1]), FetchFipData(R, x[2]), "current").overall["principle"]
                       >= MinSim}

LEMMA PrincipleIsInRange ==
    ASSUME NEW R, \A g \in DOMAIN R : FiniteRow(R[g]), NEW f, NEW g
    PROVE  ScorePair(FetchFipData(R, f), FetchFipData(R, g), "current").overall["principle"] \in 0..Unit
<1> DEFINE a == FetchFipData(R, f)
           b == FetchFipData(R, g)
           score == ScorePair(a, b, "current").overall
<1>1. FiniteRow(a) /\ FiniteRow(b)
  BY FetchedIsFinite
<1>2. "principle" \in DOMAIN score
  BY DEF ScorePair
<1> HIDE DEF a, b
<1>3. MeasureOK(a, b, "current")
  BY <1>1, Measured
<1>4. \A w \in DOMAIN score : score[w] \in 0..Unit
  BY <1>3, Zenon DEF MeasureOK
<1>5. QED
  BY <1>2, <1>4 DEF a, b

LEMMA EndsAreNear ==
    ASSUME NEW R, \A g \in DOMAIN R : FiniteRow(R[g]), NEW pairs
    PROVE  /\ {e.ends : e \in ScoreEdges(R, pairs, "principle", MinSim)} = NearPairs(R, pairs)
           /\ {e.ends : e \in {e \in ScoreEdges(R, pairs, "principle", 0) : e.score >= MinSim}}
                  = NearPairs(R, pairs)
<1> DEFINE score(x) == ScorePair(FetchFipData(R, x[1]), FetchFipData(R, x[2]), "current")
           edge(x) == [ends |-> x, score |-> score(x).overall["principle"],
                       perPrinciple |-> score(x).perPrinciple]
<1>1. \A least : ScoreEdges(R, pairs, "principle", least) =
                     {e \in {edge(x) : x \in pairs} : e.score >= least}
  BY DEF ScoreEdges
<1>2. \A x : score(x).overall["principle"] \in 0..Unit
  BY PrincipleIsInRange
<1>3. NearPairs(R, pairs) = {x \in pairs : score(x).overall["principle"] >= MinSim}
  BY DEF NearPairs
<1>4. \A x : edge(x).ends = x /\ edge(x).score = score(x).overall["principle"]
  OBVIOUS
<1>5. MinSim \in Nat /\ Unit \in Nat
  BY SimilarityViewsAssumption, SimilarityAssumption
<1> HIDE DEF score, edge
<1>6. {e.ends : e \in ScoreEdges(R, pairs, "principle", MinSim)} = NearPairs(R, pairs)
  BY <1>1, <1>3, <1>4
<1>7. \A x : edge(x).score >= 0
  BY <1>2, <1>4, <1>5
<1>8. ScoreEdges(R, pairs, "principle", 0) = {edge(x) : x \in pairs}
  BY <1>1, <1>7
<1>9. {e \in ScoreEdges(R, pairs, "principle", 0) : e.score >= MinSim}
          = ScoreEdges(R, pairs, "principle", MinSim)
  BY <1>1, <1>8
<1>10. QED
  BY <1>6, <1>9

LEMMA AlikeIsNear ==
    ASSUME NEW M
    PROVE  AlikeIn(M) = NearPairs(rows, PairsOf(M))
<1>1. \A x \in PairsOf(M) : x[1] \in M /\ x[2] \in M
  BY DEF PairsOf
<1>2. QED
  BY <1>1 DEF AlikeIn, NearPairs

PlainOf(clusters) == {c.members : c \in {c \in clusters : ~c.hot}}

LEMMA PlainAre ==
    ASSUME NEW nodes, NEW edges, NEW groups
    PROVE  PlainOf(BuildClusters(nodes, edges, groups)) =
               {m \in ClusterEdges(nodes, {e.ends : e \in edges}) : Cardinality(m) >= 2}
<1>1. \A m : ClusterOf(edges, m).hot = FALSE /\ ClusterOf(edges, m).members = m
  BY DEF ClusterOf
<1>2. \A g : HotClusterOf(g).hot = TRUE
  BY DEF HotClusterOf
<1>3. QED
  BY <1>1, <1>2 DEF PlainOf, BuildClusters

(* The pairs of a large population *)

Sharers(R, P, hotSet) ==
    {x \in PairsOf(P \cap DOMAIN R) : ShareABand(R, hotSet, x[1], x[2])}

LEMMA PairsAreKept ==
    ASSUME NEW R, NEW P, IsFiniteSet(P), NEW hotSet
    PROVE  /\ LshCandidatePairs(R, P, hotSet) \subseteq Sharers(R, P, hotSet)
           /\ \/ Cardinality(LshCandidatePairs(R, P, hotSet)) >= PairCap
              \/ LshCandidatePairs(R, P, hotSet) = Sharers(R, P, hotSet)
<1> DEFINE S == Sharers(R, P, hotSet)
           T == LshCandidatePairs(R, P, hotSet)
<1>1. IsFiniteSet(S)
  <2>1. S \subseteq P \X P
    BY DEF Sharers, PairsOf
  <2>2. IsFiniteSet(P \X P)
    BY FS_Product
  <2>3. QED
    BY <2>1, <2>2, FS_Subset
<1>2. T = IF Cardinality(S) <= PairCap THEN S
          ELSE CHOOSE V \in kSubset(PairCap, S) : \A t \in V, u \in S \ V : ~FALSE
  BY DEF LshCandidatePairs, FirstOf, Sharers
<1>3. PairCap \in Nat
  BY SimilarityViewsAssumption
<1> HIDE DEF S, T
<1>4. ASSUME ~(Cardinality(S) <= PairCap) PROVE T \subseteq S /\ Cardinality(T) >= PairCap
  <2> DEFINE a == [x \in S |-> 0]
  <2>1. a \in [S -> Int]
    OBVIOUS
  <2> HIDE DEF a
  <2>2. \E V \in kSubset(PairCap, S) : \A t \in V, u \in S \ V : ~Precedes(a, a, u, t)
    BY <1>1, <1>3, <1>4, <2>1, SomeAreFirst
  <2>3. \E V \in kSubset(PairCap, S) : \A t \in V, u \in S \ V : ~FALSE
    BY <2>2, Zenon
  <2>4. T = CHOOSE V \in kSubset(PairCap, S) : \A t \in V, u \in S \ V : ~FALSE
    BY <1>2, <1>4
  <2>5. T \in kSubset(PairCap, S)
    BY <2>3, <2>4, Zenon
  <2>6. T \subseteq S /\ Cardinality(T) = PairCap
    BY <2>5, Zenon DEF kSubset
  <2>7. QED
    BY <1>3, <2>6
<1>5. T \subseteq S /\ (Cardinality(T) >= PairCap \/ T = S)
  <2>1. CASE Cardinality(S) <= PairCap
    BY <1>2, <2>1
  <2>2. CASE ~(Cardinality(S) <= PairCap)
    BY <1>4, <2>2
  <2>3. QED
    BY <2>1, <2>2
<1>6. QED
  BY <1>5 DEF S, T

(* The nodes of a population, and its pairs that are alike *)

NodesOf(R, hotSet, P) ==
    IF Exact(P) THEN P
    ELSE EndsOf(PairsToScore(R, P, hotSet))
             \cup {g.representative : g \in ScopedHotGroups(R, P, hotSet)}

NearOf(R, hotSet, P) == NearPairs(R, PairsToScore(R, P, hotSet))

Plain(R, hotSet, P) ==
    {m \in ClusterEdges(NodesOf(R, hotSet, P), NearOf(R, hotSet, P)) : Cardinality(m) >= 2}

LEMMA ClustersAre ==
    ASSUME NEW R, \A g \in DOMAIN R : FiniteRow(R[g]), NEW hotSet, NEW P
    PROVE  /\ PlainOf(Clusters(R, hotSet, P).clusters) = Plain(R, hotSet, P)
           /\ Clusters(R, hotSet, P).truncated =
                  (~Exact(P) /\ Cardinality(PairsToScore(R, P, hotSet)) >= PairCap)
           /\ PlainOf(Map(R, hotSet, P, 2, "principle").topClusters) = Plain(R, hotSet, P)
           /\ Map(R, hotSet, P, 2, "principle").colours = ClusterEdges(P, NearOf(R, hotSet, P))
<1>1. PICK pairs : pairs = PairsToScore(R, P, hotSet)
  OBVIOUS
<1>2. PICK groups : groups = ScopedHotGroups(R, P, hotSet)
  OBVIOUS
<1>3. PICK nodes : nodes = NodesOf(R, hotSet, P)
  OBVIOUS
<1>4. PICK scores : scores = ScoreEdges(R, pairs, "principle", 0)
  OBVIOUS
<1>5. PICK near : near = {e \in scores : e.score >= MinSim}
  OBVIOUS
<1>6. PICK edges : edges = ScoreEdges(R, pairs, "principle", MinSim)
  OBVIOUS
<1>7. {e.ends : e \in near} = NearOf(R, hotSet, P) /\ {e.ends : e \in edges} = NearOf(R, hotSet, P)
  BY <1>1, <1>4, <1>5, <1>6, EndsAreNear DEF NearOf
<1>8. nodes = IF Exact(P) THEN P
              ELSE EndsOf(pairs) \cup {g.representative : g \in groups}
  BY <1>1, <1>2, <1>3 DEF NodesOf
<1>9. PICK shown : shown = IF Exact(P) THEN {} ELSE groups
  OBVIOUS
<1>10. Clusters(R, hotSet, P).clusters = BuildClusters(nodes, edges, shown)
  <2>1. CASE Exact(P)
    <3>1. nodes = P /\ shown = {}
      BY <1>8, <1>9, <2>1
    <3>2. QED
      BY <1>1, <1>6, <2>1, <3>1 DEF Clusters
  <2>2. CASE ~Exact(P)
    <3>1. shown = groups /\ nodes = EndsOf(pairs) \cup {g.representative : g \in groups}
      BY <1>8, <1>9, <2>2
    <3>2. QED
      BY <1>1, <1>2, <1>6, <2>2, <3>1 DEF Clusters
  <2>3. QED
    BY <2>1, <2>2
<1>11. Clusters(R, hotSet, P).truncated = (~Exact(P) /\ Cardinality(pairs) >= PairCap)
  BY <1>1 DEF Clusters
<1>12. /\ Map(R, hotSet, P, 2, "principle").topClusters = BuildClusters(nodes, near, groups)
       /\ Map(R, hotSet, P, 2, "principle").colours = ClusterEdges(P, {e.ends : e \in near})
  <2>1. CASE Exact(P)
    <3>1. nodes = P
      BY <1>8, <2>1
    <3>2. QED
      BY <1>1, <1>2, <1>4, <1>5, <2>1, <3>1 DEF Map
  <2>2. CASE ~Exact(P)
    <3>1. nodes = EndsOf(pairs) \cup {g.representative : g \in groups}
      BY <1>8, <2>2
    <3>2. QED
      BY <1>1, <1>2, <1>4, <1>5, <2>2, <3>1 DEF Map
  <2>3. QED
    BY <2>1, <2>2
<1>13. QED
  BY <1>1, <1>3, <1>7, <1>10, <1>11, <1>12, PlainAre DEF Plain

-----------------------------------------------------------------------------
(* The clusters are components *)

(* A signature has at least one band. *)
LEMMA FirstBand == 1 \in BandIndexes
<1>1. PICK k \in Nat \ {0} : k = K
  BY ProjectionAssumption
<1>2. PICK b \in Nat \ {0} : b = BandRows
  BY ProjectionAssumption
<1>3. k % b = 0
  BY <1>1, <1>2, ProjectionAssumption
<1>4. PICK d : d = k \div b
  OBVIOUS
<1>5. d \in Int /\ k = b * d + (k % b)
  BY <1>4
<1>6. k = b * d
  BY <1>3, <1>5
<1>7. d >= 1
  <2> SUFFICES ASSUME d <= 0 PROVE FALSE
    BY <1>5
  <2>1. CASE d = 0
    BY <1>6, <2>1
  <2>2. CASE d <= -1
    <3>1. b * d <= 0
      BY <1>5, <2>2
    <3>2. QED
      BY <1>6, <3>1
  <2>3. QED
    BY <1>5, <2>1, <2>2
<1>8. BandIndexes = 1..d
  BY <1>1, <1>2, <1>4 DEF BandIndexes
<1>9. QED
  BY <1>5, <1>7, <1>8

LEMMA NodesAndNear ==
    ASSUME NEW R, NEW hotSet, NEW P, IsFiniteSet(P), P \subseteq Nat
    PROVE  /\ NodesOf(R, hotSet, P) \in SUBSET P
           /\ NearOf(R, hotSet, P) \in SUBSET (NodesOf(R, hotSet, P) \X NodesOf(R, hotSet, P))
           /\ NearOf(R, hotSet, P) \in SUBSET NearPairs(R, PairsOf(P))
           /\ Exact(P) => NodesOf(R, hotSet, P) = P /\ NearOf(R, hotSet, P) = NearPairs(R, PairsOf(P))
<1>1. PICK pairs : pairs = PairsToScore(R, P, hotSet)
  OBVIOUS
<1>2. PICK groups : groups = {g.representative : g \in ScopedHotGroups(R, P, hotSet)}
  OBVIOUS
<1>3. pairs \subseteq PairsOf(P)
  <2>1. LshCandidatePairs(R, P, hotSet) \subseteq PairsOf(P)
    <3>1. LshCandidatePairs(R, P, hotSet) \subseteq Sharers(R, P, hotSet)
      BY PairsAreKept
    <3>2. Sharers(R, P, hotSet) \subseteq PairsOf(P)
      <4>1. PICK Q : Q = P \cap DOMAIN R
        OBVIOUS
      <4>2. PairsOf(Q) \subseteq PairsOf(P)
        <5>1. ASSUME NEW x \in PairsOf(Q) PROVE x \in PairsOf(P)
          <6>1. PICK y \in Q, z \in Q : x = <<y, z>> /\ y < z
            BY <5>1 DEF PairsOf
          <6>2. y \in P /\ z \in {z2 \in P : y < z2}
            BY <4>1, <6>1
          <6>3. QED
            BY <6>1, <6>2 DEF PairsOf
        <5>2. QED
          BY <5>1
      <4>3. QED
        BY <4>1, <4>2 DEF Sharers
    <3>3. QED
      BY <3>1, <3>2
  <2>2. QED
    BY <1>1, <2>1 DEF PairsToScore
<1>4. groups \subseteq P
  BY <1>2 DEF ScopedHotGroups
<1>5. PICK nodes : nodes = NodesOf(R, hotSet, P)
  OBVIOUS
<1>6. nodes = IF Exact(P) THEN P ELSE EndsOf(pairs) \cup groups
  BY <1>1, <1>2, <1>5 DEF NodesOf
<1>7. \A x \in PairsOf(P) : x \in P \X P
  BY DEF PairsOf
<1>8. nodes \subseteq P
  <2>1. \A x \in pairs : {x[1], x[2]} \subseteq P
    BY <1>3, <1>7
  <2>2. EndsOf(pairs) \subseteq P
    BY <2>1, Zenon DEF EndsOf
  <2>3. QED
    BY <1>4, <1>6, <2>2
<1>9. \A x \in pairs : x \in nodes \X nodes
  <2>1. CASE Exact(P)
    BY <1>3, <1>6, <1>7, <2>1
  <2>2. CASE ~Exact(P)
    <3>1. \A x \in pairs : x[1] \in nodes /\ x[2] \in nodes
      BY <1>6, <2>2 DEF EndsOf
    <3>2. QED
      BY <1>3, <1>7, <3>1
  <2>3. QED
    BY <2>1, <2>2
<1>10. NearOf(R, hotSet, P) \subseteq pairs
  BY <1>1 DEF NearOf, NearPairs
<1>11. NearOf(R, hotSet, P) \subseteq NearPairs(R, PairsOf(P))
  BY <1>1, <1>3 DEF NearOf, NearPairs
<1>12. Exact(P) => NearOf(R, hotSet, P) = NearPairs(R, PairsOf(P))
  BY DEF NearOf, PairsToScore
<1>13. QED
  BY <1>5, <1>6, <1>8, <1>9, <1>10, <1>11, <1>12

(* Two FIPs that are alike and have a bucket in common that is not hot are *)
(* in one component of the pairs scored.                                   *)
LEMMA SameSignature ==
    ASSUME NEW P, IsFiniteSet(P), P \subseteq Nat, ~Exact(P),
           ~(Cardinality(PairsToScore(rows, P, hot)) >= PairCap),
           NEW x \in NearPairs(rows, PairsOf(P)), x[1] \in DOMAIN rows, x[2] \in DOMAIN rows,
           rows[x[1]].signature = rows[x[2]].signature,
           ~ \E h \in hot : BandOf(rows[x[1]], h.band) = h.hash
    PROVE  x \in NearOf(rows, hot, P)
<1>1. x \in PairsOf(P)
  BY DEF NearPairs
<1>2. x \in PairsOf(P \cap DOMAIN rows)
  BY <1>1 DEF PairsOf
<1>3. ShareABand(rows, hot, x[1], x[2])
  <2>1. BandOf(rows[x[1]], 1) = BandOf(rows[x[2]], 1)
    BY DEF BandOf
  <2>2. \A h \in hot : <<h.band, h.hash>> # <<1, BandOf(rows[x[1]], 1)>>
    OBVIOUS
  <2>3. QED
    BY <2>1, <2>2, FirstBand DEF ShareABand
<1>4. x \in Sharers(rows, P, hot)
  BY <1>2, <1>3 DEF Sharers
<1>5. PairsToScore(rows, P, hot) = Sharers(rows, P, hot)
  <2>1. PairsToScore(rows, P, hot) = LshCandidatePairs(rows, P, hot)
    BY DEF PairsToScore
  <2>2. QED
    BY <2>1, PairsAreKept
<1>6. QED
  BY <1>4, <1>5 DEF NearOf, NearPairs

AreComponents(M, plain, view, map, alike) ==
    LET components == Components(M, alike)
        together(x, y) == \E m \in plain : {x, y} \subseteq m
        hotTogether(x) == \E h \in hot : BandOf(rows[x], h.band) = h.hash
    IN  /\ \A m, n \in plain : m = n \/ m \cap n = {}
        /\ \A m \in plain : \E n \in components : m \subseteq n
        /\ Exact(M) => plain = {m \in components : Cardinality(m) >= 2}
        /\ PlainOf(map.topClusters) = plain
        /\ {m \in map.colours : Cardinality(m) >= 2} = plain
        /\ ~Exact(M) /\ ~view.truncated =>
              \A x \in alike :
                  /\ {x[1], x[2]} \subseteq DOMAIN rows
                  /\ rows[x[1]].signature = rows[x[2]].signature
                  => together(x[1], x[2]) \/ hotTogether(x[1])

ClustersOK(M) ==
    AreComponents(M, PlainOf(Clusters(rows, hot, M).clusters), Clusters(rows, hot, M),
                  Map(rows, hot, M, 2, "principle"), AlikeIn(M))

LEMMA ClustersRight ==
    ASSUME RowsInv, NEW M, IsFiniteSet(M), M \subseteq Nat
    PROVE  ClustersOK(M)
<1>0. \A g \in DOMAIN rows : FiniteRow(rows[g])
  BY DEF RowsInv
<1>1. PICK N : N = NodesOf(rows, hot, M)
  OBVIOUS
<1>2. PICK F : F = NearOf(rows, hot, M)
  OBVIOUS
<1>3. PICK E : E = AlikeIn(M)
  OBVIOUS
<1>4. E = NearPairs(rows, PairsOf(M))
  BY <1>3, AlikeIsNear
<1>5. N \in SUBSET M /\ F \in SUBSET (N \X N) /\ F \in SUBSET E /\ (Exact(M) => N = M /\ F = E)
  BY <1>1, <1>2, <1>4, NodesAndNear
<1>6. E \in SUBSET (M \X M)
  BY <1>4 DEF NearPairs, PairsOf
<1>7. F \in SUBSET (M \X M)
  BY <1>5, <1>6
<1>8. IsFiniteSet(N)
  BY <1>5, FS_Subset
<1>9. PICK plain : plain = {m \in Components(N, F) : Cardinality(m) >= 2}
  OBVIOUS
<1>9a. Fewer(M, E, N, F)
  BY <1>5, <1>6 DEF Fewer
<1>10. Plain(rows, hot, M) = plain
  <2>1. ClusterEdges(N, F) = Components(N, F)
    BY <1>5, <1>8, ClustersAreMinimal
  <2>2. QED
    BY <1>1, <1>2, <1>9, <2>1 DEF Plain
<1>11. PICK view : view = Clusters(rows, hot, M)
  OBVIOUS
<1>12. PICK map : map = Map(rows, hot, M, 2, "principle")
  OBVIOUS
<1>13. /\ PlainOf(view.clusters) = plain
       /\ PlainOf(map.topClusters) = plain
       /\ view.truncated = (~Exact(M) /\ Cardinality(PairsToScore(rows, M, hot)) >= PairCap)
       /\ map.colours = ClusterEdges(M, F)
  BY <1>0, <1>2, <1>10, <1>11, <1>12, ClustersAre
<1>14. \A m, n \in plain : m = n \/ m \cap n = {}
  BY <1>9, ComponentsAreDisjoint
<1>15. \A m \in plain : \E n \in Components(M, E) : m \subseteq n
  <2> SUFFICES ASSUME NEW m \in Components(N, F) PROVE \E n \in Components(M, E) : m \subseteq n
    BY <1>9
  <2>1. QED
    BY <1>9a, ComponentsOfFewer
<1>16. Exact(M) => plain = {m \in Components(M, E) : Cardinality(m) >= 2}
  BY <1>5, <1>9
<1>17. {m \in map.colours : Cardinality(m) >= 2} = plain
  <2>1. map.colours = Components(M, F)
    BY <1>7, <1>13, ClustersAreMinimal
  <2>2. \A m : Cardinality(m) >= 2 => (m \in Components(M, F) <=> m \in Components(N, F))
    BY <1>9a, ComponentsOfTheEnds
  <2>3. QED
    BY <1>9, <2>1, <2>2
<1>18. ASSUME ~Exact(M), ~view.truncated, NEW x \in E, {x[1], x[2]} \subseteq DOMAIN rows,
              rows[x[1]].signature = rows[x[2]].signature,
              ~ \E h \in hot : BandOf(rows[x[1]], h.band) = h.hash
       PROVE  \E m \in plain : {x[1], x[2]} \subseteq m
  <2>1. x \in F
    BY <1>2, <1>4, <1>13, <1>18, SameSignature
  <2>2. x \in N \X N /\ x[1] \in N /\ x[2] \in N
    BY <1>5, <2>1
  <2>3. PICK m \in Components(N, F) : x[1] \in m
    BY <1>5, <2>2, ComponentOf
  <2>4. m \in SUBSET N /\ x[2] \in m
    BY <2>1, <2>3 DEF Components, Closed
  <2>5. x[1] # x[2]
    <3>1. x \in PairsOf(M)
      BY <1>4, <1>18 DEF NearPairs
    <3>2. QED
      BY <3>1 DEF PairsOf
  <2>6. Cardinality(m) >= 2
    <3>1. IsFiniteSet(m)
      BY <1>8, <2>4, FS_Subset
    <3>2. {x[1], x[2]} \subseteq m
      BY <2>3, <2>4
    <3>3. Cardinality({x[1], x[2]}) = 2
      <4>1. IsFiniteSet({x[1]}) /\ Cardinality({x[1]}) = 1
        BY FS_Singleton
      <4>2. Cardinality({x[1]} \cup {x[2]}) = 2
        <5>1. PICK one : one = {x[1]}
          OBVIOUS
        <5>2. IsFiniteSet(one) /\ Cardinality(one) = 1 /\ x[2] \notin one
          BY <2>5, <4>1, <5>1
        <5>3. Cardinality(one \cup {x[2]}) = Cardinality(one) + 1
          BY <5>2, FS_AddElement
        <5>4. QED
          BY <5>1, <5>2, <5>3
      <4>3. {x[1], x[2]} = {x[1]} \cup {x[2]}
        OBVIOUS
      <4>4. QED
        BY <4>2, <4>3
    <3>4. Cardinality({x[1], x[2]}) <= Cardinality(m)
      BY <3>1, <3>2, FS_Subset
    <3>5. Cardinality(m) \in Nat
      BY <3>1, FS_CardinalityType
    <3>6. QED
      BY <3>3, <3>4, <3>5
  <2>7. QED
    BY <1>9, <2>3, <2>4, <2>6
<1>19. ~Exact(M) /\ ~view.truncated =>
           \A x \in E :
               /\ {x[1], x[2]} \subseteq DOMAIN rows
               /\ rows[x[1]].signature = rows[x[2]].signature
               => \/ \E m \in plain : {x[1], x[2]} \subseteq m
                  \/ \E h \in hot : BandOf(rows[x[1]], h.band) = h.hash
  BY <1>18, Zenon
<1>20. AreComponents(M, plain, view, map, E)
  BY <1>13, <1>14, <1>15, <1>16, <1>17, <1>19, Zenon DEF AreComponents
<1>21. QED
  BY <1>3, <1>11, <1>12, <1>13, <1>20, Zenon DEF ClustersOK

(* The clusters of a population are components of similarity, and those of *)
(* the map are the same: _cluster_edges, _build_clusters, clusters_view    *)
(* and map_view.                                                           *)
THEOREM DSpec_ClustersAreComponents == DSpec => []ClustersAreComponents
<1>1. RowsInv /\ DfInv => ClustersAreComponents
  <2> SUFFICES ASSUME RowsInv, DfInv, NEW M \in Resolved PROVE ClustersOK(M)
    BY Zenon DEF ClustersAreComponents, ClustersOK, AreComponents, PlainOf
  <2>1. PICK population \in Populations : M = population \cap (DOMAIN fips \cup DOMAIN network)
    BY DEF Resolved, MembersOf
  <2>2. M \subseteq Nat
    BY <2>1, DataAssumption
  <2>3. IsFiniteSet(M)
    <3>1. IsFiniteSet(DOMAIN fips) /\ IsFiniteSet(DOMAIN network)
      BY DEF DfInv, RowsInv
    <3>2. IsFiniteSet(DOMAIN fips \cup DOMAIN network)
      BY <3>1, FS_Union
    <3>3. QED
      BY <2>1, <3>2, FS_Subset
  <2>4. QED
    BY <2>2, <2>3, ClustersRight
<1>2. QED
  BY <1>1, RowsInit, RowsNext, DfInit, DfNext, PTL DEF DSpec

-----------------------------------------------------------------------------
(* Counts by a key, and their sums *)

(* How many things have a key, and how many have one of some keys          *)
With(A, g, k) == Cardinality({x \in A : g[x] = k})
WithAny(A, g, S) == Cardinality({x \in A : g[x] \in S})

(* The sum, over some keys, of the number of things that have the key      *)
LEMMA SumOfCounts ==
    ASSUME NEW A, IsFiniteSet(A), NEW g, NEW S, IsFiniteSet(S), NEW tally,
           \A k \in S : tally[k] = With(A, g, k)
    PROVE  SumFunctionOnSet(tally, S) = WithAny(A, g, S)
<1> DEFINE h == SumBy(tally, S)
           In(s) == {x \in A : g[x] \in s}
           Having(k) == {x \in A : g[x] = k}
           G == {s \in SUBSET S : h[s] = Cardinality(In(s))}
<1>1. SumFunctionOnSet(tally, S) = h[S]
  BY DEF SumFunctionOnSet, FoldFunctionOnSet, MapThenFoldSet, SumBy, SumStep
<1>2. \A s : IsFiniteSet(In(s)) /\ Cardinality(In(s)) \in Nat
  BY FS_Subset, FS_CardinalityType
<1>3. \A k : IsFiniteSet(Having(k)) /\ Cardinality(Having(k)) \in Nat
  BY FS_Subset, FS_CardinalityType
<1>4. \A s \in SUBSET S : h[s] = SumStep(tally, h, s)
  <2>1. \A k \in S : tally[k] \in Nat
    BY <1>3 DEF With
  <2>2. IsSum(tally, S, h)
    BY <2>1, SumDefined
  <2>3. QED
    BY <2>2 DEF IsSum
<1> HIDE DEF h
<1>5. {} \in G
  <2>1. In({}) = {} /\ h[{}] = 0
    BY <1>4 DEF SumStep
  <2>2. QED
    BY <2>1, FS_EmptySet
<1>6. ASSUME NEW s \in SUBSET S, s # {}, \A x \in s : s \ {x} \in G PROVE s \in G
  <2> DEFINE k == CHOOSE y \in s : TRUE
             t == s \ {k}
  <2>1. k \in s
    BY <1>6
  <2>2. h[s] = tally[k] + h[t]
    BY <1>4, <1>6 DEF SumStep
  <2> HIDE DEF k
  <2>3. h[t] = Cardinality(In(t))
    BY <1>6, <2>1
  <2>4. tally[k] = Cardinality(Having(k))
    BY <2>1 DEF With
  <2>5. In(s) = In(t) \cup Having(k) /\ In(t) \cap Having(k) = {}
    BY <2>1
  <2> HIDE DEF In, Having, t
  <2>6. Cardinality(In(t) \cup Having(k)) = Cardinality(In(t)) + Cardinality(Having(k))
    <3>1. PICK a : a = In(t)
      OBVIOUS
    <3>2. PICK b : b = Having(k)
      OBVIOUS
    <3>3. IsFiniteSet(a) /\ IsFiniteSet(b) /\ Cardinality(a) \in Nat /\ Cardinality(b) \in Nat /\ a \cap b = {}
      BY <1>2, <1>3, <2>5, <3>1, <3>2
    <3>4. Cardinality(a \cup b) = Cardinality(a) + Cardinality(b) - Cardinality({})
      BY <3>3, FS_Union
    <3>5. QED
      BY <3>1, <3>2, <3>3, <3>4, FS_EmptySet
  <2>7. Cardinality(In(s)) = Cardinality(In(t)) + Cardinality(Having(k))
    BY <2>5, <2>6, Zenon
  <2>8. h[s] = Cardinality(In(s))
    BY <1>2, <1>3, <2>2, <2>3, <2>4, <2>7
  <2>9. QED
    BY <2>8
<1> HIDE DEF G
<1>7. S \in G
  BY <1>5, <1>6, SubsetInduction
<1>8. QED
  BY <1>1, <1>7 DEF G, WithAny

(* A finite set that is not larger than its image: no two elements meet.   *)
LEMMA ImageInjective ==
    ASSUME NEW S, IsFiniteSet(S), NEW f, Cardinality(S) <= Cardinality({f[x] : x \in S}),
           NEW x \in S, NEW y \in S, f[x] = f[y]
    PROVE  x = y
<1> SUFFICES ASSUME x # y PROVE FALSE
  OBVIOUS
<1> DEFINE t == S \ {y}
<1>1. PICK image : image = {f[z] : z \in S}
  OBVIOUS
<1>2. image = {f[z] : z \in t}
  BY <1>1
<1>3. IsFiniteSet(t) /\ Cardinality(t) = Cardinality(S) - 1
  BY FS_RemoveElement
<1> HIDE DEF t
<1>4. Cardinality(image) <= Cardinality(t) /\ IsFiniteSet(image)
  BY <1>2, <1>3, ImageCardinality, ImageFinite
<1>5. Cardinality(S) \in Nat /\ Cardinality(t) \in Nat /\ Cardinality(image) \in Nat
  BY <1>3, <1>4, FS_CardinalityType
<1>6. Cardinality(S) <= Cardinality(image)
  BY <1>1
<1>7. QED
  BY <1>3, <1>4, <1>5, <1>6

(* Two finite sets, each the image of the other *)
LEMMA SameCardinality ==
    ASSUME NEW S, IsFiniteSet(S), NEW T, NEW f, T = {f[x] : x \in S}, NEW g, S = {g[y] : y \in T}
    PROVE  Cardinality(S) = Cardinality(T)
<1>1. IsFiniteSet(T)
  BY ImageFinite
<1>2. Cardinality(T) <= Cardinality(S) /\ Cardinality(S) <= Cardinality(T)
  BY <1>1, ImageCardinality
<1>3. Cardinality(S) \in Nat /\ Cardinality(T) \in Nat
  BY <1>1, FS_CardinalityType
<1>4. QED
  BY <1>2, <1>3

Matching(S, T, up, down) ==
    /\ \A x \in S : up[x] \in T /\ down[up[x]] = x
    /\ \A y \in T : down[y] \in S /\ up[down[y]] = y

LEMMA MatchedCardinality ==
    ASSUME NEW S, IsFiniteSet(S), NEW T, NEW up, NEW down, Matching(S, T, up, down)
    PROVE  Cardinality(S) = Cardinality(T)
<1>1. T = {up[x] : x \in S} /\ S = {down[y] : y \in T}
  BY DEF Matching
<1>2. QED
  BY <1>1, SameCardinality

LEMMA StatesAreFinite == IsFiniteSet(CellStateNames)
<1>1. IsFiniteSet({"current"})
  BY FS_Singleton
<1>2. IsFiniteSet({"current"} \cup {"planned"})
  BY <1>1, FS_AddElement
<1>3. IsFiniteSet(({"current"} \cup {"planned"}) \cup {"none"})
  BY <1>2, FS_AddElement
<1>4. IsFiniteSet((({"current"} \cup {"planned"}) \cup {"none"}) \cup {"not-applicable"})
  BY <1>3, FS_AddElement
<1>5. IsFiniteSet(((({"current"} \cup {"planned"}) \cup {"none"}) \cup {"not-applicable"}) \cup {"unanswered"})
  BY <1>4, FS_AddElement
<1>6. IsFiniteSet((((({"current"} \cup {"planned"}) \cup {"none"}) \cup {"not-applicable"})
                      \cup {"unanswered"}) \cup {"absent"})
  BY <1>5, FS_AddElement
<1>7. CellStateNames = (((({"current"} \cup {"planned"}) \cup {"none"}) \cup {"not-applicable"})
                           \cup {"unanswered"}) \cup {"absent"}
  BY DEF CellStateNames
<1>8. QED
  BY <1>6, <1>7

(* The cells of some FIPs, as pairs *)
PairsIn(cells, M) == UNION {{<<f, c>> : c \in cells[f]} : f \in M}

LEMMA PairsInIs ==
    ASSUME NEW cells, NEW M
    PROVE  /\ \A x \in PairsIn(cells, M) : x[1] \in M /\ x[2] \in cells[x[1]] /\ x = <<x[1], x[2]>>
           /\ \A f \in M : \A c \in cells[f] : <<f, c>> \in PairsIn(cells, M)
<1>1. ASSUME NEW x \in PairsIn(cells, M)
      PROVE  x[1] \in M /\ x[2] \in cells[x[1]] /\ x = <<x[1], x[2]>>
  <2>1. PICK f \in M : x \in {<<f, c>> : c \in cells[f]}
    BY <1>1, Zenon DEF PairsIn
  <2>2. PICK c \in cells[f] : x = <<f, c>>
    BY <2>1
  <2>3. QED
    BY <2>2
<1>2. ASSUME NEW f \in M, NEW c \in cells[f] PROVE <<f, c>> \in PairsIn(cells, M)
  <2>1. <<f, c>> \in {<<f, d>> : d \in cells[f]}
    OBVIOUS
  <2>2. QED
    BY <2>1, Zenon DEF PairsIn
<1>3. QED
  BY <1>1, <1>2

LEMMA PairsInAreFinite ==
    ASSUME NEW cells, NEW M, IsFiniteSet(M), \A f \in M : IsFiniteSet(cells[f])
    PROVE  IsFiniteSet(PairsIn(cells, M))
<1> DEFINE of == [f \in M |-> {<<f, c>> : c \in cells[f]}]
<1>1. ASSUME NEW f \in M PROVE IsFiniteSet(of[f])
  <2> DEFINE h == [c \in cells[f] |-> <<f, c>>]
  <2>1. of[f] = {h[c] : c \in cells[f]}
    OBVIOUS
  <2> HIDE DEF of, h
  <2>2. QED
    BY <2>1, ImageFinite
<1>2. PairsIn(cells, M) = UNION {of[f] : f \in M}
  BY DEF PairsIn
<1> HIDE DEF of
<1>3. IsFiniteSet({of[f] : f \in M})
  BY ImageFinite
<1>4. QED
  BY <1>1, <1>2, <1>3, FS_UNION

(* What coverage is made of: the number of cells in a line and a state     *)
InLine(A, level, key) == {x \in A : CoverageKey(CoverageColumns(x[2]), level) = key}

InState(A, s) == {x \in A : x[2].state = s}

CoverageCounts(view, A, level) ==
    /\ DOMAIN view.rows = {CoverageKey(CoverageColumns(x[2]), level) : x \in A}
    /\ \A key \in DOMAIN view.rows : \A s \in CellStateNames :
           view.rows[key].counts[s] = Cardinality(InState(InLine(A, level, key), s))
    /\ view.cells = Cardinality(A)

LEMMA CoverageCounted ==
    ASSUME NEW M, NEW cells, DOMAIN cells = M, NEW A, A = PairsIn(cells, M), IsFiniteSet(A),
           \A x \in A : x[2].state \in CellStateNames, NEW level, NEW count
    PROVE  CoverageCounts(Coverage(cells, level, "any", count), A, level)
<1>1. PICK things : things = InScope(cells, "any")
  OBVIOUS
<1>2. DOMAIN things = M /\ \A f \in M : things[f] = cells[f]
  BY <1>1 DEF InScope
<1>3. UNION {{<<f, c>> : c \in things[f]} : f \in DOMAIN things} = A
  <2>1. \A f \in M : {<<f, c>> : c \in things[f]} = {<<f, c>> : c \in cells[f]}
    BY <1>2
  <2>2. {{<<f, c>> : c \in things[f]} : f \in M} = {{<<f, c>> : c \in cells[f]} : f \in M}
    BY <2>1
  <2>3. QED
    BY <1>2, <2>2, Zenon DEF PairsIn
<1> DEFINE col == [x \in A |-> CoverageColumns(x[2])]
           keyOf == [x \in A |-> CoverageKey(CoverageColumns(x[2]), level)]
           stateOf == [x \in A |-> x[2].state]
<1>4. PICK tally : tally = Tally(things, CoverageColumns)
  OBVIOUS
<1>5. tally = [k \in {CoverageColumns(x[2]) : x \in A} |->
                  Cardinality({x \in A : CoverageColumns(x[2]) = k})]
  BY <1>3, <1>4, Zenon DEF Tally
<1>6. PICK rws : rws = RollupCounts(tally, level)
  OBVIOUS
<1>7. PICK view : view = Coverage(cells, level, "any", count)
  OBVIOUS
<1>8. view.rows = rws /\ view.cells = SumFunction([key \in DOMAIN rws |-> SumFunction(rws[key].counts)])
  BY <1>1, <1>4, <1>6, <1>7 DEF Coverage
<1>9. DOMAIN rws = {CoverageKey(k, level) : k \in DOMAIN tally}
  BY <1>6 DEF RollupCounts
<1>10. DOMAIN rws = {CoverageKey(CoverageColumns(x[2]), level) : x \in A}
  BY <1>5, <1>9
<1>11. ASSUME NEW key \in DOMAIN rws
       PROVE  /\ DOMAIN rws[key].counts = CellStateNames
              /\ \A s \in CellStateNames :
                     rws[key].counts[s] = Cardinality(InState(InLine(A, level, key), s))
  <2> DEFINE counted(s) == {k \in {k \in DOMAIN tally : CoverageKey(k, level) = key} : k.state = s}
  <2>1. rws[key].counts = [s \in CellStateNames |-> SumFunctionOnSet(tally, counted(s))]
    BY <1>6, <1>9, <1>11 DEF RollupCounts
  <2>2. ASSUME NEW s \in CellStateNames
        PROVE  SumFunctionOnSet(tally, counted(s)) = Cardinality(InState(InLine(A, level, key), s))
    <3>1. DOMAIN tally = {col[x] : x \in A}
      BY <1>5
    <3>2. IsFiniteSet(DOMAIN tally)
      <4> HIDE DEF col
      <4>1. QED
        BY <3>1, ImageFinite
    <3>3. IsFiniteSet(counted(s))
      BY <3>2, FS_Subset
    <3>4. \A k \in counted(s) : tally[k] = Cardinality({x \in A : col[x] = k})
      BY <1>5
    <3>5. {x \in A : col[x] \in counted(s)} = InState(InLine(A, level, key), s)
      <4>1. \A x \in A : col[x] = CoverageColumns(x[2]) /\ CoverageColumns(x[2]).state = x[2].state
        BY DEF CoverageColumns
      <4>2. \A x \in A : col[x] \in DOMAIN tally
        BY <3>1
      <4> HIDE DEF col
      <4>3. QED
        BY <4>1, <4>2 DEF InState, InLine
    <3> HIDE DEF col, counted
    <3>6. \A k \in counted(s) : tally[k] = With(A, col, k)
      BY <3>4 DEF With
    <3>7. SumFunctionOnSet(tally, counted(s)) = WithAny(A, col, counted(s))
      BY <3>3, <3>6, SumOfCounts
    <3>8. QED
      BY <3>5, <3>7 DEF WithAny
  <2> HIDE DEF counted
  <2>3. QED
    BY <2>1, <2>2
<1>12. ASSUME NEW key \in DOMAIN rws
       PROVE  SumFunction(rws[key].counts) = Cardinality({x \in A : keyOf[x] = key})
  <2>1. PICK counts : counts = rws[key].counts
    OBVIOUS
  <2>2. SumFunction(counts) = SumFunctionOnSet(counts, CellStateNames)
    BY <1>11, <1>12, <2>1 DEF SumFunction
  <2>3. PICK here : here = InLine(A, level, key)
    OBVIOUS
  <2>4. here = {x \in A : keyOf[x] = key} /\ here \subseteq A
    BY <2>3 DEF InLine
  <2>5. IsFiniteSet(here)
    BY <2>4, FS_Subset
  <2>6. \A s \in CellStateNames : counts[s] = Cardinality({x \in here : stateOf[x] = s})
    <3>1. ASSUME NEW s \in CellStateNames PROVE counts[s] = Cardinality({x \in here : stateOf[x] = s})
      <4>1. counts[s] = Cardinality(InState(here, s))
        BY <1>11, <1>12, <2>1, <2>3
      <4>2. {x \in here : stateOf[x] = s} = InState(here, s)
        BY <2>4 DEF InState
      <4>3. QED
        BY <4>1, <4>2
    <3>2. QED
      BY <3>1
  <2>7. {x \in here : stateOf[x] \in CellStateNames} = here
    BY <2>4
  <2> HIDE DEF stateOf, keyOf
  <2>8. \A s \in CellStateNames : counts[s] = With(here, stateOf, s)
    BY <2>6 DEF With
  <2>9. SumFunctionOnSet(counts, CellStateNames) = WithAny(here, stateOf, CellStateNames)
    BY <2>5, <2>8, StatesAreFinite, SumOfCounts
  <2>10. QED
    BY <2>1, <2>2, <2>4, <2>7, <2>9 DEF WithAny
<1>13. view.cells = Cardinality(A)
  <2> DEFINE sums == [key \in DOMAIN rws |-> SumFunction(rws[key].counts)]
  <2>1. SumFunction(sums) = SumFunctionOnSet(sums, DOMAIN rws)
    BY DEF SumFunction
  <2>2. \A key \in DOMAIN rws : sums[key] = Cardinality({x \in A : keyOf[x] = key})
    BY <1>12
  <2>3. DOMAIN rws = {keyOf[x] : x \in A}
    BY <1>10
  <2>4. view.cells = SumFunction(sums)
    BY <1>8
  <2> HIDE DEF keyOf, sums
  <2>5. IsFiniteSet(DOMAIN rws)
    BY <2>3, ImageFinite
  <2>6. \A key \in DOMAIN rws : sums[key] = With(A, keyOf, key)
    BY <2>2 DEF With
  <2>7. SumFunctionOnSet(sums, DOMAIN rws) = WithAny(A, keyOf, DOMAIN rws)
    BY <2>5, <2>6, SumOfCounts
  <2>8. {x \in A : keyOf[x] \in DOMAIN rws} = A
    BY <2>3
  <2>9. QED
    BY <2>1, <2>4, <2>7, <2>8 DEF WithAny
<1>14. QED
  BY <1>7, <1>8, <1>10, <1>11, <1>13 DEF CoverageCounts

-----------------------------------------------------------------------------
(* Coverage is right where each question asked has its one cell *)

Said(f, q) == CHOOSE s \in CellStateNames : Says(f, q, s)

MatchedCells(cs, f) ==
    /\ \A c \in cs : \E q \in Asked(f) : c.question = q.id /\ c.state = Said(f, q)
    /\ \A q \in Asked(f) : \E c \in cs : c.question = q.id
    /\ \A c, d \in cs : c.question = d.question => c = d
    /\ \A q, r \in Asked(f) : q.id = r.id => q = r

SameLines(cs, f, level) ==
    \A c \in cs : \A q \in Asked(f) :
        c.question = q.id => CoverageKey(CoverageColumns(c), level) = LineOf(q, level)

LEMMA AskedOfIs ==
    ASSUME NEW M
    PROVE  /\ \A x \in AskedOf(M) : x[1] \in M /\ x[2] \in Asked(x[1]) /\ x = <<x[1], x[2]>>
           /\ \A f \in M : \A q \in Asked(f) : <<f, q>> \in AskedOf(M)
<1> DEFINE asked == [f \in M |-> Asked(f)]
<1>1. AskedOf(M) = PairsIn(asked, M)
  <2>1. \A f \in M : {<<f, q>> : q \in Asked(f)} = {<<f, q>> : q \in asked[f]}
    OBVIOUS
  <2> HIDE DEF asked
  <2>2. {{<<f, q>> : q \in Asked(f)} : f \in M} = {{<<f, q>> : q \in asked[f]} : f \in M}
    BY <2>1
  <2>3. QED
    BY <2>2, Zenon DEF AskedOf, PairsIn
<1>2. \A f \in M : asked[f] = Asked(f)
  OBVIOUS
<1> HIDE DEF asked
<1>3. QED
  BY <1>1, <1>2, PairsInIs

LEMMA SaidInIs ==
    ASSUME NEW M
    PROVE  /\ \A y \in SaidIn(M) : /\ y[1] \in M /\ y[2] \in Asked(y[1])
                                   /\ y[3] = Said(y[1], y[2]) /\ y = <<y[1], y[2], y[3]>>
           /\ \A f \in M : \A q \in Asked(f) : <<f, q, Said(f, q)>> \in SaidIn(M)
<1>1. SaidIn(M) = {<<x[1], x[2], Said(x[1], x[2])>> : x \in AskedOf(M)}
  BY Zenon DEF SaidIn, Said
<1>2. PICK P : P = AskedOf(M)
  OBVIOUS
<1>3. SaidIn(M) = {<<x[1], x[2], Said(x[1], x[2])>> : x \in P}
  BY <1>1, <1>2, Zenon
<1>4. /\ \A x \in P : x[1] \in M /\ x[2] \in Asked(x[1])
      /\ \A f \in M : \A q \in Asked(f) : <<f, q>> \in P
  BY <1>2, AskedOfIs
<1>5. ASSUME NEW y \in SaidIn(M)
      PROVE  y[1] \in M /\ y[2] \in Asked(y[1]) /\ y[3] = Said(y[1], y[2]) /\ y = <<y[1], y[2], y[3]>>
  <2>1. PICK x \in P : y = <<x[1], x[2], Said(x[1], x[2])>>
    BY <1>3, <1>5
  <2>2. y[1] = x[1] /\ y[2] = x[2] /\ y[3] = Said(x[1], x[2])
    BY <2>1
  <2>3. QED
    BY <1>4, <2>1, <2>2
<1>6. ASSUME NEW f \in M, NEW q \in Asked(f) PROVE <<f, q, Said(f, q)>> \in SaidIn(M)
  <2>1. PICK x : x = <<f, q>>
    OBVIOUS
  <2>2. x \in P /\ x[1] = f /\ x[2] = q
    BY <1>4, <2>1
  <2>3. <<x[1], x[2], Said(x[1], x[2])>> \in SaidIn(M)
    BY <1>3, <2>2
  <2>4. QED
    BY <2>2, <2>3
<1>7. QED
  BY <1>5, <1>6

LEMMA CoverageMatched ==
    ASSUME NEW M, IsFiniteSet(M), NEW cells, cells = CellsSeen(M), DOMAIN cells = M, NEW level,
           \A f \in M : /\ IsFiniteSet(cells[f]) /\ MatchedCells(cells[f], f)
                        /\ SameLines(cells[f], f, level)
                        /\ \A c \in cells[f] : c.state \in CellStateNames
    PROVE  CoverageRight(M, level, SaidIn(M))
<1>1. PICK A : A = PairsIn(cells, M)
  OBVIOUS
<1>2. PICK B : B = SaidIn(M)
  OBVIOUS
<1>3. /\ \A x \in A : x[1] \in M /\ x[2] \in cells[x[1]] /\ x = <<x[1], x[2]>>
      /\ \A f \in M : \A c \in cells[f] : <<f, c>> \in A
  BY <1>1, PairsInIs
<1>4. /\ \A y \in B : /\ y[1] \in M /\ y[2] \in Asked(y[1])
                      /\ y[3] = Said(y[1], y[2]) /\ y = <<y[1], y[2], y[3]>>
      /\ \A f \in M : \A q \in Asked(f) : <<f, q, Said(f, q)>> \in B
  BY <1>2, SaidInIs
<1>5. IsFiniteSet(A)
  BY <1>1, PairsInAreFinite
<1> DEFINE keyOf(x) == CoverageKey(CoverageColumns(x[2]), level)
           lineOf(y) == LineOf(y[2], level)
           questionOf(x) == CHOOSE q \in Asked(x[1]) : q.id = x[2].question
           cellOf(y) == CHOOSE c \in cells[y[1]] : c.question = y[2].id
           up == [x \in A |-> <<x[1], questionOf(x), x[2].state>>]
           down == [y \in B |-> <<y[1], cellOf(y)>>]
<1>6. ASSUME NEW x \in A
      PROVE  /\ questionOf(x) \in Asked(x[1]) /\ questionOf(x).id = x[2].question
             /\ x[2].state = Said(x[1], questionOf(x))
             /\ keyOf(x) = LineOf(questionOf(x), level)
  <2>1. x[1] \in M /\ x[2] \in cells[x[1]]
    BY <1>3
  <2>2. MatchedCells(cells[x[1]], x[1]) /\ SameLines(cells[x[1]], x[1], level)
    BY <2>1
  <2>3. PICK q \in Asked(x[1]) : x[2].question = q.id /\ x[2].state = Said(x[1], q)
    BY <2>1, <2>2 DEF MatchedCells
  <2>4. PICK r : r = questionOf(x)
    OBVIOUS
  <2>5. r \in Asked(x[1]) /\ r.id = x[2].question
    BY <2>3, <2>4
  <2>6. r = q
    BY <2>2, <2>3, <2>5 DEF MatchedCells
  <2>7. CoverageKey(CoverageColumns(x[2]), level) = LineOf(r, level)
    BY <2>1, <2>2, <2>5 DEF SameLines
  <2>8. QED
    BY <2>3, <2>4, <2>5, <2>6, <2>7
<1>7. ASSUME NEW y \in B
      PROVE  cellOf(y) \in cells[y[1]] /\ cellOf(y).question = y[2].id
  <2>1. y[1] \in M /\ y[2] \in Asked(y[1])
    BY <1>4
  <2>2. MatchedCells(cells[y[1]], y[1])
    BY <2>1
  <2>3. \E c \in cells[y[1]] : c.question = y[2].id
    BY <2>1, <2>2 DEF MatchedCells
  <2>4. QED
    BY <2>3
<1>8. \A x \in A : up[x] = <<x[1], questionOf(x), x[2].state>>
  OBVIOUS
<1>9. \A y \in B : down[y] = <<y[1], cellOf(y)>>
  OBVIOUS
<1>10. \A x \in A : up[x] \in B
  BY <1>3, <1>4, <1>6, <1>8
<1>11. \A y \in B : down[y] \in A
  BY <1>3, <1>4, <1>7, <1>9
<1> HIDE DEF up, down, questionOf, cellOf
<1>12. ASSUME NEW x \in A PROVE down[up[x]] = x
  <2>1. PICK y : y = up[x]
    OBVIOUS
  <2>2. y \in B /\ y[1] = x[1] /\ y[2] = questionOf(x)
    BY <1>8, <1>10, <2>1
  <2>3. cellOf(y) \in cells[x[1]] /\ x[2] \in cells[x[1]] /\ x[1] \in M
    BY <1>3, <1>7, <2>2
  <2>4. cellOf(y).question = x[2].question
    BY <1>6, <1>7, <2>2
  <2>5. MatchedCells(cells[x[1]], x[1])
    BY <2>3
  <2>6. cellOf(y) = x[2]
    BY <2>3, <2>4, <2>5 DEF MatchedCells
  <2>7. down[y] = <<x[1], x[2]>>
    BY <1>9, <2>2, <2>6
  <2>8. QED
    BY <1>3, <2>1, <2>7
<1>13. ASSUME NEW y \in B PROVE up[down[y]] = y
  <2>1. PICK x : x = down[y]
    OBVIOUS
  <2>2. x \in A /\ x[1] = y[1] /\ x[2] = cellOf(y)
    BY <1>9, <1>11, <2>1
  <2>3. questionOf(x) \in Asked(y[1]) /\ y[2] \in Asked(y[1]) /\ y[1] \in M
    BY <1>4, <1>6, <2>2
  <2>4. questionOf(x).id = y[2].id
    BY <1>6, <1>7, <2>2
  <2>5. MatchedCells(cells[y[1]], y[1])
    BY <2>3
  <2>6. questionOf(x) = y[2]
    BY <2>3, <2>4, <2>5 DEF MatchedCells
  <2>7. x[2].state = y[3]
    BY <1>4, <1>6, <2>2, <2>6
  <2>8. up[x] = <<y[1], y[2], y[3]>>
    BY <1>8, <2>2, <2>6, <2>7
  <2>9. QED
    BY <1>4, <2>1, <2>8
<1>14. \A x \in A : keyOf(x) = lineOf(up[x]) /\ x[2].state = up[x][3]
  BY <1>6, <1>8
<1>15. \A y \in B : keyOf(down[y]) = lineOf(y) /\ down[y][2].state = y[3]
  BY <1>11, <1>13, <1>14
<1> HIDE DEF keyOf, lineOf
<1>16. PICK view : view = Coverage(cells, level, "any", Cardinality(M))
  OBVIOUS
<1>17. CoverageCounts(view, A, level)
  <2>1. \A x \in A : x[2].state \in CellStateNames
    BY <1>3
  <2>2. QED
    BY <1>1, <1>5, <1>16, <2>1, CoverageCounted
<1>18. DOMAIN view.rows = {lineOf(y) : y \in B}
  <2>1. DOMAIN view.rows = {keyOf(x) : x \in A}
    BY <1>17 DEF CoverageCounts, keyOf
  <2>2. QED
    BY <1>10, <1>11, <1>14, <1>15, <2>1
<1>19. view.cells = Cardinality(B)
  <2>1. Cardinality(A) = Cardinality(B)
    <3>1. Matching(A, B, up, down)
      BY <1>10, <1>11, <1>12, <1>13 DEF Matching
    <3>2. QED
      BY <1>5, <3>1, MatchedCardinality
  <2>2. QED
    BY <1>17, <2>1 DEF CoverageCounts
<1>20. ASSUME NEW line \in DOMAIN view.rows, NEW s \in CellStateNames
       PROVE  view.rows[line].counts[s] = Cardinality({y \in {y \in B : lineOf(y) = line} : y[3] = s})
  <2>1. PICK S : S = InState(InLine(A, level, line), s)
    OBVIOUS
  <2>2. PICK T : T = {y \in {y \in B : lineOf(y) = line} : y[3] = s}
    OBVIOUS
  <2>3. S = {x \in A : keyOf(x) = line /\ x[2].state = s}
    BY <2>1 DEF InState, InLine, keyOf
  <2>4. IsFiniteSet(S)
    BY <1>5, <2>3, FS_Subset
  <2>5. \A x \in S : up[x] \in T /\ down[up[x]] = x
    BY <1>10, <1>12, <1>14, <2>2, <2>3
  <2>6. \A y \in T : down[y] \in S /\ up[down[y]] = y
    BY <1>11, <1>13, <1>15, <2>2, <2>3
  <2>7. Cardinality(S) = Cardinality(T)
    <3>1. Matching(S, T, up, down)
      BY <2>5, <2>6 DEF Matching
    <3>2. QED
      BY <2>4, <3>1, MatchedCardinality
  <2>8. view.rows[line].counts[s] = Cardinality(S)
    BY <1>17, <2>1 DEF CoverageCounts
  <2>9. QED
    BY <2>2, <2>7, <2>8
<1> USE DEF lineOf
<1>21. QED
  BY <1>2, <1>16, <1>18, <1>19, <1>20, Zenon DEF CoverageRight

-----------------------------------------------------------------------------
(* What a FIP says to a question, and its cell *)

StateOf(answers, q) ==
    CellState(DeclarationsOf(AnswerTo(answers, q.id)), AnswerTo(answers, q.id).notApplicable)

LEMMA SaysCurrent == ASSUME NEW f, NEW q PROVE Says(f, q, "current") <=> InUse(f, q)
  BY Zenon DEF Says
LEMMA SaysPlanned ==
    ASSUME NEW f, NEW q
    PROVE  Says(f, q, "planned") <=> Plans(f, q) /\ ~InUse(f, q)
  BY Zenon DEF Says
LEMMA SaysNone ==
    ASSUME NEW f, NEW q
    PROVE  Says(f, q, "none") <=> Declared(f, q) # {} /\ ~InUse(f, q) /\ ~Plans(f, q)
  BY Zenon DEF Says
LEMMA SaysNotApplicable ==
    ASSUME NEW f, NEW q
    PROVE  Says(f, q, "not-applicable") <=>
               Declared(f, q) = {} /\ AnswerTo(TextOf(f).answers, q.id).notApplicable
  BY Zenon DEF Says
LEMMA SaysUnanswered ==
    ASSUME NEW f, NEW q
    PROVE  Says(f, q, "unanswered") <=>
               Declared(f, q) = {} /\ ~AnswerTo(TextOf(f).answers, q.id).notApplicable
  BY Zenon DEF Says
LEMMA SaysAbsent == ASSUME NEW f, NEW q PROVE ~Says(f, q, "absent")
  BY Zenon DEF Says

LEMMA CountIsPositive ==
    ASSUME NEW d, IsList(d), NEW statuses
    PROVE  /\ CountOf(d, statuses) > 0 <=> \E e \in {d[i] : i \in DOMAIN d} : e.status \in statuses
           /\ d # <<>> <=> {d[i] : i \in DOMAIN d} # {}
           /\ DOMAIN d = 1..Len(d)
<1>1. d \in Seq(Range(d)) /\ DOMAIN d = 1..Len(d) /\ Len(d) \in Nat
  BY DEF IsList
<1>2. PICK at : at = {i \in 1..Len(d) : d[i].status \in statuses}
  OBVIOUS
<1>3. IsFiniteSet(at)
  <2>1. IsFiniteSet(1..Len(d))
    BY <1>1, FS_Interval
  <2>2. QED
    BY <1>2, <2>1, FS_Subset
<1>4. Cardinality(at) \in Nat /\ (Cardinality(at) = 0 <=> at = {})
  BY <1>3, FS_CardinalityType, FS_EmptySet
<1>5. CountOf(d, statuses) > 0 <=> at # {}
  BY <1>2, <1>4 DEF CountOf
<1>6. at # {} <=> \E e \in {d[i] : i \in DOMAIN d} : e.status \in statuses
  BY <1>1, <1>2
<1>7. d # <<>> <=> {d[i] : i \in DOMAIN d} # {}
  BY <1>1
<1>8. QED
  BY <1>1, <1>5, <1>6, <1>7

LEMMA StateIsSaid ==
    ASSUME NEW f, WellFormed(TextOf(f).answers), NEW q
    PROVE  Said(f, q) = StateOf(TextOf(f).answers, q) /\ Said(f, q) \in CellStateNames
<1>1. PICK a : a = AnswerTo(TextOf(f).answers, q.id)
  OBVIOUS
<1>2. PICK d : d = a.declarations
  OBVIOUS
<1>3. IsList(d)
  BY <1>1, <1>2, AnswerIsList
<1>4. Declared(f, q) = {d[i] : i \in DOMAIN d}
  BY <1>1, <1>2 DEF Declared
<1>5. PICK s : s = StateOf(TextOf(f).answers, q)
  OBVIOUS
<1>6. s = CellState(d, a.notApplicable)
  BY <1>1, <1>2, <1>5 DEF StateOf, DeclarationsOf
<1>7. CountOf(d, {"current"}) > 0 <=> InUse(f, q)
  BY <1>3, <1>4, CountIsPositive DEF InUse
<1>8. CountOf(d, PlannedStatuses) > 0 <=> Plans(f, q)
  BY <1>3, <1>4, CountIsPositive DEF Plans
<1>9. d # <<>> <=> Declared(f, q) # {}
  BY <1>3, <1>4, CountIsPositive
<1>10. (InUse(f, q) \/ Plans(f, q)) => Declared(f, q) # {}
  BY DEF InUse, Plans
<1>11. s = IF InUse(f, q) THEN "current" ELSE IF Plans(f, q) THEN "planned"
           ELSE IF Declared(f, q) # {} THEN "none"
           ELSE IF AnswerTo(TextOf(f).answers, q.id).notApplicable THEN "not-applicable" ELSE "unanswered"
  BY <1>1, <1>6, <1>7, <1>8, <1>9 DEF CellState
<1>12. s \in CellStateNames /\ Says(f, q, s)
  BY <1>11, SaysCurrent, SaysPlanned, SaysNone, SaysNotApplicable, SaysUnanswered DEF CellStateNames
<1>13. ASSUME NEW t \in CellStateNames, Says(f, q, t) PROVE t = s
  <2>1. \/ t = "current" \/ t = "planned" \/ t = "none" \/ t = "not-applicable" \/ t = "unanswered"
        \/ t = "absent"
    BY DEF CellStateNames
  <2>2. QED
    BY <1>10, <1>11, <1>13, <2>1, SaysCurrent, SaysPlanned, SaysNone, SaysNotApplicable,
       SaysUnanswered, SaysAbsent
<1>14. QED
  BY <1>5, <1>12, <1>13 DEF Said

(* The questions of a content, by position *)
ContentSeen(f) == IF content[TextOf(f).ref] = None THEN <<>> ELSE content[TextOf(f).ref]

LEMMA AskedByPosition ==
    ASSUME NEW f, content[TextOf(f).ref] = None \/ IsContent(content[TextOf(f).ref])
    PROVE  /\ IsContent(ContentSeen(f)) /\ IsFiniteSet(Visible(ContentSeen(f)))
           /\ Asked(f) = {ContentSeen(f)[i] : i \in Visible(ContentSeen(f))}
           /\ \A i, j \in Visible(ContentSeen(f)) : ContentSeen(f)[i].id = ContentSeen(f)[j].id => i = j
           /\ \A q, r \in Asked(f) : q.id = r.id => q = r
<1>1. PICK c : c = ContentSeen(f)
  OBVIOUS
<1>2. IsContent(c)
  BY <1>1 DEF ContentSeen, IsContent, IsList, Range
<1>3. IsFiniteSet(Visible(c))
  BY <1>2, VisibleIsFinite DEF IsContent
<1>4. Asked(f) = {c[i] : i \in Visible(c)}
  <2>1. CASE content[TextOf(f).ref] = None
    BY <1>1, <2>1 DEF ContentSeen, Asked, Visible
  <2>2. CASE content[TextOf(f).ref] # None
    BY <1>1, <2>2 DEF ContentSeen, Asked, Visible
  <2>3. QED
    BY <2>1, <2>2
<1>5. \A i, j \in Visible(c) : c[i].id = c[j].id => i = j
  BY <1>2 DEF IsContent, Visible
<1>6. \A q, r \in Asked(f) : q.id = r.id => q = r
  BY <1>4, <1>5
<1>7. QED
  BY <1>1, <1>2, <1>3, <1>4, <1>5, <1>6

(* The cells of a row that check-declarations has nothing to say of *)
Answers(f) == TextOf(f).answers

LEMMA CellsOfIs ==
    ASSUME NEW c, IsContent(c), NEW answers
    PROVE  /\ CellStates(CellsOf(c, answers)) = {<<c[i].id, StateOf(answers, c[i])>> : i \in Visible(c)}
           /\ Cardinality(CellsOf(c, answers)) <= Cardinality({c[i].id : i \in Visible(c)})
           /\ Cardinality(CellsOf(c, answers)) \in Nat
           /\ Cardinality({c[i].id : i \in Visible(c)}) \in Nat
<1> DEFINE cell(i) == Cell(QuestionColumns(c, i), AnswerTo(answers, c[i].id))
           V == Visible(c)
           ids == {c[i].id : i \in V}
           at == [x \in ids |-> CHOOSE i \in V : c[i].id = x]
           h == [x \in ids |-> cell(at[x])]
           idOf == [i \in V |-> c[i].id]
<1>1. \A i \in V : cell(i).question = c[i].id /\ cell(i).state = StateOf(answers, c[i])
  BY DEF Cell, QuestionColumns, StateOf
<1>2. CellsOf(c, answers) = {cell(i) : i \in V}
  BY DEF CellsOf
<1>3. IsFiniteSet(V)
  BY VisibleIsFinite DEF IsContent
<1>4. \A i, j \in V : c[i].id = c[j].id => i = j
  BY DEF IsContent, Visible
<1>5. \A i \in V : at[c[i].id] = i
  BY <1>4
<1>6. ids = {idOf[i] : i \in V}
  OBVIOUS
<1>7. \A x \in ids : at[x] \in V
  BY <1>5
<1>8. \A x \in ids : h[x] = cell(at[x])
  OBVIOUS
<1> HIDE DEF cell, V, at, h, idOf
<1>9. CellsOf(c, answers) = {h[x] : x \in ids}
  BY <1>2, <1>5, <1>7, <1>8
<1>10. IsFiniteSet(ids)
  <2> HIDE DEF ids
  <2>1. QED
    BY <1>3, <1>6, ImageFinite
<1>11. CellStates(CellsOf(c, answers)) = {<<c[i].id, StateOf(answers, c[i])>> : i \in V}
  BY <1>1, <1>2 DEF CellStates
<1> HIDE DEF ids
<1>12. Cardinality(CellsOf(c, answers)) <= Cardinality(ids) /\ IsFiniteSet(CellsOf(c, answers))
  BY <1>9, <1>10, ImageCardinality, ImageFinite
<1>13. Cardinality(CellsOf(c, answers)) \in Nat /\ Cardinality(ids) \in Nat
  BY <1>10, <1>12, FS_CardinalityType
<1>14. QED
  BY <1>11, <1>12, <1>13 DEF ids, V

LEMMA CleanCells ==
    ASSUME NEW f, content[TextOf(f).ref] = None \/ IsContent(content[TextOf(f).ref]),
           WellFormed(Answers(f)), NEW cs, IsFiniteSet(cs),
           CellStates(cs) = CellStates(CellsOf(ContentSeen(f), Answers(f))),
           Cardinality(cs) = Cardinality(CellsOf(ContentSeen(f), Answers(f)))
    PROVE  MatchedCells(cs, f) /\ \A c \in cs : c.state \in CellStateNames
<1>1. PICK c : c = ContentSeen(f)
  OBVIOUS
<1>2. PICK V : V = Visible(c)
  OBVIOUS
<1>3. /\ IsContent(c)
      /\ Asked(f) = {c[i] : i \in V}
      /\ \A q, r \in Asked(f) : q.id = r.id => q = r
  BY <1>1, <1>2, AskedByPosition
<1>4. \A q \in Asked(f) : Said(f, q) = StateOf(Answers(f), q) /\ Said(f, q) \in CellStateNames
  BY StateIsSaid DEF Answers
<1>5. CellStates(cs) = {<<c[i].id, StateOf(Answers(f), c[i])>> : i \in V}
  <2>1. CellStates(cs) = CellStates(CellsOf(c, Answers(f)))
    BY <1>1
  <2>2. CellStates(CellsOf(c, Answers(f))) = {<<c[i].id, StateOf(Answers(f), c[i])>> : i \in Visible(c)}
    BY <1>3, CellsOfIs, Zenon
  <2>3. QED
    BY <1>2, <2>1, <2>2
<1>6. ASSUME NEW d \in cs PROVE \E q \in Asked(f) : d.question = q.id /\ d.state = Said(f, q)
  <2>1. <<d.question, d.state>> \in CellStates(cs)
    BY DEF CellStates
  <2>2. PICK i \in V : <<d.question, d.state>> = <<c[i].id, StateOf(Answers(f), c[i])>>
    BY <1>5, <2>1
  <2>3. c[i] \in Asked(f)
    BY <1>3
  <2>4. QED
    BY <1>4, <2>2, <2>3
<1>7. ASSUME NEW q \in Asked(f) PROVE \E d \in cs : d.question = q.id
  <2>1. PICK i \in V : q = c[i]
    BY <1>3
  <2>2. <<c[i].id, StateOf(Answers(f), c[i])>> \in CellStates(cs)
    BY <1>5
  <2>3. PICK d \in cs : <<c[i].id, StateOf(Answers(f), c[i])>> = <<d.question, d.state>>
    BY <2>2 DEF CellStates
  <2>4. QED
    BY <2>1, <2>3
<1> DEFINE idOf == [d \in cs |-> d.question]
<1>8. {idOf[d] : d \in cs} = {c[i].id : i \in V}
  <2>1. ASSUME NEW d \in cs PROVE d.question \in {c[i].id : i \in V}
    BY <1>3, <1>6
  <2>2. ASSUME NEW i \in V PROVE \E d \in cs : d.question = c[i].id
    BY <1>3, <1>7
  <2>3. QED
    BY <2>1, <2>2
<1>9. Cardinality(cs) <= Cardinality({idOf[d] : d \in cs})
  <2> HIDE DEF idOf
  <2>1. QED
    BY <1>1, <1>2, <1>3, <1>8, CellsOfIs
<1>10. ASSUME NEW d \in cs, NEW e \in cs, d.question = e.question PROVE d = e
  <2>1. idOf[d] = idOf[e]
    BY <1>10
  <2> HIDE DEF idOf
  <2>2. QED
    BY <1>9, <2>1, ImageInjective
<1>11. MatchedCells(cs, f)
  BY <1>3, <1>6, <1>7, <1>10 DEF MatchedCells
<1>12. QED
  BY <1>4, <1>6, <1>11

LEMMA ByQuestion ==
    ASSUME NEW c, NEW q
    PROVE  /\ CoverageKey(CoverageColumns(c), "question") = <<"q", c.question>>
           /\ LineOf(q, "question") = <<"q", q.id>>
<1>1. CoverageColumns(c).question = c.question
  BY DEF CoverageColumns
<1>2. PICK row : row = CoverageColumns(c)
  OBVIOUS
<1>3. CoverageKey(row, "question") = IF None # None THEN <<"p", None>> ELSE <<"q", row.question>>
  BY Zenon DEF CoverageKey
<1>4. LineOf(q, "question") = <<"q", q.id>>
  BY DEF LineOf
<1>5. QED
  BY <1>1, <1>2, <1>3, <1>4

-----------------------------------------------------------------------------
(* The resources in use, in a row that check-declarations has nothing to   *)
(* say of                                                                  *)
UsesAt(f, id, key) == \E q \in Asked(f) : q.id = id /\ Uses(f, q, key, "current")

LEMMA CurrentOfIs ==
    ASSUME NEW f, content[TextOf(f).ref] = None \/ IsContent(content[TextOf(f).ref]),
           WellFormed(Answers(f)), NEW id, NEW key
    PROVE  <<id, key>> \in CurrentPairs(DeclarationRowsOf(ContentSeen(f), Answers(f)))
               <=> UsesAt(f, id, key)
<1>1. PICK c : c = ContentSeen(f)
  OBVIOUS
<1>2. PICK V : V = Visible(c)
  OBVIOUS
<1>3. Asked(f) = {c[i] : i \in V}
  BY <1>1, <1>2, AskedByPosition
<1> DEFINE decls(i) == DeclarationsOf(AnswerTo(Answers(f), c[i].id))
           rowsAt(i) == {Declaration(QuestionColumns(c, i), j, decls(i)[j]) : j \in 1..Len(decls(i))}
<1>4. PICK D : D = DeclarationRowsOf(c, Answers(f))
  OBVIOUS
<1>5. D = UNION {rowsAt(i) : i \in V}
  BY <1>2, <1>4 DEF DeclarationRowsOf
<1>6. ASSUME NEW i \in V
      PROVE  /\ DOMAIN decls(i) = 1..Len(decls(i))
             /\ Declared(f, c[i]) = {decls(i)[j] : j \in 1..Len(decls(i))}
  <2>1. PICK d : d = AnswerTo(Answers(f), c[i].id).declarations
    OBVIOUS
  <2>2. IsList(d)
    BY <2>1, AnswerIsList
  <2>3. DOMAIN d = 1..Len(d)
    BY <2>2 DEF IsList
  <2>4. Declared(f, c[i]) = {d[j] : j \in DOMAIN d}
    BY <2>1 DEF Declared, Answers
  <2>5. decls(i) = d
    BY <2>1 DEF DeclarationsOf
  <2> HIDE DEF decls
  <2>6. QED
    BY <2>3, <2>4, <2>5
<1>7. ASSUME NEW i \in V, NEW j
      PROVE  LET d == Declaration(QuestionColumns(c, i), j, decls(i)[j]) IN
             d.question = c[i].id /\ d.key = KeyOf(decls(i)[j]) /\ d.status = decls(i)[j].status
  BY DEF Declaration, QuestionColumns, KeyOf
<1>8. ASSUME <<id, key>> \in CurrentPairs(D) PROVE UsesAt(f, id, key)
  <2>1. PICK d \in D : <<id, key>> = <<d.question, d.key>> /\ d.status = "current"
    BY <1>8 DEF CurrentPairs
  <2>2. PICK i \in V : d \in rowsAt(i)
    BY <1>5, Zenon
  <2>3. PICK j \in 1..Len(decls(i)) : d = Declaration(QuestionColumns(c, i), j, decls(i)[j])
    BY <2>2
  <2>4. d.question = c[i].id /\ d.key = KeyOf(decls(i)[j]) /\ d.status = decls(i)[j].status
    BY <1>7, <2>3
  <2> HIDE DEF decls
  <2>5. decls(i)[j] \in Declared(f, c[i]) /\ c[i] \in Asked(f)
    BY <1>3, <1>6
  <2>6. c[i].id = id /\ Uses(f, c[i], key, "current")
    BY <2>1, <2>4, <2>5 DEF Uses
  <2>7. QED
    BY <2>5, <2>6 DEF UsesAt
<1>9. ASSUME UsesAt(f, id, key) PROVE <<id, key>> \in CurrentPairs(D)
  <2>1. PICK q \in Asked(f) : q.id = id /\ Uses(f, q, key, "current")
    BY <1>9 DEF UsesAt
  <2>2. PICK i \in V : q = c[i]
    BY <1>3, <2>1
  <2>3. PICK e \in Declared(f, q) : KeyOf(e) = key /\ e.status = "current"
    BY <2>1 DEF Uses
  <2> HIDE DEF decls
  <2>4. PICK j \in 1..Len(decls(i)) : e = decls(i)[j]
    BY <1>6, <2>2, <2>3
  <2>5. PICK d : d = Declaration(QuestionColumns(c, i), j, decls(i)[j])
    OBVIOUS
  <2>6. d.question = c[i].id /\ d.key = KeyOf(decls(i)[j]) /\ d.status = decls(i)[j].status
    BY <1>7, <2>5
  <2>7. d \in rowsAt(i)
    BY <2>5
  <2> HIDE DEF rowsAt
  <2>8. d \in D
    BY <1>5, <2>7, Zenon
  <2>9. <<d.question, d.key>> \in CurrentPairs(D)
    BY <2>3, <2>4, <2>6, <2>8 DEF CurrentPairs
  <2>10. QED
    BY <2>1, <2>2, <2>3, <2>4, <2>6, <2>9
<1>10. QED
  BY <1>1, <1>4, <1>8, <1>9

(* Of what is neither the sentinel of a question, the tokens tell.         *)
LEMMA KeyIsNotNA == ASSUME NEW d, Keyed(d) PROVE d.key # NA
<1>1. PICK text : d.key = ConvergenceKey(d.ferId, text, d.status)
  BY DEF Keyed
<1>2. \/ \E v : d.key = <<"fer", v>>
      \/ \E v : d.key = <<"text", v>>
      \/ \E v : d.key = <<"none", v>>
  BY <1>1 DEF ConvergenceKey
<1>3. \A v, w : <<v, w>> # <<"NA">>
  OBVIOUS
<1>4. QED
  BY <1>2, <1>3 DEF NA

LEMMA SameTokens ==
    ASSUME NEW cells, NEW decls, \A d \in decls : Keyed(d),
           NEW cells2, NEW decls2, \A d \in decls2 : Keyed(d),
           Tokens(cells, decls) = Tokens(cells2, decls2)
    PROVE  CurrentPairs(decls) = CurrentPairs(decls2)
<1> DEFINE NAs(cs) == {<<c.question, NA>> : c \in {c \in cs : c.notApplicable}}
<1>1. \A cs, ds : Tokens(cs, ds) = CurrentPairs(ds) \cup NAs(cs)
  BY DEF Tokens
<1>2. \A cs : \A p \in NAs(cs) : p[2] = NA
  OBVIOUS
<1>3. ASSUME NEW ds, \A d \in ds : Keyed(d), NEW p \in CurrentPairs(ds) PROVE p[2] # NA
  <2>1. PICK d \in ds : p = <<d.question, d.key>>
    BY <1>3 DEF CurrentPairs
  <2>2. d.key # NA
    BY <1>3, KeyIsNotNA
  <2>3. QED
    BY <2>1, <2>2
<1> HIDE DEF NAs
<1>4. \A p \in CurrentPairs(decls) : p \in CurrentPairs(decls2)
  BY <1>1, <1>2, <1>3
<1>5. \A p \in CurrentPairs(decls2) : p \in CurrentPairs(decls)
  BY <1>1, <1>2, <1>3
<1>6. QED
  BY <1>4, <1>5

(* In the rows, a key has one resource.                                    *)
LEMMA OneResource ==
    ASSUME NEW d, Keyed(d), NEW e, Keyed(e), d.key = e.key
    PROVE  d.ferId = e.ferId
<1>1. PICK s : d.key = ConvergenceKey(d.ferId, s, d.status)
  BY DEF Keyed
<1>2. PICK t : e.key = ConvergenceKey(e.ferId, t, e.status)
  BY DEF Keyed
<1>3. d.ferId = IF d.key[1] = "fer" THEN d.key[2] ELSE None
  BY <1>1 DEF ConvergenceKey
<1>4. e.ferId = IF e.key[1] = "fer" THEN e.key[2] ELSE None
  BY <1>2 DEF ConvergenceKey
<1>5. QED
  BY <1>3, <1>4

-----------------------------------------------------------------------------
(* The adoption of what is in use *)

CurrentKeyIn(R, f, key) == \E d \in R[f].declarations : d.status = "current" /\ d.key = key

LinesOf(view, key) == {l \in DOMAIN view : l.group = key /\ l.key = key /\ l.status = "current"}

AdoptionCounts(view, R, M) ==
    \A key :
        (\E f \in M : CurrentKeyIn(R, f, key)) =>
            /\ Cardinality(LinesOf(view, key)) = 1
            /\ \A l \in LinesOf(view, key) :
                  view[l].fips = Cardinality({f \in M : CurrentKeyIn(R, f, key)})

LEMMA ByResource ==
    ASSUME NEW d, NEW area
    PROVE  AdoptionKey(d, area, "fer", FALSE) =
               [group |-> d.key, key |-> d.key, ferId |-> d.ferId, status |-> d.status, ferType |-> None]
  BY Zenon DEF AdoptionKey

(* The lines of the view, without the operators it hands on                *)
LinedUp(decls, areas, level, byType) ==
    [f \in DOMAIN decls |->
        {<<AdoptionKey(d, areas[f], level, byType), d>> : d \in {d \in decls[f] : Wanted(d, "any", "any")}}]

AreLines(view, keyed, all) ==
    /\ DOMAIN view = {fx[2][1] : fx \in all}
    /\ \A l \in DOMAIN view :
          view[l].fips = Cardinality({f \in DOMAIN keyed : \E x \in keyed[f] : x[1] = l})

LEMMA RowsAreLines ==
    ASSUME NEW decls, NEW areas, NEW level, NEW byType, NEW keyed,
           keyed = LinedUp(decls, areas, level, byType),
           NEW all, all = PairsIn(keyed, DOMAIN keyed),
           NEW view, view = AdoptionRows(decls, areas, level, "any", "any", byType)
    PROVE  AreLines(view, keyed, all)
<1> DEFINE lined == LinedUp(decls, areas, level, byType)
           every(k) == UNION {{<<f, x>> : x \in k[f]} : f \in DOMAIN k}
           counts(k) == [l \in {fx[2][1] : fx \in every(k)} |->
                            Cardinality({fx \in every(k) : fx[2][1] = l})]
           with(k, l) == Cardinality({f \in DOMAIN k : \E x \in k[f] : x[1] = l})
           lines(k) == [l \in DOMAIN counts(k) |-> [fips |-> with(k, l), declarations |-> counts(k)[l]]]
<1>1. AdoptionRows(decls, areas, level, "any", "any", byType) = lines(lined)
  BY DEF AdoptionRows, LinedUp, Tally, FipsWith
<1>2. view = lines(keyed)
  <2> HIDE DEF lined, lines
  <2>1. keyed = lined
    BY DEF lined
  <2>2. QED
    BY <1>1, <2>1
<1>3. counts(keyed) = [l \in {fx[2][1] : fx \in all} |-> Cardinality({fx \in all : fx[2][1] = l})]
  BY DEF PairsIn
<1>4. DOMAIN counts(keyed) = {fx[2][1] : fx \in all}
  BY <1>3
<1> HIDE DEF counts
<1>5. QED
  BY <1>2, <1>4 DEF AreLines

LEMMA AdoptionCounted ==
    ASSUME NEW M, NEW R, \A f \in M : KeyedRow(R[f]), NEW areas,
           NEW decls, DOMAIN decls = M, \A f \in M : decls[f] = R[f].declarations
    PROVE  AdoptionCounts(AdoptionLive(decls, areas, "fer", "any", "any"), R, M)
<1> DEFINE lineOf(d) == [group |-> d.key, key |-> d.key, ferId |-> d.ferId, status |-> d.status,
                         ferType |-> None]
<1>1. PICK view : view = AdoptionRows(decls, areas, "fer", "any", "any", FALSE)
  OBVIOUS
<1>2. AdoptionLive(decls, areas, "fer", "any", "any") = view
  <2>1. ("fer" \in {"ferType", "question"}) = FALSE
    OBVIOUS
  <2>2. QED
    BY <1>1, <2>1, Zenon DEF AdoptionLive
<1>3. PICK keyed : keyed = LinedUp(decls, areas, "fer", FALSE)
  OBVIOUS
<1>4. PICK all : all = PairsIn(keyed, DOMAIN keyed)
  OBVIOUS
<1>5. /\ DOMAIN view = {fx[2][1] : fx \in all}
      /\ \A l \in DOMAIN view :
            view[l].fips = Cardinality({f \in DOMAIN keyed : \E x \in keyed[f] : x[1] = l})
  <2>1. AreLines(view, keyed, all)
    BY <1>1, <1>3, <1>4, RowsAreLines
  <2>2. QED
    BY <2>1 DEF AreLines
<1>6. DOMAIN keyed = M /\ \A f \in M : keyed[f] = {<<lineOf(d), d>> : d \in decls[f]}
  <2>1. \A d : Wanted(d, "any", "any")
    BY DEF Wanted
  <2>2. \A f, d : AdoptionKey(d, areas[f], "fer", FALSE) = lineOf(d)
    BY ByResource
  <2> HIDE DEF lineOf
  <2>3. QED
    BY <1>3, <2>1, <2>2 DEF LinedUp
<1>7. /\ \A fx \in all : fx[1] \in M /\ fx[2] \in keyed[fx[1]]
      /\ \A f \in M : \A x \in keyed[f] : <<f, x>> \in all
  <2>1. DOMAIN keyed = M
    BY <1>6
  <2>2. all = PairsIn(keyed, M)
    BY <1>4, <2>1
  <2>3. QED
    BY <2>2, PairsInIs
<1>8. ASSUME NEW f \in M, NEW d \in decls[f] PROVE lineOf(d) \in DOMAIN view
  <2>1. PICK x : x = <<lineOf(d), d>>
    OBVIOUS
  <2>2. x \in keyed[f]
    BY <1>6, <2>1
  <2>3. <<f, x>> \in all
    BY <1>7, <2>2
  <2>4. PICK fx \in all : fx = <<f, x>>
    BY <2>3
  <2>5. fx[2][1] = lineOf(d)
    BY <2>1, <2>4
  <2>6. QED
    BY <1>5, <2>4, <2>5
<1>9. ASSUME NEW l \in DOMAIN view PROVE \E f \in M : \E d \in decls[f] : l = lineOf(d)
  <2>1. PICK fx \in all : l = fx[2][1]
    BY <1>5
  <2>2. fx[1] \in M /\ fx[2] \in keyed[fx[1]]
    BY <1>7
  <2>3. PICK d \in decls[fx[1]] : fx[2] = <<lineOf(d), d>>
    BY <1>6, <2>2
  <2>4. QED
    BY <2>1, <2>2, <2>3
<1>10. ASSUME NEW key, NEW f \in M, CurrentKeyIn(R, f, key)
       PROVE  /\ Cardinality(LinesOf(view, key)) = 1
              /\ \A l \in LinesOf(view, key) :
                    view[l].fips = Cardinality({g \in M : CurrentKeyIn(R, g, key)})
  <2>1. PICK d \in R[f].declarations : d.status = "current" /\ d.key = key
    BY <1>10 DEF CurrentKeyIn
  <2>2. d \in decls[f] /\ Keyed(d)
    BY DEF KeyedRow
  <2>3. lineOf(d) \in LinesOf(view, key)
    BY <1>8, <2>1, <2>2 DEF LinesOf
  <2>4. ASSUME NEW g \in M, NEW e \in decls[g], e.status = "current", e.key = key
        PROVE  lineOf(e) = lineOf(d)
    <3>1. Keyed(e)
      BY DEF KeyedRow
    <3>2. e.ferId = d.ferId
      BY <2>1, <2>2, <2>4, <3>1, OneResource
    <3>3. QED
      BY <2>1, <2>4, <3>2
  <2>5. ASSUME NEW l \in LinesOf(view, key) PROVE l = lineOf(d)
    <3>1. l \in DOMAIN view /\ l.key = key /\ l.status = "current"
      BY DEF LinesOf
    <3>2. PICK g \in M : \E e \in decls[g] : l = lineOf(e)
      BY <1>9, <3>1
    <3>3. PICK e \in decls[g] : l = lineOf(e)
      BY <3>2
    <3>4. e.key = key /\ e.status = "current"
      BY <3>1, <3>3
    <3>5. QED
      BY <2>4, <3>3, <3>4
  <2>6. PICK one : one = lineOf(d)
    OBVIOUS
  <2>7. LinesOf(view, key) = {one}
    BY <2>3, <2>5, <2>6
  <2>8. Cardinality({one}) = 1
    BY FS_Singleton
  <2>9. one \in DOMAIN view /\ one.key = key /\ one.status = "current"
    BY <2>7 DEF LinesOf
  <2>10. ASSUME NEW g \in M
         PROVE  (\E x \in keyed[g] : x[1] = one) <=> CurrentKeyIn(R, g, key)
    <3>1. ASSUME NEW x \in keyed[g], x[1] = one PROVE CurrentKeyIn(R, g, key)
      <4>1. PICK e \in decls[g] : x = <<lineOf(e), e>>
        BY <1>6, <3>1
      <4>2. e.key = key /\ e.status = "current"
        BY <2>9, <3>1, <4>1
      <4>3. QED
        BY <4>2 DEF CurrentKeyIn
    <3>2. ASSUME CurrentKeyIn(R, g, key) PROVE \E x \in keyed[g] : x[1] = one
      <4>1. PICK e \in decls[g] : e.status = "current" /\ e.key = key
        BY <3>2 DEF CurrentKeyIn
      <4>2. lineOf(e) = one
        BY <2>4, <2>6, <4>1
      <4>3. <<lineOf(e), e>> \in keyed[g] /\ <<lineOf(e), e>>[1] = lineOf(e)
        BY <1>6
      <4>4. QED
        BY <4>2, <4>3
    <3>3. QED
      BY <3>1, <3>2
  <2>11. {g \in DOMAIN keyed : \E x \in keyed[g] : x[1] = one} = {g \in M : CurrentKeyIn(R, g, key)}
    BY <1>6, <2>10
  <2>12. view[one].fips = Cardinality({g \in M : CurrentKeyIn(R, g, key)})
    BY <1>5, <2>9, <2>11
  <2>13. QED
    BY <2>7, <2>8, <2>12
<1>11. QED
  BY <1>2, <1>10 DEF AdoptionCounts

(* Adoption is right where each FIP has the current declarations it says.  *)
SameUses(R, M) ==
    \A f \in M : \A id, key :
        <<id, key>> \in CurrentPairs(R[f].declarations) <=> UsesAt(f, id, key)

LEMMA GroupIsKey == ASSUME NEW f, NEW q, NEW key PROVE GroupOf(f, q, key, "fer") = key
  BY Zenon DEF GroupOf

LEMMA CurrentKeyIsUsed ==
    ASSUME NEW R, NEW M, SameUses(R, M), NEW f \in M, NEW key
    PROVE  CurrentKeyIn(R, f, key) <=> \E q \in Asked(f) : Uses(f, q, key, "current")
<1>1. ASSUME CurrentKeyIn(R, f, key) PROVE \E q \in Asked(f) : Uses(f, q, key, "current")
  <2>1. PICK d \in R[f].declarations : d.status = "current" /\ d.key = key
    BY <1>1 DEF CurrentKeyIn
  <2>2. <<d.question, key>> \in CurrentPairs(R[f].declarations)
    BY <2>1 DEF CurrentPairs
  <2>3. UsesAt(f, d.question, key)
    BY <2>2 DEF SameUses
  <2>4. QED
    BY <2>3 DEF UsesAt
<1>2. ASSUME NEW q \in Asked(f), Uses(f, q, key, "current") PROVE CurrentKeyIn(R, f, key)
  <2>1. UsesAt(f, q.id, key)
    BY <1>2 DEF UsesAt
  <2>2. <<q.id, key>> \in CurrentPairs(R[f].declarations)
    BY <2>1 DEF SameUses
  <2>3. PICK d \in R[f].declarations : <<q.id, key>> = <<d.question, d.key>> /\ d.status = "current"
    BY <2>2 DEF CurrentPairs
  <2>4. QED
    BY <2>3 DEF CurrentKeyIn
<1>3. QED
  BY <1>1, <1>2

LEMMA AdoptionMatched ==
    ASSUME NEW M, Tier(M) = "live", NEW R, \A f \in M : KeyedRow(R[f]), SameUses(R, M),
           DOMAIN DeclarationsSeen(M) = M,
           \A f \in M : DeclarationsSeen(M)[f] = R[f].declarations
    PROVE  AdoptionRight(M, "fer", {"current"})
<1>1. PICK view : view = Adoption(M, "fer", "any", "any")
  OBVIOUS
<1>2. AdoptionCounts(view, R, M)
  <2>1. view = AdoptionLive(DeclarationsSeen(M), AreasSeen(M), "fer", "any", "any")
    BY <1>1 DEF Adoption
  <2>2. PICK decls : decls = DeclarationsSeen(M)
    OBVIOUS
  <2>3. DOMAIN decls = M /\ \A f \in M : decls[f] = R[f].declarations
    BY <2>2
  <2>4. PICK areas : areas = AreasSeen(M)
    OBVIOUS
  <2>5. AdoptionCounts(AdoptionLive(decls, areas, "fer", "any", "any"), R, M)
    BY <2>3, AdoptionCounted
  <2>6. QED
    BY <2>1, <2>2, <2>4, <2>5
<1>3. PICK asked : asked = AskedOf(M)
  OBVIOUS
<1>4. /\ \A x \in asked : x[1] \in M /\ x[2] \in Asked(x[1]) /\ x = <<x[1], x[2]>>
      /\ \A f \in M : \A q \in Asked(f) : <<f, q>> \in asked
  BY <1>3, AskedOfIs
<1> DEFINE declared == UNION {{<<GroupOf(x[1], x[2], KeyOf(d), "fer"), KeyOf(d), d.status>> :
                                  d \in Declared(x[1], x[2])} : x \in asked}
           using(k) == {x \in asked : /\ GroupOf(x[1], x[2], k[2], "fer") = k[1]
                                      /\ Uses(x[1], x[2], k[2], k[3])}
           lines(k) == {l \in DOMAIN view : l.group = k[1] /\ l.key = k[2] /\ l.status = k[3]}
<1>5. ASSUME NEW k \in declared, k[3] = "current"
      PROVE  /\ Cardinality(lines(k)) = 1
             /\ \A l \in lines(k) : view[l].fips = Cardinality({x[1] : x \in using(k)})
  <2>1. PICK x \in asked :
            k \in {<<GroupOf(x[1], x[2], KeyOf(d), "fer"), KeyOf(d), d.status>> : d \in Declared(x[1], x[2])}
    BY <1>5, Zenon
  <2>2. PICK d \in Declared(x[1], x[2]) :
            k = <<GroupOf(x[1], x[2], KeyOf(d), "fer"), KeyOf(d), d.status>>
    BY <2>1
  <2>3. GroupOf(x[1], x[2], KeyOf(d), "fer") = KeyOf(d)
    BY GroupIsKey
  <2>4. k[1] = KeyOf(d) /\ k[2] = KeyOf(d) /\ k[3] = "current" /\ d.status = "current"
    BY <1>5, <2>2, <2>3
  <2>5. PICK key : key = KeyOf(d)
    OBVIOUS
  <2>6. Uses(x[1], x[2], key, "current")
    BY <2>4, <2>5 DEF Uses
  <2>7. CurrentKeyIn(R, x[1], key)
    BY <1>4, <2>6, CurrentKeyIsUsed
  <2>8. lines(k) = LinesOf(view, key)
    BY <2>4, <2>5 DEF LinesOf
  <2>9. /\ Cardinality(LinesOf(view, key)) = 1
        /\ \A l \in LinesOf(view, key) :
              view[l].fips = Cardinality({f \in M : CurrentKeyIn(R, f, key)})
    BY <1>2, <1>4, <2>7 DEF AdoptionCounts
  <2>10. \A y \in asked : y \in using(k) <=> Uses(y[1], y[2], key, "current")
    <3>1. \A f, q : GroupOf(f, q, key, "fer") = key
      BY GroupIsKey
    <3>2. QED
      BY <2>4, <2>5, <3>1
  <2>11. using(k) \subseteq asked
    OBVIOUS
  <2> HIDE DEF using, lines
  <2>12. {y[1] : y \in using(k)} = {f \in M : CurrentKeyIn(R, f, key)}
    <3>1. ASSUME NEW y \in using(k) PROVE y[1] \in M /\ CurrentKeyIn(R, y[1], key)
      BY <1>4, <2>10, <2>11, CurrentKeyIsUsed
    <3>2. ASSUME NEW f \in M, CurrentKeyIn(R, f, key) PROVE \E y \in using(k) : y[1] = f
      <4>1. PICK q \in Asked(f) : Uses(f, q, key, "current")
        BY <3>2, CurrentKeyIsUsed
      <4>2. PICK y \in asked : y = <<f, q>>
        BY <1>4
      <4>3. y[1] = f /\ y[2] = q
        BY <4>2
      <4>4. QED
        BY <2>10, <4>1, <4>3
    <3>3. QED
      BY <3>1, <3>2
  <2>13. QED
    BY <2>8, <2>9, <2>12
<1>6. ASSUME NEW k \in declared, k[3] \in {"current"}
      PROVE  /\ Cardinality(lines(k)) = 1
             /\ \A l \in lines(k) : view[l].fips = Cardinality({x[1] : x \in using(k)})
  BY <1>5, <1>6
<1>7. QED
  BY <1>1, <1>3, <1>6, Zenon DEF AdoptionRight

-----------------------------------------------------------------------------
(* What check-declarations has nothing to say of                           *)

EpochOK == epoch \in Nat

LEMMA EpochNext == EpochOK /\ [DNext]_dvars => EpochOK'
<1> SUFFICES ASSUME epoch \in Nat, [DNext]_dvars PROVE epoch' \in Nat
  BY DEF EpochOK
<1>1. ASSUME NEW r \in Refs, NEW c \in Contents[r], EditContent(r, c) PROVE epoch' \in Nat
  BY <1>1 DEF EditContent
<1>2. (\E r \in Refs : \E c \in Contents[r] : EditContent(r, c)) \/ UNCHANGED epoch
  BY DEF DNext, Write, WriteUnprojected, LateWrite, Delete, DeletePastTheHook, Backfill, Fix,
         IngestNetwork, Refresh, dvars
<1>3. QED
  BY <1>1, <1>2

LEMMA CleanRow ==
    ASSUME RowsInv, NEW f \in DOMAIN fips, f \in DOMAIN rows,
           ~Differs(rows[f], Projected(fips[f], content), epoch)
    PROVE  /\ rows[f].inTime /\ rows[f].epoch = epoch
           /\ MatchedCells(rows[f].cells, f) /\ IsFiniteSet(rows[f].cells)
           /\ SameLines(rows[f].cells, f, "question")
           /\ \A c \in rows[f].cells : c.state \in CellStateNames
           /\ KeyedRow(rows[f])
           /\ ~Confused(f) =>
                 \A id, key : <<id, key>> \in CurrentPairs(rows[f].declarations) <=> UsesAt(f, id, key)
<1>1. TextOf(f) = fips[f] /\ fips[f] \in Documents
  BY DEF TextOf, RowsInv
<1>2. fips[f].ref \in Refs /\ WellFormed(fips[f].answers)
  BY <1>1, DataAssumption
<1>3. content[TextOf(f).ref] = None \/ IsContent(content[TextOf(f).ref])
  BY <1>1, <1>2, DataAssumption DEF RowsInv
<1>4. WellFormed(Answers(f))
  BY <1>1, <1>2 DEF Answers
<1>5. PICK p : p = Projected(fips[f], content)
  OBVIOUS
<1>6. PICK c : c = ContentSeen(f)
  OBVIOUS
<1>7. PICK a : a = Answers(f)
  OBVIOUS
<1>8. /\ p.cells = CellsOf(c, a) /\ p.declarations = DeclarationRowsOf(c, a)
      /\ p.questionCount = Cardinality(p.cells)
  BY <1>1, <1>5, <1>6, <1>7 DEF Projected, ProjectAnswers, ContentSeen, Answers
<1>9. PICK row : row = rows[f]
  OBVIOUS
<1>10. /\ row.inTime /\ row.epoch = epoch /\ Cardinality(row.cells) = p.questionCount
       /\ CellStates(row.cells) = CellStates(p.cells) /\ row.signature = SignatureOf(p)
  BY <1>5, <1>9 DEF Differs
<1>11. IsFiniteSet(row.cells) /\ KeyedRow(row)
  BY <1>9 DEF RowsInv, FiniteRow
<1>12. MatchedCells(row.cells, f) /\ \A d \in row.cells : d.state \in CellStateNames
  BY <1>3, <1>4, <1>6, <1>7, <1>8, <1>10, <1>11, CleanCells
<1>13. SameLines(row.cells, f, "question")
  BY ByQuestion DEF SameLines
<1>14. ASSUME ~Confused(f), NEW id, NEW key
       PROVE  <<id, key>> \in CurrentPairs(row.declarations) <=> UsesAt(f, id, key)
  <2>1. Tokens(row.cells, row.declarations) = Tokens(p.cells, p.declarations)
    BY <1>5, <1>9, <1>10, <1>14 DEF Confused
  <2>2. \A d \in p.declarations : Keyed(d)
    BY <1>8, DeclarationsAreKeyed
  <2>3. \A d \in row.declarations : Keyed(d)
    BY <1>11 DEF KeyedRow
  <2>4. CurrentPairs(row.declarations) = CurrentPairs(p.declarations)
    BY <2>1, <2>2, <2>3, SameTokens
  <2>5. <<id, key>> \in CurrentPairs(DeclarationRowsOf(ContentSeen(f), Answers(f))) <=> UsesAt(f, id, key)
    BY <1>3, <1>4, CurrentOfIs
  <2>6. QED
    BY <1>6, <1>7, <1>8, <2>4, <2>5
<1>15. QED
  BY <1>9, <1>10, <1>11, <1>12, <1>13, <1>14

(* And of a row that is what it should be, it has nothing to say.          *)
LEMMA RightRow ==
    ASSUME NEW f \in DOMAIN fips, f \in DOMAIN rows, rows[f] = RowOf(fips[f])
    PROVE  f \notin Problems
<1>1. PICK p : p = Projected(fips[f], content)
  OBVIOUS
<1>2. /\ p.questionCount = Cardinality(p.cells)
      /\ p.declarationCount = Cardinality(p.declarations)
  BY <1>1 DEF Projected, ProjectAnswers
<1>3. PICK row : row = rows[f]
  OBVIOUS
<1>4. /\ row.cells = p.cells /\ row.declarations = p.declarations
      /\ row.questionCount = p.questionCount /\ row.declarationCount = p.declarationCount
      /\ row.inTime /\ row.epoch = epoch /\ row.signature = SignatureOf(p)
  <2>1. row = Row("local", fips[f].ref, fips[f].migratedFrom, p, epoch)
    BY <1>1, <1>3 DEF RowOf
  <2>2. QED
    BY <2>1 DEF Row
<1>5. ~Differs(row, p, epoch)
  BY <1>2, <1>4 DEF Differs
<1>6. QED
  BY <1>1, <1>3, <1>5 DEF Problems

LEMMA CleanMeansRightHolds ==
    ASSUME RowsInv, IsFiniteSet(DOMAIN fips), EpochOK
    PROVE  CleanMeansRight
<1>1. ASSUME NEW N \in Resolved, NEW M, M = N \cap FipIds, M # {}, M \cap Problems = {}
      PROVE  /\ CoverageRight(M, "question", SaidIn(M))
             /\ (\E f \in M : Confused(f)) \/ AdoptionRight(M, "fer", {"current"})
  <2>1. M \subseteq DOMAIN fips
    <3>1. PICK population \in Populations : N = MembersOf(population)
      BY DEF Resolved
    <3>2. DOMAIN network \cap FipIds = {}
      BY DataAssumption DEF RowsInv
    <3>3. QED
      BY <1>1, <3>1, <3>2 DEF MembersOf
  <2>2. ASSUME NEW f \in M
        PROVE  f \in DOMAIN fips /\ f \in DOMAIN rows /\ ~Differs(rows[f], Projected(fips[f], content), epoch)
    BY <1>1, <2>1 DEF Problems
  <2>3. ASSUME NEW f \in M
        PROVE  /\ rows[f].inTime /\ rows[f].epoch = epoch
               /\ MatchedCells(rows[f].cells, f) /\ IsFiniteSet(rows[f].cells)
               /\ SameLines(rows[f].cells, f, "question")
               /\ \A c \in rows[f].cells : c.state \in CellStateNames
               /\ KeyedRow(rows[f])
               /\ ~Confused(f) =>
                     \A id, key : <<id, key>> \in CurrentPairs(rows[f].declarations) <=> UsesAt(f, id, key)
    <3>1. f \in DOMAIN fips /\ f \in DOMAIN rows /\ ~Differs(rows[f], Projected(fips[f], content), epoch)
      BY <2>2
    <3>2. QED
      BY <3>1, CleanRow
  <2>4. Behind(M) = {}
    <3>1. ASSUME NEW f \in Behind(M) PROVE FALSE
      <4>1. f \in M /\ (f \notin DOMAIN rows \/ ~rows[f].inTime \/ rows[f].epoch < epoch)
        BY <3>1 DEF Behind
      <4>2. f \in DOMAIN rows /\ rows[f].inTime /\ rows[f].epoch = epoch
        BY <2>2, <2>3, <4>1
      <4>3. QED
        BY <4>1, <4>2 DEF EpochOK
    <3>2. QED
      BY <3>1
  <2>5. Tier(M) = "live"
    BY <2>4 DEF Tier, TierOf
  <2>6. PICK cells : cells = CellsSeen(M)
    OBVIOUS
  <2>7. DOMAIN cells = M /\ \A f \in M : cells[f] = rows[f].cells
    BY <2>5, <2>6 DEF CellsSeen
  <2>8. IsFiniteSet(M)
    BY <2>1, FS_Subset
  <2>9. CoverageRight(M, "question", SaidIn(M))
    <3>1. \A f \in M : /\ IsFiniteSet(cells[f]) /\ MatchedCells(cells[f], f)
                       /\ SameLines(cells[f], f, "question")
                       /\ \A c \in cells[f] : c.state \in CellStateNames
      BY <2>3, <2>7
    <3>2. QED
      BY <2>6, <2>7, <2>8, <3>1, CoverageMatched
  <2>10. ASSUME ~\E f \in M : Confused(f) PROVE AdoptionRight(M, "fer", {"current"})
    <3>1. SameUses(rows, M)
      <4>1. ASSUME NEW f \in M, NEW id, NEW key
            PROVE  <<id, key>> \in CurrentPairs(rows[f].declarations) <=> UsesAt(f, id, key)
        BY <2>3, <2>10
      <4>2. QED
        BY <4>1 DEF SameUses
    <3>2. DOMAIN DeclarationsSeen(M) = M /\ \A f \in M : DeclarationsSeen(M)[f] = rows[f].declarations
      BY <2>5 DEF DeclarationsSeen
    <3>3. \A f \in M : KeyedRow(rows[f])
      BY <2>3
    <3>4. QED
      BY <2>5, <3>1, <3>2, <3>3, AdoptionMatched
  <2>11. QED
    BY <2>9, <2>10
<1>2. \A f \in DOMAIN fips \cap DOMAIN rows : rows[f] = RowOf(fips[f]) => f \notin Problems
  BY RightRow
<1>3. \A M \in {N \cap FipIds : N \in Resolved} :
          \/ M = {} \/ M \cap Problems # {}
          \/ /\ CoverageRight(M, "question", SaidIn(M))
             /\ (\E f \in M : Confused(f)) \/ AdoptionRight(M, "fer", {"current"})
  <2>1. ASSUME NEW M \in {N \cap FipIds : N \in Resolved}, M # {}, M \cap Problems = {}
        PROVE  /\ CoverageRight(M, "question", SaidIn(M))
               /\ (\E f \in M : Confused(f)) \/ AdoptionRight(M, "fer", {"current"})
    <3>1. PICK N \in Resolved : M = N \cap FipIds
      BY <2>1
    <3>2. QED
      BY <1>1, <2>1, <3>1
  <2>2. QED
    BY <2>1
<1>4. QED
  BY <1>2, <1>3 DEF CleanMeansRight

(* Where check-declarations finds nothing to say of the local FIPs of a    *)
(* population, coverage by question counts what their answers say, and so  *)
(* does the adoption of the resources in use unless two sets of tokens     *)
(* have one signature; and it says nothing of a projection that is right.  *)
THEOREM DSpec_CleanMeansRight == DSpec => []CleanMeansRight
<1>1. DSpec => [](RowsInv /\ DfInv /\ EpochOK)
  <2>1. DSpec => []RowsInv
    BY RowsInit, RowsNext, PTL DEF DSpec
  <2>2. DSpec => []DfInv
    BY DfInit, DfNext, PTL DEF DSpec
  <2>3. DSpec => []EpochOK
    <3>1. DInit => EpochOK
      BY DEF DInit, EpochOK
    <3>2. QED
      BY <3>1, EpochNext, PTL DEF DSpec
  <2>4. QED
    BY <2>1, <2>2, <2>3, PTL
<1>2. RowsInv /\ DfInv /\ EpochOK => CleanMeansRight
  BY CleanMeansRightHolds DEF DfInv
<1>3. QED
  BY <1>1, <1>2, PTL

-----------------------------------------------------------------------------
(* A projection that is in time, and that no overlapping request left      *)
(* wrong, shows what the FIP says.                                         *)
TextIn(f, F, N) ==
    IF f \in DOMAIN F THEN F[f]
    ELSE [answers |-> N[f], ref |-> NetworkRef, migratedFrom |-> None]

Shows(row, doc, C) ==
    /\ row.cells = Projected(doc, C).cells /\ row.declarations = Projected(doc, C).declarations
    /\ row.area = doc.ref /\ row.migratedFrom = doc.migratedFrom

Trusted(f, R, L, F, N, e) ==
    f \in DOMAIN R /\ f \notin L /\ f \in DOMAIN F \cup DOMAIN N /\ R[f].inTime /\ R[f].epoch = e

ShownRight == \A f : Trusted(f, rows, late, fips, network, epoch) => Shows(rows[f], TextIn(f, fips, network), content)

ViewsInv ==
    /\ EpochOK /\ \A f \in DOMAIN rows : rows[f].epoch \in Nat /\ rows[f].epoch <= epoch
    /\ \A n \in DOMAIN network : WellFormed(network[n])
    /\ ShownRight

LEMMA RowShows ==
    ASSUME NEW source, NEW doc, NEW C, NEW e
    PROVE  /\ Shows(Row(source, doc.ref, doc.migratedFrom, Projected(doc, C), e), doc, C)
           /\ Row(source, doc.ref, doc.migratedFrom, Projected(doc, C), e).epoch = e
<1>1. PICK projected : projected = Projected(doc, C)
  OBVIOUS
<1>2. PICK row : row = Row(source, doc.ref, doc.migratedFrom, projected, e)
  OBVIOUS
<1>3. /\ row.cells = projected.cells /\ row.declarations = projected.declarations
      /\ row.area = doc.ref /\ row.migratedFrom = doc.migratedFrom /\ row.epoch = e
  BY <1>2 DEF Row
<1>4. QED
  BY <1>1, <1>2, <1>3 DEF Shows

LEMMA RowOfShows ==
    ASSUME NEW doc
    PROVE  Shows(RowOf(doc), doc, content) /\ RowOf(doc).epoch = epoch
  BY RowShows DEF RowOf

LEMMA ViewsInit == DInit => ViewsInv
<1> SUFFICES ASSUME DInit PROVE ViewsInv
  OBVIOUS
<1>1. EpochOK /\ epoch = 0
  BY DEF DInit, EpochOK
<1>2. DOMAIN rows = DOMAIN fips /\ \A f \in DOMAIN rows : rows[f] = RowOf(fips[f])
  BY DEF DInit
<1>3. \A f \in DOMAIN rows : rows[f].epoch = epoch /\ Shows(rows[f], fips[f], content)
  BY <1>2, RowOfShows
<1>4. \A f \in DOMAIN rows : rows[f].epoch \in Nat /\ rows[f].epoch <= epoch
  BY <1>1, <1>3
<1>5. DOMAIN network = {}
  BY DEF DInit
<1>6. ShownRight
  BY <1>2, <1>3 DEF ShownRight, Trusted, TextIn
<1>7. QED
  BY <1>1, <1>4, <1>5, <1>6 DEF ViewsInv

(* What a step leaves alone stays right.                                   *)
SameRow(f) ==
    /\ f \in DOMAIN rows /\ rows'[f] = rows[f] /\ f \notin late
    /\ f \in DOMAIN fips \cup DOMAIN network
    /\ TextIn(f, fips', network') = TextIn(f, fips, network)
    /\ content' = content /\ epoch' = epoch

LEMMA StepShows ==
    ASSUME ViewsInv, EpochOK',
           \A f \in DOMAIN rows' : rows'[f].epoch \in Nat /\ rows'[f].epoch <= epoch',
           \A n \in DOMAIN network' : WellFormed(network'[n]),
           \A f : Trusted(f, rows', late', fips', network', epoch') =>
                     SameRow(f) \/ Shows(rows'[f], TextIn(f, fips', network'), content')
    PROVE  ViewsInv'
<1>1. ASSUME NEW f, Trusted(f, rows', late', fips', network', epoch'), SameRow(f)
      PROVE  Shows(rows'[f], TextIn(f, fips', network'), content')
  <2>1. rows'[f].inTime /\ rows'[f].epoch = epoch'
    BY <1>1 DEF Trusted
  <2>2. Trusted(f, rows, late, fips, network, epoch)
    BY <1>1, <2>1 DEF SameRow, Trusted
  <2>3. Shows(rows[f], TextIn(f, fips, network), content)
    BY <2>2 DEF ViewsInv, ShownRight
  <2>4. QED
    BY <1>1, <2>3 DEF SameRow
<1>2. \A f : Trusted(f, rows', late', fips', network', epoch') => Shows(rows'[f], TextIn(f, fips', network'), content')
  BY <1>1
<1>3. ShownRight'
  BY <1>2 DEF ShownRight
<1>4. QED
  BY <1>3 DEF ViewsInv

(* One row is replaced, and perhaps its FIP.                               *)
LEMMA OneRowShows ==
    ASSUME ViewsInv, NEW f, NEW row, Reproject(f, row), row.epoch = epoch,
           \A x : x # f => /\ (x \in late <=> x \in late') /\ (x \in DOMAIN fips <=> x \in DOMAIN fips')
                           /\ (x \in DOMAIN network <=> x \in DOMAIN network')
                           /\ x \in DOMAIN fips \cup DOMAIN network =>
                                 TextIn(x, fips', network') = TextIn(x, fips, network),
           UNCHANGED <<content, epoch>>,
           f \notin late' => Shows(row, TextIn(f, fips', network'), content),
           \A n \in DOMAIN network' : WellFormed(network'[n])
    PROVE  ViewsInv'
<1>1. rows' = [x \in DOMAIN rows \cup {f} |-> IF x = f THEN row ELSE rows[x]]
  BY DEF Reproject
<1>2. \A x \in DOMAIN rows' : rows'[x].epoch \in Nat /\ rows'[x].epoch <= epoch'
  BY <1>1 DEF ViewsInv, EpochOK
<1>3. EpochOK'
  BY DEF ViewsInv, EpochOK
<1>4. ASSUME NEW x, Trusted(x, rows', late', fips', network', epoch')
      PROVE  SameRow(x) \/ Shows(rows'[x], TextIn(x, fips', network'), content')
  <2>1. x \in DOMAIN rows' /\ x \notin late' /\ x \in DOMAIN fips' \cup DOMAIN network'
    BY <1>4 DEF Trusted
  <2>2. CASE x = f
    BY <1>1, <2>1, <2>2
  <2>3. CASE x # f
    <3>1. x \in DOMAIN rows /\ rows'[x] = rows[x]
      BY <1>1, <2>1, <2>3
    <3>2. /\ (x \in late <=> x \in late') /\ (x \in DOMAIN fips <=> x \in DOMAIN fips')
          /\ (x \in DOMAIN network <=> x \in DOMAIN network')
          /\ x \in DOMAIN fips \cup DOMAIN network =>
                TextIn(x, fips', network') = TextIn(x, fips, network)
      BY <2>3, Zenon
    <3>3. x \notin late /\ x \in DOMAIN fips \cup DOMAIN network
      BY <2>1, <3>2
    <3>4. QED
      BY <3>1, <3>2, <3>3 DEF SameRow
  <2>4. QED
    BY <2>2, <2>3
<1>5. QED
  BY <1>2, <1>3, <1>4, StepShows

LEMMA ReprojectAllShows ==
    ASSUME ViewsInv, NEW F \in SUBSET DOMAIN fips, ReprojectAll(F),
           UNCHANGED <<fips, content, epoch, network>>
    PROVE  ViewsInv'
<1>1. /\ rows' = [x \in DOMAIN rows \cup F |-> IF x \in F THEN RowOf(fips[x]) ELSE rows[x]]
      /\ late' = late \ F
  BY DEF ReprojectAll
<1>2. \A x \in F : RowOf(fips[x]).epoch = epoch /\ Shows(RowOf(fips[x]), fips[x], content)
  BY RowOfShows
<1>3. \A x \in DOMAIN rows' : \/ x \in F /\ rows'[x] = RowOf(fips[x])
                              \/ x \notin F /\ x \in DOMAIN rows /\ rows'[x] = rows[x]
  BY <1>1
<1>4. \A x \in DOMAIN rows' : rows'[x].epoch \in Nat /\ rows'[x].epoch <= epoch'
  BY <1>2, <1>3 DEF ViewsInv, EpochOK
<1>5. EpochOK' /\ \A n \in DOMAIN network' : WellFormed(network'[n])
  BY DEF ViewsInv, EpochOK
<1>6. ASSUME NEW x, Trusted(x, rows', late', fips', network', epoch')
      PROVE  SameRow(x) \/ Shows(rows'[x], TextIn(x, fips', network'), content')
  <2>1. x \in DOMAIN rows' /\ x \notin late' /\ x \in DOMAIN fips' \cup DOMAIN network'
    BY <1>6 DEF Trusted
  <2>2. CASE x \in F
    <3>1. TextIn(x, fips', network') = fips[x]
      BY <2>2 DEF TextIn
    <3>2. QED
      BY <1>1, <1>2, <2>2, <3>1
  <2>3. CASE x \notin F
    BY <1>1, <1>3, <2>1, <2>3 DEF SameRow
  <2>4. QED
    BY <2>2, <2>3
<1>7. QED
  BY <1>4, <1>5, <1>6, StepShows

(* The rows do not change, except for one.                                 *)
LEMMA OthersShow ==
    ASSUME ViewsInv, NEW f, \A x \in DOMAIN rows' : x \in DOMAIN rows,
           \A x \in DOMAIN rows' : x # f => rows'[x] = rows[x],
           f \in DOMAIN rows' => rows'[f].epoch = rows[f].epoch,
           ~Trusted(f, rows', late', fips', network', epoch'),
           \A x : x # f => (x \in late <=> x \in late') /\ (x \in DOMAIN fips <=> x \in DOMAIN fips')
                           /\ TextIn(x, fips', network') = TextIn(x, fips, network),
           UNCHANGED <<content, epoch, network>>
    PROVE  ViewsInv'
<1>1. \A x \in DOMAIN rows' : rows'[x].epoch \in Nat /\ rows'[x].epoch <= epoch'
  BY DEF ViewsInv, EpochOK
<1>2. EpochOK' /\ \A n \in DOMAIN network' : WellFormed(network'[n])
  BY DEF ViewsInv, EpochOK
<1>3. ASSUME NEW x, Trusted(x, rows', late', fips', network', epoch') PROVE SameRow(x)
  <2>1. x # f
    BY <1>3
  <2>2. x \in DOMAIN rows' /\ x \notin late' /\ x \in DOMAIN fips' \cup DOMAIN network'
    BY <1>3 DEF Trusted
  <2>3. QED
    BY <2>1, <2>2 DEF SameRow
<1>4. QED
  BY <1>1, <1>2, <1>3, StepShows

LEMMA ViewsNext == RowsInv /\ ViewsInv /\ [DNext]_dvars => ViewsInv'
<1> SUFFICES ASSUME RowsInv, ViewsInv, [DNext]_dvars PROVE ViewsInv'
  OBVIOUS
<1>1. ASSUME UNCHANGED <<fips, content, epoch, network, rows, late>> PROVE ViewsInv'
  <2>1. \A x \in DOMAIN rows' : rows'[x].epoch \in Nat /\ rows'[x].epoch <= epoch'
    BY <1>1 DEF ViewsInv, EpochOK
  <2>2. EpochOK' /\ \A n \in DOMAIN network' : WellFormed(network'[n])
    BY <1>1 DEF ViewsInv, EpochOK
  <2>3. \A x : Trusted(x, rows', late', fips', network', epoch') => SameRow(x)
    BY <1>1 DEF Trusted, SameRow
  <2>4. QED
    BY <2>1, <2>2, <2>3, StepShows
<1>2. ASSUME NEW f \in FipIds, NEW doc \in Documents, Write(f, doc) PROVE ViewsInv'
  <2>1. /\ fips' = [x \in DOMAIN fips \cup {f} |-> IF x = f THEN doc ELSE fips[x]]
        /\ Reproject(f, RowOf(doc)) /\ late' = late \ {f}
        /\ UNCHANGED <<content, epoch, network>>
    BY <1>2 DEF Write, Stored
  <2>2. \A x : x # f => (x \in late <=> x \in late') /\ (x \in DOMAIN fips <=> x \in DOMAIN fips')
                        /\ TextIn(x, fips', network') = TextIn(x, fips, network)
    BY <2>1 DEF TextIn
  <2>3. TextIn(f, fips', network') = doc
    BY <2>1 DEF TextIn
  <2>4. PICK row : row = RowOf(doc)
    OBVIOUS
  <2>5. row.epoch = epoch /\ Shows(row, doc, content)
    BY <2>4, RowOfShows
  <2>6. \A n \in DOMAIN network' : WellFormed(network'[n])
    BY <2>1 DEF ViewsInv
  <2>7. Reproject(f, row)
    BY <2>1, <2>4
  <2>8. QED
    BY <2>1, <2>2, <2>3, <2>5, <2>6, <2>7, OneRowShows
<1>3. ASSUME NEW f \in FipIds, NEW doc \in Documents, WriteUnprojected(f, doc) PROVE ViewsInv'
  <2>1. /\ fips' = [x \in DOMAIN fips \cup {f} |-> IF x = f THEN doc ELSE fips[x]]
        /\ rows' = [x \in DOMAIN rows |-> IF x = f THEN [rows[x] EXCEPT !.inTime = FALSE] ELSE rows[x]]
        /\ UNCHANGED <<content, epoch, network, late>>
    BY <1>3 DEF WriteUnprojected, Stored
  <2>2. \A x : x # f => (x \in late <=> x \in late') /\ (x \in DOMAIN fips <=> x \in DOMAIN fips')
                        /\ TextIn(x, fips', network') = TextIn(x, fips, network)
    BY <2>1 DEF TextIn
  <2>3. ~Trusted(f, rows', late', fips', network', epoch')
    <3>1. ASSUME Trusted(f, rows', late', fips', network', epoch') PROVE FALSE
      <4>1. f \in DOMAIN rows' /\ rows'[f].inTime
        BY <3>1 DEF Trusted
      <4>2. rows'[f] = [rows[f] EXCEPT !.inTime = FALSE]
        BY <2>1, <4>1
      <4>3. QED
        BY <4>1, <4>2
    <3>2. QED
      BY <3>1
  <2>4. \A x \in DOMAIN rows : rows'[x].epoch = rows[x].epoch
    BY <2>1
  <2>5. QED
    BY <2>1, <2>2, <2>3, <2>4, OthersShow
<1>4. ASSUME NEW f \in FipIds, NEW doc \in Documents, LateWrite(f, doc) PROVE ViewsInv'
  <2>1. /\ f \in DOMAIN fips /\ fips' = [fips EXCEPT ![f] = doc]
        /\ Reproject(f, RowOf(fips[f])) /\ late' = late \cup {f}
        /\ UNCHANGED <<content, epoch, network>>
    BY <1>4 DEF LateWrite
  <2>2. \A x : x # f => (x \in late <=> x \in late') /\ (x \in DOMAIN fips <=> x \in DOMAIN fips')
                        /\ TextIn(x, fips', network') = TextIn(x, fips, network)
    BY <2>1 DEF TextIn
  <2>3. PICK row : row = RowOf(fips[f])
    OBVIOUS
  <2>4. row.epoch = epoch
    BY <2>3, RowOfShows
  <2>5. \A n \in DOMAIN network' : WellFormed(network'[n])
    BY <2>1 DEF ViewsInv
  <2>6. Reproject(f, row) /\ f \in late'
    BY <2>1, <2>3
  <2>7. QED
    BY <2>1, <2>2, <2>4, <2>5, <2>6, OneRowShows
<1>5. ASSUME NEW f \in FipIds, Delete(f) PROVE ViewsInv'
  <2>1. /\ fips' = [x \in DOMAIN fips \ {f} |-> fips[x]] /\ late' = late \ {f}
        /\ rows' = [x \in DOMAIN rows \ {f} |-> rows[x]]
        /\ UNCHANGED <<content, epoch, network>>
    BY <1>5 DEF Delete, Unproject
  <2>2. \A x : x # f => (x \in late <=> x \in late') /\ (x \in DOMAIN fips <=> x \in DOMAIN fips')
                        /\ TextIn(x, fips', network') = TextIn(x, fips, network)
    BY <2>1 DEF TextIn
  <2>3. f \notin DOMAIN rows'
    BY <2>1
  <2>4. ~Trusted(f, rows', late', fips', network', epoch')
    BY <2>3 DEF Trusted
  <2>5. QED
    BY <2>1, <2>2, <2>3, <2>4, OthersShow
<1>6. ASSUME NEW f \in FipIds, DeletePastTheHook(f) PROVE ViewsInv'
  <2>1. /\ fips' = [x \in DOMAIN fips \ {f} |-> fips[x]] /\ late' = late \ {f}
        /\ UNCHANGED <<rows, content, epoch, network>>
    BY <1>6 DEF DeletePastTheHook
  <2>2. \A x : x # f => (x \in late <=> x \in late') /\ (x \in DOMAIN fips <=> x \in DOMAIN fips')
                        /\ TextIn(x, fips', network') = TextIn(x, fips, network)
    BY <2>1 DEF TextIn
  <2>3. f \notin DOMAIN network /\ f \notin DOMAIN fips'
    BY <2>1, DataAssumption DEF RowsInv
  <2>4. ~Trusted(f, rows', late', fips', network', epoch')
    BY <2>1, <2>3 DEF Trusted
  <2>5. QED
    BY <2>1, <2>2, <2>4, OthersShow
<1>7. ASSUME NEW r \in Refs, NEW c \in Contents[r], EditContent(r, c) PROVE ViewsInv'
  <2>1. epoch' = epoch + 1 /\ UNCHANGED <<fips, network, rows, late>>
    BY <1>7 DEF EditContent
  <2>2. epoch \in Nat /\ \A x \in DOMAIN rows : rows[x].epoch \in Nat /\ rows[x].epoch <= epoch
    BY DEF ViewsInv, EpochOK
  <2>3. EpochOK' /\ \A x \in DOMAIN rows' : rows'[x].epoch \in Nat /\ rows'[x].epoch <= epoch'
    BY <2>1, <2>2 DEF EpochOK
  <2>4. \A x : ~Trusted(x, rows', late', fips', network', epoch')
    BY <2>1, <2>2 DEF Trusted
  <2>5. \A n \in DOMAIN network' : WellFormed(network'[n])
    BY <2>1 DEF ViewsInv
  <2>6. QED
    BY <2>3, <2>4, <2>5, StepShows
<1>8. ASSUME NEW onlyStale \in BOOLEAN, Backfill(onlyStale) PROVE ViewsInv'
  <2> DEFINE F == IF onlyStale THEN StaleFips ELSE DOMAIN fips
  <2>1. F \in SUBSET DOMAIN fips
    BY DEF StaleFips
  <2>2. ReprojectAll(F) /\ UNCHANGED <<fips, content, epoch, network>>
    BY <1>8 DEF Backfill
  <2> HIDE DEF F
  <2>3. QED
    BY <2>1, <2>2, ReprojectAllShows
<1>9. ASSUME Fix PROVE ViewsInv'
  <2>1. ReprojectAll(Problems \cap DOMAIN fips) /\ UNCHANGED <<fips, content, epoch, network>>
    BY <1>9 DEF Fix
  <2>2. Problems \cap DOMAIN fips \in SUBSET DOMAIN fips
    OBVIOUS
  <2>3. QED
    BY <2>1, <2>2, ReprojectAllShows
<1>10. ASSUME NEW n \in NetworkIds, NEW payload \in Payloads, IngestNetwork(n, payload) PROVE ViewsInv'
  <2> DEFINE answers == AnswersFromPayload(payload)
             doc == [answers |-> answers, ref |-> NetworkRef, migratedFrom |-> None]
             row == Row("network", NetworkRef, None, ProjectAnswers(content[NetworkRef], answers), epoch)
  <2>1. /\ Reproject(n, row) /\ UNCHANGED <<fips, content, epoch, late>>
        /\ network' = [x \in DOMAIN network \cup {n} |-> IF x = n THEN answers ELSE network[x]]
    BY <1>10 DEF IngestNetwork
  <2>2. WellFormed(answers)
    BY DataAssumption, AnswersFromPayloadWellFormed
  <2>3. row = Row("network", doc.ref, doc.migratedFrom, Projected(doc, content), epoch)
    BY DEF Projected
  <2>4. n \notin DOMAIN fips
    BY DataAssumption DEF RowsInv
  <2> HIDE DEF answers, row
  <2>5. TextIn(n, fips', network') = doc
    BY <2>1, <2>4 DEF TextIn
  <2>6. \A x : x # n => /\ (x \in late <=> x \in late') /\ (x \in DOMAIN fips <=> x \in DOMAIN fips')
                        /\ (x \in DOMAIN network <=> x \in DOMAIN network')
                        /\ x \in DOMAIN fips \cup DOMAIN network =>
                              TextIn(x, fips', network') = TextIn(x, fips, network)
    BY <2>1 DEF TextIn
  <2> HIDE DEF doc
  <2>7. row.epoch = epoch /\ Shows(row, doc, content)
    BY <2>3, RowShows
  <2>8. \A x \in DOMAIN network' : WellFormed(network'[x])
    BY <2>1, <2>2 DEF ViewsInv
  <2>9. QED
    BY <2>1, <2>5, <2>6, <2>7, <2>8, OneRowShows
<1>11. ASSUME Refresh PROVE ViewsInv'
  BY <1>1, <1>11 DEF Refresh
<1>12. ASSUME UNCHANGED dvars PROVE ViewsInv'
  BY <1>1, <1>12 DEF dvars
<1>13. QED
  BY <1>2, <1>3, <1>4, <1>5, <1>6, <1>7, <1>8, <1>9, <1>10, <1>11, <1>12 DEF DNext

-----------------------------------------------------------------------------
(* What the views are given                                                *)
Sound(f) ==
    /\ content[TextOf(f).ref] = None \/ IsContent(content[TextOf(f).ref])
    /\ WellFormed(Answers(f))

AsAnswered(M) ==
    /\ IsFiniteSet(M) /\ \A f \in M : Sound(f)
    /\ DOMAIN CellsSeen(M) = M
    /\ \A f \in M : CellsSeen(M)[f] = CellsOf(ContentSeen(f), Answers(f))
    /\ DOMAIN DeclarationsSeen(M) = M
    /\ \A f \in M : DeclarationsSeen(M)[f] = DeclarationRowsOf(ContentSeen(f), Answers(f))
    /\ \/ Tier(M) = "degraded" /\ M \subseteq DOMAIN fips
       \/ /\ Tier(M) = "live"
          /\ \A f \in M : /\ AreasSeen(M)[f] = TextOf(f).ref /\ rows[f].area = TextOf(f).ref
                          /\ rows[f].migratedFrom = TextOf(f).migratedFrom

LEMMA ProjectedIs ==
    ASSUME NEW f
    PROVE  /\ Projected(TextOf(f), content).cells = CellsOf(ContentSeen(f), Answers(f))
           /\ Projected(TextOf(f), content).declarations = DeclarationRowsOf(ContentSeen(f), Answers(f))
<1>1. PICK doc : doc = TextOf(f)
  OBVIOUS
<1>2. PICK c : c = ContentSeen(f)
  OBVIOUS
<1>3. c = IF content[doc.ref] = None THEN <<>> ELSE content[doc.ref]
  BY <1>1, <1>2 DEF ContentSeen
<1>4. PICK a : a = Answers(f)
  OBVIOUS
<1>5. Projected(doc, content).cells = CellsOf(c, a) /\ Projected(doc, content).declarations = DeclarationRowsOf(c, a)
  BY <1>1, <1>3, <1>4 DEF Projected, ProjectAnswers, Answers
<1>6. QED
  BY <1>1, <1>2, <1>4, <1>5

LEMMA MembersAreSound ==
    ASSUME RowsInv, ViewsInv, NEW f \in DOMAIN fips \cup DOMAIN network
    PROVE  Sound(f)
<1>1. TextOf(f).ref \in Refs /\ WellFormed(TextOf(f).answers)
  <2>1. CASE f \in DOMAIN fips
    <3>1. TextOf(f) = fips[f] /\ fips[f] \in Documents
      BY <2>1 DEF TextOf, RowsInv
    <3>2. QED
      BY <3>1, DataAssumption
  <2>2. CASE f \notin DOMAIN fips
    <3>1. /\ TextOf(f) = [answers |-> network[f], ref |-> NetworkRef, migratedFrom |-> None]
          /\ WellFormed(network[f])
      BY <2>2 DEF TextOf, ViewsInv
    <3>2. QED
      BY <3>1, DataAssumption
  <2>3. QED
    BY <2>1, <2>2
<1>2. content[TextOf(f).ref] = None \/ IsContent(content[TextOf(f).ref])
  BY <1>1, DataAssumption DEF RowsInv
<1>3. QED
  BY <1>1, <1>2 DEF Sound, Answers

LEMMA SeenAsAnswered ==
    ASSUME RowsInv, ViewsInv, IsFiniteSet(DOMAIN fips), NEW M \in Resolved,
           Tier(M) # "refused", M \cap late = {}, ~(Tier(M) = "degraded" /\ M \cap NetworkIds # {})
    PROVE  AsAnswered(M)
<1>1. M \subseteq DOMAIN fips \cup DOMAIN network
  BY DEF Resolved, MembersOf
<1>2. IsFiniteSet(M)
  <2>1. IsFiniteSet(DOMAIN fips \cup DOMAIN network)
    BY FS_Union DEF RowsInv
  <2>2. QED
    BY <1>1, <2>1, FS_Subset
<1>3. \A f \in M : Sound(f)
  BY <1>1, MembersAreSound
<1>4. CASE Behind(M) = {}
  <2>1. Tier(M) = "live"
    BY <1>4 DEF Tier, TierOf
  <2>2. ASSUME NEW f \in M
        PROVE  /\ f \in DOMAIN rows
               /\ rows[f].cells = CellsOf(ContentSeen(f), Answers(f))
               /\ rows[f].declarations = DeclarationRowsOf(ContentSeen(f), Answers(f))
               /\ rows[f].area = TextOf(f).ref /\ rows[f].migratedFrom = TextOf(f).migratedFrom
    <3>1. f \in DOMAIN rows /\ rows[f].inTime /\ ~(rows[f].epoch < epoch)
      BY <1>4 DEF Behind
    <3>2. rows[f].epoch = epoch
      BY <3>1 DEF ViewsInv, EpochOK
    <3>3. Trusted(f, rows, late, fips, network, epoch)
      BY <1>1, <3>1, <3>2 DEF Trusted
    <3>4. Shows(rows[f], TextIn(f, fips, network), content)
      BY <3>3 DEF ViewsInv, ShownRight
    <3>5. TextIn(f, fips, network) = TextOf(f)
      BY DEF TextIn, TextOf
    <3>6. QED
      BY <3>1, <3>4, <3>5, ProjectedIs DEF Shows
  <2>3. CellsSeen(M) = [f \in M |-> rows[f].cells] /\ DeclarationsSeen(M) = [f \in M |-> rows[f].declarations]
    BY <2>1 DEF CellsSeen, DeclarationsSeen
  <2>4. \A f \in M : AreasSeen(M)[f] = rows[f].area
    BY <2>2 DEF AreasSeen
  <2>5. QED
    BY <1>2, <1>3, <2>1, <2>2, <2>3, <2>4 DEF AsAnswered
<1>5. CASE Behind(M) # {}
  <2>1. Tier(M) = "degraded"
    BY <1>5 DEF Tier, TierOf
  <2>2. M \subseteq DOMAIN fips
    BY <1>1, <2>1 DEF RowsInv
  <2>3. \A f \in M : TextOf(f) = fips[f]
    BY <2>2 DEF TextOf
  <2>4. DOMAIN Recomputed(M) = M /\ \A f \in M : Recomputed(M)[f] = Projected(TextOf(f), content)
    BY <2>2, <2>3 DEF Recomputed
  <2>5. /\ CellsSeen(M) = [f \in M |-> Projected(TextOf(f), content).cells]
        /\ DeclarationsSeen(M) = [f \in M |-> Projected(TextOf(f), content).declarations]
    BY <2>1, <2>4 DEF CellsSeen, DeclarationsSeen
  <2>6. QED
    BY <1>2, <1>3, <2>1, <2>2, <2>5, ProjectedIs DEF AsAnswered
<1>6. QED
  BY <1>4, <1>5

-----------------------------------------------------------------------------
(* Coverage, at every level                                                *)

LEMMA KeyByGroup ==
    ASSUME NEW row
    PROVE  CoverageKey(row, "group") = IF row.group # None THEN <<"p", row.group>> ELSE <<"q", row.question>>
  BY Zenon DEF CoverageKey
LEMMA KeyByPrinciple ==
    ASSUME NEW row
    PROVE  CoverageKey(row, "principle") =
               IF row.principle # None THEN <<"p", row.principle>> ELSE <<"q", row.question>>
  BY Zenon DEF CoverageKey
LEMMA KeyBySub ==
    ASSUME NEW row
    PROVE  CoverageKey(row, "subPrinciple") = IF row.sub # None THEN <<"p", row.sub>> ELSE <<"q", row.question>>
  BY Zenon DEF CoverageKey

LEMMA LinesAgree ==
    ASSUME NEW c, IsContent(c), NEW i \in DOMAIN c, NEW answer, NEW level \in Levels,
           NEW cell, cell = Cell(QuestionColumns(c, i), answer)
    PROVE  CoverageKey(CoverageColumns(cell), level) = LineOf(c[i], level)
<1>1. PICK q : q = c[i]
  OBVIOUS
<1>2. q.sub \in {None} \cup DOMAIN PrincipleOf
  BY <1>1 DEF IsContent
<1>3. PICK row : row = CoverageColumns(cell)
  OBVIOUS
<1>4. /\ row.question = q.id /\ row.sub = q.sub
      /\ row.principle = IF q.sub = None THEN None ELSE PrincipleOf[q.sub]
      /\ row.group = IF q.sub = None THEN "Other" ELSE LetterOf[q.sub]
  BY <1>1, <1>3 DEF CoverageColumns, Cell, QuestionColumns
<1>5. q.sub # None => PrincipleOf[q.sub] # None /\ LetterOf[q.sub] # None
  BY <1>2, ProjectionAssumption
<1>6. None # "Other"
  BY ProjectionAssumption
<1>7. CASE level = "question"
  <2>1. CoverageKey(row, level) = <<"q", cell.question>> /\ LineOf(q, level) = <<"q", q.id>>
    BY <1>3, <1>7, ByQuestion
  <2>2. cell.question = q.id
    BY <1>1 DEF Cell, QuestionColumns
  <2>3. QED
    BY <1>1, <1>3, <2>1, <2>2
<1>8. CASE level = "subPrinciple"
  <2>1. LineOf(q, level) = IF q.sub = None THEN <<"q", q.id>> ELSE <<"p", q.sub>>
    BY <1>8 DEF LineOf
  <2>2. CoverageKey(row, level) = IF row.sub # None THEN <<"p", row.sub>> ELSE <<"q", row.question>>
    BY <1>8, KeyBySub
  <2>3. QED
    BY <1>1, <1>3, <1>4, <2>1, <2>2
<1>9. CASE level = "principle"
  <2>1. LineOf(q, level) = IF q.sub = None THEN <<"q", q.id>> ELSE <<"p", PrincipleOf[q.sub]>>
    BY <1>9 DEF LineOf
  <2>2. CoverageKey(row, level) = IF row.principle # None THEN <<"p", row.principle>> ELSE <<"q", row.question>>
    BY <1>9, KeyByPrinciple
  <2>3. QED
    BY <1>1, <1>3, <1>4, <1>5, <2>1, <2>2
<1>10. CASE level = "group"
  <2>1. LineOf(q, level) = <<"p", IF q.sub = None THEN "Other" ELSE LetterOf[q.sub]>>
    BY <1>10 DEF LineOf
  <2>2. CoverageKey(row, level) = IF row.group # None THEN <<"p", row.group>> ELSE <<"q", row.question>>
    BY <1>10, KeyByGroup
  <2>3. QED
    BY <1>1, <1>3, <1>4, <1>5, <1>6, <2>1, <2>2
<1>11. QED
  BY <1>7, <1>8, <1>9, <1>10 DEF Levels

LEMMA CellsAreRight ==
    ASSUME NEW M, AsAnswered(M), NEW f \in M, NEW cs, cs = CellsSeen(M)[f]
    PROVE  /\ IsFiniteSet(cs) /\ MatchedCells(cs, f)
           /\ \A level \in Levels : SameLines(cs, f, level)
           /\ \A c \in cs : c.state \in CellStateNames
<1>1. PICK c : c = ContentSeen(f)
  OBVIOUS
<1>2. PICK a : a = Answers(f)
  OBVIOUS
<1>3. cs = CellsOf(c, a) /\ Sound(f)
  BY <1>1, <1>2 DEF AsAnswered
<1>4. IsContent(c) /\ Asked(f) = {c[i] : i \in Visible(c)}
  BY <1>1, <1>3, AskedByPosition DEF Sound
<1>5. IsFiniteSet(cs)
  BY <1>3, <1>4, CellsAreFinite DEF IsContent
<1>6. MatchedCells(cs, f) /\ \A d \in cs : d.state \in CellStateNames
  BY <1>1, <1>2, <1>3, <1>5, CleanCells DEF Sound
<1>7. ASSUME NEW level \in Levels PROVE SameLines(cs, f, level)
  <2>1. ASSUME NEW d \in cs, NEW q \in Asked(f), d.question = q.id
        PROVE  CoverageKey(CoverageColumns(d), level) = LineOf(q, level)
    <3>1. PICK i \in Visible(c) : d = Cell(QuestionColumns(c, i), AnswerTo(a, c[i].id))
      BY <1>3 DEF CellsOf
    <3>2. d.question = c[i].id
      BY <3>1 DEF Cell, QuestionColumns
    <3>3. i \in DOMAIN c /\ c[i] \in Asked(f)
      BY <1>4 DEF Visible
    <3>4. c[i] = q
      BY <1>6, <2>1, <3>2, <3>3 DEF MatchedCells
    <3>5. CoverageKey(CoverageColumns(d), level) = LineOf(c[i], level)
      BY <1>4, <3>1, <3>3, LinesAgree
    <3>6. QED
      BY <3>4, <3>5
  <2>2. QED
    BY <2>1 DEF SameLines
<1>8. QED
  BY <1>5, <1>6, <1>7

LEMMA CoverageIsRight ==
    ASSUME NEW M, AsAnswered(M), NEW level \in Levels
    PROVE  CoverageRight(M, level, SaidIn(M))
<1>1. PICK cells : cells = CellsSeen(M)
  OBVIOUS
<1>2. ASSUME NEW f \in M
      PROVE  /\ IsFiniteSet(cells[f]) /\ MatchedCells(cells[f], f) /\ SameLines(cells[f], f, level)
             /\ \A c \in cells[f] : c.state \in CellStateNames
  <2>1. PICK cs : cs = CellsSeen(M)[f]
    OBVIOUS
  <2>2. QED
    BY <1>1, <2>1, CellsAreRight
<1>3. IsFiniteSet(M) /\ DOMAIN cells = M
  BY <1>1 DEF AsAnswered
<1>4. QED
  BY <1>1, <1>2, <1>3, CoverageMatched

-----------------------------------------------------------------------------
(* The rows of what a FIP declares                                         *)
RowFor(d, q, e) ==
    /\ d.question = q.id /\ d.sub = q.sub /\ d.ferType = q.ferType
    /\ d.key = KeyOf(e) /\ d.ferId = e.ferId /\ d.status = e.status
    /\ d.successor = SuccessorKey(e)

AreRows(D, f) ==
    /\ \A d \in D : \E q \in Asked(f) : \E e \in Declared(f, q) : RowFor(d, q, e)
    /\ \A q \in Asked(f) : \A e \in Declared(f, q) : \E d \in D : RowFor(d, q, e)

LEMMA DeclaredAreRows ==
    ASSUME NEW f, Sound(f)
    PROVE  AreRows(DeclarationRowsOf(ContentSeen(f), Answers(f)), f)
<1>1. PICK c : c = ContentSeen(f)
  OBVIOUS
<1>2. PICK V : V = Visible(c)
  OBVIOUS
<1>3. Asked(f) = {c[i] : i \in V}
  BY <1>1, <1>2, AskedByPosition DEF Sound
<1> DEFINE decls(i) == DeclarationsOf(AnswerTo(Answers(f), c[i].id))
           rowsAt(i) == {Declaration(QuestionColumns(c, i), j, decls(i)[j]) : j \in 1..Len(decls(i))}
<1>4. PICK D : D = DeclarationRowsOf(c, Answers(f))
  OBVIOUS
<1>5. D = UNION {rowsAt(i) : i \in V}
  BY <1>2, <1>4 DEF DeclarationRowsOf
<1>6. ASSUME NEW i \in V
      PROVE  Declared(f, c[i]) = {decls(i)[j] : j \in 1..Len(decls(i))}
  <2>1. PICK d : d = AnswerTo(Answers(f), c[i].id).declarations
    OBVIOUS
  <2>2. IsList(d)
    BY <2>1, AnswerIsList DEF Sound
  <2>3. DOMAIN d = 1..Len(d)
    BY <2>2 DEF IsList
  <2>4. Declared(f, c[i]) = {d[j] : j \in DOMAIN d}
    BY <2>1 DEF Declared, Answers
  <2>5. decls(i) = d
    BY <2>1 DEF DeclarationsOf
  <2> HIDE DEF decls
  <2>6. QED
    BY <2>3, <2>4, <2>5
<1>7. ASSUME NEW i \in V, NEW j, NEW e
      PROVE  RowFor(Declaration(QuestionColumns(c, i), j, e), c[i], e)
  BY DEF Declaration, QuestionColumns, KeyOf, RowFor
<1>8. ASSUME NEW d \in D PROVE \E q \in Asked(f) : \E e \in Declared(f, q) : RowFor(d, q, e)
  <2>1. PICK i \in V : d \in rowsAt(i)
    BY <1>5, Zenon
  <2>2. PICK j \in 1..Len(decls(i)) : d = Declaration(QuestionColumns(c, i), j, decls(i)[j])
    BY <2>1
  <2> HIDE DEF decls
  <2>3. decls(i)[j] \in Declared(f, c[i]) /\ c[i] \in Asked(f)
    BY <1>3, <1>6
  <2>4. RowFor(d, c[i], decls(i)[j])
    BY <1>7, <2>2
  <2>5. QED
    BY <2>3, <2>4
<1>9. ASSUME NEW q \in Asked(f), NEW e \in Declared(f, q) PROVE \E d \in D : RowFor(d, q, e)
  <2>1. PICK i \in V : q = c[i]
    BY <1>3
  <2> HIDE DEF decls
  <2>2. PICK j \in 1..Len(decls(i)) : e = decls(i)[j]
    BY <1>6, <2>1
  <2>3. PICK d : d = Declaration(QuestionColumns(c, i), j, e)
    OBVIOUS
  <2>4. d \in rowsAt(i)
    BY <2>2, <2>3
  <2> HIDE DEF rowsAt
  <2>5. d \in D
    BY <1>5, <2>4, Zenon
  <2>6. RowFor(d, q, e)
    BY <1>7, <2>1, <2>3
  <2>7. QED
    BY <2>5, <2>6
<1>10. QED
  BY <1>1, <1>4, <1>8, <1>9 DEF AreRows

-----------------------------------------------------------------------------
(* Adoption, at the levels that are looked at                              *)
LineFor(f, q, e, level, byType) ==
    [group |-> GroupOf(f, q, KeyOf(e), level), key |-> KeyOf(e), ferId |-> e.ferId,
     status |-> e.status, ferType |-> IF byType THEN q.ferType ELSE None]

Makes(f, l, level, byType) ==
    \E q \in Asked(f) : \E e \in Declared(f, q) : l = LineFor(f, q, e, level, byType)

LinesCount(view, M, level, byType) ==
    /\ \A f \in M : \A q \in Asked(f) : \A e \in Declared(f, q) :
           LineFor(f, q, e, level, byType) \in DOMAIN view
    /\ \A l \in DOMAIN view : \E f \in M : Makes(f, l, level, byType)
    /\ \A l \in DOMAIN view : view[l].fips = Cardinality({f \in M : Makes(f, l, level, byType)})

LEMMA LineByResource ==
    ASSUME NEW d, NEW area, NEW byType
    PROVE  AdoptionKey(d, area, "fer", byType) =
               [group |-> d.key, key |-> d.key, ferId |-> d.ferId, status |-> d.status,
                ferType |-> IF byType THEN d.ferType ELSE None]
  BY Zenon DEF AdoptionKey
LEMMA LineByQuestion ==
    ASSUME NEW d, NEW area, NEW byType
    PROVE  AdoptionKey(d, area, "question", byType) =
               [group |-> d.question, key |-> d.key, ferId |-> d.ferId, status |-> d.status,
                ferType |-> IF byType THEN d.ferType ELSE None]
  BY Zenon DEF AdoptionKey
LEMMA LineByArea ==
    ASSUME NEW d, NEW area, NEW byType
    PROVE  AdoptionKey(d, area, "area", byType) =
               [group |-> area, key |-> d.key, ferId |-> d.ferId, status |-> d.status,
                ferType |-> IF byType THEN d.ferType ELSE None]
  BY Zenon DEF AdoptionKey
LEMMA GroupIsQuestion == ASSUME NEW f, NEW q, NEW key PROVE GroupOf(f, q, key, "question") = q.id
  BY Zenon DEF GroupOf
LEMMA GroupIsArea == ASSUME NEW f, NEW q, NEW key PROVE GroupOf(f, q, key, "area") = TextOf(f).ref
  BY Zenon DEF GroupOf

LEMMA LineOfRow ==
    ASSUME NEW f, NEW q, NEW e, NEW d, RowFor(d, q, e), NEW byType, NEW area, NEW level,
           \/ level \in {"fer", "question"}
           \/ level = "area" /\ area = TextOf(f).ref
    PROVE  AdoptionKey(d, area, level, byType) = LineFor(f, q, e, level, byType)
<1>1. d.question = q.id /\ d.ferType = q.ferType /\ d.key = KeyOf(e) /\ d.ferId = e.ferId /\ d.status = e.status
  BY DEF RowFor
<1>2. CASE level = "fer"
  BY <1>1, <1>2, LineByResource, GroupIsKey DEF LineFor
<1>3. CASE level = "question"
  BY <1>1, <1>3, LineByQuestion, GroupIsQuestion DEF LineFor
<1>4. CASE level = "area" /\ area = TextOf(f).ref
  BY <1>1, <1>4, LineByArea, GroupIsArea DEF LineFor
<1>5. QED
  BY <1>2, <1>3, <1>4

LEMMA LinesAreCounted ==
    ASSUME NEW M, NEW decls, DOMAIN decls = M, \A f \in M : AreRows(decls[f], f),
           NEW areas, NEW level, NEW byType,
           \/ level \in {"fer", "question"}
           \/ level = "area" /\ \A f \in M : areas[f] = TextOf(f).ref
    PROVE  LinesCount(AdoptionRows(decls, areas, level, "any", "any", byType), M, level, byType)
<1> DEFINE lineOf(f, d) == AdoptionKey(d, areas[f], level, byType)
<1>1. PICK view : view = AdoptionRows(decls, areas, level, "any", "any", byType)
  OBVIOUS
<1>2. PICK keyed : keyed = LinedUp(decls, areas, level, byType)
  OBVIOUS
<1>3. PICK all : all = PairsIn(keyed, DOMAIN keyed)
  OBVIOUS
<1>4. /\ DOMAIN view = {fx[2][1] : fx \in all}
      /\ \A l \in DOMAIN view :
            view[l].fips = Cardinality({f \in DOMAIN keyed : \E x \in keyed[f] : x[1] = l})
  <2>1. AreLines(view, keyed, all)
    BY <1>1, <1>2, <1>3, RowsAreLines
  <2>2. QED
    BY <2>1 DEF AreLines
<1>5. DOMAIN keyed = M /\ \A f \in M : keyed[f] = {<<lineOf(f, d), d>> : d \in decls[f]}
  <2>1. \A d : Wanted(d, "any", "any")
    BY DEF Wanted
  <2> HIDE DEF lineOf
  <2>2. \A f : \A d : AdoptionKey(d, areas[f], level, byType) = lineOf(f, d)
    BY DEF lineOf
  <2>3. QED
    BY <1>2, <2>1, <2>2 DEF LinedUp
<1>6. ASSUME NEW f \in M, NEW d, NEW q, NEW e, RowFor(d, q, e)
      PROVE  lineOf(f, d) = LineFor(f, q, e, level, byType)
  <2>1. PICK area : area = areas[f]
    OBVIOUS
  <2>2. \/ level \in {"fer", "question"}
        \/ level = "area" /\ area = TextOf(f).ref
    BY <2>1
  <2>3. AdoptionKey(d, area, level, byType) = LineFor(f, q, e, level, byType)
    BY <1>6, <2>2, LineOfRow
  <2>4. QED
    BY <2>1, <2>3
<1> HIDE DEF lineOf
<1>7. /\ \A fx \in all : fx[1] \in M /\ fx[2] \in keyed[fx[1]]
      /\ \A f \in M : \A x \in keyed[f] : <<f, x>> \in all
  <2>1. DOMAIN keyed = M
    BY <1>5
  <2>2. all = PairsIn(keyed, M)
    BY <1>3, <2>1
  <2>3. QED
    BY <2>2, PairsInIs
<1>8. ASSUME NEW f \in M, NEW l
      PROVE  (\E x \in keyed[f] : x[1] = l) <=> Makes(f, l, level, byType)
  <2>1. ASSUME NEW x \in keyed[f], x[1] = l PROVE Makes(f, l, level, byType)
    <3>1. PICK d \in decls[f] : x = <<lineOf(f, d), d>>
      BY <1>5, <2>1
    <3>2. PICK q \in Asked(f) : \E e \in Declared(f, q) : RowFor(d, q, e)
      BY DEF AreRows
    <3>3. PICK e \in Declared(f, q) : RowFor(d, q, e)
      BY <3>2
    <3>4. l = LineFor(f, q, e, level, byType)
      BY <1>6, <2>1, <3>1, <3>3
    <3>5. QED
      BY <3>4 DEF Makes
  <2>2. ASSUME Makes(f, l, level, byType) PROVE \E x \in keyed[f] : x[1] = l
    <3>1. PICK q \in Asked(f) : \E e \in Declared(f, q) : l = LineFor(f, q, e, level, byType)
      BY <2>2 DEF Makes
    <3>2. PICK e \in Declared(f, q) : l = LineFor(f, q, e, level, byType)
      BY <3>1
    <3>3. PICK d \in decls[f] : RowFor(d, q, e)
      BY DEF AreRows
    <3>4. lineOf(f, d) = l
      BY <1>6, <3>2, <3>3
    <3>5. PICK x : x = <<lineOf(f, d), d>>
      OBVIOUS
    <3>6. x \in keyed[f] /\ x[1] = l
      BY <1>5, <3>4, <3>5
    <3>7. QED
      BY <3>6
  <2>3. QED
    BY <2>1, <2>2
<1>9. ASSUME NEW f \in M, NEW q \in Asked(f), NEW e \in Declared(f, q)
      PROVE  LineFor(f, q, e, level, byType) \in DOMAIN view
  <2>1. PICK l : l = LineFor(f, q, e, level, byType)
    OBVIOUS
  <2>2. Makes(f, l, level, byType)
    BY <2>1 DEF Makes
  <2>3. PICK x \in keyed[f] : x[1] = l
    BY <1>8, <2>2
  <2>4. <<f, x>> \in all
    BY <1>7
  <2>5. PICK fx \in all : fx = <<f, x>>
    BY <2>4
  <2>6. fx[2][1] = l
    BY <2>3, <2>5
  <2>7. QED
    BY <1>4, <2>1, <2>6
<1>10. ASSUME NEW l \in DOMAIN view PROVE \E f \in M : Makes(f, l, level, byType)
  <2>1. PICK fx \in all : l = fx[2][1]
    BY <1>4
  <2>2. fx[1] \in M /\ fx[2] \in keyed[fx[1]]
    BY <1>7
  <2>3. Makes(fx[1], l, level, byType)
    BY <1>8, <2>1, <2>2
  <2>4. QED
    BY <2>2, <2>3
<1>11. ASSUME NEW l \in DOMAIN view
       PROVE  view[l].fips = Cardinality({f \in M : Makes(f, l, level, byType)})
  <2>1. {f \in DOMAIN keyed : \E x \in keyed[f] : x[1] = l} = {f \in M : Makes(f, l, level, byType)}
    BY <1>5, <1>8
  <2>2. QED
    BY <1>4, <2>1
<1>12. LinesCount(view, M, level, byType)
  BY <1>9, <1>10, <1>11 DEF LinesCount
<1>13. QED
  BY <1>1, <1>12

LEMMA SameKeySameResource ==
    ASSUME NEW d, NEW e, KeyOf(d) = KeyOf(e)
    PROVE  d.ferId = e.ferId
<1>1. d.ferId = IF KeyOf(d)[1] = "fer" THEN KeyOf(d)[2] ELSE None
  BY DEF KeyOf, ConvergenceKey
<1>2. e.ferId = IF KeyOf(e)[1] = "fer" THEN KeyOf(e)[2] ELSE None
  BY DEF KeyOf, ConvergenceKey
<1>3. QED
  BY <1>1, <1>2

(* Questions of one type, as many as they are                              *)
LEMMA OneOrMore ==
    ASSUME NEW S, IsFiniteSet(S), ~(Cardinality(S) > 1), NEW x \in S, NEW y \in S
    PROVE  x = y
<1> SUFFICES ASSUME x # y PROVE FALSE
  OBVIOUS
<1>1. {x, y} \subseteq S
  OBVIOUS
<1>2. Cardinality({x, y}) <= Cardinality(S)
  BY <1>1, FS_Subset
<1>3. IsFiniteSet({x}) /\ Cardinality({x}) = 1 /\ {x, y} = {x} \cup {y}
  BY FS_Singleton
<1>4. Cardinality({x} \cup {y}) = Cardinality({x}) + 1
  BY <1>3, FS_AddElement
<1>5. Cardinality(S) \in Nat
  BY FS_CardinalityType
<1>6. QED
  BY <1>2, <1>3, <1>4, <1>5

LEMMA AskedIsFinite ==
    ASSUME NEW M, IsFiniteSet(M), \A f \in M : Sound(f)
    PROVE  IsFiniteSet(AskedOf(M))
<1> DEFINE asked == [f \in M |-> Asked(f)]
<1>1. AskedOf(M) = PairsIn(asked, M)
  <2>1. \A f \in M : {<<f, q>> : q \in Asked(f)} = {<<f, q>> : q \in asked[f]}
    OBVIOUS
  <2> HIDE DEF asked
  <2>2. {{<<f, q>> : q \in Asked(f)} : f \in M} = {{<<f, q>> : q \in asked[f]} : f \in M}
    BY <2>1
  <2>3. QED
    BY <2>2, Zenon DEF AskedOf, PairsIn
<1>2. ASSUME NEW f \in M PROVE IsFiniteSet(asked[f])
  <2>1. PICK c : c = ContentSeen(f)
    OBVIOUS
  <2>2. PICK V : V = Visible(c)
    OBVIOUS
  <2>3. IsFiniteSet(V) /\ Asked(f) = {c[i] : i \in V}
    BY <2>1, <2>2, AskedByPosition DEF Sound
  <2>4. asked[f] = {c[i] : i \in V}
    BY <2>3
  <2>5. QED
    BY <2>3, <2>4, ImageFinite
<1> HIDE DEF asked
<1>3. QED
  BY <1>1, <1>2, PairsInAreFinite

LEMMA AdoptionIsRight ==
    ASSUME NEW M, AsAnswered(M), NEW level, NEW statuses,
           \/ level \in {"fer", "question"}
           \/ level = "area" /\ Tier(M) = "live"
    PROVE  AdoptionRight(M, level, statuses)
<1>1. PICK view : view = Adoption(M, level, "any", "any")
  OBVIOUS
<1> DEFINE byType == Tier(M) = "degraded" \/ level \in {"ferType", "question"}
<1>2. PICK split : split = byType
  OBVIOUS
<1>3. LinesCount(view, M, level, split)
  <2>1. PICK decls : decls = DeclarationsSeen(M)
    OBVIOUS
  <2>2. PICK areas : areas = AreasSeen(M)
    OBVIOUS
  <2>3. DOMAIN decls = M /\ \A f \in M : AreRows(decls[f], f)
    BY <2>1, DeclaredAreRows DEF AsAnswered
  <2>4. \/ level \in {"fer", "question"}
        \/ level = "area" /\ \A f \in M : areas[f] = TextOf(f).ref
    BY <2>2 DEF AsAnswered
  <2>5. LinesCount(AdoptionRows(decls, areas, level, "any", "any", split), M, level, split)
    BY <2>3, <2>4, LinesAreCounted
  <2>6. view = AdoptionRows(decls, areas, level, "any", "any", split)
    <3>1. CASE Tier(M) = "live"
      <4>1. view = AdoptionLive(decls, areas, level, "any", "any")
        BY <1>1, <2>1, <2>2, <3>1 DEF Adoption
      <4>2. split = (level \in {"ferType", "question"})
        BY <1>2, <3>1
      <4>3. QED
        BY <4>1, <4>2, Zenon DEF AdoptionLive
    <3>2. CASE Tier(M) = "degraded"
      <4>1. view = AdoptionDegraded(decls, areas, level, "any", "any")
        BY <1>1, <2>1, <2>2, <3>2 DEF Adoption
      <4>2. split = TRUE
        BY <1>2, <3>2
      <4>3. QED
        BY <4>1, <4>2, Zenon DEF AdoptionDegraded
    <3>3. QED
      BY <3>1, <3>2 DEF AsAnswered
  <2>7. QED
    BY <2>5, <2>6
<1>4. PICK asked : asked = AskedOf(M)
  OBVIOUS
<1>5. /\ \A x \in asked : x[1] \in M /\ x[2] \in Asked(x[1]) /\ x = <<x[1], x[2]>>
      /\ \A f \in M : \A q \in Asked(f) : <<f, q>> \in asked
  BY <1>4, AskedOfIs
<1>6. IsFiniteSet(asked)
  BY <1>4, AskedIsFinite DEF AsAnswered
<1> DEFINE group(x, key) == GroupOf(x[1], x[2], key, level)
           declared == UNION {{<<group(x, KeyOf(d)), KeyOf(d), d.status>> : d \in Declared(x[1], x[2])} :
                                 x \in asked}
           using(k) == {x \in asked : group(x, k[2]) = k[1] /\ Uses(x[1], x[2], k[2], k[3])}
           lines(k) == {l \in DOMAIN view : l.group = k[1] /\ l.key = k[2] /\ l.status = k[3]}
<1>7. ASSUME NEW k \in declared, ~(split /\ Cardinality({x[2].ferType : x \in using(k)}) > 1)
      PROVE  /\ Cardinality(lines(k)) = 1
             /\ \A l \in lines(k) : view[l].fips = Cardinality({x[1] : x \in using(k)})
  <2>1. PICK x \in asked :
            k \in {<<group(x, KeyOf(d)), KeyOf(d), d.status>> : d \in Declared(x[1], x[2])}
    BY <1>7, Zenon
  <2>2. PICK d \in Declared(x[1], x[2]) : k = <<group(x, KeyOf(d)), KeyOf(d), d.status>>
    BY <2>1
  <2>3. k[1] = group(x, KeyOf(d)) /\ k[2] = KeyOf(d) /\ k[3] = d.status
    BY <2>2
  <2>4. PICK U : U = using(k)
    OBVIOUS
  <2>5. U \subseteq asked /\ \A y \in asked : y \in U <=> group(y, k[2]) = k[1] /\ Uses(y[1], y[2], k[2], k[3])
    BY <2>4
  <2>6. ASSUME NEW f \in M, NEW q \in Asked(f), NEW e \in Declared(f, q), KeyOf(e) = k[2], e.status = k[3],
               GroupOf(f, q, KeyOf(e), level) = k[1]
        PROVE  <<f, q>> \in U
    <3>1. PICK y \in asked : y = <<f, q>>
      BY <1>5
    <3>2. y[1] = f /\ y[2] = q
      BY <3>1
    <3>3. Uses(f, q, k[2], k[3])
      BY <2>6 DEF Uses
    <3>4. group(y, k[2]) = k[1]
      BY <2>6, <3>2
    <3>5. QED
      BY <2>5, <3>1, <3>2, <3>3, <3>4
  <2>7. x \in U
    BY <1>5, <2>3, <2>6
  <2>8. ASSUME split, NEW y \in U, NEW z \in U PROVE y[2].ferType = z[2].ferType
    <3> DEFINE type == [w \in U |-> w[2].ferType]
    <3>1. IsFiniteSet(U)
      BY <1>6, <2>5, FS_Subset
    <3>2. PICK T : T = {w[2].ferType : w \in U}
      OBVIOUS
    <3>3. T = {type[w] : w \in U} /\ y[2].ferType \in T /\ z[2].ferType \in T
      BY <3>2
    <3> HIDE DEF type
    <3>4. IsFiniteSet(T)
      BY <3>1, <3>3, ImageFinite
    <3>5. ~(Cardinality(T) > 1)
      BY <1>7, <2>4, <2>8, <3>2, Zenon
    <3>6. QED
      BY <3>3, <3>4, <3>5, OneOrMore
  <2>9. PICK one : one = LineFor(x[1], x[2], d, level, split)
    OBVIOUS
  <2>10. one \in DOMAIN view
    BY <1>3, <1>5, <2>9 DEF LinesCount
  <2>11. /\ one.group = GroupOf(x[1], x[2], KeyOf(d), level) /\ one.key = KeyOf(d) /\ one.ferId = d.ferId
         /\ one.status = d.status /\ one.ferType = IF split THEN x[2].ferType ELSE None
    BY <2>9 DEF LineFor
  <2>12. one.group = k[1] /\ one.key = k[2] /\ one.status = k[3]
    BY <2>3, <2>11
  <2>13. ASSUME NEW f \in M, NEW q \in Asked(f), NEW e \in Declared(f, q), KeyOf(e) = k[2], e.status = k[3],
                GroupOf(f, q, KeyOf(e), level) = k[1]
         PROVE  LineFor(f, q, e, level, split) = one
    <3>1. PICK y : y = <<f, q>>
      OBVIOUS
    <3>2. y \in U /\ y[2] = q
      BY <2>6, <2>13, <3>1
    <3>3. split => q.ferType = x[2].ferType
      BY <2>7, <2>8, <3>2
    <3>4. e.ferId = d.ferId
      BY <2>3, <2>13, SameKeySameResource
    <3>5. QED
      BY <2>3, <2>9, <2>13, <3>3, <3>4 DEF LineFor
  <2>14. ASSUME NEW f \in M, Makes(f, one, level, split) PROVE \E y \in U : y[1] = f
    <3>1. PICK q \in Asked(f) : \E e \in Declared(f, q) : one = LineFor(f, q, e, level, split)
      BY <2>14 DEF Makes
    <3>2. PICK e \in Declared(f, q) : one = LineFor(f, q, e, level, split)
      BY <3>1
    <3>3. KeyOf(e) = one.key /\ e.status = one.status /\ GroupOf(f, q, KeyOf(e), level) = one.group
      BY <3>2 DEF LineFor
    <3>4. <<f, q>> \in U
      BY <2>6, <2>12, <3>3
    <3>5. <<f, q>>[1] = f
      OBVIOUS
    <3>6. QED
      BY <3>4, <3>5
  <2>15. ASSUME NEW y \in U PROVE y[1] \in M /\ Makes(y[1], one, level, split)
    <3>1. y \in asked /\ group(y, k[2]) = k[1] /\ Uses(y[1], y[2], k[2], k[3])
      BY <2>5
    <3>2. PICK e \in Declared(y[1], y[2]) : KeyOf(e) = k[2] /\ e.status = k[3]
      BY <3>1 DEF Uses
    <3>3. y[1] \in M /\ y[2] \in Asked(y[1])
      BY <1>5, <3>1
    <3>4. LineFor(y[1], y[2], e, level, split) = one
      BY <2>13, <3>1, <3>2, <3>3
    <3>5. QED
      BY <3>3, <3>4 DEF Makes
  <2>16. view[one].fips = Cardinality({y[1] : y \in U})
    <3>1. {f \in M : Makes(f, one, level, split)} = {y[1] : y \in U}
      BY <2>14, <2>15
    <3>2. QED
      BY <1>3, <2>10, <3>1 DEF LinesCount
  <2>17. ASSUME NEW l \in lines(k) PROVE l = one
    <3>1. l \in DOMAIN view /\ l.group = k[1] /\ l.key = k[2] /\ l.status = k[3]
      OBVIOUS
    <3>2. PICK f \in M : Makes(f, l, level, split)
      BY <1>3, <3>1 DEF LinesCount
    <3>3. PICK q \in Asked(f) : \E e \in Declared(f, q) : l = LineFor(f, q, e, level, split)
      BY <3>2 DEF Makes
    <3>4. PICK e \in Declared(f, q) : l = LineFor(f, q, e, level, split)
      BY <3>3
    <3>5. KeyOf(e) = k[2] /\ e.status = k[3] /\ GroupOf(f, q, KeyOf(e), level) = k[1]
      BY <3>1, <3>4 DEF LineFor
    <3>6. QED
      BY <2>13, <3>4, <3>5
  <2>18. lines(k) = {one}
    BY <2>10, <2>12, <2>17
  <2>19. Cardinality({one}) = 1
    BY FS_Singleton
  <2> HIDE DEF lines, using
  <2>20. QED
    BY <2>4, <2>16, <2>18, <2>19
<1>8. ASSUME NEW k \in declared, k[3] \in statuses
      PROVE  \/ byType /\ Cardinality({x[2].ferType : x \in using(k)}) > 1
             \/ /\ Cardinality(lines(k)) = 1
                /\ \A l \in lines(k) : view[l].fips = Cardinality({x[1] : x \in using(k)})
  <2> HIDE DEF declared, lines, using, byType
  <2>1. QED
    BY <1>2, <1>7, Zenon
<1>9. QED
  BY <1>1, <1>4, <1>8, Zenon DEF AdoptionRight

-----------------------------------------------------------------------------
(* Gaps                                                                    *)

(* How many FIPs say something to a question, by its id, is how many cells *)
(* say it.                                                                 *)
LEMMA CellsBySaid ==
    ASSUME NEW M, AsAnswered(M), NEW A, A = PairsIn(CellsSeen(M), M), NEW said, said = SaidIn(M),
           NEW y \in said, NEW s \in CellStateNames
    PROVE  Cardinality({x \in A : x[2].question = y[2].id /\ x[2].state = s}) =
               Cardinality({x \in said : x[2].id = y[2].id /\ x[3] = s})
<1>1. PICK cells : cells = CellsSeen(M)
  OBVIOUS
<1>2. IsFiniteSet(M) /\ DOMAIN cells = M
  BY <1>1 DEF AsAnswered
<1>3. \A f \in M : IsFiniteSet(cells[f]) /\ \A c \in cells[f] : c.state \in CellStateNames
  BY <1>1, CellsAreRight
<1>4. IsFiniteSet(A) /\ A = PairsIn(cells, M)
  BY <1>1, <1>2, <1>3, PairsInAreFinite
<1>5. \A x \in A : x[2].state \in CellStateNames
  BY <1>3, <1>4, PairsInIs
<1>6. PICK view : view = Coverage(cells, "question", "any", Cardinality(M))
  OBVIOUS
<1>7. CoverageCounts(view, A, "question")
  BY <1>2, <1>4, <1>5, <1>6, CoverageCounted
<1>8. PICK line : line = <<"q", y[2].id>>
  OBVIOUS
<1>9. \A x \in said : LineOf(x[2], "question") = line <=> x[2].id = y[2].id
  BY <1>8, ByQuestion
<1>10. \A x \in A : CoverageKey(CoverageColumns(x[2]), "question") = line <=> x[2].question = y[2].id
  BY <1>8, ByQuestion
<1>11. /\ DOMAIN view.rows = {LineOf(x[2], "question") : x \in said}
       /\ \A l \in DOMAIN view.rows :
             view.rows[l].counts[s] = Cardinality({x \in {x \in said : LineOf(x[2], "question") = l} : x[3] = s})
  <2>1. CoverageRight(M, "question", said)
    BY CoverageIsRight DEF Levels
  <2>2. QED
    BY <1>1, <1>6, <2>1 DEF CoverageRight
<1>12. line \in DOMAIN view.rows
  BY <1>9, <1>11
<1>13. {x \in {x \in said : LineOf(x[2], "question") = line} : x[3] = s} =
           {x \in said : x[2].id = y[2].id /\ x[3] = s}
  BY <1>9
<1>14. InState(InLine(A, "question", line), s) = {x \in A : x[2].question = y[2].id /\ x[2].state = s}
  BY <1>10 DEF InState, InLine
<1>15. view.rows[line].counts[s] = Cardinality(InState(InLine(A, "question", line), s))
  BY <1>7, <1>12 DEF CoverageCounts
<1>16. QED
  BY <1>11, <1>12, <1>13, <1>14, <1>15

(* The lines, without the operator that keys them                          *)
GapLines(view, A, keyOf) == view = [k \in {keyOf[x] : x \in A} |-> GapCounts({x \in A : keyOf[x] = k})]

LEMMA GapsLiveAre ==
    ASSUME NEW cells, NEW A, A = PairsIn(cells, DOMAIN cells)
    PROVE  GapLines(GapsLive(cells), A, [x \in A |-> GapColumns(x[2])])
<1>1. GapsLive(cells) = [k \in {GapColumns(x[2]) : x \in A} |-> GapCounts({x \in A : GapColumns(x[2]) = k})]
  BY Zenon DEF GapsLive, GapRows, PairsIn
<1> DEFINE keyOf == [x \in A |-> GapColumns(x[2])]
<1>2. \A x \in A : keyOf[x] = GapColumns(x[2])
  OBVIOUS
<1> HIDE DEF keyOf
<1>3. {GapColumns(x[2]) : x \in A} = {keyOf[x] : x \in A}
  BY <1>2
<1>4. \A k : {x \in A : GapColumns(x[2]) = k} = {x \in A : keyOf[x] = k}
  BY <1>2
<1>5. GapsLive(cells) = [k \in {keyOf[x] : x \in A} |-> GapCounts({x \in A : keyOf[x] = k})]
  BY <1>1, <1>3, <1>4
<1>6. QED
  BY <1>5 DEF GapLines, keyOf

LEMMA GapsDegradedAre ==
    ASSUME NEW cells, NEW A, A = PairsIn(cells, DOMAIN cells)
    PROVE  GapLines(GapsDegraded(cells), A, [x \in A |-> x[2].question])
<1>1. GapsDegraded(cells) = [k \in {x[2].question : x \in A} |-> GapCounts({x \in A : x[2].question = k})]
  BY Zenon DEF GapsDegraded, GapRows, PairsIn
<1> DEFINE keyOf == [x \in A |-> x[2].question]
<1>2. \A x \in A : keyOf[x] = x[2].question
  OBVIOUS
<1> HIDE DEF keyOf
<1>3. {x[2].question : x \in A} = {keyOf[x] : x \in A}
  BY <1>2
<1>4. \A k : {x \in A : x[2].question = k} = {x \in A : keyOf[x] = k}
  BY <1>2
<1>5. GapsDegraded(cells) = [k \in {keyOf[x] : x \in A} |-> GapCounts({x \in A : keyOf[x] = k})]
  BY <1>1, <1>3, <1>4
<1>6. QED
  BY <1>5 DEF GapLines, keyOf

GapColumnNames == {"unanswered", "noneOnly", "plannedOnly", "notApplicable"}

StateOfColumn ==
    [c \in GapColumnNames |-> IF c = "noneOnly" THEN "none" ELSE IF c = "plannedOnly" THEN "planned"
                              ELSE IF c = "notApplicable" THEN "not-applicable" ELSE "unanswered"]

LEMMA GapCountsAre ==
    ASSUME NEW B, IsFiniteSet(B)
    PROVE  /\ GapCounts(B).fips \in Nat /\ GapCounts(B).unanswered \in Nat /\ GapCounts(B).noneOnly \in Nat
           /\ \A c \in GapColumnNames : GapCounts(B)[c] = Cardinality({x \in B : x[2].state = StateOfColumn[c]})
<1>1. \A s : IsFiniteSet({x \in B : x[2].state = s})
  BY FS_Subset
<1>2. Cardinality(B) \in Nat /\ \A s : Cardinality({x \in B : x[2].state = s}) \in Nat
  BY <1>1, FS_CardinalityType
<1>3. GapCounts(B) =
          [fips |-> Cardinality(B), unanswered |-> Cardinality({x \in B : x[2].state = "unanswered"}),
           noneOnly |-> Cardinality({x \in B : x[2].state = "none"}),
           notApplicable |-> Cardinality({x \in B : x[2].state = "not-applicable"}),
           plannedOnly |-> Cardinality({x \in B : x[2].state = "planned"})]
  BY DEF GapCounts
<1>4. ASSUME NEW c \in GapColumnNames
      PROVE  GapCounts(B)[c] = Cardinality({x \in B : x[2].state = StateOfColumn[c]})
  <2>1. CASE c = "unanswered"
    BY <1>3, <2>1 DEF StateOfColumn
  <2>2. CASE c = "noneOnly"
    BY <1>3, <2>2 DEF StateOfColumn
  <2>3. CASE c = "plannedOnly"
    BY <1>3, <2>3 DEF StateOfColumn
  <2>4. CASE c = "notApplicable"
    BY <1>3, <2>4 DEF StateOfColumn
  <2>5. QED
    BY <2>1, <2>2, <2>3, <2>4 DEF GapColumnNames
<1>5. GapCounts(B).fips \in Nat /\ GapCounts(B).unanswered \in Nat /\ GapCounts(B).noneOnly \in Nat
  <2>1. PICK u : u = Cardinality({x \in B : x[2].state = "unanswered"})
    OBVIOUS
  <2>2. PICK n : n = Cardinality({x \in B : x[2].state = "none"})
    OBVIOUS
  <2>3. u \in Nat /\ n \in Nat /\ Cardinality(B) \in Nat
    BY <1>2, <2>1, <2>2
  <2>4. GapCounts(B).fips = Cardinality(B) /\ GapCounts(B).unanswered = u /\ GapCounts(B).noneOnly = n
    BY <1>3, <2>1, <2>2
  <2>5. QED
    BY <2>3, <2>4
<1>6. QED
  BY <1>4, <1>5

(* Nothing is below a threshold of nothing.                                *)
LEMMA AllOverThreshold ==
    ASSUME NEW A, IsFiniteSet(A), NEW keyOf, NEW lines, GapLines(lines, A, keyOf)
    PROVE  OverThreshold(lines, 0) = lines
<1>1. lines = [k \in {keyOf[x] : x \in A} |-> GapCounts({x \in A : keyOf[x] = k})]
  BY DEF GapLines
<1>2. ASSUME NEW k \in DOMAIN lines
      PROVE  (lines[k].unanswered + lines[k].noneOnly) * 100 >= 0 * lines[k].fips
  <2>1. PICK B : B = {x \in A : keyOf[x] = k}
    OBVIOUS
  <2>2. IsFiniteSet(B) /\ lines[k] = GapCounts(B)
    BY <1>1, <2>1, FS_Subset
  <2>3. lines[k].fips \in Nat /\ lines[k].unanswered \in Nat /\ lines[k].noneOnly \in Nat
    BY <2>2, GapCountsAre
  <2>4. \A a, b, c \in Nat : (a + b) * 100 >= 0 * c
    OBVIOUS
  <2>5. QED
    BY <2>3, <2>4
<1>3. {k \in DOMAIN lines : (lines[k].unanswered + lines[k].noneOnly) * 100 >= 0 * lines[k].fips} = DOMAIN lines
  BY <1>2
<1>4. lines = [k \in DOMAIN lines |-> lines[k]]
  BY <1>1
<1>5. QED
  BY <1>3, <1>4, Zenon DEF OverThreshold

LEMMA GapColumnIs ==
    ASSUME NEW A, IsFiniteSet(A), NEW keyOf, NEW view, GapLines(view, A, keyOf),
           NEW c \in GapColumnNames, NEW S, S \subseteq DOMAIN view
    PROVE  SumFunctionOnSet([k \in DOMAIN view |-> view[k][c]], S) =
               Cardinality({x \in A : keyOf[x] \in S /\ x[2].state = StateOfColumn[c]})
<1>1. view = [k \in {keyOf[x] : x \in A} |-> GapCounts({x \in A : keyOf[x] = k})]
  BY DEF GapLines
<1>2. PICK s : s = StateOfColumn[c]
  OBVIOUS
<1>3. PICK B : B = {x \in A : x[2].state = s}
  OBVIOUS
<1>4. IsFiniteSet(B)
  BY <1>3, FS_Subset
<1>5. IsFiniteSet(S)
  <2>1. DOMAIN view = {keyOf[x] : x \in A}
    BY <1>1
  <2>2. IsFiniteSet(DOMAIN view)
    BY <2>1, ImageFinite
  <2>3. QED
    BY <2>2, FS_Subset
<1>6. PICK tally : tally = [k \in DOMAIN view |-> view[k][c]]
  OBVIOUS
<1>7. ASSUME NEW k \in S PROVE tally[k] = With(B, keyOf, k)
  <2>1. PICK C : C = {x \in A : keyOf[x] = k}
    OBVIOUS
  <2>2. IsFiniteSet(C) /\ view[k] = GapCounts(C)
    BY <1>1, <2>1, FS_Subset
  <2>3. view[k][c] = Cardinality({x \in C : x[2].state = s})
    BY <1>2, <2>2, GapCountsAre
  <2>4. {x \in C : x[2].state = s} = {x \in B : keyOf[x] = k}
    BY <1>3, <2>1
  <2>5. tally[k] = view[k][c]
    BY <1>6
  <2>6. QED
    BY <2>3, <2>4, <2>5 DEF With
<1>8. SumFunctionOnSet(tally, S) = WithAny(B, keyOf, S)
  BY <1>4, <1>5, <1>7, SumOfCounts
<1>9. {x \in B : keyOf[x] \in S} = {x \in A : keyOf[x] \in S /\ x[2].state = s}
  BY <1>3
<1>10. QED
  BY <1>2, <1>6, <1>8, <1>9 DEF WithAny

LEMMA GapsAreRight ==
    ASSUME NEW M, AsAnswered(M)
    PROVE  GapsRight(M, SaidIn(M))
<1>1. PICK cells : cells = CellsSeen(M)
  OBVIOUS
<1>2. PICK A : A = PairsIn(cells, M)
  OBVIOUS
<1>3. PICK said : said = SaidIn(M)
  OBVIOUS
<1>4. IsFiniteSet(M) /\ DOMAIN cells = M
  BY <1>1 DEF AsAnswered
<1>5. IsFiniteSet(A)
  <2>1. \A f \in M : IsFiniteSet(cells[f])
    BY <1>1, CellsAreRight
  <2>2. QED
    BY <1>2, <1>4, <2>1, PairsInAreFinite
<1>6. PICK live : live = (Tier(M) = "live")
  OBVIOUS
<1>7. PICK keyOf : keyOf = IF live THEN [x \in A |-> GapColumns(x[2])] ELSE [x \in A |-> x[2].question]
  OBVIOUS
<1>8. PICK view : view = Gaps(M, 0)
  OBVIOUS
<1>9. GapLines(view, A, keyOf)
  <2>1. PICK lines : lines = IF live THEN GapsLive(cells) ELSE GapsDegraded(cells)
    OBVIOUS
  <2>2. GapLines(lines, A, keyOf)
    <3>1. A = PairsIn(cells, DOMAIN cells)
      BY <1>2, <1>4
    <3>2. CASE live
      <4>1. GapLines(GapsLive(cells), A, [x \in A |-> GapColumns(x[2])])
        BY <3>1, GapsLiveAre
      <4>2. QED
        BY <1>7, <2>1, <3>2, <4>1
    <3>3. CASE ~live
      <4>1. GapLines(GapsDegraded(cells), A, [x \in A |-> x[2].question])
        BY <3>1, GapsDegradedAre
      <4>2. QED
        BY <1>7, <2>1, <3>3, <4>1
    <3>4. QED
      BY <3>2, <3>3
  <2>3. view = OverThreshold(lines, 0)
    BY <1>1, <1>6, <1>8, <2>1 DEF Gaps
  <2>4. QED
    BY <1>5, <2>2, <2>3, AllOverThreshold
<1> DEFINE at(id) == {k \in DOMAIN view : IF live THEN k.question = id ELSE k = id}
           sum(id, column) == SumFunctionOnSet([k \in DOMAIN view |-> view[k][column]], at(id))
           with(id, state) == Cardinality({x \in said : x[2].id = id /\ x[3] = state})
<1>10. ASSUME NEW id \in {x[2].id : x \in said}, NEW c \in GapColumnNames, NEW s, s = StateOfColumn[c]
       PROVE  sum(id, c) = with(id, s)
  <2>1. PICK y \in said : id = y[2].id
    OBVIOUS
  <2>2. PICK S : S = at(id)
    OBVIOUS
  <2>3. S \subseteq DOMAIN view
    BY <2>2
  <2>4. sum(id, c) = Cardinality({x \in A : keyOf[x] \in S /\ x[2].state = s})
    <3>1. SumFunctionOnSet([k \in DOMAIN view |-> view[k][c]], S) =
              Cardinality({x \in A : keyOf[x] \in S /\ x[2].state = StateOfColumn[c]})
      BY <1>5, <1>9, <2>3, GapColumnIs
    <3>2. QED
      BY <1>10, <2>2, <3>1
  <2>5. \A x \in A : keyOf[x] \in S <=> x[2].question = id
    <3>1. \A x \in A : keyOf[x] \in DOMAIN view
      BY <1>9 DEF GapLines
    <3>2. \A x \in A : (IF live THEN keyOf[x].question ELSE keyOf[x]) = x[2].question
      BY <1>7 DEF GapColumns
    <3>3. QED
      BY <2>2, <3>1, <3>2
  <2>6. {x \in A : keyOf[x] \in S /\ x[2].state = s} = {x \in A : x[2].question = y[2].id /\ x[2].state = s}
    BY <2>1, <2>5
  <2>7. s \in CellStateNames
    BY <1>10 DEF StateOfColumn, GapColumnNames, CellStateNames
  <2>8. Cardinality({x \in A : x[2].question = y[2].id /\ x[2].state = s}) =
            Cardinality({x \in said : x[2].id = y[2].id /\ x[3] = s})
    BY <1>1, <1>2, <1>3, <2>7, CellsBySaid
  <2> HIDE DEF sum
  <2>9. QED
    BY <2>1, <2>4, <2>6, <2>8
<1>11. /\ StateOfColumn["unanswered"] = "unanswered" /\ StateOfColumn["noneOnly"] = "none"
       /\ StateOfColumn["plannedOnly"] = "planned" /\ StateOfColumn["notApplicable"] = "not-applicable"
       /\ {"unanswered", "noneOnly", "plannedOnly", "notApplicable"} \subseteq GapColumnNames
  BY DEF StateOfColumn, GapColumnNames
<1>12. ASSUME NEW id \in {x[2].id : x \in said}
       PROVE  /\ sum(id, "unanswered") = with(id, "unanswered")
              /\ sum(id, "noneOnly") = with(id, "none")
              /\ sum(id, "plannedOnly") = with(id, "planned")
              /\ sum(id, "notApplicable") = with(id, "not-applicable")
  <2> HIDE DEF sum, with
  <2>1. sum(id, "unanswered") = with(id, "unanswered")
    BY <1>10, <1>11
  <2>2. sum(id, "noneOnly") = with(id, "none")
    BY <1>10, <1>11
  <2>3. sum(id, "plannedOnly") = with(id, "planned")
    BY <1>10, <1>11
  <2>4. sum(id, "notApplicable") = with(id, "not-applicable")
    BY <1>10, <1>11
  <2>5. QED
    BY <2>1, <2>2, <2>3, <2>4
<1> DEFINE places(id) == {k \in DOMAIN Gaps(M, 0) : IF Tier(M) = "live" THEN k.question = id ELSE k = id}
           total(id, column) == SumFunctionOnSet([k \in DOMAIN Gaps(M, 0) |-> Gaps(M, 0)[k][column]], places(id))
<1>13. \A id, column : total(id, column) = sum(id, column)
  <2>1. \A id : places(id) = at(id)
    BY <1>6, <1>8
  <2> HIDE DEF places, at
  <2>2. QED
    BY <1>8, <2>1
<1> HIDE DEF sum, with
<1>14. ASSUME NEW id \in {x[2].id : x \in said}
       PROVE  /\ total(id, "unanswered") = with(id, "unanswered")
              /\ total(id, "noneOnly") = with(id, "none")
              /\ total(id, "plannedOnly") = with(id, "planned")
              /\ total(id, "notApplicable") = with(id, "not-applicable")
  <2> HIDE DEF total
  <2>1. QED
    BY <1>12, <1>13
<1> USE DEF with
<1>15. GapsRight(M, said)
  BY <1>14, Zenon DEF GapsRight
<1>16. QED
  BY <1>3, <1>15

-----------------------------------------------------------------------------
(* Evolution                                                               *)
PlanFor(f, k) ==
    \E q \in Asked(f) : \E d \in Declared(f, q) :
        /\ d.status \in PlannedStatuses
        /\ k = [sub |-> q.sub, question |-> q.id, status |-> d.status,
                key |-> KeyOf(d), successor |-> SuccessorKey(d)]

PlannedIn(decls) == [f \in DOMAIN decls |-> {d \in decls[f] : d.status \in PlannedStatuses}]

PlannedLines(view, planned, all) ==
    /\ DOMAIN view = {PlannedColumns(x[2]) : x \in all}
    /\ \A k \in DOMAIN view :
           view[k] = Cardinality({f \in DOMAIN planned : \E d \in planned[f] : PlannedColumns(d) = k})

LEMMA EvolutionIs ==
    ASSUME NEW decls, NEW planned, planned = PlannedIn(decls), NEW all, all = PairsIn(planned, DOMAIN planned)
    PROVE  PlannedLines(EvolutionPlanned(decls), planned, all)
<1>1. PICK tally : tally = Tally(planned, PlannedColumns)
  OBVIOUS
<1>2. tally = [k \in {PlannedColumns(x[2]) : x \in all} |-> Cardinality({x \in all : PlannedColumns(x[2]) = k})]
  BY <1>1, Zenon DEF Tally, PairsIn
<1>3. DOMAIN tally = {PlannedColumns(x[2]) : x \in all}
  BY <1>2
<1>4. PICK view : view = EvolutionPlanned(decls)
  OBVIOUS
<1>5. view = [k \in DOMAIN tally |->
                Cardinality({f \in DOMAIN planned : \E d \in planned[f] : PlannedColumns(d) = k})]
  BY <1>1, <1>4, Zenon DEF EvolutionPlanned, FipsWith, PlannedIn
<1>6. PlannedLines(view, planned, all)
  BY <1>3, <1>5 DEF PlannedLines
<1>7. QED
  BY <1>4, <1>6

LEMMA PlannedIsPlanFor ==
    ASSUME NEW f, NEW D, AreRows(D, f), NEW k
    PROVE  (\E d \in {d \in D : d.status \in PlannedStatuses} : PlannedColumns(d) = k) <=> PlanFor(f, k)
<1>1. ASSUME NEW d, NEW q, NEW e, RowFor(d, q, e)
      PROVE  /\ PlannedColumns(d) = [sub |-> q.sub, question |-> q.id, status |-> e.status,
                                     key |-> KeyOf(e), successor |-> SuccessorKey(e)]
             /\ d.status = e.status
  BY <1>1 DEF RowFor, PlannedColumns
<1>2. ASSUME NEW d \in D, d.status \in PlannedStatuses, PlannedColumns(d) = k PROVE PlanFor(f, k)
  <2>1. PICK q \in Asked(f) : \E e \in Declared(f, q) : RowFor(d, q, e)
    BY DEF AreRows
  <2>2. PICK e \in Declared(f, q) : RowFor(d, q, e)
    BY <2>1
  <2>3. e.status \in PlannedStatuses /\ k = [sub |-> q.sub, question |-> q.id, status |-> e.status,
                                             key |-> KeyOf(e), successor |-> SuccessorKey(e)]
    BY <1>1, <1>2, <2>2
  <2>4. QED
    BY <2>3 DEF PlanFor
<1>3. ASSUME PlanFor(f, k) PROVE \E d \in {d \in D : d.status \in PlannedStatuses} : PlannedColumns(d) = k
  <2>1. PICK q \in Asked(f) : \E e \in Declared(f, q) :
            /\ e.status \in PlannedStatuses
            /\ k = [sub |-> q.sub, question |-> q.id, status |-> e.status,
                    key |-> KeyOf(e), successor |-> SuccessorKey(e)]
    BY <1>3 DEF PlanFor
  <2>2. PICK e \in Declared(f, q) :
            /\ e.status \in PlannedStatuses
            /\ k = [sub |-> q.sub, question |-> q.id, status |-> e.status,
                    key |-> KeyOf(e), successor |-> SuccessorKey(e)]
    BY <2>1
  <2>3. PICK d \in D : RowFor(d, q, e)
    BY DEF AreRows
  <2>4. PlannedColumns(d) = k /\ d.status \in PlannedStatuses
    BY <1>1, <2>2, <2>3
  <2>5. QED
    BY <2>4
<1>4. QED
  BY <1>2, <1>3

LEMMA PlansAreRight ==
    ASSUME NEW M, NEW decls, DOMAIN decls = M, \A f \in M : AreRows(decls[f], f),
           NEW view, view = EvolutionPlanned(decls)
    PROVE  /\ \A k \in DOMAIN view : view[k] = Cardinality({f \in M : PlanFor(f, k)})
           /\ \A f \in M : (\E q \in Asked(f) : Plans(f, q)) => \E k \in DOMAIN view : PlanFor(f, k)
<1>1. PICK planned : planned = PlannedIn(decls)
  OBVIOUS
<1>2. DOMAIN planned = M /\ \A f \in M : planned[f] = {d \in decls[f] : d.status \in PlannedStatuses}
  BY <1>1 DEF PlannedIn
<1>3. PICK all : all = PairsIn(planned, DOMAIN planned)
  OBVIOUS
<1>4. PlannedLines(view, planned, all)
  BY <1>1, <1>3, EvolutionIs
<1>5. \A f \in M : \A d \in planned[f] : <<f, d>> \in all
  BY <1>2, <1>3, PairsInIs
<1>6. \A f \in M : \A k : (\E d \in planned[f] : PlannedColumns(d) = k) <=> PlanFor(f, k)
  BY <1>2, PlannedIsPlanFor
<1>7. ASSUME NEW k \in DOMAIN view PROVE view[k] = Cardinality({f \in M : PlanFor(f, k)})
  <2>1. {f \in DOMAIN planned : \E d \in planned[f] : PlannedColumns(d) = k} = {f \in M : PlanFor(f, k)}
    BY <1>2, <1>6
  <2>2. QED
    BY <1>4, <2>1 DEF PlannedLines
<1>8. ASSUME NEW f \in M, NEW q \in Asked(f), Plans(f, q) PROVE \E k \in DOMAIN view : PlanFor(f, k)
  <2>1. PICK e \in Declared(f, q) : e.status \in PlannedStatuses
    BY <1>8 DEF Plans
  <2>2. PICK k : k = [sub |-> q.sub, question |-> q.id, status |-> e.status,
                      key |-> KeyOf(e), successor |-> SuccessorKey(e)]
    OBVIOUS
  <2>3. PlanFor(f, k)
    BY <2>1, <2>2 DEF PlanFor
  <2>4. PICK d \in planned[f] : PlannedColumns(d) = k
    BY <1>6, <2>3
  <2>5. PICK x \in all : x = <<f, d>>
    BY <1>5
  <2>6. x[2] = d
    BY <2>5
  <2>7. k \in DOMAIN view
    BY <1>4, <2>4, <2>6 DEF PlannedLines
  <2>8. QED
    BY <2>3, <2>7
<1>9. QED
  BY <1>7, <1>8

LEMMA MigrationsCounted ==
    ASSUME NEW M, NEW refs, NEW from, DOMAIN refs = M,
           \A f \in M : refs[f] = TextOf(f).ref /\ from[f] = TextOf(f).migratedFrom,
           NEW k \in DOMAIN EvolutionMigrations(refs, from)
    PROVE  EvolutionMigrations(refs, from)[k] =
               Cardinality({f \in M : TextOf(f).ref = k.to /\ TextOf(f).migratedFrom = k.from})
<1>1. PICK m : m = {f \in DOMAIN refs : from[f] # None}
  OBVIOUS
<1>2. PICK steps : steps = EvolutionMigrations(refs, from)
  OBVIOUS
<1>3. steps = [l \in {[to |-> refs[f], from |-> from[f]] : f \in m} |->
                  Cardinality({f \in m : [to |-> refs[f], from |-> from[f]] = l})]
  BY <1>1, <1>2 DEF EvolutionMigrations
<1>4. PICK g \in m : k = [to |-> refs[g], from |-> from[g]]
  BY <1>2, <1>3
<1>5. k.from # None /\ k = [to |-> k.to, from |-> k.from]
  BY <1>1, <1>4
<1>6. \A f \in m : [to |-> refs[f], from |-> from[f]] = k <=> refs[f] = k.to /\ from[f] = k.from
  BY <1>5
<1>7. {f \in m : [to |-> refs[f], from |-> from[f]] = k} =
          {f \in M : TextOf(f).ref = k.to /\ TextOf(f).migratedFrom = k.from}
  BY <1>1, <1>5, <1>6
<1>8. steps[k] = Cardinality({f \in m : [to |-> refs[f], from |-> from[f]] = k})
  BY <1>2, <1>3
<1>9. QED
  BY <1>2, <1>7, <1>8

LEMMA EvolutionIsRight ==
    ASSUME NEW M, AsAnswered(M)
    PROVE  EvolutionRight(M)
<1>1. PICK decls : decls = DeclarationsSeen(M)
  OBVIOUS
<1>2. DOMAIN decls = M /\ \A f \in M : AreRows(decls[f], f)
  BY <1>1, DeclaredAreRows DEF AsAnswered
<1>3. PICK view : view = EvolutionPlanned(decls)
  OBVIOUS
<1>4. /\ \A k \in DOMAIN view : view[k] = Cardinality({f \in M : PlanFor(f, k)})
      /\ \A f \in M : (\E q \in Asked(f) : Plans(f, q)) => \E k \in DOMAIN view : PlanFor(f, k)
  BY <1>2, <1>3, PlansAreRight
<1>5. PICK steps : steps = Migrations(M)
  OBVIOUS
<1>6. ASSUME NEW k \in DOMAIN steps
      PROVE  steps[k] = Cardinality({f \in M : TextOf(f).ref = k.to /\ TextOf(f).migratedFrom = k.from})
  <2>1. CASE Tier(M) = "live"
    <3>1. PICK refs : refs = [f \in M |-> rows[f].area]
      OBVIOUS
    <3>2. PICK from : from = [f \in M |-> rows[f].migratedFrom]
      OBVIOUS
    <3>3. steps = EvolutionMigrations(refs, from)
      BY <1>5, <2>1, <3>1, <3>2 DEF Migrations
    <3>4. DOMAIN refs = M /\ \A f \in M : refs[f] = TextOf(f).ref /\ from[f] = TextOf(f).migratedFrom
      BY <2>1, <3>1, <3>2 DEF AsAnswered
    <3>5. QED
      BY <1>6, <3>3, <3>4, MigrationsCounted
  <2>2. CASE Tier(M) # "live"
    <3>1. M \subseteq DOMAIN fips
      BY <2>2 DEF AsAnswered
    <3>2. M \cap DOMAIN fips = M
      BY <3>1
    <3>3. PICK refs : refs = [f \in M |-> fips[f].ref]
      OBVIOUS
    <3>4. PICK from : from = [f \in M |-> fips[f].migratedFrom]
      OBVIOUS
    <3>5. steps = EvolutionMigrations(refs, from)
      BY <1>5, <2>2, <3>2, <3>3, <3>4 DEF Migrations
    <3>6. DOMAIN refs = M /\ \A f \in M : refs[f] = TextOf(f).ref /\ from[f] = TextOf(f).migratedFrom
      BY <3>1, <3>3, <3>4 DEF TextOf
    <3>7. QED
      BY <1>6, <3>5, <3>6, MigrationsCounted
  <2>3. QED
    BY <2>1, <2>2
<1>7. QED
  BY <1>1, <1>3, <1>4, <1>5, <1>6, Zenon DEF EvolutionRight, PlanFor

-----------------------------------------------------------------------------
(* Convergence                                                             *)
DeclaresAt(f, id) == \E q \in Asked(f) : q.id = id /\ InUse(f, q)

KeyedAt(f, id, key) == \E q \in Asked(f) : q.id = id /\ Uses(f, q, key, "current")

ConvergesAt(at, M, id) ==
    /\ {x[1] : x \in at} = {f \in M : DeclaresAt(f, id)}
    /\ \A key : key \in {x[2] : x \in at} <=> \E f \in M : KeyedAt(f, id, key)
    /\ IsFiniteSet({x[2] : x \in at})

LEMMA CurrentAtIs ==
    ASSUME NEW M, IsFiniteSet(M), NEW decls, DOMAIN decls = M,
           \A f \in M : AreRows(decls[f], f) /\ IsFiniteSet(decls[f]), NEW id
    PROVE  ConvergesAt(CurrentAt(decls, id), M, id)
<1> DEFINE here(f) == {<<f, d.key, d.decl>> : d \in {d \in decls[f] : d.question = id /\ d.status = "current"}}
<1>1. PICK at : at = CurrentAt(decls, id)
  OBVIOUS
<1>2. at = UNION {here(f) : f \in M}
  BY <1>1 DEF CurrentAt
<1>3. ASSUME NEW x \in at
      PROVE  x[1] \in M /\ \E d \in decls[x[1]] : d.question = id /\ d.status = "current" /\ x[2] = d.key
  <2>1. PICK f \in M : x \in here(f)
    BY <1>2, <1>3, Zenon
  <2>2. PICK d \in decls[f] : d.question = id /\ d.status = "current" /\ x = <<f, d.key, d.decl>>
    BY <2>1
  <2>3. QED
    BY <2>2
<1>4. ASSUME NEW f \in M, NEW d \in decls[f], d.question = id, d.status = "current"
      PROVE  \E x \in at : x[1] = f /\ x[2] = d.key
  <2>1. PICK x : x = <<f, d.key, d.decl>>
    OBVIOUS
  <2>2. x \in here(f)
    BY <1>4, <2>1
  <2> HIDE DEF here
  <2>3. x \in at
    BY <1>2, <2>2, Zenon
  <2>4. QED
    BY <2>1, <2>3
<1>5. ASSUME NEW f \in M, NEW key
      PROVE  (\E d \in decls[f] : d.question = id /\ d.status = "current" /\ d.key = key) <=> KeyedAt(f, id, key)
  <2>1. ASSUME NEW d \in decls[f], d.question = id, d.status = "current", d.key = key PROVE KeyedAt(f, id, key)
    <3>1. PICK q \in Asked(f) : \E e \in Declared(f, q) : RowFor(d, q, e)
      BY DEF AreRows
    <3>2. PICK e \in Declared(f, q) : RowFor(d, q, e)
      BY <3>1
    <3>3. q.id = id /\ KeyOf(e) = key /\ e.status = "current"
      BY <2>1, <3>2 DEF RowFor
    <3>4. QED
      BY <3>3 DEF KeyedAt, Uses
  <2>2. ASSUME KeyedAt(f, id, key)
        PROVE  \E d \in decls[f] : d.question = id /\ d.status = "current" /\ d.key = key
    <3>1. PICK q \in Asked(f) : q.id = id /\ Uses(f, q, key, "current")
      BY <2>2 DEF KeyedAt
    <3>2. PICK e \in Declared(f, q) : KeyOf(e) = key /\ e.status = "current"
      BY <3>1 DEF Uses
    <3>3. PICK d \in decls[f] : RowFor(d, q, e)
      BY DEF AreRows
    <3>4. QED
      BY <3>1, <3>2, <3>3 DEF RowFor
  <2>3. QED
    BY <2>1, <2>2
<1>6. \A f : DeclaresAt(f, id) <=> \E key : KeyedAt(f, id, key)
  BY DEF DeclaresAt, KeyedAt, InUse, Uses
<1>7. {x[1] : x \in at} = {f \in M : DeclaresAt(f, id)}
  <2>1. ASSUME NEW x \in at PROVE x[1] \in M /\ DeclaresAt(x[1], id)
    BY <1>3, <1>5, <1>6
  <2>2. ASSUME NEW f \in M, DeclaresAt(f, id) PROVE \E x \in at : x[1] = f
    <3>1. PICK key : KeyedAt(f, id, key)
      BY <1>6, <2>2
    <3>2. PICK d \in decls[f] : d.question = id /\ d.status = "current" /\ d.key = key
      BY <1>5, <3>1
    <3>3. QED
      BY <1>4, <3>2
  <2>3. QED
    BY <2>1, <2>2
<1>8. \A key : key \in {x[2] : x \in at} <=> \E f \in M : KeyedAt(f, id, key)
  <2>1. ASSUME NEW x \in at PROVE \E f \in M : KeyedAt(f, id, x[2])
    BY <1>3, <1>5
  <2>2. ASSUME NEW key, NEW f \in M, KeyedAt(f, id, key) PROVE \E x \in at : x[2] = key
    <3>1. PICK d \in decls[f] : d.question = id /\ d.status = "current" /\ d.key = key
      BY <1>5, <2>2
    <3>2. QED
      BY <1>4, <3>1
  <2>3. QED
    BY <2>1, <2>2
<1>9. IsFiniteSet({x[2] : x \in at})
  <2>1. PICK pairs : pairs = PairsIn(decls, M)
    OBVIOUS
  <2>2. IsFiniteSet(pairs)
    BY <2>1, PairsInAreFinite
  <2> DEFINE keyOf == [p \in pairs |-> p[2].key]
  <2>3. PICK keys : keys = {keyOf[p] : p \in pairs}
    OBVIOUS
  <2>4. IsFiniteSet(keys)
    <3> HIDE DEF keyOf
    <3>1. QED
      BY <2>2, <2>3, ImageFinite
  <2>5. ASSUME NEW x \in at PROVE x[2] \in keys
    <3>1. PICK d \in decls[x[1]] : x[2] = d.key
      BY <1>3
    <3>2. <<x[1], d>> \in pairs
      BY <1>3, <2>1, PairsInIs
    <3>3. PICK p \in pairs : p = <<x[1], d>>
      BY <3>2
    <3>4. keyOf[p] = d.key
      BY <3>3
    <3>5. QED
      BY <2>3, <3>1, <3>4
  <2>6. {x[2] : x \in at} \subseteq keys
    BY <2>5
  <2>7. QED
    BY <2>4, <2>6, FS_Subset
<1>10. ConvergesAt(at, M, id)
  BY <1>7, <1>8, <1>9 DEF ConvergesAt
<1>11. QED
  BY <1>1, <1>10

(* Agreed, without its counts                                              *)
LEMMA AgreedIs ==
    ASSUME NEW D, IsFiniteSet(D), NEW N, IsFiniteSet(N), D # {} => N # {}
    PROVE  Agreed(D, N) <=> (\E f, g \in D : f # g) /\ \A k, l \in N : k = l
<1>1. Cardinality(D) \in Nat /\ Cardinality(N) \in Nat
  BY FS_CardinalityType
<1>2. ASSUME NEW f \in D, NEW g \in D, f # g PROVE Cardinality(D) >= 2
  <2>1. Cardinality(D) > 1
    BY <1>2, OneOrMore
  <2>2. QED
    BY <1>1, <2>1
<1>3. ASSUME Cardinality(D) >= 2 PROVE \E f, g \in D : f # g
  <2> SUFFICES ASSUME \A f, g \in D : f = g PROVE FALSE
    OBVIOUS
  <2>1. D # {}
    BY <1>3, FS_EmptySet
  <2>2. PICK f : f \in D
    BY <2>1
  <2>3. D = {f}
    BY <2>2
  <2>4. Cardinality(D) = 1
    BY <2>3, FS_Singleton
  <2>5. QED
    BY <1>3, <2>4
<1>4. ASSUME Cardinality(N) = 1 PROVE \A k, l \in N : k = l
  <2>1. ~(Cardinality(N) > 1)
    BY <1>4
  <2>2. QED
    BY <2>1, OneOrMore
<1>5. ASSUME N # {}, \A k, l \in N : k = l PROVE Cardinality(N) = 1
  <2>1. PICK k : k \in N
    BY <1>5
  <2>2. N = {k}
    BY <1>5, <2>1
  <2>3. QED
    BY <2>2, FS_Singleton
<1>6. QED
  BY <1>2, <1>3, <1>4, <1>5 DEF Agreed

LEMMA ConvergenceIsRight ==
    ASSUME NEW M, AsAnswered(M)
    PROVE  ConvergenceRight(M)
<1>1. PICK decls : decls = DeclarationsSeen(M)
  OBVIOUS
<1>2. PICK cells : cells = CellsSeen(M)
  OBVIOUS
<1>3. IsFiniteSet(M) /\ DOMAIN decls = M
  BY <1>1 DEF AsAnswered
<1>4. ASSUME NEW f \in M PROVE AreRows(decls[f], f) /\ IsFiniteSet(decls[f])
  <2>1. PICK c : c = ContentSeen(f)
    OBVIOUS
  <2>2. PICK a : a = Answers(f)
    OBVIOUS
  <2>3. decls[f] = DeclarationRowsOf(c, a) /\ Sound(f)
    BY <1>1, <2>1, <2>2 DEF AsAnswered
  <2>4. IsContent(c) /\ WellFormed(a)
    BY <2>1, <2>2, <2>3, AskedByPosition DEF Sound
  <2>5. IsFiniteSet(DeclarationRowsOf(c, a))
    BY <2>4, DeclarationsAreFinite DEF IsContent
  <2>6. AreRows(DeclarationRowsOf(c, a), f)
    BY <2>1, <2>2, <2>3, DeclaredAreRows
  <2>7. QED
    BY <2>3, <2>5, <2>6
<1> DEFINE asked == AskedOf(M)
<1>5. /\ \A x \in asked : x[1] \in M /\ x[2] \in Asked(x[1]) /\ x = <<x[1], x[2]>>
      /\ \A f \in M : \A q \in Asked(f) : <<f, q>> \in asked
  BY AskedOfIs
<1> HIDE DEF asked
<1> DEFINE view == Convergence(cells, decls)
           using(id) == {x \in asked : x[2].id = id /\ InUse(x[1], x[2])}
           all(id) == UNION {Declared(x[1], x[2]) : x \in using(id)}
           inUse(id) == {d \in all(id) : d.status = "current"}
<1>6. ASSUME NEW id \in DOMAIN view
      PROVE  view[id].agreed <=> /\ \E x, y \in using(id) : x[1] # y[1]
                                 /\ \A d, e \in inUse(id) : KeyOf(d) = KeyOf(e)
  <2>1. PICK at : at = CurrentAt(decls, id)
    OBVIOUS
  <2>2. PICK D : D = {x[1] : x \in at}
    OBVIOUS
  <2>3. PICK N : N = {x[2] : x \in at}
    OBVIOUS
  <2>4. view[id].agreed = Agreed(D, N)
    BY <1>6, <2>1, <2>2, <2>3 DEF Convergence
  <2>5. ConvergesAt(at, M, id)
    BY <1>3, <1>4, <2>1, CurrentAtIs
  <2> HIDE DEF view
  <2>6. D = {f \in M : DeclaresAt(f, id)} /\ IsFiniteSet(N)
        /\ \A key : key \in N <=> \E f \in M : KeyedAt(f, id, key)
    BY <2>2, <2>3, <2>5 DEF ConvergesAt
  <2>7. IsFiniteSet(D)
    BY <1>3, <2>6, FS_Subset
  <2>8. D # {} => N # {}
    BY <2>2, <2>3
  <2>9. (\E x, y \in using(id) : x[1] # y[1]) <=> \E f, g \in D : f # g
    <3>1. ASSUME NEW x \in using(id) PROVE x[1] \in D
      BY <1>5, <2>6 DEF DeclaresAt
    <3>2. ASSUME NEW f \in D PROVE \E x \in using(id) : x[1] = f
      <4>1. PICK q \in Asked(f) : q.id = id /\ InUse(f, q)
        BY <2>6 DEF DeclaresAt
      <4>2. PICK x \in asked : x = <<f, q>>
        BY <1>5, <2>6
      <4>3. x[1] = f /\ x[2] = q
        BY <4>2
      <4>4. QED
        BY <4>1, <4>2, <4>3
    <3> HIDE DEF using
    <3>3. QED
      BY <3>1, <3>2
  <2>10. ASSUME NEW d \in inUse(id) PROVE KeyOf(d) \in N
    <3>1. d \in all(id) /\ d.status = "current"
      OBVIOUS
    <3>2. PICK x \in using(id) : d \in Declared(x[1], x[2])
      BY <3>1
    <3>3. x[1] \in M /\ x[2] \in Asked(x[1]) /\ x[2].id = id
      BY <1>5, <3>2
    <3>4. KeyedAt(x[1], id, KeyOf(d))
      BY <3>1, <3>2, <3>3 DEF KeyedAt, Uses
    <3>5. QED
      BY <2>6, <3>3, <3>4
  <2>11. ASSUME NEW key \in N PROVE \E d \in inUse(id) : KeyOf(d) = key
    <3>1. PICK f \in M : KeyedAt(f, id, key)
      BY <2>6
    <3>2. PICK q \in Asked(f) : q.id = id /\ Uses(f, q, key, "current")
      BY <3>1 DEF KeyedAt
    <3>3. PICK d \in Declared(f, q) : KeyOf(d) = key /\ d.status = "current"
      BY <3>2 DEF Uses
    <3>4. PICK x \in asked : x = <<f, q>>
      BY <1>5
    <3>5. x[1] = f /\ x[2] = q
      BY <3>4
    <3>6. x \in using(id) /\ d \in Declared(x[1], x[2])
      BY <3>2, <3>3, <3>4, <3>5 DEF InUse
    <3> HIDE DEF using
    <3>7. d \in all(id)
      BY <3>6
    <3>8. QED
      BY <3>3, <3>7
  <2>12. (\A d, e \in inUse(id) : KeyOf(d) = KeyOf(e)) <=> \A k, l \in N : k = l
    <3> HIDE DEF inUse
    <3>1. QED
      BY <2>10, <2>11
  <2> HIDE DEF using, inUse
  <2>13. Agreed(D, N) <=> (\E f, g \in D : f # g) /\ \A k, l \in N : k = l
    BY <2>6, <2>7, <2>8, AgreedIs
  <2>14. QED
    BY <2>4, <2>9, <2>12, <2>13
<1>7. view = Convergence(CellsSeen(M), DeclarationsSeen(M))
  BY <1>1, <1>2
<1> HIDE DEF view
<1>8. ASSUME NEW id \in DOMAIN Convergence(CellsSeen(M), DeclarationsSeen(M))
      PROVE  Convergence(CellsSeen(M), DeclarationsSeen(M))[id].agreed <=>
                 /\ \E x, y \in using(id) : x[1] # y[1]
                 /\ \A d, e \in inUse(id) : KeyOf(d) = KeyOf(e)
  <2> HIDE DEF using, inUse
  <2>1. QED
    BY <1>6, <1>7
<1>9. QED
  BY <1>8, Zenon DEF ConvergenceRight, asked

-----------------------------------------------------------------------------
LEMMA ViewsCountTheAnswersHolds ==
    ASSUME RowsInv, ViewsInv, IsFiniteSet(DOMAIN fips)
    PROVE  ViewsCountTheAnswers
<1>1. ASSUME NEW M \in Resolved, NEW said, said = SaidIn(M),
             ~(M = {} \/ Tier(M) = "refused" \/ M \cap late # {}),
             ~(Tier(M) = "degraded" /\ M \cap NetworkIds # {})
      PROVE  /\ \A level \in Levels : CoverageRight(M, level, said)
             /\ \A level \in {"fer", "question"} \cup (IF Tier(M) = "live" THEN {"area"} ELSE {}) :
                   AdoptionRight(M, level, {"current", "none"} \cup PlannedStatuses)
             /\ GapsRight(M, said)
             /\ EvolutionRight(M)
             /\ ConvergenceRight(M)
  <2>1. AsAnswered(M)
    BY <1>1, SeenAsAnswered
  <2>2. \A level \in Levels : CoverageRight(M, level, said)
    BY <1>1, <2>1, CoverageIsRight
  <2>3. ASSUME NEW level \in {"fer", "question"} \cup (IF Tier(M) = "live" THEN {"area"} ELSE {})
        PROVE  AdoptionRight(M, level, {"current", "none"} \cup PlannedStatuses)
    <3>1. PICK statuses : statuses = {"current", "none"} \cup PlannedStatuses
      OBVIOUS
    <3>2. \/ level \in {"fer", "question"}
          \/ level = "area" /\ Tier(M) = "live"
      OBVIOUS
    <3>3. AdoptionRight(M, level, statuses)
      BY <2>1, <3>2, AdoptionIsRight
    <3>4. QED
      BY <3>1, <3>3
  <2>4. GapsRight(M, said)
    BY <1>1, <2>1, GapsAreRight
  <2>5. EvolutionRight(M) /\ ConvergenceRight(M)
    BY <2>1, EvolutionIsRight, ConvergenceIsRight
  <2>6. QED
    BY <2>2, <2>3, <2>4, <2>5
<1>2. ASSUME NEW M \in Resolved
      PROVE  \/ M = {} \/ Tier(M) = "refused" \/ M \cap late # {}
             \/ Tier(M) = "degraded" /\ M \cap NetworkIds # {}
             \/ /\ \A level \in Levels : CoverageRight(M, level, SaidIn(M))
                /\ \A level \in {"fer", "question"} \cup (IF Tier(M) = "live" THEN {"area"} ELSE {}) :
                      AdoptionRight(M, level, {"current", "none"} \cup PlannedStatuses)
                /\ GapsRight(M, SaidIn(M))
                /\ EvolutionRight(M)
                /\ ConvergenceRight(M)
  BY <1>1, Zenon
<1>3. QED
  BY <1>2, Zenon DEF ViewsCountTheAnswers

(* Coverage, adoption, gaps, evolution and convergence count what the      *)
(* answers of the FIPs say, live or degraded, for every set of FIPs,       *)
(* content and population, wherever no overlapping request left a row      *)
(* wrong and the fallback does not meet a FIP of the network.              *)
THEOREM DSpec_ViewsCountTheAnswers == DSpec => []ViewsCountTheAnswers
<1>1. DSpec => []RowsInv
  BY RowsInit, RowsNext, PTL DEF DSpec
<1>2. DSpec => []DfInv
  BY DfInit, DfNext, PTL DEF DSpec
<1>3. DSpec => []ViewsInv
  BY <1>1, ViewsInit, ViewsNext, PTL DEF DSpec
<1>4. RowsInv /\ DfInv /\ ViewsInv => ViewsCountTheAnswers
  BY ViewsCountTheAnswersHolds DEF DfInv
<1>5. QED
  BY <1>1, <1>2, <1>3, <1>4, PTL

=============================================================================
