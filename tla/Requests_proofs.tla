-------------------------- MODULE Requests_proofs --------------------------
(***************************************************************************)
(* Proofs about two things that several processes do for one user at the   *)
(* same time: the caps that model calls reserve under (SpendCaps), and the *)
(* runs that requests create (RunRequests).  The components share nothing  *)
(* but this module.                                                        *)
(***************************************************************************)
EXTENDS RunRequests, SpendCaps, FiniteSetTheorems, WellFoundedInduction, TLAPS

-----------------------------------------------------------------------------
(* Sums over the subsets of a finite set *)

\* Induction over the subsets of a finite set: what holds of each of them if it holds of the
\* sets with one element less holds of all.
LEMMA SubsetsInduct ==
    ASSUME NEW T, IsFiniteSet(T), NEW G, \A S \in SUBSET T : (\A x \in S : S \ {x} \in G) => S \in G
    PROVE  SUBSET T \subseteq G
<1> SUFFICES ASSUME NEW Z \in SUBSET T, Z \notin G PROVE FALSE OBVIOUS
<1> DEFINE Bad == {S \in SUBSET T : S \notin G}
<1>1. IsWellFoundedOn(StrictSubsetOrdering(T), FiniteSubsetsOf(T)) BY FS_StrictSubsetOrderingWellFounded
<1>2. FiniteSubsetsOf(T) = SUBSET T BY FS_FiniteSubsetsOfFinite
<1>3. Bad \subseteq FiniteSubsetsOf(T) /\ Bad # {} BY <1>2
<1> HIDE DEF Bad
<1>4. PICK S \in Bad : \A y \in Bad : ~(<<y, S>> \in StrictSubsetOrdering(T)) BY <1>1, <1>3, WFMin
<1> USE DEF Bad
<1>5. S \in SUBSET T /\ S \notin G OBVIOUS
<1>6. PICK x \in S : S \ {x} \notin G BY <1>5
<1>7. S \ {x} \in Bad BY <1>5, <1>6
<1>8. <<S \ {x}, S>> \in StrictSubsetOrdering(T) BY <1>5, <1>6 DEF StrictSubsetOrdering
<1> QED BY <1>4, <1>7, <1>8

\* The function that SumFunctionOnSet folds with.
Picked(S) == CHOOSE x \in S : TRUE
SumsBy(T, f, g) == g = [S \in SUBSET T |-> IF S = {} THEN 0 ELSE f[Picked(S)] + g[S \ {Picked(S)}]]

LEMMA SumIs ==
    ASSUME NEW f, NEW T
    PROVE  SumFunctionOnSet(f, T) = (CHOOSE g : SumsBy(T, f, g))[T]
BY DEF SumFunctionOnSet, FoldFunctionOnSet, MapThenFoldSet, SumsBy, Picked

LEMMA SumsAgree ==
    ASSUME NEW f, NEW A, IsFiniteSet(A), NEW B, NEW g, SumsBy(A, f, g), NEW h, SumsBy(B, f, h)
    PROVE  \A S \in SUBSET A : S \subseteq B => g[S] = h[S]
<1> DEFINE G == {S \in SUBSET A : S \subseteq B => g[S] = h[S]}
<1>1. ASSUME NEW S \in SUBSET A, \A x \in S : S \ {x} \in G, S \subseteq B PROVE g[S] = h[S]
  <2>1. g[S] = IF S = {} THEN 0 ELSE f[Picked(S)] + g[S \ {Picked(S)}] BY DEF SumsBy
  <2>2. h[S] = IF S = {} THEN 0 ELSE f[Picked(S)] + h[S \ {Picked(S)}] BY <1>1 DEF SumsBy
  <2>3. CASE S = {} BY <2>1, <2>2, <2>3
  <2>4. CASE S # {}
    <3>1. Picked(S) \in S BY <2>4 DEF Picked
    <3>2. g[S \ {Picked(S)}] = h[S \ {Picked(S)}] BY <1>1, <3>1
    <3> QED BY <2>1, <2>2, <2>4, <3>2
  <2> QED BY <2>3, <2>4
<1>2. \A S \in SUBSET A : (\A x \in S : S \ {x} \in G) => S \in G BY <1>1
<1>3. SUBSET A \subseteq G
  <2> HIDE DEF G
  <2> QED BY <1>2, SubsetsInduct
<1> QED BY <1>3

LEMMA SumsExist ==
    ASSUME NEW f, NEW T, IsFiniteSet(T)
    PROVE  \E g : SumsBy(T, f, g)
<1> DEFINE G == {S \in SUBSET T : \E g : SumsBy(S, f, g)}
           By(S) == CHOOSE g : SumsBy(S, f, g)
           Value(s) == IF s = {} THEN 0 ELSE f[Picked(s)] + By(s \ {Picked(s)})[s \ {Picked(s)}]
<1>1. ASSUME NEW S \in SUBSET T, \A x \in S : S \ {x} \in G PROVE \E g : SumsBy(S, f, g)
  <2> DEFINE g == [s \in SUBSET S |-> Value(s)]
  <2>1. ASSUME NEW s \in SUBSET S, s # S PROVE SumsBy(s, f, By(s)) /\ By(s)[s] = Value(s)
    <3>1. PICK y \in S : y \notin s BY <2>1
    <3>2. PICK h : SumsBy(S \ {y}, f, h) BY <1>1
    <3>3. s \in SUBSET (S \ {y}) BY <3>1
    <3>4. \A r \in SUBSET s : SumsBy(r, f, [t \in SUBSET r |-> h[t]])
      <4> SUFFICES ASSUME NEW r \in SUBSET s PROVE SumsBy(r, f, [t \in SUBSET r |-> h[t]]) OBVIOUS
      <4>1. \A t \in SUBSET r : h[t] = IF t = {} THEN 0 ELSE f[Picked(t)] + h[t \ {Picked(t)}] BY <3>2, <3>3 DEF SumsBy
      <4>2. \A t \in SUBSET r : t \ {Picked(t)} \in SUBSET r OBVIOUS
      <4> QED BY <4>1, <4>2 DEF SumsBy
    <3>5. \A r \in SUBSET s : SumsBy(r, f, By(r)) BY <3>4
    <3>6. ASSUME NEW r \in SUBSET s PROVE By(r)[r] = h[r]
      <4>1. SumsBy(r, f, By(r)) BY <3>5
      <4>2. IsFiniteSet(r) BY FS_Subset
      <4>3. r \subseteq S \ {y} BY <3>3
      <4> HIDE DEF By
      <4> QED BY <3>2, <4>1, <4>2, <4>3, SumsAgree
    <3>7. h[s] = IF s = {} THEN 0 ELSE f[Picked(s)] + h[s \ {Picked(s)}] BY <3>2, <3>3 DEF SumsBy
    <3>8. By(s)[s] = h[s] /\ By(s \ {Picked(s)})[s \ {Picked(s)}] = h[s \ {Picked(s)}]
      <4> HIDE DEF By
      <4> QED BY <3>6
    <3>9. SumsBy(s, f, By(s)) BY <3>5
    <3> HIDE DEF By
    <3> QED BY <3>7, <3>8, <3>9
  <2>2. ASSUME NEW s \in SUBSET S, s # {} PROVE g[s \ {Picked(s)}] = By(s \ {Picked(s)})[s \ {Picked(s)}]
    <3>1. Picked(s) \in s BY <2>2 DEF Picked
    <3>2. s \ {Picked(s)} \in SUBSET S /\ s \ {Picked(s)} # S BY <3>1
    <3>3. g[s \ {Picked(s)}] = Value(s \ {Picked(s)}) BY <3>2
    <3>4. By(s \ {Picked(s)})[s \ {Picked(s)}] = Value(s \ {Picked(s)}) BY <2>1, <3>2
    <3> QED BY <3>3, <3>4
  <2>3. \A s \in SUBSET S : Value(s) = IF s = {} THEN 0 ELSE f[Picked(s)] + g[s \ {Picked(s)}]
    <3> SUFFICES ASSUME NEW s \in SUBSET S
                 PROVE  Value(s) = IF s = {} THEN 0 ELSE f[Picked(s)] + g[s \ {Picked(s)}] OBVIOUS
    <3>1. CASE s = {} BY <3>1
    <3>2. CASE s # {}
      <4>1. g[s \ {Picked(s)}] = By(s \ {Picked(s)})[s \ {Picked(s)}] BY <2>2, <3>2
      <4> HIDE DEF g, By
      <4> QED BY <3>2, <4>1
    <3> QED BY <3>1, <3>2
  <2>4. g = [s \in SUBSET S |-> IF s = {} THEN 0 ELSE f[Picked(s)] + g[s \ {Picked(s)}]]
    <3>1. g = [s \in SUBSET S |-> Value(s)] OBVIOUS
    <3> HIDE DEF g, Value
    <3> QED BY <2>3, <3>1
  <2> QED BY <2>4 DEF SumsBy
<1>2. \A S \in SUBSET T : (\A x \in S : S \ {x} \in G) => S \in G BY <1>1
<1>3. SUBSET T \subseteq G
  <2> HIDE DEF G
  <2> QED BY <1>2, SubsetsInduct
<1> QED BY <1>3

\* A sum is over one element, and the rest.
LEMMA SumPicks ==
    ASSUME NEW f, NEW S, IsFiniteSet(S)
    PROVE  SumFunctionOnSet(f, S) = IF S = {} THEN 0 ELSE f[Picked(S)] + SumFunctionOnSet(f, S \ {Picked(S)})
<1> DEFINE g == CHOOSE x : SumsBy(S, f, x)
           R == S \ {Picked(S)}
           h == CHOOSE x : SumsBy(R, f, x)
<1>1. SumsBy(S, f, g) BY SumsExist
<1>2. IsFiniteSet(R) BY FS_Subset
<1>3. SumsBy(R, f, h) BY <1>2, SumsExist
<1>4. SumFunctionOnSet(f, S) = g[S] /\ SumFunctionOnSet(f, R) = h[R] BY SumIs
<1> HIDE DEF g, h
<1>5. g[S] = IF S = {} THEN 0 ELSE f[Picked(S)] + g[R] BY <1>1 DEF SumsBy
<1>6. h[R] = g[R]
  <2>1. R \in SUBSET R /\ R \subseteq S OBVIOUS
  <2> HIDE DEF R
  <2> QED BY <1>1, <1>2, <1>3, <2>1, SumsAgree
<1> QED BY <1>4, <1>5, <1>6

LEMMA SumInt ==
    ASSUME NEW T, IsFiniteSet(T), NEW f \in [T -> Int]
    PROVE  \A S \in SUBSET T : SumFunctionOnSet(f, S) \in Int /\ (S = {} => SumFunctionOnSet(f, S) = 0)
<1> DEFINE sum(S) == SumFunctionOnSet(f, S)
           G == {S \in SUBSET T : sum(S) \in Int}
<1>1. ASSUME NEW S \in SUBSET T PROVE sum(S) = IF S = {} THEN 0 ELSE f[Picked(S)] + sum(S \ {Picked(S)})
  <2>1. IsFiniteSet(S) BY FS_Subset
  <2> QED BY <2>1, SumPicks
<1> HIDE DEF sum
<1>2. ASSUME NEW S \in SUBSET T, \A x \in S : S \ {x} \in G PROVE sum(S) \in Int
  <2>1. CASE S = {}
    <3>1. sum(S) = 0 BY <1>1, <2>1
    <3> QED BY <3>1
  <2>2. CASE S # {}
    <3>1. Picked(S) \in S BY <2>2 DEF Picked
    <3>2. f[Picked(S)] \in Int /\ sum(S \ {Picked(S)}) \in Int BY <1>2, <3>1
    <3>3. sum(S) = f[Picked(S)] + sum(S \ {Picked(S)}) BY <1>1, <2>2
    <3> QED BY <3>2, <3>3
  <2> QED BY <2>1, <2>2
<1>3. \A S \in SUBSET T : (\A x \in S : S \ {x} \in G) => S \in G BY <1>2
<1>4. SUBSET T \subseteq G
  <2> HIDE DEF G
  <2> QED BY <1>3, SubsetsInduct
<1>5. \A S \in SUBSET T : sum(S) \in Int /\ (S = {} => sum(S) = 0) BY <1>1, <1>4
<1> QED BY <1>5 DEF sum

\* Any element can be taken out of a sum.
LEMMA SumRemoves ==
    ASSUME NEW T, IsFiniteSet(T), NEW f \in [T -> Int]
    PROVE  \A S \in SUBSET T : \A x \in S : SumFunctionOnSet(f, S) = f[x] + SumFunctionOnSet(f, S \ {x})
<1> DEFINE sum(S) == SumFunctionOnSet(f, S)
           G == {S \in SUBSET T : \A x \in S : sum(S) = f[x] + sum(S \ {x})}
<1>1. ASSUME NEW S \in SUBSET T PROVE sum(S) = IF S = {} THEN 0 ELSE f[Picked(S)] + sum(S \ {Picked(S)})
  <2>1. IsFiniteSet(S) BY FS_Subset
  <2> QED BY <2>1, SumPicks
<1>2. \A S \in SUBSET T : sum(S) \in Int BY SumInt
<1> HIDE DEF sum
<1>3. ASSUME NEW S \in SUBSET T, \A x \in S : S \ {x} \in G, NEW x \in S PROVE sum(S) = f[x] + sum(S \ {x})
  <2> DEFINE p == Picked(S)
             R == (S \ {x}) \ {p}
  <2>1. p \in S BY DEF Picked
  <2>2. sum(S) = f[p] + sum(S \ {p}) BY <1>1
  <2> HIDE DEF p
  <2>3. CASE x = p BY <2>2, <2>3
  <2>4. CASE x # p
    <3>1. x \in S \ {p} /\ p \in S \ {x} /\ S \ {p} \in G /\ S \ {x} \in G BY <1>3, <2>1, <2>4
    <3>2. (S \ {p}) \ {x} = R OBVIOUS
    <3>3. sum(S \ {p}) = f[x] + sum(R) BY <3>1, <3>2
    <3>4. sum(S \ {x}) = f[p] + sum(R) BY <3>1
    <3>5. f[x] \in Int /\ f[p] \in Int /\ R \in SUBSET T BY <2>1
    <3>6. sum(R) \in Int BY <1>2, <3>5
    <3> HIDE DEF R
    <3> QED BY <2>2, <3>3, <3>4, <3>5, <3>6
  <2> QED BY <2>3, <2>4
<1>4. \A S \in SUBSET T : (\A x \in S : S \ {x} \in G) => S \in G BY <1>3
<1>5. SUBSET T \subseteq G
  <2> HIDE DEF G
  <2> QED BY <1>4, SubsetsInduct
<1>6. \A S \in SUBSET T : \A x \in S : sum(S) = f[x] + sum(S \ {x}) BY <1>5
<1> QED BY <1>6 DEF sum

\* Sums are compared term by term.
LEMMA SumBelow ==
    ASSUME NEW T, IsFiniteSet(T), NEW f \in [T -> Int], NEW g \in [T -> Int], NEW h \in [T -> Int],
           NEW S \in SUBSET T, \A x \in S : f[x] <= g[x] + h[x]
    PROVE  SumFunctionOnSet(f, S) <= SumFunctionOnSet(g, S) + SumFunctionOnSet(h, S)
<1> DEFINE G == {R \in SUBSET S : SumFunctionOnSet(f, R) <= SumFunctionOnSet(g, R) + SumFunctionOnSet(h, R)}
<1>1. ASSUME NEW R \in SUBSET S, \A x \in R : R \ {x} \in G
      PROVE  SumFunctionOnSet(f, R) <= SumFunctionOnSet(g, R) + SumFunctionOnSet(h, R)
  <2>1. R \in SUBSET T OBVIOUS
  <2>2. CASE R = {}
    <3>1. SumFunctionOnSet(f, R) = 0 /\ SumFunctionOnSet(g, R) = 0 /\ SumFunctionOnSet(h, R) = 0
      BY <2>1, <2>2, SumInt
    <3> QED BY <3>1
  <2>3. ASSUME NEW x \in R PROVE SumFunctionOnSet(f, R) <= SumFunctionOnSet(g, R) + SumFunctionOnSet(h, R)
    <3> DEFINE Q == R \ {x}
    <3>1. Q \in SUBSET T OBVIOUS
    <3>2. SumFunctionOnSet(f, R) = f[x] + SumFunctionOnSet(f, Q) /\ SumFunctionOnSet(f, Q) \in Int
      BY <2>1, <3>1, SumInt, SumRemoves
    <3>3. SumFunctionOnSet(g, R) = g[x] + SumFunctionOnSet(g, Q) /\ SumFunctionOnSet(g, Q) \in Int
      BY <2>1, <3>1, SumInt, SumRemoves
    <3>4. SumFunctionOnSet(h, R) = h[x] + SumFunctionOnSet(h, Q) /\ SumFunctionOnSet(h, Q) \in Int
      BY <2>1, <3>1, SumInt, SumRemoves
    <3>5. SumFunctionOnSet(f, Q) <= SumFunctionOnSet(g, Q) + SumFunctionOnSet(h, Q) BY <1>1, <2>3
    <3>6. f[x] \in Int /\ g[x] \in Int /\ h[x] \in Int /\ f[x] <= g[x] + h[x] OBVIOUS
    <3> HIDE DEF Q
    <3> QED BY <3>2, <3>3, <3>4, <3>5, <3>6
  <2> QED BY <2>2, <2>3
<1>2. \A R \in SUBSET S : (\A x \in R : R \ {x} \in G) => R \in G BY <1>1
<1>3. IsFiniteSet(S) BY FS_Subset
<1>4. SUBSET S \subseteq G
  <2> HIDE DEF G
  <2> QED BY <1>2, <1>3, SubsetsInduct
<1> QED BY <1>4

LEMMA SumSame ==
    ASSUME NEW T, IsFiniteSet(T), NEW f \in [T -> Int], NEW g \in [T -> Int],
           NEW S \in SUBSET T, \A x \in S : f[x] = g[x]
    PROVE  SumFunctionOnSet(f, S) = SumFunctionOnSet(g, S)
<1> DEFINE z == [x \in T |-> 0]
<1>1. z \in [T -> Int] /\ \A x \in T : z[x] = 0 OBVIOUS
<1> HIDE DEF z
<1>2. \A x \in S : f[x] \in Int /\ f[x] <= g[x] + z[x] /\ g[x] <= f[x] + z[x] /\ z[x] <= z[x] + z[x] BY <1>1
<1>3. SumFunctionOnSet(f, S) <= SumFunctionOnSet(g, S) + SumFunctionOnSet(z, S) BY <1>1, <1>2, SumBelow
<1>4. SumFunctionOnSet(g, S) <= SumFunctionOnSet(f, S) + SumFunctionOnSet(z, S) BY <1>1, <1>2, SumBelow
<1>5. SumFunctionOnSet(f, S) \in Int /\ SumFunctionOnSet(g, S) \in Int BY SumInt
<1>6. SumFunctionOnSet(z, S) = 0
  <2> DEFINE G == {R \in SUBSET S : SumFunctionOnSet(z, R) = 0}
  <2>1. ASSUME NEW R \in SUBSET S, \A x \in R : R \ {x} \in G PROVE SumFunctionOnSet(z, R) = 0
    <3>1. R \in SUBSET T OBVIOUS
    <3>2. CASE R = {} BY <1>1, <3>1, <3>2, SumInt
    <3>3. ASSUME NEW x \in R PROVE SumFunctionOnSet(z, R) = 0
      <4>1. SumFunctionOnSet(z, R) = z[x] + SumFunctionOnSet(z, R \ {x}) BY <1>1, <3>1, SumRemoves
      <4> QED BY <1>1, <2>1, <3>3, <4>1
    <3> QED BY <3>2, <3>3
  <2>2. \A R \in SUBSET S : (\A x \in R : R \ {x} \in G) => R \in G BY <2>1
  <2>3. IsFiniteSet(S) BY FS_Subset
  <2>4. SUBSET S \subseteq G
    <3> HIDE DEF G
    <3> QED BY <2>2, <2>3, SubsetsInduct
  <2> QED BY <2>4
<1> QED BY <1>3, <1>4, <1>5, <1>6

\* What becomes of a sum when one element enters, leaves, or has another value.
Term(x, S, f) == IF x \in S THEN f[x] ELSE 0

AlikeBut(x, S, R, f, g) == S \ {x} = R \ {x} /\ \A y \in S \ {x} : f[y] = g[y]

LEMMA SumMoves ==
    ASSUME NEW T, IsFiniteSet(T), NEW f \in [T -> Int], NEW g \in [T -> Int], NEW S \in SUBSET T, NEW R \in SUBSET T,
           NEW x \in T, AlikeBut(x, S, R, f, g)
    PROVE  SumFunctionOnSet(g, R) = SumFunctionOnSet(f, S) + Term(x, R, g) - Term(x, S, f)
<1> DEFINE Q == S \ {x}
<1>1. Q \in SUBSET T /\ Q = R \ {x} /\ \A y \in Q : f[y] = g[y] BY DEF AlikeBut
<1>2. SumFunctionOnSet(f, Q) = SumFunctionOnSet(g, Q) BY <1>1, SumSame
<1>7. SumFunctionOnSet(g, Q) \in Int BY <1>1, SumInt
<1>3. SumFunctionOnSet(f, Q) \in Int /\ f[x] \in Int /\ g[x] \in Int BY <1>1, SumInt
<1>4. SumFunctionOnSet(f, S) = SumFunctionOnSet(f, Q) + Term(x, S, f)
  <2>1. CASE x \in S BY <1>3, <2>1, SumRemoves DEF Term
  <2>2. CASE x \notin S
    <3>1. Q = S BY <2>2
    <3> HIDE DEF Q
    <3> QED BY <1>3, <2>2, <3>1 DEF Term
  <2> QED BY <2>1, <2>2
<1>5. SumFunctionOnSet(g, R) = SumFunctionOnSet(g, Q) + Term(x, R, g)
  <2>1. CASE x \in R
    <3>1. SumFunctionOnSet(g, R) = g[x] + SumFunctionOnSet(g, Q) BY <1>1, <2>1, SumRemoves
    <3> HIDE DEF Q
    <3> QED BY <1>3, <1>7, <2>1, <3>1 DEF Term
  <2>2. CASE x \notin R
    <3>1. Q = R BY <1>1, <2>2
    <3> HIDE DEF Q
    <3> QED BY <1>7, <2>2, <3>1 DEF Term
  <2> QED BY <2>1, <2>2
<1>6. Term(x, S, f) \in Int /\ Term(x, R, g) \in Int BY <1>3 DEF Term
<1> HIDE DEF Q
<1> QED BY <1>2, <1>3, <1>4, <1>5, <1>6

-----------------------------------------------------------------------------
(* What one call adds to each of the sums *)

CapsOf(a, c) == {Day(a.day)} \cup (IF c \in Platform THEN {} ELSE {Month})
IsUnder(a, c, k) == a.pc \in Reserved /\ k \in CapsOf(a, c)
ChargeOf(a, c, k) == IF IsUnder(a, c, k) THEN IF k \in a.open \/ a.unpriced THEN Estimate ELSE a.cost ELSE 0
SpendingOf(a, c, k) == IF IsUnder(a, c, k) THEN IF a.pc = "sent" \/ a.unpriced THEN Estimate ELSE a.cost ELSE 0
ExcessOf(a, c, k) == IF IsUnder(a, c, k) /\ a.cost > Estimate THEN a.cost - Estimate ELSE 0
Holds(a, c, k) == (a.pc \in {"sent", "settle"} /\ k \in a.open) \/ (IsUnder(a, c, k) /\ a.unpriced)
HeldOf(a, c, k) == IF Holds(a, c, k) THEN Estimate - a.cost ELSE 0
Counted(r, c, k) == r # 0 /\ IF k = Month THEN c \notin Platform ELSE r >= k[2]
PaidOf(a, r, c, k) == IF Counted(r, c, k) THEN a.cost ELSE 0

\* The summed functions and sets, of any calls b and rows w.
UnderIn(b, k) == {c \in Calls : IsUnder(b[c], c, k)}
ChargesIn(b, k) == [c \in Calls |-> IF k \in b[c].open \/ b[c].unpriced THEN Estimate ELSE b[c].cost]
SpendingIn(b) == [c \in Calls |-> IF b[c].pc = "sent" \/ b[c].unpriced THEN Estimate ELSE b[c].cost]
ExcessIn(b) == [c \in Calls |-> IF b[c].cost > Estimate THEN b[c].cost - Estimate ELSE 0]
HoldingIn(b, k) == {c \in Calls : Holds(b[c], c, k)}
ReturningIn(b) == [c \in Calls |-> Estimate - b[c].cost]
RowsIn(w, k) == {c \in Calls : Counted(w[c], c, k)}
PayingIn(b) == [c \in Calls |-> b[c].cost]

SumCharges(b, k) == SumFunctionOnSet(ChargesIn(b, k), UnderIn(b, k))
SumSpending(b, k) == SumFunctionOnSet(SpendingIn(b), UnderIn(b, k))
SumExcess(b, k) == SumFunctionOnSet(ExcessIn(b), UnderIn(b, k))
SumHeld(b, k) == SumFunctionOnSet(ReturningIn(b), HoldingIn(b, k))
SumPaid(b, w, k) == SumFunctionOnSet(PayingIn(b), RowsIn(w, k))

LEMMA SumsAre ==
    ASSUME NEW k
    PROVE  /\ SumFunctionOnSet(Charges(k), Under(k)) = SumCharges(call, k)
           /\ SumFunctionOnSet(Spending, Under(k)) = SumSpending(call, k)
           /\ SumFunctionOnSet(Excess, Under(k)) = SumExcess(call, k)
           /\ SumFunctionOnSet(AboveRow, Holders(k)) = SumHeld(call, k)
           /\ Spent(RowsOf(k)) = SumPaid(call, row, k)
           /\ SumFunctionOnSet(Charges(k), Under(k))' = SumCharges(call', k)
           /\ SumFunctionOnSet(Spending, Under(k))' = SumSpending(call', k)
           /\ SumFunctionOnSet(Excess, Under(k))' = SumExcess(call', k)
           /\ SumFunctionOnSet(AboveRow, Holders(k))' = SumHeld(call', k)
           /\ Spent(RowsOf(k))' = SumPaid(call', row', k)
           /\ Under(k) = UnderIn(call, k) /\ Under(k)' = UnderIn(call', k) /\ Holders(k) = HoldingIn(call, k)
<1>1. Under(k) = UnderIn(call, k) /\ Under(k)' = UnderIn(call', k) BY DEF Under, UnderIn, IsUnder, Caps, CapsOf
<1>2. Charges(k) = ChargesIn(call, k) /\ Charges(k)' = ChargesIn(call', k) BY DEF Charges, ChargesIn
<1>3. Spending = SpendingIn(call) /\ Spending' = SpendingIn(call') BY DEF Spending, SpendingIn, CallAt
<1>4. Excess = ExcessIn(call) /\ Excess' = ExcessIn(call') BY DEF Excess, ExcessIn
<1>5. Holders(k) = HoldingIn(call, k) /\ Holders(k)' = HoldingIn(call', k)
  BY DEF Holders, HoldingIn, Holds, Unpriced, Under, IsUnder, Caps, CapsOf
<1>6. RowsOf(k) = RowsIn(row, k) /\ RowsOf(k)' = RowsIn(row', k) BY DEF RowsOf, RowsIn, Counted
<1>7. Spent(RowsOf(k)) = SumPaid(call, row, k) /\ Spent(RowsOf(k))' = SumPaid(call', row', k)
  BY <1>6 DEF Spent, SumPaid, PayingIn
<1>8. /\ SumFunctionOnSet(AboveRow, Holders(k)) = SumHeld(call, k)
      /\ SumFunctionOnSet(AboveRow, Holders(k))' = SumHeld(call', k)
  BY <1>5 DEF SumHeld, ReturningIn, AboveRow
<1>9. SumFunctionOnSet(Charges(k), Under(k)) = SumCharges(call, k) BY <1>1, <1>2 DEF SumCharges
<1>10. SumFunctionOnSet(Charges(k), Under(k))' = SumCharges(call', k) BY <1>1, <1>2 DEF SumCharges
<1>11. SumFunctionOnSet(Spending, Under(k)) = SumSpending(call, k) BY <1>1, <1>3 DEF SumSpending
<1>12. SumFunctionOnSet(Spending, Under(k))' = SumSpending(call', k) BY <1>1, <1>3 DEF SumSpending
<1>13. SumFunctionOnSet(Excess, Under(k)) = SumExcess(call, k) BY <1>1, <1>4 DEF SumExcess
<1>14. SumFunctionOnSet(Excess, Under(k))' = SumExcess(call', k) BY <1>1, <1>4 DEF SumExcess
<1> QED BY <1>1, <1>5, <1>7, <1>8, <1>9, <1>10, <1>11, <1>12, <1>13, <1>14

LEMMA CountersAre ==
    /\ Month \in Counters /\ \A d \in 1..MaxDay : Day(d) \in Counters /\ Day(d) # Month /\ Day(d)[2] = d
    /\ \A c \in Calls, a \in Call : CapsOf(a, c) \subseteq Counters
BY DEF Month, Day, Counters, CapsOf, Call

LEMMA TermsInt ==
    ASSUME NEW a \in Call, NEW c, NEW k, NEW r
    PROVE  /\ a.cost \in Nat /\ Estimate \in Nat /\ a.unpriced \in BOOLEAN /\ ChargeOf(a, c, k) \in Nat /\ SpendingOf(a, c, k) \in Nat
           /\ ExcessOf(a, c, k) \in Nat /\ HeldOf(a, c, k) \in Int /\ PaidOf(a, r, c, k) \in Nat
<1>1. a.cost \in Nat /\ Estimate \in Nat
  <2>1. a.cost \in Costs \cup {0} BY DEF Call
  <2>2. Costs \cup {0} \subseteq Nat /\ Estimate \in Nat BY SpendAssumption DEF SpendAssumption
  <2> QED BY <2>1, <2>2
<1>2. a.unpriced \in BOOLEAN BY DEF Call
<1> QED BY <1>1, <1>2 DEF ChargeOf, SpendingOf, ExcessOf, HeldOf, PaidOf

LEMMA TermsAre ==
    ASSUME NEW b, NEW c \in Calls, NEW k, NEW w
    PROVE  /\ Term(c, UnderIn(b, k), ChargesIn(b, k)) = ChargeOf(b[c], c, k)
           /\ Term(c, UnderIn(b, k), SpendingIn(b)) = SpendingOf(b[c], c, k)
           /\ Term(c, UnderIn(b, k), ExcessIn(b)) = ExcessOf(b[c], c, k)
           /\ Term(c, HoldingIn(b, k), ReturningIn(b)) = HeldOf(b[c], c, k)
           /\ Term(c, RowsIn(w, k), PayingIn(b)) = PaidOf(b[c], w[c], c, k)
<1>1. c \in UnderIn(b, k) <=> IsUnder(b[c], c, k) BY DEF UnderIn
<1>2. Term(c, UnderIn(b, k), ChargesIn(b, k)) = ChargeOf(b[c], c, k) BY <1>1 DEF Term, ChargesIn, ChargeOf
<1>3. Term(c, UnderIn(b, k), SpendingIn(b)) = SpendingOf(b[c], c, k) BY <1>1 DEF Term, SpendingIn, SpendingOf
<1>4. Term(c, UnderIn(b, k), ExcessIn(b)) = ExcessOf(b[c], c, k) BY <1>1 DEF Term, ExcessIn, ExcessOf
<1>5. Term(c, HoldingIn(b, k), ReturningIn(b)) = HeldOf(b[c], c, k) BY DEF Term, HoldingIn, ReturningIn, HeldOf
<1>6. Term(c, RowsIn(w, k), PayingIn(b)) = PaidOf(b[c], w[c], c, k) BY DEF Term, RowsIn, PayingIn, PaidOf
<1> QED BY <1>2, <1>3, <1>4, <1>5, <1>6

LEMMA SummedTypes ==
    ASSUME NEW b \in [Calls -> Call], NEW k, NEW w
    PROVE  /\ ChargesIn(b, k) \in [Calls -> Int] /\ SpendingIn(b) \in [Calls -> Int] /\ ExcessIn(b) \in [Calls -> Int]
           /\ PayingIn(b) \in [Calls -> Int] /\ ReturningIn(b) \in [Calls -> Int]
           /\ UnderIn(b, k) \in SUBSET Calls /\ HoldingIn(b, k) \in SUBSET Calls /\ RowsIn(w, k) \in SUBSET Calls
<1>1. \A c \in Calls : b[c].cost \in Nat /\ Estimate \in Nat BY TermsInt
<1>2. /\ ChargesIn(b, k) \in [Calls -> Int] /\ SpendingIn(b) \in [Calls -> Int] /\ ExcessIn(b) \in [Calls -> Int]
      /\ PayingIn(b) \in [Calls -> Int] /\ ReturningIn(b) \in [Calls -> Int]
  BY <1>1 DEF ChargesIn, SpendingIn, ExcessIn, PayingIn, ReturningIn
<1>3. UnderIn(b, k) \in SUBSET Calls /\ HoldingIn(b, k) \in SUBSET Calls /\ RowsIn(w, k) \in SUBSET Calls
  BY DEF UnderIn, HoldingIn, RowsIn
<1> QED BY <1>2, <1>3

LEMMA SumsInt ==
    ASSUME NEW b \in [Calls -> Call], NEW k, NEW w
    PROVE  /\ SumCharges(b, k) \in Int /\ SumSpending(b, k) \in Int /\ SumExcess(b, k) \in Int
           /\ SumHeld(b, k) \in Int /\ SumPaid(b, w, k) \in Int
           /\ UnderIn(b, k) = {} => SumCharges(b, k) = 0 /\ SumSpending(b, k) = 0 /\ SumExcess(b, k) = 0
           /\ HoldingIn(b, k) = {} => SumHeld(b, k) = 0
<1>1. IsFiniteSet(Calls) BY SpendAssumption DEF SpendAssumption
<1> QED BY <1>1, SummedTypes, SumInt DEF SumCharges, SumSpending, SumExcess, SumHeld, SumPaid

Elsewhere(c, b, d) == \A x \in Calls \ {c} : d[x] = b[x]

\* A move of one call changes each sum by what that call adds to it.
LEMMA CallSums ==
    ASSUME NEW b \in [Calls -> Call], NEW d \in [Calls -> Call], NEW c \in Calls, NEW k, Elsewhere(c, b, d)
    PROVE  /\ SumCharges(d, k) = SumCharges(b, k) + ChargeOf(d[c], c, k) - ChargeOf(b[c], c, k)
           /\ SumSpending(d, k) = SumSpending(b, k) + SpendingOf(d[c], c, k) - SpendingOf(b[c], c, k)
           /\ SumExcess(d, k) = SumExcess(b, k) + ExcessOf(d[c], c, k) - ExcessOf(b[c], c, k)
           /\ SumHeld(d, k) = SumHeld(b, k) + HeldOf(d[c], c, k) - HeldOf(b[c], c, k)
<1>1. IsFiniteSet(Calls) BY SpendAssumption DEF SpendAssumption
<1>2. \A x \in Calls \ {c} : d[x] = b[x] BY DEF Elsewhere
<1>3. UnderIn(b, k) \ {c} = UnderIn(d, k) \ {c} /\ HoldingIn(b, k) \ {c} = HoldingIn(d, k) \ {c}
  BY <1>2 DEF UnderIn, HoldingIn
<1>4. \A x \in Calls \ {c} : /\ ChargesIn(b, k)[x] = ChargesIn(d, k)[x] /\ SpendingIn(b)[x] = SpendingIn(d)[x]
                             /\ ExcessIn(b)[x] = ExcessIn(d)[x] /\ ReturningIn(b)[x] = ReturningIn(d)[x]
  BY <1>2 DEF ChargesIn, SpendingIn, ExcessIn, ReturningIn
<1>5. SumCharges(d, k) = SumCharges(b, k) + ChargeOf(d[c], c, k) - ChargeOf(b[c], c, k)
  <2> DEFINE f == ChargesIn(b, k)
             g == ChargesIn(d, k)
             S == UnderIn(b, k)
             R == UnderIn(d, k)
  <2>1. f \in [Calls -> Int] /\ g \in [Calls -> Int] /\ S \in SUBSET Calls /\ R \in SUBSET Calls
    BY <1>2, SummedTypes
  <2>2. Term(c, R, g) = ChargeOf(d[c], c, k) /\ Term(c, S, f) = ChargeOf(b[c], c, k) BY TermsAre
  <2>3. AlikeBut(c, S, R, f, g) BY <1>3, <1>4, <2>1 DEF AlikeBut
  <2>4. SumCharges(d, k) = SumFunctionOnSet(g, R) /\ SumCharges(b, k) = SumFunctionOnSet(f, S) BY DEF SumCharges
  <2> HIDE DEF f, g, S, R
  <2>5. SumFunctionOnSet(g, R) = SumFunctionOnSet(f, S) + Term(c, R, g) - Term(c, S, f)
    BY <1>1, <2>1, <2>3, SumMoves
  <2> QED BY <1>2, <2>2, <2>4, <2>5
<1>6. SumSpending(d, k) = SumSpending(b, k) + SpendingOf(d[c], c, k) - SpendingOf(b[c], c, k)
  <2> DEFINE f == SpendingIn(b)
             g == SpendingIn(d)
             S == UnderIn(b, k)
             R == UnderIn(d, k)
  <2>1. f \in [Calls -> Int] /\ g \in [Calls -> Int] /\ S \in SUBSET Calls /\ R \in SUBSET Calls
    BY <1>2, SummedTypes
  <2>2. Term(c, R, g) = SpendingOf(d[c], c, k) /\ Term(c, S, f) = SpendingOf(b[c], c, k) BY TermsAre
  <2>3. AlikeBut(c, S, R, f, g) BY <1>3, <1>4, <2>1 DEF AlikeBut
  <2>4. SumSpending(d, k) = SumFunctionOnSet(g, R) /\ SumSpending(b, k) = SumFunctionOnSet(f, S) BY DEF SumSpending
  <2> HIDE DEF f, g, S, R
  <2>5. SumFunctionOnSet(g, R) = SumFunctionOnSet(f, S) + Term(c, R, g) - Term(c, S, f)
    BY <1>1, <2>1, <2>3, SumMoves
  <2> QED BY <1>2, <2>2, <2>4, <2>5
<1>7. SumExcess(d, k) = SumExcess(b, k) + ExcessOf(d[c], c, k) - ExcessOf(b[c], c, k)
  <2> DEFINE f == ExcessIn(b)
             g == ExcessIn(d)
             S == UnderIn(b, k)
             R == UnderIn(d, k)
  <2>1. f \in [Calls -> Int] /\ g \in [Calls -> Int] /\ S \in SUBSET Calls /\ R \in SUBSET Calls
    BY <1>2, SummedTypes
  <2>2. Term(c, R, g) = ExcessOf(d[c], c, k) /\ Term(c, S, f) = ExcessOf(b[c], c, k) BY TermsAre
  <2>3. AlikeBut(c, S, R, f, g) BY <1>3, <1>4, <2>1 DEF AlikeBut
  <2>4. SumExcess(d, k) = SumFunctionOnSet(g, R) /\ SumExcess(b, k) = SumFunctionOnSet(f, S) BY DEF SumExcess
  <2> HIDE DEF f, g, S, R
  <2>5. SumFunctionOnSet(g, R) = SumFunctionOnSet(f, S) + Term(c, R, g) - Term(c, S, f)
    BY <1>1, <2>1, <2>3, SumMoves
  <2> QED BY <1>2, <2>2, <2>4, <2>5
<1>8. SumHeld(d, k) = SumHeld(b, k) + HeldOf(d[c], c, k) - HeldOf(b[c], c, k)
  <2> DEFINE f == ReturningIn(b)
             g == ReturningIn(d)
             S == HoldingIn(b, k)
             R == HoldingIn(d, k)
  <2>1. f \in [Calls -> Int] /\ g \in [Calls -> Int] /\ S \in SUBSET Calls /\ R \in SUBSET Calls
    BY <1>2, SummedTypes
  <2>2. Term(c, R, g) = HeldOf(d[c], c, k) /\ Term(c, S, f) = HeldOf(b[c], c, k) BY TermsAre
  <2>3. AlikeBut(c, S, R, f, g) BY <1>3, <1>4, <2>1 DEF AlikeBut
  <2>4. SumHeld(d, k) = SumFunctionOnSet(g, R) /\ SumHeld(b, k) = SumFunctionOnSet(f, S) BY DEF SumHeld
  <2> HIDE DEF f, g, S, R
  <2>5. SumFunctionOnSet(g, R) = SumFunctionOnSet(f, S) + Term(c, R, g) - Term(c, S, f)
    BY <1>1, <2>1, <2>3, SumMoves
  <2> QED BY <1>2, <2>2, <2>4, <2>5
<1> QED BY <1>5, <1>6, <1>7, <1>8

LEMMA CallPaid ==
    ASSUME NEW b \in [Calls -> Call], NEW d \in [Calls -> Call], NEW w, NEW z, NEW c \in Calls, NEW k,
           Elsewhere(c, b, d), Elsewhere(c, w, z)
    PROVE  SumPaid(d, z, k) = SumPaid(b, w, k) + PaidOf(d[c], z[c], c, k) - PaidOf(b[c], w[c], c, k)
<1> DEFINE f == PayingIn(b)
           g == PayingIn(d)
           S == RowsIn(w, k)
           R == RowsIn(z, k)
<1>1. IsFiniteSet(Calls) BY SpendAssumption DEF SpendAssumption
<1>2. \A x \in Calls \ {c} : d[x] = b[x] BY DEF Elsewhere
<1>3. f \in [Calls -> Int] /\ g \in [Calls -> Int] /\ S \in SUBSET Calls /\ R \in SUBSET Calls BY <1>2, SummedTypes
<1>4. Term(c, R, g) = PaidOf(d[c], z[c], c, k) BY DEF Term, RowsIn, PayingIn, PaidOf
<1>5. Term(c, S, f) = PaidOf(b[c], w[c], c, k) BY TermsAre
<1>6. S \ {c} = R \ {c} BY DEF RowsIn, Elsewhere
<1>7. \A x \in Calls \ {c} : f[x] = g[x] BY <1>2 DEF PayingIn
<1>8. AlikeBut(c, S, R, f, g) BY <1>3, <1>6, <1>7 DEF AlikeBut
<1>9. SumPaid(d, z, k) = SumFunctionOnSet(g, R) /\ SumPaid(b, w, k) = SumFunctionOnSet(f, S) BY DEF SumPaid
<1> HIDE DEF f, g, S, R
<1>10. SumFunctionOnSet(g, R) = SumFunctionOnSet(f, S) + Term(c, R, g) - Term(c, S, f)
  BY <1>1, <1>3, <1>8, SumMoves
<1> QED BY <1>2, <1>4, <1>5, <1>9, <1>10

\* What is spent beyond the estimates is no more than what is charged.
LEMMA SpendingBelow ==
    ASSUME NEW b \in [Calls -> Call], NEW k \in Counters, \A c \in Calls : b[c].pc = "sent" => b[c].open = CapsOf(b[c], c)
    PROVE  SumSpending(b, k) <= SumCharges(b, k) + SumExcess(b, k)
<1>1. IsFiniteSet(Calls) BY SpendAssumption DEF SpendAssumption
<1>2. ASSUME NEW c \in UnderIn(b, k) PROVE SpendingIn(b)[c] <= ChargesIn(b, k)[c] + ExcessIn(b)[c]
  <2>1. c \in Calls /\ k \in CapsOf(b[c], c) BY DEF UnderIn, IsUnder
  <2>2. b[c].cost \in Nat /\ Estimate \in Nat BY <2>1, TermsInt
  <2>3. b[c].pc = "sent" => k \in b[c].open BY <2>1
  <2>4. b[c].unpriced \in BOOLEAN BY <2>1, TermsInt
  <2> QED BY <2>1, <2>2, <2>3, <2>4 DEF SpendingIn, ChargesIn, ExcessIn
<1> QED BY <1>1, <1>2, SummedTypes, SumBelow DEF SumSpending, SumCharges, SumExcess

LEMMA SumNat ==
    ASSUME NEW T, IsFiniteSet(T), NEW f \in [T -> Int], NEW S \in SUBSET T, \A x \in S : f[x] >= 0
    PROVE  SumFunctionOnSet(f, S) >= 0
<1> DEFINE G == {R \in SUBSET S : SumFunctionOnSet(f, R) >= 0}
<1>1. ASSUME NEW R \in SUBSET S, \A x \in R : R \ {x} \in G PROVE SumFunctionOnSet(f, R) >= 0
  <2>1. R \in SUBSET T OBVIOUS
  <2>2. CASE R = {} BY <2>1, <2>2, SumInt
  <2>3. ASSUME NEW x \in R PROVE SumFunctionOnSet(f, R) >= 0
    <3>1. SumFunctionOnSet(f, R) = f[x] + SumFunctionOnSet(f, R \ {x}) BY <2>1, SumRemoves
    <3>2. SumFunctionOnSet(f, R \ {x}) \in Int BY <2>1, SumInt
    <3>3. SumFunctionOnSet(f, R \ {x}) >= 0 /\ f[x] >= 0 /\ f[x] \in Int BY <1>1, <2>3
    <3> QED BY <3>1, <3>2, <3>3
  <2> QED BY <2>2, <2>3
<1>2. \A R \in SUBSET S : (\A x \in R : R \ {x} \in G) => R \in G BY <1>1
<1>3. IsFiniteSet(S) BY FS_Subset
<1>4. SUBSET S \subseteq G
  <2> HIDE DEF G
  <2> QED BY <1>2, <1>3, SubsetsInduct
<1> QED BY <1>4

LEMMA PaidNat ==
    ASSUME NEW b \in [Calls -> Call], NEW w, NEW k
    PROVE  SumPaid(b, w, k) \in Nat
<1>1. IsFiniteSet(Calls) BY SpendAssumption DEF SpendAssumption
<1>2. PayingIn(b) \in [Calls -> Int] /\ RowsIn(w, k) \in SUBSET Calls BY SummedTypes
<1>3. \A c \in Calls : b[c].cost >= 0 BY TermsInt
<1>4. \A c \in RowsIn(w, k) : PayingIn(b)[c] >= 0 BY <1>2, <1>3 DEF PayingIn
<1>5. SumFunctionOnSet(PayingIn(b), RowsIn(w, k)) >= 0 BY <1>1, <1>2, <1>4, SumNat
<1>6. SumFunctionOnSet(PayingIn(b), RowsIn(w, k)) \in Int BY <1>1, <1>2, SumInt
<1> QED BY <1>5, <1>6 DEF SumPaid

-----------------------------------------------------------------------------
(* The inductive invariant, of any values of the variables *)

SpendCore == SpendTypeOK /\ CallsFollow /\ SeedsFollow /\ NeverUnderCounts /\ HeldOnly /\ WithinCap

Tries(a, c) == Cardinality(CapsOf(a, c)) + 2

CallOK(a, c, r, t, lost) ==
    /\ a.day <= t
    /\ a.pc = "new" => a = NewCall
    /\ a.pc \in {"reserve", "seed"} => a.tries <= Tries(a, c)
    /\ a.pc = "reserve" => a.tries # Tries(a, c)
    /\ a.pc = "seed" => a.todo \subseteq CapsOf(a, c)
    /\ a.pc = "sent" => a.open = CapsOf(a, c) /\ a.cost = 0 /\ ~a.unpriced
    /\ a.unpriced => a.cost = 0
    /\ a.pc = "settle" => a.open # {} /\ a.open \subseteq CapsOf(a, c) /\ (r = 0 => a.open \subseteq lost)
    /\ r # 0 => a.pc \in {"settle", "done", "dead"} /\ r >= a.day

\* Of one counter, whose value is n.
CounterOK(b, w, k, exist, n, gone, lost) ==
    /\ \A c \in Calls : b[c].seed[k] <= SumPaid(b, w, k)
    /\ k \notin exist \cup gone => UnderIn(b, k) = {}
    /\ k \in exist \ gone => n >= SumCharges(b, k)
    /\ k \in exist \ (gone \cup lost) => n <= SumPaid(b, w, k) + SumHeld(b, k)
    /\ k \notin gone => SumSpending(b, k) <= Limit(k) + SumExcess(b, k)

Types(t, exist, n, b, w, gone, lost) ==
    /\ t \in 1..MaxDay /\ exist \in SUBSET Counters /\ n \in [Counters -> Int]
    /\ b \in [Calls -> Call] /\ w \in [Calls -> 0..MaxDay] /\ gone \in SUBSET Counters /\ lost \in SUBSET Counters

Core(t, exist, n, b, w, gone, lost) ==
    /\ Types(t, exist, n, b, w, gone, lost)
    /\ \A c \in Calls : CallOK(b[c], c, w[c], t, lost)
    /\ \A k \in Counters : CounterOK(b, w, k, exist, n[k], gone, lost)

Rest == store \in {"redis", "postgres"} /\ faults \in 0..MaxFaults

LEMMA CoreIs == SpendCore <=> Rest /\ Core(today, live, counter, call, row, flushed, leaked)
<1>1. SpendTypeOK <=> Rest /\ Types(today, live, counter, call, row, flushed, leaked)
  BY DEF SpendTypeOK, Rest, Types
<1>2. CallsFollow <=> \A c \in Calls : CallOK(call[c], c, row[c], today, leaked)
  BY DEF CallsFollow, CallOK, Caps, CapsOf, MaxTries, Tries
<1>3. ASSUME SpendTypeOK
      PROVE  SeedsFollow /\ NeverUnderCounts /\ HeldOnly /\ WithinCap
               <=> \A k \in Counters : CounterOK(call, row, k, live, counter[k], flushed, leaked)
  <2>1. live \subseteq Counters BY <1>3 DEF SpendTypeOK
  <2>2. SeedsFollow <=> \A k \in Counters : /\ \A c \in Calls : call[c].seed[k] <= SumPaid(call, row, k)
                                            /\ k \notin live \cup flushed => UnderIn(call, k) = {}
    BY SumsAre DEF SeedsFollow
  <2>3. NeverUnderCounts <=> \A k \in Counters : k \in live \ flushed => counter[k] >= SumCharges(call, k)
    BY <2>1, SumsAre DEF NeverUnderCounts
  <2>4. HeldOnly <=> \A k \in Counters : k \in live \ (flushed \cup leaked)
                       => counter[k] <= SumPaid(call, row, k) + SumHeld(call, k)
    BY <2>1, SumsAre DEF HeldOnly
  <2>5. WithinCap <=> \A k \in Counters : k \notin flushed => SumSpending(call, k) <= Limit(k) + SumExcess(call, k)
    BY SumsAre DEF WithinCap
  <2> QED BY <2>2, <2>3, <2>4, <2>5 DEF CounterOK
<1> QED BY <1>1, <1>2, <1>3 DEF SpendCore, Core

LEMMA CoreIsPrimed == SpendCore' <=> Rest' /\ Core(today', live', counter', call', row', flushed', leaked')
<1>1. (SpendCore <=> Rest /\ Core(today, live, counter, call, row, flushed, leaked))' BY CoreIs, PTL
<1> QED BY <1>1

-----------------------------------------------------------------------------
(* Initially *)

LEMMA NewCallOK ==
    /\ NewCall \in Call
    /\ \A c \in Calls, t \in 1..MaxDay : \A lost : CallOK(NewCall, c, 0, t, lost)
<1>1. MaxDay \in Nat \ {0} /\ 1 \in 1..MaxDay BY SpendAssumption DEF SpendAssumption
<1> QED BY <1>1 DEF NewCall, Call, CallOK, Refused, Reserved

LEMMA InitCore == SpendInit => SpendCore
<1> SUFFICES ASSUME SpendInit PROVE SpendCore OBVIOUS
<1>1. MaxDay \in Nat \ {0} /\ MaxFaults \in Nat BY SpendAssumption DEF SpendAssumption
<1>2. Rest /\ Types(today, live, counter, call, row, flushed, leaked) BY <1>1, NewCallOK DEF SpendInit, Rest, Types
<1>3. \A c \in Calls : CallOK(call[c], c, row[c], today, leaked) BY <1>2, NewCallOK DEF SpendInit, Types
<1>4. ASSUME NEW k \in Counters PROVE CounterOK(call, row, k, live, counter[k], flushed, leaked)
  <2>1. \A c \in Calls : call[c] = NewCall /\ NewCall.seed[k] = -1 /\ NewCall.pc = "new" BY DEF SpendInit, NewCall
  <2>2. UnderIn(call, k) = {} BY <2>1 DEF UnderIn, IsUnder, Reserved
  <2>3. call \in [Calls -> Call] BY <1>2 DEF Types
  <2>4. SumSpending(call, k) = 0 /\ SumExcess(call, k) = 0 BY <2>2, <2>3, SumsInt
  <2>5. SumPaid(call, row, k) \in Nat BY <2>3, PaidNat
  <2>6. Limit(k) \in Nat BY SpendAssumption DEF SpendAssumption, Limit
  <2>7. live = {} BY DEF SpendInit
  <2> QED BY <2>1, <2>2, <2>4, <2>5, <2>6, <2>7 DEF CounterOK
<1> QED BY <1>2, <1>3, <1>4, CoreIs DEF Core

-----------------------------------------------------------------------------
(* A step of one call *)

\* What a step of call c from a to e may do to counter k, from n to m, its row from r to s.
CounterMoves(a, e, c, k, r, s, exist, exist2, n, m, gone, lost2, paid) ==
    /\ e.seed[k] <= paid
    /\ k \notin exist2 \cup gone => ~IsUnder(e, c, k)
    /\ k \in exist \ gone => m >= n + ChargeOf(e, c, k) - ChargeOf(a, c, k)
    /\ k \in exist \ (gone \cup lost2) => m <= n + HeldOf(e, c, k) + PaidOf(e, s, c, k) - HeldOf(a, c, k) - PaidOf(a, r, c, k)
    /\ k \in exist2 \ exist => ~IsUnder(e, c, k) /\ 0 <= m /\ m <= paid
    /\ \/ SpendingOf(e, c, k) - ExcessOf(e, c, k) <= SpendingOf(a, c, k) - ExcessOf(a, c, k)
       \/ k \in exist /\ ~IsUnder(a, c, k) /\ n + SpendingOf(e, c, k) - ExcessOf(e, c, k) <= Limit(k)

ChangedAt(f, x, v, g) == g = [f EXCEPT ![x] = v]

LEMMA CounterStep ==
    ASSUME NEW b \in [Calls -> Call], NEW w \in [Calls -> 0..MaxDay], NEW c \in Calls, NEW e \in Call, NEW s \in 0..MaxDay,
           NEW d, ChangedAt(b, c, e, d), NEW z, ChangedAt(w, c, s, z),
           NEW k \in Counters, NEW exist, NEW exist2, NEW n \in Int, NEW m \in Int, NEW gone, NEW lost, NEW lost2,
           NEW t, \A x \in Calls : CallOK(b[x], x, w[x], t, lost),
           CounterOK(b, w, k, exist, n, gone, lost), exist \subseteq exist2, lost \subseteq lost2,
           w[c] # 0 => s = w[c] /\ e.cost = b[c].cost, CallOK(e, c, s, t, lost2),
           CounterMoves(b[c], e, c, k, w[c], s, exist, exist2, n, m, gone, lost2, SumPaid(b, w, k))
    PROVE  CounterOK(d, z, k, exist2, m, gone, lost2)
<1> DEFINE a == b[c]
<1>1. d \in [Calls -> Call] /\ d[c] = e /\ z[c] = s /\ a \in Call /\ \A x \in Calls \ {c} : d[x] = b[x] /\ z[x] = w[x]
  BY DEF ChangedAt
<1>16. Elsewhere(c, b, d) /\ Elsewhere(c, w, z) BY <1>1 DEF Elsewhere
<1>17. /\ SumCharges(d, k) = SumCharges(b, k) + ChargeOf(d[c], c, k) - ChargeOf(b[c], c, k)
       /\ SumSpending(d, k) = SumSpending(b, k) + SpendingOf(d[c], c, k) - SpendingOf(b[c], c, k)
       /\ SumExcess(d, k) = SumExcess(b, k) + ExcessOf(d[c], c, k) - ExcessOf(b[c], c, k)
       /\ SumHeld(d, k) = SumHeld(b, k) + HeldOf(d[c], c, k) - HeldOf(b[c], c, k)
  BY <1>1, <1>16, CallSums
<1>18. SumPaid(d, z, k) = SumPaid(b, w, k) + PaidOf(d[c], z[c], c, k) - PaidOf(b[c], w[c], c, k)
  BY <1>1, <1>16, CallPaid
<1>2. /\ SumCharges(d, k) = SumCharges(b, k) + ChargeOf(e, c, k) - ChargeOf(a, c, k)
      /\ SumSpending(d, k) = SumSpending(b, k) + SpendingOf(e, c, k) - SpendingOf(a, c, k)
      /\ SumExcess(d, k) = SumExcess(b, k) + ExcessOf(e, c, k) - ExcessOf(a, c, k)
      /\ SumHeld(d, k) = SumHeld(b, k) + HeldOf(e, c, k) - HeldOf(a, c, k)
  BY <1>1, <1>17
<1>15. SumPaid(d, z, k) = SumPaid(b, w, k) + PaidOf(e, s, c, k) - PaidOf(a, w[c], c, k) BY <1>1, <1>18
<1>3. /\ SumCharges(b, k) \in Int /\ SumSpending(b, k) \in Int /\ SumExcess(b, k) \in Int
      /\ SumHeld(b, k) \in Int /\ SumPaid(b, w, k) \in Nat
  BY SumsInt, PaidNat
<1>4. /\ ChargeOf(e, c, k) \in Nat /\ SpendingOf(e, c, k) \in Nat /\ ExcessOf(e, c, k) \in Nat /\ HeldOf(e, c, k) \in Int
      /\ ChargeOf(a, c, k) \in Nat /\ SpendingOf(a, c, k) \in Nat /\ ExcessOf(a, c, k) \in Nat /\ HeldOf(a, c, k) \in Int
  BY <1>1, TermsInt
<1>5. PaidOf(e, s, c, k) \in Nat /\ PaidOf(a, w[c], c, k) \in Nat BY <1>1, TermsInt
<1>6. PaidOf(e, s, c, k) >= PaidOf(a, w[c], c, k)
  <2>1. CASE w[c] = 0
    <3>1. PaidOf(a, w[c], c, k) = 0 BY <2>1 DEF PaidOf, Counted
    <3> QED BY <1>5, <3>1
  <2>2. CASE w[c] # 0
    <3>1. PaidOf(e, s, c, k) = PaidOf(a, w[c], c, k) BY <2>2 DEF PaidOf
    <3> QED BY <1>5, <3>1
  <2> QED BY <2>1, <2>2
<1>7. SumPaid(d, z, k) \in Int /\ SumPaid(d, z, k) >= SumPaid(b, w, k)
  <2> HIDE DEF a
  <2> QED BY <1>3, <1>5, <1>6, <1>15
<1>8. \A x \in Calls : d[x].seed[k] <= SumPaid(d, z, k)
  <2>1. \A x \in Calls : d[x].seed[k] \in Int BY <1>1 DEF Call
  <2>2. \A x \in Calls : d[x].seed[k] <= SumPaid(b, w, k) BY <1>1 DEF CounterOK, CounterMoves
  <2> QED BY <1>3, <1>7, <2>1, <2>2
<1>9. UnderIn(b, k) = {} /\ ~IsUnder(e, c, k) => UnderIn(d, k) = {} BY <1>1 DEF UnderIn
<1>10. k \notin exist2 \cup gone => UnderIn(d, k) = {} BY <1>9 DEF CounterOK, CounterMoves
<1>11. ASSUME k \in exist2 \ exist, k \notin gone
       PROVE  UnderIn(d, k) = {} /\ HoldingIn(d, k) = {} /\ m >= 0 /\ m <= SumPaid(b, w, k)
  <2>1. UnderIn(d, k) = {} /\ m >= 0 /\ m <= SumPaid(b, w, k) BY <1>9, <1>11 DEF CounterOK, CounterMoves
  <2>2. ASSUME NEW x \in Calls, Holds(d[x], x, k) PROVE FALSE
    <3>1. ~IsUnder(d[x], x, k) BY <2>1 DEF UnderIn
    <3>2. CallOK(d[x], x, z[x], t, lost2) \/ CallOK(d[x], x, z[x], t, lost) BY <1>1
    <3> QED BY <2>2, <3>1, <3>2 DEF CallOK, IsUnder, Reserved, Holds
  <2> QED BY <2>1, <2>2 DEF HoldingIn
<1>12. k \in exist2 \ gone => m >= SumCharges(d, k)
  <2>1. CASE k \in exist \ gone
    <3>1. n >= SumCharges(b, k) /\ m >= n + ChargeOf(e, c, k) - ChargeOf(a, c, k)
      BY <2>1 DEF CounterOK, CounterMoves
    <3> HIDE DEF a
    <3> QED BY <1>2, <1>3, <1>4, <3>1
  <2>2. CASE k \in exist2 \ exist /\ k \notin gone
    <3>1. SumCharges(d, k) = 0 BY <1>1, <1>11, <2>2, SumsInt
    <3> QED BY <1>11, <2>2, <3>1
  <2> QED BY <2>1, <2>2
<1>13. k \in exist2 \ (gone \cup lost2) => m <= SumPaid(d, z, k) + SumHeld(d, k)
  <2>1. CASE k \in exist \ (gone \cup lost2)
    <3>1. n <= SumPaid(b, w, k) + SumHeld(b, k) BY <2>1 DEF CounterOK
    <3>2. m <= n + HeldOf(e, c, k) + PaidOf(e, s, c, k) - HeldOf(a, c, k) - PaidOf(a, w[c], c, k) BY <2>1 DEF CounterMoves
    <3> HIDE DEF a
    <3> QED BY <1>2, <1>3, <1>4, <1>5, <1>15, <3>1, <3>2
  <2>2. CASE k \in exist2 \ exist /\ k \notin gone
    <3>1. SumHeld(d, k) = 0 BY <1>1, <1>11, <2>2, SumsInt
    <3> HIDE DEF a
    <3> QED BY <1>3, <1>7, <1>11, <2>2, <3>1
  <2> QED BY <2>1, <2>2
<1>14. k \notin gone => SumSpending(d, k) <= Limit(k) + SumExcess(d, k)
  <2> SUFFICES ASSUME k \notin gone PROVE SumSpending(d, k) <= Limit(k) + SumExcess(d, k) OBVIOUS
  <2>1. Limit(k) \in Nat BY SpendAssumption DEF SpendAssumption, Limit
  <2>2. SumSpending(b, k) <= Limit(k) + SumExcess(b, k) BY DEF CounterOK
  <2>3. CASE SpendingOf(e, c, k) - ExcessOf(e, c, k) <= SpendingOf(a, c, k) - ExcessOf(a, c, k)
    <3> HIDE DEF a
    <3> QED BY <1>2, <1>3, <1>4, <2>1, <2>2, <2>3
  <2>4. CASE k \in exist /\ ~IsUnder(a, c, k) /\ n + SpendingOf(e, c, k) - ExcessOf(e, c, k) <= Limit(k)
    <3>1. SpendingOf(a, c, k) = 0 /\ ExcessOf(a, c, k) = 0 BY <2>4 DEF SpendingOf, ExcessOf
    <3>2. \A x \in Calls : b[x].pc = "sent" => b[x].open = CapsOf(b[x], x) BY DEF CallOK
    <3>3. SumSpending(b, k) <= SumCharges(b, k) + SumExcess(b, k) BY <3>2, SpendingBelow
    <3>4. n >= SumCharges(b, k) BY <2>4 DEF CounterOK
    <3> HIDE DEF a
    <3> QED BY <1>2, <1>3, <1>4, <2>1, <2>4, <3>1, <3>3, <3>4
  <2> QED BY <2>3, <2>4 DEF CounterMoves
<1> QED BY <1>8, <1>10, <1>12, <1>13, <1>14 DEF CounterOK

LEMMA CallStep ==
    ASSUME Rest', Core(today, live, counter, call, row, flushed, leaked), NEW c \in Calls, NEW e \in Call, NEW s \in 0..MaxDay,
           ChangedAt(call, c, e, call'), ChangedAt(row, c, s, row'), today' = today, flushed' = flushed,
           live' \in SUBSET Counters, live \subseteq live', leaked' \in SUBSET Counters, leaked \subseteq leaked',
           counter' \in [Counters -> Int], row[c] # 0 => s = row[c] /\ e.cost = call[c].cost,
           CallOK(e, c, s, today, leaked'),
           \A k \in Counters : CounterMoves(call[c], e, c, k, row[c], s, live, live', counter[k], counter'[k],
                                            flushed, leaked', SumPaid(call, row, k))
    PROVE  SpendCore'
<1>1. /\ Types(today, live, counter, call, row, flushed, leaked)
      /\ \A x \in Calls : CallOK(call[x], x, row[x], today, leaked)
      /\ \A k \in Counters : CounterOK(call, row, k, live, counter[k], flushed, leaked)
  BY DEF Core
<1>2. call \in [Calls -> Call] /\ row \in [Calls -> 0..MaxDay] /\ counter \in [Counters -> Int] BY <1>1 DEF Types
<1>3. /\ call' \in [Calls -> Call] /\ row' \in [Calls -> 0..MaxDay] /\ call'[c] = e /\ row'[c] = s
      /\ \A x \in Calls \ {c} : call'[x] = call[x] /\ row'[x] = row[x]
  BY <1>2 DEF ChangedAt
<1>4. Types(today', live', counter', call', row', flushed', leaked') BY <1>1, <1>3 DEF Types
<1>5. \A x \in Calls : CallOK(call'[x], x, row'[x], today, leaked')
  <2> SUFFICES ASSUME NEW x \in Calls PROVE CallOK(call'[x], x, row'[x], today, leaked') OBVIOUS
  <2>1. CASE x = c BY <1>3, <2>1
  <2>2. CASE x # c
    <3>1. CallOK(call[x], x, row[x], today, leaked) BY <1>1
    <3>2. CallOK(call[x], x, row[x], today, leaked') BY <3>1 DEF CallOK
    <3> QED BY <1>3, <2>2, <3>2
  <2> QED BY <2>1, <2>2
<1>6. ASSUME NEW k \in Counters PROVE CounterOK(call', row', k, live', counter'[k], flushed, leaked')
  <2>1. counter[k] \in Int /\ counter'[k] \in Int BY <1>2
  <2>2. CounterMoves(call[c], e, c, k, row[c], s, live, live', counter[k], counter'[k],
                     flushed, leaked', SumPaid(call, row, k)) OBVIOUS
  <2>3. CounterOK(call, row, k, live, counter[k], flushed, leaked) BY <1>1
  <2> HIDE DEF Counters
  <2> QED BY <1>1, <1>2, <2>1, <2>2, <2>3, CounterStep
<1> QED BY <1>4, <1>5, <1>6, CoreIsPrimed DEF Core

LEMMA CallFacts ==
    ASSUME SpendCore, NEW c \in Calls
    PROVE  /\ call[c] \in Call /\ row[c] \in 0..MaxDay /\ CallOK(call[c], c, row[c], today, leaked)
           /\ Caps(c) = CapsOf(call[c], c) /\ Caps(c) \subseteq Counters /\ today \in 1..MaxDay
           /\ \A k \in Counters : /\ call[c].seed[k] <= SumPaid(call, row, k) /\ SumPaid(call, row, k) \in Nat
                                  /\ counter[k] \in Int
                                  /\ k \notin live \cup flushed => ~IsUnder(call[c], c, k)
<1>1. Core(today, live, counter, call, row, flushed, leaked) BY CoreIs
<1>2. Types(today, live, counter, call, row, flushed, leaked) BY <1>1 DEF Core
<1>3. call \in [Calls -> Call] /\ row \in [Calls -> 0..MaxDay] /\ counter \in [Counters -> Int] /\ today \in 1..MaxDay
  BY <1>2 DEF Types
<1>4. CallOK(call[c], c, row[c], today, leaked) BY <1>1 DEF Core
<1>5. Caps(c) = CapsOf(call[c], c) BY DEF Caps, CapsOf
<1>6. Caps(c) \subseteq Counters BY <1>3, <1>5, CountersAre
<1>7. ASSUME NEW k \in Counters
      PROVE  /\ call[c].seed[k] <= SumPaid(call, row, k) /\ SumPaid(call, row, k) \in Nat
             /\ counter[k] \in Int /\ (k \notin live \cup flushed => ~IsUnder(call[c], c, k))
  <2>1. CounterOK(call, row, k, live, counter[k], flushed, leaked) BY <1>1 DEF Core
  <2>2. SumPaid(call, row, k) \in Nat BY <1>3, PaidNat
  <2> QED BY <1>3, <2>1, <2>2 DEF CounterOK, UnderIn
<1> QED BY <1>3, <1>4, <1>5, <1>6, <1>7

\* Outside a reservation a call adds nothing to any sum.
LEMMA IdleTerms ==
    ASSUME NEW a, a.pc \notin Reserved, NEW c, NEW k
    PROVE  /\ ~IsUnder(a, c, k) /\ ChargeOf(a, c, k) = 0 /\ SpendingOf(a, c, k) = 0 /\ ExcessOf(a, c, k) = 0
           /\ HeldOf(a, c, k) = 0 /\ PaidOf(a, 0, c, k) = 0
<1>1. ~IsUnder(a, c, k) BY DEF IsUnder
<1> QED BY <1>1 DEF ChargeOf, SpendingOf, ExcessOf, HeldOf, Holds, PaidOf, Counted, Reserved

LEMMA QuietMoves ==
    ASSUME NEW a \in Call, NEW e \in Call, a.pc \notin Reserved, e.pc \notin Reserved, NEW c, NEW k, NEW exist,
           NEW n \in Int, NEW gone, NEW lost, NEW paid, e.seed[k] <= paid
    PROVE  CounterMoves(a, e, c, k, 0, 0, exist, exist, n, n, gone, lost, paid)
<1>1. /\ ~IsUnder(a, c, k) /\ ChargeOf(a, c, k) = 0 /\ SpendingOf(a, c, k) = 0 /\ ExcessOf(a, c, k) = 0
      /\ HeldOf(a, c, k) = 0 /\ PaidOf(a, 0, c, k) = 0
  BY IdleTerms
<1>2. /\ ~IsUnder(e, c, k) /\ ChargeOf(e, c, k) = 0 /\ SpendingOf(e, c, k) = 0 /\ ExcessOf(e, c, k) = 0
      /\ HeldOf(e, c, k) = 0 /\ PaidOf(e, 0, c, k) = 0
  BY IdleTerms
<1> QED BY <1>1, <1>2 DEF CounterMoves

LEMMA QuietStep ==
    ASSUME SpendCore, Rest', NEW c \in Calls, NEW e \in Call, call[c].pc \notin Reserved, e.pc \notin Reserved,
           ChangedAt(call, c, e, call'), UNCHANGED <<today, live, counter, row, flushed, leaked>>,
           CallOK(e, c, 0, today, leaked), \A k \in Counters : e.seed[k] <= SumPaid(call, row, k)
    PROVE  SpendCore'
<1>1. Core(today, live, counter, call, row, flushed, leaked) BY CoreIs
<1>2. Types(today, live, counter, call, row, flushed, leaked) BY <1>1 DEF Core
<1>3. call[c] \in Call /\ row[c] \in 0..MaxDay /\ CallOK(call[c], c, row[c], today, leaked) BY CallFacts
<1>4. row[c] = 0 BY <1>3 DEF CallOK, Reserved
<1>5. row \in [Calls -> 0..MaxDay] /\ counter \in [Counters -> Int] /\ live \in SUBSET Counters /\ leaked \in SUBSET Counters
  BY <1>2 DEF Types
<1>6. ChangedAt(row, c, 0, row') BY <1>4, <1>5 DEF ChangedAt
<1>7. ASSUME NEW k \in Counters
      PROVE  CounterMoves(call[c], e, c, k, row[c], 0, live, live', counter[k], counter'[k],
                          flushed, leaked', SumPaid(call, row, k))
  <2>1. counter[k] \in Int BY <1>5
  <2>2. CounterMoves(call[c], e, c, k, 0, 0, live, live, counter[k], counter[k], flushed, leaked, SumPaid(call, row, k))
    BY <1>3, <2>1, QuietMoves
  <2> QED BY <1>4, <2>2
<1>8. 0 \in 0..MaxDay BY SpendAssumption DEF SpendAssumption
<1> QED BY <1>1, <1>4, <1>5, <1>6, <1>7, <1>8, CallStep

-----------------------------------------------------------------------------
(* Actions outside a reservation *)

LEMMA RestStep ==
    Rest /\ store' = store /\ (faults' = faults \/ (faults < MaxFaults /\ faults' = faults + 1)) => Rest'
<1>1. MaxFaults \in Nat BY SpendAssumption DEF SpendAssumption
<1> QED BY <1>1 DEF Rest

LEMMA TriesAre == ASSUME NEW a \in Call, NEW c PROVE Tries(a, c) \in {3, 4}
<1>1. Day(a.day) # Month BY CountersAre DEF Call
<1>2. Cardinality({Day(a.day)}) = 1 /\ IsFiniteSet({Day(a.day)}) BY FS_Singleton
<1>3. CASE c \in Platform
  <2>1. CapsOf(a, c) = {Day(a.day)} BY <1>3 DEF CapsOf
  <2> QED BY <1>2, <2>1 DEF Tries
<1>4. CASE c \notin Platform
  <2>1. CapsOf(a, c) = {Day(a.day)} \cup {Month} BY <1>4 DEF CapsOf
  <2>2. Cardinality({Day(a.day)} \cup {Month}) = 2 BY <1>1, <1>2, FS_AddElement
  <2> QED BY <2>1, <2>2 DEF Tries
<1> QED BY <1>3, <1>4

\* A call that is answered without a reservation.
LEMMA AnsweredStep ==
    ASSUME SpendCore, Rest', NEW c \in Calls, NEW pc \in Refused, call[c].pc \notin Reserved,
           Set(c, [NewCall EXCEPT !.pc = pc]), UNCHANGED <<today, live, counter, row, flushed, leaked>>
    PROVE  SpendCore'
<1> DEFINE e == [NewCall EXCEPT !.pc = pc]
<1>1. e \in Call /\ e.pc = pc /\ e.day = 1 /\ ~e.unpriced /\ \A k \in Counters : e.seed[k] = -1
  BY NewCallOK DEF NewCall, Call
<1>2. today \in 1..MaxDay BY CallFacts
<1>3. CallOK(e, c, 0, today, leaked) /\ e.pc \notin Reserved BY <1>1, <1>2 DEF CallOK, Refused, Reserved
<1>4. \A k \in Counters : e.seed[k] <= SumPaid(call, row, k)
  <2>1. \A k \in Counters : SumPaid(call, row, k) \in Nat BY CallFacts
  <2> QED BY <1>1, <2>1
<1>5. ChangedAt(call, c, e, call') BY DEF Set, ChangedAt
<1> HIDE DEF e
<1> QED BY <1>1, <1>3, <1>4, <1>5, QuietStep

LEMMA BeginCore == ASSUME SpendCore, NEW c \in Calls, Begin(c) PROVE SpendCore'
<1> DEFINE e == [call[c] EXCEPT !.pc = "reserve", !.day = today]
<1>1. call[c] \in Call /\ CallOK(call[c], c, row[c], today, leaked) /\ today \in 1..MaxDay BY CallFacts
<1>2. call[c] = NewCall /\ call[c].pc \notin Reserved BY <1>1 DEF Begin, CallAt, CallOK, Reserved
<1>3. e \in Call BY <1>1 DEF Call
<1>4. e.pc = "reserve" /\ e.day = today /\ e.tries = 0 /\ e.seed = NewCall.seed /\ ~e.unpriced BY <1>2 DEF NewCall
<1>5. Tries(e, c) \in {3, 4} BY <1>3, TriesAre
<1>6. CallOK(e, c, 0, today, leaked) /\ e.pc \notin Reserved BY <1>1, <1>4, <1>5 DEF CallOK, Reserved
<1>7. \A k \in Counters : e.seed[k] <= SumPaid(call, row, k)
  <2>1. \A k \in Counters : call[c].seed[k] <= SumPaid(call, row, k) BY CallFacts
  <2> QED BY <1>2, <1>4, <2>1
<1>8. ChangedAt(call, c, e, call') BY DEF Begin, Set, ChangedAt
<1>9. UNCHANGED <<today, live, counter, row, flushed, leaked>> /\ Rest' BY CoreIs DEF Begin, Rest
<1> HIDE DEF e
<1> QED BY <1>2, <1>3, <1>6, <1>7, <1>8, <1>9, QuietStep

LEMMA FindMissingCore == ASSUME SpendCore, NEW c \in Calls, FindMissing(c) PROVE SpendCore'
<1> DEFINE e == [call[c] EXCEPT !.pc = "seed", !.todo = Missing(c), !.tries = @ + 1]
<1>1. call[c] \in Call /\ CallOK(call[c], c, row[c], today, leaked) BY CallFacts
<1>2. Caps(c) = CapsOf(call[c], c) /\ Caps(c) \subseteq Counters BY CallFacts
<1>3. call[c].pc = "reserve" /\ call[c].pc \notin Reserved BY DEF FindMissing, CallAt, Reserved
<1>4. Missing(c) \subseteq Caps(c) BY DEF Missing
<1>5. Tries(call[c], c) \in {3, 4} BY <1>1, TriesAre
<1>6. call[c].tries \in 0..4 /\ call[c].tries <= Tries(call[c], c) /\ call[c].tries # Tries(call[c], c)
  BY <1>1, <1>3 DEF CallOK, Call
<1>7. call[c].tries + 1 \in 0..4 /\ call[c].tries + 1 <= Tries(call[c], c) BY <1>5, <1>6
<1>8. e \in Call BY <1>1, <1>2, <1>4, <1>7 DEF Call
<1>9. /\ e.pc = "seed" /\ e.day = call[c].day /\ e.tries = call[c].tries + 1 /\ e.todo = Missing(c) /\ e.seed = call[c].seed
      /\ e.unpriced = call[c].unpriced /\ e.cost = call[c].cost
  BY <1>1 DEF Call
<1>10. CapsOf(e, c) = CapsOf(call[c], c) /\ Tries(e, c) = Tries(call[c], c) BY <1>9 DEF CapsOf, Tries
<1>11. CallOK(e, c, 0, today, leaked) /\ e.pc \notin Reserved BY <1>1, <1>2, <1>4, <1>7, <1>9, <1>10 DEF CallOK, Reserved
<1>12. \A k \in Counters : e.seed[k] <= SumPaid(call, row, k)
  <2>1. \A k \in Counters : call[c].seed[k] <= SumPaid(call, row, k) BY CallFacts
  <2> QED BY <1>9, <2>1
<1>13. ChangedAt(call, c, e, call') BY DEF FindMissing, Set, ChangedAt
<1>14. UNCHANGED <<today, live, counter, row, flushed, leaked>> /\ Rest' BY CoreIs DEF FindMissing, Rest
<1> HIDE DEF e
<1> QED BY <1>3, <1>8, <1>11, <1>12, <1>13, <1>14, QuietStep

LEMMA AnswerCore == ASSUME SpendCore, NEW c \in Calls, RefuseCall(c) \/ Outage(c) PROVE SpendCore'
<1>1. UNCHANGED <<today, live, counter, row, flushed, leaked>> BY DEF RefuseCall, Outage
<1>2. Rest'
  <2>1. Rest BY CoreIs
  <2>2. store' = store /\ (faults' = faults \/ (faults < MaxFaults /\ faults' = faults + 1))
    <3>1. CASE RefuseCall(c)
      <4>1. UNCHANGED <<store, faults>> BY <3>1 DEF RefuseCall
      <4> QED BY <4>1
    <3>2. CASE Outage(c) BY <3>2 DEF Outage
    <3> QED BY <3>1, <3>2
  <2> QED BY <2>1, <2>2, RestStep
<1>3. call[c].pc \notin Reserved BY DEF RefuseCall, Outage, CallAt, Reserved
<1>4. CASE RefuseCall(c) BY <1>1, <1>2, <1>3, <1>4, AnsweredStep DEF RefuseCall, Refused
<1>5. CASE Outage(c) BY <1>1, <1>2, <1>3, <1>5, AnsweredStep DEF Outage, Refused
<1> QED BY <1>4, <1>5

LEMMA ReadSeedCore == ASSUME SpendCore, NEW c \in Calls, NEW q \in Counters, ReadSeed(c, q) PROVE SpendCore'
<1> DEFINE seed == [call[c].seed EXCEPT ![q] = Spent(RowsOf(q))]
           e == [call[c] EXCEPT !.seed = seed]
<1>1. call[c] \in Call /\ CallOK(call[c], c, row[c], today, leaked) BY CallFacts
<1>2. Spent(RowsOf(q)) = SumPaid(call, row, q) BY SumsAre
<1>3. SumPaid(call, row, q) \in Nat BY CallFacts
<1>4. call[c].pc = "seed" /\ call[c].pc \notin Reserved BY DEF ReadSeed, CallAt, Reserved
<1>5. call[c].seed \in [Counters -> Nat \cup {-1}] BY <1>1 DEF Call
<1>6. seed \in [Counters -> Nat \cup {-1}] BY <1>2, <1>3, <1>5
<1>7. \A k \in Counters : seed[k] <= SumPaid(call, row, k)
  <2>1. \A k \in Counters : call[c].seed[k] <= SumPaid(call, row, k) BY CallFacts
  <2> QED BY <1>2, <1>3, <1>5, <2>1
<1>8. Set(c, e) BY DEF ReadSeed
<1> HIDE DEF seed
<1>9. e \in Call BY <1>1, <1>6 DEF Call
<1>10. /\ e.pc = "seed" /\ e.day = call[c].day /\ e.tries = call[c].tries /\ e.todo = call[c].todo /\ e.seed = seed
       /\ e.unpriced = call[c].unpriced /\ e.cost = call[c].cost
  BY <1>1, <1>4 DEF Call
<1>11. CapsOf(e, c) = CapsOf(call[c], c) /\ Tries(e, c) = Tries(call[c], c) BY <1>10 DEF CapsOf, Tries
<1>12. CallOK(e, c, 0, today, leaked) /\ e.pc \notin Reserved BY <1>1, <1>4, <1>10, <1>11 DEF CallOK, Reserved
<1>13. \A k \in Counters : e.seed[k] <= SumPaid(call, row, k) BY <1>7, <1>10
<1>14. ChangedAt(call, c, e, call') BY <1>8 DEF Set, ChangedAt
<1>15. UNCHANGED <<today, live, counter, row, flushed, leaked>> /\ Rest' BY CoreIs DEF ReadSeed, Rest
<1> HIDE DEF e
<1> QED BY <1>4, <1>9, <1>12, <1>13, <1>14, <1>15, QuietStep

-----------------------------------------------------------------------------
(* Seeding and reserving *)

LEMMA StateTypes ==
    SpendCore => /\ live \in SUBSET Counters /\ leaked \in SUBSET Counters /\ counter \in [Counters -> Int]
                 /\ call \in [Calls -> Call] /\ row \in [Calls -> 0..MaxDay]
BY CoreIs DEF Core, Types

LEMMA SetSeedCore == ASSUME SpendCore, NEW c \in Calls, SetSeed(c) PROVE SpendCore'
<1> DEFINE e == IF call[c].tries = MaxTries(c) THEN [NewCall EXCEPT !.pc = "unavailable"]
                ELSE [call[c] EXCEPT !.pc = "reserve", !.todo = {}, !.seed = NewCall.seed]
<1>1. call[c] \in Call /\ row[c] \in 0..MaxDay /\ CallOK(call[c], c, row[c], today, leaked) /\ today \in 1..MaxDay
  BY CallFacts
<1>2. Caps(c) = CapsOf(call[c], c) /\ Caps(c) \subseteq Counters BY CallFacts
<1>3. call[c].pc = "seed" /\ call[c].pc \notin Reserved BY DEF SetSeed, CallAt, Reserved
<1>4. row[c] = 0 BY <1>1, <1>3 DEF CallOK
<1>5. MaxTries(c) = Tries(call[c], c) BY <1>2 DEF MaxTries, Tries
<1>6. /\ e \in Call /\ e.pc \notin Reserved /\ CallOK(e, c, 0, today, leaked)
      /\ \A k \in Counters : e.seed[k] = -1
  <2>1. CASE call[c].tries = MaxTries(c)
    <3>1. e = [NewCall EXCEPT !.pc = "unavailable"] BY <2>1
    <3> HIDE DEF e
    <3>2. e \in Call /\ e.pc = "unavailable" /\ e.day = 1 /\ ~e.unpriced /\ \A k \in Counters : e.seed[k] = -1
      BY <3>1, NewCallOK DEF NewCall, Call, Refused
    <3> QED BY <1>1, <3>2 DEF CallOK, Reserved
  <2>2. CASE call[c].tries # MaxTries(c)
    <3>1. e = [call[c] EXCEPT !.pc = "reserve", !.todo = {}, !.seed = NewCall.seed] BY <2>2
    <3>2. NewCall.seed \in [Counters -> Nat \cup {-1}] /\ \A k \in Counters : NewCall.seed[k] = -1 BY DEF NewCall
    <3> HIDE DEF e
    <3>3. e \in Call BY <1>1, <3>1, <3>2 DEF Call
    <3>4. /\ e.pc = "reserve" /\ e.day = call[c].day /\ e.tries = call[c].tries /\ e.seed = NewCall.seed
          /\ e.unpriced = call[c].unpriced /\ e.cost = call[c].cost
      BY <1>1, <3>1 DEF Call
    <3>5. CapsOf(e, c) = CapsOf(call[c], c) /\ Tries(e, c) = Tries(call[c], c) BY <3>4 DEF CapsOf, Tries
    <3> QED BY <1>1, <1>3, <1>5, <2>2, <3>2, <3>3, <3>4, <3>5 DEF CallOK, Reserved
  <2> QED BY <2>1, <2>2
<1>7. ChangedAt(call, c, e, call') BY DEF SetSeed, Set, ChangedAt
<1> HIDE DEF e
<1>8. /\ live \in SUBSET Counters /\ leaked \in SUBSET Counters /\ counter \in [Counters -> Int]
      /\ row \in [Calls -> 0..MaxDay]
  BY StateTypes
<1>9. Unseeded(c) \subseteq Counters \ live /\ Unseeded(c) \subseteq call[c].todo
  BY <1>1, <1>2, <1>3 DEF Unseeded, CallOK
<1>10. live' = live \cup Unseeded(c) BY DEF SetSeed
<1>11. \A k \in Counters : k \notin Unseeded(c) => counter'[k] = counter[k] BY DEF SetSeed
<1>12. \A k \in Unseeded(c) : counter'[k] = call[c].seed[k] /\ call[c].seed[k] \in Nat
  BY <1>1, <1>9 DEF SetSeed, Call
<1>13. \A k \in Counters : counter'[k] \in Int /\ counter[k] \in Int BY <1>8, <1>11, <1>12
<1>14. counter' \in [Counters -> Int] BY <1>13 DEF SetSeed
<1>15. ASSUME NEW k \in Counters
       PROVE  CounterMoves(call[c], e, c, k, 0, 0, live, live', counter[k], counter'[k],
                           flushed, leaked', SumPaid(call, row, k))
  <2>1. /\ ~IsUnder(call[c], c, k) /\ ChargeOf(call[c], c, k) = 0 /\ SpendingOf(call[c], c, k) = 0
        /\ ExcessOf(call[c], c, k) = 0 /\ HeldOf(call[c], c, k) = 0 /\ PaidOf(call[c], 0, c, k) = 0
    BY <1>3, IdleTerms
  <2>2. /\ ~IsUnder(e, c, k) /\ ChargeOf(e, c, k) = 0 /\ SpendingOf(e, c, k) = 0 /\ ExcessOf(e, c, k) = 0
        /\ HeldOf(e, c, k) = 0 /\ PaidOf(e, 0, c, k) = 0
    BY <1>6, IdleTerms
  <2>3. SumPaid(call, row, k) \in Nat /\ call[c].seed[k] <= SumPaid(call, row, k) BY CallFacts
  <2>4. k \in live => counter'[k] = counter[k] BY <1>9, <1>11
  <2>5. k \in live' \ live => counter'[k] = call[c].seed[k] /\ call[c].seed[k] \in Nat BY <1>10, <1>12
  <2>6. e.seed[k] <= SumPaid(call, row, k) BY <1>6, <2>3
  <2> QED BY <1>13, <2>1, <2>2, <2>3, <2>4, <2>5, <2>6 DEF CounterMoves
<1>16. ChangedAt(row, c, 0, row') BY <1>4, <1>8 DEF SetSeed, ChangedAt
<1>17. today' = today /\ flushed' = flushed /\ leaked' = leaked /\ Rest' BY CoreIs DEF SetSeed, Rest
<1>18. 0 \in 0..MaxDay BY <1>1, <1>4
<1>19. live' \in SUBSET Counters /\ live \subseteq live' BY <1>8, <1>9, <1>10
<1> QED BY <1>4, <1>6, <1>7, <1>8, <1>14, <1>15, <1>16, <1>17, <1>18, <1>19, CoreIs, CallStep

\* Reserve, and LoseAnswer of which the call does not know.
LEMMA ReserveCore == ASSUME SpendCore, NEW c \in Calls, Reserve(c) PROVE SpendCore'
<1> DEFINE e == [NewCall EXCEPT !.pc = "sent", !.day = call[c].day, !.open = Caps(c)]
<1>1. call[c] \in Call /\ row[c] \in 0..MaxDay /\ CallOK(call[c], c, row[c], today, leaked) /\ today \in 1..MaxDay
  BY CallFacts
<1>2. Caps(c) = CapsOf(call[c], c) /\ Caps(c) \subseteq Counters BY CallFacts
<1>3. call[c].pc = "reserve" /\ call[c].pc \notin Reserved BY DEF Reserve, Fits, CallAt, Reserved
<1>4. row[c] = 0 BY <1>1, <1>3 DEF CallOK
<1>5. /\ e \in Call /\ e.pc = "sent" /\ e.day = call[c].day /\ e.open = Caps(c) /\ e.cost = 0 /\ e.unpriced = FALSE
      /\ \A k \in Counters : e.seed[k] = -1
  BY <1>1, <1>2, NewCallOK DEF NewCall, Call, Reserved
<1>6. ChangedAt(call, c, e, call') BY DEF Reserve, Set, ChangedAt
<1> HIDE DEF e
<1>7. CapsOf(e, c) = Caps(c) BY <1>2, <1>5 DEF CapsOf
<1>8. CallOK(e, c, 0, today, leaked) BY <1>1, <1>5, <1>7 DEF CallOK
<1>9. live \in SUBSET Counters /\ leaked \in SUBSET Counters /\ counter \in [Counters -> Int] /\ row \in [Calls -> 0..MaxDay]
  BY StateTypes
<1>10. Estimate \in Nat \ {0} BY SpendAssumption DEF SpendAssumption
<1>11. counter' = [k \in Counters |-> IF k \in Caps(c) THEN counter[k] + Estimate ELSE counter[k]] BY DEF Reserve, Add
<1>12. ASSUME NEW k \in Counters PROVE counter'[k] \in Int /\ counter[k] \in Int BY <1>9, <1>10, <1>11
<1>13. counter' \in [Counters -> Int] BY <1>11, <1>12
<1>14. ASSUME NEW k \in Counters
       PROVE  CounterMoves(call[c], e, c, k, 0, 0, live, live', counter[k], counter'[k],
                           flushed, leaked', SumPaid(call, row, k))
  <2>1. /\ ~IsUnder(call[c], c, k) /\ ChargeOf(call[c], c, k) = 0 /\ SpendingOf(call[c], c, k) = 0
        /\ ExcessOf(call[c], c, k) = 0 /\ HeldOf(call[c], c, k) = 0 /\ PaidOf(call[c], 0, c, k) = 0
    BY <1>3, IdleTerms
  <2>2. IsUnder(e, c, k) <=> k \in Caps(c) BY <1>5, <1>7 DEF IsUnder, Reserved
  <2>3. ExcessOf(e, c, k) = 0 /\ PaidOf(e, 0, c, k) = 0 BY <1>5, <1>10 DEF ExcessOf, PaidOf, Counted
  <2>4. IF k \in Caps(c) THEN ChargeOf(e, c, k) = Estimate /\ SpendingOf(e, c, k) = Estimate /\ HeldOf(e, c, k) = Estimate
        ELSE ChargeOf(e, c, k) = 0 /\ SpendingOf(e, c, k) = 0 /\ HeldOf(e, c, k) = 0
    BY <1>5, <1>10, <2>2 DEF ChargeOf, SpendingOf, HeldOf, Holds
  <2>5. SumPaid(call, row, k) \in Nat BY CallFacts
  <2>6. e.seed[k] <= SumPaid(call, row, k) BY <1>5, <2>5
  <2>7. live' = live /\ Caps(c) \subseteq live BY DEF Reserve, Fits
  <2>8. CASE k \in Caps(c)
    <3>1. counter'[k] = counter[k] + Estimate BY <1>11, <2>8
    <3>2. ~(counter[k] + Estimate > Limit(k)) BY <2>8 DEF Reserve, Fits, Exceeds
    <3>3. Limit(k) \in Nat BY SpendAssumption DEF SpendAssumption, Limit
    <3>4. counter[k] + SpendingOf(e, c, k) - ExcessOf(e, c, k) <= Limit(k) BY <1>10, <1>12, <2>3, <2>4, <2>8, <3>2, <3>3
    <3> QED BY <1>10, <1>12, <2>1, <2>3, <2>4, <2>6, <2>7, <2>8, <3>1, <3>4 DEF CounterMoves
  <2>9. CASE k \notin Caps(c)
    <3>1. counter'[k] = counter[k] BY <1>11, <2>9
    <3> QED BY <1>12, <2>1, <2>2, <2>3, <2>4, <2>6, <2>7, <2>9, <3>1 DEF CounterMoves
  <2> QED BY <2>8, <2>9
<1>15. ChangedAt(row, c, 0, row') BY <1>4, <1>9 DEF Reserve, ChangedAt
<1>16. today' = today /\ flushed' = flushed /\ leaked' = leaked /\ live' = live /\ Rest' BY CoreIs DEF Reserve, Rest
<1>17. 0 \in 0..MaxDay BY <1>1, <1>4
<1> QED BY <1>4, <1>5, <1>6, <1>8, <1>9, <1>13, <1>14, <1>15, <1>16, <1>17, CoreIs, CallStep

LEMMA LoseAnswerCore == ASSUME SpendCore, NEW c \in Calls, LoseAnswer(c) PROVE SpendCore'
<1> DEFINE e == [NewCall EXCEPT !.pc = "unavailable"]
<1>1. call[c] \in Call /\ row[c] \in 0..MaxDay /\ CallOK(call[c], c, row[c], today, leaked) /\ today \in 1..MaxDay
  BY CallFacts
<1>2. Caps(c) \subseteq Counters BY CallFacts
<1>3. call[c].pc = "reserve" /\ call[c].pc \notin Reserved BY DEF LoseAnswer, Fits, CallAt, Reserved
<1>4. row[c] = 0 BY <1>1, <1>3 DEF CallOK
<1>5. e \in Call /\ e.pc = "unavailable" /\ e.day = 1 /\ ~e.unpriced /\ \A k \in Counters : e.seed[k] = -1
  BY NewCallOK DEF NewCall, Call, Refused
<1>6. ChangedAt(call, c, e, call') BY DEF LoseAnswer, Set, ChangedAt
<1> HIDE DEF e
<1>7. CallOK(e, c, 0, today, leaked') /\ e.pc \notin Reserved BY <1>1, <1>5 DEF CallOK, Reserved
<1>8. live \in SUBSET Counters /\ leaked \in SUBSET Counters /\ counter \in [Counters -> Int] /\ row \in [Calls -> 0..MaxDay]
  BY StateTypes
<1>9. Estimate \in Nat \ {0} BY SpendAssumption DEF SpendAssumption
<1>10. counter' = [k \in Counters |-> IF k \in Caps(c) THEN counter[k] + Estimate ELSE counter[k]]
  BY DEF LoseAnswer, Add
<1>11. ASSUME NEW k \in Counters PROVE counter'[k] \in Int /\ counter[k] \in Int BY <1>8, <1>9, <1>10
<1>12. counter' \in [Counters -> Int] BY <1>10, <1>11
<1>13. leaked' = leaked \cup Caps(c) /\ live' = live BY DEF LoseAnswer
<1>14. ASSUME NEW k \in Counters
       PROVE  CounterMoves(call[c], e, c, k, 0, 0, live, live', counter[k], counter'[k],
                           flushed, leaked', SumPaid(call, row, k))
  <2>1. /\ ~IsUnder(call[c], c, k) /\ ChargeOf(call[c], c, k) = 0 /\ SpendingOf(call[c], c, k) = 0
        /\ ExcessOf(call[c], c, k) = 0 /\ HeldOf(call[c], c, k) = 0 /\ PaidOf(call[c], 0, c, k) = 0
    BY <1>3, IdleTerms
  <2>2. /\ ~IsUnder(e, c, k) /\ ChargeOf(e, c, k) = 0 /\ SpendingOf(e, c, k) = 0 /\ ExcessOf(e, c, k) = 0
        /\ HeldOf(e, c, k) = 0 /\ PaidOf(e, 0, c, k) = 0
    BY <1>7, IdleTerms
  <2>3. SumPaid(call, row, k) \in Nat BY CallFacts
  <2>4. e.seed[k] <= SumPaid(call, row, k) BY <1>5, <2>3
  <2>5. counter'[k] >= counter[k] /\ (k \notin leaked' => counter'[k] = counter[k]) BY <1>9, <1>10, <1>11, <1>13
  <2> QED BY <1>11, <1>13, <2>1, <2>2, <2>4, <2>5 DEF CounterMoves
<1>15. ChangedAt(row, c, 0, row') BY <1>4, <1>8 DEF LoseAnswer, ChangedAt
<1>16. today' = today /\ flushed' = flushed /\ Rest' BY CoreIs, RestStep DEF LoseAnswer
<1>17. 0 \in 0..MaxDay BY <1>1, <1>4
<1>18. leaked' \in SUBSET Counters /\ leaked \subseteq leaked' BY <1>2, <1>8, <1>13
<1> QED BY <1>4, <1>5, <1>6, <1>7, <1>8, <1>12, <1>13, <1>14, <1>15, <1>16, <1>17, <1>18, CoreIs, CallStep

-----------------------------------------------------------------------------
(* A reserved call *)

LEMMA CostsAre == \A cost \in Costs \cup {0} : cost \in Nat
BY SpendAssumption DEF SpendAssumption

\* The row of a call counts under every counter it reserved, on whatever day it is written.
LEMMA RowCounts ==
    ASSUME NEW a \in Call, NEW c, NEW k \in CapsOf(a, c), NEW r \in 1..MaxDay, a.day <= r
    PROVE  Counted(r, c, k)
<1>1. CASE k = Month BY <1>1 DEF CapsOf, Counted, Day, Month
<1>2. CASE k # Month
  <2>1. k = Day(a.day) BY <1>2 DEF CapsOf
  <2>2. k[2] = a.day BY <2>1 DEF Day
  <2> QED BY <1>2, <2>2 DEF Counted
<1> QED BY <1>1, <1>2

LEMMA InsertCore ==
    ASSUME SpendCore, NEW c \in Calls, NEW cost \in Costs \cup {0}, NEW unpriced \in BOOLEAN,
           Insert(c, cost, unpriced) \/ InsertFails(c, cost, unpriced)
    PROVE  SpendCore'
<1> DEFINE e == [call[c] EXCEPT !.pc = "settle", !.cost = cost, !.unpriced = unpriced]
           s == IF Insert(c, cost, unpriced) THEN today ELSE 0
<1>1. call[c] \in Call /\ row[c] \in 0..MaxDay /\ CallOK(call[c], c, row[c], today, leaked) /\ today \in 1..MaxDay
  BY CallFacts
<1>2. Caps(c) = CapsOf(call[c], c) /\ Caps(c) \subseteq Counters BY CallFacts
<1>3. call[c].pc = "sent" /\ (unpriced => cost = 0) BY DEF Insert, InsertFails, Answer, CallAt
<1>4. row[c] = 0 /\ call[c].cost = 0 /\ ~call[c].unpriced /\ call[c].open = Caps(c) BY <1>1, <1>2, <1>3 DEF CallOK
<1>5. /\ e \in Call /\ e.pc = "settle" /\ e.day = call[c].day /\ e.open = Caps(c) /\ e.cost = cost
      /\ e.seed = call[c].seed /\ e.unpriced = unpriced
  BY <1>1, <1>4 DEF Call, Reserved
<1>6. ChangedAt(call, c, e, call') BY DEF Insert, InsertFails, Answer, Set, ChangedAt
<1>7. s \in 0..MaxDay /\ (s = 0 \/ s = today) BY <1>1, <1>4
<1>8. s = 0 => leaked' = leaked \cup Caps(c)
  <2>1. today # 0 BY <1>1
  <2> QED BY <2>1 DEF InsertFails
<1>9. leaked' = leaked \/ leaked' = leaked \cup Caps(c) BY DEF Insert, InsertFails
<1>10. live \in SUBSET Counters /\ leaked \in SUBSET Counters /\ counter \in [Counters -> Int] /\ row \in [Calls -> 0..MaxDay]
  BY StateTypes
<1>11. ChangedAt(row, c, s, row')
  <2>1. CASE Insert(c, cost, unpriced) BY <2>1 DEF Insert, ChangedAt
  <2>2. CASE ~Insert(c, cost, unpriced)
    <3>1. row' = row BY <2>2 DEF InsertFails
    <3> QED BY <1>4, <1>10, <2>2, <3>1 DEF ChangedAt
  <2> QED BY <2>1, <2>2
<1> HIDE DEF e, s
<1>12. CapsOf(e, c) = Caps(c) /\ Caps(c) # {} BY <1>2, <1>5 DEF CapsOf
<1>13. CallOK(e, c, s, today, leaked')
  <2>1. e.day <= today BY <1>1, <1>5 DEF CallOK
  <2>2. s # 0 => s >= e.day BY <1>7, <2>1
  <2>3. s = 0 => e.open \subseteq leaked' BY <1>5, <1>8
  <2> QED BY <1>3, <1>5, <1>12, <2>1, <2>2, <2>3 DEF CallOK
<1>14. UNCHANGED <<today, flushed, live, counter>> BY DEF Insert, InsertFails
<1>15. Estimate \in Nat \ {0} /\ cost \in Nat BY CostsAre, SpendAssumption DEF SpendAssumption
<1>16. ASSUME NEW k \in Counters
       PROVE  CounterMoves(call[c], e, c, k, 0, s, live, live', counter[k], counter'[k],
                           flushed, leaked', SumPaid(call, row, k))
  <2>1. IsUnder(call[c], c, k) <=> k \in Caps(c) BY <1>2, <1>3 DEF IsUnder, Reserved
  <2>2. IsUnder(e, c, k) <=> k \in Caps(c) BY <1>5, <1>12 DEF IsUnder, Reserved
  <2>3. PaidOf(call[c], 0, c, k) = 0 /\ ExcessOf(call[c], c, k) = 0 BY <1>4, <1>15 DEF PaidOf, Counted, ExcessOf
  <2>4. counter[k] \in Int /\ counter'[k] = counter[k] BY <1>10, <1>14
  <2>5. e.seed[k] <= SumPaid(call, row, k) BY <1>5, CallFacts
  <2>6. k \notin live \cup flushed => ~IsUnder(e, c, k) BY <2>1, <2>2, CallFacts
  <2>7. PaidOf(e, s, c, k) \in Nat BY <1>5, TermsInt
  <2>8. CASE k \in Caps(c)
    <3>1. /\ ChargeOf(call[c], c, k) = Estimate /\ SpendingOf(call[c], c, k) = Estimate
          /\ HeldOf(call[c], c, k) = Estimate
      BY <1>3, <1>4, <1>15, <2>1, <2>8 DEF ChargeOf, SpendingOf, HeldOf, Holds
    <3>2. /\ ChargeOf(e, c, k) = Estimate /\ HeldOf(e, c, k) = Estimate - cost
          /\ SpendingOf(e, c, k) = IF unpriced THEN Estimate ELSE cost
      BY <1>5, <2>2, <2>8 DEF ChargeOf, SpendingOf, HeldOf, Holds
    <3>3. ExcessOf(e, c, k) = IF cost > Estimate THEN cost - Estimate ELSE 0 BY <1>5, <2>2, <2>8 DEF ExcessOf
    <3>4. SpendingOf(e, c, k) - ExcessOf(e, c, k) <= Estimate - 0 BY <1>3, <1>15, <3>2, <3>3
    <3>5. k \notin leaked' => PaidOf(e, s, c, k) = cost
      <4> SUFFICES ASSUME k \notin leaked' PROVE PaidOf(e, s, c, k) = cost OBVIOUS
      <4>1. s = today /\ s \in 1..MaxDay BY <1>1, <1>7, <1>8, <2>8
      <4>2. e.day <= s BY <1>1, <1>5, <4>1 DEF CallOK
      <4>3. Counted(s, c, k) BY <1>5, <1>12, <2>8, <4>1, <4>2, RowCounts
      <4> QED BY <1>5, <4>3 DEF PaidOf
    <3> QED BY <1>14, <1>15, <2>3, <2>4, <2>5, <2>6, <3>1, <3>2, <3>4, <3>5 DEF CounterMoves
  <2>9. CASE k \notin Caps(c)
    <3>1. /\ ChargeOf(call[c], c, k) = 0 /\ SpendingOf(call[c], c, k) = 0 /\ HeldOf(call[c], c, k) = 0
          /\ ChargeOf(e, c, k) = 0 /\ SpendingOf(e, c, k) = 0 /\ HeldOf(e, c, k) = 0 /\ ExcessOf(e, c, k) = 0
      BY <1>4, <1>5, <2>1, <2>2, <2>9 DEF ChargeOf, SpendingOf, HeldOf, Holds, ExcessOf
    <3> QED BY <1>14, <2>3, <2>4, <2>5, <2>6, <2>7, <3>1 DEF CounterMoves
  <2> QED BY <2>8, <2>9
<1>17. Rest'
  <2>1. Rest BY CoreIs
  <2>2. store' = store /\ (faults' = faults \/ (faults < MaxFaults /\ faults' = faults + 1))
    <3>1. CASE Insert(c, cost, unpriced)
      <4>1. UNCHANGED <<store, faults>> BY <3>1 DEF Insert
      <4> QED BY <4>1
    <3>2. CASE InsertFails(c, cost, unpriced) BY <3>2 DEF InsertFails
    <3> QED BY <3>1, <3>2
  <2> QED BY <2>1, <2>2, RestStep
<1>18. leaked' \in SUBSET Counters /\ leaked \subseteq leaked' BY <1>2, <1>9, <1>10
<1> QED BY <1>4, <1>5, <1>6, <1>7, <1>10, <1>11, <1>13, <1>14, <1>16, <1>17, <1>18, CoreIs, CallStep

\* A call whose reservation is given up keeps it on the counters it had not settled.
LEMMA GiveUpCore ==
    ASSUME SpendCore, NEW c \in Calls, NEW pc \in {"done", "dead"}, call[c].pc = "settle" \/ (call[c].pc = "sent" /\ pc = "dead"),
           Set(c, [call[c] EXCEPT !.pc = pc]), leaked' = leaked \cup call[c].open, faults < MaxFaults, faults' = faults + 1,
           UNCHANGED <<store, today, live, counter, row, flushed>>
    PROVE  SpendCore'
<1> DEFINE e == [call[c] EXCEPT !.pc = pc]
<1>1. call[c] \in Call /\ row[c] \in 0..MaxDay /\ CallOK(call[c], c, row[c], today, leaked) BY CallFacts
<1>2. /\ e \in Call /\ e.pc = pc /\ e.day = call[c].day /\ e.open = call[c].open /\ e.cost = call[c].cost
      /\ e.seed = call[c].seed /\ e.unpriced = call[c].unpriced
  BY <1>1 DEF Call, Reserved
<1>3. ChangedAt(call, c, e, call') BY DEF Set, ChangedAt
<1> HIDE DEF e
<1>4. CapsOf(e, c) = CapsOf(call[c], c) BY <1>2 DEF CapsOf
<1>5. CallOK(e, c, row[c], today, leaked') BY <1>1, <1>2 DEF CallOK
<1>6. /\ live \in SUBSET Counters /\ leaked \in SUBSET Counters /\ counter \in [Counters -> Int]
      /\ row \in [Calls -> 0..MaxDay]
  BY StateTypes
<1>7. ASSUME NEW k \in Counters
      PROVE  CounterMoves(call[c], e, c, k, row[c], row[c], live, live', counter[k], counter'[k],
                          flushed, leaked', SumPaid(call, row, k))
  <2>1. IsUnder(e, c, k) <=> IsUnder(call[c], c, k) BY <1>2, <1>4 DEF IsUnder, Reserved
  <2>2. /\ ChargeOf(e, c, k) = ChargeOf(call[c], c, k) /\ ExcessOf(e, c, k) = ExcessOf(call[c], c, k)
        /\ PaidOf(e, row[c], c, k) = PaidOf(call[c], row[c], c, k)
    BY <1>2, <2>1 DEF ChargeOf, ExcessOf, PaidOf
  <2>3. k \notin leaked' => HeldOf(e, c, k) = HeldOf(call[c], c, k) BY <1>2, <2>1 DEF HeldOf, Holds
  <2>4. SpendingOf(e, c, k) <= SpendingOf(call[c], c, k)
    <3>1. call[c].pc = "sent" => call[c].cost = 0 BY <1>1 DEF CallOK
    <3>2. call[c].cost \in Nat /\ Estimate \in Nat /\ call[c].unpriced \in BOOLEAN BY <1>1, TermsInt
    <3> QED BY <1>2, <2>1, <3>1, <3>2 DEF SpendingOf
  <2>5. counter[k] \in Int /\ counter'[k] = counter[k] BY <1>6
  <2>6. e.seed[k] <= SumPaid(call, row, k) BY <1>2, CallFacts
  <2>7. k \notin live \cup flushed => ~IsUnder(e, c, k) BY <2>1, CallFacts
  <2>8. /\ ChargeOf(call[c], c, k) \in Nat /\ SpendingOf(call[c], c, k) \in Nat /\ SpendingOf(e, c, k) \in Nat
        /\ ExcessOf(call[c], c, k) \in Nat
    BY <1>1, <1>2, TermsInt
  <2>9. PaidOf(call[c], row[c], c, k) \in Nat /\ HeldOf(call[c], c, k) \in Int BY <1>1, TermsInt
  <2> QED BY <2>2, <2>3, <2>4, <2>5, <2>6, <2>7, <2>8, <2>9 DEF CounterMoves
<1>8. ChangedAt(row, c, row[c], row') BY <1>6 DEF ChangedAt
<1>9. Rest' BY CoreIs, RestStep
<1>10. call[c].open \in SUBSET Counters BY <1>1 DEF Call
<1>11. leaked' \in SUBSET Counters /\ leaked \subseteq leaked' BY <1>6, <1>10
<1> QED BY <1>1, <1>2, <1>3, <1>5, <1>6, <1>7, <1>8, <1>9, <1>11, CoreIs, CallStep

LEMMA SettleCore == ASSUME SpendCore, NEW c \in Calls, Settle(c) PROVE SpendCore'
<1> DEFINE keys == SettledTogether(c)
           left == call[c].open \ keys
           e == [call[c] EXCEPT !.open = left, !.pc = IF left = {} THEN "done" ELSE @]
<1>1. call[c] \in Call /\ row[c] \in 0..MaxDay /\ CallOK(call[c], c, row[c], today, leaked) BY CallFacts
<1>2. Caps(c) = CapsOf(call[c], c) /\ Caps(c) \subseteq Counters BY CallFacts
<1>3. call[c].pc = "settle" BY DEF Settle, CallAt
<1>4. /\ call[c].open # {} /\ call[c].open \subseteq Caps(c) /\ (row[c] = 0 => call[c].open \subseteq leaked)
  BY <1>1, <1>2, <1>3 DEF CallOK
<1>5. keys \subseteq call[c].open
  <2>1. CASE store = "postgres" BY <2>1 DEF SettledTogether
  <2>2. CASE store # "postgres" /\ Day(call[c].day) \in call[c].open BY <2>2 DEF SettledTogether
  <2>3. CASE store # "postgres" /\ Day(call[c].day) \notin call[c].open
    <3>1. keys = {Month} BY <2>3 DEF SettledTogether
    <3>2. Month \in call[c].open BY <1>2, <1>4, <2>3 DEF CapsOf
    <3> QED BY <3>1, <3>2
  <2> QED BY <2>1, <2>2, <2>3
<1>6. counter' = [k \in Counters |-> IF k \in keys \cap live THEN counter[k] + Delta(c) ELSE counter[k]]
  BY DEF Settle, Add
<1>7. ChangedAt(call, c, e, call') BY DEF Settle, Set, ChangedAt
<1>8. call[c].open \in SUBSET Counters /\ left \in SUBSET Counters BY <1>1 DEF Call
<1> HIDE DEF keys
<1>9. /\ e \in Call /\ e.pc = (IF left = {} THEN "done" ELSE "settle") /\ e.day = call[c].day /\ e.open = left
      /\ e.cost = call[c].cost /\ e.seed = call[c].seed /\ e.unpriced = call[c].unpriced
  <2> HIDE DEF left
  <2> QED BY <1>1, <1>3, <1>8 DEF Call, Reserved
<1> HIDE DEF e
<1>10. CapsOf(e, c) = Caps(c) BY <1>2, <1>9 DEF CapsOf
<1>11. CallOK(e, c, row[c], today, leaked)
  <2>1. left \subseteq Caps(c) /\ (row[c] = 0 => left \subseteq leaked) BY <1>4
  <2> HIDE DEF left
  <2> QED BY <1>1, <1>3, <1>9, <1>10, <2>1 DEF CallOK
<1>12. /\ live \in SUBSET Counters /\ leaked \in SUBSET Counters /\ counter \in [Counters -> Int]
       /\ row \in [Calls -> 0..MaxDay]
  BY StateTypes
<1>13. /\ call[c].cost \in Nat /\ Estimate \in Nat /\ call[c].unpriced \in BOOLEAN
       /\ Delta(c) = IF call[c].unpriced THEN 0 ELSE call[c].cost - Estimate
  BY <1>1, TermsInt DEF Delta
<1>14. ASSUME NEW k \in Counters PROVE counter'[k] \in Int /\ counter[k] \in Int BY <1>6, <1>12, <1>13
<1>15. counter' \in [Counters -> Int] BY <1>6, <1>14
<1>16. UNCHANGED <<today, flushed, live, leaked>> /\ row' = row BY DEF Settle
<1>17. ASSUME NEW k \in Counters
       PROVE  CounterMoves(call[c], e, c, k, row[c], row[c], live, live', counter[k], counter'[k],
                           flushed, leaked', SumPaid(call, row, k))
  <2>1. IsUnder(call[c], c, k) <=> k \in Caps(c) BY <1>2, <1>3 DEF IsUnder, Reserved
  <2>2. IsUnder(e, c, k) <=> k \in Caps(c) BY <1>9, <1>10 DEF IsUnder, Reserved
  <2>3. /\ ExcessOf(e, c, k) = ExcessOf(call[c], c, k) /\ SpendingOf(e, c, k) = SpendingOf(call[c], c, k)
        /\ PaidOf(e, row[c], c, k) = PaidOf(call[c], row[c], c, k)
    BY <1>3, <1>9, <2>1, <2>2 DEF ExcessOf, SpendingOf, PaidOf
  <2>4. e.seed[k] <= SumPaid(call, row, k) BY <1>9, CallFacts
  <2>5. k \notin live \cup flushed => ~IsUnder(e, c, k) BY <2>1, <2>2, CallFacts
  <2>6. SpendingOf(call[c], c, k) \in Nat /\ ExcessOf(call[c], c, k) \in Nat BY <1>1, TermsInt
  <2>7. PaidOf(call[c], row[c], c, k) \in Nat BY <1>1, TermsInt
  <2>8. CASE k \in keys
    <3>1. k \in call[c].open /\ k \in Caps(c) /\ k \notin left BY <1>4, <1>5, <2>8
    <3>2. ChargeOf(call[c], c, k) = Estimate /\ HeldOf(call[c], c, k) = Estimate - call[c].cost
      BY <1>3, <2>1, <3>1 DEF ChargeOf, HeldOf, Holds
    <3>3. IF call[c].unpriced THEN ChargeOf(e, c, k) = Estimate /\ HeldOf(e, c, k) = Estimate - call[c].cost
          ELSE ChargeOf(e, c, k) = call[c].cost /\ HeldOf(e, c, k) = 0
      BY <1>9, <1>13, <2>2, <3>1 DEF ChargeOf, HeldOf, Holds
    <3>4. k \in live => counter'[k] = counter[k] + Delta(c) BY <1>6, <2>8
    <3> QED BY <1>13, <1>14, <1>16, <2>3, <2>4, <2>5, <2>6, <2>7, <3>2, <3>3, <3>4 DEF CounterMoves
  <2>9. CASE k \notin keys
    <3>1. k \in left <=> k \in call[c].open BY <2>9
    <3>2. ChargeOf(e, c, k) = ChargeOf(call[c], c, k) BY <1>9, <2>1, <2>2, <3>1 DEF ChargeOf
    <3>3. HeldOf(e, c, k) = HeldOf(call[c], c, k) BY <1>3, <1>9, <2>1, <2>2, <3>1 DEF HeldOf, Holds
    <3>4. counter'[k] = counter[k] BY <1>6, <2>9
    <3>5. ChargeOf(call[c], c, k) \in Nat /\ HeldOf(call[c], c, k) \in Int BY <1>1, TermsInt
    <3> QED BY <1>14, <1>16, <2>3, <2>4, <2>5, <2>6, <2>7, <3>2, <3>3, <3>4, <3>5 DEF CounterMoves
  <2> QED BY <2>8, <2>9
<1>18. ChangedAt(row, c, row[c], row') BY <1>12, <1>16 DEF ChangedAt
<1>19. Rest' BY CoreIs DEF Settle, Rest
<1> QED BY <1>1, <1>7, <1>9, <1>11, <1>12, <1>15, <1>16, <1>17, <1>18, <1>19, CoreIs, CallStep

-----------------------------------------------------------------------------
(* The other steps, and the theorems *)

LEMMA FlushCore == ASSUME SpendCore, Flush PROVE SpendCore'
<1>1. Core(today, live, counter, call, row, flushed, leaked) BY CoreIs
<1>2. /\ Types(today, live, counter, call, row, flushed, leaked)
      /\ \A c \in Calls : CallOK(call[c], c, row[c], today, leaked)
      /\ \A k \in Counters : CounterOK(call, row, k, live, counter[k], flushed, leaked)
  BY <1>1 DEF Core
<1>3. /\ flushed' = flushed \cup live /\ live' = {} /\ counter' = [k \in Counters |-> 0]
      /\ UNCHANGED <<store, today, call, row, leaked>>
  BY DEF Flush
<1>4. Types(today', live', counter', call', row', flushed', leaked') BY <1>2, <1>3 DEF Types
<1>5. \A c \in Calls : CallOK(call'[c], c, row'[c], today', leaked') BY <1>2, <1>3
<1>6. ASSUME NEW k \in Counters PROVE CounterOK(call, row, k, {}, 0, flushed', leaked)
  <2>1. CounterOK(call, row, k, live, counter[k], flushed, leaked) BY <1>2
  <2> QED BY <1>3, <2>1 DEF CounterOK
<1>7. \A k \in Counters : CounterOK(call', row', k, live', counter'[k], flushed', leaked') BY <1>3, <1>6
<1>8. Rest'
  <2>1. faults < MaxFaults /\ faults' = faults + 1 BY DEF Flush
  <2> QED BY <1>3, <2>1, CoreIs, RestStep
<1> QED BY <1>4, <1>5, <1>7, <1>8, CoreIsPrimed DEF Core

LEMMA NewDayCore == ASSUME SpendCore, NewDay PROVE SpendCore'
<1>1. Core(today, live, counter, call, row, flushed, leaked) BY CoreIs
<1>2. /\ Types(today, live, counter, call, row, flushed, leaked)
      /\ \A c \in Calls : CallOK(call[c], c, row[c], today, leaked)
      /\ \A k \in Counters : CounterOK(call, row, k, live, counter[k], flushed, leaked)
  BY <1>1 DEF Core
<1>3. MaxDay \in Nat BY SpendAssumption DEF SpendAssumption
<1>4. today < MaxDay /\ today' = today + 1 /\ UNCHANGED <<store, live, counter, call, row, flushed, leaked, faults>>
  BY DEF NewDay
<1>5. today \in 1..MaxDay BY <1>2 DEF Types
<1>6. today' \in 1..MaxDay BY <1>3, <1>4, <1>5
<1>7. Types(today', live', counter', call', row', flushed', leaked') BY <1>2, <1>4, <1>6 DEF Types
<1>8. ASSUME NEW c \in Calls PROVE CallOK(call'[c], c, row'[c], today', leaked')
  <2>1. CallOK(call[c], c, row[c], today, leaked) BY <1>2
  <2>2. call[c].day \in 1..MaxDay BY <1>2 DEF Types, Call
  <2>3. call[c].day <= today' BY <1>4, <1>5, <2>1, <2>2 DEF CallOK
  <2> QED BY <1>4, <2>1, <2>3 DEF CallOK
<1>9. \A k \in Counters : CounterOK(call', row', k, live', counter'[k], flushed', leaked') BY <1>2, <1>4
<1>10. Rest' BY <1>4, CoreIs DEF Rest
<1> QED BY <1>7, <1>8, <1>9, <1>10, CoreIsPrimed DEF Core

LEMMA CallCore == ASSUME SpendCore, NEW c \in Calls, Step(c) \/ Fault(c) PROVE SpendCore'
<1>1. CASE Begin(c) BY <1>1, BeginCore
<1>2. CASE FindMissing(c) BY <1>2, FindMissingCore
<1>3. CASE RefuseCall(c) \/ Outage(c) BY <1>3, AnswerCore
<1>4. CASE Reserve(c) BY <1>4, ReserveCore
<1>5. CASE SetSeed(c) BY <1>5, SetSeedCore
<1>6. CASE \E k \in Counters : ReadSeed(c, k) BY <1>6, ReadSeedCore
<1>7. CASE \E cost \in Costs \cup {0}, unpriced \in BOOLEAN :
                Insert(c, cost, unpriced) \/ InsertFails(c, cost, unpriced)
  BY <1>7, InsertCore
<1>8. CASE Settle(c) BY <1>8, SettleCore
<1>9. CASE LoseAnswer(c) BY <1>9, LoseAnswerCore
<1>10. CASE SettleFails(c)
  <2>1. call[c].pc = "settle" /\ Set(c, [call[c] EXCEPT !.pc = "done"]) BY <1>10 DEF SettleFails, CallAt
  <2>2. /\ leaked' = leaked \cup call[c].open /\ faults < MaxFaults /\ faults' = faults + 1
        /\ UNCHANGED <<store, today, live, counter, row, flushed>>
    BY <1>10 DEF SettleFails
  <2> QED BY <2>1, <2>2, GiveUpCore
<1>11. CASE CallDies(c)
  <2>1. call[c].pc \in {"sent", "settle"} /\ Set(c, [call[c] EXCEPT !.pc = "dead"]) BY <1>11 DEF CallDies
  <2>2. /\ leaked' = leaked \cup call[c].open /\ faults < MaxFaults /\ faults' = faults + 1
        /\ UNCHANGED <<store, today, live, counter, row, flushed>>
    BY <1>11 DEF CallDies
  <2> QED BY <2>1, <2>2, GiveUpCore
<1> QED BY <1>1, <1>2, <1>3, <1>4, <1>5, <1>6, <1>7, <1>8, <1>9, <1>10, <1>11 DEF Step, Fault

LEMMA NextCore == SpendCore /\ [SpendNext]_spendVars => SpendCore'
<1> SUFFICES ASSUME SpendCore, [SpendNext]_spendVars PROVE SpendCore' OBVIOUS
<1>1. CASE NewDay BY <1>1, NewDayCore
<1>2. CASE Flush BY <1>2, FlushCore
<1>3. CASE \E c \in Calls : Step(c) \/ Fault(c) BY <1>3, CallCore
<1>4. CASE UNCHANGED spendVars
  <2>1. /\ today' = today /\ live' = live /\ counter' = counter /\ call' = call /\ row' = row
        /\ flushed' = flushed /\ leaked' = leaked /\ store' = store /\ faults' = faults
    BY <1>4 DEF spendVars
  <2> QED BY <2>1, CoreIs, CoreIsPrimed DEF Rest
<1> QED BY <1>1, <1>2, <1>3, <1>4 DEF SpendNext

\* Once they all ended, only the calls without a price hold an estimate.
LEMMA CoreImplies == SpendCore => CountersInv
<1> SUFFICES ASSUME SpendCore PROVE CountersInv OBVIOUS
<1>1. ASSUME NEW k \in live \ (flushed \cup leaked), \A c \in Calls : k \in Caps(c) => call[c].pc \in Ended \cup {"new"}
      PROVE  counter[k] <= Spent(RowsOf(k)) + SumFunctionOnSet(AboveRow, Unpriced(k))
  <2>1. Holders(k) = Unpriced(k)
    <3> SUFFICES ASSUME NEW c \in Calls, call[c].pc \in {"sent", "settle"}, k \in call[c].open PROVE FALSE BY DEF Holders
    <3>1. k \in Caps(c) BY DEF SpendCore, CallsFollow
    <3> QED BY <1>1, <3>1 DEF Ended, Refused
  <2> QED BY <2>1 DEF SpendCore, HeldOnly
<1>2. NothingLeft BY <1>1 DEF NothingLeft
<1> QED BY <1>2 DEF SpendCore, CountersInv

\* "a seed always includes every row committed before it", "a failed call settles to 0 =
\* released", "An unknown price keeps the reserved estimate": whatever calls run at once, in
\* either store, no counter is below what its calls hold or, once they ended, above their rows
\* and the estimates of the calls whose price is not known.
THEOREM CountersAreTrue == SpendSpec => []CountersInv
<1>1. SpendInit => SpendCore BY InitCore
<1>2. SpendCore /\ [SpendNext]_spendVars => SpendCore' BY NextCore
<1>3. SpendCore => CountersInv BY CoreImplies
<1> QED BY <1>1, <1>2, <1>3, PTL DEF SpendSpec

\* "concurrent calls cannot overshoot a cap by more than the difference between one call's
\* estimate and its actual cost", for any number of calls, estimates, costs and limits.
THEOREM CapsHold == SpendSpec => []WithinCap
<1>1. SpendInit => SpendCore BY InitCore
<1>2. SpendCore /\ [SpendNext]_spendVars => SpendCore' BY NextCore
<1>3. SpendCore => WithinCap BY DEF SpendCore
<1> QED BY <1>1, <1>2, <1>3, PTL DEF SpendSpec

-----------------------------------------------------------------------------
(* RunRequests: every order of requests, deliveries and deaths keeps the   *)
(* one run of a key, and starts what it says it started.                   *)

USE RequestAssumption

LEMMA InitInv == Init => RequestInv
  <1> SUFFICES ASSUME Init PROVE RequestInv OBVIOUS
  <1>1. \A p \in Procs : proc[p] = Idle
    BY DEF Init
  <1>2. TypeOK
    BY DEF Init, TypeOK, Status, Idle, Phases
  <1>3. OneRunPerKey /\ DispatchedMeansStarted
    BY DEF Init, OneRunPerKey, DispatchedMeansStarted
  <1>4. ClaimsHeld /\ RowsHeld
    BY <1>1 DEF ClaimsHeld, RowsHeld, Holding, Idle
  <1> QED BY <1>2, <1>3, <1>4 DEF RequestInv

-----------------------------------------------------------------------------
(* Where a process goes *)

\* A process that ends leaves the others where they are.
LEMMA EndsMoves ==
  ASSUME TypeOK, NEW p \in Procs, Ends(p)
  PROVE  /\ proc' \in [Procs -> [pc : Phases, key : Keys \cup {None}, run : Runs \cup {None}]]
         /\ proc'[p].pc = "idle" /\ proc'[p].key = None
         /\ \A q \in Procs : q # p => proc'[q] = proc[q]
  BY DEF TypeOK, Ends, Idle, Phases

\* So does one that goes on with a run, and it holds no key.
LEMMA AtMoves ==
  ASSUME TypeOK, NEW p \in Procs, NEW pc \in Phases, NEW i \in Runs, At(p, pc, i)
  PROVE  /\ proc' \in [Procs -> [pc : Phases, key : Keys \cup {None}, run : Runs \cup {None}]]
         /\ proc'[p].pc = pc /\ proc'[p].key = None /\ proc'[p].run = i
         /\ \A q \in Procs : q # p => proc'[q] = proc[q]
  BY DEF TypeOK, At

\* A process without a key does not disturb the claims of the others.
LEMMA ClaimsKept ==
  ASSUME ClaimsHeld, NEW p \in Procs, UNCHANGED record,
         proc'[p].key = None, proc'[p].pc # "claimed",
         \A q \in Procs : q # p => proc'[q] = proc[q]
  PROVE  ClaimsHeld'
  BY DEF ClaimsHeld

-----------------------------------------------------------------------------
(* The request *)

LEMMA ClaimKeyInv ==
  ASSUME RequestInv, NEW p \in Callers, NEW k \in Keys, ClaimKey(p, k)
  PROVE  RequestInv'
  <1> p \in Procs BY DEF Procs
  <1>1. /\ proc' = [proc EXCEPT ![p] = [pc |-> "claimed", key |-> k, run |-> None]]
        /\ UNCHANGED <<record, madeFor, status, cancelled, outbox, due, workflow, events, stranded>>
        /\ record[k] = None /\ \A q \in Procs : proc[q].key # k
    BY DEF ClaimKey, MayClaim
  <1>2. /\ proc' \in [Procs -> [pc : Phases, key : Keys \cup {None}, run : Runs \cup {None}]]
        /\ proc'[p].pc = "claimed" /\ proc'[p].key = k
        /\ \A q \in Procs : q # p => proc'[q] = proc[q]
    BY <1>1 DEF RequestInv, TypeOK, Phases
  <1>3. TypeOK'
    BY <1>1, <1>2 DEF RequestInv, TypeOK
  <1>4. OneRunPerKey' /\ DispatchedMeansStarted'
    BY <1>1 DEF RequestInv, OneRunPerKey, DispatchedMeansStarted
  <1>5. ClaimsHeld'
    BY <1>1, <1>2 DEF RequestInv, ClaimsHeld
  <1>6. RowsHeld'
    BY <1>1, <1>2 DEF RequestInv, RowsHeld, Holding
  <1> QED BY <1>3, <1>4, <1>5, <1>6 DEF RequestInv

\* A process that stops where it is: a refused request, a death, a delivery of nothing.
LEMMA StopInv ==
  ASSUME RequestInv, NEW p \in Procs, Ends(p),
         UNCHANGED <<record, madeFor, status, cancelled, outbox, due, workflow>>,
         events' \in 0..MaxEvents, stranded' \in SUBSET Runs
  PROVE  RequestInv'
  <1>1. /\ proc' \in [Procs -> [pc : Phases, key : Keys \cup {None}, run : Runs \cup {None}]]
        /\ proc'[p].pc = "idle" /\ proc'[p].key = None
        /\ \A q \in Procs : q # p => proc'[q] = proc[q]
    BY EndsMoves DEF RequestInv
  <1>2. TypeOK'
    BY <1>1 DEF RequestInv, TypeOK
  <1>3. OneRunPerKey' /\ DispatchedMeansStarted'
    BY DEF RequestInv, OneRunPerKey, DispatchedMeansStarted
  <1>4. ClaimsHeld'
    BY <1>1, ClaimsKept DEF RequestInv
  <1>5. RowsHeld'
    BY <1>1 DEF RequestInv, RowsHeld, Holding
  <1> QED BY <1>2, <1>3, <1>4, <1>5 DEF RequestInv

LEMMA CreateRunInv ==
  ASSUME RequestInv, NEW p \in Callers, NEW i \in Runs, CreateRun(p, i)
  PROVE  RequestInv'
  <1> p \in Procs BY DEF Procs
  <1> DEFINE k == proc[p].key
  <1>1. /\ proc[p].pc = "claimed" /\ At(p, "delivering", i)
        /\ status' = [status EXCEPT ![i] = "NEW"]
        /\ madeFor' = [madeFor EXCEPT ![i] = k]
        /\ record' = [record EXCEPT ![k] = i]
        /\ outbox' = [outbox EXCEPT ![i] = "pending"]
        /\ due' = due \cup {i} /\ UNCHANGED <<cancelled, workflow, events, stranded>>
    BY DEF CreateRun
  <1>2. k \in Keys /\ record[k] = None
    BY <1>1 DEF RequestInv, ClaimsHeld
  <1>3. \A q \in Procs : q # p => proc[q].key # k
    BY <1>2 DEF RequestInv, ClaimsHeld
  <1>4. /\ proc' \in [Procs -> [pc : Phases, key : Keys \cup {None}, run : Runs \cup {None}]]
        /\ proc'[p].pc = "delivering" /\ proc'[p].key = None /\ proc'[p].run = i
        /\ \A q \in Procs : q # p => proc'[q] = proc[q]
    BY <1>1, AtMoves DEF RequestInv, Phases
  <1> HIDE DEF k
  <1>5. TypeOK'
    BY <1>1, <1>2, <1>4 DEF RequestInv, TypeOK, Status
  <1>6. OneRunPerKey'
    BY <1>1, <1>2 DEF RequestInv, OneRunPerKey, TypeOK
  <1>7. DispatchedMeansStarted'
    BY <1>1 DEF RequestInv, DispatchedMeansStarted, TypeOK
  <1>8. ClaimsHeld'
    <2>1. \A q \in Procs : q # p /\ proc[q].key # None => record'[proc[q].key] = record[proc[q].key]
      BY <1>1, <1>2, <1>3 DEF RequestInv, TypeOK
    <2> QED BY <1>4, <2>1 DEF RequestInv, ClaimsHeld
  <1>9. RowsHeld'
    <2>1. \A j \in Runs : outbox[j] = "pending" => outbox'[j] = "pending"
      BY <1>1 DEF RequestInv, TypeOK
    <2> QED BY <1>1, <1>4, <2>1 DEF RequestInv, RowsHeld, Holding
  <1> QED BY <1>5, <1>6, <1>7, <1>8, <1>9 DEF RequestInv

-----------------------------------------------------------------------------
(* The delivery *)

LEMMA CancelRowInv ==
  ASSUME RequestInv, NEW p \in Procs, CancelRow(p)
  PROVE  RequestInv'
  <1> DEFINE i == proc[p].run
  <1>1. /\ proc[p].pc = "delivering" /\ RowIsFree(i)
        /\ outbox' = [outbox EXCEPT ![i] = "cancelled"]
        /\ Ends(p) \/ At(p, "cancelling", i)
        /\ UNCHANGED <<record, madeFor, status, cancelled, due, workflow, events, stranded>>
    BY DEF CancelRow
  <1>2. i \in Runs
    BY <1>1 DEF RequestInv, RowsHeld
  <1>3. /\ proc' \in [Procs -> [pc : Phases, key : Keys \cup {None}, run : Runs \cup {None}]]
        /\ proc'[p].key = None
        /\ proc'[p].pc = "idle" \/ (proc'[p].pc = "cancelling" /\ proc'[p].run = i)
        /\ \A q \in Procs : q # p => proc'[q] = proc[q]
    BY <1>1, <1>2, EndsMoves, AtMoves DEF RequestInv, Phases
  <1>4. \A q \in Procs : proc[q].pc \in Holding => proc[q].run # i
    BY <1>1 DEF RowIsFree, Holding
  <1> HIDE DEF i
  <1>5. TypeOK'
    BY <1>1, <1>2, <1>3 DEF RequestInv, TypeOK
  <1>6. OneRunPerKey' /\ DispatchedMeansStarted'
    BY <1>1, <1>2 DEF RequestInv, OneRunPerKey, DispatchedMeansStarted, TypeOK
  <1>7. ClaimsHeld'
    BY <1>1, <1>3, ClaimsKept DEF RequestInv
  <1>8. RowsHeld'
    <2>1. \A j \in Runs : j # i => outbox'[j] = outbox[j]
      BY <1>1 DEF RequestInv, TypeOK
    <2> QED BY <1>1, <1>2, <1>3, <1>4, <2>1 DEF RequestInv, RowsHeld, Holding
  <1> QED BY <1>5, <1>6, <1>7, <1>8 DEF RequestInv

LEMMA FinishCancelledInv ==
  ASSUME RequestInv, NEW p \in Procs, FinishCancelled(p)
  PROVE  RequestInv'
  <1>1. /\ Ends(p) /\ status' \in [Runs -> Status]
        /\ UNCHANGED <<record, madeFor, cancelled, outbox, due, workflow, events, stranded>>
    BY DEF RequestInv, TypeOK, FinishCancelled, Status, Terminal
  <1>2. /\ proc' \in [Procs -> [pc : Phases, key : Keys \cup {None}, run : Runs \cup {None}]]
        /\ proc'[p].pc = "idle" /\ proc'[p].key = None
        /\ \A q \in Procs : q # p => proc'[q] = proc[q]
    BY <1>1, EndsMoves DEF RequestInv
  <1>3. TypeOK'
    BY <1>1, <1>2 DEF RequestInv, TypeOK
  <1>4. OneRunPerKey' /\ DispatchedMeansStarted'
    BY <1>1 DEF RequestInv, OneRunPerKey, DispatchedMeansStarted
  <1>5. ClaimsHeld'
    BY <1>1, <1>2, ClaimsKept DEF RequestInv
  <1>6. RowsHeld'
    BY <1>1, <1>2 DEF RequestInv, RowsHeld, Holding
  <1> QED BY <1>3, <1>4, <1>5, <1>6 DEF RequestInv

LEMMA LockRowInv ==
  ASSUME RequestInv, NEW p \in Procs, LockRow(p)
  PROVE  RequestInv'
  <1> DEFINE i == proc[p].run
  <1>1. /\ proc[p].pc = "delivering" /\ RowIsFree(i) /\ outbox[i] = "pending" /\ At(p, "locked", i)
        /\ UNCHANGED <<record, madeFor, status, cancelled, outbox, due, workflow, events, stranded>>
    BY DEF LockRow
  <1>2. i \in Runs
    BY <1>1 DEF RequestInv, RowsHeld
  <1>3. /\ proc' \in [Procs -> [pc : Phases, key : Keys \cup {None}, run : Runs \cup {None}]]
        /\ proc'[p].pc = "locked" /\ proc'[p].key = None /\ proc'[p].run = i
        /\ \A q \in Procs : q # p => proc'[q] = proc[q]
    BY <1>1, <1>2, AtMoves DEF RequestInv, Phases
  <1>4. \A q \in Procs : proc[q].pc \in Holding => proc[q].run # i
    BY <1>1 DEF RowIsFree, Holding
  <1> HIDE DEF i
  <1>5. TypeOK'
    BY <1>1, <1>3 DEF RequestInv, TypeOK
  <1>6. OneRunPerKey' /\ DispatchedMeansStarted'
    BY <1>1 DEF RequestInv, OneRunPerKey, DispatchedMeansStarted
  <1>7. ClaimsHeld'
    BY <1>1, <1>3, ClaimsKept DEF RequestInv
  <1>8. RowsHeld'
    BY <1>1, <1>2, <1>3, <1>4 DEF RequestInv, RowsHeld, Holding
  <1> QED BY <1>5, <1>6, <1>7, <1>8 DEF RequestInv

LEMMA StartRunInv ==
  ASSUME RequestInv, NEW p \in Procs, StartRun(p)
  PROVE  RequestInv'
  <1> DEFINE i == proc[p].run
  <1>1. /\ proc[p].pc = "locked" /\ At(p, "started", i)
        /\ workflow' = [workflow EXCEPT ![i] = "open"]
        /\ UNCHANGED <<record, madeFor, status, cancelled, outbox, due, events, stranded>>
    BY DEF StartRun, Start
  <1>2. i \in Runs
    BY <1>1 DEF RequestInv, RowsHeld, Holding
  <1>3. /\ proc' \in [Procs -> [pc : Phases, key : Keys \cup {None}, run : Runs \cup {None}]]
        /\ proc'[p].pc = "started" /\ proc'[p].key = None /\ proc'[p].run = i
        /\ \A q \in Procs : q # p => proc'[q] = proc[q]
    BY <1>1, <1>2, AtMoves DEF RequestInv, Phases
  <1>4. proc[p].run = i
    OBVIOUS
  <1> HIDE DEF i
  <1>5. TypeOK'
    BY <1>1, <1>2, <1>3 DEF RequestInv, TypeOK
  <1>6. OneRunPerKey' /\ DispatchedMeansStarted'
    BY <1>1, <1>2 DEF RequestInv, OneRunPerKey, DispatchedMeansStarted, TypeOK
  <1>7. ClaimsHeld'
    BY <1>1, <1>3, ClaimsKept DEF RequestInv
  <1>8. RowsHeld'
    <2>1. \A q \in Runs : workflow[q] # "none" => workflow'[q] # "none"
      BY <1>1 DEF RequestInv, TypeOK
    <2>2. workflow'[i] # "none"
      BY <1>1, <1>2 DEF RequestInv, TypeOK
    <2>3. \A q \in Procs :
             /\ proc[q].pc \in Holding \cup {"delivering", "cancelling"} => proc[q].run \in Runs
             /\ proc[q].pc \in Holding => outbox[proc[q].run] = "pending"
             /\ proc[q].pc = "started" => workflow[proc[q].run] # "none"
      BY DEF RequestInv, RowsHeld
    <2>4. \A q \in Procs : /\ proc'[q].run = proc[q].run
                           /\ q # p => proc'[q].pc = proc[q].pc
      BY <1>3, <1>4
    <2>5. proc[p].pc \in Holding /\ proc'[p].pc = "started" /\ proc'[p].pc \in Holding
      BY <1>1, <1>3 DEF Holding
    <2>6. \A q \in Procs : /\ proc'[q].pc \in Holding <=> proc[q].pc \in Holding
                           /\ proc'[q].pc \in {"delivering", "cancelling"} => proc[q].pc \in {"delivering", "cancelling"}
      BY <2>4, <2>5
    <2>7. \A q \in Procs :
             /\ proc'[q].pc \in Holding \cup {"delivering", "cancelling"} => proc'[q].run \in Runs
             /\ proc'[q].pc \in Holding => outbox'[proc'[q].run] = "pending"
      BY <1>1, <2>3, <2>4, <2>6
    <2>8. \A q \in Procs : proc'[q].pc = "started" => workflow'[proc'[q].run] # "none"
      BY <1>2, <1>4, <2>1, <2>2, <2>3, <2>4 DEF Holding
    <2>9. \A q, r \in Procs :
             proc'[q].pc \in Holding /\ proc'[r].pc \in Holding /\ proc'[q].run = proc'[r].run => q = r
      <3>1. \A q, r \in Procs :
               proc[q].pc \in Holding /\ proc[r].pc \in Holding /\ proc[q].run = proc[r].run => q = r
        BY DEF RequestInv, RowsHeld
      <3> QED BY <2>4, <2>6, <3>1
    <2> QED BY <2>7, <2>8, <2>9 DEF RowsHeld
  <1> QED BY <1>5, <1>6, <1>7, <1>8 DEF RequestInv

LEMMA StartFailsInv ==
  ASSUME RequestInv, NEW p \in Procs, NEW delivered \in BOOLEAN, StartFails(p, delivered)
  PROVE  RequestInv'
  <1> DEFINE i == proc[p].run
  <1>1. /\ proc[p].pc = "locked" /\ Ends(p)
        /\ workflow' = workflow \/ workflow' = [workflow EXCEPT ![i] = "open"]
        /\ due' = due \ {i}
        /\ UNCHANGED <<record, madeFor, status, cancelled, outbox, stranded>>
    BY DEF StartFails, Start, Backoff
  <1>2. i \in Runs
    BY <1>1 DEF RequestInv, RowsHeld, Holding
  <1>3. events' \in 0..MaxEvents
    BY DEF StartFails, Event, RequestInv, TypeOK
  <1>4. /\ proc' \in [Procs -> [pc : Phases, key : Keys \cup {None}, run : Runs \cup {None}]]
        /\ proc'[p].pc = "idle" /\ proc'[p].key = None
        /\ \A q \in Procs : q # p => proc'[q] = proc[q]
    BY <1>1, EndsMoves DEF RequestInv
  <1> HIDE DEF i
  <1>5. /\ workflow' \in [Runs -> {"none", "open", "closed"}]
        /\ \A j \in Runs : workflow[j] # "none" => workflow'[j] # "none"
    BY <1>1, <1>2 DEF RequestInv, TypeOK
  <1>6. TypeOK'
    BY <1>1, <1>3, <1>4, <1>5 DEF RequestInv, TypeOK
  <1>7. OneRunPerKey' /\ DispatchedMeansStarted'
    BY <1>1, <1>5 DEF RequestInv, OneRunPerKey, DispatchedMeansStarted
  <1>8. ClaimsHeld'
    BY <1>1, <1>4, ClaimsKept DEF RequestInv
  <1>9. RowsHeld'
    BY <1>1, <1>4, <1>5 DEF RequestInv, RowsHeld, Holding
  <1> QED BY <1>6, <1>7, <1>8, <1>9 DEF RequestInv

LEMMA MarkDispatchedInv ==
  ASSUME RequestInv, NEW p \in Procs, MarkDispatched(p)
  PROVE  RequestInv'
  <1> DEFINE i == proc[p].run
  <1>1. /\ proc[p].pc = "started" /\ Ends(p)
        /\ outbox' = [outbox EXCEPT ![i] = "dispatched"]
        /\ UNCHANGED <<record, madeFor, status, cancelled, due, workflow, events, stranded>>
    BY DEF MarkDispatched
  <1>2. i \in Runs /\ workflow[i] # "none"
    BY <1>1 DEF RequestInv, RowsHeld, Holding
  <1>3. /\ proc' \in [Procs -> [pc : Phases, key : Keys \cup {None}, run : Runs \cup {None}]]
        /\ proc'[p].pc = "idle" /\ proc'[p].key = None
        /\ \A q \in Procs : q # p => proc'[q] = proc[q]
    BY <1>1, EndsMoves DEF RequestInv
  <1>4. \A q \in Procs : q # p /\ proc[q].pc \in Holding => proc[q].run # i
    BY <1>1 DEF RequestInv, RowsHeld, Holding
  <1> HIDE DEF i
  <1>5. TypeOK'
    BY <1>1, <1>2, <1>3 DEF RequestInv, TypeOK
  <1>6. OneRunPerKey' /\ DispatchedMeansStarted'
    BY <1>1, <1>2 DEF RequestInv, OneRunPerKey, DispatchedMeansStarted, TypeOK
  <1>7. ClaimsHeld'
    BY <1>1, <1>3, ClaimsKept DEF RequestInv
  <1>8. RowsHeld'
    <2>1. outbox \in [Runs -> {"none", "pending", "dispatched", "cancelled"}]
      BY DEF RequestInv, TypeOK
    <2>2. \A q \in Procs : q # p =>
             /\ proc[q].pc \in Holding \cup {"delivering", "cancelling"} => proc[q].run \in Runs
             /\ proc[q].pc \in Holding => outbox[proc[q].run] = "pending" /\ proc[q].run # i
             /\ proc[q].pc = "started" => workflow[proc[q].run] # "none"
      BY <1>4 DEF RequestInv, RowsHeld
    <2>3. \A q \in Procs : q # p /\ proc[q].pc \in Holding => outbox'[proc[q].run] = "pending"
      BY <1>1, <2>1, <2>2 DEF Holding
    <2>4. \A q, r \in Procs :
             proc[q].pc \in Holding /\ proc[r].pc \in Holding /\ proc[q].run = proc[r].run => q = r
      BY DEF RequestInv, RowsHeld
    <2>5. proc'[p].pc \notin Holding \cup {"delivering", "cancelling", "started"}
      BY <1>3 DEF Holding
    <2> QED BY <1>1, <1>3, <2>2, <2>3, <2>4, <2>5 DEF RowsHeld
  <1> QED BY <1>5, <1>6, <1>7, <1>8 DEF RequestInv

-----------------------------------------------------------------------------
(* Housekeeping, and what goes on around it *)

LEMMA RelayInv ==
  ASSUME RequestInv, NEW p \in Schedulers, NEW i \in Runs, Relay(p, i)
  PROVE  RequestInv'
  <1> p \in Procs BY DEF Procs
  <1>1. /\ At(p, "delivering", i)
        /\ UNCHANGED <<record, madeFor, status, cancelled, outbox, due, workflow, events, stranded>>
    BY DEF Relay
  <1>2. /\ proc' \in [Procs -> [pc : Phases, key : Keys \cup {None}, run : Runs \cup {None}]]
        /\ proc'[p].pc = "delivering" /\ proc'[p].key = None /\ proc'[p].run = i
        /\ \A q \in Procs : q # p => proc'[q] = proc[q]
    BY <1>1, AtMoves DEF RequestInv, Phases
  <1>3. TypeOK'
    BY <1>1, <1>2 DEF RequestInv, TypeOK
  <1>4. OneRunPerKey' /\ DispatchedMeansStarted'
    BY <1>1 DEF RequestInv, OneRunPerKey, DispatchedMeansStarted
  <1>5. ClaimsHeld'
    BY <1>1, <1>2, ClaimsKept DEF RequestInv
  <1>6. RowsHeld'
    BY <1>1, <1>2 DEF RequestInv, RowsHeld, Holding
  <1> QED BY <1>3, <1>4, <1>5, <1>6 DEF RequestInv

LEMMA AroundInv ==
  ASSUME RequestInv, NEW i \in Runs, Available(i) \/ Reconcile(i) \/ Cancel(i) \/ Work(i)
  PROVE  RequestInv'
  <1>1. UNCHANGED <<record, madeFor, proc, events, stranded>>
    BY DEF Available, Reconcile, Cancel, Work
  <1>2. /\ outbox' = outbox \/ (outbox[i] = "none" /\ outbox' = [outbox EXCEPT ![i] = "pending"])
        /\ workflow' = workflow \/ (workflow[i] = "open" /\ workflow' = [workflow EXCEPT ![i] = "closed"])
        /\ due' \in SUBSET Runs /\ cancelled' \in SUBSET Runs
    BY DEF Available, Reconcile, Cancel, Work, RequestInv, TypeOK
  <1>3. status' \in [Runs -> Status]
    <2>1. CASE Work(i)
      BY <2>1 DEF Work, RequestInv, TypeOK, Status, Terminal
    <2>2. CASE Available(i) \/ Reconcile(i) \/ Cancel(i)
      BY <2>2 DEF Available, Reconcile, Cancel, RequestInv, TypeOK
    <2> QED BY <2>1, <2>2
  <1>4. /\ workflow' \in [Runs -> {"none", "open", "closed"}]
        /\ \A j \in Runs : workflow[j] # "none" => workflow'[j] # "none"
    BY <1>2 DEF RequestInv, TypeOK
  <1>5. /\ outbox' \in [Runs -> {"none", "pending", "dispatched", "cancelled"}]
        /\ \A j \in Runs : /\ outbox[j] = "pending" => outbox'[j] = "pending"
                           /\ outbox'[j] = "dispatched" => outbox[j] = "dispatched"
    BY <1>2 DEF RequestInv, TypeOK
  <1>6. TypeOK'
    BY <1>1, <1>2, <1>3, <1>4, <1>5 DEF RequestInv, TypeOK
  <1>7. OneRunPerKey' /\ DispatchedMeansStarted'
    BY <1>1, <1>4, <1>5 DEF RequestInv, OneRunPerKey, DispatchedMeansStarted
  <1>8. ClaimsHeld'
    BY <1>1 DEF RequestInv, ClaimsHeld
  <1>9. RowsHeld'
    BY <1>1, <1>4, <1>5 DEF RequestInv, RowsHeld, Holding
  <1> QED BY <1>6, <1>7, <1>8, <1>9 DEF RequestInv

-----------------------------------------------------------------------------

LEMMA StutterInv == RequestInv /\ UNCHANGED vars => RequestInv'
  BY DEF vars, RequestInv, TypeOK, OneRunPerKey, DispatchedMeansStarted, ClaimsHeld, RowsHeld, Holding

LEMMA NextInv == RequestInv /\ [Next]_vars => RequestInv'
  <1> SUFFICES ASSUME RequestInv, [Next]_vars PROVE RequestInv' OBVIOUS
  <1>0. events \in 0..MaxEvents /\ stranded \in SUBSET Runs /\ Callers \subseteq Procs
    BY DEF RequestInv, TypeOK, Procs
  <1>1. ASSUME NEW p \in Callers, NEW k \in Keys, ClaimKey(p, k) PROVE RequestInv'
    BY <1>1, ClaimKeyInv
  <1>2. ASSUME NEW p \in Callers, NEW i \in Runs, CreateRun(p, i) PROVE RequestInv'
    BY <1>2, CreateRunInv
  <1>3. ASSUME NEW p \in Callers, Refuse(p) PROVE RequestInv'
    BY <1>0, <1>3, StopInv DEF Refuse
  <1>4. ASSUME NEW p \in Procs, Dispatch(p) PROVE RequestInv'
    <2>1. CASE Skip(p)
      BY <1>0, <2>1, StopInv DEF Skip
    <2> QED BY <1>4, <2>1, CancelRowInv, FinishCancelledInv, LockRowInv, StartRunInv, MarkDispatchedInv DEF Dispatch
  <1>5. ASSUME NEW p \in Procs, Die(p) PROVE RequestInv'
    <2>1. events' \in 0..MaxEvents
      BY <1>0, <1>5 DEF Die, Event
    <2>2. stranded' \in SUBSET Runs
      BY <1>0, <1>5 DEF Die, RequestInv, TypeOK, RowsHeld
    <2> QED BY <1>5, <2>1, <2>2, StopInv DEF Die
  <1>6. ASSUME NEW p \in Procs, NEW delivered \in BOOLEAN, StartFails(p, delivered) PROVE RequestInv'
    BY <1>6, StartFailsInv
  <1>7. ASSUME NEW p \in Schedulers, NEW i \in Runs, Relay(p, i) PROVE RequestInv'
    BY <1>7, RelayInv
  <1>8. ASSUME NEW i \in Runs, Available(i) \/ Reconcile(i) \/ Cancel(i) \/ Work(i) PROVE RequestInv'
    BY <1>8, AroundInv
  <1> QED BY <1>1, <1>2, <1>3, <1>4, <1>5, <1>6, <1>7, <1>8, StutterInv DEF Next

\* Claims and row locks stay exclusive, and the rows and records agree, in every order of
\* requests, deliveries and deaths.
THEOREM RequestInvariance == Spec => []RequestInv
  BY InitInv, NextInv, PTL DEF Spec

\* Every variable keeps its type (start_run_request, dispatch, relay, reconcile).
THEOREM TypeCorrect == Spec => []TypeOK
  <1>1. RequestInv => TypeOK BY DEF RequestInv
  <1> QED BY <1>1, RequestInvariance, PTL

\* At most one run is created under an idempotency key, for any number of callers and
\* deaths: services/idempotency.py begin_in and complete_in inside start_run_request.
THEOREM OneRunPerKeyAlways == Spec => []OneRunPerKey
  <1>1. RequestInv => OneRunPerKey BY DEF RequestInv
  <1> QED BY <1>1, RequestInvariance, PTL

\* A dispatched row has a workflow: dispatch marks the row only after start_run.
THEOREM DispatchedMeansStartedAlways == Spec => []DispatchedMeansStarted
  <1>1. RequestInv => DispatchedMeansStarted BY DEF RequestInv
  <1> QED BY <1>1, RequestInvariance, PTL

\* Only the holder of a pending row opens a workflow.
LEMMA OpensPending ==
  ASSUME RequestInv, [Next]_vars, NEW i \in Runs, workflow[i] # "open", workflow'[i] = "open"
  PROVE  outbox[i] = "pending"
  <1>1. ASSUME NEW p \in Procs, proc[p].pc = "locked",
               workflow' = workflow \/ workflow' = [workflow EXCEPT ![proc[p].run] = "open"]
        PROVE  outbox[i] = "pending"
    BY <1>1 DEF RequestInv, TypeOK, RowsHeld, Holding
  <1>2. ASSUME NEW p \in Procs, Dispatch(p) PROVE outbox[i] = "pending"
    BY <1>1, <1>2 DEF Dispatch, Skip, CancelRow, FinishCancelled, LockRow, StartRun, Start, MarkDispatched
  <1>3. ASSUME NEW p \in Procs, NEW delivered \in BOOLEAN, StartFails(p, delivered) PROVE outbox[i] = "pending"
    BY <1>1, <1>3 DEF StartFails, Start
  <1>4. ASSUME NEW j \in Runs, Work(j) PROVE FALSE
    BY <1>4 DEF Work, RequestInv, TypeOK
  <1> QED BY <1>2, <1>3, <1>4 DEF Next, vars, ClaimKey, CreateRun, Refuse, Die, Relay, Available, Reconcile, Cancel

\* A row that was cancelled opens no workflow, whoever read it before: dispatch reads the
\* row under its lock, and starts before it lets go.
THEOREM CancelledNeverStartsAlways == Spec => CancelledNeverStarts
  <1>1. RequestInv /\ [Next]_vars =>
          [\A i \in Runs : outbox[i] = "cancelled" /\ workflow[i] # "open" => workflow'[i] # "open"]_vars
    BY OpensPending
  <1> QED BY <1>1, RequestInvariance, PTL DEF Spec, CancelledNeverStarts

=============================================================================
