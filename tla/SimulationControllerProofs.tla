--------------------- MODULE SimulationControllerProofs ---------------------
(***************************************************************************)
(* Theorems about the offline simulator, for any trades, any tape and bars *)
(* that the code's own validation admits, any latency, slippage and depth  *)
(* participation, and a clock without bound.                               *)
(*                                                                         *)
(* The argument: a command is pending from its preparation to its one      *)
(* receipt, and an exit command asks for all that its trade bought, so     *)
(* what a trade holds follows from its state (Stands, Sized).  Depth is    *)
(* the sum of what the receipts took, and a walk that takes from a level   *)
(* leaves the sum below what that level displayed, in a frame that was     *)
(* durable at the last logical arrival (Settled).                          *)
(*                                                                         *)
(* The sums are folds over finite sets.  That they do not depend on the    *)
(* order, and that _walk takes what it should, is proved by induction over *)
(* a set of numbers, which needs only that the naturals are well-founded.  *)
(***************************************************************************)
EXTENDS SimulationController, FiniteSetTheorems, TLAPS

-----------------------------------------------------------------------------
(* Induction, over a set of naturals *)

LEMMA LeastNumber ==
  ASSUME NEW T \in SUBSET Nat, T # {}
  PROVE  \E x \in T : \A y \in T : x <= y
<1> DEFINE R == OpToRel(<, Nat)
<1>1. IsWellFoundedOn(R, Nat)
  BY NatLessThanWellFounded
<1> HIDE DEF R
<1>2. PICK x \in T : \A y \in T : ~ (<<y, x>> \in R)
  BY <1>1, WFMin
<1>3. \A y \in T : <<y, x>> \in R <=> y < x
  BY <1>2 DEF R, OpToRel
<1>4. \A y \in T : y \in Nat /\ ~ (y < x)
  BY <1>2, <1>3
<1>5. \A y \in Nat : ~ (y < x) => x <= y
  BY <1>4
<1> QED
  BY <1>4, <1>5

LEMMA Induction ==
  ASSUME NEW P, 0 \in P, \A n \in Nat : n \in P => n + 1 \in P
  PROVE  \A n \in Nat : n \in P
<1> SUFFICES ASSUME Nat \ P # {} PROVE FALSE
  OBVIOUS
<1>1. PICK x \in Nat \ P : \A y \in Nat \ P : x <= y
  BY LeastNumber
<1>2. x # 0 /\ x - 1 \in Nat /\ ~ (x <= x - 1)
  BY <1>1
<1>3. x - 1 \in P
  BY <1>1, <1>2
<1> QED
  BY <1>1, <1>2, <1>3

-----------------------------------------------------------------------------
(* Sums, of the library, over a finite domain *)

Pick(s) == CHOOSE x \in s : TRUE

\* One step of a partial sum of f over the set s.
Partial(g, f, s) == IF s = {} THEN 0 ELSE f[Pick(s)] + g[s \ {Pick(s)}]

\* A picked element makes a finite set smaller.
LEMMA Picked ==
  ASSUME NEW s, IsFiniteSet(s), s # {}
  PROVE  /\ Pick(s) \in s /\ IsFiniteSet(s \ {Pick(s)})
         /\ Cardinality(s) \in Nat \ {0} /\ Cardinality(s \ {Pick(s)}) = Cardinality(s) - 1
<1>1. Pick(s) \in s
  BY DEF Pick
<1>2. Cardinality(s) \in Nat /\ Cardinality(s) # 0
  BY FS_CardinalityType, FS_EmptySet
<1> QED
  BY <1>1, <1>2, FS_RemoveElement

\* The partial sums exist.
LEMMA PartialSums ==
  ASSUME NEW f, NEW D, IsFiniteSet(D)
  PROVE  \E g : g = [s \in SUBSET D |-> Partial(g, f, s)]
<1> DEFINE Small(n) == {s \in SUBSET D : Cardinality(s) <= n}
           P == {n \in Nat : \E g : g = [s \in Small(n) |-> Partial(g, f, s)]}
<1>1. 0 \in P
  <2> DEFINE g == [s \in Small(0) |-> 0]
  <2>1. \A s \in Small(0) : s = {}
    BY FS_EmptySet, FS_Subset, FS_CardinalityType
  <2>2. g = [s \in Small(0) |-> Partial(g, f, s)]
    BY <2>1 DEF Partial
  <2> QED
    BY <2>2
<1>2. ASSUME NEW n \in Nat, n \in P PROVE n + 1 \in P
  <2> HIDE DEF Small
  <2>1. PICK g : g = [s \in Small(n) |-> Partial(g, f, s)]
    BY <1>2
  <2> DEFINE h == [s \in Small(n + 1) |-> Partial(g, f, s)]
  <2>2. \A s \in Small(n + 1) : s # {} => s \ {Pick(s)} \in Small(n) /\ s \ {Pick(s)} \in Small(n + 1)
    <3> SUFFICES ASSUME NEW s \in Small(n + 1), s # {}
                 PROVE  s \ {Pick(s)} \in Small(n) /\ s \ {Pick(s)} \in Small(n + 1)
      OBVIOUS
    <3>1. s \in SUBSET D /\ IsFiniteSet(s) /\ Cardinality(s) <= n + 1
      BY FS_Subset DEF Small
    <3>2. Cardinality(s) \in Nat /\ Cardinality(s \ {Pick(s)}) = Cardinality(s) - 1
      BY <3>1, Picked
    <3>3. Cardinality(s \ {Pick(s)}) <= n /\ Cardinality(s \ {Pick(s)}) <= n + 1
      BY <3>1, <3>2
    <3> QED
      BY <3>1, <3>3 DEF Small
  <2>3. \A s \in Small(n + 1) : Partial(h, f, s) = Partial(g, f, s)
    <3> SUFFICES ASSUME NEW s \in Small(n + 1) PROVE Partial(h, f, s) = Partial(g, f, s)
      OBVIOUS
    <3>1. CASE s = {}
      BY <3>1 DEF Partial
    <3>2. CASE s # {}
      <4> DEFINE u == s \ {Pick(s)}
      <4>1. u \in Small(n) /\ u \in Small(n + 1)
        BY <2>2, <3>2
      <4> HIDE DEF u
      <4>2. h[u] = Partial(g, f, u) /\ g[u] = Partial(g, f, u)
        BY <4>1, <2>1
      <4> QED
        BY <4>2, <3>2 DEF Partial, u
    <3> QED
      BY <3>1, <3>2
  <2>4. h = [s \in Small(n + 1) |-> Partial(h, f, s)]
    BY <2>3
  <2> HIDE DEF h
  <2> QED
    BY <2>4
<1> HIDE DEF P
<1>3. Cardinality(D) \in Nat
  BY FS_CardinalityType
<1>4. Cardinality(D) \in P
  BY <1>1, <1>2, <1>3, Induction
<1>5. Small(Cardinality(D)) = SUBSET D
  BY <1>3, FS_Subset
<1> QED
  BY <1>4, <1>5 DEF P

\* g holds the partial sums of f over the subsets of D.
Sums(g, f, D) == g = [s \in SUBSET D |-> Partial(g, f, s)]

\* A sum is the last of them.
LEMMA SumPartial ==
  ASSUME NEW f, IsFiniteSet(DOMAIN f)
  PROVE  \E g : Sums(g, f, DOMAIN f) /\ SumFunction(f) = g[DOMAIN f]
<1> DEFINE G == CHOOSE g : g = [s \in SUBSET DOMAIN f |-> Partial(g, f, s)]
<1>1. G = [s \in SUBSET DOMAIN f |-> Partial(G, f, s)]
  BY PartialSums
<1>2. SumFunction(f) = G[DOMAIN f]
  BY DEF SumFunction, SumFunctionOnSet, FoldFunctionOnSet, MapThenFoldSet, Partial, Pick
<1> QED
  BY <1>1, <1>2 DEF Sums

\* Sets by their size.
LEMMA SetSize ==
  ASSUME NEW s, IsFiniteSet(s)
  PROVE  Cardinality(s) \in Nat /\ (Cardinality(s) = 0 <=> s = {})
  BY FS_CardinalityType, FS_EmptySet

\* Partial sums stay in a set that addition does not leave.
LEMMA PartialType ==
  ASSUME NEW T, 0 \in T, \A a, b \in T : a + b \in T,
         NEW D, IsFiniteSet(D), NEW f, \A x \in D : f[x] \in T,
         NEW g, Sums(g, f, D)
  PROVE  \A s \in SUBSET D : g[s] \in T
<1> DEFINE P == {n \in Nat : \A s \in SUBSET D : Cardinality(s) = n => g[s] \in T}
<1>0. ASSUME NEW s \in SUBSET D PROVE IsFiniteSet(s) /\ g[s] = Partial(g, f, s)
  BY FS_Subset DEF Sums
<1>1. 0 \in P
  <2> SUFFICES ASSUME NEW s \in SUBSET D, Cardinality(s) = 0 PROVE g[s] \in T
    OBVIOUS
  <2>1. s = {} /\ g[s] = Partial(g, f, s)
    BY <1>0, SetSize
  <2> QED
    BY <2>1 DEF Partial
<1>2. ASSUME NEW n \in Nat, n \in P PROVE n + 1 \in P
  <2>0. SUFFICES ASSUME NEW s \in SUBSET D, Cardinality(s) = n + 1 PROVE g[s] \in T
    BY <1>2
  <2>1. s # {} /\ IsFiniteSet(s)
    BY <1>0, <2>0, SetSize
  <2>2. Pick(s) \in s /\ s \ {Pick(s)} \in SUBSET D /\ Cardinality(s \ {Pick(s)}) = n
    BY <2>0, <2>1, Picked
  <2>3. g[s] = f[Pick(s)] + g[s \ {Pick(s)}]
    BY <1>0, <2>1 DEF Partial
  <2> QED
    BY <1>2, <2>2, <2>3
<1> HIDE DEF P
<1>3. \A n \in Nat : n \in P
  BY <1>1, <1>2, Induction
<1>4. ASSUME NEW s \in SUBSET D PROVE g[s] \in T
  <2>1. Cardinality(s) \in P
    BY <1>0, <1>3, SetSize
  <2> QED
    BY <2>1 DEF P
<1> QED
  BY <1>4

Integral(f, D) == \A x \in D : f[x] \in Int
AnyFirst(g, f, D) == \A s \in SUBSET D : \A x \in s : g[s] = f[x] + g[s \ {x}]

\* Any element of a set may be taken first.
LEMMA PartialAny ==
  ASSUME NEW D, IsFiniteSet(D), NEW f, Integral(f, D),
         NEW g, Sums(g, f, D)
  PROVE  AnyFirst(g, f, D)
<1> DEFINE Good(s) == \A x \in s : g[s] = f[x] + g[s \ {x}]
           P == {n \in Nat : \A s \in SUBSET D : Cardinality(s) = n => Good(s)}
<1>a. 0 \in Int /\ \A a, b \in Int : a + b \in Int
  OBVIOUS
<1>b. \A s \in SUBSET D : g[s] \in Int
  BY <1>a, PartialType DEF Integral
<1>0. ASSUME NEW s \in SUBSET D PROVE IsFiniteSet(s) /\ g[s] = Partial(g, f, s) /\ g[s] \in Int
  BY <1>b, FS_Subset DEF Sums
<1>1. 0 \in P
  <2> SUFFICES ASSUME NEW s \in SUBSET D, Cardinality(s) = 0 PROVE Good(s)
    OBVIOUS
  <2>1. s = {}
    BY <1>0, SetSize
  <2> QED
    BY <2>1
<1>2. ASSUME NEW n \in Nat, n \in P PROVE n + 1 \in P
  <2>0. SUFFICES ASSUME NEW s \in SUBSET D, Cardinality(s) = n + 1, NEW x \in s
               PROVE  g[s] = f[x] + g[s \ {x}]
    BY <1>2
  <2> DEFINE y == Pick(s)
  <2>1. s # {} /\ IsFiniteSet(s)
    BY <1>0
  <2>2. y \in s /\ s \ {y} \in SUBSET D /\ Cardinality(s \ {y}) = n
    BY <2>0, <2>1, Picked
  <2>3. g[s] = f[y] + g[s \ {y}]
    BY <1>0, <2>1 DEF Partial
  <2> HIDE DEF y
  <2>4. CASE x = y
    BY <2>3, <2>4
  <2>5. CASE x # y
    <3>1. x \in s \ {y} /\ y \in s \ {x} /\ (s \ {y}) \ {x} = (s \ {x}) \ {y}
      BY <2>2, <2>5
    <3>0. Cardinality(s \ {x}) = IF x \in s THEN Cardinality(s) - 1 ELSE Cardinality(s)
      BY <2>1, FS_RemoveElement
    <3>2. s \ {x} \in SUBSET D /\ Cardinality(s \ {x}) = n
      BY <2>0, <3>0
    <3>3. \A u \in SUBSET D : Cardinality(u) = n => Good(u)
      BY <1>2
    <3> HIDE DEF Good
    <3>7. Good(s \ {x}) /\ Good(s \ {y})
      BY <2>2, <3>2, <3>3
    <3>4. g[s \ {x}] = f[y] + g[(s \ {x}) \ {y}] /\ g[s \ {y}] = f[x] + g[(s \ {x}) \ {y}]
      BY <3>1, <3>7 DEF Good
    <3>5. (s \ {x}) \ {y} \in SUBSET D
      OBVIOUS
    <3>6. g[(s \ {x}) \ {y}] \in Int /\ f[x] \in Int /\ f[y] \in Int
      BY <3>5, <1>0, <2>2 DEF Integral
    <3> QED
      BY <2>3, <3>4, <3>6
  <2> QED
    BY <2>4, <2>5
<1> HIDE DEF P
<1>3. \A n \in Nat : n \in P
  BY <1>1, <1>2, Induction
<1>4. ASSUME NEW s \in SUBSET D PROVE Good(s)
  <2>1. Cardinality(s) \in P
    BY <1>0, <1>3, SetSize
  <2> QED
    BY <2>1 DEF P
<1> QED
  BY <1>4 DEF AnyFirst

\* Partial sums depend on the values that they add only.
LEMMA PartialSame ==
  ASSUME NEW D, IsFiniteSet(D), NEW f, NEW g, Sums(g, f, D),
         NEW E \in SUBSET D, NEW e, \A x \in E : e[x] = f[x], NEW h, Sums(h, e, E)
  PROVE  \A s \in SUBSET E : h[s] = g[s]
<1> DEFINE P == {n \in Nat : \A s \in SUBSET E : Cardinality(s) = n => h[s] = g[s]}
<1>0. ASSUME NEW s \in SUBSET E
      PROVE  IsFiniteSet(s) /\ g[s] = Partial(g, f, s) /\ h[s] = Partial(h, e, s)
  BY FS_Subset DEF Sums
<1>1. 0 \in P
  <2> SUFFICES ASSUME NEW s \in SUBSET E, Cardinality(s) = 0 PROVE h[s] = g[s]
    OBVIOUS
  <2>1. s = {}
    BY <1>0, SetSize
  <2> QED
    BY <1>0, <2>1 DEF Partial
<1>2. ASSUME NEW n \in Nat, n \in P PROVE n + 1 \in P
  <2>0. SUFFICES ASSUME NEW s \in SUBSET E, Cardinality(s) = n + 1 PROVE h[s] = g[s]
    BY <1>2
  <2>1. s # {} /\ IsFiniteSet(s)
    BY <1>0, <2>0, SetSize
  <2>2. Pick(s) \in s /\ s \ {Pick(s)} \in SUBSET E /\ Cardinality(s \ {Pick(s)}) = n
    BY <2>0, <2>1, Picked
  <2>3. g[s] = f[Pick(s)] + g[s \ {Pick(s)}] /\ h[s] = e[Pick(s)] + h[s \ {Pick(s)}]
    BY <1>0, <2>1 DEF Partial
  <2>4. h[s \ {Pick(s)}] = g[s \ {Pick(s)}] /\ e[Pick(s)] = f[Pick(s)]
    BY <1>2, <2>2
  <2> QED
    BY <2>3, <2>4
<1> HIDE DEF P
<1>3. \A n \in Nat : n \in P
  BY <1>1, <1>2, Induction
<1>4. ASSUME NEW s \in SUBSET E PROVE h[s] = g[s]
  <2>1. Cardinality(s) \in P
    BY <1>0, <1>3, SetSize
  <2> QED
    BY <2>1 DEF P
<1> QED
  BY <1>4

\* A sum is where its summands are, if addition does not leave that set.
LEMMA SumIn ==
  ASSUME NEW T, 0 \in T, \A a, b \in T : a + b \in T,
         NEW f, IsFiniteSet(DOMAIN f), \A x \in DOMAIN f : f[x] \in T
  PROVE  SumFunction(f) \in T
<1>1. PICK g : Sums(g, f, DOMAIN f) /\ SumFunction(f) = g[DOMAIN f]
  BY SumPartial
<1>2. \A s \in SUBSET DOMAIN f : g[s] \in T
  BY <1>1, PartialType
<1> QED
  BY <1>1, <1>2

LEMMA SumNat ==
  ASSUME NEW f, IsFiniteSet(DOMAIN f), \A x \in DOMAIN f : f[x] \in Nat
  PROVE  SumFunction(f) \in Nat
<1>1. 0 \in Nat /\ \A a, b \in Nat : a + b \in Nat
  OBVIOUS
<1> QED
  BY <1>1, SumIn

\* The sum of nothing, and of zeros.
LEMMA SumZero ==
  ASSUME NEW f, IsFiniteSet(DOMAIN f), \A x \in DOMAIN f : f[x] = 0
  PROVE  SumFunction(f) = 0
<1>1. 0 \in {0} /\ \A a, b \in {0} : a + b \in {0}
  OBVIOUS
<1>2. \A x \in DOMAIN f : f[x] \in {0}
  OBVIOUS
<1>3. SumFunction(f) \in {0}
  BY <1>1, <1>2, SumIn
<1> QED
  BY <1>3

\* One more summand.
LEMMA SumMore ==
  ASSUME NEW f, IsFiniteSet(DOMAIN f), NEW x, x \notin DOMAIN f,
         NEW e, DOMAIN e = DOMAIN f \cup {x}, \A y \in DOMAIN f : e[y] = f[y],
         \A y \in DOMAIN e : e[y] \in Int
  PROVE  SumFunction(e) = e[x] + SumFunction(f)
<1> DEFINE D == DOMAIN f  E == DOMAIN e
<1>1. IsFiniteSet(E) /\ x \in E /\ E \ {x} = D /\ D \in SUBSET E
  BY FS_AddElement
<1>2. PICK g : Sums(g, e, E) /\ SumFunction(e) = g[E]
  BY <1>1, SumPartial
<1>3. PICK h : Sums(h, f, D) /\ SumFunction(f) = h[D]
  BY SumPartial
<1>4. g[E] = e[x] + g[D]
  <2>0. IsFiniteSet(E) /\ Sums(g, e, E) /\ Integral(e, E)
    BY <1>1, <1>2 DEF Integral
  <2>1. AnyFirst(g, e, E)
    BY <2>0, PartialAny
  <2> QED
    BY <1>1, <2>1 DEF AnyFirst
<1>5. h[D] = g[D]
  <2>1. \A y \in D : f[y] = e[y]
    OBVIOUS
  <2>2. \A s \in SUBSET D : h[s] = g[s]
    BY <1>1, <1>2, <1>3, <2>1, PartialSame
  <2> QED
    BY <2>2
<1> QED
  BY <1>2, <1>3, <1>4, <1>5

\* All but one summand are zero.
LEMMA SumOne ==
  ASSUME NEW f, IsFiniteSet(DOMAIN f), NEW x \in DOMAIN f, f[x] \in Int,
         \A y \in DOMAIN f \ {x} : f[y] = 0
  PROVE  SumFunction(f) = f[x]
<1> DEFINE z == [y \in DOMAIN f \ {x} |-> f[y]]
<1>1. IsFiniteSet(DOMAIN z)
  BY FS_RemoveElement
<1>2. SumFunction(z) = 0
  BY <1>1, SumZero
<1>3. /\ x \notin DOMAIN z /\ DOMAIN f = DOMAIN z \cup {x}
      /\ \A y \in DOMAIN z : f[y] = z[y]
      /\ \A y \in DOMAIN f : f[y] \in Int
  OBVIOUS
<1> HIDE DEF z
<1>4. SumFunction(f) = f[x] + SumFunction(z)
  BY <1>1, <1>3, SumMore
<1> QED
  BY <1>2, <1>4

-----------------------------------------------------------------------------
(* The walk of a book *)

\* One step of _walk, from what was taken up to the level before.
Taking(g, c, levels, consumed, i) ==
  IF i = 0 THEN 0
  ELSE IF WithinCap(c.buying, Slipped(c.buying, levels[i].price), c.cap)
  THEN Least(c.quantity, g[i - 1] + Capacity(SideOf(c), levels[i], consumed))
  ELSE g[i - 1]

LEMMA UptoSteps ==
  ASSUME NEW c, NEW levels, NEW consumed, Len(levels) \in Nat
  PROVE  LET u == Upto(c, levels, consumed) IN
         u = [i \in 0..Len(levels) |-> Taking(u, c, levels, consumed, i)]
<1> DEFINE P == {n \in Nat : \E g : g = [i \in 0..n |-> Taking(g, c, levels, consumed, i)]}
<1>1. 0 \in P
  <2> DEFINE g == [i \in 0..0 |-> 0]
  <2>1. g = [i \in 0..0 |-> Taking(g, c, levels, consumed, i)]
    BY DEF Taking
  <2> QED
    BY <2>1
<1>2. ASSUME NEW n \in Nat, n \in P PROVE n + 1 \in P
  <2>1. PICK g : g = [i \in 0..n |-> Taking(g, c, levels, consumed, i)]
    BY <1>2
  <2> DEFINE h == [i \in 0..(n + 1) |-> Taking(g, c, levels, consumed, i)]
  <2>2. \A i \in 0..n : h[i] = g[i]
    <3> SUFFICES ASSUME NEW i \in 0..n PROVE h[i] = g[i]
      OBVIOUS
    <3>1. g[i] = Taking(g, c, levels, consumed, i)
      BY <2>1
    <3>2. h[i] = Taking(g, c, levels, consumed, i)
      OBVIOUS
    <3> QED
      BY <3>1, <3>2
  <2> HIDE DEF h
  <2>3. \A i \in 0..(n + 1) : Taking(h, c, levels, consumed, i) = Taking(g, c, levels, consumed, i)
    <3> SUFFICES ASSUME NEW i \in 0..(n + 1)
                 PROVE  Taking(h, c, levels, consumed, i) = Taking(g, c, levels, consumed, i)
      OBVIOUS
    <3>1. i # 0 => h[i - 1] = g[i - 1]
      BY <2>2
    <3> QED
      BY <3>1 DEF Taking
  <2>4. h = [i \in 0..(n + 1) |-> Taking(h, c, levels, consumed, i)]
    BY <2>3 DEF h
  <2> QED
    BY <2>4
<1> HIDE DEF P
<1>3. Len(levels) \in P
  BY <1>1, <1>2, Induction
<1> DEFINE G == CHOOSE g : g = [i \in 0..Len(levels) |-> Taking(g, c, levels, consumed, i)]
<1>4. G = [i \in 0..Len(levels) |-> Taking(G, c, levels, consumed, i)]
  BY <1>3 DEF P
<1>5. Upto(c, levels, consumed) = G
  BY DEF Upto, Taking
<1> QED
  BY <1>4, <1>5

\* What is taken grows from level to level, by what a level offers at most,
\* and never beyond the quantity of the command.
LEMMA UptoBounds ==
  ASSUME NEW c, c.quantity \in Nat, NEW levels \in Seq(BookLevel), NEW consumed,
         \A i \in DOMAIN levels : Capacity(SideOf(c), levels[i], consumed) \in Nat
  PROVE  LET u == Upto(c, levels, consumed) IN
         /\ DOMAIN u = 0..Len(levels) /\ u[0] = 0
         /\ \A i \in 0..Len(levels) : u[i] \in 0..c.quantity
         /\ \A i \in 1..Len(levels) :
              u[i - 1] <= u[i] /\ u[i] <= u[i - 1] + Capacity(SideOf(c), levels[i], consumed)
         /\ \A i \in 1..Len(levels) : u[i] = Taking(u, c, levels, consumed, i)
<1> DEFINE u == Upto(c, levels, consumed)
           N == Len(levels)
           Offer(i) == Capacity(SideOf(c), levels[i], consumed)
           P == {n \in Nat : n <= N => u[n] \in 0..c.quantity}
<1>0. N \in Nat /\ DOMAIN levels = 1..N
  OBVIOUS
<1>1. u = [i \in 0..N |-> Taking(u, c, levels, consumed, i)]
  BY <1>0, UptoSteps
<1> HIDE DEF u
<1>2. DOMAIN u = 0..N /\ \A i \in 0..N : u[i] = Taking(u, c, levels, consumed, i)
  BY <1>1
<1>3. u[0] = 0
  BY <1>0, <1>2 DEF Taking
<1>4. ASSUME NEW i \in 1..N, u[i - 1] \in 0..c.quantity
      PROVE  u[i] \in 0..c.quantity /\ u[i - 1] <= u[i] /\ u[i] <= u[i - 1] + Offer(i)
  <2>1. Offer(i) \in Nat
    BY <1>0
  <2>2. u[i] = Taking(u, c, levels, consumed, i) /\ i # 0
    BY <1>0, <1>2
  <2>3. u[i] = Least(c.quantity, u[i - 1] + Offer(i)) \/ u[i] = u[i - 1]
    BY <2>2 DEF Taking
  <2> HIDE DEF Offer
  <2> QED
    BY <2>1, <2>3, <1>4 DEF Least
<1>5. 0 \in P
  BY <1>3
<1>6. ASSUME NEW n \in Nat, n \in P PROVE n + 1 \in P
  <2>1. SUFFICES ASSUME n + 1 <= N PROVE u[n + 1] \in 0..c.quantity
    OBVIOUS
  <2>2. n + 1 \in 1..N /\ (n + 1) - 1 = n /\ u[n] \in 0..c.quantity
    BY <1>0, <1>6, <2>1
  <2> QED
    BY <1>4, <2>2
<1> HIDE DEF P
<1>7. \A n \in Nat : n \in P
  BY <1>5, <1>6, Induction
<1>8. \A i \in 0..N : u[i] \in 0..c.quantity
  BY <1>0, <1>7 DEF P
<1>9. \A i \in 1..N : u[i - 1] <= u[i] /\ u[i] <= u[i - 1] + Offer(i)
  <2>1. \A i \in 1..N : u[i - 1] \in 0..c.quantity
    BY <1>0, <1>8
  <2> QED
    BY <1>4, <2>1
<1>10. \A i \in 1..N : u[i] = Taking(u, c, levels, consumed, i)
  BY <1>0, <1>2
<1> QED
  BY <1>2, <1>3, <1>8, <1>9, <1>10 DEF u

\* The lots of a walk: at each level no more than it offers, and in all no
\* more than the command asks for.
LEMMA WalkTakes ==
  ASSUME NEW c, c.quantity \in Nat, NEW levels \in Seq(BookLevel), NEW consumed,
         \A i \in DOMAIN levels : Capacity(SideOf(c), levels[i], consumed) \in Nat
  PROVE  LET lots == Walk(c, levels, consumed) IN
         /\ DOMAIN lots = DOMAIN levels /\ IsFiniteSet(DOMAIN lots)
         /\ \A i \in DOMAIN levels :
              lots[i] \in Nat /\ lots[i] <= Capacity(SideOf(c), levels[i], consumed)
         /\ SumFunction(lots) = Upto(c, levels, consumed)[Len(levels)]
         /\ SumFunction(lots) \in 0..c.quantity
<1> DEFINE u == Upto(c, levels, consumed)
           N == Len(levels)
           lots == [i \in DOMAIN levels |-> u[i] - u[i - 1]]
           Offer(i) == Capacity(SideOf(c), levels[i], consumed)
           First(n) == [i \in 1..n |-> u[i] - u[i - 1]]
           P == {n \in Nat : n <= N => SumFunction(First(n)) = u[n]}
<1>0. N \in Nat /\ DOMAIN levels = 1..N /\ \A i \in 1..N : Offer(i) \in Nat
  OBVIOUS
<1>1. /\ u[0] = 0
      /\ \A i \in 0..N : u[i] \in 0..c.quantity
      /\ \A i \in 1..N : u[i - 1] <= u[i] /\ u[i] <= u[i - 1] + Offer(i)
  BY UptoBounds
<1>2. lots = Walk(c, levels, consumed)
  BY DEF Walk
<1> HIDE DEF u, Offer
<1>3. \A i \in 1..N : u[i] \in Nat /\ u[i - 1] \in Nat
  BY <1>0, <1>1
<1>4. \A i \in DOMAIN levels : lots[i] \in Nat /\ lots[i] <= Offer(i)
  BY <1>0, <1>1, <1>3
<1>5. 0 \in P
  <2>1. DOMAIN First(0) = {} /\ IsFiniteSet(DOMAIN First(0))
    BY FS_EmptySet
  <2>2. SumFunction(First(0)) = 0
    <3> HIDE DEF First
    <3> QED
      BY <2>1, SumZero
  <2> QED
    BY <1>1, <2>2
<1>6. ASSUME NEW n \in Nat, n \in P PROVE n + 1 \in P
  <2>1. SUFFICES ASSUME n + 1 <= N PROVE SumFunction(First(n + 1)) = u[n + 1]
    OBVIOUS
  <2>2. SumFunction(First(n)) = u[n]
    BY <1>0, <1>6, <2>1
  <2>3. IsFiniteSet(DOMAIN First(n))
    BY FS_Interval
  <2>4. /\ n + 1 \notin DOMAIN First(n) /\ DOMAIN First(n + 1) = DOMAIN First(n) \cup {n + 1}
        /\ \A y \in DOMAIN First(n) : First(n + 1)[y] = First(n)[y]
    OBVIOUS
  <2>5. \A y \in DOMAIN First(n + 1) : First(n + 1)[y] \in Int
    BY <1>0, <1>3, <2>1
  <2>6. First(n + 1)[n + 1] = u[n + 1] - u[n] /\ u[n + 1] \in Nat /\ u[n] \in Nat
    BY <1>0, <1>1, <2>1
  <2>7. SumFunction(First(n + 1)) = First(n + 1)[n + 1] + SumFunction(First(n))
    <3> HIDE DEF First
    <3> QED
      BY <2>3, <2>4, <2>5, SumMore
  <2> QED
    BY <2>2, <2>6, <2>7
<1> HIDE DEF P
<1>7. N \in P
  BY <1>0, <1>5, <1>6, Induction
<1>8. SumFunction(lots) = u[N]
  <2>1. lots = First(N)
    BY <1>0
  <2> QED
    BY <1>0, <1>7, <2>1 DEF P
<1>9. IsFiniteSet(DOMAIN lots)
  BY <1>0, FS_Interval
<1>10. DOMAIN lots = DOMAIN levels /\ u[N] \in 0..c.quantity
  BY <1>0, <1>1
<1> HIDE DEF lots
<1> QED
  BY <1>2, <1>4, <1>8, <1>9, <1>10 DEF Offer, u

\* _walk gives the best prices first and leaves nothing it may take: it takes
\* within the cap only, a level is touched only when all better ones within
\* the cap are exhausted, and an order is left short only by an empty book.
THEOREM SimulationWalk ==
  ASSUME NEW c, c.quantity \in Nat, NEW levels \in Seq(BookLevel), NEW consumed,
         \A i \in DOMAIN levels : Capacity(SideOf(c), levels[i], consumed) \in Nat
  PROVE  LET lots == Walk(c, levels, consumed)
             offer(i) == Capacity(SideOf(c), levels[i], consumed)
             within(i) == WithinCap(c.buying, Slipped(c.buying, levels[i].price), c.cap)
         IN  /\ \A i \in DOMAIN levels :
                  lots[i] \in Nat /\ lots[i] <= offer(i) /\ (lots[i] > 0 => within(i))
             /\ \A i, j \in DOMAIN levels : i < j /\ lots[j] > 0 /\ within(i) => lots[i] = offer(i)
             /\ SumFunction(lots) \in 0..c.quantity
             /\ SumFunction(lots) < c.quantity =>
                  \A i \in DOMAIN levels : within(i) => lots[i] = offer(i)
<1> DEFINE lots == Walk(c, levels, consumed)
           Offer(i) == Capacity(SideOf(c), levels[i], consumed)
           Within(i) == WithinCap(c.buying, Slipped(c.buying, levels[i].price), c.cap)
           u == Upto(c, levels, consumed)
           N == Len(levels)
           P == {n \in Nat : \A i \in 0..N : i + n <= N => u[i] <= u[i + n]}
<1>0. N \in Nat /\ DOMAIN levels = 1..N /\ \A i \in 1..N : Offer(i) \in Nat
  OBVIOUS
<1>1. /\ u[0] = 0
      /\ \A i \in 0..N : u[i] \in 0..c.quantity
      /\ \A i \in 1..N : u[i - 1] <= u[i] /\ u[i] <= u[i - 1] + Offer(i)
      /\ \A i \in 1..N : u[i] = Taking(u, c, levels, consumed, i)
  BY UptoBounds
<1>2. /\ \A i \in 1..N : lots[i] = u[i] - u[i - 1]
      /\ \A i \in 1..N : lots[i] \in Nat /\ lots[i] <= Offer(i)
      /\ SumFunction(lots) = u[N] /\ SumFunction(lots) \in 0..c.quantity
  <2>1. \A i \in 1..N : lots[i] = u[i] - u[i - 1]
    BY <1>0 DEF Walk
  <2> QED
    BY <1>0, <2>1, WalkTakes
<1> HIDE DEF u, lots
<1>3. ASSUME NEW i \in 1..N, Within(i) PROVE u[i] = Least(c.quantity, u[i - 1] + Offer(i))
  BY <1>0, <1>1, <1>3 DEF Taking
<1>4. ASSUME NEW i \in 1..N, ~ Within(i) PROVE lots[i] = 0
  <2>1. u[i] = u[i - 1] /\ u[i - 1] \in Nat
    BY <1>0, <1>1, <1>4 DEF Taking
  <2> QED
    BY <1>2, <2>1
<1> HIDE DEF Offer, Within
<1>5. ASSUME NEW i \in 1..N, Within(i), u[i] < c.quantity PROVE lots[i] = Offer(i)
  <2>1. u[i] \in Nat /\ u[i - 1] \in Nat /\ Offer(i) \in Nat
    BY <1>0, <1>1
  <2> QED
    BY <1>2, <1>3, <1>5, <2>1 DEF Least
<1>6. \A n \in Nat : n \in P
  <2>1. 0 \in P
    BY <1>0, <1>1
  <2>2. ASSUME NEW n \in Nat, n \in P PROVE n + 1 \in P
    <3>0. SUFFICES ASSUME NEW i \in 0..N, i + (n + 1) <= N PROVE u[i] <= u[i + (n + 1)]
      BY <2>2
    <3> DEFINE j == i + (n + 1)
    <3>1. j \in 1..N /\ j - 1 = i + n /\ j - 1 <= N
      BY <1>0, <3>0
    <3>2. u[i] <= u[j - 1] /\ u[j - 1] <= u[j]
      BY <1>1, <2>2, <3>1
    <3>3. u[i] \in Nat /\ u[j - 1] \in Nat /\ u[j] \in Nat
      BY <1>0, <1>1, <3>1
    <3> HIDE DEF j
    <3>4. u[i] <= u[j]
      BY <3>2, <3>3
    <3> QED
      BY <3>4 DEF j
  <2> HIDE DEF P
  <2> QED
    BY <2>1, <2>2, Induction
<1>7. ASSUME NEW i \in 0..N, NEW j \in i..N PROVE u[i] <= u[j]
  <2>1. j - i \in Nat /\ i + (j - i) = j /\ j <= N
    BY <1>0
  <2>2. j - i \in P
    BY <1>6, <2>1
  <2> QED
    BY <2>1, <2>2
<1>8. ASSUME NEW i \in 1..N, NEW j \in 1..N, i < j, lots[j] > 0, Within(i) PROVE lots[i] = Offer(i)
  <2>1. u[i] <= u[j - 1] /\ u[j] \in 0..c.quantity /\ u[j - 1] \in Nat /\ u[i] \in Nat
    BY <1>0, <1>1, <1>7, <1>8
  <2>2. u[j - 1] < u[j]
    BY <1>1, <1>2, <1>8, <2>1
  <2>3. u[i] < c.quantity
    BY <2>1, <2>2
  <2> QED
    BY <1>5, <1>8, <2>3
<1>9. ASSUME SumFunction(lots) < c.quantity, NEW i \in 1..N, Within(i) PROVE lots[i] = Offer(i)
  <2>1. u[i] <= u[N] /\ u[N] < c.quantity /\ u[i] \in Nat /\ u[N] \in Nat
    BY <1>0, <1>1, <1>2, <1>7, <1>9
  <2>2. u[i] < c.quantity
    BY <2>1
  <2> QED
    BY <1>5, <1>9, <2>2
<1>10. \A i \in 1..N : lots[i] > 0 => Within(i)
  BY <1>4
<1> QED
  BY <1>0, <1>2, <1>8, <1>9, <1>10 DEF lots, Offer, Within

-----------------------------------------------------------------------------
(* The tape and the kernel *)

\* A bounded set of naturals has a greatest element.
LEMMA Greatest ==
  ASSUME NEW n \in Nat, NEW S \in SUBSET (0..n), S # {}
  PROVE  Max(S) \in S /\ \A y \in S : y <= Max(S)
<1> DEFINE T == {n - x : x \in S}
<1>1. T \in SUBSET Nat /\ T # {}
  OBVIOUS
<1>2. PICK z \in T : \A y \in T : z <= y
  BY <1>1, LeastNumber
<1>3. PICK x \in S : z = n - x
  BY <1>2
<1>4. \A y \in S : x >= y
  <2> SUFFICES ASSUME NEW y \in S PROVE x >= y
    OBVIOUS
  <2>1. n - y \in T /\ n - x <= n - y
    BY <1>2, <1>3
  <2>2. x \in Int /\ y \in Int
    OBVIOUS
  <2> QED
    BY <2>1, <2>2
<1> DEFINE M == CHOOSE m \in S : \A y \in S : m >= y
<1>5. M \in S /\ \A y \in S : M >= y
  BY <1>4
<1>6. Max(S) = M
  BY DEF Max
<1> HIDE DEF M
<1>7. \A y \in S : y \in Int
  OBVIOUS
<1> QED
  BY <1>5, <1>6, <1>7

Sides == {"ASK", "BID"}

\* What the assumptions on the tape say of one side of one frame.
LEMMA SideFacts ==
  ASSUME NEW n \in DOMAIN Tape, NEW side \in Sides
  PROVE  LET levels == Side(Tape[n], side) IN
         /\ levels \in Seq(BookLevel)
         /\ \A i, j \in DOMAIN levels : levels[i].price = levels[j].price => i = j
         /\ \A i \in DOMAIN levels : levels[i] \in BookLevel /\ <<side, levels[i].price>> \in Levels
<1> DEFINE levels == Side(Tape[n], side)
<1>1. Tape[n] \in Frames /\ BestFirst(Tape[n])
  BY SimulationAssumption
<1>2. levels \in Seq(BookLevel)
  BY <1>1 DEF Side, Frames
<1>3. \A i \in DOMAIN levels : levels[i] \in BookLevel /\ i \in Nat
  BY <1>2
<1>4. ASSUME NEW i \in DOMAIN levels, NEW j \in DOMAIN levels, i < j
      PROVE  levels[i].price < levels[j].price \/ levels[j].price < levels[i].price
  <2>0. levels[i].price \in Nat /\ levels[j].price \in Nat
    BY <1>3 DEF BookLevel
  <2>1. CASE side = "ASK"
    <3>1. levels = Tape[n].asks
      BY <2>1 DEF Side
    <3> QED
      BY <1>1, <1>4, <3>1 DEF BestFirst
  <2>2. CASE side = "BID"
    <3>1. levels = Tape[n].bids
      BY <2>2 DEF Side
    <3>2. levels[i].price > levels[j].price
      BY <1>1, <1>4, <3>1 DEF BestFirst
    <3> QED
      BY <2>0, <3>2
  <2> QED
    BY <2>1, <2>2 DEF Sides
<1>5. ASSUME NEW i \in DOMAIN levels, NEW j \in DOMAIN levels, levels[i].price = levels[j].price
      PROVE  i = j
  <2>0. levels[i].price \in Nat /\ levels[j].price \in Nat /\ i \in Nat /\ j \in Nat
    BY <1>3 DEF BookLevel
  <2>1. ~ (i < j) /\ ~ (j < i)
    BY <1>4, <1>5, <2>0
  <2> QED
    BY <2>0, <2>1
<1>6. ASSUME NEW i \in DOMAIN levels PROVE <<side, levels[i].price>> \in Levels
  <2>1. levels[i].price \in Prices
    BY DEF Prices, Side
  <2> QED
    BY <2>1 DEF Levels, Sides
<1> QED
  BY <1>2, <1>3, <1>5, <1>6

\* The times of the tape.
LEMMA TapeFacts ==
  /\ Len(Tape) \in Nat /\ DOMAIN Tape = 1..Len(Tape)
  /\ \A n \in DOMAIN Tape : Tape[n].persisted \in Nat
<1>1. Tape \in Seq(Frames)
  BY SimulationAssumption
<1>2. Len(Tape) \in Nat /\ DOMAIN Tape = 1..Len(Tape) /\ \A n \in DOMAIN Tape : Tape[n] \in Frames
  BY <1>1
<1> QED
  BY <1>2 DEF Frames

\* Shown lots times the fraction, whole.
Shown(level) == (level.quantity * Num) \div Den

LEMMA ShownInt ==
  ASSUME NEW level \in BookLevel
  PROVE  Shown(level) \in Int
<1>1. level.quantity \in Int /\ Num \in Int /\ Den \in Int /\ Den > 0
  BY SimulationAssumption DEF BookLevel
<1>2. level.quantity * Num \in Int
  BY <1>1
<1> QED
  BY <1>1, <1>2 DEF Shown

LEMMA CapacityFacts ==
  ASSUME NEW consumed \in [Levels -> Nat], NEW side, NEW level \in BookLevel,
         <<side, level.price>> \in Levels
  PROVE  /\ Capacity(side, level, consumed) \in Nat
         /\ Capacity(side, level, consumed) > 0 =>
              consumed[<<side, level.price>>] + Capacity(side, level, consumed) = Shown(level)
<1> DEFINE spent == consumed[<<side, level.price>>]  left == Shown(level) - spent
<1>1. Shown(level) \in Int /\ spent \in Int
  BY ShownInt
<1>2. Capacity(side, level, consumed) = IF left > 0 THEN left ELSE 0
  BY DEF Capacity, Shown
<1> QED
  BY <1>1, <1>2

\* A walk takes from its own side only, and from a level no more than is
\* left of what is shown there.
LEMMA Executes ==
  ASSUME NEW c, c.quantity \in Nat, c.buying \in BOOLEAN, NEW n \in DOMAIN Tape,
         NEW consumed \in [Levels -> Nat]
  PROVE  LET d == Executed(c, n, Walk(c, Book(c, n), consumed)) IN
         /\ d.cmd = c /\ d.frame = n /\ d.filled \in 0..c.quantity
         /\ d.status \in {"NO_FILL", "FILLED", "PARTIAL"} /\ (d.filled = 0 => d.status = "NO_FILL")
         /\ \A l \in Levels :
              /\ Taken(d, l) \in Nat
              /\ Taken(d, l) > 0 => \E i \in DOMAIN Side(Tape[n], l[1]) :
                   LET level == Side(Tape[n], l[1])[i] IN
                   level.price = l[2] /\ consumed[l] + Taken(d, l) <= Shown(level)
<1> DEFINE side   == SideOf(c)
           levels == Book(c, n)
           lots   == Walk(c, levels, consumed)
           d      == Executed(c, n, lots)
<1>1. side \in Sides /\ levels = Side(Tape[n], side)
  BY DEF SideOf, Sides, Book
<1> HIDE DEF levels
<1>2. /\ levels \in Seq(BookLevel)
      /\ \A i, j \in DOMAIN levels : levels[i].price = levels[j].price => i = j
      /\ \A i \in DOMAIN levels : levels[i] \in BookLevel /\ <<side, levels[i].price>> \in Levels
  BY <1>1, SideFacts
<1> HIDE DEF side
<1>3. \A i \in DOMAIN levels :
        /\ Capacity(side, levels[i], consumed) \in Nat
        /\ Capacity(side, levels[i], consumed) > 0 =>
             consumed[<<side, levels[i].price>>] + Capacity(side, levels[i], consumed) = Shown(levels[i])
  BY <1>2, CapacityFacts
<1>4. /\ DOMAIN lots = DOMAIN levels /\ IsFiniteSet(DOMAIN lots)
      /\ \A i \in DOMAIN levels : lots[i] \in Nat /\ lots[i] <= Capacity(side, levels[i], consumed)
      /\ SumFunction(lots) \in 0..c.quantity
  <2> HIDE DEF d
  <2>1. \A i \in DOMAIN levels : Capacity(SideOf(c), levels[i], consumed) \in Nat
    BY <1>3 DEF side
  <2>2. levels \in Seq(BookLevel)
    BY <1>2
  <2>3. /\ DOMAIN lots = DOMAIN levels /\ IsFiniteSet(DOMAIN lots)
        /\ \A i \in DOMAIN levels :
             lots[i] \in Nat /\ lots[i] <= Capacity(SideOf(c), levels[i], consumed)
        /\ SumFunction(lots) \in 0..c.quantity
    <3> HIDE DEF levels
    <3> QED
      BY <2>1, <2>2, WalkTakes
  <2> QED
    BY <2>3 DEF side
<1> HIDE DEF lots
<1>5. /\ d.cmd = c /\ d.frame = n /\ d.fills = lots /\ d.filled = SumFunction(lots)
      /\ d.status = IF d.filled = 0 THEN "NO_FILL" ELSE IF d.filled = c.quantity THEN "FILLED" ELSE "PARTIAL"
  BY DEF Executed
<1> HIDE DEF d
<1>6. ASSUME NEW l \in Levels
      PROVE  /\ Taken(d, l) \in Nat
             /\ Taken(d, l) > 0 => \E i \in DOMAIN Side(Tape[n], l[1]) :
                  LET level == Side(Tape[n], l[1])[i] IN
                  level.price = l[2] /\ consumed[l] + Taken(d, l) <= Shown(level)
  <2>1. l[1] \in Sides /\ l = <<l[1], l[2]>>
    BY DEF Levels, Sides
  <2>2. CASE d.filled = 0 \/ l[1] # side
    <3>1. d.filled = 0 \/ d.cmd.buying # (l[1] = "ASK")
      BY <1>5, <2>1, <2>2 DEF side, SideOf, Sides
    <3> QED
      BY <3>1 DEF Taken
  <2>3. CASE d.filled # 0 /\ l[1] = side
    <3> DEFINE F == [i \in DOMAIN lots |-> IF levels[i].price = l[2] THEN lots[i] ELSE 0]
    <3>1. ~ (d.filled = 0 \/ d.cmd.buying # (l[1] = "ASK"))
      BY <1>5, <2>3 DEF side, SideOf
    <3>2. Taken(d, l) = SumFunction(F)
      BY <1>5, <3>1 DEF Taken, levels
    <3>3. DOMAIN F = DOMAIN levels /\ IsFiniteSet(DOMAIN F)
      BY <1>4
    <3>4. CASE \A i \in DOMAIN levels : levels[i].price # l[2]
      <4>1. \A i \in DOMAIN F : F[i] = 0
        BY <1>4, <3>4
      <4> HIDE DEF F
      <4>2. SumFunction(F) = 0
        BY <3>3, <4>1, SumZero
      <4> QED
        BY <3>2, <4>2
    <3>5. ASSUME NEW i \in DOMAIN levels, levels[i].price = l[2]
          PROVE  /\ Taken(d, l) \in Nat
                 /\ Taken(d, l) > 0 => consumed[l] + Taken(d, l) <= Shown(levels[i])
      <4>1. F[i] = lots[i] /\ lots[i] \in Nat /\ i \in DOMAIN F
        BY <1>4, <3>5
      <4>2. \A j \in DOMAIN F \ {i} : F[j] = 0
        BY <1>2, <1>4, <3>5
      <4> HIDE DEF F
      <4>3. SumFunction(F) = F[i]
        BY <3>3, <4>1, <4>2, SumOne
      <4>4. Taken(d, l) = lots[i]
        BY <3>2, <4>1, <4>3
      <4>5. l = <<side, levels[i].price>>
        BY <2>1, <2>3, <3>5
      <4> DEFINE room == Capacity(side, levels[i], consumed)
      <4>6. /\ room \in Nat /\ lots[i] <= room
            /\ room > 0 => consumed[l] + room = Shown(levels[i])
        BY <1>3, <1>4, <4>5
      <4>7. consumed[l] \in Nat
        OBVIOUS
      <4> HIDE DEF room
      <4> QED
        BY <4>1, <4>4, <4>6, <4>7
    <3>6. Side(Tape[n], l[1]) = levels
      BY <1>1, <2>3
    <3> QED
      BY <3>4, <3>5, <3>6
  <2> QED
    BY <2>2, <2>3
<1> QED
  BY <1>4, <1>5, <1>6 DEF d, lots, levels

-----------------------------------------------------------------------------
(* The inductive invariant *)

States == {"none", "PENDING", "ACTIVE"} \cup Terminal
Kinds  == {"ENTRY_IOC"} \cup Exits
Events == [kind : {"ADMITTED", "ENDED"} \cup Kinds, to : States, filled : Nat, time : Nat]
Liquidities ==
  [asOf : Nat, arrival : Nat, cursor : Nat, barrier : BOOLEAN, consumed : [Levels -> Nat]]

Types ==
  /\ now \in Nat /\ asOf \in Nat
  /\ trade \in [Trades -> [state : States, created : Nat]]
  /\ journal \in [Trades -> Seq(Events)]
  /\ DOMAIN result = Trades
  /\ liquidity \in Liquidities

Command(c) ==
  /\ c.trade \in Trades /\ c.kind \in Kinds /\ c.buying \in BOOLEAN
  /\ c.quantity \in Nat /\ c.submitted \in Nat

\* A command is pending from its preparation to its receipt, and the runner
\* evaluates a pending one.
Work ==
  /\ pending \subseteq prepared /\ todo \subseteq prepared
  /\ \A c \in prepared : Command(c)
  /\ at = "evaluate" => cmd \in pending

Reports ==
  /\ IsFiniteSet(receipts)
  /\ \A r \in receipts :
       /\ r.cmd \in prepared \ pending /\ r.filled \in Nat
       /\ \A l \in Levels : Taken(r, l) \in Nat

Held(t) == Filled(t, {"ENTRY_IOC"})
Sold(t) == Filled(t, Exits)

\* What a trade holds and has sold follows from its state; so does what its
\* receipts add up to, and its result does not lag behind.
Stands(t) ==
  LET s == trade[t].state IN
  /\ Held(t) \in Nat /\ Sold(t) \in Nat
  /\ Quantity(t, {"ENTRY_IOC"}) = Held(t) /\ Quantity(t, Exits) = Sold(t)
  /\ s \in {"none", "PENDING", "NO_FILL", "BLOCKED"} => Held(t) = 0 /\ Sold(t) = 0
  /\ s = "ACTIVE" => Held(t) > 0 /\ Sold(t) = 0
  /\ s = "FLAT" => Held(t) > 0 /\ Sold(t) = Held(t)
  /\ s = "UNRESOLVED" => Held(t) > 0 /\ Sold(t) < Held(t)
  /\ result[t] # NoResult =>
       /\ s \in Terminal /\ result[t].final = s
       /\ result[t].entry = Held(t) /\ result[t].exit = Sold(t)

\* An exit command asks for all that its trade bought.
Sized ==
  \A c \in prepared : c.kind \in Exits =>
    c.quantity = Held(c.trade) /\ trade[c.trade].state \in {"ACTIVE", "FLAT", "UNRESOLVED"}

IInv ==
  /\ Types /\ Work /\ Reports
  /\ (\A t \in Trades : Stands(t)) /\ Sized
  /\ DepthSpentOnce /\ NoHindsight
-----------------------------------------------------------------------------
(* The outcome of a command *)

LEMMA CursorType ==
  ASSUME NEW liq \in Liquidities, NEW arrival \in Nat, NEW time \in Nat
  PROVE  /\ Cursor(liq, arrival, time) \in Liquidities
         /\ Cursor(liq, arrival, time).arrival = arrival
         /\ Cursor(liq, arrival, time).consumed = liq.consumed
  BY DEF Cursor, Liquidities

\* A terminal outcome: it belongs to its command, spends what it took, and
\* takes from frames that were durable at its arrival only.
Settled(c, liq, receipt, next) ==
  /\ receipt.cmd = c /\ receipt.filled \in 0..c.quantity
  /\ receipt.filled = 0 => receipt.status \in {"NO_FILL", "BLOCKED"}
  /\ receipt.filled > 0 => receipt.frame \in Seen(c) /\ \A n \in Seen(c) : n <= receipt.frame
  /\ next \in Liquidities /\ next.arrival = Arrival(c)
  /\ \A l \in Levels :
       /\ Taken(receipt, l) \in Nat
       /\ next.consumed[l] = liq.consumed[l] + Taken(receipt, l)
       /\ Taken(receipt, l) > 0 => \E n \in Seen(c) : \E i \in DOMAIN Side(Tape[n], l[1]) :
            LET level == Side(Tape[n], l[1])[i] IN
            level.price = l[2] /\ next.consumed[l] <= Shown(level)

\* An empty outcome settles.
LEMMA EmptySettles ==
  ASSUME NEW c, Command(c), NEW liq \in Liquidities, NEW n,
         NEW status \in {"NO_FILL", "BLOCKED"},
         NEW next \in Liquidities, next.arrival = Arrival(c), next.consumed = liq.consumed
  PROVE  Settled(c, liq, Empty(c, status, n), next)
<1> DEFINE r == Empty(c, status, n)
<1>1. r.cmd = c /\ r.filled = 0 /\ r.status = status
  BY DEF Empty
<1> HIDE DEF r
<1>2. \A l \in Levels : Taken(r, l) = 0
  BY <1>1 DEF Taken
<1>3. \A l \in Levels : liq.consumed[l] \in Nat
  BY DEF Liquidities
<1>4. r.filled \in 0..c.quantity
  BY <1>1 DEF Command
<1> QED
  BY <1>1, <1>2, <1>3, <1>4 DEF Settled, r

\* The kernel at a frame that was seen last settles.
LEMMA IocSettles ==
  ASSUME NEW c, Command(c), NEW liq \in Liquidities, NEW time \in Nat, NEW n \in Seen(c),
         \A m \in Seen(c) : m <= n
  PROVE  LET o == Ioc(c, n, Arrival(c), time, liq) IN Settled(c, liq, o.receipt, o.next)
<1> DEFINE arrival == Arrival(c)
           o == Ioc(c, n, arrival, time, liq)
           early == Cursor(liq, arrival, time)
<1>0. arrival \in Nat /\ n \in DOMAIN Tape /\ n \in Nat
  BY SimulationAssumption, TapeFacts DEF Arrival, Seen, Command
<1>1. early \in Liquidities /\ early.arrival = arrival /\ early.consumed = liq.consumed
  BY <1>0, CursorType
<1>2. CASE arrival < c.eligible \/ c.submitted < c.eligible \/ arrival > c.expires
  <2>1. o = [receipt |-> Empty(c, "NO_FILL", n), next |-> early]
    BY <1>2 DEF Ioc
  <2> HIDE DEF o, early, arrival
  <2>2. o.receipt = Empty(c, "NO_FILL", n) /\ o.next = early
    BY <2>1
  <2>3. Settled(c, liq, Empty(c, "NO_FILL", n), early)
    BY <1>1, EmptySettles DEF arrival
  <2> QED
    BY <2>2, <2>3 DEF o, arrival
<1>3. CASE ~ (arrival < c.eligible \/ c.submitted < c.eligible \/ arrival > c.expires)
           /\ FrameIssue(n, arrival, liq)
  <2> DEFINE barred == [early EXCEPT !.barrier = TRUE]
  <2>1. o = [receipt |-> Empty(c, "BLOCKED", n), next |-> barred]
    BY <1>3 DEF Ioc
  <2>4. barred \in Liquidities /\ barred.arrival = arrival /\ barred.consumed = liq.consumed
    <3> HIDE DEF early
    <3> QED
      BY <1>1 DEF Liquidities
  <2> HIDE DEF o, barred, arrival
  <2>2. o.receipt = Empty(c, "BLOCKED", n) /\ o.next = barred
    BY <2>1
  <2>3. Settled(c, liq, Empty(c, "BLOCKED", n), barred)
    BY <2>4, EmptySettles DEF arrival
  <2> QED
    BY <2>2, <2>3 DEF o, arrival
<1>4. CASE ~ (arrival < c.eligible \/ c.submitted < c.eligible \/ arrival > c.expires)
           /\ ~ FrameIssue(n, arrival, liq)
  <2> DEFINE d == Executed(c, n, Walk(c, Book(c, n), liq.consumed))
             spent == [early EXCEPT !.cursor = n, !.consumed = [l \in Levels |-> @[l] + Taken(d, l)]]
  <2>1. o = [receipt |-> d, next |-> spent]
    BY <1>4 DEF Ioc
  <2>2. c.quantity \in Nat /\ c.buying \in BOOLEAN /\ liq.consumed \in [Levels -> Nat]
    BY DEF Command, Liquidities
  <2>3. /\ d.cmd = c /\ d.frame = n /\ d.filled \in 0..c.quantity
        /\ d.status \in {"NO_FILL", "FILLED", "PARTIAL"} /\ (d.filled = 0 => d.status = "NO_FILL")
        /\ \A l \in Levels :
             /\ Taken(d, l) \in Nat
             /\ Taken(d, l) > 0 => \E i \in DOMAIN Side(Tape[n], l[1]) :
                  LET level == Side(Tape[n], l[1])[i] IN
                  level.price = l[2] /\ liq.consumed[l] + Taken(d, l) <= Shown(level)
    BY <2>2, <1>0, Executes
  <2> HIDE DEF d
  <2>4. /\ spent \in Liquidities /\ spent.arrival = arrival
        /\ spent.consumed = [l \in Levels |-> liq.consumed[l] + Taken(d, l)]
    <3> HIDE DEF early, arrival
    <3>1. \A l \in Levels : liq.consumed[l] + Taken(d, l) \in Nat
      BY <2>2, <2>3
    <3>2. spent.arrival = arrival /\ spent.consumed = [l \in Levels |-> liq.consumed[l] + Taken(d, l)]
      BY <1>1 DEF Liquidities
    <3> QED
      BY <1>0, <1>1, <3>1, <3>2 DEF Liquidities
  <2> HIDE DEF o, spent, arrival, early
  <2>5. o.receipt = d /\ o.next = spent
    BY <2>1
  <2>6. ASSUME NEW l \in Levels
        PROVE  /\ Taken(d, l) \in Nat
               /\ spent.consumed[l] = liq.consumed[l] + Taken(d, l)
               /\ Taken(d, l) > 0 => \E m \in Seen(c) : \E i \in DOMAIN Side(Tape[m], l[1]) :
                    LET level == Side(Tape[m], l[1])[i] IN
                    level.price = l[2] /\ spent.consumed[l] <= Shown(level)
    <3>1. spent.consumed[l] = liq.consumed[l] + Taken(d, l)
      BY <2>4
    <3>2. Taken(d, l) > 0 => \E i \in DOMAIN Side(Tape[n], l[1]) :
            LET level == Side(Tape[n], l[1])[i] IN
            level.price = l[2] /\ spent.consumed[l] <= Shown(level)
      BY <2>3, <3>1
    <3> HIDE DEF spent
    <3> QED
      BY <2>3, <3>1, <3>2
  <2>7. Settled(c, liq, d, spent)
    BY <2>3, <2>4, <2>6 DEF Settled, arrival
  <2> QED
    BY <2>5, <2>7 DEF o, arrival
<1> QED
  BY <1>2, <1>3, <1>4

\* So does every outcome, with or without a book.
LEMMA OutcomeSettles ==
  ASSUME Types, NEW c, Command(c)
  PROVE  Settled(c, liquidity, Outcome(c).receipt, Outcome(c).next)
<1> DEFINE early == Cursor(liquidity, Arrival(c), asOf)
<1>0. liquidity \in Liquidities /\ asOf \in Nat /\ Arrival(c) \in Nat
  BY SimulationAssumption DEF Types, Command, Arrival
<1>1. early \in Liquidities /\ early.arrival = Arrival(c) /\ early.consumed = liquidity.consumed
  BY <1>0, CursorType
<1> HIDE DEF early
<1>2. \A status \in {"NO_FILL", "BLOCKED"} : Settled(c, liquidity, Empty(c, status, 0), early)
  BY <1>0, <1>1, EmptySettles
<1>3. CASE Arrival(c) > c.expires
  <2>1. Outcome(c) = [receipt |-> Empty(c, "NO_FILL", 0), next |-> early]
    BY <1>3 DEF Outcome, early
  <2>2. Outcome(c).receipt = Empty(c, "NO_FILL", 0) /\ Outcome(c).next = early
    BY <2>1
  <2> QED
    BY <1>2, <2>2
<1>4. CASE ~ (Arrival(c) > c.expires) /\ Seen(c) = {}
  <2>1. Outcome(c) = [receipt |-> Empty(c, "BLOCKED", 0), next |-> early]
    BY <1>4 DEF Outcome, early
  <2>2. Outcome(c).receipt = Empty(c, "BLOCKED", 0) /\ Outcome(c).next = early
    BY <2>1
  <2> QED
    BY <1>2, <2>2
<1>5. CASE ~ (Arrival(c) > c.expires) /\ Seen(c) # {}
  <2>1. Seen(c) \in SUBSET (0..Len(Tape)) /\ Len(Tape) \in Nat
    BY TapeFacts DEF Seen
  <2>2. Max(Seen(c)) \in Seen(c) /\ \A n \in Seen(c) : n <= Max(Seen(c))
    BY <1>5, <2>1, Greatest
  <2>3. Outcome(c) = Ioc(c, Max(Seen(c)), Arrival(c), asOf, liquidity)
    BY <1>5 DEF Outcome
  <2> QED
    BY <1>0, <2>2, <2>3, IocSettles
<1> QED
  BY <1>3, <1>4, <1>5

-----------------------------------------------------------------------------
(* What an event adds to a journal, and a receipt to the receipts *)

\* Filled, of any journal.
Recorded(s, kinds) == SumFunction([i \in {n \in DOMAIN s : s[n].kind \in kinds} |-> s[i].filled])

LEMMA RecordedMore ==
  ASSUME NEW s \in Seq(Events), NEW e \in Events, NEW kinds
  PROVE  /\ Recorded(s, kinds) \in Nat
         /\ Recorded(Append(s, e), kinds) =
              Recorded(s, kinds) + (IF e.kind \in kinds THEN e.filled ELSE 0)
<1> DEFINE z == Append(s, e)
           m == Len(s) + 1
           I == {n \in DOMAIN s : s[n].kind \in kinds}
           J == {n \in DOMAIN z : z[n].kind \in kinds}
           f == [i \in I |-> s[i].filled]
           g == [i \in J |-> z[i].filled]
<1>1. /\ Len(s) \in Nat /\ DOMAIN s = 1..Len(s) /\ DOMAIN z = 1..m /\ z[m] = e
      /\ \A i \in 1..Len(s) : z[i] = s[i] /\ s[i] \in Events
  OBVIOUS
<1>2. \A i \in I : s[i].filled \in Nat /\ z[i].filled = s[i].filled
  BY <1>1 DEF Events
<1>3. e.filled \in Nat
  BY DEF Events
<1>4. IsFiniteSet(I)
  <2>1. IsFiniteSet(1..Len(s))
    BY <1>1, FS_Interval
  <2>2. I \in SUBSET (1..Len(s))
    BY <1>1
  <2> QED
    BY <2>1, <2>2, FS_Subset
<1>5. m \notin I /\ J = IF e.kind \in kinds THEN I \cup {m} ELSE I
  BY <1>1
<1>0. Recorded(s, kinds) = SumFunction(f) /\ Recorded(Append(s, e), kinds) = SumFunction(g)
  BY DEF Recorded
<1> HIDE DEF z, m, I, J
<1>6. DOMAIN f = I /\ DOMAIN g = J /\ \A i \in I : f[i] \in Nat /\ f[i] = s[i].filled
  BY <1>2
<1>7. SumFunction(f) \in Nat
  <2> HIDE DEF f
  <2> QED
    BY <1>4, <1>6, SumNat
<1>8. CASE e.kind \notin kinds
  <2>1. f = g
    BY <1>2, <1>5, <1>8
  <2> HIDE DEF f, g
  <2> QED
    BY <1>0, <2>1, <1>7, <1>8
<1>9. CASE e.kind \in kinds
  <2>1. J = I \cup {m} /\ m \notin I
    BY <1>5, <1>9
  <2>2. g[m] = e.filled /\ \A i \in I : g[i] = f[i]
    BY <2>1, <1>1, <1>2
  <2>3. \A i \in J : g[i] \in Int
    BY <2>1, <2>2, <1>3, <1>6
  <2>4. SumFunction(g) = g[m] + SumFunction(f)
    <3> HIDE DEF f, g
    <3> QED
      BY <1>4, <1>6, <2>1, <2>2, <2>3, SumMore
  <2>5. SumFunction(g) = SumFunction(f) + e.filled
    <3> HIDE DEF f, g
    <3> QED
      BY <1>3, <1>7, <2>2, <2>4
  <2> HIDE DEF f, g
  <2> QED
    BY <1>0, <2>5, <1>7, <1>9
<1> QED
  BY <1>8, <1>9

LEMMA FilledNat ==
  ASSUME Types, NEW t \in Trades, NEW kinds
  PROVE  Filled(t, kinds) \in Nat
<1> DEFINE e == [kind |-> "ENDED", to |-> "none", filled |-> 0, time |-> 0]
<1>1. journal[t] \in Seq(Events) /\ e \in Events
  BY DEF Types, Events, States
<1> QED
  BY <1>1, RecordedMore DEF Filled, Recorded

\* An event adds its lots to the fills of its trade and kind.
Extends(t, kind, n) ==
  /\ journal' \in [Trades -> Seq(Events)]
  /\ \A u \in Trades \ {t} : \A kinds : Filled(u, kinds)' = Filled(u, kinds)
  /\ \A kinds : Filled(t, kinds)' = Filled(t, kinds) + (IF kind \in kinds THEN n ELSE 0)

LEMMA FilledMore ==
  ASSUME Types, NEW t \in Trades, NEW kind \in {"ADMITTED", "ENDED"} \cup Kinds, NEW to \in States,
         NEW n \in Nat, NEW time \in Nat, Journal(t, kind, to, n, time)
  PROVE  Extends(t, kind, n)
<1> DEFINE e == [kind |-> kind, to |-> to, filled |-> n, time |-> time]
<1>1. e \in Events /\ e.kind = kind /\ e.filled = n
  BY DEF Events
<1>2. journal' = [journal EXCEPT ![t] = Append(journal[t], e)]
  BY DEF Journal
<1> HIDE DEF e
<1>3. /\ journal'[t] = Append(journal[t], e) /\ \A u \in Trades \ {t} : journal'[u] = journal[u]
      /\ journal[t] \in Seq(Events) /\ Append(journal[t], e) \in Seq(Events)
      /\ journal' \in [Trades -> Seq(Events)]
  BY <1>1, <1>2 DEF Types
<1>4. ASSUME NEW kinds PROVE Filled(t, kinds)' = Filled(t, kinds) + (IF kind \in kinds THEN n ELSE 0)
  <2>1. Recorded(Append(journal[t], e), kinds)
          = Recorded(journal[t], kinds) + (IF e.kind \in kinds THEN e.filled ELSE 0)
    BY <1>1, <1>3, RecordedMore
  <2>2. Filled(t, kinds)' = Recorded(journal'[t], kinds) /\ Filled(t, kinds) = Recorded(journal[t], kinds)
    BY DEF Filled, Recorded
  <2> QED
    BY <1>1, <1>3, <2>1, <2>2
<1>5. ASSUME NEW u \in Trades \ {t}, NEW kinds PROVE Filled(u, kinds)' = Filled(u, kinds)
  BY <1>3 DEF Filled
<1> QED
  BY <1>3, <1>4, <1>5 DEF Extends

\* A new receipt adds its lots to the totals of its trade and kind.
LEMMA QuantityMore ==
  ASSUME IsFiniteSet(receipts), \A q \in receipts : q.filled \in Nat,
         NEW r, r \notin receipts, r.filled \in Nat, receipts' = receipts \cup {r},
         NEW t, NEW kinds
  PROVE  Quantity(t, kinds)' =
           Quantity(t, kinds) + (IF r.cmd.trade = t /\ r.cmd.kind \in kinds THEN r.filled ELSE 0)
<1> DEFINE R == Receipts(t, kinds)
           Z == {q \in receipts \cup {r} : q.cmd.trade = t /\ q.cmd.kind \in kinds}
           f == [q \in R |-> q.filled]
           g == [q \in Z |-> q.filled]
<1>1. Quantity(t, kinds) = SumFunction(f) /\ Quantity(t, kinds)' = SumFunction(g)
  BY DEF Quantity, Receipts
<1>2. R \in SUBSET receipts /\ r \notin R
  BY DEF Receipts
<1>3. IsFiniteSet(R)
  BY <1>2, FS_Subset
<1>4. Z = IF r.cmd.trade = t /\ r.cmd.kind \in kinds THEN R \cup {r} ELSE R
  BY DEF Receipts
<1> HIDE DEF R, Z
<1>5. DOMAIN f = R /\ DOMAIN g = Z /\ \A q \in R : f[q] \in Nat /\ f[q] = q.filled
  BY <1>2
<1>6. SumFunction(f) \in Nat
  <2> HIDE DEF f
  <2> QED
    BY <1>3, <1>5, SumNat
<1>7. CASE ~ (r.cmd.trade = t /\ r.cmd.kind \in kinds)
  <2>1. f = g
    BY <1>4, <1>7
  <2> QED
    BY <1>1, <1>6, <1>7, <2>1
<1>8. CASE r.cmd.trade = t /\ r.cmd.kind \in kinds
  <2>1. Z = R \cup {r}
    BY <1>4, <1>8
  <2>2. g[r] = r.filled /\ (\A q \in R : g[q] = f[q]) /\ \A q \in Z : g[q] \in Int
    BY <2>1, <1>2, <1>5
  <2> HIDE DEF f, g
  <2>3. SumFunction(g) = g[r] + SumFunction(f)
    BY <1>2, <1>3, <1>5, <2>1, <2>2, SumMore
  <2> QED
    BY <1>1, <1>6, <1>8, <2>2, <2>3
<1> QED
  BY <1>7, <1>8

\* What all receipts took at a price.
Spent(l) == SumFunction([r \in receipts |-> Taken(r, l)])

LEMMA SpentMore ==
  ASSUME IsFiniteSet(receipts), NEW l, \A q \in receipts : Taken(q, l) \in Nat,
         NEW r, r \notin receipts, Taken(r, l) \in Nat, receipts' = receipts \cup {r}
  PROVE  Spent(l) \in Nat /\ Spent(l)' = Spent(l) + Taken(r, l)
<1> DEFINE f == [q \in receipts |-> Taken(q, l)]
           g == [q \in receipts \cup {r} |-> Taken(q, l)]
<1>1. Spent(l) = SumFunction(f) /\ Spent(l)' = SumFunction(g)
  BY DEF Spent, Taken
<1>2. /\ DOMAIN f = receipts /\ DOMAIN g = receipts \cup {r} /\ g[r] = Taken(r, l)
      /\ (\A q \in receipts : g[q] = f[q] /\ f[q] \in Nat)
      /\ \A q \in receipts \cup {r} : g[q] \in Int
  OBVIOUS
<1> HIDE DEF f, g
<1>3. SumFunction(f) \in Nat
  BY <1>2, SumNat
<1>4. SumFunction(g) = g[r] + SumFunction(f)
  BY <1>2, SumMore
<1> QED
  BY <1>1, <1>2, <1>3, <1>4

-----------------------------------------------------------------------------
(* The invariant holds at first *)

LEMMA InitIInv == Init => IInv
<1> SUFFICES ASSUME Init PROVE IInv
  OBVIOUS
<1>1. Types
  BY DEF Init, Types, States, Liquidities, Events
<1>2. Work
  BY DEF Init, Work
<1>3. Reports
  BY FS_EmptySet DEF Init, Reports
<1>4. ASSUME NEW t \in Trades PROVE Stands(t)
  <2>1. \A kinds : Filled(t, kinds) = 0 /\ Quantity(t, kinds) = 0
    <3> SUFFICES ASSUME NEW kinds PROVE Filled(t, kinds) = 0 /\ Quantity(t, kinds) = 0
      OBVIOUS
    <3> DEFINE f == [i \in {n \in DOMAIN journal[t] : journal[t][n].kind \in kinds} |-> journal[t][i].filled]
               g == [r \in Receipts(t, kinds) |-> r.filled]
    <3>1. DOMAIN f = {} /\ DOMAIN g = {}
      BY <1>4 DEF Init, Receipts
    <3> HIDE DEF f, g
    <3>2. SumFunction(f) = 0 /\ SumFunction(g) = 0
      BY <3>1, SumZero, FS_EmptySet
    <3> QED
      BY <3>2 DEF f, g, Filled, Quantity
  <2>2. Held(t) = 0 /\ Sold(t) = 0
    BY <2>1 DEF Held, Sold
  <2>3. trade[t].state = "none" /\ result[t] = NoResult
    BY <1>4 DEF Init
  <2> QED
    BY <2>1, <2>2, <2>3 DEF Stands
<1>5. Sized
  BY DEF Init, Sized
<1>6. ASSUME NEW l \in Levels PROVE liquidity.consumed[l] = 0 /\ Spent(l) = 0
  <2> DEFINE f == [r \in receipts |-> Taken(r, l)]
  <2>1. DOMAIN f = {}
    BY DEF Init
  <2> HIDE DEF f
  <2>2. SumFunction(f) = 0
    BY <2>1, SumZero, FS_EmptySet
  <2> QED
    BY <2>2 DEF f, Spent, Init
<1>7. DepthSpentOnce
  BY <1>6 DEF DepthSpentOnce, Spent
<1>8. NoHindsight
  BY DEF Init, NoHindsight
<1> QED
  BY <1>1, <1>2, <1>3, <1>4, <1>5, <1>7, <1>8 DEF IInv

-----------------------------------------------------------------------------
(* What a step leaves alone *)

\* The ledgers of the trades.
LEMMA StandsSame ==
  ASSUME NEW t, Stands(t), trade'[t] = trade[t], journal'[t] = journal[t], receipts' = receipts,
         result'[t] = result[t]
  PROVE  Stands(t)' /\ Held(t)' = Held(t) /\ Sold(t)' = Sold(t)
<1>1. \A kinds : Filled(t, kinds)' = Filled(t, kinds) /\ Quantity(t, kinds)' = Quantity(t, kinds)
  BY DEF Filled, Quantity, Receipts
<1>2. Held(t)' = Held(t) /\ Sold(t)' = Sold(t)
  BY <1>1 DEF Held, Sold
<1> QED
  BY <1>1, <1>2 DEF Stands

\* The receipts and the private state.
LEMMA DepthSame ==
  ASSUME DepthSpentOnce, NoHindsight, UNCHANGED <<receipts, liquidity>>
  PROVE  DepthSpentOnce' /\ NoHindsight'
<1>1. \A r, l : Taken(r, l)' = Taken(r, l)
  BY DEF Taken
<1>2. \A l : Spent(l)' = Spent(l)
  BY DEF Spent, Taken
<1>3. DepthSpentOnce'
  BY <1>2 DEF DepthSpentOnce, Spent
<1>4. NoHindsight'
  BY DEF NoHindsight
<1> QED
  BY <1>3, <1>4

LEMMA ReportsSame ==
  ASSUME Reports, receipts' = receipts, \A r \in receipts : r.cmd \in prepared' \ pending'
  PROVE  Reports'
  BY DEF Reports, Taken

\* The store.
LEMMA StoreSame ==
  ASSUME IInv, UNCHANGED store, now' \in Nat, asOf' \in Nat, todo' \subseteq prepared,
         at' = "evaluate" => cmd' \in pending
  PROVE  IInv'
<1> USE DEF store
<1>1. Types'
  BY DEF IInv, Types
<1>2. Work'
  BY DEF IInv, Work
<1>3. Reports'
  BY ReportsSame DEF IInv, Reports
<1>4. \A t \in Trades : Stands(t)' /\ Held(t)' = Held(t)
  BY StandsSame DEF IInv
<1>5. Sized'
  <2>1. \A c \in prepared : c.trade \in Trades
    BY DEF IInv, Work, Command
  <2> QED
    BY <2>1, <1>4 DEF IInv, Sized
<1>6. DepthSpentOnce' /\ NoHindsight'
  BY DepthSame DEF IInv
<1> QED
  BY <1>1, <1>2, <1>3, <1>4, <1>5, <1>6 DEF IInv

-----------------------------------------------------------------------------
(* The steps that prepare a command *)

LEMMA ProcessKeeps ==
  ASSUME IInv, NEW c, Command(c), Process(c),
         c.kind \in Exits =>
           c.quantity = Held(c.trade) /\ trade[c.trade].state \in {"ACTIVE", "FLAT", "UNRESOLVED"},
         UNCHANGED <<now, trade, journal, receipts, liquidity, result>>,
         asOf' \in Nat, todo' \subseteq prepared
  PROVE  IInv'
<1>1. Types'
  BY DEF IInv, Types
<1>2. /\ prepared' = prepared \cup {c} /\ cmd' = c
      /\ pending' = IF c \in prepared THEN pending ELSE pending \cup {c}
      /\ at' = "evaluate" => ~ (c \in prepared \ pending)
  BY DEF Process
<1>3. Work'
  <2>1. \A d \in prepared' : Command(d)
    BY <1>2 DEF IInv, Work
  <2>2. Command(c)' <=> Command(c)
    BY DEF Command
  <2>3. pending' \subseteq prepared' /\ todo' \subseteq prepared' /\ (at' = "evaluate" => cmd' \in pending')
    BY <1>2 DEF IInv, Work
  <2> QED
    BY <2>1, <2>3 DEF Work, Command
<1>4. Reports'
  <2>1. \A r \in receipts : r.cmd \in prepared' \ pending'
    BY <1>2 DEF IInv, Reports
  <2> QED
    BY <2>1, ReportsSame DEF IInv
<1>5. \A t \in Trades : Stands(t)' /\ Held(t)' = Held(t)
  BY StandsSame DEF IInv
<1>6. Sized'
  <2>1. \A d \in prepared' : d.trade \in Trades
    BY <1>2 DEF IInv, Work, Command
  <2>2. \A d \in prepared' : d.kind \in Exits =>
          d.quantity = Held(d.trade) /\ trade[d.trade].state \in {"ACTIVE", "FLAT", "UNRESOLVED"}
    BY <1>2 DEF IInv, Sized
  <2> QED
    BY <2>1, <2>2, <1>5 DEF Sized
<1>7. DepthSpentOnce' /\ NoHindsight'
  BY DepthSame DEF IInv
<1> QED
  BY <1>1, <1>3, <1>4, <1>5, <1>6, <1>7 DEF IInv

LEMMA EntryFacts ==
  ASSUME Types, NEW t \in Trades
  PROVE  /\ Command(EntryCommand(t)) /\ EntryCommand(t).kind \notin Exits
         /\ EntryCommand(t).kind = "ENTRY_IOC" /\ EntryCommand(t).trade = t
<1>1. /\ EntryCommand(t).trade = t /\ EntryCommand(t).kind = "ENTRY_IOC"
      /\ EntryCommand(t).buying = Buys[t] /\ EntryCommand(t).quantity = Lots[t]
      /\ EntryCommand(t).submitted = trade[t].created
  BY DEF EntryCommand
<1>2. trade[t].created \in Nat /\ Buys[t] \in BOOLEAN /\ Lots[t] \in Nat
  BY SimulationAssumption DEF Types
<1> QED
  BY <1>1, <1>2 DEF Command, Kinds, Exits

LEMMA ExitFacts ==
  ASSUME IInv, NEW t \in Trades, trade[t].state = "ACTIVE", NEW bar \in Bars,
         Trigger(t, bar) # <<>>, NEW c, c = ExitCommand(t, bar, Trigger(t, bar))
  PROVE  /\ Command(c) /\ c.trade = t /\ c.kind \in Exits /\ c.quantity = Held(t)
<1>1. Held(t) \in Nat /\ Sold(t) = 0
  BY DEF IInv, Stands
<1>2. Held(t) - Sold(t) = Held(t)
  BY <1>1
<1>3. Trigger(t, bar)[1] \in Exits
  BY DEF Trigger, Exits
<1>4. /\ c.trade = t /\ c.kind = Trigger(t, bar)[1] /\ c.buying = (~ Buys[t])
      /\ c.quantity = Held(t) - Sold(t) /\ c.submitted = bar.at
  BY DEF ExitCommand, Held, Sold
<1>5. bar.at \in Nat /\ (~ Buys[t]) \in BOOLEAN
  BY SimulationAssumption
<1> QED
  BY <1>1, <1>2, <1>3, <1>4, <1>5 DEF Command, Kinds

LEMMA PrepareKeeps ==
  ASSUME IInv,
         Resume \/ \E t \in Trades : SubmitEntry(t) \/ \E bar \in Bars : CloseBar(t, bar)
  PROVE  IInv'
<1>1. ASSUME NEW t \in Trades, SubmitEntry(t) PROVE IInv'
  <2>1. Command(EntryCommand(t)) /\ EntryCommand(t).kind \notin Exits
    BY EntryFacts DEF IInv
  <2>2. asOf' \in Nat /\ todo' \subseteq prepared
    BY <1>1 DEF SubmitEntry, IInv, Types, Work
  <2> QED
    BY <1>1, <2>1, <2>2, ProcessKeeps DEF SubmitEntry
<1>2. ASSUME NEW t \in Trades, NEW bar \in Bars, CloseBar(t, bar) PROVE IInv'
  <2> DEFINE c == ExitCommand(t, bar, Trigger(t, bar))
  <2>1. Command(c) /\ c.trade = t /\ c.quantity = Held(t) /\ trade[t].state = "ACTIVE"
    BY <1>2, ExitFacts DEF CloseBar
  <2>2. asOf' \in Nat /\ todo' \subseteq prepared
    BY <1>2 DEF CloseBar, IInv, Types, Work
  <2>3. Process(c) /\ UNCHANGED <<now, trade, journal, receipts, liquidity, result>>
    BY <1>2 DEF CloseBar
  <2> HIDE DEF c
  <2> QED
    BY <2>1, <2>2, <2>3, ProcessKeeps
<1>3. CASE Resume
  <2>1. PICK c \in todo : Process(c) /\ todo' = todo \ {c}
    BY <1>3 DEF Resume
  <2>2. c \in prepared /\ Command(c) /\ asOf' \in Nat /\ todo' \subseteq prepared
    BY <1>3, <2>1 DEF Resume, IInv, Types, Work
  <2>3. c.kind \in Exits =>
          c.quantity = Held(c.trade) /\ trade[c.trade].state \in {"ACTIVE", "FLAT", "UNRESOLVED"}
    BY <2>2 DEF IInv, Sized
  <2> QED
    BY <1>3, <2>1, <2>2, <2>3, ProcessKeeps DEF Resume
<1> QED
  BY <1>1, <1>2, <1>3

-----------------------------------------------------------------------------
(* The steps of a trade *)

LEMMA CreateKeeps ==
  ASSUME IInv, NEW t \in Trades, CreateTrade(t)
  PROVE  IInv'
<1> USE DEF CreateTrade, runner
<1>1. Types'
  BY DEF IInv, Types, States
<1>2. Work' /\ Reports'
  BY ReportsSame DEF IInv, Work, Reports, Command
<1>3. /\ trade'[t].state = "PENDING" /\ \A u \in Trades \ {t} : trade'[u] = trade[u]
      /\ trade[t].state = "none"
  BY DEF IInv, Types
<1>4. \A u \in Trades : Held(u)' = Held(u) /\ Sold(u)' = Sold(u)
  BY DEF Held, Sold, Filled
<1>5. ASSUME NEW u \in Trades PROVE Stands(u)'
  <2>1. CASE u # t
    BY <1>3, <2>1, StandsSame DEF IInv
  <2>2. CASE u = t
    <3>1. \A kinds : Quantity(t, kinds)' = Quantity(t, kinds)
      BY DEF Quantity, Receipts
    <3>2. Stands(t) /\ result[t] = NoResult
      BY <1>3 DEF IInv, Stands, Terminal
    <3>3. Held(t) = 0 /\ Sold(t) = 0 /\ Quantity(t, {"ENTRY_IOC"}) = 0 /\ Quantity(t, Exits) = 0
      BY <1>3, <3>2 DEF Stands
    <3> QED
      BY <1>3, <1>4, <2>2, <3>1, <3>2, <3>3 DEF Stands
  <2> QED
    BY <2>1, <2>2
<1>6. Sized'
  <2>1. \A c \in prepared : c.trade \in Trades
    BY DEF IInv, Work, Command
  <2>2. \A c \in prepared : c.kind \in Exits => c.trade # t
    BY <1>3 DEF IInv, Sized
  <2> QED
    BY <2>1, <2>2, <1>3, <1>4 DEF IInv, Sized
<1>7. DepthSpentOnce' /\ NoHindsight'
  BY DepthSame DEF IInv
<1> QED
  BY <1>1, <1>2, <1>5, <1>6, <1>7 DEF IInv

LEMMA AdmitKeeps ==
  ASSUME IInv, NEW t \in Trades, AdmitTrade(t)
  PROVE  IInv'
<1> USE DEF AdmitTrade, runner
<1>0. Journal(t, "ADMITTED", "PENDING", 0, trade[t].created) /\ trade[t].created \in Nat
  BY DEF IInv, Types
<1>1. /\ journal' \in [Trades -> Seq(Events)]
      /\ \A u \in Trades : \A kinds : "ADMITTED" \notin kinds => Filled(u, kinds)' = Filled(u, kinds)
  <2>1. Extends(t, "ADMITTED", 0)
    BY <1>0, FilledMore DEF IInv, States
  <2>2. \A kinds : Filled(t, kinds) \in Nat
    BY FilledNat DEF IInv
  <2>3. \A kinds : Filled(t, kinds)' = Filled(t, kinds)
    BY <2>1, <2>2 DEF Extends
  <2> QED
    BY <2>1, <2>3 DEF Extends
<1>2. Types'
  BY <1>1 DEF IInv, Types
<1>3. Work' /\ Reports'
  BY ReportsSame DEF IInv, Work, Reports, Command
<1>4. \A u \in Trades : Held(u)' = Held(u) /\ Sold(u)' = Sold(u)
  BY <1>1 DEF Held, Sold, Exits
<1>5. ASSUME NEW u \in Trades PROVE Stands(u)'
  <2>1. \A kinds : Quantity(u, kinds)' = Quantity(u, kinds)
    BY DEF Quantity, Receipts
  <2>2. Stands(u)
    BY DEF IInv
  <2> QED
    BY <1>4, <2>1, <2>2 DEF Stands
<1>6. Sized'
  <2>1. \A c \in prepared : c.trade \in Trades
    BY DEF IInv, Work, Command
  <2> QED
    BY <2>1, <1>4 DEF IInv, Sized
<1>7. DepthSpentOnce' /\ NoHindsight'
  BY DepthSame DEF IInv
<1> QED
  BY <1>2, <1>3, <1>5, <1>6, <1>7 DEF IInv

LEMMA EndKeeps ==
  ASSUME IInv, NEW t \in Trades, NEW bar \in Bars, EndSession(t, bar)
  PROVE  IInv'
<1> USE DEF EndSession
<1>0. Journal(t, "ENDED", "UNRESOLVED", 0, bar.at) /\ bar.at \in Nat
  BY SimulationAssumption
<1>1. /\ journal' \in [Trades -> Seq(Events)]
      /\ \A u \in Trades : \A kinds : Filled(u, kinds)' = Filled(u, kinds)
  <2>0. Types /\ "UNRESOLVED" \in States
    BY DEF IInv, States, Terminal
  <2>1. Extends(t, "ENDED", 0)
    BY <1>0, <2>0, FilledMore
  <2>2. \A kinds : Filled(t, kinds) \in Nat
    BY FilledNat DEF IInv
  <2>3. \A kinds : Filled(t, kinds)' = Filled(t, kinds)
    BY <2>1, <2>2 DEF Extends
  <2> QED
    BY <2>1, <2>3 DEF Extends
<1>2. /\ trade'[t].state = "UNRESOLVED" /\ \A u \in Trades \ {t} : trade'[u] = trade[u]
      /\ trade' \in [Trades -> [state : States, created : Nat]]
      /\ trade[t].state = "ACTIVE"
  BY DEF IInv, Types, States, Terminal
<1>3. Types'
  BY <1>1, <1>2 DEF IInv, Types
<1>4. Work' /\ Reports'
  <2>1. Work'
    BY DEF IInv, Work, Command
  <2> QED
    BY <2>1, ReportsSame DEF IInv, Reports
<1>5. \A u \in Trades : Held(u)' = Held(u) /\ Sold(u)' = Sold(u)
  BY <1>1 DEF Held, Sold
<1>6. ASSUME NEW u \in Trades PROVE Stands(u)'
  <2>1. \A kinds : Quantity(u, kinds)' = Quantity(u, kinds)
    BY DEF Quantity, Receipts
  <2>2. Stands(u)
    BY DEF IInv
  <2>3. CASE u # t
    BY <1>2, <1>5, <2>1, <2>2, <2>3 DEF Stands
  <2>4. CASE u = t
    <3>1. Held(t) > 0 /\ Sold(t) = 0 /\ result[t] = NoResult /\ Held(t) \in Nat
      BY <1>2, <2>2, <2>4 DEF Stands, Terminal
    <3> QED
      BY <1>2, <1>5, <2>1, <2>2, <2>4, <3>1 DEF Stands
  <2> QED
    BY <2>3, <2>4
<1>7. Sized'
  <2>1. \A c \in prepared : c.trade \in Trades
    BY DEF IInv, Work, Command
  <2> QED
    BY <2>1, <1>2, <1>5 DEF IInv, Sized
<1>8. DepthSpentOnce' /\ NoHindsight'
  BY DepthSame DEF IInv
<1> QED
  BY <1>3, <1>4, <1>6, <1>7, <1>8 DEF IInv

LEMMA RecordKeeps ==
  ASSUME IInv, NEW t, Record(t),
         UNCHANGED <<now, trade, journal, prepared, pending, receipts, liquidity, cmd, asOf, todo>>,
         at' # "evaluate" \/ at' = at
  PROVE  IInv'
<1>1. DOMAIN result' = DOMAIN result /\ \A u \in Trades \ {t} : result'[u] = result[u]
  BY DEF Record, IInv, Types
<1>2. Types'
  BY <1>1 DEF IInv, Types
<1>3. Work' /\ Reports'
  <2>1. Work'
    BY DEF IInv, Work, Command
  <2> QED
    BY <2>1, ReportsSame DEF IInv, Reports
<1>4. \A u \in Trades : Held(u)' = Held(u) /\ Sold(u)' = Sold(u)
  BY DEF Held, Sold, Filled
<1>5. ASSUME NEW u \in Trades PROVE Stands(u)'
  <2>1. CASE result'[u] = result[u]
    BY <2>1, StandsSame DEF IInv
  <2>2. CASE result'[u] # result[u]
    <3>1. u = t /\ trade[t].state \in Terminal
      BY <1>1, <2>2 DEF Record
    <3>2. result'[t] = [final |-> trade[t].state,
                        entry |-> Quantity(t, {"ENTRY_IOC"}), exit |-> Quantity(t, Exits),
                        paid  |-> Value(t, {"ENTRY_IOC"}),    got  |-> Value(t, Exits)]
      BY <3>1 DEF Record, IInv, Types
    <3>3. /\ result'[t].final = trade[t].state
          /\ result'[t].entry = Quantity(t, {"ENTRY_IOC"}) /\ result'[t].exit = Quantity(t, Exits)
      BY <3>2
    <3>4. \A kinds : Quantity(t, kinds)' = Quantity(t, kinds)
      BY DEF Quantity, Receipts
    <3>5. Stands(t)
      BY <3>1 DEF IInv
    <3> QED
      BY <1>4, <3>1, <3>3, <3>4, <3>5 DEF Stands
  <2> QED
    BY <2>1, <2>2
<1>6. Sized'
  <2>1. \A c \in prepared : c.trade \in Trades
    BY DEF IInv, Work, Command
  <2> QED
    BY <2>1, <1>4 DEF IInv, Sized
<1>7. DepthSpentOnce' /\ NoHindsight'
  BY DepthSame DEF IInv
<1> QED
  BY <1>2, <1>3, <1>5, <1>6, <1>7 DEF IInv

-----------------------------------------------------------------------------
(* The commit that completes a command *)

\* Where a settled command leads its trade.
LEMMA AfterFacts ==
  ASSUME IInv, NEW c \in prepared, Fits(c), NEW r, NEW next, Settled(c, liquidity, r, next)
  PROVE  /\ c.kind = "ENTRY_IOC" =>
              /\ trade[c.trade].state = "PENDING"
              /\ After(r) \in {"ACTIVE", "NO_FILL", "BLOCKED"} /\ (After(r) = "ACTIVE" <=> r.filled > 0)
         /\ c.kind # "ENTRY_IOC" =>
              /\ trade[c.trade].state = "ACTIVE" /\ c.kind \in Exits
              /\ r.filled <= Held(c.trade)
              /\ After(r) = IF r.filled = Held(c.trade) THEN "FLAT" ELSE "UNRESOLVED"
<1>1. r.cmd = c /\ c.trade \in Trades /\ c.kind \in Kinds /\ c.quantity \in Nat
  BY DEF IInv, Work, Command, Settled
<1>2. r.filled \in Nat /\ r.filled <= c.quantity /\ (r.filled = 0 => r.status \in {"NO_FILL", "BLOCKED"})
  BY <1>1 DEF Settled
<1>3. CASE c.kind = "ENTRY_IOC"
  <2>1. trade[c.trade].state = "PENDING"
    BY <1>3 DEF Fits
  <2>2. After(r) = IF r.filled > 0 THEN "ACTIVE" ELSE r.status
    BY <1>1, <1>3 DEF After
  <2> QED
    BY <1>2, <1>3, <2>1, <2>2
<1>4. CASE c.kind # "ENTRY_IOC"
  <2>1. trade[c.trade].state = "ACTIVE" /\ c.kind \in Exits
    BY <1>1, <1>4 DEF Fits, Kinds
  <2>2. c.quantity = Held(c.trade)
    BY <2>1 DEF IInv, Sized
  <2>3. Held(c.trade) \in Nat /\ Held(c.trade) > 0 /\ Sold(c.trade) = 0
    BY <1>1, <2>1 DEF IInv, Stands
  <2>4. After(r) = IF r.filled > 0 /\ Sold(c.trade) + r.filled = Held(c.trade)
                   THEN "FLAT" ELSE "UNRESOLVED"
    BY <1>1, <1>4 DEF After, Held, Sold
  <2> QED
    BY <1>2, <1>4, <2>1, <2>2, <2>3, <2>4
<1> QED
  BY <1>3, <1>4

LEMMA CompleteKeeps ==
  ASSUME IInv, Complete
  PROVE  IInv'
<1>0. PICK t \in Trades : t = cmd.trade
  BY DEF IInv, Work, Command, Complete
<1> DEFINE r == Outcome(cmd).receipt  next == Outcome(cmd).next
<1>1. cmd \in pending /\ cmd \in prepared /\ Command(cmd)
  BY DEF IInv, Work, Complete
<1>2. Settled(cmd, liquidity, r, next)
  BY <1>1, OutcomeSettles DEF IInv
<1> HIDE DEF r, next
<1>3. /\ receipts' = receipts \cup {r} /\ liquidity' = next
      /\ Journal(t, cmd.kind, After(r), r.filled, Arrival(cmd))
      /\ trade' = [trade EXCEPT ![t].state = After(r)]
      /\ pending' = pending \ {cmd} /\ at' = "result"
      /\ UNCHANGED <<now, prepared, result, cmd, asOf, recovering, todo>>
      /\ Arrival(cmd) >= liquidity.arrival /\ Fits(cmd)
  BY <1>0 DEF Complete, r, next
<1>4. /\ cmd.kind = "ENTRY_IOC" =>
           /\ trade[t].state = "PENDING"
           /\ After(r) \in {"ACTIVE", "NO_FILL", "BLOCKED"} /\ (After(r) = "ACTIVE" <=> r.filled > 0)
      /\ cmd.kind # "ENTRY_IOC" =>
           /\ trade[t].state = "ACTIVE" /\ cmd.kind \in Exits
           /\ r.filled <= Held(t)
           /\ After(r) = IF r.filled = Held(t) THEN "FLAT" ELSE "UNRESOLVED"
  BY <1>0, <1>1, <1>2, <1>3, AfterFacts
<1>5. /\ r.cmd = cmd /\ r.filled \in Nat /\ r \notin receipts
      /\ next \in Liquidities /\ next.arrival = Arrival(cmd)
  <2>1. cmd.quantity \in Nat
    BY <1>1 DEF Command
  <2>2. r.cmd = cmd /\ r.filled \in Nat /\ next \in Liquidities /\ next.arrival = Arrival(cmd)
    BY <2>1, <1>2 DEF Settled
  <2> QED
    BY <2>2, <1>1 DEF IInv, Reports
<1>6. After(r) \in States /\ Arrival(cmd) \in Nat /\ cmd.kind \in Kinds
  <2>1. After(r) \in {"ACTIVE", "NO_FILL", "BLOCKED", "FLAT", "UNRESOLVED"}
    BY <1>4
  <2>2. next.arrival \in Nat
    BY <1>5 DEF Liquidities
  <2> QED
    BY <1>1, <1>5, <2>1, <2>2 DEF States, Terminal, Command
<1>7. /\ journal' \in [Trades -> Seq(Events)]
      /\ \A u \in Trades \ {t} : \A kinds : Filled(u, kinds)' = Filled(u, kinds)
      /\ \A kinds : Filled(t, kinds)' = Filled(t, kinds) + (IF cmd.kind \in kinds THEN r.filled ELSE 0)
  <2>1. Types /\ cmd.kind \in {"ADMITTED", "ENDED"} \cup Kinds
    BY <1>6 DEF IInv
  <2>2. Journal(t, cmd.kind, After(r), r.filled, Arrival(cmd))
    BY <1>3
  <2>3. Extends(t, cmd.kind, r.filled)
    BY <1>5, <1>6, <2>1, <2>2, FilledMore
  <2> QED
    BY <2>3 DEF Extends
<1>8. /\ trade' \in [Trades -> [state : States, created : Nat]]
      /\ trade'[t].state = After(r) /\ \A u \in Trades \ {t} : trade'[u] = trade[u]
  BY <1>1, <1>3, <1>6 DEF IInv, Types
<1>9. Types'
  BY <1>3, <1>5, <1>7, <1>8 DEF IInv, Types
<1>10. Work'
  <2>1. \A c \in prepared' : Command(c)
    BY <1>3 DEF IInv, Work
  <2>2. pending' \subseteq prepared' /\ todo' \subseteq prepared' /\ at' # "evaluate"
    BY <1>3 DEF IInv, Work
  <2> QED
    BY <2>1, <2>2 DEF Work, Command
<1>11. Reports'
  <2>1. IsFiniteSet(receipts')
    BY <1>3, FS_AddElement DEF IInv, Reports
  <2>2. \A l \in Levels : Taken(r, l) \in Nat
    BY <1>2 DEF Settled
  <2>3. \A q \in receipts' : q.cmd \in prepared' \ pending' /\ q.filled \in Nat
          /\ \A l \in Levels : Taken(q, l) \in Nat
    BY <1>1, <1>3, <1>5, <2>2 DEF IInv, Reports
  <2> QED
    BY <2>1, <2>3 DEF Reports, Taken
<1>12. \A u \in Trades : \A kinds :
         Quantity(u, kinds)' = Quantity(u, kinds) + (IF t = u /\ cmd.kind \in kinds THEN r.filled ELSE 0)
  BY <1>0, <1>3, <1>5, QuantityMore DEF IInv, Reports
<1>13. ASSUME NEW u \in Trades PROVE Stands(u)'
  <2>0. Stands(u) /\ result'[u] = result[u]
    BY <1>3 DEF IInv
  <2>1. CASE u # t
    <3>1. Held(u)' = Held(u) /\ Sold(u)' = Sold(u) /\ trade'[u] = trade[u]
      BY <1>7, <1>8, <2>1 DEF Held, Sold
    <3>2. Held(u) \in Nat /\ Sold(u) \in Nat
          /\ Quantity(u, {"ENTRY_IOC"}) = Held(u) /\ Quantity(u, Exits) = Sold(u)
      BY <2>0 DEF Stands
    <3>3. Quantity(u, {"ENTRY_IOC"})' = Quantity(u, {"ENTRY_IOC"}) /\ Quantity(u, Exits)' = Quantity(u, Exits)
      BY <1>12, <2>1, <3>2
    <3> QED
      BY <2>0, <3>1, <3>3 DEF Stands
  <2>2. CASE u = t
    <3>0. /\ Held(t) \in Nat /\ Sold(t) \in Nat
          /\ Quantity(t, {"ENTRY_IOC"}) = Held(t) /\ Quantity(t, Exits) = Sold(t)
          /\ (trade[t].state = "PENDING" => Held(t) = 0 /\ Sold(t) = 0)
          /\ (trade[t].state = "ACTIVE" => Held(t) > 0 /\ Sold(t) = 0)
          /\ (trade[t].state \in {"PENDING", "ACTIVE"} => result[t] = NoResult)
      BY <2>0, <2>2 DEF Stands, Terminal
    <3>1. /\ Held(t)' = Held(t) + (IF cmd.kind \in {"ENTRY_IOC"} THEN r.filled ELSE 0)
          /\ Sold(t)' = Sold(t) + (IF cmd.kind \in Exits THEN r.filled ELSE 0)
          /\ Quantity(t, {"ENTRY_IOC"})' = Held(t) + (IF cmd.kind \in {"ENTRY_IOC"} THEN r.filled ELSE 0)
          /\ Quantity(t, Exits)' = Sold(t) + (IF cmd.kind \in Exits THEN r.filled ELSE 0)
      <4>1. /\ Held(t)' = Held(t) + (IF cmd.kind \in {"ENTRY_IOC"} THEN r.filled ELSE 0)
            /\ Sold(t)' = Sold(t) + (IF cmd.kind \in Exits THEN r.filled ELSE 0)
        BY <1>7 DEF Held, Sold
      <4> QED
        BY <1>12, <3>0, <4>1
    <3>2. CASE cmd.kind = "ENTRY_IOC"
      <4>1. cmd.kind \notin Exits
        BY <3>2 DEF Exits
      <4>2. /\ Held(t)' = r.filled /\ Sold(t)' = 0
            /\ Quantity(t, {"ENTRY_IOC"})' = r.filled /\ Quantity(t, Exits)' = 0
            /\ result[t] = NoResult
        BY <1>4, <1>5, <3>0, <3>1, <3>2, <4>1
      <4>3. /\ trade'[t].state \in {"ACTIVE", "NO_FILL", "BLOCKED"}
            /\ (trade'[t].state = "ACTIVE" <=> r.filled > 0)
        BY <1>4, <1>8, <3>2
      <4>4. r.filled = 0 \/ r.filled > 0
        BY <1>5
      <4> QED
        BY <1>5, <2>0, <2>2, <4>2, <4>3, <4>4 DEF Stands, Terminal
    <3>3. CASE cmd.kind # "ENTRY_IOC"
      <4>1. cmd.kind \in Exits /\ r.filled <= Held(t) /\ trade[t].state = "ACTIVE"
        BY <1>4, <3>3
      <4>2. /\ Held(t)' = Held(t) /\ Sold(t)' = r.filled /\ Held(t) > 0 /\ Held(t) \in Nat
            /\ Quantity(t, {"ENTRY_IOC"})' = Held(t) /\ Quantity(t, Exits)' = r.filled
            /\ result[t] = NoResult
        BY <1>5, <3>0, <3>1, <3>3, <4>1
      <4>3. trade'[t].state = IF r.filled = Held(t) THEN "FLAT" ELSE "UNRESOLVED"
        BY <1>4, <1>8, <3>3
      <4> QED
        BY <1>5, <2>0, <2>2, <4>1, <4>2, <4>3 DEF Stands
    <3> QED
      BY <3>2, <3>3
  <2> QED
    BY <2>1, <2>2
<1>14. Sized'
  <2>1. ASSUME NEW c \in prepared, c.kind \in Exits
        PROVE  c.quantity = Held(c.trade)' /\ trade'[c.trade].state \in {"ACTIVE", "FLAT", "UNRESOLVED"}
    <3>1. /\ c.trade \in Trades /\ c.quantity = Held(c.trade)
          /\ trade[c.trade].state \in {"ACTIVE", "FLAT", "UNRESOLVED"}
      BY <2>1 DEF IInv, Work, Command, Sized
    <3>2. CASE c.trade # t
      BY <1>7, <1>8, <3>1, <3>2 DEF Held
    <3>3. CASE c.trade = t
      <4>1. cmd.kind # "ENTRY_IOC" /\ cmd.kind \notin {"ENTRY_IOC"}
        BY <1>4, <3>1, <3>3
      <4>2. Held(t) \in Nat /\ Held(t)' = Held(t) + 0
        <5>1. Held(t) \in Nat
          BY <1>1 DEF IInv, Stands
        <5> QED
          BY <5>1, <1>7, <4>1 DEF Held
      <4>3. trade'[t].state \in {"FLAT", "UNRESOLVED"}
        BY <1>4, <1>8, <4>1
      <4> QED
        BY <3>1, <3>3, <4>2, <4>3
    <3> QED
      BY <3>2, <3>3
  <2> QED
    BY <2>1, <1>3 DEF Sized
<1>15. DepthSpentOnce'
  <2> SUFFICES ASSUME NEW l \in Levels
               PROVE  /\ next.consumed[l] = Spent(l)'
                      /\ Spent(l)' > 0 => \E n \in DOMAIN Tape :
                           /\ Tape[n].persisted <= next.arrival
                           /\ \E i \in DOMAIN Side(Tape[n], l[1]) :
                                LET level == Side(Tape[n], l[1])[i] IN
                                level.price = l[2] /\ Spent(l)' <= Shown(level)
    BY <1>3 DEF DepthSpentOnce, Spent, Shown
  <2>1. /\ Taken(r, l) \in Nat /\ next.consumed[l] = liquidity.consumed[l] + Taken(r, l)
        /\ Taken(r, l) > 0 => \E n \in Seen(cmd) : \E i \in DOMAIN Side(Tape[n], l[1]) :
             LET level == Side(Tape[n], l[1])[i] IN
             level.price = l[2] /\ next.consumed[l] <= Shown(level)
    BY <1>2 DEF Settled
  <2>2. /\ liquidity.consumed[l] = Spent(l)
        /\ Spent(l) > 0 => \E n \in DOMAIN Tape :
             /\ Tape[n].persisted <= liquidity.arrival
             /\ \E i \in DOMAIN Side(Tape[n], l[1]) :
                  LET level == Side(Tape[n], l[1])[i] IN
                  level.price = l[2] /\ Spent(l) <= Shown(level)
    BY DEF IInv, DepthSpentOnce, Spent, Shown
  <2>3. Spent(l) \in Nat /\ Spent(l)' = Spent(l) + Taken(r, l)
    <3>1. IsFiniteSet(receipts) /\ \A q \in receipts : Taken(q, l) \in Nat
      BY DEF IInv, Reports
    <3> QED
      BY <1>3, <1>5, <2>1, <3>1, SpentMore
  <2>4. next.consumed[l] = Spent(l)'
    BY <2>1, <2>2, <2>3
  <2>5. CASE Taken(r, l) = 0
    <3>1. Spent(l)' = Spent(l)
      BY <2>3, <2>5
    <3>2. \A n \in DOMAIN Tape : Tape[n].persisted <= liquidity.arrival => Tape[n].persisted <= next.arrival
      <4>1. liquidity.arrival \in Nat /\ next.arrival \in Nat /\ next.arrival >= liquidity.arrival
        BY <1>3, <1>5, <1>6 DEF IInv, Types, Liquidities
      <4> QED
        BY <4>1, TapeFacts
    <3> QED
      BY <2>2, <2>4, <3>1, <3>2
  <2>6. CASE Taken(r, l) > 0
    <3>1. PICK n \in Seen(cmd) : \E i \in DOMAIN Side(Tape[n], l[1]) :
             LET level == Side(Tape[n], l[1])[i] IN
             level.price = l[2] /\ next.consumed[l] <= Shown(level)
      BY <2>1, <2>6
    <3>2. n \in DOMAIN Tape /\ Tape[n].persisted <= next.arrival
      BY <1>5 DEF Seen
    <3> QED
      BY <2>4, <3>1, <3>2
  <2> QED
    BY <2>1, <2>5, <2>6
<1>16. NoHindsight'
  <2>1. ASSUME r.filled > 0
        PROVE  /\ Tape[r.frame].persisted <= Arrival(r.cmd)
               /\ \A n \in DOMAIN Tape : n > r.frame => Tape[n].persisted > Arrival(r.cmd)
    <3>1. r.frame \in Seen(cmd) /\ \A n \in Seen(cmd) : n <= r.frame
      BY <1>2, <2>1 DEF Settled
    <3>2. r.frame \in DOMAIN Tape /\ Tape[r.frame].persisted <= Arrival(cmd)
      BY <3>1 DEF Seen
    <3>3. ASSUME NEW n \in DOMAIN Tape, n > r.frame PROVE Tape[n].persisted > Arrival(cmd)
      <4>1. n \in Nat /\ r.frame \in Nat /\ Tape[n].persisted \in Nat
        BY <3>2, TapeFacts
      <4>2. n \notin Seen(cmd)
        BY <3>1, <3>3, <4>1
      <4>3. ~ (Tape[n].persisted <= Arrival(cmd))
        BY <4>2 DEF Seen
      <4> QED
        BY <1>6, <4>1, <4>3
    <3> QED
      BY <1>5, <3>2, <3>3
  <2>2. \A q \in receipts : q.filled > 0 =>
          /\ Tape[q.frame].persisted <= Arrival(q.cmd)
          /\ \A n \in DOMAIN Tape : n > q.frame => Tape[n].persisted > Arrival(q.cmd)
    BY DEF IInv, NoHindsight
  <2> QED
    BY <1>3, <2>1, <2>2 DEF NoHindsight, Arrival
<1> QED
  BY <1>9, <1>10, <1>11, <1>13, <1>14, <1>15, <1>16 DEF IInv

-----------------------------------------------------------------------------
(* The theorems *)

LEMMA StepKeepsIInv == IInv /\ [Next]_vars => IInv'
<1> SUFFICES ASSUME IInv, [Next]_vars PROVE IInv'
  OBVIOUS
<1>0. now \in Nat /\ asOf \in Nat /\ todo \subseteq prepared /\ pending \subseteq prepared
      /\ (at = "evaluate" => cmd \in pending)
  BY DEF IInv, Types, Work
<1>1. ASSUME NEW t \in Trades,
             CreateTrade(t) \/ AdmitTrade(t) \/ SubmitEntry(t)
             \/ \E bar \in Bars : CloseBar(t, bar) \/ EndSession(t, bar)
      PROVE  IInv'
  BY <1>1, CreateKeeps, AdmitKeeps, PrepareKeeps, EndKeeps
<1>2. CASE Recover
  BY <1>0, <1>2, StoreSame DEF Recover
<1>3. CASE Wait
  BY <1>0, <1>3, StoreSame DEF Wait, Return
<1>4. CASE Complete
  BY <1>4, CompleteKeeps
<1>5. CASE Reject
  BY <1>0, <1>5, StoreSame DEF Reject, Raise
<1>6. CASE EnsureResult
  BY <1>6, RecordKeeps DEF EnsureResult, Return
<1>7. CASE Resume
  BY <1>7, PrepareKeeps
<1>8. CASE Repair
  BY <1>8, RecordKeeps DEF Repair, runner
<1>9. CASE Recovered
  BY <1>0, <1>9, StoreSame DEF Recovered
<1>10. CASE Crash
  BY <1>0, <1>10, StoreSame DEF Crash
<1>11. CASE Tick
  BY <1>0, <1>11, StoreSame DEF Tick, runner
<1>12. CASE UNCHANGED vars
  BY <1>0, <1>12, StoreSame DEF vars, runner
<1> QED
  BY <1>1, <1>2, <1>3, <1>4, <1>5, <1>6, <1>7, <1>8, <1>9, <1>10, <1>11, <1>12 DEF Next, Step

LEMMA IInvAlways == Spec => []IInv
  BY InitIInv, StepKeepsIInv, PTL DEF Spec

\* Displayed depth is spent once, on any tape and for any trades: complete_command
\* commits the receipt with the private state, and _walk subtracts from it.
THEOREM SimulationDepthSpentOnce == Spec => []DepthSpentOnce
<1>1. IInv => DepthSpentOnce
  BY DEF IInv
<1> QED
  BY <1>1, IInvAlways, PTL

\* No fill looks ahead of the arrival of its command, and none looks behind:
\* the frame of every fill is the last that was durable then.
THEOREM SimulationNoHindsight == Spec => []NoHindsight
<1>1. IInv => NoHindsight
  BY DEF IInv
<1> QED
  BY <1>1, IInvAlways, PTL

\* The receipts, the journal, the state and the result of a trade agree on
\* what it bought and sold, whatever was replayed, crashed or recovered.
THEOREM SimulationExposureConserved == Spec => []ExposureConserved
<1>1. ASSUME IInv PROVE ExposureConserved
  <2> SUFFICES ASSUME NEW t \in Trades
               PROVE  /\ Sold(t) <= Held(t) /\ Quantity(t, {"ENTRY_IOC"}) = Held(t)
                      /\ Quantity(t, Exits) = Sold(t)
                      /\ (trade[t].state = "FLAT") = (Held(t) > 0 /\ Sold(t) = Held(t))
                      /\ result[t] # NoResult =>
                           /\ result[t].final = trade[t].state
                           /\ result[t].entry = Held(t) /\ result[t].exit = Sold(t)
    BY <1>1 DEF IInv, Stands, ExposureConserved, Held, Sold
  <2>1. trade[t].state \in States
    BY <1>1 DEF IInv, Types
  <2>2. Stands(t)
    BY <1>1 DEF IInv
  <2>3. Sold(t) <= Held(t) /\ ((trade[t].state = "FLAT") <=> (Held(t) > 0 /\ Sold(t) = Held(t)))
    BY <2>1, <2>2 DEF Stands, States, Terminal
  <2> QED
    BY <2>2, <2>3 DEF Stands
<1> QED
  BY <1>1, IInvAlways, PTL

-----------------------------------------------------------------------------
(* A command that has missed its turn *)

\* A trade has neither a journal nor an entry command before it is created.
Begun ==
  /\ \A t \in Trades : trade[t].state = "none" => journal[t] = <<>>
  /\ \A c \in prepared : c.kind = "ENTRY_IOC" => trade[c.trade].state # "none"

\* A trade only goes forward, and so does the logical time of the session.
Forward ==
  /\ \A t \in Trades :
       /\ trade[t].state # "none" => trade'[t].state # "none"
       /\ trade[t].state \notin {"none", "PENDING"} => trade'[t].state # "PENDING"
       /\ trade[t].state \in Terminal => trade'[t].state \in Terminal
  /\ liquidity'.arrival >= liquidity.arrival

LEMMA StepForward ==
  ASSUME IInv, Next
  PROVE  Forward
<1>0. liquidity.arrival \in Nat /\ trade \in [Trades -> [state : States, created : Nat]]
  BY DEF IInv, Types, Liquidities
<1>1. ASSUME NEW t \in Trades, CreateTrade(t) PROVE Forward
  BY <1>0, <1>1 DEF CreateTrade, Forward, Terminal
<1>2. ASSUME NEW t \in Trades, NEW bar \in Bars, EndSession(t, bar) PROVE Forward
  BY <1>0, <1>2 DEF EndSession, Forward, Terminal
<1>3. ASSUME Complete PROVE Forward
  <2>0. PICK t \in Trades : t = cmd.trade
    BY <1>3 DEF IInv, Work, Command, Complete
  <2> DEFINE r == Outcome(cmd).receipt  next == Outcome(cmd).next
  <2>1. cmd \in prepared /\ Settled(cmd, liquidity, r, next)
    BY <1>3, OutcomeSettles DEF IInv, Work, Complete
  <2> HIDE DEF r, next
  <2>2. /\ liquidity' = next /\ trade' = [trade EXCEPT ![t].state = After(r)]
        /\ Arrival(cmd) >= liquidity.arrival /\ Fits(cmd)
    BY <1>3, <2>0 DEF Complete, r, next
  <2>3. next.arrival = Arrival(cmd)
    <3>1. cmd.quantity \in Nat
      BY <2>1 DEF IInv, Work, Command
    <3> QED
      BY <2>1, <3>1 DEF Settled
  <2>4. \/ trade[t].state = "PENDING" /\ After(r) \in {"ACTIVE", "NO_FILL", "BLOCKED"}
        \/ trade[t].state = "ACTIVE" /\ After(r) \in {"FLAT", "UNRESOLVED"}
    BY <2>0, <2>1, <2>2, AfterFacts
  <2>5. trade'[t].state = After(r) /\ \A u \in Trades \ {t} : trade'[u] = trade[u]
    BY <1>0, <2>2
  <2> QED
    BY <2>2, <2>3, <2>4, <2>5 DEF Forward, Terminal
<1>4. ASSUME UNCHANGED <<trade, liquidity>> PROVE Forward
  BY <1>0, <1>4 DEF Forward
<1> QED
  BY <1>1, <1>2, <1>3, <1>4
  DEF Next, Step, AdmitTrade, SubmitEntry, CloseBar, Recover, Wait, Reject, EnsureResult, Resume,
      Repair, Recovered, Crash, Tick, store

LEMMA StepBegun == IInv /\ Begun /\ [Next]_vars => Begun'
<1> SUFFICES ASSUME IInv, Begun, [Next]_vars PROVE Begun'
  OBVIOUS
<1>0. /\ \A c \in prepared : c.trade \in Trades /\ c.kind \in Kinds
      /\ trade \in [Trades -> [state : States, created : Nat]]
      /\ \A t \in Trades : trade[t].state # "none" => trade'[t].state # "none"
  BY StepForward DEF IInv, Types, Work, Command, vars, store, Forward
<1>1. ASSUME prepared' = prepared, UNCHANGED journal PROVE Begun'
  BY <1>0, <1>1 DEF Begun
<1>2. ASSUME NEW c, prepared' = prepared \cup {c}, UNCHANGED <<trade, journal>>,
             c.kind = "ENTRY_IOC" => trade[c.trade].state # "none"
      PROVE  Begun'
  BY <1>2 DEF Begun
<1>3. ASSUME NEW t \in Trades, trade[t].state # "none", UNCHANGED prepared,
             \A u \in Trades \ {t} : journal'[u] = journal[u]
      PROVE  Begun'
  BY <1>0, <1>3 DEF Begun
<1>4. ASSUME NEW t \in Trades, SubmitEntry(t) PROVE Begun'
  <2>1. trade[t].state # "none" /\ EntryCommand(t).trade = t
    BY <1>4, EntryFacts DEF Begun, SubmitEntry, IInv
  <2> QED
    BY <1>4, <2>1, <1>2 DEF SubmitEntry, Process
<1>5. ASSUME NEW t \in Trades, NEW bar \in Bars, CloseBar(t, bar) PROVE Begun'
  <2> DEFINE c == ExitCommand(t, bar, Trigger(t, bar))
  <2>1. c.kind \in Exits
    BY <1>5, ExitFacts DEF CloseBar
  <2>2. prepared' = prepared \cup {c} /\ UNCHANGED <<trade, journal>>
    BY <1>5 DEF CloseBar, Process
  <2> HIDE DEF c
  <2> QED
    BY <2>1, <2>2, <1>2 DEF Exits
<1>6. ASSUME Resume PROVE Begun'
  <2>1. PICK c \in todo : Process(c)
    BY <1>6 DEF Resume
  <2>2. c \in prepared /\ prepared' = prepared \cup {c}
    BY <2>1 DEF Process, IInv, Work
  <2> QED
    BY <1>6, <2>2, <1>1 DEF Resume
<1>7. ASSUME NEW t \in Trades, AdmitTrade(t) PROVE Begun'
  BY <1>7, <1>3 DEF AdmitTrade, Journal, IInv, Types
<1>8. ASSUME NEW t \in Trades, NEW bar \in Bars, EndSession(t, bar) PROVE Begun'
  BY <1>8, <1>3 DEF EndSession, Journal, IInv, Types
<1>9. ASSUME Complete PROVE Begun'
  <2>0. PICK t \in Trades : t = cmd.trade
    BY <1>9 DEF IInv, Work, Command, Complete
  <2>1. trade[t].state # "none"
    BY <1>9, <2>0 DEF Complete, Fits
  <2> QED
    BY <1>9, <2>0, <2>1, <1>3 DEF Complete, Journal, IInv, Types
<1> QED
  BY <1>1, <1>4, <1>5, <1>6, <1>7, <1>8, <1>9
  DEF Next, Step, CreateTrade, Recover, Wait, Reject, EnsureResult, Repair, Recovered, Crash, Tick,
      vars, store

\* A command that missed its turn stays where it stops every later recovery:
\* the logical time of the session and the state of its trade only go forward,
\* and only its own completion would take it off the list.
THEOREM SimulationPoisonLasts == Spec => PoisonLasts
<1>1. Init => Begun
  BY DEF Init, Begun
<1>2. IInv /\ Begun /\ [Next]_vars => (Poisoned => Poisoned')
  <2> SUFFICES ASSUME IInv, Begun, [Next]_vars,
                      NEW c \in pending, Arrival(c) < liquidity.arrival \/ ~ Fits(c)
               PROVE  c \in pending' /\ (Arrival(c) < liquidity'.arrival \/ ~ Fits(c)')
    BY DEF Poisoned, Arrival
  <2>0. /\ c \in prepared /\ c.trade \in Trades /\ c.kind \in Kinds /\ Arrival(c) \in Nat
        /\ liquidity.arrival \in Nat /\ liquidity'.arrival \in Nat
    <3>1. IInv'
      BY StepKeepsIInv
    <3> QED
      BY <3>1, SimulationAssumption DEF IInv, Types, Liquidities, Work, Command, Arrival
  <2>1. Forward
    BY <2>0, StepForward DEF vars, store, Forward
  <2>2. c \in pending'
    <3>1. ASSUME Complete PROVE c \in pending'
      <4>1. /\ pending' = pending \ {cmd}
            /\ Arrival(cmd) >= liquidity.arrival /\ Fits(cmd)
        BY <3>1 DEF Complete
      <4>2. c # cmd
        BY <2>0, <4>1
      <4> QED
        BY <4>1, <4>2
    <3> QED
      BY <3>1 DEF Next, Step, CreateTrade, AdmitTrade, SubmitEntry, CloseBar, EndSession, Recover, Wait,
          Reject, EnsureResult, Resume, Repair, Recovered, Crash, Tick, Process, vars, store
  <2>3. CASE Arrival(c) < liquidity.arrival
    BY <2>0, <2>1, <2>2, <2>3 DEF Forward
  <2>4. CASE ~ Fits(c)
    <3>1. CASE c.kind = "ENTRY_IOC"
      BY <2>0, <2>1, <2>2, <2>4, <3>1 DEF Fits, Begun, Forward
    <3>2. CASE c.kind # "ENTRY_IOC"
      <4>1. trade[c.trade].state \in {"FLAT", "UNRESOLVED"}
        BY <2>0, <2>4, <3>2 DEF Fits, Kinds, IInv, Sized
      <4>2. trade'[c.trade].state # "ACTIVE"
        BY <2>0, <2>1, <4>1 DEF Forward, Terminal
      <4> QED
        BY <2>2, <3>2, <4>2 DEF Fits
    <3> QED
      BY <3>1, <3>2
  <2> QED
    BY <2>3, <2>4
<1>3. IInv /\ Begun /\ [Next]_vars => Begun'
  BY StepBegun
<1> QED
  BY <1>1, <1>2, <1>3, IInvAlways, PTL DEF Spec, PoisonLasts

=============================================================================
