--------------------------- MODULE MarkersProofs ---------------------------
(***************************************************************************)
(* Proofs about Markers, for any datatypes over any types of finite        *)
(* height.  What is defined by recursion on types satisfies its equation   *)
(* (lemma Recursion), and a statement about all types is proved of a       *)
(* lowest type that would violate it.                                      *)
(***************************************************************************)
EXTENDS Markers, FiniteSetTheorems, WellFoundedInduction, TLAPS

\* A set of numbers has a least one.
LEMMA LeastExists ==
  ASSUME NEW numbers \in SUBSET Nat, numbers # {}
  PROVE  \E k \in numbers : \A j \in numbers : k <= j
<1>1. IsWellFoundedOn(OpToRel(<, Nat), Nat)
  BY NatLessThanWellFounded
<1>2. PICK k \in numbers : \A j \in numbers : <<j, k>> \notin OpToRel(<, Nat)
  BY <1>1, WFMin
<1>3. \A j \in numbers : ~(j < k)
  BY <1>2 DEF OpToRel
<1> QED  BY <1>3

\* What has heights has a lowest.
LEMMA LowestExists ==
  ASSUME NEW S, NEW h \in [S -> Nat], NEW T \in SUBSET S, T # {}
  PROVE  \E x \in T : \A y \in T : h[x] <= h[y]
<1> DEFINE numbers == {h[x] : x \in T}
<1>1. numbers \in SUBSET Nat /\ numbers # {}
  OBVIOUS
<1>2. PICK k \in numbers : \A j \in numbers : k <= j
  <2> HIDE DEF numbers
  <2> QED  BY <1>1, LeastExists
<1> QED  BY <1>2

\* step[x][f]: the value at x of a function that is f below x.
Steps(S, V, h, step) ==
  /\ V # {} /\ h \in [S -> Nat] /\ step \in [S -> [[S -> V] -> V]]
  /\ \A x \in S : \A f, g \in [S -> V] :
       (\A y \in S : h[y] < h[x] => f[y] = g[y]) => step[x][f] = step[x][g]

\* There is a function that is defined by its values below.
LEMMA Recursion ==
  ASSUME NEW S, NEW V, NEW h, NEW step, Steps(S, V, h, step)
  PROVE  \E f \in [S -> V] : \A x \in S : f[x] = step[x][f]
<1> /\ V # {} /\ h \in [S -> Nat] /\ step \in [S -> [[S -> V] -> V]]
    /\ \A x \in S : \A f, g \in [S -> V] :
         (\A y \in S : h[y] < h[x] => f[y] = g[y]) => step[x][f] = step[x][g]
  BY DEF Steps
<1> DEFINE Good(n, f) == f \in [S -> V] /\ \A x \in S : h[x] < n => f[x] = step[x][f]
           bad == {n \in Nat : ~ \E f : Good(n, f)}
<1>1. bad = {}
  <2> SUFFICES ASSUME bad # {} PROVE FALSE
    OBVIOUS
  <2>1. PICK n \in bad : \A j \in bad : n <= j
    <3>1. bad \in SUBSET Nat
      OBVIOUS
    <3> HIDE DEF bad
    <3> QED  BY <3>1, LeastExists
  <2>2. n \in Nat /\ ~ \E f : Good(n, f)
    BY <2>1
  <2>3. CASE n = 0
    <3>1. PICK v \in V : TRUE
      OBVIOUS
    <3>2. Good(0, [x \in S |-> v])
      OBVIOUS
    <3> HIDE DEF Good
    <3> QED  BY <2>2, <2>3, <3>2
  <2>4. CASE n # 0
    <3>1. n - 1 \in Nat /\ n - 1 \notin bad
      <4>1. n - 1 \in Nat /\ ~(n <= n - 1)
        BY <2>2, <2>4
      <4> HIDE DEF bad
      <4> QED  BY <2>1, <4>1
    <3>2. PICK f : Good(n - 1, f)
      <4> HIDE DEF Good
      <4> QED  BY <3>1
    <3> DEFINE g == [x \in S |-> IF h[x] < n - 1 THEN f[x] ELSE step[x][f]]
    <3>3. g \in [S -> V]
      BY <3>2
    <3>4. ASSUME NEW x \in S, h[x] < n PROVE g[x] = step[x][g]
      <4>1. \A y \in S : h[y] < h[x] => f[y] = g[y]
        BY <3>4, <2>2
      <4>2. step[x][f] = step[x][g]
        <5> HIDE DEF g
        <5> QED  BY <4>1, <3>2, <3>3
      <4>3. g[x] = step[x][f]
        BY <3>2
      <4> QED  BY <4>2, <4>3
    <3>5. Good(n, g)
      <4> HIDE DEF g
      <4> QED  BY <3>3, <3>4
    <3> HIDE DEF Good, g
    <3> QED  BY <2>2, <3>5
  <2> QED  BY <2>3, <2>4
<1>2. ASSUME NEW n \in Nat, NEW f, NEW g, Good(n, f), Good(n, g), NEW x \in S, h[x] < n
      PROVE  f[x] = g[x]
  <2> DEFINE differ == {y \in S : h[y] < n /\ f[y] # g[y]}
  <2> SUFFICES ASSUME differ # {} PROVE FALSE
    BY <1>2
  <2>1. PICK y \in differ : \A z \in differ : h[y] <= h[z]
    <3>1. differ \in SUBSET S
      OBVIOUS
    <3> HIDE DEF differ
    <3> QED  BY <3>1, LowestExists
  <2>2. \A z \in S : h[z] < h[y] => f[z] = g[z]
    BY <2>1
  <2>3. step[y][f] = step[y][g]
    BY <1>2, <2>2
  <2> QED  BY <1>2, <2>1, <2>3
<1> DEFINE chosen(n) == CHOOSE f : Good(n, f)
           whole == [x \in S |-> chosen(h[x] + 1)[x]]
<1>3. \A n \in Nat : Good(n, chosen(n))
  <2>1. \A n \in Nat : \E f : Good(n, f)
    BY <1>1
  <2> HIDE DEF Good
  <2> QED  BY <2>1
<1>4. \A x \in S : h[x] \in Nat /\ h[x] + 1 \in Nat
  OBVIOUS
<1>5. \A x \in S : chosen(h[x] + 1) \in [S -> V]
  <2>1. \A x \in S : Good(h[x] + 1, chosen(h[x] + 1))
    <3> HIDE DEF Good, chosen
    <3> QED  BY <1>3, <1>4
  <2> HIDE DEF chosen
  <2> QED  BY <2>1
<1>6. whole \in [S -> V]
  <2> HIDE DEF chosen
  <2> QED  BY <1>5
<1>7. ASSUME NEW x \in S PROVE whole[x] = step[x][whole]
  <2> DEFINE f == chosen(h[x] + 1)
  <2>1. Good(h[x] + 1, f)
    <3> HIDE DEF Good, chosen
    <3> QED  BY <1>3, <1>4 DEF f
  <2>2. ASSUME NEW y \in S, h[y] < h[x] PROVE f[y] = whole[y]
    <3>1. Good(h[y] + 1, chosen(h[y] + 1))
      <4> HIDE DEF Good, chosen
      <4> QED  BY <1>3, <1>4
    <3>2. Good(h[y] + 1, f)
      <4> HIDE DEF f
      <4> QED  BY <2>1, <2>2, <1>4
    <3>3. f[y] = chosen(h[y] + 1)[y]
      <4>1. h[y] + 1 \in Nat /\ h[y] < h[y] + 1
        BY <1>4
      <4> HIDE DEF Good, chosen, f
      <4> QED  BY <1>2, <3>1, <3>2, <4>1
    <3> HIDE DEF chosen, f
    <3> QED  BY <3>3
  <2>3. f \in [S -> V] /\ f[x] = step[x][f]
    <3> HIDE DEF f
    <3> QED  BY <2>1, <1>4
  <2>4. whole[x] = f[x]
    <3> HIDE DEF chosen
    <3> QED  OBVIOUS
  <2> HIDE DEF f, whole
  <2> QED  BY <2>2, <2>3, <2>4, <1>6
<1> HIDE DEF whole
<1> QED  BY <1>6, <1>7

-----------------------------------------------------------------------------
(* Types *)

\* The kinds of types there are, and that their parts lie below.
LEMMA TypeFacts ==
  ASSUME NEW ty \in Universe
  PROVE  /\ ty.type \in {"Scalar", "UID", "Parameter", "Vector", "Datatype"}
         /\ ty.type = "Scalar" => ty = Scalar
         /\ ty.type = "UID" => ty = UID
         /\ ty.type = "Parameter" => ty.index \in Nat /\ ty = Parameter(ty.index) /\ Height[ty] = 0
         /\ ty.type = "Vector" => ty = Vector(ty.of) /\ ty.of \in Universe /\ Height[ty.of] < Height[ty]
         /\ ty.type = "Datatype" =>
              /\ ty = Datatype(ty.name, ty.args) /\ Height[ty] > 0
              /\ ty.name \in Names /\ ty.args \in Seq(Universe)
              /\ \A k \in DOMAIN ty.args : ty.args[k] \in Universe /\ Height[ty.args[k]] < Height[ty]
BY UniverseAssumption DEF Below, Scalar, UID, Parameter, Vector, Datatype

LEMMA HeightType == Height \in [Universe -> Nat]
BY UniverseAssumption

SubstStep(t, f, args) ==
  IF t.type = "Parameter" THEN IF t.index \in DOMAIN args THEN args[t.index] ELSE t
  ELSE IF t.type = "Vector" THEN Vector(f[t.of])
  ELSE IF t.type = "Datatype" THEN Datatype(t.name, [k \in DOMAIN t.args |-> f[t.args[k]]])
  ELSE t

LEMMA SubstSteps ==
  ASSUME NEW args, NEW t \in Universe, NEW f, NEW g,
         \A y \in Universe : Height[y] < Height[t] => f[y] = g[y]
  PROVE  SubstStep(t, f, args) = SubstStep(t, g, args)
<1>1. CASE t.type = "Vector"
  <2>1. f[t.of] = g[t.of]
    BY <1>1, TypeFacts
  <2> QED  BY <1>1, <2>1 DEF SubstStep
<1>2. CASE t.type = "Datatype"
  <2>1. \A k \in DOMAIN t.args : f[t.args[k]] = g[t.args[k]]
    BY <1>2, TypeFacts
  <2> QED  BY <1>2, <2>1 DEF SubstStep
<1>3. CASE t.type \notin {"Vector", "Datatype"}
  BY <1>3 DEF SubstStep
<1> QED  BY <1>1, <1>2, <1>3

\* As Recursion, whose values are in no set given beforehand.
LEMMA SubstEquation ==
  ASSUME NEW args
  PROVE  \E f : /\ \A t \in Universe : f[t] = SubstStep(t, f, args)
                /\ \A t : Subst(t, args) = f[t]
<1> DEFINE Good(n, f) == \A x \in Universe : Height[x] < n => f[x] = SubstStep(x, f, args)
           bad == {n \in Nat : ~ \E f : Good(n, f)}
<1> Height \in [Universe -> Nat]
  BY HeightType
<1>1. bad = {}
  <2> SUFFICES ASSUME bad # {} PROVE FALSE
    OBVIOUS
  <2>1. PICK n \in bad : \A j \in bad : n <= j
    <3>1. bad \in SUBSET Nat
      OBVIOUS
    <3> HIDE DEF bad
    <3> QED  BY <3>1, LeastExists
  <2>2. n \in Nat /\ ~ \E f : Good(n, f)
    BY <2>1
  <2>3. CASE n = 0
    <3>1. Good(0, [x \in Universe |-> x])
      OBVIOUS
    <3> HIDE DEF Good
    <3> QED  BY <2>2, <2>3, <3>1
  <2>4. CASE n # 0
    <3>1. n - 1 \in Nat /\ n - 1 \notin bad
      <4>1. n - 1 \in Nat /\ ~(n <= n - 1)
        BY <2>2, <2>4
      <4> HIDE DEF bad
      <4> QED  BY <2>1, <4>1
    <3>2. PICK f : Good(n - 1, f)
      <4> HIDE DEF Good
      <4> QED  BY <3>1
    <3> DEFINE g == [x \in Universe |-> SubstStep(x, f, args)]
    <3>3. \A x \in Universe : Height[x] < n - 1 => f[x] = g[x]
      BY <3>2
    <3>4. ASSUME NEW x \in Universe, Height[x] < n PROVE g[x] = SubstStep(x, g, args)
      <4>1. \A y \in Universe : Height[y] < Height[x] => f[y] = g[y]
        <5> HIDE DEF g
        <5> QED  BY <3>3, <3>4, <2>2
      <4>2. SubstStep(x, f, args) = SubstStep(x, g, args)
        <5> HIDE DEF g
        <5> QED  BY <4>1, SubstSteps
      <4>3. g[x] = SubstStep(x, f, args)
        OBVIOUS
      <4> HIDE DEF g
      <4> QED  BY <4>2, <4>3
    <3>5. Good(n, g)
      <4> HIDE DEF g
      <4> QED  BY <3>4
    <3> HIDE DEF Good, g
    <3> QED  BY <2>2, <3>5
  <2> QED  BY <2>3, <2>4
<1>2. ASSUME NEW n \in Nat, NEW f, NEW g, Good(n, f), Good(n, g), NEW x \in Universe, Height[x] < n
      PROVE  f[x] = g[x]
  <2> DEFINE differ == {y \in Universe : Height[y] < n /\ f[y] # g[y]}
  <2> SUFFICES ASSUME differ # {} PROVE FALSE
    BY <1>2
  <2>1. PICK y \in differ : \A z \in differ : Height[y] <= Height[z]
    <3>1. differ \in SUBSET Universe
      OBVIOUS
    <3> HIDE DEF differ
    <3> QED  BY <3>1, LowestExists
  <2>2. y \in Universe /\ Height[y] < n /\ f[y] # g[y]
    BY <2>1
  <2>3. \A z \in Universe : Height[z] < Height[y] => f[z] = g[z]
    BY <2>1
  <2>4. SubstStep(y, f, args) = SubstStep(y, g, args)
    BY <2>2, <2>3, SubstSteps
  <2> QED  BY <1>2, <2>2, <2>4
<1> DEFINE chosen(n) == CHOOSE f : Good(n, f)
           whole == [x \in Universe |-> SubstStep(x, chosen(Height[x]), args)]
<1>3. \A n \in Nat : Good(n, chosen(n))
  <2>1. \A n \in Nat : \E f : Good(n, f)
    BY <1>1
  <2> HIDE DEF Good
  <2> QED  BY <2>1
<1>4. ASSUME NEW x \in Universe PROVE whole[x] = SubstStep(x, whole, args)
  <2>1. ASSUME NEW y \in Universe, Height[y] < Height[x] PROVE chosen(Height[x])[y] = whole[y]
    <3>1. Good(Height[y], chosen(Height[y])) /\ Good(Height[x], chosen(Height[x]))
      <4> HIDE DEF Good, chosen
      <4> QED  BY <1>3
    <3>2. Good(Height[y], chosen(Height[x]))
      <4> HIDE DEF chosen
      <4> QED  BY <2>1, <3>1
    <3>3. \A z \in Universe : Height[z] < Height[y] => chosen(Height[x])[z] = chosen(Height[y])[z]
      <4> HIDE DEF Good, chosen
      <4> QED  BY <1>2, <3>1, <3>2
    <3>4. SubstStep(y, chosen(Height[x]), args) = SubstStep(y, chosen(Height[y]), args)
      <4> HIDE DEF Good, chosen
      <4> QED  BY <3>3, SubstSteps
    <3>5. chosen(Height[x])[y] = SubstStep(y, chosen(Height[x]), args)
      <4> HIDE DEF chosen
      <4> QED  BY <2>1, <3>1
    <3> HIDE DEF chosen
    <3> QED  BY <3>4, <3>5
  <2>2. whole[x] = SubstStep(x, chosen(Height[x]), args)
    <3> HIDE DEF chosen
    <3> QED  OBVIOUS
  <2> HIDE DEF chosen, whole
  <2> QED  BY <2>1, <2>2, SubstSteps
<1>5. whole = [t \in Universe |-> SubstStep(t, whole, args)]
  <2>1. whole = [t \in Universe |-> whole[t]]
    <3> HIDE DEF chosen
    <3> QED  OBVIOUS
  <2> HIDE DEF whole
  <2> QED  BY <1>4, <2>1
<1> HIDE DEF whole
<1> DEFINE g == CHOOSE g : g = [t \in Universe |-> SubstStep(t, g, args)]
<1>6. g = [t \in Universe |-> SubstStep(t, g, args)]
  BY <1>5
<1>7. \A t : Subst(t, args) = g[t]
  BY DEF Subst, SubstStep
<1>8. \A t \in Universe : g[t] = SubstStep(t, g, args)
  <2> HIDE DEF g
  <2> QED  BY <1>6
<1> HIDE DEF g
<1> QED  BY <1>7, <1>8

\* What substitute_type_params does with each kind of type.
LEMMA SubstFacts ==
  ASSUME NEW t \in Universe, NEW args
  PROVE  /\ t.type = "Parameter" =>
              Subst(t, args) = IF t.index \in DOMAIN args THEN args[t.index] ELSE t
         /\ t.type = "Vector" => Subst(t, args) = Vector(Subst(t.of, args))
         /\ t.type = "Datatype" =>
              Subst(t, args) = Datatype(t.name, [k \in DOMAIN t.args |-> Subst(t.args[k], args)])
         /\ t.type \in {"Scalar", "UID"} => Subst(t, args) = t
<1>1. PICK f : /\ \A u \in Universe : f[u] = SubstStep(u, f, args)
               /\ \A u : Subst(u, args) = f[u]
  BY SubstEquation
<1>2. f[t] = SubstStep(t, f, args) /\ Subst(t, args) = f[t]
  BY <1>1
<1> QED  BY <1>1, <1>2 DEF SubstStep

PartsStep(t, f) ==
  {t} \cup IF t.type = "Vector" THEN f[t.of]
           ELSE IF t.type = "Datatype" THEN UNION {f[t.args[k]] : k \in DOMAIN t.args}
           ELSE {}

\* Parts is defined by recursion on heights.
LEMMA PartsEquation ==
  \E f : /\ \A t \in Universe : f[t] = PartsStep(t, f)
         /\ \A t : Parts(t) = f[t]
<1> DEFINE V == SUBSET Universe
           step == [t \in Universe |-> [f \in [Universe -> V] |-> PartsStep(t, f)]]
<1>1. \A t \in Universe : \A f \in [Universe -> V] : PartsStep(t, f) \in V
  <2> TAKE t \in Universe
  <2> TAKE f \in [Universe -> V]
  <2> QED  BY TypeFacts DEF PartsStep
<1>2. step \in [Universe -> [[Universe -> V] -> V]]
  <2> HIDE DEF V
  <2> QED  BY <1>1
<1>3. \A t \in Universe : \A f, g \in [Universe -> V] :
        (\A y \in Universe : Height[y] < Height[t] => f[y] = g[y]) => step[t][f] = step[t][g]
  <2> SUFFICES ASSUME NEW t \in Universe, NEW f \in [Universe -> V], NEW g \in [Universe -> V],
                      \A y \in Universe : Height[y] < Height[t] => f[y] = g[y]
               PROVE  step[t][f] = step[t][g]
    OBVIOUS
  <2> HIDE DEF V
  <2>1. PartsStep(t, f) = PartsStep(t, g)
    <3>1. CASE t.type = "Vector"
      <4>1. f[t.of] = g[t.of]
        BY <3>1, TypeFacts
      <4> QED  BY <4>1, <3>1 DEF PartsStep
    <3>2. CASE t.type = "Datatype"
      <4>1. \A k \in DOMAIN t.args : f[t.args[k]] = g[t.args[k]]
        BY <3>2, TypeFacts
      <4> QED  BY <4>1, <3>2 DEF PartsStep
    <3>3. CASE t.type \notin {"Vector", "Datatype"}
      BY <3>3 DEF PartsStep
    <3> QED  BY <3>1, <3>2, <3>3
  <2> QED  BY <2>1
<1>4. PICK f \in [Universe -> V] : \A t \in Universe : f[t] = step[t][f]
  <2>1. V # {}
    OBVIOUS
  <2> HIDE DEF V, step
  <2>2. Steps(Universe, V, Height, step)
    BY <1>2, <1>3, <2>1, HeightType DEF Steps
  <2> QED  BY <2>2, Recursion
<1>5. f = [t \in Universe |-> PartsStep(t, f)]
  <2> HIDE DEF V
  <2> QED  BY <1>4
<1> DEFINE g == CHOOSE g : g = [t \in Universe |-> PartsStep(t, g)]
<1>6. g = [t \in Universe |-> PartsStep(t, g)]
  BY <1>5
<1>7. \A t : Parts(t) = g[t]
  BY DEF Parts, PartsStep
<1>8. \A t \in Universe : g[t] = PartsStep(t, g)
  <2> HIDE DEF g
  <2> QED  BY <1>6
<1> HIDE DEF g
<1> QED  BY <1>7, <1>8

AbilitiesStep(t, f, d, given) ==
  IF t.type = "Scalar" THEN {"copy", "drop", "store"}
  ELSE IF t.type = "UID" THEN {"store"}
  ELSE IF t.type = "Parameter" THEN given[t.index]
  ELSE IF t.type = "Vector" THEN f[t.of] \ {"key"}
  ELSE {a \in d[t.name].abilities :
          \A k \in DOMAIN t.args :
            ~d[t.name].params[k].phantom => Needed(a) \in f[t.args[k]]}

\* So are abilities.
LEMMA AbilitiesEquation ==
  ASSUME NEW d, NEW given
  PROVE  \E f : /\ \A t \in Universe : f[t] = AbilitiesStep(t, f, d, given)
                /\ \A t : AbilitiesOf(t, d, given) = f[t]
<1> DEFINE V == SUBSET (Abilities \cup (UNION {given[t.index] : t \in Universe})
                                  \cup (UNION {d[t.name].abilities : t \in Universe}))
           step == [t \in Universe |-> [f \in [Universe -> V] |-> AbilitiesStep(t, f, d, given)]]
<1>1. \A t \in Universe : \A f \in [Universe -> V] : AbilitiesStep(t, f, d, given) \in V
  <2> TAKE t \in Universe
  <2> TAKE f \in [Universe -> V]
  <2> QED  BY TypeFacts DEF AbilitiesStep, Abilities
<1>2. step \in [Universe -> [[Universe -> V] -> V]]
  <2> HIDE DEF V
  <2> QED  BY <1>1
<1>3. \A t \in Universe : \A f, g \in [Universe -> V] :
        (\A y \in Universe : Height[y] < Height[t] => f[y] = g[y]) => step[t][f] = step[t][g]
  <2> SUFFICES ASSUME NEW t \in Universe, NEW f \in [Universe -> V], NEW g \in [Universe -> V],
                      \A y \in Universe : Height[y] < Height[t] => f[y] = g[y]
               PROVE  step[t][f] = step[t][g]
    OBVIOUS
  <2> HIDE DEF V
  <2>1. AbilitiesStep(t, f, d, given) = AbilitiesStep(t, g, d, given)
    <3>1. t.type \in {"Scalar", "UID", "Parameter"} \/ t.type = "Vector" \/ t.type = "Datatype"
      BY TypeFacts
    <3>2. CASE t.type \in {"Scalar", "UID", "Parameter"}
      BY <3>2 DEF AbilitiesStep
    <3>3. CASE t.type = "Vector"
      <4>1. f[t.of] = g[t.of]
        BY <3>3, TypeFacts
      <4> QED  BY <4>1, <3>3 DEF AbilitiesStep
    <3>4. CASE t.type = "Datatype"
      <4>1. \A k \in DOMAIN t.args : f[t.args[k]] = g[t.args[k]]
        BY <3>4, TypeFacts
      <4> QED  BY <4>1, <3>4 DEF AbilitiesStep
    <3> QED  BY <3>1, <3>2, <3>3, <3>4
  <2> QED  BY <2>1
<1>4. PICK f \in [Universe -> V] : \A t \in Universe : f[t] = step[t][f]
  <2>1. V # {}
    OBVIOUS
  <2> HIDE DEF V, step
  <2>2. Steps(Universe, V, Height, step)
    BY <1>2, <1>3, <2>1, HeightType DEF Steps
  <2> QED  BY <2>2, Recursion
<1>5. f = [t \in Universe |-> AbilitiesStep(t, f, d, given)]
  <2> HIDE DEF V
  <2> QED  BY <1>4
<1> DEFINE g == CHOOSE g : g = [t \in Universe |-> AbilitiesStep(t, g, d, given)]
<1>6. g = [t \in Universe |-> AbilitiesStep(t, g, d, given)]
  BY <1>5
<1>7. \A t : AbilitiesOf(t, d, given) = g[t]
  BY DEF AbilitiesOf, AbilitiesStep
<1>8. \A t \in Universe : g[t] = AbilitiesStep(t, g, d, given)
  <2> HIDE DEF g
  <2> QED  BY <1>6
<1> HIDE DEF g
<1> QED  BY <1>7, <1>8

\* Abilities, kind by kind.
LEMMA AbilitiesFacts ==
  ASSUME NEW t \in Universe, NEW d, NEW given
  PROVE  /\ t.type = "Scalar" => AbilitiesOf(t, d, given) = {"copy", "drop", "store"}
         /\ t.type = "UID" => AbilitiesOf(t, d, given) = {"store"}
         /\ t.type = "Parameter" => AbilitiesOf(t, d, given) = given[t.index]
         /\ t.type = "Vector" => AbilitiesOf(t, d, given) = AbilitiesOf(t.of, d, given) \ {"key"}
         /\ t.type = "Datatype" =>
              AbilitiesOf(t, d, given) =
                {a \in d[t.name].abilities :
                   \A k \in DOMAIN t.args :
                     ~d[t.name].params[k].phantom => Needed(a) \in AbilitiesOf(t.args[k], d, given)}
<1>1. PICK f : /\ \A u \in Universe : f[u] = AbilitiesStep(u, f, d, given)
               /\ \A u : AbilitiesOf(u, d, given) = f[u]
  BY AbilitiesEquation
<1>2. f[t] = AbilitiesStep(t, f, d, given) /\ AbilitiesOf(t, d, given) = f[t]
  BY <1>1
<1>3. t.type \in {"Scalar", "UID", "Parameter", "Vector", "Datatype"}
  BY TypeFacts
<1>4. CASE t.type = "Datatype"
  <2>1. AbilitiesOf(t, d, given) =
          {a \in d[t.name].abilities :
             \A k \in DOMAIN t.args : ~d[t.name].params[k].phantom => Needed(a) \in f[t.args[k]]}
    BY <1>2, <1>4 DEF AbilitiesStep
  <2>2. \A k \in DOMAIN t.args : f[t.args[k]] = AbilitiesOf(t.args[k], d, given)
    BY <1>1
  <2> HIDE <1>1, <1>2
  <2> QED  BY <1>4, <2>1, <2>2
<1>5. CASE t.type # "Datatype"
  BY <1>1, <1>2, <1>3, <1>5 DEF AbilitiesStep
<1> QED  BY <1>4, <1>5

\* Parts, kind by kind.
LEMMA PartsFacts ==
  ASSUME NEW t \in Universe
  PROVE  /\ t.type = "Vector" => Parts(t) = {t} \cup Parts(t.of)
         /\ t.type = "Datatype" => Parts(t) = {t} \cup (UNION {Parts(t.args[k]) : k \in DOMAIN t.args})
         /\ t.type \notin {"Vector", "Datatype"} => Parts(t) = {t}
         /\ t \in Parts(t)
<1>1. PICK f : /\ \A u \in Universe : f[u] = PartsStep(u, f)
               /\ \A u : Parts(u) = f[u]
  BY PartsEquation
<1>2. f[t] = PartsStep(t, f) /\ Parts(t) = f[t]
  BY <1>1
<1>3. CASE t.type = "Datatype"
  <2>1. Parts(t) = {t} \cup (UNION {f[t.args[k]] : k \in DOMAIN t.args})
    BY <1>2, <1>3 DEF PartsStep
  <2>2. \A k \in DOMAIN t.args : f[t.args[k]] = Parts(t.args[k])
    BY <1>1
  <2> QED  BY <1>3, <2>1, <2>2
<1>4. CASE t.type # "Datatype"
  BY <1>1, <1>2, <1>4 DEF PartsStep
<1> QED  BY <1>3, <1>4

\* Among the types with a property one has no type below it that has it.
LEMMA LowestType ==
  ASSUME NEW bad \in SUBSET Universe, bad # {}
  PROVE  \E t \in bad : \A u \in Universe : Height[u] < Height[t] => u \notin bad
<1>1. PICK t \in bad : \A u \in bad : Height[t] <= Height[u]
  BY HeightType, LowestExists
<1>2. \A u \in Universe : Height[u] \in Nat
  BY HeightType
<1> QED  BY <1>1, <1>2

\* Parts are types, and parts of parts are parts.
LEMMA PartsType ==
  ASSUME NEW t \in Universe
  PROVE  /\ Parts(t) \subseteq Universe
         /\ \A p \in Parts(t) : Parts(p) \subseteq Parts(t) /\ Height[p] <= Height[t]
<1> DEFINE P(u) == /\ Parts(u) \subseteq Universe
                   /\ \A p \in Parts(u) : Parts(p) \subseteq Parts(u) /\ Height[p] <= Height[u]
           bad == {u \in Universe : ~P(u)}
<1> SUFFICES bad = {}
  OBVIOUS
<1> SUFFICES ASSUME bad # {} PROVE FALSE
  OBVIOUS
<1>1. PICK u \in bad : \A v \in Universe : Height[v] < Height[u] => v \notin bad
  <2>1. bad \in SUBSET Universe
    OBVIOUS
  <2> HIDE DEF bad
  <2> QED  BY <2>1, LowestType
<1>2. u \in Universe /\ ~P(u) /\ \A v \in Universe : Height[v] < Height[u] => P(v)
  BY <1>1
<1>3. \A v \in Universe : Height[v] \in Nat
  BY HeightType
<1>4. CASE u.type = "Vector"
  <2>1. P(u.of) /\ u.of \in Universe /\ Height[u.of] < Height[u]
    BY <1>2, <1>4, TypeFacts
  <2>2. Parts(u) = {u} \cup Parts(u.of)
    BY <1>2, <1>4, PartsFacts
  <2> QED  BY <1>2, <1>3, <2>1, <2>2
<1>5. CASE u.type = "Datatype"
  <2>1. \A k \in DOMAIN u.args : P(u.args[k]) /\ u.args[k] \in Universe /\ Height[u.args[k]] < Height[u]
    <3>1. \A k \in DOMAIN u.args : u.args[k] \in Universe /\ Height[u.args[k]] < Height[u]
      BY <1>2, <1>5, TypeFacts
    <3> HIDE DEF P
    <3> QED  BY <1>2, <3>1
  <2>2. Parts(u) = {u} \cup (UNION {Parts(u.args[k]) : k \in DOMAIN u.args})
    BY <1>2, <1>5, PartsFacts
  <2>3. Parts(u) \subseteq Universe
    BY <1>2, <2>1, <2>2
  <2>4. ASSUME NEW p \in Parts(u) PROVE Parts(p) \subseteq Parts(u) /\ Height[p] <= Height[u]
    <3>1. CASE p = u
      BY <1>2, <1>3, <3>1
    <3>2. ASSUME NEW k \in DOMAIN u.args, p \in Parts(u.args[k])
          PROVE  Parts(p) \subseteq Parts(u) /\ Height[p] <= Height[u]
      <4>1. Parts(p) \subseteq Parts(u.args[k]) /\ Height[p] <= Height[u.args[k]] /\ p \in Universe
        BY <2>1, <3>2
      <4>2. Height[p] <= Height[u]
        BY <1>2, <1>3, <2>1, <4>1
      <4>3. Parts(u.args[k]) \subseteq Parts(u)
        BY <2>2
      <4> QED  BY <4>1, <4>2, <4>3
    <3> QED  BY <2>2, <3>1, <3>2
  <2> QED  BY <1>2, <2>3, <2>4
<1>6. CASE u.type \notin {"Vector", "Datatype"}
  <2>1. Parts(u) = {u}
    BY <1>2, <1>6, PartsFacts
  <2> QED  BY <1>2, <1>3, <2>1
<1> QED  BY <1>4, <1>5, <1>6

\* Well-formedness, kind by kind.
LEMMA WellFormedFacts ==
  ASSUME NEW t \in Universe, NEW d, NEW given
  PROVE  /\ t.type \in {"Scalar", "UID"} => WellFormed(t, d, given)
         /\ t.type = "Parameter" => (WellFormed(t, d, given) <=> t.index \in DOMAIN given)
         /\ t.type = "Vector" => (WellFormed(t, d, given) <=> WellFormed(t.of, d, given))
         /\ t.type = "Datatype" =>
              (WellFormed(t, d, given) <=>
                 /\ d[t.name] # None /\ Len(t.args) = Arity(d[t.name])
                 /\ \A k \in DOMAIN t.args :
                      /\ WellFormed(t.args[k], d, given)
                      /\ d[t.name].params[k].constraints \subseteq AbilitiesOf(t.args[k], d, given))
<1> DEFINE Fits(p) ==
      /\ p.type = "Parameter" => p.index \in DOMAIN given
      /\ p.type = "Datatype" =>
           /\ d[p.name] # None /\ Len(p.args) = Arity(d[p.name])
           /\ \A k \in DOMAIN p.args :
                d[p.name].params[k].constraints \subseteq AbilitiesOf(p.args[k], d, given)
<1>1. \A u : WellFormed(u, d, given) <=> \A p \in Parts(u) : Fits(p)
  BY DEF WellFormed
<1>2. CASE t.type = "Vector"
  <2>1. Parts(t) = {t} \cup Parts(t.of) /\ Fits(t)
    BY <1>2, PartsFacts
  <2> HIDE DEF Fits
  <2> QED  BY <1>1, <1>2, <2>1
<1>3. CASE t.type = "Datatype"
  <2>1. Parts(t) = {t} \cup (UNION {Parts(t.args[k]) : k \in DOMAIN t.args})
    BY <1>3, PartsFacts
  <2>2. WellFormed(t, d, given) <=> Fits(t) /\ \A k \in DOMAIN t.args : WellFormed(t.args[k], d, given)
    <3> HIDE DEF Fits
    <3> QED  BY <1>1, <2>1
  <2> QED  BY <1>3, <2>2
<1>4. CASE t.type \notin {"Vector", "Datatype"}
  <2>1. Parts(t) = {t}
    BY <1>4, PartsFacts
  <2>2. WellFormed(t, d, given) <=> Fits(t)
    <3> HIDE DEF Fits
    <3> QED  BY <1>1, <2>1
  <2> QED  BY <1>4, <2>2
<1> QED  BY <1>2, <1>3, <1>4

-----------------------------------------------------------------------------
(* Substitution *)

\* What becomes of a type whose parameters are replaced, kind by kind.
LEMMA SubstForms ==
  ASSUME NEW t \in Universe, NEW args, Subst(t, args) \in Universe
  PROVE  /\ t.type = "Vector" =>
              /\ Subst(t, args).type = "Vector" /\ Subst(t, args).of = Subst(t.of, args)
              /\ Subst(t.of, args) \in Universe
         /\ t.type = "Datatype" =>
              /\ Subst(t, args).type = "Datatype" /\ Subst(t, args).name = t.name
              /\ DOMAIN Subst(t, args).args = DOMAIN t.args
              /\ Len(Subst(t, args).args) = Len(t.args)
              /\ \A k \in DOMAIN t.args : /\ Subst(t, args).args[k] = Subst(t.args[k], args)
                                          /\ Subst(t.args[k], args) \in Universe
<1>1. CASE t.type = "Vector"
  <2>1. Subst(t, args) = Vector(Subst(t.of, args))
    BY <1>1, SubstFacts
  <2>2. Subst(t, args).type = "Vector" /\ Subst(t, args).of = Subst(t.of, args)
    BY <2>1 DEF Vector
  <2>3. Subst(t, args).of \in Universe
    BY <2>2, TypeFacts
  <2> QED  BY <1>1, <2>2, <2>3
<1>2. CASE t.type = "Datatype"
  <2>1. Subst(t, args) = Datatype(t.name, [k \in DOMAIN t.args |-> Subst(t.args[k], args)])
    BY <1>2, SubstFacts
  <2>2. /\ Subst(t, args).type = "Datatype" /\ Subst(t, args).name = t.name
        /\ Subst(t, args).args = [k \in DOMAIN t.args |-> Subst(t.args[k], args)]
    BY <2>1 DEF Datatype
  <2>3. /\ Subst(t, args).args \in Seq(Universe)
        /\ \A k \in DOMAIN Subst(t, args).args : Subst(t, args).args[k] \in Universe
    BY <2>2, TypeFacts
  <2>4. t.args \in Seq(Universe)
    BY <1>2, TypeFacts
  <2>5. DOMAIN Subst(t, args).args = DOMAIN t.args
    BY <2>2
  <2>6. Len(Subst(t, args).args) = Len(t.args)
    BY <2>3, <2>4, <2>5
  <2> QED  BY <1>2, <2>2, <2>3, <2>5, <2>6
<1> QED  BY <1>1, <1>2

\* Arguments that meet the constraints of the parameters make a type well-formed of one
\* that is, and with all its abilities.
LEMMA SubstWellFormed ==
  ASSUME NEW t \in Universe, NEW args, Subst(t, args) \in Universe, NEW d, NEW c, NEW given,
         WellFormed(t, d, c),
         \A i \in DOMAIN c : /\ i \in DOMAIN args /\ WellFormed(args[i], d, given)
                             /\ c[i] \subseteq AbilitiesOf(args[i], d, given)
  PROVE  /\ WellFormed(Subst(t, args), d, given)
         /\ AbilitiesOf(t, d, c) \subseteq AbilitiesOf(Subst(t, args), d, given)
<1> DEFINE P(u) == Subst(u, args) \in Universe /\ WellFormed(u, d, c) =>
                     /\ WellFormed(Subst(u, args), d, given)
                     /\ AbilitiesOf(u, d, c) \subseteq AbilitiesOf(Subst(u, args), d, given)
           bad == {u \in Universe : ~P(u)}
<1> SUFFICES bad = {}
  OBVIOUS
<1> SUFFICES ASSUME bad # {} PROVE FALSE
  OBVIOUS
<1>1. PICK u \in bad : \A v \in Universe : Height[v] < Height[u] => v \notin bad
  <2>1. bad \in SUBSET Universe
    OBVIOUS
  <2> HIDE DEF bad
  <2> QED  BY <2>1, LowestType
<1>2. u \in Universe /\ ~P(u) /\ \A v \in Universe : Height[v] < Height[u] => P(v)
  BY <1>1
<1> DEFINE s == Subst(u, args)
<1>3. s \in Universe /\ WellFormed(u, d, c)
  BY <1>2
<1>4. ~(WellFormed(s, d, given) /\ AbilitiesOf(u, d, c) \subseteq AbilitiesOf(s, d, given))
  BY <1>2
<1>5. CASE u.type = "Vector"
  <2>1. /\ u.of \in Universe /\ Height[u.of] < Height[u]
        /\ s.type = "Vector" /\ s.of = Subst(u.of, args) /\ Subst(u.of, args) \in Universe
    BY <1>2, <1>3, <1>5, TypeFacts, SubstForms
  <2>2. P(u.of)
    <3> HIDE DEF P
    <3> QED  BY <1>2, <2>1
  <2>3. WellFormed(u.of, d, c)
    BY <1>2, <1>3, <1>5, WellFormedFacts
  <2>4. /\ WellFormed(s.of, d, given)
        /\ AbilitiesOf(u.of, d, c) \subseteq AbilitiesOf(s.of, d, given)
    BY <2>1, <2>2, <2>3
  <2>5. WellFormed(s, d, given)
    <3> HIDE DEF s
    <3> QED  BY <1>3, <2>1, <2>4, WellFormedFacts
  <2>6. /\ AbilitiesOf(u, d, c) = AbilitiesOf(u.of, d, c) \ {"key"}
        /\ AbilitiesOf(s, d, given) = AbilitiesOf(s.of, d, given) \ {"key"}
    <3> HIDE DEF s
    <3> QED  BY <1>2, <1>3, <1>5, <2>1, AbilitiesFacts
  <2> HIDE DEF s
  <2> QED  BY <1>4, <2>4, <2>5, <2>6
<1>6. CASE u.type = "Datatype"
  <2>1. /\ s.type = "Datatype" /\ s.name = u.name
        /\ DOMAIN s.args = DOMAIN u.args /\ Len(s.args) = Len(u.args)
        /\ \A k \in DOMAIN u.args : s.args[k] = Subst(u.args[k], args) /\ Subst(u.args[k], args) \in Universe
    BY <1>2, <1>3, <1>6, SubstForms
  <2>2. \A k \in DOMAIN u.args : P(u.args[k])
    <3>1. \A k \in DOMAIN u.args : u.args[k] \in Universe /\ Height[u.args[k]] < Height[u]
      BY <1>2, <1>6, TypeFacts
    <3> HIDE DEF P
    <3> QED  BY <1>2, <3>1
  <2>3. /\ d[u.name] # None /\ Len(u.args) = Arity(d[u.name])
        /\ \A k \in DOMAIN u.args :
             /\ WellFormed(u.args[k], d, c)
             /\ d[u.name].params[k].constraints \subseteq AbilitiesOf(u.args[k], d, c)
    BY <1>2, <1>3, <1>6, WellFormedFacts
  <2>4. \A k \in DOMAIN u.args :
          /\ WellFormed(s.args[k], d, given)
          /\ AbilitiesOf(u.args[k], d, c) \subseteq AbilitiesOf(s.args[k], d, given)
    BY <2>1, <2>2, <2>3
  <2>5. WellFormed(s, d, given)
    <3> HIDE DEF s, P
    <3> QED  BY <1>3, <2>1, <2>3, <2>4, WellFormedFacts
  <2>6. /\ AbilitiesOf(u, d, c) =
             {a \in d[u.name].abilities :
                \A k \in DOMAIN u.args :
                  ~d[u.name].params[k].phantom => Needed(a) \in AbilitiesOf(u.args[k], d, c)}
        /\ AbilitiesOf(s, d, given) =
             {a \in d[s.name].abilities :
                \A k \in DOMAIN s.args :
                  ~d[s.name].params[k].phantom => Needed(a) \in AbilitiesOf(s.args[k], d, given)}
    <3> HIDE DEF s, P
    <3> QED  BY <1>2, <1>3, <1>6, <2>1, AbilitiesFacts
  <2>7. AbilitiesOf(u, d, c) \subseteq AbilitiesOf(s, d, given)
    <3> HIDE DEF s, P
    <3> QED  BY <2>1, <2>4, <2>6
  <2> HIDE DEF s, P
  <2> QED  BY <1>4, <2>5, <2>7
<1>7. CASE u.type = "Parameter"
  <2>1. u.index \in DOMAIN c
    BY <1>2, <1>3, <1>7, WellFormedFacts
  <2>2. s = args[u.index]
    BY <1>2, <1>7, <2>1, SubstFacts
  <2>3. AbilitiesOf(u, d, c) = c[u.index]
    BY <1>2, <1>7, AbilitiesFacts
  <2> HIDE DEF s, P
  <2> QED  BY <1>4, <2>1, <2>2, <2>3
<1>8. CASE u.type \in {"Scalar", "UID"}
  <2>1. s = u
    BY <1>2, <1>8, SubstFacts
  <2>2. WellFormed(u, d, given) /\ AbilitiesOf(u, d, c) = AbilitiesOf(u, d, given)
    <3>1. WellFormed(u, d, given)
      BY <1>2, <1>8, WellFormedFacts
    <3>2. \A g : AbilitiesOf(u, d, g) = IF u.type = "Scalar" THEN {"copy", "drop", "store"} ELSE {"store"}
      BY <1>2, <1>8, AbilitiesFacts
    <3> QED  BY <3>1, <3>2
  <2> HIDE DEF s, P
  <2> QED  BY <1>4, <2>1, <2>2
<1> QED  BY <1>2, <1>5, <1>6, <1>7, <1>8, TypeFacts

\* A parameter's type for every parameter changes nothing.
LEMMA SubstSelf ==
  ASSUME NEW t \in Universe, NEW d, NEW c, WellFormed(t, d, c), NEW args,
         \A i \in DOMAIN c : i \in DOMAIN args /\ args[i] = Parameter(i)
  PROVE  Subst(t, args) = t
<1> DEFINE P(u) == WellFormed(u, d, c) => Subst(u, args) = u
           bad == {u \in Universe : ~P(u)}
<1> SUFFICES bad = {}
  OBVIOUS
<1> SUFFICES ASSUME bad # {} PROVE FALSE
  OBVIOUS
<1>1. PICK u \in bad : \A v \in Universe : Height[v] < Height[u] => v \notin bad
  <2>1. bad \in SUBSET Universe
    OBVIOUS
  <2> HIDE DEF bad
  <2> QED  BY <2>1, LowestType
<1>2. u \in Universe /\ ~P(u) /\ \A v \in Universe : Height[v] < Height[u] => P(v)
  BY <1>1
<1>3. WellFormed(u, d, c) /\ Subst(u, args) # u
  BY <1>2
<1>4. CASE u.type = "Vector"
  <2>1. u.of \in Universe /\ u = Vector(u.of) /\ P(u.of)
    <3> HIDE DEF P
    <3> QED  BY <1>2, <1>4, TypeFacts
  <2>2. WellFormed(u.of, d, c) /\ Subst(u, args) = Vector(Subst(u.of, args))
    BY <1>2, <1>3, <1>4, WellFormedFacts, SubstFacts
  <2>3. Subst(u.of, args) = u.of
    BY <2>1, <2>2
  <2> QED  BY <1>3, <2>1, <2>2, <2>3
<1>5. CASE u.type = "Datatype"
  <2>1. /\ u = Datatype(u.name, u.args) /\ u.args \in Seq(Universe)
        /\ \A k \in DOMAIN u.args : u.args[k] \in Universe /\ P(u.args[k])
    <3> HIDE DEF P
    <3> QED  BY <1>2, <1>5, TypeFacts
  <2>2. \A k \in DOMAIN u.args : WellFormed(u.args[k], d, c)
    BY <1>2, <1>3, <1>5, WellFormedFacts
  <2>3. Subst(u, args) = Datatype(u.name, [k \in DOMAIN u.args |-> Subst(u.args[k], args)])
    BY <1>2, <1>5, SubstFacts
  <2>4. [k \in DOMAIN u.args |-> Subst(u.args[k], args)] = u.args
    <3>1. \A k \in DOMAIN u.args : Subst(u.args[k], args) = u.args[k]
      BY <2>1, <2>2
    <3>2. u.args = [k \in DOMAIN u.args |-> u.args[k]]
      BY <2>1
    <3> QED  BY <3>1, <3>2
  <2> QED  BY <1>3, <2>1, <2>3, <2>4
<1>6. CASE u.type = "Parameter"
  <2>1. u.index \in DOMAIN c /\ u = Parameter(u.index)
    BY <1>2, <1>3, <1>6, WellFormedFacts, TypeFacts
  <2>2. Subst(u, args) = args[u.index]
    BY <1>2, <1>6, <2>1, SubstFacts
  <2> QED  BY <1>3, <2>1, <2>2
<1>7. CASE u.type \in {"Scalar", "UID"}
  BY <1>2, <1>3, <1>7, SubstFacts
<1> QED  BY <1>2, <1>4, <1>5, <1>6, <1>7, TypeFacts

\* Substitution twice is substitution into the arguments.
LEMMA SubstTwice ==
  ASSUME NEW t \in Universe, NEW d, NEW c, WellFormed(t, d, c), NEW a, NEW b,
         DOMAIN c \subseteq DOMAIN a, Subst(t, a) \in Universe
  PROVE  Subst(Subst(t, a), b) = Subst(t, [i \in DOMAIN a |-> Subst(a[i], b)])
<1> DEFINE both == [i \in DOMAIN a |-> Subst(a[i], b)]
           P(u) == WellFormed(u, d, c) /\ Subst(u, a) \in Universe =>
                     Subst(Subst(u, a), b) = Subst(u, both)
           bad == {u \in Universe : ~P(u)}
<1> SUFFICES bad = {}
  OBVIOUS
<1> SUFFICES ASSUME bad # {} PROVE FALSE
  OBVIOUS
<1>1. PICK u \in bad : \A v \in Universe : Height[v] < Height[u] => v \notin bad
  <2>1. bad \in SUBSET Universe
    OBVIOUS
  <2> HIDE DEF bad
  <2> QED  BY <2>1, LowestType
<1>2. u \in Universe /\ ~P(u) /\ \A v \in Universe : Height[v] < Height[u] => P(v)
  BY <1>1
<1> DEFINE s == Subst(u, a)
<1>3. WellFormed(u, d, c) /\ s \in Universe
  BY <1>2
<1>4. Subst(s, b) # Subst(u, both)
  BY <1>2
<1> HIDE DEF both
<1>5. CASE u.type = "Vector"
  <2>1. u.of \in Universe /\ P(u.of) /\ WellFormed(u.of, d, c)
    <3> HIDE DEF P
    <3> QED  BY <1>2, <1>3, <1>5, TypeFacts, WellFormedFacts
  <2>2. s.type = "Vector" /\ s.of = Subst(u.of, a) /\ s.of \in Universe
    BY <1>2, <1>3, <1>5, SubstForms
  <2>3. Subst(s.of, b) = Subst(u.of, both)
    BY <2>1, <2>2
  <2>4. Subst(s, b) = Vector(Subst(s.of, b)) /\ Subst(u, both) = Vector(Subst(u.of, both))
    <3> HIDE DEF s, P
    <3> QED  BY <1>2, <1>3, <1>5, <2>2, SubstFacts
  <2> HIDE DEF s, P
  <2> QED  BY <1>4, <2>3, <2>4
<1>6. CASE u.type = "Datatype"
  <2>1. \A k \in DOMAIN u.args : u.args[k] \in Universe /\ P(u.args[k]) /\ WellFormed(u.args[k], d, c)
    <3> HIDE DEF P
    <3> QED  BY <1>2, <1>3, <1>6, TypeFacts, WellFormedFacts
  <2>2. /\ s.type = "Datatype" /\ s.name = u.name /\ DOMAIN s.args = DOMAIN u.args
        /\ \A k \in DOMAIN u.args : s.args[k] = Subst(u.args[k], a) /\ s.args[k] \in Universe
    BY <1>2, <1>3, <1>6, SubstForms
  <2>3. \A k \in DOMAIN u.args : Subst(s.args[k], b) = Subst(u.args[k], both)
    BY <2>1, <2>2
  <2>4. /\ Subst(s, b) = Datatype(s.name, [k \in DOMAIN s.args |-> Subst(s.args[k], b)])
        /\ Subst(u, both) = Datatype(u.name, [k \in DOMAIN u.args |-> Subst(u.args[k], both)])
    <3>1. Subst(u, both) = Datatype(u.name, [k \in DOMAIN u.args |-> Subst(u.args[k], both)])
      BY <1>2, <1>6, SubstFacts
    <3>2. s \in Universe /\ s.type = "Datatype"
      BY <1>3, <2>2
    <3> HIDE DEF s, P
    <3>3. Subst(s, b) = Datatype(s.name, [k \in DOMAIN s.args |-> Subst(s.args[k], b)])
      BY <3>2, SubstFacts
    <3> QED  BY <3>1, <3>3
  <2> HIDE DEF s, P
  <2>5. [k \in DOMAIN s.args |-> Subst(s.args[k], b)] = [k \in DOMAIN u.args |-> Subst(u.args[k], both)]
    BY <2>2, <2>3
  <2> QED  BY <1>4, <2>2, <2>4, <2>5
<1>7. CASE u.type = "Parameter"
  <2>1. u.index \in DOMAIN a
    BY <1>2, <1>3, <1>7, WellFormedFacts
  <2>2. s = a[u.index]
    BY <1>2, <1>7, <2>1, SubstFacts
  <2>3. u.index \in DOMAIN both /\ both[u.index] = Subst(a[u.index], b)
    BY <2>1 DEF both
  <2>4. Subst(u, both) = both[u.index]
    BY <1>2, <1>7, <2>3, SubstFacts
  <2> HIDE DEF s, P
  <2> QED  BY <1>4, <2>2, <2>3, <2>4
<1>8. CASE u.type \in {"Scalar", "UID"}
  <2>1. \A x : Subst(u, x) = u
    BY <1>2, <1>8, SubstFacts
  <2> QED  BY <1>4, <2>1
<1> QED  BY <1>2, <1>5, <1>6, <1>7, <1>8, TypeFacts

\* Abilities depend on the parameters and the datatypes in a type only.
Alike(t, d, e, c, given) ==
  \A p \in Parts(t) : /\ p.type = "Parameter" => c[p.index] = given[p.index]
                      /\ p.type = "Datatype" => d[p.name] = e[p.name]

\* Abilities depend on the datatypes and parameters that a type mentions only.
LEMMA SameAbilities ==
  ASSUME NEW t \in Universe, NEW d, NEW e, NEW c, NEW given, Alike(t, d, e, c, given)
  PROVE  \A p \in Parts(t) : AbilitiesOf(p, d, c) = AbilitiesOf(p, e, given)
<1> DEFINE P(u) == u \in Parts(t) => AbilitiesOf(u, d, c) = AbilitiesOf(u, e, given)
           bad == {u \in Universe : ~P(u)}
<1> SUFFICES bad = {}
  BY PartsType
<1> SUFFICES ASSUME bad # {} PROVE FALSE
  OBVIOUS
<1>1. PICK u \in bad : \A v \in Universe : Height[v] < Height[u] => v \notin bad
  <2>1. bad \in SUBSET Universe
    OBVIOUS
  <2> HIDE DEF bad
  <2> QED  BY <2>1, LowestType
<1>2. u \in Universe /\ ~P(u) /\ \A v \in Universe : Height[v] < Height[u] => P(v)
  BY <1>1
<1>3. u \in Parts(t) /\ AbilitiesOf(u, d, c) # AbilitiesOf(u, e, given)
  BY <1>2
<1>4. Parts(u) \subseteq Parts(t)
  BY <1>3, PartsType
<1>5. CASE u.type = "Vector"
  <2>1. u.of \in Universe /\ Height[u.of] < Height[u] /\ P(u.of)
    <3> HIDE DEF P
    <3> QED  BY <1>2, <1>5, TypeFacts
  <2>2. u.of \in Parts(t)
    BY <1>2, <1>4, <1>5, <2>1, PartsFacts
  <2>3. AbilitiesOf(u.of, d, c) = AbilitiesOf(u.of, e, given)
    BY <2>1, <2>2
  <2>4. /\ AbilitiesOf(u, d, c) = AbilitiesOf(u.of, d, c) \ {"key"}
        /\ AbilitiesOf(u, e, given) = AbilitiesOf(u.of, e, given) \ {"key"}
    BY <1>2, <1>5, AbilitiesFacts
  <2> QED  BY <1>3, <2>3, <2>4
<1>6. CASE u.type = "Datatype"
  <2>1. \A k \in DOMAIN u.args : u.args[k] \in Universe /\ P(u.args[k])
    <3> HIDE DEF P
    <3> QED  BY <1>2, <1>6, TypeFacts
  <2>2. \A k \in DOMAIN u.args : u.args[k] \in Parts(t)
    <3>1. Parts(u) = {u} \cup (UNION {Parts(u.args[k]) : k \in DOMAIN u.args})
      BY <1>2, <1>6, PartsFacts
    <3>2. \A k \in DOMAIN u.args : u.args[k] \in Parts(u.args[k])
      BY <2>1, PartsFacts
    <3> QED  BY <1>4, <3>1, <3>2
  <2>3. \A k \in DOMAIN u.args : AbilitiesOf(u.args[k], d, c) = AbilitiesOf(u.args[k], e, given)
    BY <2>1, <2>2
  <2>4. d[u.name] = e[u.name]
    BY <1>3, <1>6 DEF Alike
  <2>5. /\ AbilitiesOf(u, d, c) =
             {a \in d[u.name].abilities :
                \A k \in DOMAIN u.args :
                  ~d[u.name].params[k].phantom => Needed(a) \in AbilitiesOf(u.args[k], d, c)}
        /\ AbilitiesOf(u, e, given) =
             {a \in e[u.name].abilities :
                \A k \in DOMAIN u.args :
                  ~e[u.name].params[k].phantom => Needed(a) \in AbilitiesOf(u.args[k], e, given)}
    BY <1>2, <1>6, AbilitiesFacts
  <2> HIDE DEF P
  <2> QED  BY <1>3, <2>3, <2>4, <2>5
<1>7. CASE u.type = "Parameter"
  <2>1. c[u.index] = given[u.index]
    BY <1>3, <1>7 DEF Alike
  <2>2. AbilitiesOf(u, d, c) = c[u.index] /\ AbilitiesOf(u, e, given) = given[u.index]
    BY <1>2, <1>7, AbilitiesFacts
  <2> QED  BY <1>3, <2>1, <2>2
<1>8. CASE u.type \in {"Scalar", "UID"}
  <2>1. \A x, g : AbilitiesOf(u, x, g) =
                    IF u.type = "Scalar" THEN {"copy", "drop", "store"} ELSE {"store"}
    BY <1>2, <1>8, AbilitiesFacts
  <2> QED  BY <1>3, <2>1
<1> QED  BY <1>2, <1>5, <1>6, <1>7, <1>8, TypeFacts

Ground(t) == \A p \in Parts(t) : p.type # "Parameter"

\* What is given of parameters makes no difference to a type that has none.
LEMMA GroundFacts ==
  ASSUME NEW t \in Universe, Ground(t), NEW d, NEW c, NEW given
  PROVE  /\ AbilitiesOf(t, d, c) = AbilitiesOf(t, d, given)
         /\ WellFormed(t, d, c) => WellFormed(t, d, given)
<1>1. \A p \in Parts(t) : AbilitiesOf(p, d, c) = AbilitiesOf(p, d, given)
  <2>1. Alike(t, d, d, c, given)
    BY DEF Ground, Alike
  <2> QED  BY <2>1, SameAbilities
<1>2. t \in Parts(t)
  BY PartsFacts
<1>3. \A p \in Parts(t) : p.type = "Datatype" =>
        \A k \in DOMAIN p.args : AbilitiesOf(p.args[k], d, c) = AbilitiesOf(p.args[k], d, given)
  <2> SUFFICES ASSUME NEW p \in Parts(t), p.type = "Datatype", NEW k \in DOMAIN p.args
               PROVE  p.args[k] \in Parts(t)
    BY <1>1
  <2>1. p \in Universe /\ Parts(p) \subseteq Parts(t)
    BY PartsType
  <2>2. p.args[k] \in Parts(p.args[k])
    BY <2>1, TypeFacts, PartsFacts
  <2>3. Parts(p.args[k]) \subseteq Parts(p)
    BY <2>1, PartsFacts
  <2> QED  BY <2>1, <2>2, <2>3
<1>4. WellFormed(t, d, c) => WellFormed(t, d, given)
  BY <1>3 DEF WellFormed, Ground
<1> QED  BY <1>1, <1>2, <1>4

LEMMA ClosedGround ==
  ASSUME NEW t \in Universe, NEW d, NEW c, NEW n, WellFormed(t, d, c), DOMAIN c \subseteq 1..n
  PROVE  Closed(t, n) => Ground(t)
<1> SUFFICES ASSUME Closed(t, n), NEW p \in Parts(t), p.type = "Parameter"
             PROVE  FALSE
  BY DEF Ground
<1>1. p.index \in DOMAIN c
  BY DEF WellFormed
<1>2. p = Parameter(p.index)
  BY PartsType, TypeFacts
<1> QED  BY <1>1, <1>2 DEF Closed, Mentions

\* What is well-formed stays so when more is published.
LEMMA WellFormedGrows ==
  ASSUME NEW t \in Universe, NEW d, NEW e, NEW c, WellFormed(t, d, c),
         \A n \in Names : d[n] # None => e[n] = d[n]
  PROVE  /\ WellFormed(t, e, c)
         /\ \A p \in Parts(t) : p.type = "Datatype" => e[p.name] = d[p.name]
         /\ \A given : AbilitiesOf(t, d, given) = AbilitiesOf(t, e, given)
<1>1. \A p \in Parts(t) : p.type = "Datatype" => e[p.name] = d[p.name]
  <2> SUFFICES ASSUME NEW p \in Parts(t), p.type = "Datatype" PROVE e[p.name] = d[p.name]
    OBVIOUS
  <2>1. p.name \in Names
    BY PartsType, TypeFacts
  <2> QED  BY <2>1 DEF WellFormed
<1>2. ASSUME NEW given PROVE \A p \in Parts(t) : AbilitiesOf(p, d, given) = AbilitiesOf(p, e, given)
  <2>1. Alike(t, d, e, given, given)
    BY <1>1 DEF Alike
  <2> QED  BY <2>1, SameAbilities
<1>3. t \in Parts(t)
  BY PartsFacts
<1>4. \A p \in Parts(t) : p.type = "Datatype" =>
        \A k \in DOMAIN p.args : AbilitiesOf(p.args[k], d, c) = AbilitiesOf(p.args[k], e, c)
  <2> SUFFICES ASSUME NEW p \in Parts(t), p.type = "Datatype", NEW k \in DOMAIN p.args
               PROVE  p.args[k] \in Parts(t)
    BY <1>2
  <2>1. p \in Universe /\ Parts(p) \subseteq Parts(t)
    BY PartsType
  <2>2. p.args[k] \in Parts(p.args[k])
    BY <2>1, TypeFacts, PartsFacts
  <2>3. Parts(p.args[k]) \subseteq Parts(p)
    BY <2>1, PartsFacts
  <2> QED  BY <2>1, <2>2, <2>3
<1>5. WellFormed(t, e, c)
  BY <1>1, <1>4 DEF WellFormed
<1> QED  BY <1>1, <1>2, <1>3, <1>5

ConstraintsOf(def) == [i \in DOMAIN def.params |-> def.params[i].constraints]

LEMMA UIDFacts ==
  /\ UID \in Universe /\ UID.type = "UID" /\ Parts(UID) = {UID}
  /\ \A d, given : WellFormed(UID, d, given) /\ AbilitiesOf(UID, d, given) = {"store"}
  /\ \A d, i : OnlyPhantom(UID, d, i)
  /\ \A args : Subst(UID, args) = UID
<1>1. UID \in Universe /\ UID.type = "UID"
  BY UniverseAssumption DEF UID
<1>2. Parts(UID) = {UID}
  BY <1>1, PartsFacts
<1>3. \A i : UID # Parameter(i)
  BY DEF UID, Parameter
<1>4. \A d, i : OnlyPhantom(UID, d, i)
  BY <1>1, <1>2, <1>3 DEF OnlyPhantom
<1>5. \A d, given : WellFormed(UID, d, given) /\ AbilitiesOf(UID, d, given) = {"store"}
  BY <1>1, WellFormedFacts, AbilitiesFacts
<1>6. \A args : Subst(UID, args) = UID
  BY <1>1, SubstFacts
<1> QED  BY <1>1, <1>2, <1>4, <1>5, <1>6

\* What the verifier has checked of the fields of a datatype.
LEMMA FieldFacts ==
  ASSUME NEW def \in Definitions, NEW d, Valid(def, d), NEW field \in Fields(def)
  PROVE  /\ field \in Universe
         /\ WellFormed(field, d, ConstraintsOf(def))
         /\ \A i \in DOMAIN def.params : def.params[i].phantom => OnlyPhantom(field, d, i)
         /\ \A a \in def.abilities :
              Needed(a) \in AbilitiesOf(field, d, [i \in DOMAIN def.params |-> Abilities])
<1>1. CASE field = UID
  BY <1>1, UIDFacts DEF Valid
<1>2. CASE field \in def.fields
  BY <1>2 DEF Valid, Definitions, ConstraintsOf
<1> QED  BY <1>1, <1>2 DEF Fields

\* A datatype that passed the verifier stays valid when others are published.
LEMMA ValidGrows ==
  ASSUME NEW def \in Definitions, NEW d, NEW e, Valid(def, d),
         \A n \in Names : d[n] # None => e[n] = d[n]
  PROVE  Valid(def, e)
<1> DEFINE all == [i \in DOMAIN def.params |-> Abilities]
<1>1. ASSUME NEW field \in Fields(def)
      PROVE  /\ WellFormed(field, e, ConstraintsOf(def))
             /\ \A i \in DOMAIN def.params : def.params[i].phantom => OnlyPhantom(field, e, i)
             /\ \A a \in def.abilities : Needed(a) \in AbilitiesOf(field, e, all)
  <2> HIDE DEF all
  <2>1. /\ field \in Universe
        /\ WellFormed(field, d, ConstraintsOf(def))
        /\ \A i \in DOMAIN def.params : def.params[i].phantom => OnlyPhantom(field, d, i)
        /\ \A a \in def.abilities : Needed(a) \in AbilitiesOf(field, d, all)
    BY FieldFacts DEF all
  <2>2. /\ WellFormed(field, e, ConstraintsOf(def))
        /\ \A p \in Parts(field) : p.type = "Datatype" => e[p.name] = d[p.name]
        /\ \A given : AbilitiesOf(field, d, given) = AbilitiesOf(field, e, given)
    BY <2>1, WellFormedGrows
  <2>3. \A i : OnlyPhantom(field, d, i) => OnlyPhantom(field, e, i)
    BY <2>2 DEF OnlyPhantom
  <2> QED  BY <2>1, <2>2, <2>3
<1>2. def.fields \subseteq Fields(def)
  BY DEF Fields
<1> QED  BY <1>1, <1>2 DEF Valid, ConstraintsOf

\* An ability of a datatype whose arguments have what it needs: its fields, with the
\* arguments in place, have what it needs as well.
LEMMA FieldsHave ==
  ASSUME NEW def \in Definitions, NEW d, Valid(def, d), NEW field \in Fields(def),
         NEW args, NEW given, DOMAIN def.params \subseteq DOMAIN args, Subst(field, args) \in Universe,
         NEW a \in def.abilities,
         \A k \in DOMAIN def.params :
           ~def.params[k].phantom => Needed(a) \in AbilitiesOf(args[k], d, given)
  PROVE  Needed(a) \in AbilitiesOf(Subst(field, args), d, given)
<1> DEFINE all == [i \in DOMAIN def.params |-> Abilities]
           b == Needed(a)
           c == ConstraintsOf(def)
           Apt(u) == /\ Subst(u, args) \in Universe /\ WellFormed(u, d, c)
                     /\ \A i \in DOMAIN def.params : def.params[i].phantom => OnlyPhantom(u, d, i)
                     /\ b \in AbilitiesOf(u, d, all)
           P(u) == Apt(u) => b \in AbilitiesOf(Subst(u, args), d, given)
           bad == {u \in Universe : ~P(u)}
<1>1. field \in Universe /\ Apt(field)
  BY FieldFacts
<1> SUFFICES bad = {}
  BY <1>1
<1> SUFFICES ASSUME bad # {} PROVE FALSE
  OBVIOUS
<1>2. PICK u \in bad : \A v \in Universe : Height[v] < Height[u] => v \notin bad
  <2>1. bad \in SUBSET Universe
    OBVIOUS
  <2> HIDE DEF bad
  <2> QED  BY <2>1, LowestType
<1>3. u \in Universe /\ ~P(u) /\ \A v \in Universe : Height[v] < Height[u] => P(v)
  BY <1>2
<1> DEFINE s == Subst(u, args)
<1>4. /\ s \in Universe /\ WellFormed(u, d, c) /\ b \in AbilitiesOf(u, d, all)
      /\ \A i \in DOMAIN def.params : def.params[i].phantom => OnlyPhantom(u, d, i)
  BY <1>3
<1>5. b \notin AbilitiesOf(s, d, given)
  BY <1>3
<1>6. b # "key" /\ Needed(b) = b
  BY DEF Needed
<1>7. DOMAIN c = DOMAIN def.params
  BY DEF ConstraintsOf
<1>8. u \in Parts(u)
  BY <1>3, PartsFacts
<1> HIDE DEF all, b, c
<1>9. CASE u.type = "Vector"
  <2>1. /\ u.of \in Universe /\ Height[u.of] < Height[u] /\ Parts(u) = {u} \cup Parts(u.of)
        /\ WellFormed(u.of, d, c) /\ AbilitiesOf(u, d, all) = AbilitiesOf(u.of, d, all) \ {"key"}
    BY <1>3, <1>4, <1>9, TypeFacts, PartsFacts, WellFormedFacts, AbilitiesFacts
  <2>2. s.type = "Vector" /\ s.of = Subst(u.of, args) /\ s.of \in Universe
    BY <1>3, <1>4, <1>9, SubstForms
  <2>3. \A i \in DOMAIN def.params : def.params[i].phantom => OnlyPhantom(u.of, d, i)
    BY <1>4, <1>8, <1>9, <2>1 DEF OnlyPhantom
  <2>4. b \in AbilitiesOf(s.of, d, given)
    <3>1. Apt(u.of)
      BY <1>4, <2>1, <2>2, <2>3
    <3>2. P(u.of)
      <4> HIDE DEF P
      <4> QED  BY <1>3, <2>1
    <3> HIDE DEF Apt
    <3> QED  BY <2>2, <3>1, <3>2
  <2>5. AbilitiesOf(s, d, given) = AbilitiesOf(s.of, d, given) \ {"key"}
    <3> HIDE DEF s
    <3> QED  BY <1>4, <2>2, AbilitiesFacts
  <2> HIDE DEF s, P
  <2> QED  BY <1>5, <1>6, <2>4, <2>5
<1>10. CASE u.type = "Datatype"
  <2>1. /\ \A k \in DOMAIN u.args : u.args[k] \in Universe /\ Height[u.args[k]] < Height[u]
        /\ Parts(u) = {u} \cup (UNION {Parts(u.args[k]) : k \in DOMAIN u.args})
        /\ \A k \in DOMAIN u.args : WellFormed(u.args[k], d, c)
    BY <1>3, <1>4, <1>10, TypeFacts, PartsFacts, WellFormedFacts
  <2>2. AbilitiesOf(u, d, all) =
          {x \in d[u.name].abilities :
             \A k \in DOMAIN u.args :
               ~d[u.name].params[k].phantom => Needed(x) \in AbilitiesOf(u.args[k], d, all)}
    BY <1>3, <1>10, AbilitiesFacts
  <2>3. /\ s.type = "Datatype" /\ s.name = u.name /\ DOMAIN s.args = DOMAIN u.args
        /\ \A k \in DOMAIN u.args : s.args[k] = Subst(u.args[k], args) /\ s.args[k] \in Universe
    BY <1>3, <1>4, <1>10, SubstForms
  <2>4. ASSUME NEW k \in DOMAIN u.args, ~d[u.name].params[k].phantom
        PROVE  b \in AbilitiesOf(s.args[k], d, given)
    <3>1. \A i \in DOMAIN def.params : def.params[i].phantom => OnlyPhantom(u.args[k], d, i)
      <4>1. Parts(u.args[k]) \subseteq Parts(u)
        BY <2>1
      <4> QED  BY <1>4, <1>8, <1>10, <2>4, <4>1 DEF OnlyPhantom
    <3>2. b \in AbilitiesOf(u.args[k], d, all)
      BY <1>4, <1>6, <2>2, <2>4
    <3>3. Apt(u.args[k])
      BY <2>1, <2>3, <3>1, <3>2
    <3>4. P(u.args[k])
      <4> HIDE DEF P
      <4> QED  BY <1>3, <2>1
    <3> HIDE DEF Apt, s
    <3> QED  BY <2>3, <3>3, <3>4
  <2>5. AbilitiesOf(s, d, given) =
          {x \in d[s.name].abilities :
             \A k \in DOMAIN s.args :
               ~d[s.name].params[k].phantom => Needed(x) \in AbilitiesOf(s.args[k], d, given)}
    <3> HIDE DEF s
    <3> QED  BY <1>4, <2>3, AbilitiesFacts
  <2> HIDE DEF s, P
  <2> QED  BY <1>4, <1>5, <1>6, <2>2, <2>3, <2>4, <2>5
<1>11. CASE u.type = "Parameter"
  <2>1. u.index \in DOMAIN def.params /\ u = Parameter(u.index)
    BY <1>3, <1>4, <1>7, <1>11, WellFormedFacts, TypeFacts
  <2>2. ~def.params[u.index].phantom
    BY <1>4, <2>1 DEF OnlyPhantom
  <2>3. s = args[u.index]
    BY <1>3, <1>11, <2>1, SubstFacts
  <2> HIDE DEF s, P
  <2> QED  BY <1>5, <2>1, <2>2, <2>3 DEF b
<1>12. CASE u.type \in {"Scalar", "UID"}
  <2>1. s = u
    BY <1>3, <1>12, SubstFacts
  <2>2. \A g : AbilitiesOf(u, d, g) = IF u.type = "Scalar" THEN {"copy", "drop", "store"} ELSE {"store"}
    BY <1>3, <1>12, AbilitiesFacts
  <2> HIDE DEF s, P
  <2> QED  BY <1>4, <1>5, <2>1, <2>2
<1> QED  BY <1>3, <1>9, <1>10, <1>11, <1>12, TypeFacts

-----------------------------------------------------------------------------
(* Traits *)

\* The bounds of every impl, with arguments in place, are on types below its own.
Founded(all) ==
  \A t \in Universe : t.type = "Datatype" =>
    \A impl \in all : impl.name = t.name =>
      \A b \in impl.where : /\ Instance(b, t.args) \in Goals
                            /\ Height[Instance(b, t.args).ty] < Height[t]

HoldsStep(goal, f, env, all) ==
  \/ Assumed(goal, env)
  \/ goal.ty.type = "Scalar" /\ goal.trait \in ScalarTraits
  \/ goal.ty.type = "UID" /\ goal.trait \in UidTraits
  \/ goal.ty.type = "Vector" /\ goal.trait \in VecTraits /\ f[Bound(goal.ty.of, goal.trait)]
  \/ /\ goal.ty.type = "Datatype"
     /\ \E impl \in all : /\ impl.name = goal.ty.name /\ impl.trait = goal.trait
                          /\ \A b \in impl.where : f[Instance(b, goal.ty.args)]

\* Where the bounds of impls lie below the types they are for, rustc's search ends.
LEMMA HoldsEquation ==
  ASSUME NEW env, NEW all, Founded(all)
  PROVE  \E f : /\ \A goal \in Goals : f[goal] = HoldsStep(goal, f, env, all)
                /\ \A goal : Holds(goal, env, all) = f[goal]
<1> DEFINE V == BOOLEAN
           h == [goal \in Goals |-> Height[goal.ty]]
           step == [goal \in Goals |-> [f \in [Goals -> V] |-> HoldsStep(goal, f, env, all)]]
<1>1. \A goal \in Goals : \A f \in [Goals -> V] : HoldsStep(goal, f, env, all) \in V
  BY DEF HoldsStep
<1>2. step \in [Goals -> [[Goals -> V] -> V]]
  <2> HIDE DEF V
  <2> QED  BY <1>1
<1>3. \A goal \in Goals : \A f, g \in [Goals -> V] :
        (\A y \in Goals : h[y] < h[goal] => f[y] = g[y]) => step[goal][f] = step[goal][g]
  <2> SUFFICES ASSUME NEW goal \in Goals, NEW f \in [Goals -> V], NEW g \in [Goals -> V],
                      \A y \in Goals : h[y] < h[goal] => f[y] = g[y]
               PROVE  step[goal][f] = step[goal][g]
    OBVIOUS
  <2>1. \A y \in Goals : Height[y.ty] < Height[goal.ty] => f[y] = g[y]
    OBVIOUS
  <2>2. goal.ty \in Universe /\ goal.trait \in Traits
    BY DEF Goals
  <2> HIDE DEF h
  <2>3. HoldsStep(goal, f, env, all) = HoldsStep(goal, g, env, all)
    <3>1. CASE goal.ty.type = "Vector"
      <4>1. /\ Bound(goal.ty.of, goal.trait) \in Goals
            /\ Height[Bound(goal.ty.of, goal.trait).ty] < Height[goal.ty]
        BY <3>1, <2>2, TypeFacts DEF Goals, Bound
      <4>2. f[Bound(goal.ty.of, goal.trait)] = g[Bound(goal.ty.of, goal.trait)]
        BY <2>1, <4>1
      <4> QED  BY <4>2, <3>1 DEF HoldsStep
    <3>2. CASE goal.ty.type = "Datatype"
      <4>1. \A impl \in all : impl.name = goal.ty.name =>
              \A b \in impl.where : f[Instance(b, goal.ty.args)] = g[Instance(b, goal.ty.args)]
        BY <2>1, <2>2, <3>2 DEF Founded
      <4> QED  BY <4>1, <3>2 DEF HoldsStep
    <3>3. CASE goal.ty.type \notin {"Vector", "Datatype"}
      BY <3>3 DEF HoldsStep
    <3> QED  BY <3>1, <3>2, <3>3
  <2> QED  BY <2>3
<1>4. PICK f \in [Goals -> V] : \A goal \in Goals : f[goal] = step[goal][f]
  <2>1. V # {} /\ h \in [Goals -> Nat]
    BY HeightType DEF Goals
  <2> HIDE DEF V, step, h
  <2>2. Steps(Goals, V, h, step)
    BY <1>2, <1>3, <2>1 DEF Steps
  <2> QED  BY <2>2, Recursion
<1>5. f = [goal \in Goals |-> HoldsStep(goal, f, env, all)]
  <2> HIDE DEF V
  <2> QED  BY <1>4
<1> DEFINE g == CHOOSE g : g = [goal \in Goals |-> HoldsStep(goal, g, env, all)]
<1>6. g = [goal \in Goals |-> HoldsStep(goal, g, env, all)]
  BY <1>5
<1>7. \A goal : Holds(goal, env, all) = g[goal]
  BY DEF Holds, HoldsStep
<1>8. \A goal \in Goals : g[goal] = HoldsStep(goal, g, env, all)
  <2> HIDE DEF g
  <2> QED  BY <1>6
<1> HIDE DEF g
<1> QED  BY <1>7, <1>8

\* When a bound holds.
LEMMA HoldsFacts ==
  ASSUME NEW env, NEW all, Founded(all), NEW ty \in Universe, NEW trait \in Traits
  PROVE  Holds(Bound(ty, trait), env, all) <=>
           \/ Assumed(Bound(ty, trait), env)
           \/ ty.type = "Scalar" /\ trait \in ScalarTraits
           \/ ty.type = "UID" /\ trait \in UidTraits
           \/ ty.type = "Vector" /\ trait \in VecTraits /\ Holds(Bound(ty.of, trait), env, all)
           \/ /\ ty.type = "Datatype"
              /\ \E impl \in all : /\ impl.name = ty.name /\ impl.trait = trait
                                   /\ \A b \in impl.where : Holds(Instance(b, ty.args), env, all)
<1>1. PICK f : /\ \A goal \in Goals : f[goal] = HoldsStep(goal, f, env, all)
               /\ \A goal : Holds(goal, env, all) = f[goal]
  BY HoldsEquation
<1>2. /\ Bound(ty, trait) \in Goals
      /\ Bound(ty, trait).ty = ty /\ Bound(ty, trait).trait = trait
  BY DEF Bound, Goals
<1>3. Holds(Bound(ty, trait), env, all) = HoldsStep(Bound(ty, trait), f, env, all)
  BY <1>1, <1>2
<1> QED  BY <1>1, <1>2, <1>3 DEF HoldsStep

-----------------------------------------------------------------------------
(* The generated crate *)

\* What render_struct writes into the attribute.
AttributeOf(def) ==
  [abilities      |-> def.abilities,
   phantoms       |-> {i \in DOMAIN def.params : def.params[i].phantom},
   type_abilities |-> [i \in DOMAIN def.params |-> def.params[i].constraints]]

ImplsOf(n, def) ==
  IF def.kind = "enum" THEN EnumImpls(n, def) ELSE StructImpls(n, def, AttributeOf(def))

\* Everything is rendered and expanded, and nothing refused.
Crate ==
  /\ \A n \in Names : defs[n] \in Shapes[n] /\ Valid(defs[n], defs)
  /\ impls = UNION {ImplsOf(n, defs[n]) : n \in Names}
  /\ CopyWithDrop

ParamsOf(n) == ParamBounds(ConstraintsOf(defs[n]))

\* What a definition is made of.
LEMMA ShapeFacts ==
  ASSUME NEW n \in Names, NEW def \in Shapes[n]
  PROVE  /\ def \in Definitions /\ def # None
         /\ def.kind \in {"struct", "enum"} /\ def.abilities \subseteq Abilities
         /\ def.params \in Seq([constraints : SUBSET Abilities, phantom : BOOLEAN])
         /\ Arity(def) \in Nat /\ DOMAIN def.params = 1..Arity(def)
         /\ \A i \in DOMAIN def.params : /\ Parameter(i) \in Universe /\ i \in Nat
                                         /\ def.params[i].constraints \subseteq Abilities
                                         /\ def.params[i].phantom \in BOOLEAN
         /\ Fields(def) \subseteq Universe
         /\ \A t \in Universe : t.type = "Datatype" /\ t.name = n =>
              \A field \in Fields(def) : Below(Subst(field, t.args), t)
<1>1. def \in Definitions /\ def # None
  BY MarkersAssumption
<1>2. /\ def.kind \in {"struct", "enum"} /\ def.abilities \subseteq Abilities
      /\ def.params \in Seq([constraints : SUBSET Abilities, phantom : BOOLEAN])
      /\ def.fields \subseteq Universe
  BY <1>1 DEF Definitions
<1>3. Arity(def) \in Nat /\ DOMAIN def.params = 1..Arity(def)
  BY <1>2 DEF Arity
<1>4. \A i \in DOMAIN def.params : /\ i \in Nat /\ def.params[i].constraints \subseteq Abilities
                                   /\ def.params[i].phantom \in BOOLEAN
  <2> SUFFICES ASSUME NEW i \in DOMAIN def.params
               PROVE  /\ i \in Nat /\ def.params[i].constraints \subseteq Abilities
                      /\ def.params[i].phantom \in BOOLEAN
    OBVIOUS
  <2>1. i \in Nat
    BY <1>3
  <2>2. def.params[i] \in [constraints : SUBSET Abilities, phantom : BOOLEAN]
    <3> DEFINE P == [constraints : SUBSET Abilities, phantom : BOOLEAN]
    <3>1. def.params \in Seq(P)
      BY <1>2
    <3> HIDE DEF P
    <3>2. def.params[i] \in P
      BY <3>1
    <3> QED  BY <3>2 DEF P
  <2> QED  BY <2>1, <2>2
<1>5. Self(n, def) \in Universe
  BY MarkersAssumption
<1>6. /\ Self(n, def).type = "Datatype"
      /\ Self(n, def).args = [i \in 1..Arity(def) |-> Parameter(i)]
  BY DEF Self, Datatype
<1>7. \A i \in 1..Arity(def) : Parameter(i) \in Universe
  BY <1>5, <1>6, TypeFacts
<1>8. Fields(def) \subseteq Universe
  BY <1>2, UIDFacts DEF Fields
<1>9. \A t \in Universe : t.type = "Datatype" /\ t.name = n =>
        \A field \in Fields(def) : Below(Subst(field, t.args), t)
  BY MarkersAssumption
<1> QED  BY <1>1, <1>2, <1>3, <1>4, <1>7, <1>8, <1>9

\* In a crate copy comes with drop, so the flags of the macro are the abilities of Move.
LEMMA CrateFacts ==
  ASSUME Crate, NEW n \in Names
  PROVE  /\ defs[n] \in Shapes[n] /\ defs[n] \in Definitions /\ Valid(defs[n], defs)
         /\ Flags(defs[n].abilities) = defs[n].abilities
         /\ \A i \in DOMAIN defs[n].params :
              Flags(defs[n].params[i].constraints) = defs[n].params[i].constraints
<1>1. defs[n] \in Shapes[n] /\ defs[n] \in Definitions /\ Valid(defs[n], defs)
  BY ShapeFacts DEF Crate
<1>2. /\ "copy" \in defs[n].abilities => "drop" \in defs[n].abilities
      /\ \A i \in DOMAIN defs[n].params :
           "copy" \in defs[n].params[i].constraints => "drop" \in defs[n].params[i].constraints
  BY DEF Crate, CopyWithDrop
<1> QED  BY <1>1, <1>2 DEF Flags

LEMMA ParamBoundsFacts ==
  ASSUME NEW c, NEW b
  PROVE  b \in ParamBounds(c) <=>
           \E i \in DOMAIN c : \/ b = Bound(Parameter(i), "MoveType")
                               \/ \E a \in c[i] : b = Bound(Parameter(i), Marker[a])
BY DEF ParamBounds

\* The impls of a struct.
LEMMA StructImplsFacts ==
  ASSUME Crate, NEW n \in Names, defs[n].kind = "struct"
  PROVE  LET def == defs[n]  params == ParamsOf(n) IN
         ImplsOf(n, def) =
           {Impl("Clone", n, params \cup FieldBounds(Fields(def), "Clone"),
                 FieldBounds(Fields(def), "Clone")),
            Impl("MoveType", n, params, {}),
            Impl("MoveStruct", n, params, {Bound(Self(n, def), "MoveType")})}
             \cup {Impl(Marker[a], n,
                        params \cup IF a = "key" THEN {} ELSE FieldBounds(Fields(def), Marker[a]),
                        {Bound(Self(n, def), trait) : trait \in Supertrait(Marker[a])})
                   : a \in def.abilities}
<1> DEFINE def == defs[n]
           attr == AttributeOf(def)
<1>1. /\ attr.abilities = def.abilities
      /\ attr.type_abilities = [i \in DOMAIN def.params |-> def.params[i].constraints]
  BY DEF AttributeOf
<1>2. /\ Flags(def.abilities) = def.abilities
      /\ \A i \in DOMAIN def.params : Flags(def.params[i].constraints) = def.params[i].constraints
  BY CrateFacts
<1> HIDE DEF attr, def
<1>3. [i \in DOMAIN attr.type_abilities |-> Flags(attr.type_abilities[i])] = ConstraintsOf(def)
  BY <1>1, <1>2 DEF ConstraintsOf
<1>4. ImplsOf(n, def) = StructImpls(n, def, attr)
  BY DEF ImplsOf, attr, def
<1>5. StructImpls(n, def, attr) =
        {Impl("Clone", n, CloneWhere(ParamBounds(ConstraintsOf(def)), Fields(def)),
              FieldBounds(Fields(def), "Clone"))}
          \cup TypeImpls(n, def, ParamBounds(ConstraintsOf(def)))
          \cup {MarkerImpl(a, n, def, MarkerWhere(ParamBounds(ConstraintsOf(def)), a, Fields(def)))
                : a \in def.abilities}
  BY <1>1, <1>2, <1>3 DEF StructImpls
<1>6. ParamsOf(n) = ParamBounds(ConstraintsOf(def))
  BY DEF ParamsOf, def
<1> SUFFICES ImplsOf(n, def) =
           {Impl("Clone", n, ParamsOf(n) \cup FieldBounds(Fields(def), "Clone"),
                 FieldBounds(Fields(def), "Clone")),
            Impl("MoveType", n, ParamsOf(n), {}),
            Impl("MoveStruct", n, ParamsOf(n), {Bound(Self(n, def), "MoveType")})}
             \cup {Impl(Marker[a], n,
                        ParamsOf(n) \cup IF a = "key" THEN {} ELSE FieldBounds(Fields(def), Marker[a]),
                        {Bound(Self(n, def), trait) : trait \in Supertrait(Marker[a])})
                   : a \in def.abilities}
  BY DEF def
<1>7. \A a : MarkerImpl(a, n, def, MarkerWhere(ParamsOf(n), a, Fields(def))) =
               Impl(Marker[a], n,
                    ParamsOf(n) \cup IF a = "key" THEN {} ELSE FieldBounds(Fields(def), Marker[a]),
                    {Bound(Self(n, def), trait) : trait \in Supertrait(Marker[a])})
  BY DEF MarkerImpl, MarkerWhere
<1>8. CloneWhere(ParamsOf(n), Fields(def)) = ParamsOf(n) \cup FieldBounds(Fields(def), "Clone")
  BY DEF CloneWhere
<1>9. TypeImpls(n, def, ParamsOf(n)) = {Impl("MoveType", n, ParamsOf(n), {}),
                                        Impl("MoveStruct", n, ParamsOf(n), {Bound(Self(n, def), "MoveType")})}
  BY DEF TypeImpls
<1> QED  BY <1>4, <1>5, <1>6, <1>7, <1>8, <1>9

\* The impls of an enum.
LEMMA EnumImplsFacts ==
  ASSUME NEW n \in Names, defs[n].kind = "enum"
  PROVE  LET def == defs[n]  params == ParamsOf(n) IN
         ImplsOf(n, def) =
           {Impl("MoveType", n, params, {}),
            Impl("MoveStruct", n, params, {Bound(Self(n, def), "MoveType")})}
             \cup {Impl(Marker[a], n, params,
                        {Bound(Self(n, def), trait) : trait \in Supertrait(Marker[a])})
                   : a \in def.abilities}
             \cup IF "copy" \in def.abilities
                    THEN {Impl("Clone", n, {Bound(Parameter(i), "Clone") : i \in 1..Arity(def)},
                               FieldBounds(def.fields, "Clone"))}
                    ELSE {}
BY DEF ImplsOf, EnumImpls, TypeImpls, MarkerImpl, EnumClone, ParamsOf, ConstraintsOf

LEMMA FlagNames ==
  /\ Abilities = {"copy", "drop", "store", "key"}
  /\ Marker["copy"] = "HasCopy" /\ Marker["drop"] = "HasDrop"
  /\ Marker["store"] = "HasStore" /\ Marker["key"] = "HasKey"
  /\ \A a \in Abilities : Marker[a] \in Traits /\ Needed(a) \in Abilities
  /\ {"Clone", "MoveType", "MoveStruct"} \subseteq Traits
  /\ \A a \in Abilities : a # "key" => Needed(a) = a
BY DEF Abilities, Marker, Traits, ScalarTraits, UidTraits, Needed

\* The impls for a datatype are those made from it.
LEMMA ImplNames ==
  ASSUME Crate, NEW n \in Names
  PROVE  /\ \A impl \in ImplsOf(n, defs[n]) : impl.name = n
         /\ \A impl : impl \in impls /\ impl.name = n <=> impl \in ImplsOf(n, defs[n])
<1>1. \A m \in Names : \A impl \in ImplsOf(m, defs[m]) : impl.name = m
  <2> SUFFICES ASSUME NEW m \in Names, NEW impl \in ImplsOf(m, defs[m])
               PROVE  impl.name = m
    OBVIOUS
  <2>1. defs[m].kind \in {"struct", "enum"}
    BY CrateFacts, ShapeFacts
  <2>2. CASE defs[m].kind = "struct"
    BY <2>2, StructImplsFacts DEF Impl
  <2>3. CASE defs[m].kind = "enum"
    BY <2>3, EnumImplsFacts DEF Impl
  <2> QED  BY <2>1, <2>2, <2>3
<1> QED  BY <1>1 DEF Crate

\* What an impl asks of its own arguments.
LEMMA WhereFacts ==
  ASSUME Crate, NEW n \in Names, NEW impl \in ImplsOf(n, defs[n]), NEW b \in impl.where
  PROVE  \/ \E i \in DOMAIN defs[n].params : \E trait \in Traits : b = Bound(Parameter(i), trait)
         \/ \E field \in Fields(defs[n]) : \E trait \in Traits : b = Bound(field, trait)
<1>1. /\ defs[n].kind \in {"struct", "enum"} /\ defs[n].abilities \subseteq Abilities
      /\ DOMAIN defs[n].params = 1..Arity(defs[n])
      /\ \A i \in DOMAIN defs[n].params : defs[n].params[i].constraints \subseteq Abilities
  BY CrateFacts, ShapeFacts
<1>2. ASSUME b \in ParamsOf(n)
      PROVE  \E i \in DOMAIN defs[n].params : \E trait \in Traits : b = Bound(Parameter(i), trait)
  <2>1. PICK i \in DOMAIN ConstraintsOf(defs[n]) :
               \/ b = Bound(Parameter(i), "MoveType")
               \/ \E a \in ConstraintsOf(defs[n])[i] : b = Bound(Parameter(i), Marker[a])
    BY <1>2, ParamBoundsFacts DEF ParamsOf
  <2>2. i \in DOMAIN defs[n].params /\ ConstraintsOf(defs[n])[i] \subseteq Abilities
    BY <1>1 DEF ConstraintsOf
  <2> QED  BY <2>1, <2>2, FlagNames
<1>3. ASSUME NEW trait, trait \in Traits, b \in FieldBounds(Fields(defs[n]), trait)
      PROVE  \E field \in Fields(defs[n]) : \E x \in Traits : b = Bound(field, x)
  BY <1>3 DEF FieldBounds
<1>4. CASE defs[n].kind = "struct"
  <2>1. \/ impl.where = ParamsOf(n)
        \/ impl.where = ParamsOf(n) \cup FieldBounds(Fields(defs[n]), "Clone")
        \/ \E a \in defs[n].abilities :
             impl.where = ParamsOf(n) \cup IF a = "key" THEN {} ELSE FieldBounds(Fields(defs[n]), Marker[a])
    BY <1>4, StructImplsFacts DEF Impl
  <2>2. b \in ParamsOf(n) \/ \E trait \in Traits : b \in FieldBounds(Fields(defs[n]), trait)
    BY <2>1, <1>1, FlagNames
  <2> QED  BY <2>2, <1>2, <1>3
<1>5. CASE defs[n].kind = "enum"
  <2>1. \/ impl.where = ParamsOf(n)
        \/ impl.where = {Bound(Parameter(i), "Clone") : i \in 1..Arity(defs[n])}
    BY <1>5, EnumImplsFacts DEF Impl
  <2> QED  BY <2>1, <1>1, <1>2, FlagNames
<1> QED  BY <1>1, <1>4, <1>5

\* The impls of a crate ask for what lies below only.
LEMMA CrateFounded ==
  ASSUME Crate
  PROVE  Founded(impls)
<1> SUFFICES ASSUME NEW t \in Universe, t.type = "Datatype", NEW impl \in impls, impl.name = t.name,
                    NEW b \in impl.where
             PROVE  /\ Instance(b, t.args) \in Goals
                    /\ Height[Instance(b, t.args).ty] < Height[t]
  BY DEF Founded
<1> DEFINE n == t.name
<1>1. /\ n \in Names /\ Height[t] > 0 /\ Height[t] \in Nat
      /\ \A k \in DOMAIN t.args : t.args[k] \in Universe /\ Height[t.args[k]] < Height[t]
  BY TypeFacts, HeightType
<1>2. impl \in ImplsOf(n, defs[n])
  BY <1>1, ImplNames
<1> HIDE DEF n
<1>3. SUFFICES ASSUME NEW ty, NEW trait \in Traits, b = Bound(ty, trait)
               PROVE  \/ \E i \in DOMAIN defs[n].params : ty = Parameter(i)
                      \/ ty \in Fields(defs[n])
                      => Subst(ty, t.args) \in Universe /\ Height[Subst(ty, t.args)] < Height[t]
  <2>1. PICK ty : \E trait \in Traits : /\ b = Bound(ty, trait)
                                        /\ \/ \E i \in DOMAIN defs[n].params : ty = Parameter(i)
                                           \/ ty \in Fields(defs[n])
    BY <1>1, <1>2, WhereFacts
  <2>2. PICK trait \in Traits : b = Bound(ty, trait)
    BY <2>1
  <2>3. Instance(b, t.args) = Bound(Subst(ty, t.args), trait)
    BY <2>2 DEF Instance, Bound
  <2>4. Subst(ty, t.args) \in Universe /\ Height[Subst(ty, t.args)] < Height[t]
    BY <1>3, <2>1, <2>2
  <2> QED  BY <2>3, <2>4 DEF Goals, Bound
<1>4. defs[n] \in Shapes[n]
  BY <1>1, CrateFacts
<1>5. ASSUME NEW i \in DOMAIN defs[n].params, ty = Parameter(i)
      PROVE  Subst(ty, t.args) \in Universe /\ Height[Subst(ty, t.args)] < Height[t]
  <2>1. ty \in Universe /\ ty.type = "Parameter" /\ ty.index = i
    BY <1>1, <1>4, <1>5, ShapeFacts DEF Parameter
  <2>2. Height[ty] = 0
    BY <2>1, TypeFacts
  <2>3. Subst(ty, t.args) = IF i \in DOMAIN t.args THEN t.args[i] ELSE ty
    BY <2>1, SubstFacts
  <2> QED  BY <1>1, <2>1, <2>2, <2>3
<1>6. ASSUME ty \in Fields(defs[n])
      PROVE  Subst(ty, t.args) \in Universe /\ Height[Subst(ty, t.args)] < Height[t]
  BY <1>1, <1>4, <1>6, ShapeFacts DEF Below, n
<1> QED  BY <1>5, <1>6

\* The bounds on the parameters of t's datatype, at the arguments of t.
Meets(t, env) == \A b \in ParamsOf(t.name) : Holds(Instance(b, t.args), env, impls)

FieldsHold(t, trait, env) ==
  \A field \in Fields(defs[t.name]) : Holds(Bound(Subst(field, t.args), trait), env, impls)

\* A datatype meets the bounds on its parameters if its arguments have what is asked of them.
LEMMA MeetsFacts ==
  ASSUME Crate, NEW t \in Universe, t.type = "Datatype", Len(t.args) = Arity(defs[t.name]), NEW env
  PROVE  Meets(t, env) <=>
           \A k \in DOMAIN t.args :
             /\ Holds(Bound(t.args[k], "MoveType"), env, impls)
             /\ \A a \in defs[t.name].params[k].constraints :
                  Holds(Bound(t.args[k], Marker[a]), env, impls)
<1>1. t.name \in Names /\ t.args \in Seq(Universe)
  BY TypeFacts
<1>2. DOMAIN t.args = DOMAIN defs[t.name].params
  BY <1>1, CrateFacts, ShapeFacts
<1>3. ASSUME NEW i \in DOMAIN t.args, NEW trait
      PROVE  Instance(Bound(Parameter(i), trait), t.args) = Bound(t.args[i], trait)
  <2>1. Parameter(i) \in Universe /\ Parameter(i).type = "Parameter" /\ Parameter(i).index = i
    BY <1>1, <1>2, CrateFacts, ShapeFacts DEF Parameter
  <2>2. Subst(Parameter(i), t.args) = t.args[i]
    BY <2>1, SubstFacts
  <2> QED  BY <2>2 DEF Instance, Bound
<1>4. /\ DOMAIN ConstraintsOf(defs[t.name]) = DOMAIN t.args
      /\ \A k \in DOMAIN t.args : ConstraintsOf(defs[t.name])[k] = defs[t.name].params[k].constraints
  BY <1>2 DEF ConstraintsOf
<1>5. \A b : b \in ParamsOf(t.name) <=>
               \E k \in DOMAIN t.args :
                 \/ b = Bound(Parameter(k), "MoveType")
                 \/ \E a \in defs[t.name].params[k].constraints : b = Bound(Parameter(k), Marker[a])
  BY <1>4, ParamBoundsFacts DEF ParamsOf
<1>6. ASSUME Meets(t, env), NEW k \in DOMAIN t.args
      PROVE  /\ Holds(Bound(t.args[k], "MoveType"), env, impls)
             /\ \A a \in defs[t.name].params[k].constraints :
                  Holds(Bound(t.args[k], Marker[a]), env, impls)
  <2>1. Holds(Instance(Bound(Parameter(k), "MoveType"), t.args), env, impls)
    BY <1>5, <1>6 DEF Meets
  <2>2. ASSUME NEW a \in defs[t.name].params[k].constraints
        PROVE  Holds(Bound(t.args[k], Marker[a]), env, impls)
    <3>1. Holds(Instance(Bound(Parameter(k), Marker[a]), t.args), env, impls)
      BY <1>5, <1>6 DEF Meets
    <3> QED  BY <1>3, <3>1
  <2> QED  BY <1>3, <2>1, <2>2
<1>7. ASSUME \A k \in DOMAIN t.args :
               /\ Holds(Bound(t.args[k], "MoveType"), env, impls)
               /\ \A a \in defs[t.name].params[k].constraints :
                    Holds(Bound(t.args[k], Marker[a]), env, impls),
             NEW b \in ParamsOf(t.name)
      PROVE  Holds(Instance(b, t.args), env, impls)
  <2>1. PICK k \in DOMAIN t.args :
               \/ b = Bound(Parameter(k), "MoveType")
               \/ \E a \in defs[t.name].params[k].constraints : b = Bound(Parameter(k), Marker[a])
    BY <1>5
  <2> QED  BY <1>3, <1>7, <2>1
<1> QED  BY <1>6, <1>7 DEF Meets

\* When an impl of a datatype applies.
LEMMA ImplApplies ==
  ASSUME Crate, NEW t \in Universe, t.type = "Datatype", NEW env, NEW trait \in Traits
  PROVE  Holds(Bound(t, trait), env, impls) <=>
           \/ Assumed(Bound(t, trait), env)
           \/ \E impl \in ImplsOf(t.name, defs[t.name]) :
                impl.trait = trait /\ \A b \in impl.where : Holds(Instance(b, t.args), env, impls)
<1>1. t.name \in Names
  BY TypeFacts
<1>2. Founded(impls)
  BY CrateFounded
<1>3. Holds(Bound(t, trait), env, impls) <=>
           \/ Assumed(Bound(t, trait), env)
           \/ \E impl \in impls : /\ impl.name = t.name /\ impl.trait = trait
                                  /\ \A b \in impl.where : Holds(Instance(b, t.args), env, impls)
  BY <1>2, HoldsFacts
<1>4. \A impl : impl \in impls /\ impl.name = t.name <=> impl \in ImplsOf(t.name, defs[t.name])
  BY <1>1, ImplNames
<1> QED  BY <1>3, <1>4

LEMMA FieldBoundsHold ==
  ASSUME NEW t, NEW trait, NEW env
  PROVE  (\A b \in FieldBounds(Fields(defs[t.name]), trait) : Holds(Instance(b, t.args), env, impls))
           <=> FieldsHold(t, trait, env)
<1>1. \A ty : Instance(Bound(ty, trait), t.args) = Bound(Subst(ty, t.args), trait)
  BY DEF Instance, Bound
<1> QED  BY <1>1 DEF FieldBounds, FieldsHold

\* The traits of a struct.
LEMMA StructHolds ==
  ASSUME Crate, NEW t \in Universe, t.type = "Datatype", defs[t.name].kind = "struct", NEW env
  PROVE  /\ \A trait \in {"MoveType", "MoveStruct"} :
              Holds(Bound(t, trait), env, impls) <=> Assumed(Bound(t, trait), env) \/ Meets(t, env)
         /\ Holds(Bound(t, "Clone"), env, impls) <=>
              \/ Assumed(Bound(t, "Clone"), env)
              \/ Meets(t, env) /\ FieldsHold(t, "Clone", env)
         /\ \A a \in Abilities :
              Holds(Bound(t, Marker[a]), env, impls) <=>
                \/ Assumed(Bound(t, Marker[a]), env)
                \/ /\ a \in defs[t.name].abilities /\ Meets(t, env)
                   /\ a # "key" => FieldsHold(t, Marker[a], env)
<1> DEFINE n == t.name
           params == ParamsOf(n)
           clone == Impl("Clone", n, params \cup FieldBounds(Fields(defs[n]), "Clone"),
                         FieldBounds(Fields(defs[n]), "Clone"))
           type == Impl("MoveType", n, params, {})
           struct == Impl("MoveStruct", n, params, {Bound(Self(n, defs[n]), "MoveType")})
           marker(a) == Impl(Marker[a], n,
                             params \cup IF a = "key" THEN {} ELSE FieldBounds(Fields(defs[n]), Marker[a]),
                             {Bound(Self(n, defs[n]), trait) : trait \in Supertrait(Marker[a])})
           Applies(impl) == \A b \in impl.where : Holds(Instance(b, t.args), env, impls)
<1>1. n \in Names
  BY TypeFacts
<1>2. defs[n].abilities \subseteq Abilities
  BY <1>1, CrateFacts, ShapeFacts
<1>3. ImplsOf(n, defs[n]) = {clone, type, struct} \cup {marker(a) : a \in defs[n].abilities}
  BY <1>1, StructImplsFacts
<1>4. /\ clone.trait = "Clone" /\ type.trait = "MoveType" /\ struct.trait = "MoveStruct"
      /\ \A a : marker(a).trait = Marker[a]
  BY DEF Impl
<1>5. Applies(type) <=> Meets(t, env)
  BY DEF Impl, Meets
<1>6. Applies(struct) <=> Meets(t, env)
  BY DEF Impl, Meets
<1>7. Applies(clone) <=> Meets(t, env) /\ FieldsHold(t, "Clone", env)
  BY FieldBoundsHold DEF Impl, Meets
<1>8. ASSUME NEW a
      PROVE  Applies(marker(a)) <=> Meets(t, env) /\ (a # "key" => FieldsHold(t, Marker[a], env))
  <2>1. marker(a).where = params \cup IF a = "key" THEN {} ELSE FieldBounds(Fields(defs[n]), Marker[a])
    BY DEF Impl
  <2>2. (\A b \in params : Holds(Instance(b, t.args), env, impls)) <=> Meets(t, env)
    BY DEF Meets
  <2>3. (\A b \in FieldBounds(Fields(defs[n]), Marker[a]) : Holds(Instance(b, t.args), env, impls))
           <=> FieldsHold(t, Marker[a], env)
    BY FieldBoundsHold
  <2> HIDE DEF marker, params, n
  <2> QED  BY <2>1, <2>2, <2>3
<1>9. \A trait \in Traits :
        Holds(Bound(t, trait), env, impls) <=>
          \/ Assumed(Bound(t, trait), env)
          \/ \E impl \in ImplsOf(n, defs[n]) : impl.trait = trait /\ Applies(impl)
  BY ImplApplies
<1> HIDE DEF clone, type, struct, marker, Applies, params, n
<1>10. \A trait \in Traits :
        Holds(Bound(t, trait), env, impls) <=>
          \/ Assumed(Bound(t, trait), env)
          \/ trait = "Clone" /\ Applies(clone)
          \/ trait = "MoveType" /\ Applies(type)
          \/ trait = "MoveStruct" /\ Applies(struct)
          \/ \E a \in defs[n].abilities : trait = Marker[a] /\ Applies(marker(a))
  BY <1>3, <1>4, <1>9
<1>11. \A a, x \in Abilities : /\ Marker[a] \notin {"Clone", "MoveType", "MoveStruct"}
                               /\ Marker[a] = Marker[x] => a = x
  BY FlagNames
<1>12. \A trait \in {"MoveType", "MoveStruct"} :
         Holds(Bound(t, trait), env, impls) <=> Assumed(Bound(t, trait), env) \/ Meets(t, env)
  BY <1>2, <1>5, <1>6, <1>10, <1>11, FlagNames
<1>13. Holds(Bound(t, "Clone"), env, impls) <=>
         \/ Assumed(Bound(t, "Clone"), env)
         \/ Meets(t, env) /\ FieldsHold(t, "Clone", env)
  BY <1>2, <1>7, <1>10, <1>11, FlagNames
<1>14. \A a \in Abilities :
         Holds(Bound(t, Marker[a]), env, impls) <=>
           \/ Assumed(Bound(t, Marker[a]), env)
           \/ /\ a \in defs[n].abilities /\ Meets(t, env)
              /\ a # "key" => FieldsHold(t, Marker[a], env)
  BY <1>2, <1>8, <1>10, <1>11, FlagNames
<1> QED  BY <1>12, <1>13, <1>14 DEF n

\* The traits of an enum.
LEMMA EnumHolds ==
  ASSUME Crate, NEW t \in Universe, t.type = "Datatype", defs[t.name].kind = "enum", NEW env
  PROVE  /\ \A trait \in {"MoveType", "MoveStruct"} :
              Holds(Bound(t, trait), env, impls) <=> Assumed(Bound(t, trait), env) \/ Meets(t, env)
         /\ Holds(Bound(t, "Clone"), env, impls) <=>
              \/ Assumed(Bound(t, "Clone"), env)
              \/ /\ "copy" \in defs[t.name].abilities
                 /\ \A i \in 1..Arity(defs[t.name]) :
                      Holds(Bound(Subst(Parameter(i), t.args), "Clone"), env, impls)
         /\ \A a \in Abilities :
              Holds(Bound(t, Marker[a]), env, impls) <=>
                \/ Assumed(Bound(t, Marker[a]), env)
                \/ a \in defs[t.name].abilities /\ Meets(t, env)
<1> DEFINE n == t.name
           def == defs[n]
           params == ParamsOf(n)
           clone == Impl("Clone", n, {Bound(Parameter(i), "Clone") : i \in 1..Arity(def)},
                         FieldBounds(def.fields, "Clone"))
           type == Impl("MoveType", n, params, {})
           struct == Impl("MoveStruct", n, params, {Bound(Self(n, def), "MoveType")})
           marker(a) == Impl(Marker[a], n, params,
                             {Bound(Self(n, def), trait) : trait \in Supertrait(Marker[a])})
           Applies(impl) == \A b \in impl.where : Holds(Instance(b, t.args), env, impls)
<1>1. n \in Names
  BY TypeFacts
<1>2. def.abilities \subseteq Abilities
  BY <1>1, CrateFacts, ShapeFacts
<1>3. ImplsOf(n, def) = {type, struct} \cup {marker(a) : a \in def.abilities}
                          \cup IF "copy" \in def.abilities THEN {clone} ELSE {}
  BY <1>1, EnumImplsFacts
<1>4. /\ clone.trait = "Clone" /\ type.trait = "MoveType" /\ struct.trait = "MoveStruct"
      /\ \A a : marker(a).trait = Marker[a]
  BY DEF Impl
<1>5. Applies(type) <=> Meets(t, env)
  BY DEF Impl, Meets
<1>6. Applies(struct) <=> Meets(t, env)
  BY DEF Impl, Meets
<1>7. Applies(clone) <=> \A i \in 1..Arity(def) :
                           Holds(Bound(Subst(Parameter(i), t.args), "Clone"), env, impls)
  <2>1. \A i : Instance(Bound(Parameter(i), "Clone"), t.args) = Bound(Subst(Parameter(i), t.args), "Clone")
    BY DEF Instance, Bound
  <2>2. clone.where = {Bound(Parameter(i), "Clone") : i \in 1..Arity(def)}
    BY DEF Impl
  <2> HIDE DEF clone, def
  <2> QED  BY <2>1, <2>2
<1>8. \A a : Applies(marker(a)) <=> Meets(t, env)
  BY DEF Impl, Meets
<1>9. \A trait \in Traits :
        Holds(Bound(t, trait), env, impls) <=>
          \/ Assumed(Bound(t, trait), env)
          \/ \E impl \in ImplsOf(n, def) : impl.trait = trait /\ Applies(impl)
  BY ImplApplies
<1> HIDE DEF clone, type, struct, marker, Applies, params, def
<1>10. \A trait \in Traits :
        Holds(Bound(t, trait), env, impls) <=>
          \/ Assumed(Bound(t, trait), env)
          \/ trait = "Clone" /\ "copy" \in def.abilities /\ Applies(clone)
          \/ trait = "MoveType" /\ Applies(type)
          \/ trait = "MoveStruct" /\ Applies(struct)
          \/ \E a \in def.abilities : trait = Marker[a] /\ Applies(marker(a))
  BY <1>3, <1>4, <1>9
<1>11. \A a, x \in Abilities : /\ Marker[a] \notin {"Clone", "MoveType", "MoveStruct"}
                               /\ Marker[a] = Marker[x] => a = x
  BY FlagNames
<1>12. \A trait \in {"MoveType", "MoveStruct"} :
         Holds(Bound(t, trait), env, impls) <=> Assumed(Bound(t, trait), env) \/ Meets(t, env)
  BY <1>2, <1>5, <1>6, <1>10, <1>11, FlagNames
<1>13. Holds(Bound(t, "Clone"), env, impls) <=>
         \/ Assumed(Bound(t, "Clone"), env)
         \/ "copy" \in def.abilities /\ Applies(clone)
  BY <1>2, <1>10, <1>11, FlagNames
<1>14. \A a \in Abilities :
         Holds(Bound(t, Marker[a]), env, impls) <=>
           \/ Assumed(Bound(t, Marker[a]), env)
           \/ a \in def.abilities /\ Meets(t, env)
  BY <1>2, <1>8, <1>10, <1>11, FlagNames
<1> QED  BY <1>7, <1>12, <1>13, <1>14 DEF def

\* The traits of what is not a datatype.
LEMMA OtherHolds ==
  ASSUME Crate, NEW t \in Universe, t.type # "Datatype", NEW env, NEW trait \in Traits
  PROVE  Holds(Bound(t, trait), env, impls) <=>
           \/ Assumed(Bound(t, trait), env)
           \/ t.type = "Scalar" /\ trait \in ScalarTraits
           \/ t.type = "UID" /\ trait \in UidTraits
           \/ t.type = "Vector" /\ trait \in VecTraits /\ Holds(Bound(t.of, trait), env, impls)
<1>1. Founded(impls)
  BY CrateFounded
<1> QED  BY <1>1, HoldsFacts

-----------------------------------------------------------------------------
(* Abilities have their markers *)

\* The environment has the bounds of type parameters with the given abilities.
Covers(env, given) ==
  \A i \in DOMAIN given :
    /\ Assumed(Bound(Parameter(i), "MoveType"), env)
    /\ \A a \in Abilities \cap given[i] : Assumed(Bound(Parameter(i), Marker[a]), env)

\* A type has a tag, and a marker for each of its abilities.
Marked(t, env, given) ==
  /\ Holds(Bound(t, "MoveType"), env, impls)
  /\ \A a \in Abilities \cap AbilitiesOf(t, defs, given) : Holds(Bound(t, Marker[a]), env, impls)

LEMMA FieldsBelow ==
  ASSUME Crate, NEW t \in Universe, t.type = "Datatype", NEW field \in Fields(defs[t.name])
  PROVE  Subst(field, t.args) \in Universe /\ Height[Subst(field, t.args)] < Height[t]
BY TypeFacts, CrateFacts, ShapeFacts DEF Below

\* The arguments of a well-formed type fit the parameters of its datatype, and its fields are
\* well-formed.
LEMMA FieldsWellFormed ==
  ASSUME Crate, NEW t \in Universe, t.type = "Datatype", NEW given, WellFormed(t, defs, given)
  PROVE  /\ DOMAIN t.args = DOMAIN defs[t.name].params /\ Len(t.args) = Arity(defs[t.name])
         /\ \A k \in DOMAIN t.args :
              /\ t.args[k] \in Universe /\ Height[t.args[k]] < Height[t]
              /\ WellFormed(t.args[k], defs, given)
              /\ defs[t.name].params[k].constraints \subseteq AbilitiesOf(t.args[k], defs, given)
         /\ \A field \in Fields(defs[t.name]) : WellFormed(Subst(field, t.args), defs, given)
         /\ \A field \in Fields(defs[t.name]) : \A a \in AbilitiesOf(t, defs, given) :
              Needed(a) \in AbilitiesOf(Subst(field, t.args), defs, given)
<1> DEFINE def == defs[t.name]
<1>1. /\ t.name \in Names /\ t.args \in Seq(Universe)
      /\ \A k \in DOMAIN t.args : t.args[k] \in Universe /\ Height[t.args[k]] < Height[t]
  BY TypeFacts
<1>2. /\ Len(t.args) = Arity(def)
      /\ \A k \in DOMAIN t.args :
           /\ WellFormed(t.args[k], defs, given)
           /\ def.params[k].constraints \subseteq AbilitiesOf(t.args[k], defs, given)
  BY WellFormedFacts
<1>3. def \in Definitions /\ Valid(def, defs) /\ DOMAIN def.params = 1..Arity(def)
  BY <1>1, CrateFacts, ShapeFacts
<1>4. DOMAIN t.args = DOMAIN def.params
  BY <1>1, <1>2, <1>3
<1>5. AbilitiesOf(t, defs, given) =
        {a \in def.abilities :
           \A k \in DOMAIN t.args :
             ~def.params[k].phantom => Needed(a) \in AbilitiesOf(t.args[k], defs, given)}
  BY AbilitiesFacts
<1>6. \A field \in Fields(def) : Subst(field, t.args) \in Universe
  BY FieldsBelow
<1> HIDE DEF def
<1>7. ASSUME NEW field \in Fields(def)
      PROVE  WellFormed(Subst(field, t.args), defs, given)
  <2>1. field \in Universe /\ WellFormed(field, defs, ConstraintsOf(def))
    BY <1>3, FieldFacts
  <2>2. \A i \in DOMAIN ConstraintsOf(def) :
          /\ i \in DOMAIN t.args /\ WellFormed(t.args[i], defs, given)
          /\ ConstraintsOf(def)[i] \subseteq AbilitiesOf(t.args[i], defs, given)
    BY <1>2, <1>4 DEF ConstraintsOf
  <2> QED  BY <1>6, <2>1, <2>2, SubstWellFormed
<1>8. ASSUME NEW field \in Fields(def), NEW a \in AbilitiesOf(t, defs, given)
      PROVE  Needed(a) \in AbilitiesOf(Subst(field, t.args), defs, given)
  <2>1. /\ a \in def.abilities
        /\ \A k \in DOMAIN def.params :
             ~def.params[k].phantom => Needed(a) \in AbilitiesOf(t.args[k], defs, given)
    BY <1>4, <1>5
  <2>2. DOMAIN def.params \subseteq DOMAIN t.args /\ Subst(field, t.args) \in Universe
    BY <1>4, <1>6
  <2> QED  BY <1>3, <2>1, <2>2, FieldsHave
<1> QED  BY <1>1, <1>2, <1>4, <1>7, <1>8 DEF def

\* Arguments of a well-formed type meet the bounds of the impls.
LEMMA MarkedMeet ==
  ASSUME Crate, NEW t \in Universe, t.type = "Datatype", NEW env, NEW given,
         WellFormed(t, defs, given), \A k \in DOMAIN t.args : Marked(t.args[k], env, given)
  PROVE  Meets(t, env)
<1>1. /\ DOMAIN t.args = DOMAIN defs[t.name].params /\ Len(t.args) = Arity(defs[t.name])
      /\ \A k \in DOMAIN t.args :
           defs[t.name].params[k].constraints \subseteq AbilitiesOf(t.args[k], defs, given)
  BY FieldsWellFormed
<1>2. \A k \in DOMAIN t.args : defs[t.name].params[k].constraints \subseteq Abilities
  BY <1>1, TypeFacts, CrateFacts, ShapeFacts
<1> QED  BY <1>1, <1>2, MeetsFacts DEF Marked

\* Whatever is well-formed where the parameters have the given abilities is marked where the
\* bounds cover them.
LEMMA CoveredMarked ==
  ASSUME Crate, NEW env, NEW given, Covers(env, given), NEW t \in Universe,
         WellFormed(t, defs, given)
  PROVE  Marked(t, env, given)
<1> DEFINE bad == {u \in Universe : WellFormed(u, defs, given) /\ ~Marked(u, env, given)}
<1>1. SUFFICES ASSUME bad # {}
               PROVE  FALSE
  OBVIOUS
<1>2. PICK u \in bad : \A v \in Universe : Height[v] < Height[u] => v \notin bad
  <2>1. bad \in SUBSET Universe
    OBVIOUS
  <2> HIDE DEF bad
  <2> QED  BY <1>1, <2>1, LowestType
<1>3. u \in Universe /\ WellFormed(u, defs, given) /\ ~Marked(u, env, given)
  OBVIOUS
<1>4. \A v \in Universe : Height[v] < Height[u] /\ WellFormed(v, defs, given) => Marked(v, env, given)
  BY <1>2
<1> HIDE DEF bad
<1>5. CASE u.type \in {"Scalar", "UID"}
  <2>1. AbilitiesOf(u, defs, given) = IF u.type = "Scalar" THEN {"copy", "drop", "store"} ELSE {"store"}
    BY <1>3, <1>5, AbilitiesFacts
  <2>2. \A trait \in Traits : \/ u.type = "Scalar" /\ trait \in ScalarTraits
                              \/ u.type = "UID" /\ trait \in UidTraits
                              => Holds(Bound(u, trait), env, impls)
    BY <1>3, <1>5, OtherHolds
  <2>3. "MoveType" \in ScalarTraits \cap UidTraits /\ "MoveType" \in Traits
    BY FlagNames DEF ScalarTraits, UidTraits
  <2>4. ASSUME NEW a \in Abilities \cap AbilitiesOf(u, defs, given)
        PROVE  Holds(Bound(u, Marker[a]), env, impls)
    BY <1>5, <2>1, <2>2, FlagNames DEF ScalarTraits, UidTraits
  <2> QED  BY <1>3, <1>5, <2>2, <2>3, <2>4 DEF Marked
<1>6. CASE u.type = "Parameter"
  <2>1. u.index \in DOMAIN given /\ u = Parameter(u.index)
    BY <1>3, <1>6, WellFormedFacts, TypeFacts
  <2>2. AbilitiesOf(u, defs, given) = given[u.index]
    BY <1>3, <1>6, AbilitiesFacts
  <2>3. \A trait \in Traits : Assumed(Bound(u, trait), env) => Holds(Bound(u, trait), env, impls)
    BY <1>3, <1>6, OtherHolds
  <2> QED  BY <1>3, <2>1, <2>2, <2>3, FlagNames DEF Marked, Covers
<1>7. CASE u.type = "Vector"
  <2>1. /\ u.of \in Universe /\ Height[u.of] < Height[u] /\ WellFormed(u.of, defs, given)
        /\ AbilitiesOf(u, defs, given) = AbilitiesOf(u.of, defs, given) \ {"key"}
    BY <1>3, <1>7, TypeFacts, WellFormedFacts, AbilitiesFacts
  <2>2. Marked(u.of, env, given)
    BY <1>4, <2>1
  <2>3. \A trait \in VecTraits : Holds(Bound(u.of, trait), env, impls) => Holds(Bound(u, trait), env, impls)
    BY <1>3, <1>7, OtherHolds DEF VecTraits, Traits
  <2>4. "MoveType" \in VecTraits /\ \A a \in Abilities \ {"key"} : Marker[a] \in VecTraits
    BY FlagNames DEF VecTraits, ScalarTraits
  <2> QED  BY <1>3, <2>1, <2>2, <2>3, <2>4 DEF Marked
<1>8. CASE u.type = "Datatype"
  <2> DEFINE def == defs[u.name]
  <2>1. \A k \in DOMAIN u.args : Marked(u.args[k], env, given)
    BY <1>3, <1>4, <1>8, FieldsWellFormed
  <2>2. Meets(u, env)
    BY <1>3, <1>8, <2>1, MarkedMeet
  <2>3. u.name \in Names /\ def.kind \in {"struct", "enum"}
    BY <1>3, <1>8, TypeFacts, CrateFacts, ShapeFacts
  <2>4. \A a \in AbilitiesOf(u, defs, given) : a \in def.abilities
    BY <1>3, <1>8, AbilitiesFacts
  <2>5. CASE def.kind = "enum"
    BY <1>3, <1>8, <2>2, <2>4, <2>5, EnumHolds DEF Marked
  <2>6. CASE def.kind = "struct"
    <3>1. ASSUME NEW a \in Abilities \cap AbilitiesOf(u, defs, given), a # "key"
          PROVE  FieldsHold(u, Marker[a], env)
      <4> SUFFICES ASSUME NEW field \in Fields(def)
                   PROVE  Holds(Bound(Subst(field, u.args), Marker[a]), env, impls)
        BY DEF FieldsHold
      <4>1. /\ Subst(field, u.args) \in Universe /\ Height[Subst(field, u.args)] < Height[u]
            /\ WellFormed(Subst(field, u.args), defs, given)
        BY <1>3, <1>8, FieldsBelow, FieldsWellFormed
      <4>2. a \in AbilitiesOf(Subst(field, u.args), defs, given)
        <5>1. Needed(a) \in AbilitiesOf(Subst(field, u.args), defs, given)
          BY <1>3, <1>8, FieldsWellFormed
        <5> QED  BY <5>1, <3>1, FlagNames
      <4> QED  BY <1>4, <4>1, <4>2 DEF Marked
    <3>2. Holds(Bound(u, "MoveType"), env, impls)
      BY <1>3, <1>8, <2>2, <2>6, StructHolds
    <3>3. ASSUME NEW a \in Abilities \cap AbilitiesOf(u, defs, given)
          PROVE  Holds(Bound(u, Marker[a]), env, impls)
      BY <1>3, <1>8, <2>2, <2>4, <2>6, <3>1, StructHolds
    <3> QED  BY <1>3, <3>2, <3>3 DEF Marked
  <2> QED  BY <2>3, <2>5, <2>6
<1> QED  BY <1>3, <1>5, <1>6, <1>7, <1>8, TypeFacts

\* A datatype applied to what it asks for is a MoveStruct, an object one with HasKey.
LEMMA CoveredObjects ==
  ASSUME Crate, NEW env, NEW given, Covers(env, given), NEW t \in Universe, t.type = "Datatype",
         WellFormed(t, defs, given)
  PROVE  /\ Holds(Bound(t, "MoveStruct"), env, impls)
         /\ "key" \in defs[t.name].abilities => Holds(Bound(t, "HasKey"), env, impls)
<1>1. \A k \in DOMAIN t.args : Marked(t.args[k], env, given)
  BY FieldsWellFormed, CoveredMarked
<1>2. Meets(t, env)
  BY <1>1, MarkedMeet
<1>3. defs[t.name].kind \in {"struct", "enum"}
  BY TypeFacts, CrateFacts, ShapeFacts
<1>4. CASE defs[t.name].kind = "struct"
  BY <1>2, <1>4, StructHolds, FlagNames
<1>5. CASE defs[t.name].kind = "enum"
  BY <1>2, <1>5, EnumHolds, FlagNames
<1> QED  BY <1>3, <1>4, <1>5

LEMMA AbilitiesTyped ==
  ASSUME Crate, NEW t \in Universe, NEW given, WellFormed(t, defs, given),
         \A i \in DOMAIN given : given[i] \subseteq Abilities
  PROVE  AbilitiesOf(t, defs, given) \subseteq Abilities
<1> DEFINE bad == {u \in Universe : /\ WellFormed(u, defs, given)
                                    /\ ~(AbilitiesOf(u, defs, given) \subseteq Abilities)}
<1>1. SUFFICES ASSUME bad # {}
               PROVE  FALSE
  OBVIOUS
<1>2. PICK u \in bad : \A v \in Universe : Height[v] < Height[u] => v \notin bad
  <2>1. bad \in SUBSET Universe
    OBVIOUS
  <2> HIDE DEF bad
  <2> QED  BY <1>1, <2>1, LowestType
<1>3. u \in Universe /\ WellFormed(u, defs, given) /\ ~(AbilitiesOf(u, defs, given) \subseteq Abilities)
  OBVIOUS
<1>4. CASE u.type = "Vector"
  <2>1. /\ u.of \in Universe /\ Height[u.of] < Height[u] /\ WellFormed(u.of, defs, given)
        /\ AbilitiesOf(u, defs, given) \subseteq AbilitiesOf(u.of, defs, given)
    BY <1>3, <1>4, TypeFacts, WellFormedFacts, AbilitiesFacts
  <2> QED  BY <1>2, <1>3, <2>1
<1> HIDE DEF bad
<1>5. CASE u.type = "Datatype"
  <2>1. AbilitiesOf(u, defs, given) \subseteq defs[u.name].abilities
    BY <1>3, <1>5, AbilitiesFacts
  <2> QED  BY <1>3, <1>5, <2>1, TypeFacts, CrateFacts, ShapeFacts
<1>6. CASE u.type = "Parameter"
  BY <1>3, <1>6, WellFormedFacts, AbilitiesFacts
<1>7. CASE u.type \in {"Scalar", "UID"}
  BY <1>3, <1>7, AbilitiesFacts DEF Abilities
<1> QED  BY <1>3, <1>4, <1>5, <1>6, <1>7, TypeFacts

\* Closed types have the markers of their abilities.
LEMMA CrateCoversAbilities ==
  ASSUME Crate
  PROVE  \A ty \in Types : \A a \in AbilitiesOf(ty, defs, <<>>) : Has(ty, a)
<1> SUFFICES ASSUME NEW ty \in Types, NEW a \in AbilitiesOf(ty, defs, <<>>)
             PROVE  Has(ty, a)
  OBVIOUS
<1>1. ty \in Universe /\ WellFormed(ty, defs, <<>>)
  BY MarkersAssumption DEF Types
<1>2. Marked(ty, {}, <<>>)
  BY <1>1, CoveredMarked DEF Covers
<1>3. a \in Abilities
  BY <1>1, AbilitiesTyped
<1> QED  BY <1>2, <1>3 DEF Marked, Has

-----------------------------------------------------------------------------
(* Builders *)

Rendered ==
  function \in Functions /\ ValidFunction(function, defs) /\ bounds = BuilderBounds(function)

LEMMA FunctionFacts ==
  ASSUME Rendered
  PROVE  /\ function.constraints \in Seq(SUBSET Abilities) /\ function.parameters \in Seq(Universe)
         /\ \A i \in DOMAIN function.constraints :
              function.constraints[i] \subseteq Abilities /\ Parameter(i) \in Universe
         /\ \A k \in DOMAIN function.parameters :
              /\ function.parameters[k] \in Universe
              /\ WellFormed(function.parameters[k], defs, function.constraints)
<1>1. /\ function.constraints \in Seq(SUBSET Abilities) /\ function.parameters \in Seq(Universe)
      /\ \A i \in DOMAIN function.constraints : Parameter(i) \in Universe
  BY MarkersAssumption DEF Rendered
<1> QED  BY <1>1 DEF Rendered, ValidFunction

\* The bounds of the builder on its type parameter i.
LEMMA BuilderBoundsFacts ==
  ASSUME Rendered, NEW b
  PROVE  b \in bounds <=>
           \E i \in DOMAIN function.constraints :
             \/ b = Bound(Parameter(i), IF <<i, "key">> \in Required(function) THEN "MoveStruct" ELSE "MoveType")
             \/ \E a \in Abilities : <<i, a>> \in Required(function) /\ b = Bound(Parameter(i), Marker[a])
<1> DEFINE required(i) == {a \in Abilities : <<i, a>> \in Required(function)}
           type(i) == Bound(Parameter(i), IF "key" \in required(i) THEN "MoveStruct" ELSE "MoveType")
           markers(i) == {Bound(Parameter(i), Marker[a]) : a \in required(i)}
<1>1. bounds = UNION {{type(i)} \cup markers(i) : i \in DOMAIN function.constraints}
  BY DEF Rendered, BuilderBounds
<1>2. ASSUME NEW i
      PROVE  type(i) = Bound(Parameter(i), IF <<i, "key">> \in Required(function) THEN "MoveStruct" ELSE "MoveType")
  BY FlagNames
<1>3. ASSUME NEW i
      PROVE  b \in markers(i) <=>
               \E a \in Abilities : <<i, a>> \in Required(function) /\ b = Bound(Parameter(i), Marker[a])
  OBVIOUS
<1> HIDE DEF type, markers
<1>4. b \in bounds <=> \E i \in DOMAIN function.constraints : b = type(i) \/ b \in markers(i)
  BY <1>1
<1> QED  BY <1>2, <1>3, <1>4

LEMMA DeclaredRequired ==
  ASSUME NEW i \in DOMAIN function.constraints, NEW a \in function.constraints[i]
  PROVE  <<i, a>> \in Required(function)
BY DEF Required

\* The bounds of a builder give every parameter the markers of its constraints.
LEMMA BuilderCovers ==
  ASSUME Rendered
  PROVE  /\ Covers(bounds, function.constraints)
         /\ \A i \in DOMAIN function.constraints : "key" \in function.constraints[i] =>
              Assumed(Bound(Parameter(i), "MoveStruct"), bounds)
<1>1. ASSUME NEW i \in DOMAIN function.constraints
      PROVE  /\ Assumed(Bound(Parameter(i), "MoveType"), bounds)
             /\ "key" \in function.constraints[i] => Assumed(Bound(Parameter(i), "MoveStruct"), bounds)
  <2>1. Bound(Parameter(i), IF <<i, "key">> \in Required(function) THEN "MoveStruct" ELSE "MoveType") \in bounds
    BY BuilderBoundsFacts
  <2>2. "key" \in function.constraints[i] => <<i, "key">> \in Required(function)
    BY DeclaredRequired
  <2> QED  BY <2>1, <2>2 DEF Assumed, Bound, Supertrait
<1>2. ASSUME NEW i \in DOMAIN function.constraints, NEW a \in Abilities \cap function.constraints[i]
      PROVE  Assumed(Bound(Parameter(i), Marker[a]), bounds)
  <2>1. Bound(Parameter(i), Marker[a]) \in bounds
    BY DeclaredRequired, BuilderBoundsFacts
  <2> QED  BY <2>1 DEF Assumed, Bound
<1> QED  BY <1>1, <1>2 DEF Covers

\* Each thing the body of a builder asks for follows from its bounds.
LEMMA BuilderBodyCompiles ==
  ASSUME Crate, Rendered
  PROVE  \A b \in BuilderNeeds(function) : Holds(b, bounds, impls)
<1> DEFINE c == function.constraints
<1>1. /\ Covers(bounds, c)
      /\ \A i \in DOMAIN c : "key" \in c[i] => Assumed(Bound(Parameter(i), "MoveStruct"), bounds)
  BY BuilderCovers
<1>2. ASSUME NEW i \in DOMAIN c
      PROVE  \A trait \in Traits : Assumed(Bound(Parameter(i), trait), bounds) =>
               Holds(Bound(Parameter(i), trait), bounds, impls)
  <2>1. Parameter(i) \in Universe /\ Parameter(i).type = "Parameter"
    BY FunctionFacts DEF Parameter
  <2> QED  BY <2>1, OtherHolds
<1>3. ASSUME NEW k \in DOMAIN function.parameters, IsObject(function.parameters[k], function)
      PROVE  /\ Holds(Bound(function.parameters[k], "MoveStruct"), bounds, impls)
             /\ Holds(Bound(function.parameters[k], "HasKey"), bounds, impls)
  <2> DEFINE ty == function.parameters[k]
  <2>1. ty \in Universe /\ WellFormed(ty, defs, c)
    BY FunctionFacts
  <2>2. CASE ty.type = "Datatype" /\ "key" \in defs[ty.name].abilities
    <3> HIDE DEF ty, c
    <3>1. Holds(Bound(ty, "MoveStruct"), bounds, impls) /\ Holds(Bound(ty, "HasKey"), bounds, impls)
      BY <1>1, <2>1, <2>2, CoveredObjects
    <3> QED  BY <3>1 DEF ty
  <2>3. CASE ty.type = "Parameter" /\ "key" \in c[ty.index]
    <3>1. ty.index \in DOMAIN c /\ ty = Parameter(ty.index)
      BY <2>1, <2>3, WellFormedFacts, TypeFacts
    <3>2. /\ Assumed(Bound(ty, "MoveStruct"), bounds)
          /\ Assumed(Bound(ty, "HasKey"), bounds)
      BY <1>1, <2>3, <3>1, FlagNames DEF Covers
    <3> QED  BY <1>2, <3>1, <3>2, FlagNames
  <2> QED  BY <1>3, <2>2, <2>3 DEF IsObject
<1>4. ASSUME NEW k \in DOMAIN function.parameters
      PROVE  Holds(Bound(function.parameters[k], "MoveType"), bounds, impls)
  <2>1. Marked(function.parameters[k], bounds, c)
    BY <1>1, FunctionFacts, CoveredMarked
  <2> QED  BY <2>1 DEF Marked
<1>5. ASSUME NEW i \in DOMAIN c
      PROVE  Holds(Bound(Parameter(i), "MoveType"), bounds, impls)
  BY <1>1, <1>2, <1>5, FlagNames DEF Covers
<1> QED  BY <1>3, <1>4, <1>5 DEF BuilderNeeds

-----------------------------------------------------------------------------
(* Markers are earned *)

CountedStep(t, f) ==
  IF t.type = "Parameter" THEN {t.index}
  ELSE IF t.type = "Vector" THEN f[t.of]
  ELSE IF t.type = "Datatype"
    THEN UNION {f[t.args[k]] : k \in {k \in DOMAIN t.args : ~defs[t.name].params[k].phantom}}
  ELSE {}

\* The parameters that count are defined by recursion on heights.
LEMMA CountedEquation ==
  \E f : /\ \A t \in Universe : f[t] = CountedStep(t, f)
         /\ \A t : Counted(t) = f[t]
<1> DEFINE V == SUBSET Nat
           step == [t \in Universe |-> [f \in [Universe -> V] |-> CountedStep(t, f)]]
<1>1. \A t \in Universe : \A f \in [Universe -> V] : CountedStep(t, f) \in V
  <2> TAKE t \in Universe
  <2> TAKE f \in [Universe -> V]
  <2> QED  BY TypeFacts DEF CountedStep
<1>2. step \in [Universe -> [[Universe -> V] -> V]]
  <2> HIDE DEF V
  <2> QED  BY <1>1
<1>3. \A t \in Universe : \A f, g \in [Universe -> V] :
        (\A y \in Universe : Height[y] < Height[t] => f[y] = g[y]) => step[t][f] = step[t][g]
  <2> SUFFICES ASSUME NEW t \in Universe, NEW f \in [Universe -> V], NEW g \in [Universe -> V],
                      \A y \in Universe : Height[y] < Height[t] => f[y] = g[y]
               PROVE  step[t][f] = step[t][g]
    OBVIOUS
  <2> HIDE DEF V
  <2>1. CountedStep(t, f) = CountedStep(t, g)
    <3>1. CASE t.type = "Vector"
      <4>1. f[t.of] = g[t.of]
        BY <3>1, TypeFacts
      <4> QED  BY <4>1, <3>1 DEF CountedStep
    <3>2. CASE t.type = "Datatype"
      <4>1. \A k \in DOMAIN t.args : f[t.args[k]] = g[t.args[k]]
        BY <3>2, TypeFacts
      <4> QED  BY <4>1, <3>2 DEF CountedStep
    <3>3. CASE t.type \notin {"Vector", "Datatype"}
      BY <3>3 DEF CountedStep
    <3> QED  BY <3>1, <3>2, <3>3
  <2> QED  BY <2>1
<1>4. PICK f \in [Universe -> V] : \A t \in Universe : f[t] = step[t][f]
  <2>1. V # {}
    OBVIOUS
  <2> HIDE DEF V, step
  <2>2. Steps(Universe, V, Height, step)
    BY <1>2, <1>3, <2>1, HeightType DEF Steps
  <2> QED  BY <2>2, Recursion
<1>5. f = [t \in Universe |-> CountedStep(t, f)]
  <2> HIDE DEF V
  <2> QED  BY <1>4
<1> DEFINE g == CHOOSE g : g = [t \in Universe |-> CountedStep(t, g)]
<1>6. g = [t \in Universe |-> CountedStep(t, g)]
  BY <1>5
<1>7. \A t : Counted(t) = g[t]
  BY DEF Counted, CountedStep
<1>8. \A t \in Universe : g[t] = CountedStep(t, g)
  <2> HIDE DEF g
  <2> QED  BY <1>6
<1> HIDE DEF g
<1> QED  BY <1>7, <1>8

\* The parameters that count, kind by kind.
LEMMA CountedFacts ==
  ASSUME NEW t \in Universe
  PROVE  /\ t.type = "Parameter" => Counted(t) = {t.index}
         /\ t.type = "Vector" => Counted(t) = Counted(t.of)
         /\ t.type = "Datatype" =>
              \A i : i \in Counted(t) <=>
                \E k \in DOMAIN t.args : ~defs[t.name].params[k].phantom /\ i \in Counted(t.args[k])
         /\ t.type \in {"Scalar", "UID"} => Counted(t) = {}
<1>1. PICK f : /\ \A u \in Universe : f[u] = CountedStep(u, f)
               /\ \A u : Counted(u) = f[u]
  BY CountedEquation
<1>2. f[t] = CountedStep(t, f) /\ Counted(t) = f[t]
  BY <1>1
<1>3. CASE t.type = "Datatype"
  <2>1. Counted(t) =
          UNION {f[t.args[k]] : k \in {k \in DOMAIN t.args : ~defs[t.name].params[k].phantom}}
    BY <1>2, <1>3 DEF CountedStep
  <2>2. \A k \in DOMAIN t.args : f[t.args[k]] = Counted(t.args[k])
    BY <1>1
  <2> HIDE <1>1, <1>2
  <2> QED  BY <1>3, <2>1, <2>2
<1>4. CASE t.type # "Datatype"
  BY <1>1, <1>2, <1>4 DEF CountedStep
<1> QED  BY <1>3, <1>4

\* What a type with arguments in place has, the arguments that count have.
LEMMA CountedHave ==
  ASSUME NEW t \in Universe, NEW args, Subst(t, args) \in Universe, NEW c, NEW given,
         WellFormed(t, defs, c), DOMAIN c \subseteq DOMAIN args,
         NEW a, a \in AbilitiesOf(Subst(t, args), defs, given), NEW i \in Counted(t),
         Needed(a) = a
  PROVE  a \in AbilitiesOf(args[i], defs, given)
<1> DEFINE Apt(u) == /\ Subst(u, args) \in Universe /\ WellFormed(u, defs, c)
                     /\ a \in AbilitiesOf(Subst(u, args), defs, given) /\ i \in Counted(u)
           bad == {u \in Universe : Apt(u)}
<1>1. SUFFICES ASSUME bad # {}, a \notin AbilitiesOf(args[i], defs, given)
               PROVE  FALSE
  OBVIOUS
<1>2. PICK u \in bad : \A v \in Universe : Height[v] < Height[u] => v \notin bad
  <2>1. bad \in SUBSET Universe
    OBVIOUS
  <2> HIDE DEF bad
  <2> QED  BY <1>1, <2>1, LowestType
<1>3. u \in Universe /\ Apt(u)
  OBVIOUS
<1>4. \A v \in Universe : Height[v] < Height[u] => ~Apt(v)
  BY <1>2
<1> HIDE DEF bad
<1>5. CASE u.type = "Parameter"
  <2>1. i = u.index /\ u.index \in DOMAIN c
    BY <1>3, <1>5, CountedFacts, WellFormedFacts
  <2>2. Subst(u, args) = args[i]
    BY <1>3, <1>5, <2>1, SubstFacts
  <2> QED  BY <1>1, <1>3, <2>2
<1>6. CASE u.type = "Vector"
  <2>1. /\ u.of \in Universe /\ Height[u.of] < Height[u] /\ i \in Counted(u.of)
        /\ WellFormed(u.of, defs, c)
    BY <1>3, <1>6, TypeFacts, CountedFacts, WellFormedFacts
  <2>2. /\ Subst(u, args).type = "Vector" /\ Subst(u, args).of = Subst(u.of, args)
        /\ Subst(u.of, args) \in Universe
    BY <1>3, <1>6, SubstForms
  <2>3. a \in AbilitiesOf(Subst(u.of, args), defs, given)
    BY <1>3, <2>2, AbilitiesFacts
  <2> QED  BY <1>4, <2>1, <2>2, <2>3
<1>7. CASE u.type = "Datatype"
  <2>1. PICK k \in DOMAIN u.args : ~defs[u.name].params[k].phantom /\ i \in Counted(u.args[k])
    BY <1>3, <1>7, CountedFacts
  <2>2. /\ u.args[k] \in Universe /\ Height[u.args[k]] < Height[u]
        /\ WellFormed(u.args[k], defs, c)
    BY <1>3, <1>7, TypeFacts, WellFormedFacts
  <2>3. /\ Subst(u, args).type = "Datatype" /\ Subst(u, args).name = u.name
        /\ DOMAIN Subst(u, args).args = DOMAIN u.args
        /\ Subst(u, args).args[k] = Subst(u.args[k], args) /\ Subst(u.args[k], args) \in Universe
    BY <1>3, <1>7, SubstForms
  <2>4. a \in AbilitiesOf(Subst(u.args[k], args), defs, given)
    <3>1. \A x \in AbilitiesOf(Subst(u, args), defs, given) :
            Needed(x) \in AbilitiesOf(Subst(u, args).args[k], defs, given)
      BY <1>3, <2>1, <2>3, AbilitiesFacts
    <3> QED  BY <1>3, <2>3, <3>1
  <2> QED  BY <1>4, <2>1, <2>2, <2>3, <2>4
<1>8. CASE u.type \in {"Scalar", "UID"}
  BY <1>3, <1>8, CountedFacts
<1> QED  BY <1>3, <1>5, <1>6, <1>7, <1>8, TypeFacts

UnfoldedStep(t, f) ==
  {t} \cup IF t.type = "Vector" THEN f[t.of]
           ELSE IF t.type = "Datatype"
             THEN (UNION {f[t.args[k]] : k \in DOMAIN t.args})
                    \cup (UNION {f[Subst(field, t.args)] : field \in Fields(defs[t.name])})
           ELSE {}

\* So are the types that a type is made of.
LEMMA UnfoldedEquation ==
  ASSUME Crate
  PROVE  \E f : /\ \A t \in Universe : f[t] = UnfoldedStep(t, f)
                /\ \A t : Unfolded(t) = f[t]
<1> DEFINE V == SUBSET Universe
           step == [t \in Universe |-> [f \in [Universe -> V] |-> UnfoldedStep(t, f)]]
<1>1. \A t \in Universe : \A f \in [Universe -> V] : UnfoldedStep(t, f) \in V
  <2> TAKE t \in Universe
  <2> TAKE f \in [Universe -> V]
  <2>1. t.type = "Vector" => f[t.of] \subseteq Universe
    BY TypeFacts
  <2>2. t.type = "Datatype" =>
          /\ \A k \in DOMAIN t.args : f[t.args[k]] \subseteq Universe
          /\ \A field \in Fields(defs[t.name]) : f[Subst(field, t.args)] \subseteq Universe
    BY TypeFacts, FieldsBelow
  <2> QED  BY <2>1, <2>2 DEF UnfoldedStep
<1>2. step \in [Universe -> [[Universe -> V] -> V]]
  <2> HIDE DEF V
  <2> QED  BY <1>1
<1>3. \A t \in Universe : \A f, g \in [Universe -> V] :
        (\A y \in Universe : Height[y] < Height[t] => f[y] = g[y]) => step[t][f] = step[t][g]
  <2> SUFFICES ASSUME NEW t \in Universe, NEW f \in [Universe -> V], NEW g \in [Universe -> V],
                      \A y \in Universe : Height[y] < Height[t] => f[y] = g[y]
               PROVE  step[t][f] = step[t][g]
    OBVIOUS
  <2> HIDE DEF V
  <2>1. UnfoldedStep(t, f) = UnfoldedStep(t, g)
    <3>1. CASE t.type = "Vector"
      <4>1. f[t.of] = g[t.of]
        BY <3>1, TypeFacts
      <4> QED  BY <4>1, <3>1 DEF UnfoldedStep
    <3>2. CASE t.type = "Datatype"
      <4>1. \A k \in DOMAIN t.args : f[t.args[k]] = g[t.args[k]]
        BY <3>2, TypeFacts
      <4>2. \A field \in Fields(defs[t.name]) : f[Subst(field, t.args)] = g[Subst(field, t.args)]
        BY <3>2, FieldsBelow
      <4> QED  BY <4>1, <4>2, <3>2 DEF UnfoldedStep
    <3>3. CASE t.type \notin {"Vector", "Datatype"}
      BY <3>3 DEF UnfoldedStep
    <3> QED  BY <3>1, <3>2, <3>3
  <2> QED  BY <2>1
<1>4. PICK f \in [Universe -> V] : \A t \in Universe : f[t] = step[t][f]
  <2>1. V # {}
    OBVIOUS
  <2> HIDE DEF V, step
  <2>2. Steps(Universe, V, Height, step)
    BY <1>2, <1>3, <2>1, HeightType DEF Steps
  <2> QED  BY <2>2, Recursion
<1>5. f = [t \in Universe |-> UnfoldedStep(t, f)]
  <2> HIDE DEF V
  <2> QED  BY <1>4
<1> DEFINE g == CHOOSE g : g = [t \in Universe |-> UnfoldedStep(t, g)]
<1>6. g = [t \in Universe |-> UnfoldedStep(t, g)]
  BY <1>5
<1>7. \A t : Unfolded(t) = g[t]
  BY DEF Unfolded, UnfoldedStep
<1>8. \A t \in Universe : g[t] = UnfoldedStep(t, g)
  <2> HIDE DEF g
  <2> QED  BY <1>6
<1> HIDE DEF g
<1> QED  BY <1>7, <1>8

\* The types that a type is made of, kind by kind.
LEMMA UnfoldedFacts ==
  ASSUME Crate, NEW t \in Universe
  PROVE  /\ t \in Unfolded(t)
         /\ t.type = "Vector" => Unfolded(t.of) \subseteq Unfolded(t)
         /\ t.type = "Datatype" =>
              /\ \A k \in DOMAIN t.args : Unfolded(t.args[k]) \subseteq Unfolded(t)
              /\ \A field \in Fields(defs[t.name]) : Unfolded(Subst(field, t.args)) \subseteq Unfolded(t)
<1>1. PICK f : /\ \A u \in Universe : f[u] = UnfoldedStep(u, f)
               /\ \A u : Unfolded(u) = f[u]
  BY UnfoldedEquation
<1>2. Unfolded(t) = UnfoldedStep(t, f)
  BY <1>1
<1>3. CASE t.type = "Datatype"
  <2>1. Unfolded(t) = {t} \cup (UNION {f[t.args[k]] : k \in DOMAIN t.args})
                          \cup (UNION {f[Subst(field, t.args)] : field \in Fields(defs[t.name])})
    BY <1>2, <1>3 DEF UnfoldedStep
  <2>2. \A u : f[u] = Unfolded(u)
    BY <1>1
  <2> HIDE <1>1, <1>2
  <2> QED  BY <1>3, <2>1, <2>2
<1>4. CASE t.type # "Datatype"
  BY <1>1, <1>2, <1>4 DEF UnfoldedStep
<1> QED  BY <1>3, <1>4

\* What is so of all that a type is made of is so of its parts and of its fields.
LEMMA OnlyStructsWithin ==
  ASSUME Crate, NEW t \in Universe, OnlyStructs(t)
  PROVE  /\ t.type = "Vector" => OnlyStructs(t.of)
         /\ t.type = "Datatype" =>
              /\ \A field \in Fields(defs[t.name]) : OnlyStructs(Subst(field, t.args))
              /\ defs[t.name].kind = "struct"
              /\ "key" \in defs[t.name].abilities => "key" \in AbilitiesOf(t, defs, <<>>)
BY UnfoldedFacts DEF OnlyStructs

\* A type made of structs that has a marker has the ability: its fields have markers, so the
\* arguments that count in them have the ability.
LEMMA CrateMarkersEarned ==
  ASSUME Crate, AllCount, NEW t \in Universe, WellFormed(t, defs, <<>>), OnlyStructs(t),
         NEW a \in Abilities, Has(t, a)
  PROVE  a \in AbilitiesOf(t, defs, <<>>)
<1> DEFINE Apt(u) == /\ WellFormed(u, defs, <<>>) /\ OnlyStructs(u) /\ Has(u, a)
                     /\ a \notin AbilitiesOf(u, defs, <<>>)
           bad == {u \in Universe : Apt(u)}
<1>1. SUFFICES ASSUME bad # {}
               PROVE  FALSE
  OBVIOUS
<1>2. PICK u \in bad : \A v \in Universe : Height[v] < Height[u] => v \notin bad
  <2>1. bad \in SUBSET Universe
    OBVIOUS
  <2> HIDE DEF bad
  <2> QED  BY <1>1, <2>1, LowestType
<1>3. u \in Universe /\ Apt(u)
  OBVIOUS
<1>4. \A v \in Universe : Height[v] < Height[u] => ~Apt(v)
  BY <1>2
<1> HIDE DEF bad
<1>5. \A bound : ~Assumed(bound, {})
  BY DEF Assumed
<1>6. CASE u.type \in {"Scalar", "UID"}
  <2>1. AbilitiesOf(u, defs, <<>>) = IF u.type = "Scalar" THEN {"copy", "drop", "store"} ELSE {"store"}
    BY <1>3, <1>6, AbilitiesFacts
  <2>2. Marker[a] \in IF u.type = "Scalar" THEN ScalarTraits ELSE UidTraits
    BY <1>3, <1>5, <1>6, OtherHolds, FlagNames DEF Has
  <2> QED  BY <1>3, <1>6, <2>1, <2>2, FlagNames DEF ScalarTraits, UidTraits
<1>7. CASE u.type = "Parameter"
  BY <1>3, <1>7, WellFormedFacts
<1>8. CASE u.type = "Vector"
  <2>1. /\ u.of \in Universe /\ Height[u.of] < Height[u] /\ WellFormed(u.of, defs, <<>>)
        /\ AbilitiesOf(u, defs, <<>>) = AbilitiesOf(u.of, defs, <<>>) \ {"key"}
        /\ OnlyStructs(u.of)
    BY <1>3, <1>8, TypeFacts, WellFormedFacts, AbilitiesFacts, OnlyStructsWithin
  <2>2. Marker[a] \in VecTraits /\ Has(u.of, a)
    BY <1>3, <1>5, <1>8, OtherHolds, FlagNames DEF Has
  <2>3. a # "key"
    BY <2>2, FlagNames DEF VecTraits, ScalarTraits
  <2> QED  BY <1>3, <1>4, <2>1, <2>2, <2>3
<1>9. CASE u.type = "Datatype"
  <2> DEFINE def == defs[u.name]
  <2>1. /\ def.kind = "struct"
        /\ "key" \in def.abilities => "key" \in AbilitiesOf(u, defs, <<>>)
        /\ \A field \in Fields(def) : OnlyStructs(Subst(field, u.args))
    BY <1>3, <1>9, OnlyStructsWithin
  <2>2. a \in def.abilities /\ (a # "key" => FieldsHold(u, Marker[a], {}))
    BY <1>3, <1>5, <1>9, <2>1, StructHolds DEF Has
  <2>3. a # "key" /\ Needed(a) = a
    BY <1>3, <2>1, <2>2, FlagNames
  <2>4. /\ DOMAIN u.args = DOMAIN def.params
        /\ \A field \in Fields(def) : WellFormed(Subst(field, u.args), defs, <<>>)
    BY <1>3, <1>9, FieldsWellFormed
  <2>5. \A field \in Fields(def) : Subst(field, u.args) \in Universe /\ Height[Subst(field, u.args)] < Height[u]
    BY <1>3, <1>9, FieldsBelow
  <2>6. u.name \in Names /\ def \in Definitions /\ Valid(def, defs)
    BY <1>3, <1>9, TypeFacts, CrateFacts
  <2>7. ASSUME NEW k \in DOMAIN u.args, ~def.params[k].phantom
        PROVE  Needed(a) \in AbilitiesOf(u.args[k], defs, <<>>)
    <3>1. PICK field \in Fields(def) : k \in Counted(field)
      BY <2>4, <2>6, <2>7 DEF AllCount
    <3>2. Has(Subst(field, u.args), a)
      BY <2>2, <2>3 DEF FieldsHold, Has
    <3>3. a \in AbilitiesOf(Subst(field, u.args), defs, <<>>)
      BY <1>4, <2>1, <2>4, <2>5, <3>2
    <3>4. field \in Universe /\ WellFormed(field, defs, ConstraintsOf(def))
      BY <2>6, FieldFacts
    <3>5. DOMAIN ConstraintsOf(def) \subseteq DOMAIN u.args
      BY <2>4 DEF ConstraintsOf
    <3> HIDE DEF def
    <3> QED  BY <2>3, <2>5, <3>1, <3>3, <3>4, <3>5, CountedHave
  <2>8. AbilitiesOf(u, defs, <<>>) =
          {x \in def.abilities :
             \A k \in DOMAIN u.args :
               ~def.params[k].phantom => Needed(x) \in AbilitiesOf(u.args[k], defs, <<>>)}
    BY <1>3, <1>9, AbilitiesFacts
  <2> QED  BY <1>3, <2>2, <2>7, <2>8
<1> QED  BY <1>3, <1>6, <1>7, <1>8, <1>9, TypeFacts

LEMMA ParameterSubst ==
  ASSUME NEW i, Parameter(i) \in Universe, NEW args, i \in DOMAIN args
  PROVE  Subst(Parameter(i), args) = args[i]
<1>1. Parameter(i).type = "Parameter" /\ Parameter(i).index = i
  BY DEF Parameter
<1> QED  BY <1>1, SubstFacts

LEMMA ParameterInstance ==
  ASSUME NEW i, Parameter(i) \in Universe, NEW args, i \in DOMAIN args, NEW trait
  PROVE  Instance(Bound(Parameter(i), trait), args) = Bound(args[i], trait)
<1>1. Subst(Parameter(i), args) = args[i]
  BY ParameterSubst
<1> QED  BY <1>1 DEF Instance, Bound

\* Arguments that a builder accepts satisfy the constraints of its function.
LEMMA CrateAcceptedLegal ==
  ASSUME Crate, Rendered, AllCount, NEW args \in Calls, Accepts(args),
         \A i \in DOMAIN args : OnlyStructs(args[i])
  PROVE  LegalCall(function, args, defs)
<1> DEFINE c == function.constraints
<1>1. DOMAIN args = DOMAIN c /\ \A i \in DOMAIN c : args[i] \in Types
  BY DEF Calls
<1>2. \A i \in DOMAIN c : args[i] \in Universe /\ args[i] \in Samples /\ WellFormed(args[i], defs, <<>>)
  BY <1>1, MarkersAssumption DEF Types
<1>3. ASSUME NEW i \in DOMAIN c, NEW a \in c[i]
      PROVE  a \in AbilitiesOf(args[i], defs, <<>>)
  <2>1. a \in Abilities /\ Parameter(i) \in Universe /\ Parameter(i).type = "Parameter" /\ Parameter(i).index = i
    BY FunctionFacts DEF Parameter
  <2>2. Bound(Parameter(i), Marker[a]) \in bounds
    BY <2>1, DeclaredRequired, BuilderBoundsFacts
  <2>3. Instance(Bound(Parameter(i), Marker[a]), args) = Bound(args[i], Marker[a])
    BY <1>1, <2>1, ParameterInstance
  <2>4. Has(args[i], a)
    BY <2>2, <2>3 DEF Accepts, Has
  <2>5. OnlyStructs(args[i])
    BY <1>1
  <2> QED  BY <1>2, <2>1, <2>4, <2>5, CrateMarkersEarned
<1>4. ASSUME NEW k \in DOMAIN function.parameters
      PROVE  WellFormed(Subst(function.parameters[k], args), defs, <<>>)
  <2>1. function.parameters[k] \in Universe /\ WellFormed(function.parameters[k], defs, c)
    BY FunctionFacts
  <2>2. args \in [DOMAIN function.constraints -> Samples]
    BY <1>2 DEF Calls
  <2>3. Subst(function.parameters[k], args) \in Universe
    BY <2>2, MarkersAssumption DEF Rendered
  <2>4. \A i \in DOMAIN c : /\ i \in DOMAIN args /\ WellFormed(args[i], defs, <<>>)
                            /\ c[i] \subseteq AbilitiesOf(args[i], defs, <<>>)
    BY <1>1, <1>2, <1>3
  <2> HIDE DEF c
  <2> QED  BY <2>1, <2>3, <2>4, SubstWellFormed
<1> QED  BY <1>1, <1>2, <1>3, <1>4 DEF LegalCall

-----------------------------------------------------------------------------
(* What the builders collect *)

CollectedStep(ask, f) ==
  IF ask.ty.type = "Parameter"
    THEN IF ask.asked = "MoveType" THEN {} ELSE {<<ask.ty.index, ask.asked>>}
  ELSE IF ask.ty.type = "Vector" THEN f[Ask(ask.ty.of, ask.asked)]
  ELSE IF ask.ty.type = "Datatype" /\ Own(ask.ty.name) THEN DatatypeBounds(ask.ty, f)
  ELSE {}

\* The parts of a type, and its fields, are asked with less height.
LEMMA AsksBelow ==
  ASSUME Crate, NEW ask \in Asks
  PROVE  /\ ask.ty \in Universe /\ ask.asked \in {"MoveType"} \cup Abilities
         /\ ask.ty.type = "Vector" =>
              Ask(ask.ty.of, ask.asked) \in Asks /\ Height[Ask(ask.ty.of, ask.asked).ty] < Height[ask.ty]
         /\ ask.ty.type = "Datatype" =>
              LET def == defs[ask.ty.name] IN
              /\ \A i \in DOMAIN ask.ty.args \cap DOMAIN def.params :
                   \A asked \in {"MoveType"} \cup def.params[i].constraints :
                     /\ Ask(ask.ty.args[i], asked) \in Asks
                     /\ Height[Ask(ask.ty.args[i], asked).ty] < Height[ask.ty]
              /\ \A field \in Fields(def) : \A a \in FieldAbilities(def) :
                   /\ Ask(Subst(field, ask.ty.args), a) \in Asks
                   /\ Height[Ask(Subst(field, ask.ty.args), a).ty] < Height[ask.ty]
<1>1. ask.ty \in Universe /\ ask.asked \in {"MoveType"} \cup Abilities
  BY DEF Asks
<1>2. \A ty \in Universe : \A asked \in {"MoveType"} \cup Abilities :
        Ask(ty, asked) \in Asks /\ Ask(ty, asked).ty = ty
  BY DEF Ask, Asks
<1>3. CASE ask.ty.type = "Vector"
  BY <1>1, <1>2, <1>3, TypeFacts
<1>4. CASE ask.ty.type = "Datatype"
  <2> DEFINE def == defs[ask.ty.name]
  <2>1. /\ ask.ty.name \in Names
        /\ \A k \in DOMAIN ask.ty.args :
             ask.ty.args[k] \in Universe /\ Height[ask.ty.args[k]] < Height[ask.ty]
    BY <1>1, <1>4, TypeFacts
  <2>2. /\ \A i \in DOMAIN def.params : def.params[i].constraints \subseteq Abilities
        /\ def.abilities \subseteq Abilities
    BY <2>1, CrateFacts, ShapeFacts
  <2>3. \A field \in Fields(def) :
          Subst(field, ask.ty.args) \in Universe /\ Height[Subst(field, ask.ty.args)] < Height[ask.ty]
    BY <1>1, <1>4, FieldsBelow
  <2>4. FieldAbilities(def) \subseteq Abilities
    BY <2>2 DEF FieldAbilities
  <2>5. \A i \in DOMAIN ask.ty.args \cap DOMAIN def.params :
          \A asked \in {"MoveType"} \cup def.params[i].constraints :
            /\ Ask(ask.ty.args[i], asked) \in Asks
            /\ Height[Ask(ask.ty.args[i], asked).ty] < Height[ask.ty]
    BY <1>2, <2>1, <2>2
  <2>6. \A field \in Fields(def) : \A a \in FieldAbilities(def) :
          /\ Ask(Subst(field, ask.ty.args), a) \in Asks
          /\ Height[Ask(Subst(field, ask.ty.args), a).ty] < Height[ask.ty]
    <3> HIDE DEF def
    <3> QED  BY <1>2, <2>3, <2>4
  <2> QED  BY <1>1, <1>4, <2>5, <2>6
<1> QED  BY <1>1, <1>3, <1>4

LEMMA DatatypeBoundsFacts ==
  ASSUME NEW ty, NEW f, NEW pair
  PROVE  pair \in DatatypeBounds(ty, f) <=>
           LET def == defs[ty.name] IN
           \/ \E i \in DOMAIN ty.args \cap DOMAIN def.params :
                \E asked \in {"MoveType"} \cup def.params[i].constraints :
                  pair \in f[Ask(ty.args[i], asked)]
           \/ \E field \in Fields(def) : \E a \in FieldAbilities(def) :
                pair \in f[Ask(Subst(field, ty.args), a)]
<1> DEFINE def == defs[ty.name]
           ofArgument(i) == UNION {f[Ask(ty.args[i], asked)] : asked \in {"MoveType"} \cup def.params[i].constraints}
           ofArguments == UNION {ofArgument(i) : i \in DOMAIN ty.args \cap DOMAIN def.params}
           ofFields == UNION {f[Ask(Subst(field, ty.args), a)] : field \in Fields(def), a \in FieldAbilities(def)}
<1>1. DatatypeBounds(ty, f) = ofArguments \cup ofFields
  BY DEF DatatypeBounds
<1>2. \A i : pair \in ofArgument(i) <=>
               \E asked \in {"MoveType"} \cup def.params[i].constraints : pair \in f[Ask(ty.args[i], asked)]
  OBVIOUS
<1>3. pair \in ofFields <=>
        \E field \in Fields(def) : \E a \in FieldAbilities(def) : pair \in f[Ask(Subst(field, ty.args), a)]
  OBVIOUS
<1> HIDE DEF ofArgument, ofFields, def
<1>4. pair \in ofArguments <=> \E i \in DOMAIN ty.args \cap DOMAIN def.params : pair \in ofArgument(i)
  OBVIOUS
<1> HIDE DEF ofArguments
<1>5. pair \in DatatypeBounds(ty, f) <=>
        \/ \E i \in DOMAIN ty.args \cap DOMAIN def.params :
             \E asked \in {"MoveType"} \cup def.params[i].constraints : pair \in f[Ask(ty.args[i], asked)]
        \/ \E field \in Fields(def) : \E a \in FieldAbilities(def) : pair \in f[Ask(Subst(field, ty.args), a)]
  BY <1>1, <1>2, <1>3, <1>4
<1> QED  BY <1>5 DEF def

\* What is collected is defined by recursion on heights.
LEMMA CollectedEquation ==
  ASSUME Crate
  PROVE  \E f : /\ \A ask \in Asks : f[ask] = CollectedStep(ask, f)
                /\ \A ty, asked : Collected(ty, asked) = f[Ask(ty, asked)]
<1> DEFINE V == SUBSET (Nat \X Abilities)
           h == [ask \in Asks |-> Height[ask.ty]]
           step == [ask \in Asks |-> [f \in [Asks -> V] |-> CollectedStep(ask, f)]]
<1>1. \A ask \in Asks : \A f \in [Asks -> V] : CollectedStep(ask, f) \in V
  <2> TAKE ask \in Asks
  <2> TAKE f \in [Asks -> V]
  <2> HIDE DEF V
  <2>1. ask.ty.type = "Parameter" /\ ask.asked # "MoveType" =>
          {<<ask.ty.index, ask.asked>>} \in V /\ {} \in V
    BY AsksBelow, TypeFacts DEF V
  <2>2. ask.ty.type = "Vector" => f[Ask(ask.ty.of, ask.asked)] \in V
    BY AsksBelow
  <2>3. ASSUME ask.ty.type = "Datatype"
        PROVE  DatatypeBounds(ask.ty, f) \in V
    <3> SUFFICES ASSUME NEW pair \in DatatypeBounds(ask.ty, f)
                 PROVE  pair \in Nat \X Abilities
      BY DEF V
    <3>1. \E x \in Asks : pair \in f[x]
      BY <2>3, AsksBelow, DatatypeBoundsFacts
    <3> QED  BY <3>1 DEF V
  <2>4. {} \in V
    BY DEF V
  <2> QED  BY <2>1, <2>2, <2>3, <2>4 DEF CollectedStep
<1>2. step \in [Asks -> [[Asks -> V] -> V]]
  <2> HIDE DEF V
  <2> QED  BY <1>1
<1>3. \A ask \in Asks : \A f, g \in [Asks -> V] :
        (\A y \in Asks : h[y] < h[ask] => f[y] = g[y]) => step[ask][f] = step[ask][g]
  <2> SUFFICES ASSUME NEW ask \in Asks, NEW f \in [Asks -> V], NEW g \in [Asks -> V],
                      \A y \in Asks : h[y] < h[ask] => f[y] = g[y]
               PROVE  step[ask][f] = step[ask][g]
    OBVIOUS
  <2>0. \A y \in Asks : Height[y.ty] < Height[ask.ty] => f[y] = g[y]
    OBVIOUS
  <2> HIDE DEF V, h
  <2>1. CollectedStep(ask, f) = CollectedStep(ask, g)
    <3>1. CASE ask.ty.type = "Vector"
      <4>1. f[Ask(ask.ty.of, ask.asked)] = g[Ask(ask.ty.of, ask.asked)]
        BY <2>0, <3>1, AsksBelow
      <4> QED  BY <4>1, <3>1 DEF CollectedStep
    <3>2. CASE ask.ty.type = "Datatype"
      <4>1. \A pair : pair \in DatatypeBounds(ask.ty, f) <=> pair \in DatatypeBounds(ask.ty, g)
        <5> TAKE pair
        <5> DEFINE def == defs[ask.ty.name]
        <5>1. \A i \in DOMAIN ask.ty.args \cap DOMAIN def.params :
                \A asked \in {"MoveType"} \cup def.params[i].constraints :
                  f[Ask(ask.ty.args[i], asked)] = g[Ask(ask.ty.args[i], asked)]
          BY <2>0, <3>2, AsksBelow
        <5>2. \A field \in Fields(def) : \A a \in FieldAbilities(def) :
                f[Ask(Subst(field, ask.ty.args), a)] = g[Ask(Subst(field, ask.ty.args), a)]
          BY <2>0, <3>2, AsksBelow
        <5>3. \A fun : pair \in DatatypeBounds(ask.ty, fun) <=>
                \/ \E i \in DOMAIN ask.ty.args \cap DOMAIN def.params :
                     \E asked \in {"MoveType"} \cup def.params[i].constraints :
                       pair \in fun[Ask(ask.ty.args[i], asked)]
                \/ \E field \in Fields(def) : \E a \in FieldAbilities(def) :
                     pair \in fun[Ask(Subst(field, ask.ty.args), a)]
          BY DatatypeBoundsFacts
        <5> HIDE DEF def
        <5> QED  BY <5>1, <5>2, <5>3
      <4>2. DatatypeBounds(ask.ty, f) = DatatypeBounds(ask.ty, g)
        BY <4>1
      <4> QED  BY <4>2, <3>2 DEF CollectedStep
    <3>3. CASE ask.ty.type \notin {"Vector", "Datatype"}
      BY <3>3 DEF CollectedStep
    <3> QED  BY <3>1, <3>2, <3>3
  <2> QED  BY <2>1
<1>4. PICK f \in [Asks -> V] : \A ask \in Asks : f[ask] = step[ask][f]
  <2>1. V # {} /\ h \in [Asks -> Nat]
    BY HeightType DEF Asks
  <2> HIDE DEF V, h, step
  <2>2. Steps(Asks, V, h, step)
    BY <1>2, <1>3, <2>1 DEF Steps
  <2> QED  BY <2>2, Recursion
<1>5. f = [ask \in Asks |-> CollectedStep(ask, f)]
  <2> HIDE DEF V
  <2> QED  BY <1>4
<1> DEFINE g == CHOOSE g : g = [ask \in Asks |-> CollectedStep(ask, g)]
<1>6. g = [ask \in Asks |-> CollectedStep(ask, g)]
  BY <1>5
<1>7. \A ty, asked : Collected(ty, asked) = g[Ask(ty, asked)]
  BY DEF Collected, CollectedStep
<1>8. \A ask \in Asks : g[ask] = CollectedStep(ask, g)
  <2> HIDE DEF g
  <2> QED  BY <1>6
<1> HIDE DEF g
<1> QED  BY <1>7, <1>8

\* What is collected, kind by kind.
LEMMA CollectedFacts ==
  ASSUME Crate, NEW ty \in Universe, NEW asked \in {"MoveType"} \cup Abilities
  PROVE  /\ ty.type = "Parameter" =>
              Collected(ty, asked) = IF asked = "MoveType" THEN {} ELSE {<<ty.index, asked>>}
         /\ ty.type = "Vector" => Collected(ty, asked) = Collected(ty.of, asked)
         /\ ty.type = "Datatype" => \A pair \in Collected(ty, asked) :
              LET def == defs[ty.name] IN
              \/ \E i \in DOMAIN ty.args \cap DOMAIN def.params :
                   \E x \in {"MoveType"} \cup def.params[i].constraints : pair \in Collected(ty.args[i], x)
              \/ \E field \in Fields(def) : \E a \in FieldAbilities(def) :
                   pair \in Collected(Subst(field, ty.args), a)
         /\ ty.type \in {"Scalar", "UID"} => Collected(ty, asked) = {}
<1>1. PICK f : /\ \A ask \in Asks : f[ask] = CollectedStep(ask, f)
               /\ \A t, x : Collected(t, x) = f[Ask(t, x)]
  BY CollectedEquation
<1> DEFINE ask == Ask(ty, asked)
<1>2. ask \in Asks /\ ask.ty = ty /\ ask.asked = asked
  BY DEF Ask, Asks
<1> HIDE DEF ask
<1>3. Collected(ty, asked) = CollectedStep(ask, f)
  BY <1>1, <1>2 DEF ask
<1>4. CASE ty.type = "Datatype"
  <2> DEFINE def == defs[ty.name]
  <2> SUFFICES ASSUME NEW pair \in Collected(ty, asked)
               PROVE  \/ \E i \in DOMAIN ty.args \cap DOMAIN def.params :
                           \E x \in {"MoveType"} \cup def.params[i].constraints : pair \in Collected(ty.args[i], x)
                      \/ \E field \in Fields(def) : \E a \in FieldAbilities(def) :
                           pair \in Collected(Subst(field, ty.args), a)
    BY <1>4
  <2>1. pair \in DatatypeBounds(ty, f)
    BY <1>2, <1>3, <1>4 DEF CollectedStep
  <2>2. \/ \E i \in DOMAIN ty.args \cap DOMAIN def.params :
             \E x \in {"MoveType"} \cup def.params[i].constraints : pair \in f[Ask(ty.args[i], x)]
        \/ \E field \in Fields(def) : \E a \in FieldAbilities(def) : pair \in f[Ask(Subst(field, ty.args), a)]
    BY <2>1, DatatypeBoundsFacts
  <2>3. \A t, x : f[Ask(t, x)] = Collected(t, x)
    BY <1>1
  <2> HIDE DEF def
  <2> QED  BY <2>2, <2>3
<1>5. CASE ty.type # "Datatype"
  BY <1>1, <1>2, <1>3, <1>5 DEF CollectedStep
<1> QED  BY <1>4, <1>5

\* What is within a fully able type is fully able.
LEMMA FullyAbleWithin ==
  ASSUME Crate, NEW t \in Universe, FullyAble(t)
  PROVE  /\ t.type = "Vector" => FullyAble(t.of)
         /\ t.type = "Datatype" =>
              /\ \A k \in DOMAIN t.args : FullyAble(t.args[k])
              /\ \A field \in Fields(defs[t.name]) : FullyAble(Subst(field, t.args))
              /\ defs[t.name].abilities \subseteq AbilitiesOf(t, defs, <<>>)
BY UnfoldedFacts DEF FullyAble

\* An ability that a type with the arguments in place has, or none.
Asked(asked, s) == asked = "MoveType" \/ asked \in Abilities \cap AbilitiesOf(s, defs, <<>>)

\* A field of the type around the arguments is the field of the type with the arguments.
LEMMA FieldOfInstance ==
  ASSUME Crate, NEW ty \in Universe, ty.type = "Datatype", NEW c, WellFormed(ty, defs, c),
         NEW args, Subst(ty, args) \in Universe, NEW field \in Fields(defs[ty.name])
  PROVE  Subst(Subst(field, ty.args), args) = Subst(field, Subst(ty, args).args)
<1> DEFINE def == defs[ty.name]
<1>1. ty.name \in Names /\ def \in Definitions /\ Valid(def, defs)
  BY TypeFacts, CrateFacts
<1>2. field \in Universe /\ WellFormed(field, defs, ConstraintsOf(def))
  BY <1>1, FieldFacts
<1>3. DOMAIN ConstraintsOf(def) \subseteq DOMAIN ty.args
  BY FieldsWellFormed DEF ConstraintsOf
<1>4. Subst(field, ty.args) \in Universe
  BY FieldsBelow
<1>5. Subst(ty, args).args = [i \in DOMAIN ty.args |-> Subst(ty.args[i], args)]
  BY SubstFacts DEF Datatype
<1> HIDE DEF def
<1> QED  BY <1>2, <1>3, <1>4, <1>5, SubstTwice

\* What is collected of a type, the arguments have.
LEMMA CollectedHave ==
  ASSUME Crate, NEW args, NEW c, NEW t \in Universe, NEW asked, NEW i \in DOMAIN args, NEW a,
         WellFormed(t, defs, c), Subst(t, args) \in Universe,
         WellFormed(Subst(t, args), defs, <<>>), FullyAble(Subst(t, args)),
         Asked(asked, Subst(t, args)), <<i, a>> \in Collected(t, asked)
  PROVE  a \in AbilitiesOf(args[i], defs, <<>>)
<1> DEFINE Apt(u, x) == /\ WellFormed(u, defs, c) /\ Subst(u, args) \in Universe
                        /\ WellFormed(Subst(u, args), defs, <<>>) /\ FullyAble(Subst(u, args))
                        /\ Asked(x, Subst(u, args)) /\ <<i, a>> \in Collected(u, x)
           bad == {u \in Universe : \E x : Apt(u, x)}
<1>1. SUFFICES ASSUME bad # {}, a \notin AbilitiesOf(args[i], defs, <<>>)
               PROVE  FALSE
  OBVIOUS
<1>2. PICK u \in bad : \A v \in Universe : Height[v] < Height[u] => v \notin bad
  <2>1. bad \in SUBSET Universe
    OBVIOUS
  <2> HIDE DEF bad
  <2> QED  BY <1>1, <2>1, LowestType
<1>3. PICK x : u \in Universe /\ Apt(u, x)
  OBVIOUS
<1>4. \A v \in Universe : \A y : Height[v] < Height[u] => ~Apt(v, y)
  BY <1>2
<1> HIDE DEF bad
<1> DEFINE s == Subst(u, args)
<1>5. x \in {"MoveType"} \cup Abilities
  BY <1>3 DEF Asked
<1>6. CASE u.type = "Parameter"
  <2>1. x # "MoveType" /\ u.index = i /\ a = x
    BY <1>3, <1>5, <1>6, CollectedFacts
  <2>2. s = args[i]
    BY <1>3, <1>6, <2>1, SubstFacts
  <2> QED  BY <1>1, <1>3, <2>1, <2>2 DEF Asked
<1>7. CASE u.type = "Vector"
  <2>1. /\ u.of \in Universe /\ Height[u.of] < Height[u] /\ WellFormed(u.of, defs, c)
        /\ <<i, a>> \in Collected(u.of, x)
    BY <1>3, <1>5, <1>7, TypeFacts, WellFormedFacts, CollectedFacts
  <2>2. s \in Universe /\ s.type = "Vector" /\ s.of = Subst(u.of, args) /\ s.of \in Universe
    BY <1>3, <1>7, SubstForms
  <2> HIDE DEF s
  <2>3. WellFormed(s, defs, <<>>) /\ FullyAble(s) /\ Asked(x, s)
    BY <1>3 DEF s
  <2>4. /\ WellFormed(s.of, defs, <<>>) /\ FullyAble(s.of)
        /\ AbilitiesOf(s, defs, <<>>) = AbilitiesOf(s.of, defs, <<>>) \ {"key"}
    BY <2>2, <2>3, WellFormedFacts, AbilitiesFacts, FullyAbleWithin
  <2>5. Asked(x, s.of)
    BY <2>3, <2>4 DEF Asked
  <2> QED  BY <1>4, <2>1, <2>2, <2>4, <2>5
<1>8. CASE u.type = "Datatype"
  <2> DEFINE def == defs[u.name]
  <2>1. /\ DOMAIN u.args = DOMAIN def.params
        /\ \A k \in DOMAIN u.args : /\ u.args[k] \in Universe /\ Height[u.args[k]] < Height[u]
                                    /\ WellFormed(u.args[k], defs, c)
        /\ \A field \in Fields(def) : WellFormed(Subst(field, u.args), defs, c)
    BY <1>3, <1>8, FieldsWellFormed
  <2>2. /\ s \in Universe /\ s.type = "Datatype" /\ s.name = u.name /\ DOMAIN s.args = DOMAIN u.args
        /\ \A k \in DOMAIN u.args : s.args[k] = Subst(u.args[k], args) /\ Subst(u.args[k], args) \in Universe
    BY <1>3, <1>8, SubstForms
  <2>3. WellFormed(s, defs, <<>>) /\ FullyAble(s)
    BY <1>3
  <2> HIDE DEF s
  <2>4. /\ \A k \in DOMAIN s.args :
             /\ WellFormed(s.args[k], defs, <<>>) /\ FullyAble(s.args[k])
             /\ def.params[k].constraints \subseteq AbilitiesOf(s.args[k], defs, <<>>)
        /\ \A field \in Fields(def) :
             /\ Subst(field, s.args) \in Universe
             /\ WellFormed(Subst(field, s.args), defs, <<>>) /\ FullyAble(Subst(field, s.args))
             /\ \A y \in AbilitiesOf(s, defs, <<>>) : Needed(y) \in AbilitiesOf(Subst(field, s.args), defs, <<>>)
        /\ def.abilities \subseteq AbilitiesOf(s, defs, <<>>)
    BY <2>2, <2>3, FieldsWellFormed, FieldsBelow, FullyAbleWithin
  <2>5. /\ \A k \in DOMAIN def.params : def.params[k].constraints \subseteq Abilities
        /\ def.abilities \subseteq Abilities
    BY <1>3, <1>8, TypeFacts, CrateFacts, ShapeFacts
  <2>6. ASSUME NEW k \in DOMAIN u.args \cap DOMAIN def.params,
               NEW y \in {"MoveType"} \cup def.params[k].constraints,
               <<i, a>> \in Collected(u.args[k], y)
        PROVE  FALSE
    <3>1. Asked(y, Subst(u.args[k], args))
      BY <2>2, <2>4, <2>5, <2>6 DEF Asked
    <3>2. Apt(u.args[k], y)
      BY <2>1, <2>2, <2>4, <2>6, <3>1
    <3> HIDE DEF Apt
    <3> QED  BY <1>4, <2>1, <3>2
  <2>7. ASSUME NEW field \in Fields(def), NEW y \in FieldAbilities(def),
               <<i, a>> \in Collected(Subst(field, u.args), y)
        PROVE  FALSE
    <3>1. Subst(Subst(field, u.args), args) = Subst(field, s.args)
      BY <1>3, <1>8, FieldOfInstance DEF s
    <3>2. y \in def.abilities /\ y # "key" /\ y \in Abilities
      BY <2>5, <2>7 DEF FieldAbilities
    <3>3. Needed(y) \in AbilitiesOf(Subst(field, s.args), defs, <<>>) /\ Needed(y) = y
      BY <2>4, <3>2, FlagNames
    <3>4. Asked(y, Subst(Subst(field, u.args), args))
      BY <3>1, <3>2, <3>3 DEF Asked
    <3>5. Subst(field, u.args) \in Universe /\ Height[Subst(field, u.args)] < Height[u]
      BY <1>3, <1>8, FieldsBelow
    <3>6. Apt(Subst(field, u.args), y)
      BY <2>1, <2>4, <2>7, <3>1, <3>4
    <3> HIDE DEF Apt
    <3> QED  BY <1>4, <3>5, <3>6
  <2>8. \/ \E k \in DOMAIN u.args \cap DOMAIN def.params :
             \E y \in {"MoveType"} \cup def.params[k].constraints : <<i, a>> \in Collected(u.args[k], y)
        \/ \E field \in Fields(def) : \E y \in FieldAbilities(def) :
             <<i, a>> \in Collected(Subst(field, u.args), y)
    BY <1>3, <1>5, <1>8, CollectedFacts
  <2> HIDE DEF def
  <2> QED  BY <2>6, <2>7, <2>8
<1>9. CASE u.type \in {"Scalar", "UID"}
  BY <1>3, <1>5, <1>9, CollectedFacts
<1> QED  BY <1>3, <1>6, <1>7, <1>8, <1>9, TypeFacts

\* Of well-formed closed types only datatypes have key.
LEMMA KeyDatatype ==
  ASSUME Crate, NEW t \in Universe, WellFormed(t, defs, <<>>), "key" \in AbilitiesOf(t, defs, <<>>)
  PROVE  t.type = "Datatype"
BY TypeFacts, AbilitiesFacts, WellFormedFacts

\* A legal call whose arguments have what their datatypes declare is accepted.
LEMMA CrateLegalAccepted ==
  ASSUME Crate, Rendered, NEW args \in Calls, LegalCall(function, args, defs),
         \A k \in DOMAIN function.parameters : FullyAble(Subst(function.parameters[k], args))
  PROVE  Accepts(args)
<1> DEFINE c == function.constraints
<1>1. DOMAIN args = DOMAIN c /\ args \in [DOMAIN c -> Samples]
  BY DEF Calls, Types
<1>2. \A i \in DOMAIN c : /\ args[i] \in Universe /\ WellFormed(args[i], defs, <<>>)
                          /\ c[i] \subseteq AbilitiesOf(args[i], defs, <<>>)
  BY <1>1, MarkersAssumption DEF LegalCall
<1>3. ASSUME NEW i \in DOMAIN c, NEW a, <<i, a>> \in Required(function)
      PROVE  a \in AbilitiesOf(args[i], defs, <<>>)
  <2>1. CASE a \in c[i]
    BY <1>2, <2>1
  <2>2. CASE a \notin c[i]
    <3>1. PICK k \in DOMAIN function.parameters :
                 <<i, a>> \in Collected(function.parameters[k], "MoveType")
      BY <1>3, <2>2 DEF Required
    <3> DEFINE ty == function.parameters[k]
    <3>2. ty \in Universe /\ WellFormed(ty, defs, c)
      BY FunctionFacts
    <3>3. Subst(ty, args) \in Universe
      BY <1>1, MarkersAssumption DEF Rendered
    <3>4. WellFormed(Subst(ty, args), defs, <<>>) /\ FullyAble(Subst(ty, args))
      BY DEF LegalCall
    <3>5. Asked("MoveType", Subst(ty, args)) /\ i \in DOMAIN args
      BY <1>1 DEF Asked
    <3> HIDE DEF ty, c
    <3>6. <<i, a>> \in Collected(ty, "MoveType")
      BY <3>1 DEF ty
    <3> QED  BY <3>2, <3>3, <3>4, <3>5, <3>6, CollectedHave
  <2> QED  BY <2>1, <2>2
<1>4. ASSUME NEW i \in DOMAIN c
      PROVE  Marked(args[i], {}, <<>>)
  BY <1>2, CoveredMarked DEF Covers
<1>5. SUFFICES ASSUME NEW b \in bounds
               PROVE  Holds(Instance(b, args), {}, impls)
  BY DEF Accepts
<1>6. PICK i \in DOMAIN c :
        \/ b = Bound(Parameter(i), IF <<i, "key">> \in Required(function) THEN "MoveStruct" ELSE "MoveType")
        \/ \E a \in Abilities : <<i, a>> \in Required(function) /\ b = Bound(Parameter(i), Marker[a])
  BY BuilderBoundsFacts
<1>7. \A trait : Instance(Bound(Parameter(i), trait), args) = Bound(args[i], trait)
  BY <1>1, FunctionFacts, ParameterInstance
<1>8. CASE b = Bound(Parameter(i), "MoveType")
  BY <1>4, <1>7, <1>8 DEF Marked
<1>9. CASE b = Bound(Parameter(i), "MoveStruct") /\ <<i, "key">> \in Required(function)
  <2>1. "key" \in AbilitiesOf(args[i], defs, <<>>)
    BY <1>3, <1>9
  <2>2. args[i].type = "Datatype"
    BY <1>2, <2>1, KeyDatatype
  <2>3. Covers({}, <<>>)
    BY DEF Covers
  <2>4. Holds(Bound(args[i], "MoveStruct"), {}, impls)
    <3>1. args[i] \in Universe /\ WellFormed(args[i], defs, <<>>)
      BY <1>2
    <3> QED  BY <2>2, <2>3, <3>1, CoveredObjects
  <2> QED  BY <1>7, <1>9, <2>4
<1>10. CASE \E a \in Abilities : <<i, a>> \in Required(function) /\ b = Bound(Parameter(i), Marker[a])
  <2>1. PICK a \in Abilities : <<i, a>> \in Required(function) /\ b = Bound(Parameter(i), Marker[a])
    BY <1>10
  <2>2. a \in AbilitiesOf(args[i], defs, <<>>)
    BY <1>3, <2>1
  <2> QED  BY <1>4, <1>7, <2>1, <2>2 DEF Marked
<1> QED  BY <1>6, <1>8, <1>9, <1>10

-----------------------------------------------------------------------------
(* Clone *)

ClonableStep(t, f) ==
  /\ t.type = "Vector" => f[t.of]
  /\ t.type = "Datatype" =>
       LET def == defs[t.name] IN
       IF def.kind = "enum"
         THEN "copy" \in def.abilities /\ \A k \in DOMAIN t.args : f[t.args[k]]
         ELSE \A field \in Fields(def) : f[Subst(field, t.args)]

\* Clonable is defined by recursion on heights.
LEMMA ClonableEquation ==
  ASSUME Crate
  PROVE  \E f : /\ \A t \in Universe : f[t] = ClonableStep(t, f)
                /\ \A t : Clonable(t) = f[t]
<1> DEFINE V == BOOLEAN
           step == [t \in Universe |-> [f \in [Universe -> V] |-> ClonableStep(t, f)]]
<1>1. \A t \in Universe : \A f \in [Universe -> V] : ClonableStep(t, f) \in V
  BY DEF ClonableStep
<1>2. step \in [Universe -> [[Universe -> V] -> V]]
  <2> HIDE DEF V
  <2> QED  BY <1>1
<1>3. \A t \in Universe : \A f, g \in [Universe -> V] :
        (\A y \in Universe : Height[y] < Height[t] => f[y] = g[y]) => step[t][f] = step[t][g]
  <2> SUFFICES ASSUME NEW t \in Universe, NEW f \in [Universe -> V], NEW g \in [Universe -> V],
                      \A y \in Universe : Height[y] < Height[t] => f[y] = g[y]
               PROVE  step[t][f] = step[t][g]
    OBVIOUS
  <2> HIDE DEF V
  <2>1. ClonableStep(t, f) = ClonableStep(t, g)
    <3>1. CASE t.type = "Vector"
      <4>1. f[t.of] = g[t.of]
        BY <3>1, TypeFacts
      <4> QED  BY <4>1, <3>1 DEF ClonableStep
    <3>2. CASE t.type = "Datatype"
      <4>1. \A k \in DOMAIN t.args : f[t.args[k]] = g[t.args[k]]
        BY <3>2, TypeFacts
      <4>2. \A field \in Fields(defs[t.name]) : f[Subst(field, t.args)] = g[Subst(field, t.args)]
        BY <3>2, FieldsBelow
      <4> QED  BY <4>1, <4>2, <3>2 DEF ClonableStep
    <3>3. CASE t.type \notin {"Vector", "Datatype"}
      BY <3>3 DEF ClonableStep
    <3> QED  BY <3>1, <3>2, <3>3
  <2> QED  BY <2>1
<1>4. PICK f \in [Universe -> V] : \A t \in Universe : f[t] = step[t][f]
  <2>1. V # {}
    OBVIOUS
  <2> HIDE DEF V, step
  <2>2. Steps(Universe, V, Height, step)
    BY <1>2, <1>3, <2>1, HeightType DEF Steps
  <2> QED  BY <2>2, Recursion
<1>5. f = [t \in Universe |-> ClonableStep(t, f)]
  <2> HIDE DEF V
  <2> QED  BY <1>4
<1> DEFINE g == CHOOSE g : g = [t \in Universe |-> ClonableStep(t, g)]
<1>6. g = [t \in Universe |-> ClonableStep(t, g)]
  BY <1>5
<1>7. \A t : Clonable(t) = g[t]
  BY DEF Clonable, ClonableStep
<1>8. \A t \in Universe : g[t] = ClonableStep(t, g)
  <2> HIDE DEF g
  <2> QED  BY <1>6
<1> HIDE DEF g
<1> QED  BY <1>7, <1>8

\* Clonable, kind by kind.
LEMMA ClonableFacts ==
  ASSUME Crate, NEW t \in Universe
  PROVE  /\ t.type = "Vector" => (Clonable(t) <=> Clonable(t.of))
         /\ t.type = "Datatype" =>
              /\ defs[t.name].kind = "enum" =>
                   (Clonable(t) <=> /\ "copy" \in defs[t.name].abilities
                                    /\ \A k \in DOMAIN t.args : Clonable(t.args[k]))
              /\ defs[t.name].kind # "enum" =>
                   (Clonable(t) <=> \A field \in Fields(defs[t.name]) : Clonable(Subst(field, t.args)))
         /\ t.type \notin {"Vector", "Datatype"} => Clonable(t)
<1>1. PICK f : /\ \A u \in Universe : f[u] = ClonableStep(u, f)
               /\ \A u : Clonable(u) = f[u]
  BY ClonableEquation
<1>2. Clonable(t) = ClonableStep(t, f)
  BY <1>1
<1>3. \A u : f[u] = Clonable(u)
  BY <1>1
<1>4. CASE t.type = "Vector"
  BY <1>2, <1>3, <1>4 DEF ClonableStep
<1>5. CASE t.type = "Datatype"
  <2>1. CASE defs[t.name].kind = "enum"
    <3>1. Clonable(t) = ("copy" \in defs[t.name].abilities /\ \A k \in DOMAIN t.args : f[t.args[k]])
      BY <1>2, <1>5, <2>1 DEF ClonableStep
    <3> HIDE <1>1, <1>2
    <3> QED  BY <1>3, <1>5, <2>1, <3>1
  <2>2. CASE defs[t.name].kind # "enum"
    <3>1. Clonable(t) = \A field \in Fields(defs[t.name]) : f[Subst(field, t.args)]
      BY <1>2, <1>5, <2>2 DEF ClonableStep
    <3> HIDE <1>1, <1>2
    <3> QED  BY <1>3, <1>5, <2>2, <3>1
  <2> QED  BY <2>1, <2>2
<1>6. CASE t.type \notin {"Vector", "Datatype"}
  BY <1>2, <1>6 DEF ClonableStep
<1> QED  BY <1>4, <1>5, <1>6

\* A closed type is Clone just if it is clonable.
LEMMA ClonableHolds ==
  ASSUME Crate, NEW t \in Universe, WellFormed(t, defs, <<>>)
  PROVE  Holds(Bound(t, "Clone"), {}, impls) <=> Clonable(t)
<1> DEFINE Clones(u) == Holds(Bound(u, "Clone"), {}, impls) <=> Clonable(u)
           bad == {u \in Universe : WellFormed(u, defs, <<>>) /\ ~Clones(u)}
<1>1. SUFFICES ASSUME bad # {}
               PROVE  FALSE
  OBVIOUS
<1>2. PICK u \in bad : \A v \in Universe : Height[v] < Height[u] => v \notin bad
  <2>1. bad \in SUBSET Universe
    OBVIOUS
  <2> HIDE DEF bad
  <2> QED  BY <1>1, <2>1, LowestType
<1>3. u \in Universe /\ WellFormed(u, defs, <<>>) /\ ~Clones(u)
  OBVIOUS
<1>4. \A v \in Universe : Height[v] < Height[u] /\ WellFormed(v, defs, <<>>) =>
        (Holds(Bound(v, "Clone"), {}, impls) <=> Clonable(v))
  BY <1>2
<1> HIDE DEF bad
<1>5. /\ \A bound : ~Assumed(bound, {})
      /\ "Clone" \in Traits /\ "Clone" \in ScalarTraits \cap UidTraits \cap VecTraits
  BY FlagNames DEF Assumed, ScalarTraits, UidTraits, VecTraits
<1>6. CASE u.type \in {"Scalar", "UID"}
  BY <1>3, <1>5, <1>6, OtherHolds, ClonableFacts
<1>7. CASE u.type = "Parameter"
  BY <1>3, <1>7, WellFormedFacts
<1>8. CASE u.type = "Vector"
  <2>1. u.of \in Universe /\ Height[u.of] < Height[u] /\ WellFormed(u.of, defs, <<>>)
    BY <1>3, <1>8, TypeFacts, WellFormedFacts
  <2>2. Holds(Bound(u.of, "Clone"), {}, impls) <=> Clonable(u.of)
    BY <1>4, <2>1
  <2>3. Holds(Bound(u, "Clone"), {}, impls) <=> Holds(Bound(u.of, "Clone"), {}, impls)
    BY <1>3, <1>5, <1>8, OtherHolds
  <2>4. Clonable(u) <=> Clonable(u.of)
    BY <1>3, <1>8, ClonableFacts
  <2> QED  BY <1>3, <2>2, <2>3, <2>4
<1>9. CASE u.type = "Datatype"
  <2> DEFINE def == defs[u.name]
  <2>1. /\ DOMAIN u.args = DOMAIN def.params /\ Len(u.args) = Arity(def)
        /\ \A k \in DOMAIN u.args : /\ u.args[k] \in Universe /\ Height[u.args[k]] < Height[u]
                                    /\ WellFormed(u.args[k], defs, <<>>)
        /\ \A field \in Fields(def) : WellFormed(Subst(field, u.args), defs, <<>>)
    BY <1>3, <1>9, FieldsWellFormed
  <2>2. \A field \in Fields(def) : Subst(field, u.args) \in Universe /\ Height[Subst(field, u.args)] < Height[u]
    BY <1>3, <1>9, FieldsBelow
  <2>3. def.kind \in {"struct", "enum"} /\ DOMAIN def.params = 1..Arity(def)
    BY <1>3, <1>9, TypeFacts, CrateFacts, ShapeFacts
  <2>4. CASE def.kind = "struct"
    <3>1. \A k \in DOMAIN u.args : Marked(u.args[k], {}, <<>>)
      BY <2>1, CoveredMarked DEF Covers
    <3>2. Meets(u, {})
      BY <1>3, <1>9, <3>1, MarkedMeet
    <3>3. Holds(Bound(u, "Clone"), {}, impls) <=> FieldsHold(u, "Clone", {})
      BY <1>3, <1>5, <1>9, <2>4, <3>2, StructHolds
    <3>4. Clonable(u) <=> \A field \in Fields(def) : Clonable(Subst(field, u.args))
      BY <1>3, <1>9, <2>4, ClonableFacts
    <3>5. FieldsHold(u, "Clone", {}) <=> \A field \in Fields(def) : Clonable(Subst(field, u.args))
      BY <1>4, <2>1, <2>2 DEF FieldsHold
    <3> QED  BY <1>3, <3>3, <3>4, <3>5
  <2>5. CASE def.kind = "enum"
    <3>1. \A k \in DOMAIN u.args : Holds(Bound(u.args[k], "Clone"), {}, impls) <=> Clonable(u.args[k])
      BY <1>4, <2>1
    <3>2. \A k \in 1..Arity(def) : Subst(Parameter(k), u.args) = u.args[k]
      <4> SUFFICES ASSUME NEW k \in 1..Arity(def)
                   PROVE  Subst(Parameter(k), u.args) = u.args[k]
        OBVIOUS
      <4>1. Parameter(k) \in Universe /\ k \in DOMAIN u.args
        BY <1>3, <1>9, <2>1, <2>3, TypeFacts, CrateFacts, ShapeFacts
      <4> QED  BY <4>1, ParameterSubst
    <3>3. Holds(Bound(u, "Clone"), {}, impls) <=>
            "copy" \in def.abilities /\ \A k \in 1..Arity(def) : Holds(Bound(u.args[k], "Clone"), {}, impls)
      BY <1>3, <1>5, <1>9, <2>5, <3>2, EnumHolds
    <3>4. Clonable(u) <=> "copy" \in def.abilities /\ \A k \in DOMAIN u.args : Clonable(u.args[k])
      BY <1>3, <1>9, <2>5, ClonableFacts
    <3> QED  BY <1>3, <2>1, <2>3, <3>1, <3>3, <3>4
  <2> QED  BY <2>3, <2>4, <2>5
<1> QED  BY <1>3, <1>6, <1>7, <1>8, <1>9, TypeFacts

-----------------------------------------------------------------------------
(* What rustc checks of the impls *)

\* A datatype over its own parameters.
LEMMA SelfFacts ==
  ASSUME Crate, NEW n \in Names
  PROVE  LET self == Self(n, defs[n]) IN
         /\ self \in Universe /\ self.type = "Datatype" /\ self.name = n
         /\ self.args = [i \in 1..Arity(defs[n]) |-> Parameter(i)]
         /\ WellFormed(self, defs, ConstraintsOf(defs[n]))
         /\ \A field \in Fields(defs[n]) : Subst(field, self.args) = field
<1> DEFINE self == Self(n, defs[n])
           def == defs[n]
           c == ConstraintsOf(def)
<1>1. /\ self \in Universe /\ self.type = "Datatype" /\ self.name = n
      /\ self.args = [i \in 1..Arity(defs[n]) |-> Parameter(i)]
  BY CrateFacts, MarkersAssumption DEF Self, Datatype
<1>2. /\ def \in Definitions /\ Valid(def, defs) /\ def # None
      /\ Arity(def) \in Nat /\ DOMAIN def.params = 1..Arity(def)
      /\ \A i \in DOMAIN def.params : Parameter(i) \in Universe
  BY CrateFacts, ShapeFacts
<1>3. DOMAIN c = 1..Arity(def) /\ \A i \in DOMAIN c : c[i] = def.params[i].constraints
  BY <1>2 DEF ConstraintsOf
<1>4. \A i \in 1..Arity(def) : Parameter(i).type = "Parameter" /\ Parameter(i).index = i
  BY DEF Parameter
<1> HIDE DEF self, c
<1>5. ASSUME NEW i \in DOMAIN self.args
      PROVE  WellFormed(self.args[i], defs, c) /\ AbilitiesOf(self.args[i], defs, c) = c[i]
  BY <1>1, <1>2, <1>3, <1>4, WellFormedFacts, AbilitiesFacts
<1>6. Len(self.args) = Arity(def)
  <2>1. self.args \in Seq(Universe)
    BY <1>1, TypeFacts
  <2> QED  BY <1>1, <1>2, <2>1
<1>7. WellFormed(self, defs, c)
  BY <1>1, <1>2, <1>3, <1>5, <1>6, WellFormedFacts
<1>8. ASSUME NEW field \in Fields(def)
      PROVE  Subst(field, self.args) = field
  <2>1. field \in Universe /\ WellFormed(field, defs, c)
    BY <1>2, FieldFacts DEF c
  <2>2. \A i \in DOMAIN c : i \in DOMAIN self.args /\ self.args[i] = Parameter(i)
    BY <1>1, <1>3
  <2> QED  BY <2>1, <2>2, SubstSelf
<1> QED  BY <1>1, <1>7, <1>8 DEF self, c

\* The bounds on its parameters cover their constraints.
LEMMA ParamsCover ==
  ASSUME Crate, NEW n \in Names, NEW env, ParamsOf(n) \subseteq env
  PROVE  Covers(env, ConstraintsOf(defs[n]))
<1> DEFINE c == ConstraintsOf(defs[n])
<1>1. ASSUME NEW i \in DOMAIN c
      PROVE  /\ Bound(Parameter(i), "MoveType") \in env
             /\ \A a \in c[i] : Bound(Parameter(i), Marker[a]) \in env
  BY ParamBoundsFacts DEF ParamsOf
<1>2. \A b \in env : Assumed(b, env)
  BY DEF Assumed
<1> QED  BY <1>1, <1>2 DEF Covers

\* Within an impl of a datatype its own type meets the bounds.
LEMMA SelfMeets ==
  ASSUME Crate, NEW n \in Names, NEW env, ParamsOf(n) \subseteq env
  PROVE  Meets(Self(n, defs[n]), env) /\ Holds(Bound(Self(n, defs[n]), "MoveType"), env, impls)
<1> DEFINE self == Self(n, defs[n])
           c == ConstraintsOf(defs[n])
<1>1. self \in Universe /\ self.type = "Datatype" /\ WellFormed(self, defs, c)
  BY SelfFacts
<1>2. Covers(env, c)
  BY ParamsCover
<1> HIDE DEF self, c
<1>3. \A k \in DOMAIN self.args : Marked(self.args[k], env, c)
  BY <1>1, <1>2, FieldsWellFormed, CoveredMarked
<1>4. Meets(self, env)
  BY <1>1, <1>3, MarkedMeet
<1>5. Marked(self, env, c)
  BY <1>1, <1>2, CoveredMarked
<1> QED  BY <1>4, <1>5 DEF Marked, self

LEMMA ParameterOpen ==
  ASSUME NEW n, NEW i \in 1..n, Parameter(i) \in Universe
  PROVE  ~Closed(Parameter(i), n)
<1>1. Parameter(i) \in Parts(Parameter(i))
  BY PartsFacts
<1> QED  BY <1>1 DEF Closed, Mentions

\* A closed field is a well-formed closed type, with the same abilities.
LEMMA ClosedField ==
  ASSUME Crate, NEW n \in Names, NEW field \in Fields(defs[n]), Closed(field, Arity(defs[n]))
  PROVE  /\ field \in Universe /\ WellFormed(field, defs, <<>>)
         /\ \A a \in defs[n].abilities : Needed(a) \in AbilitiesOf(field, defs, <<>>)
<1> DEFINE def == defs[n]
<1>1. /\ def \in Definitions /\ Valid(def, defs) /\ DOMAIN def.params = 1..Arity(def)
  BY CrateFacts, ShapeFacts
<1>2. /\ field \in Universe /\ WellFormed(field, defs, ConstraintsOf(def))
      /\ \A a \in def.abilities : Needed(a) \in AbilitiesOf(field, defs, [i \in DOMAIN def.params |-> Abilities])
  BY <1>1, FieldFacts
<1>3. DOMAIN ConstraintsOf(def) \subseteq 1..Arity(def)
  BY <1>1 DEF ConstraintsOf
<1>4. Ground(field)
  BY <1>2, <1>3, ClosedGround
<1> HIDE DEF def
<1>5. WellFormed(field, defs, <<>>)
  BY <1>2, <1>4, GroundFacts
<1>6. AbilitiesOf(field, defs, [i \in DOMAIN def.params |-> Abilities]) = AbilitiesOf(field, defs, <<>>)
  BY <1>2, <1>4, GroundFacts
<1> QED  BY <1>2, <1>5, <1>6 DEF def

LEMMA ParamsOpen ==
  ASSUME Crate, NEW n \in Names, NEW b \in ParamsOf(n)
  PROVE  ~Closed(b.ty, Arity(defs[n]))
<1>1. PICK i \in DOMAIN ConstraintsOf(defs[n]) : \E trait : b = Bound(Parameter(i), trait)
  BY ParamBoundsFacts DEF ParamsOf
<1>2. i \in 1..Arity(defs[n]) /\ Parameter(i) \in Universe
  BY CrateFacts, ShapeFacts DEF ConstraintsOf
<1>3. b.ty = Parameter(i)
  BY <1>1 DEF Bound
<1> QED  BY <1>2, <1>3, ParameterOpen

\* The impls of MoveType and MoveStruct compile.
LEMMA TypeImplsCompile ==
  ASSUME Crate, NEW n \in Names
  PROVE  /\ ImplCompiles(Impl("MoveType", n, ParamsOf(n), {}), Arity(defs[n]), impls)
         /\ ImplCompiles(Impl("MoveStruct", n, ParamsOf(n), {Bound(Self(n, defs[n]), "MoveType")}),
                         Arity(defs[n]), impls)
<1>1. Holds(Bound(Self(n, defs[n]), "MoveType"), ParamsOf(n), impls)
  BY SelfMeets
<1>2. \A b \in ParamsOf(n) : ~Closed(b.ty, Arity(defs[n]))
  BY ParamsOpen
<1> QED  BY <1>1, <1>2 DEF ImplCompiles, Impl

\* An assumed bound on a type holds.
LEMMA AssumedHolds ==
  ASSUME Crate, NEW t \in Universe, NEW trait \in Traits, NEW env, Assumed(Bound(t, trait), env)
  PROVE  Holds(Bound(t, trait), env, impls)
<1>1. Founded(impls)
  BY CrateFounded
<1> QED  BY <1>1, HoldsFacts

\* The impls of a struct compile unless a closed field is not Clone.
LEMMA StructCompiles ==
  ASSUME Crate, NEW n \in Names, defs[n].kind = "struct"
  PROVE  (\A impl \in ImplsOf(n, defs[n]) : ImplCompiles(impl, Arity(defs[n]), impls)) <=>
           \A field \in Fields(defs[n]) : Closed(field, Arity(defs[n])) => Clonable(field)
<1> DEFINE def == defs[n]
           self == Self(n, def)
           params == ParamsOf(n)
           cloneWhere == params \cup FieldBounds(Fields(def), "Clone")
           clone == Impl("Clone", n, cloneWhere, FieldBounds(Fields(def), "Clone"))
           type == Impl("MoveType", n, params, {})
           struct == Impl("MoveStruct", n, params, {Bound(self, "MoveType")})
           where(a) == params \cup IF a = "key" THEN {} ELSE FieldBounds(Fields(def), Marker[a])
           needs(a) == {Bound(self, trait) : trait \in Supertrait(Marker[a])}
           marker(a) == Impl(Marker[a], n, where(a), needs(a))
           Compiling(impl) == ImplCompiles(impl, Arity(def), impls)
<1>1. ImplsOf(n, def) = {clone, type, struct} \cup {marker(a) : a \in def.abilities}
  BY StructImplsFacts
<1>2. \A b \in params : ~Closed(b.ty, Arity(def))
  BY ParamsOpen
<1>3. Compiling(type) /\ Compiling(struct)
  BY TypeImplsCompile
<1>4. Fields(def) \subseteq Universe /\ def.abilities \subseteq Abilities
  BY CrateFacts, ShapeFacts
<1>5. \A field \in Fields(def) : Closed(field, Arity(def)) => WellFormed(field, defs, <<>>)
  BY ClosedField
<1>6. Compiling(clone) <=> \A field \in Fields(def) : Closed(field, Arity(def)) => Clonable(field)
  <2>1. clone.where = cloneWhere /\ clone.needs = FieldBounds(Fields(def), "Clone")
    BY DEF Impl
  <2>2. ASSUME NEW b \in FieldBounds(Fields(def), "Clone")
        PROVE  Holds(b, cloneWhere, impls)
    <3>1. PICK field \in Fields(def) : b = Bound(field, "Clone")
      BY DEF FieldBounds
    <3>2. Assumed(b, cloneWhere)
      BY DEF Assumed
    <3> HIDE DEF cloneWhere
    <3> QED  BY <1>4, <3>1, <3>2, AssumedHolds, FlagNames
  <2>3. Compiling(clone) <=> \A b \in cloneWhere : Closed(b.ty, Arity(def)) => Holds(b, {}, impls)
    <3> HIDE DEF cloneWhere, clone
    <3> QED  BY <2>1, <2>2 DEF ImplCompiles
  <2>4. Compiling(clone) <=> \A b \in FieldBounds(Fields(def), "Clone") :
                               Closed(b.ty, Arity(def)) => Holds(b, {}, impls)
    <3> HIDE DEF Compiling, clone, params
    <3> QED  BY <1>2, <2>3
  <2>5. \A field : Bound(field, "Clone").ty = field
    BY DEF Bound
  <2>6. Compiling(clone) <=> \A field \in Fields(def) :
                               Closed(field, Arity(def)) => Holds(Bound(field, "Clone"), {}, impls)
    <3> HIDE DEF Compiling, clone, def
    <3> QED  BY <2>4, <2>5 DEF FieldBounds
  <2>7. ASSUME NEW field \in Fields(def), Closed(field, Arity(def))
        PROVE  Holds(Bound(field, "Clone"), {}, impls) <=> Clonable(field)
    BY <1>4, <1>5, <2>7, ClonableHolds
  <2> HIDE DEF Compiling, clone, def
  <2> QED  BY <2>6, <2>7
<1>7. ASSUME NEW a \in def.abilities
      PROVE  Compiling(marker(a))
  <2>1. marker(a).where = where(a) /\ marker(a).needs = needs(a)
    BY DEF Impl
  <2>2. ASSUME NEW b \in where(a), Closed(b.ty, Arity(def))
        PROVE  Holds(b, {}, impls)
    <3>1. PICK field \in Fields(def) : b = Bound(field, Marker[a]) /\ a # "key"
      BY <1>2, <2>2 DEF FieldBounds
    <3>2. b.ty = field
      BY <3>1 DEF Bound
    <3>3. /\ field \in Universe /\ WellFormed(field, defs, <<>>)
          /\ Needed(a) \in AbilitiesOf(field, defs, <<>>)
      BY <2>2, <3>2, ClosedField
    <3>4. a \in Abilities \cap AbilitiesOf(field, defs, <<>>)
      BY <1>4, <3>1, <3>3, FlagNames
    <3>5. Marked(field, {}, <<>>)
      BY <3>3, CoveredMarked DEF Covers
    <3> QED  BY <3>1, <3>4, <3>5 DEF Marked
  <2>3. ASSUME NEW b \in needs(a)
        PROVE  Holds(b, where(a), impls)
    <3>1. PICK trait \in Supertrait(Marker[a]) : b = Bound(self, trait)
      OBVIOUS
    <3>2. a = "copy" /\ trait = "Clone"
      BY <1>4, <3>1, FlagNames DEF Supertrait
    <3>3. params \subseteq where(a)
      OBVIOUS
    <3> HIDE DEF where, params
    <3>4. Meets(self, where(a))
      BY <3>3, SelfMeets DEF params
    <3>5. self \in Universe /\ self.type = "Datatype" /\ self.name = n
          /\ \A field \in Fields(def) : Subst(field, self.args) = field
      BY SelfFacts
    <3>6. ASSUME NEW field \in Fields(def)
          PROVE  Holds(Bound(field, "Clone"), where(a), impls)
      <4>1. Bound(field, Marker[a]) \in where(a)
        BY <3>2 DEF where, FieldBounds
      <4>2. Assumed(Bound(field, "Clone"), where(a))
        BY <3>2, <4>1, FlagNames DEF Assumed, Bound, Supertrait
      <4> QED  BY <1>4, <4>2, AssumedHolds, FlagNames
    <3>7. FieldsHold(self, "Clone", where(a))
      BY <3>5, <3>6 DEF FieldsHold
    <3> HIDE DEF self
    <3> QED  BY <3>1, <3>2, <3>4, <3>5, <3>7, StructHolds
  <2> HIDE DEF marker, where, needs
  <2> QED  BY <2>1, <2>2, <2>3 DEF ImplCompiles
<1>8. (\A impl \in ImplsOf(n, def) : Compiling(impl)) <=> Compiling(clone)
  <2> HIDE DEF Compiling, clone, marker, type, struct
  <2> QED  BY <1>1, <1>3, <1>7
<1> QED  BY <1>6, <1>8

\* The bounds of the derive of Clone on the parameters of n.
CloneBounds(n) == {Bound(Parameter(i), "Clone") : i \in 1..Arity(defs[n])}

LEMMA CloneAssumed ==
  ASSUME NEW n, NEW t, NEW trait
  PROVE  Assumed(Bound(t, trait), CloneBounds(n)) <=>
           trait = "Clone" /\ \E i \in 1..Arity(defs[n]) : t = Parameter(i)
<1>1. Supertrait("Clone") = {}
  BY DEF Supertrait
<1>2. \A i : Bound(Parameter(i), "Clone").ty = Parameter(i) /\ Bound(Parameter(i), "Clone").trait = "Clone"
  BY DEF Bound
<1>3. Bound(t, trait).ty = t /\ Bound(t, trait).trait = trait
  BY DEF Bound
<1>4. Assumed(Bound(t, trait), CloneBounds(n)) <=>
        \E i \in 1..Arity(defs[n]) :
          Parameter(i) = t /\ ("Clone" = trait \/ trait \in Supertrait("Clone"))
  BY <1>2, <1>3 DEF Assumed, CloneBounds
<1> QED  BY <1>1, <1>4

\* Where parameters are Clone only, what is a Move type mentions none.
LEMMA CloneGround ==
  ASSUME Crate, NEW n \in Names, NEW c, NEW t \in Universe, WellFormed(t, defs, c),
         Holds(Bound(t, "MoveType"), CloneBounds(n), impls)
  PROVE  Ground(t)
<1> DEFINE E == CloneBounds(n)
           Apt(u) == /\ WellFormed(u, defs, c) /\ Holds(Bound(u, "MoveType"), E, impls) /\ ~Ground(u)
           bad == {u \in Universe : Apt(u)}
<1>1. SUFFICES ASSUME bad # {}
               PROVE  FALSE
  OBVIOUS
<1>2. PICK u \in bad : \A v \in Universe : Height[v] < Height[u] => v \notin bad
  <2>1. bad \in SUBSET Universe
    OBVIOUS
  <2> HIDE DEF bad
  <2> QED  BY <1>1, <2>1, LowestType
<1>3. u \in Universe /\ Apt(u)
  OBVIOUS
<1>4. \A v \in Universe : Height[v] < Height[u] => ~Apt(v)
  BY <1>2
<1> HIDE DEF bad
<1>5. ~Assumed(Bound(u, "MoveType"), E)
  BY CloneAssumed
<1>6. CASE u.type \in {"Scalar", "UID"}
  BY <1>3, <1>6, PartsFacts DEF Ground
<1>7. CASE u.type = "Parameter"
  BY <1>3, <1>5, <1>7, OtherHolds, FlagNames
<1>8. CASE u.type = "Vector"
  <2>1. /\ u.of \in Universe /\ Height[u.of] < Height[u] /\ WellFormed(u.of, defs, c)
        /\ Parts(u) = {u} \cup Parts(u.of)
    BY <1>3, <1>8, TypeFacts, WellFormedFacts, PartsFacts
  <2>2. Holds(Bound(u.of, "MoveType"), E, impls)
    BY <1>3, <1>5, <1>8, OtherHolds, FlagNames
  <2>3. Ground(u.of)
    BY <1>4, <2>1, <2>2
  <2> QED  BY <1>3, <1>8, <2>1, <2>3 DEF Ground
<1>9. CASE u.type = "Datatype"
  <2>1. /\ Len(u.args) = Arity(defs[u.name])
        /\ \A k \in DOMAIN u.args : /\ u.args[k] \in Universe /\ Height[u.args[k]] < Height[u]
                                    /\ WellFormed(u.args[k], defs, c)
    BY <1>3, <1>9, FieldsWellFormed
  <2>2. Meets(u, E)
    <3>1. defs[u.name].kind \in {"struct", "enum"}
      BY <1>3, <1>9, TypeFacts, CrateFacts, ShapeFacts
    <3>2. CASE defs[u.name].kind = "struct"
      BY <1>3, <1>5, <1>9, <3>2, StructHolds
    <3>3. CASE defs[u.name].kind = "enum"
      BY <1>3, <1>5, <1>9, <3>3, EnumHolds
    <3> QED  BY <3>1, <3>2, <3>3
  <2>3. \A k \in DOMAIN u.args : Holds(Bound(u.args[k], "MoveType"), E, impls)
    BY <1>3, <1>9, <2>1, <2>2, MeetsFacts
  <2>4. \A k \in DOMAIN u.args : Ground(u.args[k])
    BY <1>4, <2>1, <2>3
  <2>5. Parts(u) = {u} \cup (UNION {Parts(u.args[k]) : k \in DOMAIN u.args})
    BY <1>3, <1>9, PartsFacts
  <2> QED  BY <1>3, <1>9, <2>4, <2>5 DEF Ground
<1> QED  BY <1>3, <1>6, <1>7, <1>8, <1>9, TypeFacts

\* Where parameters are Clone only, a type that applies a struct to one is not Clone.
LEMMA CloneClosesStructs ==
  ASSUME Crate, NEW n \in Names, NEW c, NEW t \in Universe, WellFormed(t, defs, c),
         Holds(Bound(t, "Clone"), CloneBounds(n), impls)
  PROVE  ~StructOf(t, Arity(defs[n]))
<1> DEFINE E == CloneBounds(n)
           N == Arity(defs[n])
           Apt(u) == /\ WellFormed(u, defs, c) /\ Holds(Bound(u, "Clone"), E, impls) /\ StructOf(u, N)
           bad == {u \in Universe : Apt(u)}
<1>1. SUFFICES ASSUME bad # {}
               PROVE  FALSE
  OBVIOUS
<1>2. PICK u \in bad : \A v \in Universe : Height[v] < Height[u] => v \notin bad
  <2>1. bad \in SUBSET Universe
    OBVIOUS
  <2> HIDE DEF bad
  <2> QED  BY <1>1, <2>1, LowestType
<1>3. u \in Universe /\ Apt(u)
  OBVIOUS
<1>4. \A v \in Universe : Height[v] < Height[u] => ~Apt(v)
  BY <1>2
<1> HIDE DEF bad, N
<1>5. PICK part \in Parts(u) :
        part.type = "Datatype" /\ ~Closed(part, N) /\ defs[part.name].kind = "struct"
  BY <1>3 DEF StructOf
<1>6. CASE u.type \in {"Scalar", "UID", "Parameter"}
  BY <1>3, <1>5, <1>6, PartsFacts
<1>7. CASE u.type = "Vector"
  <2>1. /\ u.of \in Universe /\ Height[u.of] < Height[u] /\ WellFormed(u.of, defs, c)
        /\ Parts(u) = {u} \cup Parts(u.of)
    BY <1>3, <1>7, TypeFacts, WellFormedFacts, PartsFacts
  <2>2. ~Assumed(Bound(u, "Clone"), E)
    BY <1>7, CloneAssumed DEF Parameter
  <2>3. Holds(Bound(u.of, "Clone"), E, impls)
    BY <1>3, <1>7, <2>2, OtherHolds, FlagNames
  <2>4. StructOf(u.of, N)
    BY <1>5, <1>7, <2>1 DEF StructOf
  <2> QED  BY <1>4, <2>1, <2>3, <2>4
<1>8. CASE u.type = "Datatype"
  <2>1. /\ Len(u.args) = Arity(defs[u.name]) /\ DOMAIN u.args = DOMAIN defs[u.name].params
        /\ \A k \in DOMAIN u.args : /\ u.args[k] \in Universe /\ Height[u.args[k]] < Height[u]
                                    /\ WellFormed(u.args[k], defs, c)
    BY <1>3, <1>8, FieldsWellFormed
  <2>2. Parts(u) = {u} \cup (UNION {Parts(u.args[k]) : k \in DOMAIN u.args})
    BY <1>3, <1>8, PartsFacts
  <2>3. ~Assumed(Bound(u, "Clone"), E)
    BY <1>8, CloneAssumed DEF Parameter
  <2>4. /\ defs[u.name].kind \in {"struct", "enum"}
        /\ DOMAIN defs[u.name].params = 1..Arity(defs[u.name])
        /\ \A i \in DOMAIN defs[u.name].params : Parameter(i) \in Universe
    BY <1>3, <1>8, TypeFacts, CrateFacts, ShapeFacts
  <2>5. CASE defs[u.name].kind = "struct"
    <3>1. Meets(u, E)
      BY <1>3, <1>8, <2>3, <2>5, StructHolds
    <3>2. Holds(Bound(u, "MoveType"), E, impls)
      BY <1>3, <1>8, <2>5, <3>1, StructHolds
    <3>3. Ground(u)
      BY <1>3, <3>2, CloneGround
    <3>4. Parts(part) \subseteq Parts(u)
      BY <1>3, <1>5, PartsType
    <3>5. \A i : Parameter(i) \notin Parts(part)
      BY <3>3, <3>4 DEF Ground, Parameter
    <3> QED  BY <1>5, <3>5 DEF Closed, Mentions
  <2>6. CASE defs[u.name].kind = "enum"
    <3>1. PICK k \in DOMAIN u.args : part \in Parts(u.args[k])
      BY <1>5, <2>2, <2>6
    <3>2. StructOf(u.args[k], N)
      BY <1>5, <3>1 DEF StructOf
    <3>3. Subst(Parameter(k), u.args) = u.args[k]
      BY <2>1, <2>4, ParameterSubst
    <3>4. Holds(Bound(u.args[k], "Clone"), E, impls)
      BY <1>3, <1>8, <2>1, <2>3, <2>4, <2>6, <3>3, EnumHolds
    <3> QED  BY <1>4, <2>1, <3>2, <3>4
  <2> QED  BY <2>4, <2>5, <2>6
<1> QED  BY <1>3, <1>6, <1>7, <1>8, TypeFacts

\* The parameters of enums with copy are copied.
CopiedParameters ==
  \A m \in Names : defs[m].kind = "enum" /\ "copy" \in defs[m].abilities =>
    \A i \in DOMAIN defs[m].params : "copy" \in defs[m].params[i].constraints

\* A closed type with copy is Clone.
LEMMA ClosedCopyIsClone ==
  ASSUME Crate, CopiedParameters, NEW env, NEW t \in Universe, WellFormed(t, defs, <<>>),
         "copy" \in AbilitiesOf(t, defs, <<>>)
  PROVE  Holds(Bound(t, "Clone"), env, impls)
<1> DEFINE Apt(u) == /\ WellFormed(u, defs, <<>>) /\ "copy" \in AbilitiesOf(u, defs, <<>>)
                     /\ ~Holds(Bound(u, "Clone"), env, impls)
           bad == {u \in Universe : Apt(u)}
<1>1. SUFFICES ASSUME bad # {}
               PROVE  FALSE
  OBVIOUS
<1>2. PICK u \in bad : \A v \in Universe : Height[v] < Height[u] => v \notin bad
  <2>1. bad \in SUBSET Universe
    OBVIOUS
  <2> HIDE DEF bad
  <2> QED  BY <1>1, <2>1, LowestType
<1>3. u \in Universe /\ Apt(u)
  OBVIOUS
<1>4. \A v \in Universe : Height[v] < Height[u] => ~Apt(v)
  BY <1>2
<1> HIDE DEF bad
<1>5. "Clone" \in ScalarTraits \cap VecTraits /\ "Clone" \in Traits
  BY FlagNames DEF ScalarTraits, VecTraits
<1>6. CASE u.type = "Scalar"
  BY <1>3, <1>5, <1>6, OtherHolds
<1>7. CASE u.type = "UID"
  BY <1>3, <1>7, AbilitiesFacts
<1>8. CASE u.type = "Parameter"
  BY <1>3, <1>8, WellFormedFacts
<1>9. CASE u.type = "Vector"
  <2>1. /\ u.of \in Universe /\ Height[u.of] < Height[u] /\ WellFormed(u.of, defs, <<>>)
        /\ "copy" \in AbilitiesOf(u.of, defs, <<>>)
    BY <1>3, <1>9, TypeFacts, WellFormedFacts, AbilitiesFacts
  <2>2. Holds(Bound(u.of, "Clone"), env, impls)
    BY <1>4, <2>1
  <2> QED  BY <1>3, <1>5, <1>9, <2>2, OtherHolds
<1>10. CASE u.type = "Datatype"
  <2>1. /\ DOMAIN u.args = DOMAIN defs[u.name].params
        /\ \A k \in DOMAIN u.args :
             /\ u.args[k] \in Universe /\ Height[u.args[k]] < Height[u]
             /\ WellFormed(u.args[k], defs, <<>>)
             /\ defs[u.name].params[k].constraints \subseteq AbilitiesOf(u.args[k], defs, <<>>)
        /\ \A field \in Fields(defs[u.name]) :
             /\ WellFormed(Subst(field, u.args), defs, <<>>)
             /\ Needed("copy") \in AbilitiesOf(Subst(field, u.args), defs, <<>>)
    BY <1>3, <1>10, FieldsWellFormed
  <2>2. \A field \in Fields(defs[u.name]) :
          Subst(field, u.args) \in Universe /\ Height[Subst(field, u.args)] < Height[u]
    BY <1>3, <1>10, FieldsBelow
  <2>3. /\ u.name \in Names /\ defs[u.name].kind \in {"struct", "enum"}
        /\ DOMAIN defs[u.name].params = 1..Arity(defs[u.name])
        /\ \A i \in DOMAIN defs[u.name].params : Parameter(i) \in Universe
    BY <1>3, <1>10, TypeFacts, CrateFacts, ShapeFacts
  <2>4. "copy" \in defs[u.name].abilities
    BY <1>3, <1>10, AbilitiesFacts
  <2>5. CASE defs[u.name].kind = "struct"
    <3>1. \A k \in DOMAIN u.args : Marked(u.args[k], env, <<>>)
      BY <2>1, CoveredMarked DEF Covers
    <3>2. Meets(u, env)
      BY <1>3, <1>10, <3>1, MarkedMeet
    <3>3. FieldsHold(u, "Clone", env)
      BY <1>4, <2>1, <2>2 DEF FieldsHold, Needed
    <3> QED  BY <1>3, <1>10, <2>5, <3>2, <3>3, StructHolds
  <2>6. CASE defs[u.name].kind = "enum"
    <3>1. \A k \in DOMAIN u.args : Holds(Bound(u.args[k], "Clone"), env, impls)
      BY <1>4, <2>1, <2>3, <2>4, <2>6 DEF CopiedParameters
    <3>2. \A k \in 1..Arity(defs[u.name]) : Subst(Parameter(k), u.args) = u.args[k]
      BY <2>1, <2>3, ParameterSubst
    <3> QED  BY <1>3, <1>10, <2>1, <2>3, <2>4, <2>6, <3>1, <3>2, EnumHolds
  <2> QED  BY <2>3, <2>5, <2>6
<1> QED  BY <1>3, <1>6, <1>7, <1>8, <1>9, <1>10, TypeFacts

\* Where parameters are Clone, a type with copy that applies no struct to one is Clone.
LEMMA CopyIsClone ==
  ASSUME Crate, CopiedParameters, NEW n \in Names, NEW c, DOMAIN c \subseteq 1..Arity(defs[n]),
         NEW t \in Universe, WellFormed(t, defs, c), "copy" \in AbilitiesOf(t, defs, c),
         ~StructOf(t, Arity(defs[n]))
  PROVE  Holds(Bound(t, "Clone"), CloneBounds(n), impls)
<1> DEFINE E == CloneBounds(n)
           N == Arity(defs[n])
           Apt(u) == /\ WellFormed(u, defs, c) /\ "copy" \in AbilitiesOf(u, defs, c)
                     /\ ~StructOf(u, N) /\ ~Holds(Bound(u, "Clone"), E, impls)
           bad == {u \in Universe : Apt(u)}
<1>1. SUFFICES ASSUME bad # {}
               PROVE  FALSE
  OBVIOUS
<1>2. PICK u \in bad : \A v \in Universe : Height[v] < Height[u] => v \notin bad
  <2>1. bad \in SUBSET Universe
    OBVIOUS
  <2> HIDE DEF bad
  <2> QED  BY <1>1, <2>1, LowestType
<1>3. u \in Universe /\ Apt(u)
  OBVIOUS
<1>4. \A v \in Universe : Height[v] < Height[u] => ~Apt(v)
  BY <1>2
<1> HIDE DEF bad
<1>5. "Clone" \in ScalarTraits \cap VecTraits /\ "Clone" \in Traits
  BY FlagNames DEF ScalarTraits, VecTraits
<1>6. CASE u.type = "Scalar"
  BY <1>3, <1>5, <1>6, OtherHolds
<1>7. CASE u.type = "UID"
  BY <1>3, <1>7, AbilitiesFacts
<1>8. CASE u.type = "Parameter"
  <2>1. u.index \in 1..N /\ u = Parameter(u.index)
    BY <1>3, <1>8, WellFormedFacts, TypeFacts
  <2>2. Assumed(Bound(u, "Clone"), E)
    BY <2>1, CloneAssumed
  <2> QED  BY <1>3, <1>5, <2>2, AssumedHolds
<1>9. CASE u.type = "Vector"
  <2>1. /\ u.of \in Universe /\ Height[u.of] < Height[u] /\ WellFormed(u.of, defs, c)
        /\ Parts(u) = {u} \cup Parts(u.of)
        /\ "copy" \in AbilitiesOf(u.of, defs, c)
    BY <1>3, <1>9, TypeFacts, WellFormedFacts, PartsFacts, AbilitiesFacts
  <2>2. ~StructOf(u.of, N)
    BY <1>3, <2>1 DEF StructOf
  <2>3. Holds(Bound(u.of, "Clone"), E, impls)
    BY <1>4, <2>1, <2>2
  <2> QED  BY <1>3, <1>5, <1>9, <2>3, OtherHolds
<1>10. CASE u.type = "Datatype"
  <2>1. /\ Len(u.args) = Arity(defs[u.name]) /\ DOMAIN u.args = DOMAIN defs[u.name].params
        /\ \A k \in DOMAIN u.args :
             /\ u.args[k] \in Universe /\ Height[u.args[k]] < Height[u]
             /\ WellFormed(u.args[k], defs, c)
             /\ defs[u.name].params[k].constraints \subseteq AbilitiesOf(u.args[k], defs, c)
    BY <1>3, <1>10, FieldsWellFormed
  <2>2. Parts(u) = {u} \cup (UNION {Parts(u.args[k]) : k \in DOMAIN u.args})
    BY <1>3, <1>10, PartsFacts
  <2>3. /\ u.name \in Names /\ defs[u.name].kind \in {"struct", "enum"}
        /\ DOMAIN defs[u.name].params = 1..Arity(defs[u.name])
        /\ \A i \in DOMAIN defs[u.name].params : Parameter(i) \in Universe
    BY <1>3, <1>10, TypeFacts, CrateFacts, ShapeFacts
  <2>4. "copy" \in defs[u.name].abilities
    BY <1>3, <1>10, AbilitiesFacts
  <2>5. CASE defs[u.name].kind = "struct"
    <3>1. Closed(u, N)
      BY <1>3, <1>10, <2>2, <2>5 DEF StructOf
    <3>2. Ground(u)
      BY <1>3, <3>1, ClosedGround
    <3>3. WellFormed(u, defs, <<>>) /\ AbilitiesOf(u, defs, c) = AbilitiesOf(u, defs, <<>>)
      BY <1>3, <3>2, GroundFacts
    <3> QED  BY <1>3, <3>3, ClosedCopyIsClone
  <2>6. CASE defs[u.name].kind = "enum"
    <3>1. ASSUME NEW k \in DOMAIN u.args
          PROVE  Holds(Bound(u.args[k], "Clone"), E, impls)
      <4>1. "copy" \in AbilitiesOf(u.args[k], defs, c)
        BY <2>1, <2>3, <2>4, <2>6 DEF CopiedParameters
      <4>2. ~StructOf(u.args[k], N)
        BY <1>3, <2>2 DEF StructOf
      <4> QED  BY <1>4, <2>1, <4>1, <4>2
    <3>2. \A k \in 1..Arity(defs[u.name]) : Subst(Parameter(k), u.args) = u.args[k]
      BY <2>1, <2>3, ParameterSubst
    <3> QED  BY <1>3, <1>10, <2>1, <2>3, <2>4, <2>6, <3>1, <3>2, EnumHolds
  <2> QED  BY <2>3, <2>5, <2>6
<1> QED  BY <1>3, <1>6, <1>7, <1>8, <1>9, <1>10, TypeFacts

\* The bounds on a parameter have Clone just if the parameter has copy.
LEMMA ParameterClone ==
  ASSUME Crate, NEW n \in Names, NEW i \in DOMAIN defs[n].params
  PROVE  Holds(Bound(Parameter(i), "Clone"), ParamsOf(n), impls) <=>
           "copy" \in defs[n].params[i].constraints
<1> DEFINE c == ConstraintsOf(defs[n])
           P == ParamsOf(n)
<1>1. /\ Parameter(i) \in Universe /\ Parameter(i).type = "Parameter"
      /\ \A j \in DOMAIN defs[n].params : defs[n].params[j].constraints \subseteq Abilities
  BY CrateFacts, ShapeFacts DEF Parameter
<1>2. DOMAIN c = DOMAIN defs[n].params /\ \A j \in DOMAIN c : c[j] = defs[n].params[j].constraints
  BY DEF ConstraintsOf
<1>3. Holds(Bound(Parameter(i), "Clone"), P, impls) <=> Assumed(Bound(Parameter(i), "Clone"), P)
  BY <1>1, OtherHolds, FlagNames
<1>4. ASSUME "copy" \in c[i]
      PROVE  Assumed(Bound(Parameter(i), "Clone"), P)
  <2>1. Bound(Parameter(i), "HasCopy") \in P
    BY <1>2, <1>4, ParamBoundsFacts, FlagNames DEF ParamsOf
  <2> QED  BY <2>1 DEF Assumed, Bound, Supertrait
<1>5. ASSUME Assumed(Bound(Parameter(i), "Clone"), P)
      PROVE  "copy" \in c[i]
  <2>1. PICK b \in P : b.ty = Parameter(i) /\ (b.trait = "Clone" \/ "Clone" \in Supertrait(b.trait))
    BY <1>5 DEF Assumed, Bound
  <2>2. PICK j \in DOMAIN c : \/ b = Bound(Parameter(j), "MoveType")
                              \/ \E a \in c[j] : b = Bound(Parameter(j), Marker[a])
    BY ParamBoundsFacts DEF ParamsOf
  <2>3. b.ty = Parameter(j)
    BY <2>2 DEF Bound
  <2>4. i = j
    BY <2>1, <2>3 DEF Parameter
  <2>5. Supertrait("MoveType") = {} /\ \A a \in Abilities : "Clone" \in Supertrait(Marker[a]) => a = "copy"
    BY FlagNames DEF Supertrait
  <2>6. \A a \in Abilities : Marker[a] # "Clone"
    BY FlagNames
  <2>7. b # Bound(Parameter(j), "MoveType")
    BY <2>1, <2>5 DEF Bound
  <2>8. PICK a \in c[j] : b = Bound(Parameter(j), Marker[a])
    BY <2>2, <2>7
  <2>9. a \in Abilities /\ b.trait = Marker[a]
    BY <1>1, <1>2, <2>8 DEF Bound
  <2> QED  BY <2>1, <2>4, <2>5, <2>6, <2>8, <2>9
<1> QED  BY <1>2, <1>3, <1>4, <1>5

\* The impl of a marker for an enum compiles; that of HasCopy if all parameters are copied.
LEMMA EnumMarkerCompiles ==
  ASSUME Crate, NEW n \in Names, defs[n].kind = "enum", NEW a \in defs[n].abilities
  PROVE  ImplCompiles(Impl(Marker[a], n, ParamsOf(n),
                           {Bound(Self(n, defs[n]), trait) : trait \in Supertrait(Marker[a])}),
                      Arity(defs[n]), impls)
           <=> (a = "copy" => \A i \in DOMAIN defs[n].params : "copy" \in defs[n].params[i].constraints)
<1> DEFINE def == defs[n]
           self == Self(n, def)
           P == ParamsOf(n)
           needs == {Bound(self, trait) : trait \in Supertrait(Marker[a])}
           marker == Impl(Marker[a], n, P, needs)
<1>1. marker.where = P /\ marker.needs = needs
  BY DEF Impl
<1>2. \A b \in P : ~Closed(b.ty, Arity(def))
  BY ParamsOpen
<1>3. ImplCompiles(marker, Arity(def), impls) <=> \A b \in needs : Holds(b, P, impls)
  <2> HIDE DEF marker, P, needs
  <2> QED  BY <1>1, <1>2 DEF ImplCompiles
<1>4. /\ def.abilities \subseteq Abilities /\ DOMAIN def.params = 1..Arity(def)
      /\ \A i \in DOMAIN def.params : Parameter(i) \in Universe
  BY CrateFacts, ShapeFacts
<1>5. CASE a # "copy"
  <2>1. needs = {}
    BY <1>4, <1>5, FlagNames DEF Supertrait
  <2> HIDE DEF needs, marker
  <2> QED  BY <1>3, <1>5, <2>1 DEF marker, needs
<1>6. CASE a = "copy"
  <2>1. needs = {Bound(self, "Clone")}
    BY <1>6, FlagNames DEF Supertrait
  <2>2. /\ self \in Universe /\ self.type = "Datatype" /\ self.name = n
        /\ self.args = [i \in 1..Arity(def) |-> Parameter(i)]
    BY SelfFacts
  <2>3. ~Assumed(Bound(self, "Clone"), P)
    <3> SUFFICES ASSUME NEW b \in P
                 PROVE  b.ty # self
      BY DEF Assumed, Bound
    <3>1. \E i : b.ty = Parameter(i)
      BY ParamBoundsFacts DEF ParamsOf, Bound
    <3> QED  BY <2>2, <3>1 DEF Parameter
  <2>4. \A i \in 1..Arity(def) : Subst(Parameter(i), self.args) = Parameter(i)
    <3> SUFFICES ASSUME NEW i \in 1..Arity(def)
                 PROVE  Subst(Parameter(i), self.args) = Parameter(i)
      OBVIOUS
    <3>1. Parameter(i) \in Universe /\ i \in DOMAIN self.args /\ self.args[i] = Parameter(i)
      BY <1>4, <2>2
    <3> HIDE DEF self
    <3> QED  BY <3>1, ParameterSubst
  <2>5. Holds(Bound(self, "Clone"), P, impls) <=>
          \A i \in 1..Arity(def) : Holds(Bound(Parameter(i), "Clone"), P, impls)
    <3> HIDE DEF self, P
    <3>1. Holds(Bound(self, "Clone"), P, impls) <=>
            \/ Assumed(Bound(self, "Clone"), P)
            \/ /\ "copy" \in def.abilities
               /\ \A i \in 1..Arity(def) : Holds(Bound(Subst(Parameter(i), self.args), "Clone"), P, impls)
      BY <2>2, EnumHolds
    <3> QED  BY <1>6, <2>3, <2>4, <3>1
  <2>6. \A i \in DOMAIN def.params :
          Holds(Bound(Parameter(i), "Clone"), P, impls) <=> "copy" \in def.params[i].constraints
    BY ParameterClone
  <2> HIDE DEF needs, marker, P, self
  <2>7. ImplCompiles(marker, Arity(def), impls) <=> Holds(Bound(self, "Clone"), P, impls)
    BY <1>3, <2>1
  <2>8. ImplCompiles(marker, Arity(def), impls) <=>
          \A i \in DOMAIN def.params : "copy" \in def.params[i].constraints
    BY <1>4, <2>5, <2>6, <2>7
  <2> QED  BY <1>6, <2>8 DEF marker, needs, P, self
<1> QED  BY <1>5, <1>6

\* An enum with copy, without regard to its markers.
LEMMA EnumCloneCompiles ==
  ASSUME Crate, CopiedParameters, NEW n \in Names, defs[n].kind = "enum", "copy" \in defs[n].abilities
  PROVE  ImplCompiles(Impl("Clone", n, {Bound(Parameter(i), "Clone") : i \in 1..Arity(defs[n])},
                           FieldBounds(defs[n].fields, "Clone")), Arity(defs[n]), impls)
           <=> \A field \in Fields(defs[n]) : ~StructOf(field, Arity(defs[n]))
<1> DEFINE def == defs[n]
           N == Arity(def)
           E == CloneBounds(n)
           c == ConstraintsOf(def)
           clone == Impl("Clone", n, {Bound(Parameter(i), "Clone") : i \in 1..N},
                         FieldBounds(def.fields, "Clone"))
<1>1. clone.where = E /\ clone.needs = FieldBounds(def.fields, "Clone")
  BY DEF Impl, CloneBounds
<1>2. /\ def \in Definitions /\ Valid(def, defs) /\ Fields(def) \subseteq Universe
      /\ N \in Nat /\ DOMAIN def.params = 1..N
      /\ \A i \in DOMAIN def.params : Parameter(i) \in Universe
  BY CrateFacts, ShapeFacts
<1>3. Fields(def) = def.fields
  <2>1. "key" \notin def.abilities
    BY <1>2 DEF Valid
  <2> QED  BY <2>1 DEF Fields
<1>4. DOMAIN c = 1..N /\ \A i \in DOMAIN c : c[i] = def.params[i].constraints
  BY <1>2 DEF ConstraintsOf
<1>5. \A b \in E : ~Closed(b.ty, N)
  <2> SUFFICES ASSUME NEW b \in E
               PROVE  ~Closed(b.ty, N)
    OBVIOUS
  <2>1. PICK i \in 1..N : b = Bound(Parameter(i), "Clone")
    BY DEF CloneBounds
  <2>2. b.ty = Parameter(i)
    BY <2>1 DEF Bound
  <2> QED  BY <1>2, <2>2, ParameterOpen
<1>6. ImplCompiles(clone, N, impls) <=> \A field \in Fields(def) : Holds(Bound(field, "Clone"), E, impls)
  <2>1. ImplCompiles(clone, N, impls) <=> \A b \in FieldBounds(def.fields, "Clone") : Holds(b, E, impls)
    <3> HIDE DEF clone, E, N, def
    <3> QED  BY <1>1, <1>5 DEF ImplCompiles
  <2> HIDE DEF clone, E, N
  <2> QED  BY <1>3, <2>1 DEF FieldBounds
<1>7. ASSUME NEW field \in Fields(def)
      PROVE  Holds(Bound(field, "Clone"), E, impls) <=> ~StructOf(field, N)
  <2>1. field \in Universe /\ WellFormed(field, defs, c)
    BY <1>2, FieldFacts
  <2>2. Holds(Bound(field, "Clone"), E, impls) => ~StructOf(field, N)
    <3> HIDE DEF c
    <3> QED  BY <2>1, CloneClosesStructs
  <2>3. "copy" \in AbilitiesOf(field, defs, c)
    <3> DEFINE args == Self(n, def).args
    <3>1. /\ args = [i \in 1..N |-> Parameter(i)]
          /\ Subst(field, args) = field
      BY SelfFacts
    <3>2. \A k \in DOMAIN def.params : Needed("copy") \in AbilitiesOf(args[k], defs, c)
      <4> SUFFICES ASSUME NEW k \in DOMAIN def.params
                   PROVE  Needed("copy") \in AbilitiesOf(args[k], defs, c)
        OBVIOUS
      <4>1. args[k] = Parameter(k) /\ Parameter(k) \in Universe
        BY <1>2, <3>1
      <4>2. Parameter(k).type = "Parameter" /\ Parameter(k).index = k
        BY DEF Parameter
      <4>3. AbilitiesOf(Parameter(k), defs, c) = c[k]
        BY <4>1, <4>2, AbilitiesFacts
      <4>4. "copy" \in def.params[k].constraints
        BY DEF CopiedParameters
      <4> QED  BY <1>2, <1>4, <4>1, <4>3, <4>4 DEF Needed
    <3>3. DOMAIN def.params \subseteq DOMAIN args
      BY <1>2, <3>1
    <3> HIDE DEF args, c, N, def
    <3>4. Needed("copy") \in AbilitiesOf(Subst(field, args), defs, c)
      <4>1. "copy" \in def.abilities
        BY DEF def
      <4>2. Subst(field, args) \in Universe
        BY <2>1, <3>1
      <4> QED  BY <1>2, <3>2, <3>3, <4>1, <4>2, FieldsHave
    <3> QED  BY <3>1, <3>4 DEF Needed
  <2>4. DOMAIN c \subseteq 1..N
    BY <1>4
  <2> HIDE DEF c
  <2> QED  BY <2>1, <2>2, <2>3, <2>4, CopyIsClone
<1> HIDE DEF E, clone
<1> QED  BY <1>6, <1>7 DEF clone

\* rustc's verdict on the impls of a datatype.
LEMMA ImplsCompile ==
  ASSUME Crate
  PROVE  (\A n \in Names : \A impl \in ImplsOf(n, defs[n]) : ImplCompiles(impl, Arity(defs[n]), impls)) <=>
           \A n \in Names :
             /\ defs[n].kind = "struct" =>
                  \A field \in Fields(defs[n]) : Closed(field, Arity(defs[n])) => Clonable(field)
             /\ defs[n].kind = "enum" /\ "copy" \in defs[n].abilities =>
                  /\ \A i \in 1..Arity(defs[n]) : "copy" \in defs[n].params[i].constraints
                  /\ \A field \in Fields(defs[n]) : ~StructOf(field, Arity(defs[n]))
<1> DEFINE Compiling(n, impl) == ImplCompiles(impl, Arity(defs[n]), impls)
           marker(n, a) == Impl(Marker[a], n, ParamsOf(n),
                                {Bound(Self(n, defs[n]), trait) : trait \in Supertrait(Marker[a])})
           clone(n) == Impl("Clone", n, {Bound(Parameter(i), "Clone") : i \in 1..Arity(defs[n])},
                            FieldBounds(defs[n].fields, "Clone"))
           Copied(n) == \A i \in 1..Arity(defs[n]) : "copy" \in defs[n].params[i].constraints
           Applied(n) == \A field \in Fields(defs[n]) : ~StructOf(field, Arity(defs[n]))
           Closing(n) == \A field \in Fields(defs[n]) : Closed(field, Arity(defs[n])) => Clonable(field)
           All(n) == \A impl \in ImplsOf(n, defs[n]) : Compiling(n, impl)
<1>1. \A n \in Names : /\ defs[n].kind \in {"struct", "enum"}
                       /\ DOMAIN defs[n].params = 1..Arity(defs[n])
  BY CrateFacts, ShapeFacts
<1>2. \A n \in Names : defs[n].kind = "struct" => (All(n) <=> Closing(n))
  BY StructCompiles
<1>3. CopiedParameters <=>
        \A n \in Names : defs[n].kind = "enum" /\ "copy" \in defs[n].abilities => Copied(n)
  BY <1>1 DEF CopiedParameters
<1>4. ASSUME NEW n \in Names, defs[n].kind = "enum"
      PROVE  /\ \A a \in defs[n].abilities : Compiling(n, marker(n, a)) <=> (a = "copy" => Copied(n))
             /\ All(n) <=> /\ \A a \in defs[n].abilities : Compiling(n, marker(n, a))
                           /\ "copy" \in defs[n].abilities => Compiling(n, clone(n))
  <2>1. ASSUME NEW a \in defs[n].abilities
        PROVE  Compiling(n, marker(n, a)) <=> (a = "copy" => Copied(n))
    BY <1>1, <1>4, EnumMarkerCompiles
  <2> DEFINE type == Impl("MoveType", n, ParamsOf(n), {})
             struct == Impl("MoveStruct", n, ParamsOf(n), {Bound(Self(n, defs[n]), "MoveType")})
  <2>2. ImplsOf(n, defs[n]) = {type, struct} \cup {marker(n, a) : a \in defs[n].abilities}
                                \cup IF "copy" \in defs[n].abilities THEN {clone(n)} ELSE {}
    BY <1>4, EnumImplsFacts
  <2>3. Compiling(n, type) /\ Compiling(n, struct)
    BY TypeImplsCompile
  <2> HIDE DEF Compiling, marker, clone, type, struct
  <2>4. All(n) <=> /\ \A a \in defs[n].abilities : Compiling(n, marker(n, a))
                   /\ "copy" \in defs[n].abilities => Compiling(n, clone(n))
    BY <2>2, <2>3
  <2> QED  BY <2>1, <2>4
<1>5. ASSUME CopiedParameters, NEW n \in Names, defs[n].kind = "enum", "copy" \in defs[n].abilities
      PROVE  Compiling(n, clone(n)) <=> Applied(n)
  BY <1>5, EnumCloneCompiles
<1> HIDE DEF All, Compiling, marker, clone, Copied, Applied, Closing
<1>6. ASSUME \A n \in Names : All(n)
      PROVE  \A n \in Names :
               /\ defs[n].kind = "struct" => Closing(n)
               /\ defs[n].kind = "enum" /\ "copy" \in defs[n].abilities => Copied(n) /\ Applied(n)
  <2>1. CopiedParameters
    BY <1>3, <1>4, <1>6
  <2> QED  BY <1>2, <1>3, <1>4, <1>5, <1>6, <2>1
<1>7. ASSUME \A n \in Names :
               /\ defs[n].kind = "struct" => Closing(n)
               /\ defs[n].kind = "enum" /\ "copy" \in defs[n].abilities => Copied(n) /\ Applied(n)
      PROVE  \A n \in Names : All(n)
  <2>1. CopiedParameters
    BY <1>3, <1>7
  <2> QED  BY <1>1, <1>2, <1>4, <1>5, <1>7, <2>1
<1>8. (\A n \in Names : All(n)) <=>
        \A n \in Names :
          /\ defs[n].kind = "struct" => Closing(n)
          /\ defs[n].kind = "enum" /\ "copy" \in defs[n].abilities => Copied(n) /\ Applied(n)
  BY <1>6, <1>7
<1> QED  BY <1>8 DEF All, Compiling, Copied, Applied, Closing

-----------------------------------------------------------------------------
(* The states *)

\* The datatypes before position k of the modules.
Before(k) == {Order[i] : i \in {i \in DOMAIN Order : i < k}}

Written == IF phase = "move" THEN {} ELSE IF phase = "generate" THEN Before(at) ELSE Names

Expanded ==
  IF phase \in {"move", "generate"} THEN {} ELSE IF phase = "compile" THEN Before(at) ELSE Names

Struct(n) == defs[n].kind = "struct"

Refused(n) == Refuses(AttributeOf(defs[n]), Fields(defs[n]))

Phases ==
  /\ phase \in {"move", "generate", "compile", "done"} /\ at \in Nat \ {0}
  /\ phase = "move" => at = 1 /\ function = None

Published ==
  /\ defs \in [Names -> (UNION {Shapes[n] : n \in Names}) \cup {None}]
  /\ \A n \in Names : defs[n] # None => defs[n] \in Shapes[n] /\ Valid(defs[n], defs)
  /\ phase # "move" => \A n \in Names : defs[n] # None

Attributed ==
  attribute = [n \in Names |-> IF n \in Written /\ Struct(n) THEN AttributeOf(defs[n]) ELSE None]

Implemented ==
  /\ refused = {n \in Expanded : Struct(n) /\ Refused(n)}
  /\ impls = (UNION {EnumImpls(n, defs[n]) : n \in {n \in Written : ~Struct(n)}})
               \cup (UNION {StructImpls(n, defs[n], AttributeOf(defs[n]))
                            : n \in {n \in Expanded : Struct(n) /\ ~Refused(n)}})

\* What the generator has written and the macro expanded is a function of the datatypes and
\* of how far they are.
IInv ==
  /\ Phases /\ Published /\ Attributed /\ Implemented
  /\ function # None => Rendered
  /\ phase = "done" => (compiled <=> \A n \in Names : Compiles(n))

\* How the datatypes before a position grow.
LEMMA BeforeFacts ==
  /\ Before(1) = {}
  /\ \A k \in Nat \ {0} : k > Len(Order) => Before(k) = Names
  /\ \A k \in Nat \ {0} : k <= Len(Order) =>
       Order[k] \in Names /\ Before(k + 1) = Before(k) \cup {Order[k]}
  /\ \A k : Before(k) \subseteq Names
<1>1. Order \in Seq(Names) /\ \A n \in Names : \E i \in DOMAIN Order : Order[i] = n
  BY MarkersAssumption
<1>2. DOMAIN Order = 1..Len(Order) /\ Len(Order) \in Nat /\ \A i \in DOMAIN Order : Order[i] \in Names
  BY <1>1
<1>3. Before(1) = {}
  BY <1>2 DEF Before
<1>4. ASSUME NEW k \in Nat \ {0}, k > Len(Order)
      PROVE  Before(k) = Names
  <2>1. {i \in DOMAIN Order : i < k} = DOMAIN Order
    BY <1>2, <1>4
  <2> QED  BY <1>1, <1>2, <2>1 DEF Before
<1>5. ASSUME NEW k \in Nat \ {0}, k <= Len(Order)
      PROVE  Order[k] \in Names /\ Before(k + 1) = Before(k) \cup {Order[k]}
  <2>1. {i \in DOMAIN Order : i < k + 1} = {i \in DOMAIN Order : i < k} \cup {k}
    BY <1>2, <1>5
  <2> QED  BY <1>2, <1>5, <2>1 DEF Before
<1>6. \A k : Before(k) \subseteq Names
  BY <1>2 DEF Before
<1> QED  BY <1>3, <1>4, <1>5, <1>6

\* The invariant holds at first and is kept by every action.
LEMMA InitInv == Init => IInv
<1> SUFFICES ASSUME Init
             PROVE  IInv
  OBVIOUS
<1> USE DEF Init, rust, builder
<1>1. Phases
  BY DEF Phases
<1>2. Published
  <2>1. \A n \in Names : defs[n] = None
    OBVIOUS
  <2> QED  BY <2>1 DEF Published
<1>3. Written = {} /\ Expanded = {}
  BY DEF Written, Expanded
<1>4. Attributed
  BY <1>3 DEF Attributed
<1>5. Implemented
  BY <1>3 DEF Implemented
<1> QED  BY <1>1, <1>2, <1>4, <1>5 DEF IInv

\* What depends on the datatypes stays with them.
LEMMA Steady ==
  ASSUME UNCHANGED defs
  PROVE  /\ \A f : BuilderBounds(f)' = BuilderBounds(f)
         /\ \A n : Struct(n)' = Struct(n) /\ Refused(n)' = Refused(n)
         /\ phase' # "move" /\ (\A n \in Names : defs[n] # None) /\ Published => Published'
<1>1. ASSUME NEW CONSTANT f
      PROVE  BuilderBounds(f)' = BuilderBounds(f)
  <2>1. ASSUME NEW CONSTANT ty, NEW CONSTANT asked
        PROVE  Collected(ty, asked)' = Collected(ty, asked)
    BY DEF Collected, DatatypeBounds, Own
  <2>2. Required(f)' = Required(f)
    BY <2>1 DEF Required
  <2> QED  BY <2>2 DEF BuilderBounds
<1>2. \A n : Struct(n)' = Struct(n) /\ Refused(n)' = Refused(n)
  BY DEF Struct, Refused
<1>3. phase' # "move" /\ (\A n \in Names : defs[n] # None) /\ Published => Published'
  BY DEF Published
<1> QED  BY <1>1, <1>2, <1>3

\* A step that writes and expands nothing, and leaves the rest alone.
LEMMA QuietStep ==
  ASSUME IInv, UNCHANGED <<defs, attribute, impls, refused, builder>>,
         phase' # "move", \A n \in Names : defs[n] # None, Written' = Written, Expanded' = Expanded
  PROVE  Published' /\ Attributed' /\ Implemented' /\ (function # None => Rendered)'
<1>1. Published'
  BY Steady DEF IInv
<1>2. Attributed'
  BY Steady DEF IInv, Attributed
<1>3. Implemented'
  BY Steady DEF IInv, Implemented
<1>4. (function # None => Rendered)'
  BY Steady DEF IInv, Rendered, builder
<1> QED  BY <1>1, <1>2, <1>3, <1>4

LEMMA PublishInv == IInv /\ (\E n \in Names : Publish(n)) => IInv'
<1> SUFFICES ASSUME IInv, NEW n \in Names, Publish(n)
             PROVE  IInv'
  OBVIOUS
<1>1. PICK def \in Shapes[n] : Valid(def, defs) /\ defs' = [defs EXCEPT ![n] = def]
  BY DEF Publish
<1>2. /\ phase = "move" /\ defs[n] = None /\ phase' = phase /\ at' = at /\ function' = function
      /\ attribute' = attribute /\ impls' = impls /\ refused' = refused
  BY DEF Publish, rust, builder
<1>3. /\ defs \in [Names -> (UNION {Shapes[m] : m \in Names}) \cup {None}]
      /\ \A m \in Names : defs[m] # None => defs[m] \in Shapes[m] /\ Valid(defs[m], defs)
  BY DEF IInv, Published
<1>4. \A m \in Names : defs'[m] = IF m = n THEN def ELSE defs[m]
  BY <1>1, <1>3
<1>5. \A m \in Names : defs[m] # None => defs'[m] = defs[m]
  BY <1>2, <1>4
<1>6. Phases'
  BY <1>2 DEF IInv, Phases
<1>7. Published'
  <2>1. defs' \in [Names -> (UNION {Shapes[m] : m \in Names}) \cup {None}]
    BY <1>1, <1>3
  <2>2. ASSUME NEW m \in Names, defs'[m] # None
        PROVE  defs'[m] \in Shapes[m] /\ Valid(defs'[m], defs')
    <3>1. defs'[m] \in Shapes[m] /\ Valid(defs'[m], defs)
      BY <1>1, <1>3, <1>4, <2>2
    <3>2. defs'[m] \in Definitions
      BY <3>1, ShapeFacts
    <3> HIDE <1>1
    <3> QED  BY <1>5, <3>1, <3>2, ValidGrows
  <2> QED  BY <1>2, <2>1, <2>2 DEF Published
<1>8. Written = {} /\ Expanded = {} /\ Written' = {} /\ Expanded' = {}
  BY <1>2 DEF Written, Expanded
<1>9. Attributed'
  BY <1>2, <1>8 DEF IInv, Attributed
<1>10. Implemented'
  BY <1>2, <1>8 DEF IInv, Implemented
<1>11. (function # None => Rendered)'
  BY <1>2 DEF IInv, Phases
<1> QED  BY <1>2, <1>6, <1>7, <1>9, <1>10, <1>11 DEF IInv

LEMMA BeginRenderInv == IInv /\ BeginRender => IInv'
<1> SUFFICES ASSUME IInv, BeginRender
             PROVE  IInv'
  OBVIOUS
<1>1. /\ phase = "move" /\ (\A n \in Names : defs[n] # None) /\ phase' = "generate" /\ at' = 1
      /\ UNCHANGED <<defs, attribute, impls, refused, builder>>
  BY DEF BeginRender, rust, IInv, Phases
<1>2. Phases'
  BY <1>1 DEF IInv, Phases, builder
<1>3. Written' = Written /\ Expanded' = Expanded
  BY <1>1, BeforeFacts DEF Written, Expanded
<1>4. Published' /\ Attributed' /\ Implemented' /\ (function # None => Rendered)'
  BY <1>1, <1>3, QuietStep
<1> QED  BY <1>1, <1>2, <1>4 DEF IInv

LEMMA RenderEndsInv == IInv /\ RenderEnds => IInv'
<1> SUFFICES ASSUME IInv, RenderEnds
             PROVE  IInv'
  OBVIOUS
<1>1. /\ phase = "generate" /\ at > Len(Order) /\ phase' = "compile" /\ at' = 1 /\ at \in Nat \ {0}
      /\ UNCHANGED <<defs, attribute, impls, refused, builder>>
      /\ \A n \in Names : defs[n] # None
  BY DEF RenderEnds, rust, IInv, Phases, Published
<1>2. Phases'
  BY <1>1 DEF IInv, Phases
<1>3. Written' = Written /\ Expanded' = Expanded
  BY <1>1, BeforeFacts DEF Written, Expanded
<1>4. Published' /\ Attributed' /\ Implemented' /\ (function # None => Rendered)'
  BY <1>1, <1>3, QuietStep
<1> QED  BY <1>1, <1>2, <1>4 DEF IInv

LEMMA CheckInv == IInv /\ Check => IInv'
<1> SUFFICES ASSUME IInv, Check
             PROVE  IInv'
  OBVIOUS
<1>1. /\ phase = "compile" /\ at > Len(Order) /\ phase' = "done" /\ at' = at /\ at \in Nat \ {0}
      /\ UNCHANGED <<defs, attribute, impls, refused, builder>>
      /\ \A n \in Names : defs[n] # None
  BY DEF Check, rust, IInv, Phases, Published
<1>2. Phases'
  BY <1>1 DEF IInv, Phases
<1>3. Written' = Written /\ Expanded' = Expanded
  BY <1>1, BeforeFacts DEF Written, Expanded
<1>4. Published' /\ Attributed' /\ Implemented' /\ (function # None => Rendered)'
  BY <1>1, <1>3, QuietStep
<1>5. \A n : Compiles(n)' = Compiles(n)
  BY <1>1 DEF Compiles, Used
<1>6. compiled' = \A n \in Names : Compiles(n)
  BY DEF Check
<1>7. (compiled <=> \A n \in Names : Compiles(n))'
  BY <1>5, <1>6
<1> QED  BY <1>2, <1>4, <1>7 DEF IInv

LEMMA RenderFunctionInv == IInv /\ RenderFunction => IInv'
<1> SUFFICES ASSUME IInv, RenderFunction
             PROVE  IInv'
  OBVIOUS
<1>1. /\ phase = "generate" /\ phase' = phase /\ at' = at
      /\ UNCHANGED <<defs, attribute, impls, refused>>
      /\ \A n \in Names : defs[n] # None
  BY DEF RenderFunction, rust, IInv, Published
<1>2. PICK f \in Functions : ValidFunction(f, defs) /\ function' = f /\ bounds' = BuilderBounds(f)
  BY DEF RenderFunction
<1>3. Phases'
  BY <1>1 DEF IInv, Phases
<1>4. Written' = Written /\ Expanded' = Expanded
  BY <1>1 DEF Written, Expanded
<1>5. Published'
  BY <1>1, Steady DEF IInv
<1>6. Attributed'
  BY <1>1, <1>4, Steady DEF IInv, Attributed
<1>7. Implemented'
  BY <1>1, <1>4, Steady DEF IInv, Implemented
<1>8. Rendered'
  <2>1. function' \in Functions /\ ValidFunction(function', defs')
    BY <1>1, <1>2
  <2>2. bounds' = BuilderBounds(function)'
    BY <1>1, <1>2, Steady
  <2> QED  BY <2>1, <2>2 DEF Rendered
<1> QED  BY <1>1, <1>3, <1>5, <1>6, <1>7, <1>8 DEF IInv

LEMMA RenderStructInv == IInv /\ RenderStruct => IInv'
<1> SUFFICES ASSUME IInv, RenderStruct
             PROVE  IInv'
  OBVIOUS
<1> DEFINE n == Order[at]
<1>1. /\ phase = "generate" /\ at <= Len(Order) /\ phase' = phase /\ at' = at + 1 /\ at \in Nat \ {0}
      /\ UNCHANGED <<defs, impls, refused, function, bounds>>
      /\ \A m \in Names : defs[m] # None
      /\ Struct(n)
  BY DEF RenderStruct, rust, builder, IInv, Phases, Published, Struct
<1>2. attribute' = [attribute EXCEPT ![n] = AttributeOf(defs[n])]
  BY DEF RenderStruct, AttributeOf
<1>3. n \in Names /\ Before(at + 1) = Before(at) \cup {n}
  BY <1>1, BeforeFacts
<1> HIDE DEF n
<1>4. Phases'
  BY <1>1 DEF IInv, Phases
<1>5. Written' = Written \cup {n} /\ Expanded' = Expanded
  BY <1>1, <1>3 DEF Written, Expanded
<1>6. Published'
  BY <1>1, Steady DEF IInv
<1>7. Attributed'
  <2>1. attribute = [m \in Names |-> IF m \in Written /\ Struct(m) THEN AttributeOf(defs[m]) ELSE None]
    BY DEF IInv, Attributed
  <2>2. attribute' = [m \in Names |-> IF m = n THEN AttributeOf(defs[n]) ELSE attribute[m]]
    BY <1>2, <1>3, <2>1
  <2>3. attribute' = [m \in Names |-> IF m \in Written \cup {n} /\ Struct(m) THEN AttributeOf(defs[m]) ELSE None]
    BY <1>1, <2>1, <2>2
  <2> QED  BY <1>1, <1>5, <2>3, Steady DEF Attributed
<1>8. Implemented'
  <2>1. {m \in Written \cup {n} : ~Struct(m)} = {m \in Written : ~Struct(m)}
    BY <1>1
  <2> QED  BY <1>1, <1>5, <2>1, Steady DEF IInv, Implemented
<1>9. (function # None => Rendered)'
  BY <1>1, Steady DEF IInv, Rendered
<1> QED  BY <1>1, <1>4, <1>6, <1>7, <1>8, <1>9 DEF IInv

LEMMA RenderEnumInv == IInv /\ RenderEnum => IInv'
<1> SUFFICES ASSUME IInv, RenderEnum
             PROVE  IInv'
  OBVIOUS
<1> DEFINE n == Order[at]
<1>1. /\ phase = "generate" /\ at <= Len(Order) /\ phase' = phase /\ at' = at + 1 /\ at \in Nat \ {0}
      /\ UNCHANGED <<defs, attribute, refused, function, bounds>>
      /\ \A m \in Names : defs[m] # None
      /\ ~Struct(n) /\ impls' = impls \cup EnumImpls(n, defs[n])
  BY DEF RenderEnum, rust, builder, IInv, Phases, Published, Struct
<1>2. n \in Names /\ Before(at + 1) = Before(at) \cup {n}
  BY <1>1, BeforeFacts
<1> HIDE DEF n
<1>3. Phases'
  BY <1>1 DEF IInv, Phases
<1>4. Written' = Written \cup {n} /\ Expanded' = Expanded
  BY <1>1, <1>2 DEF Written, Expanded
<1>5. Published'
  BY <1>1, Steady DEF IInv
<1>6. Attributed'
  <2>1. attribute = [m \in Names |-> IF m \in Written /\ Struct(m) THEN AttributeOf(defs[m]) ELSE None]
    BY DEF IInv, Attributed
  <2>2. attribute = [m \in Names |-> IF m \in Written \cup {n} /\ Struct(m) THEN AttributeOf(defs[m]) ELSE None]
    BY <1>1, <2>1
  <2> QED  BY <1>1, <1>4, <2>2, Steady DEF Attributed
<1>7. Implemented'
  <2> DEFINE enums(S) == UNION {EnumImpls(m, defs[m]) : m \in {m \in S : ~Struct(m)}}
             structs == UNION {StructImpls(m, defs[m], AttributeOf(defs[m]))
                               : m \in {m \in Expanded : Struct(m) /\ ~Refused(m)}}
  <2>1. refused = {m \in Expanded : Struct(m) /\ Refused(m)} /\ impls = enums(Written) \cup structs
    BY DEF IInv, Implemented
  <2>2. enums(Written \cup {n}) = enums(Written) \cup EnumImpls(n, defs[n])
    BY <1>1
  <2> HIDE DEF enums, structs
  <2>3. impls' = enums(Written \cup {n}) \cup structs
    BY <1>1, <2>1, <2>2
  <2>4. /\ refused' = {m \in Expanded : Struct(m) /\ Refused(m)}
        /\ impls' = (UNION {EnumImpls(m, defs[m]) : m \in {m \in Written \cup {n} : ~Struct(m)}})
                      \cup (UNION {StructImpls(m, defs[m], AttributeOf(defs[m]))
                                   : m \in {m \in Expanded : Struct(m) /\ ~Refused(m)}})
    BY <1>1, <2>1, <2>3 DEF enums, structs
  <2> QED  BY <1>1, <1>4, <2>4, Steady DEF Implemented
<1>8. (function # None => Rendered)'
  BY <1>1, Steady DEF IInv, Rendered
<1> QED  BY <1>1, <1>3, <1>5, <1>6, <1>7, <1>8 DEF IInv

\* An attribute is one, and so not None.
LEMMA AttributeTyped ==
  ASSUME NEW n \in Names, NEW def \in Shapes[n]
  PROVE  AttributeOf(def) \in Attributes
<1>1. /\ def.abilities \subseteq Abilities /\ Arity(def) \in Nat /\ DOMAIN def.params = 1..Arity(def)
      /\ \A i \in DOMAIN def.params : def.params[i].constraints \subseteq Abilities /\ i \in Nat
  BY ShapeFacts
<1>2. [i \in DOMAIN def.params |-> def.params[i].constraints] \in Seq(SUBSET Abilities)
  BY <1>1
<1> QED  BY <1>1, <1>2 DEF AttributeOf, Attributes

LEMMA ExpandInv == IInv /\ ExpandMoveStruct => IInv'
<1> SUFFICES ASSUME IInv, ExpandMoveStruct
             PROVE  IInv'
  OBVIOUS
<1> DEFINE n == Order[at]
           enums == UNION {EnumImpls(m, defs[m]) : m \in {m \in Written : ~Struct(m)}}
           structs(S) == UNION {StructImpls(m, defs[m], AttributeOf(defs[m]))
                                : m \in {m \in S : Struct(m) /\ ~Refused(m)}}
           errors(S) == {m \in S : Struct(m) /\ Refused(m)}
<1>1. /\ phase = "compile" /\ at <= Len(Order) /\ phase' = phase /\ at' = at + 1 /\ at \in Nat \ {0}
      /\ UNCHANGED <<defs, attribute, function, bounds>>
      /\ \A m \in Names : defs[m] # None
  BY DEF ExpandMoveStruct, builder, IInv, Phases, Published
<1>2. IF attribute[n] = None THEN UNCHANGED <<impls, refused>>
      ELSE IF Refuses(attribute[n], Fields(defs[n]))
        THEN refused' = refused \cup {n} /\ UNCHANGED impls
      ELSE impls' = impls \cup StructImpls(n, defs[n], attribute[n]) /\ UNCHANGED refused
  BY DEF ExpandMoveStruct
<1>3. n \in Names /\ Before(at + 1) = Before(at) \cup {n}
  BY <1>1, BeforeFacts
<1> HIDE DEF n
<1>4. Phases'
  BY <1>1 DEF IInv, Phases
<1>5. Written' = Written /\ Expanded' = Expanded \cup {n} /\ Written = Names
  BY <1>1, <1>3 DEF Written, Expanded
<1>6. Published'
  BY <1>1, Steady DEF IInv
<1>7. Attributed'
  BY <1>1, <1>5, Steady DEF IInv, Attributed
<1>8. attribute[n] = IF Struct(n) THEN AttributeOf(defs[n]) ELSE None
  BY <1>3, <1>5 DEF IInv, Attributed
<1>9. AttributeOf(defs[n]) # None
  <2>1. defs[n] \in Shapes[n]
    BY <1>1, <1>3 DEF IInv, Published
  <2>2. AttributeOf(defs[n]) \in Attributes
    BY <1>3, <2>1, AttributeTyped
  <2> QED  BY <2>2, MarkersAssumption
<1>10. refused = errors(Expanded) /\ impls = enums \cup structs(Expanded)
  BY DEF IInv, Implemented
<1>11. /\ errors(Expanded \cup {n}) = errors(Expanded) \cup IF Struct(n) /\ Refused(n) THEN {n} ELSE {}
       /\ structs(Expanded \cup {n}) =
            structs(Expanded) \cup IF Struct(n) /\ ~Refused(n)
                                     THEN StructImpls(n, defs[n], AttributeOf(defs[n])) ELSE {}
  <2>1. {m \in Expanded \cup {n} : Struct(m) /\ ~Refused(m)} =
          {m \in Expanded : Struct(m) /\ ~Refused(m)} \cup IF Struct(n) /\ ~Refused(n) THEN {n} ELSE {}
    OBVIOUS
  <2> QED  BY <2>1
<1> HIDE DEF errors, structs, enums
<1>12. refused' = errors(Expanded \cup {n}) /\ impls' = enums \cup structs(Expanded \cup {n})
  <2>1. CASE ~Struct(n)
    BY <1>2, <1>8, <1>10, <1>11, <2>1
  <2>2. CASE Struct(n) /\ Refused(n)
    BY <1>2, <1>8, <1>9, <1>10, <1>11, <2>2 DEF Refused
  <2>3. CASE Struct(n) /\ ~Refused(n)
    BY <1>2, <1>8, <1>9, <1>10, <1>11, <2>3 DEF Refused
  <2> QED  BY <2>1, <2>2, <2>3
<1>13. Implemented'
  <2>1. /\ refused' = {m \in Expanded \cup {n} : Struct(m) /\ Refused(m)}
        /\ impls' = (UNION {EnumImpls(m, defs[m]) : m \in {m \in Written : ~Struct(m)}})
                      \cup (UNION {StructImpls(m, defs[m], AttributeOf(defs[m]))
                                   : m \in {m \in Expanded \cup {n} : Struct(m) /\ ~Refused(m)}})
    BY <1>12 DEF enums, structs, errors
  <2> QED  BY <1>1, <1>5, <2>1, Steady DEF Implemented
<1>14. (function # None => Rendered)'
  BY <1>1, Steady DEF IInv, Rendered
<1> QED  BY <1>1, <1>4, <1>6, <1>7, <1>13, <1>14 DEF IInv

LEMMA NextInv == IInv /\ [Next]_vars => IInv'
<1> SUFFICES ASSUME IInv, [Next]_vars
             PROVE  IInv'
  OBVIOUS
<1>1. CASE UNCHANGED vars
  <2> USE <1>1 DEF vars, rust, builder
  <2>1. Phases'
    BY DEF IInv, Phases
  <2>2. Written' = Written /\ Expanded' = Expanded
    BY DEF Written, Expanded
  <2>3. Published'
    BY DEF IInv, Published
  <2>4. Attributed'
    BY <2>2, Steady DEF IInv, Attributed
  <2>5. Implemented'
    BY <2>2, Steady DEF IInv, Implemented
  <2>6. (function # None => Rendered)'
    BY Steady DEF IInv, Rendered
  <2>7. \A n : Compiles(n)' = Compiles(n)
    BY DEF Compiles, Used
  <2> QED  BY <2>1, <2>3, <2>4, <2>5, <2>6, <2>7 DEF IInv
<1> QED  BY <1>1, PublishInv, BeginRenderInv, RenderStructInv, RenderEnumInv, RenderFunctionInv,
            RenderEndsInv, ExpandInv, CheckInv DEF Next

\* The impls, attributes and errors that the generator and the macro have made are at all
\* times those of the datatypes they have come to, and none besides.
THEOREM Invariant == Spec => []IInv
BY InitInv, NextInv, PTL DEF Spec

\* Where nothing is refused, the crate has the impls of all the datatypes.
LEMMA DoneCrate ==
  ASSUME IInv, phase = "done", CopyWithDrop, refused = {}
  PROVE  Crate
<1>1. Written = Names /\ Expanded = Names
  BY DEF Written, Expanded
<1>2. \A n \in Names : defs[n] \in Shapes[n] /\ Valid(defs[n], defs)
  BY DEF IInv, Published
<1>3. \A n \in Names : Struct(n) => ~Refused(n)
  BY <1>1 DEF IInv, Implemented
<1>4. impls = (UNION {EnumImpls(n, defs[n]) : n \in {n \in Names : ~Struct(n)}})
                \cup (UNION {StructImpls(n, defs[n], AttributeOf(defs[n]))
                             : n \in {n \in Names : Struct(n) /\ ~Refused(n)}})
  BY <1>1 DEF IInv, Implemented
<1>5. \A n \in Names : /\ ~Struct(n) => ImplsOf(n, defs[n]) = EnumImpls(n, defs[n])
                       /\ Struct(n) => ImplsOf(n, defs[n]) = StructImpls(n, defs[n], AttributeOf(defs[n]))
  <2> SUFFICES ASSUME NEW n \in Names
               PROVE  /\ ~Struct(n) => ImplsOf(n, defs[n]) = EnumImpls(n, defs[n])
                      /\ Struct(n) => ImplsOf(n, defs[n]) = StructImpls(n, defs[n], AttributeOf(defs[n]))
    OBVIOUS
  <2>1. defs[n].kind \in {"struct", "enum"}
    BY <1>2, ShapeFacts
  <2> QED  BY <2>1 DEF ImplsOf, Struct
<1>6. impls = UNION {ImplsOf(n, defs[n]) : n \in Names}
  <2>1. \A impl : impl \in impls <=> \E n \in Names : impl \in ImplsOf(n, defs[n])
    BY <1>3, <1>4, <1>5
  <2> QED  BY <2>1
<1> QED  BY <1>2, <1>6 DEF Crate

\* A crate that compiled is whole.
LEMMA CompiledCrate ==
  ASSUME IInv, phase = "done", CopyWithDrop, compiled
  PROVE  Crate
<1>1. refused \subseteq Names
  BY DEF IInv, Implemented, Expanded
<1>2. \A n \in Names : n \notin refused
  BY DEF IInv, Compiles
<1> QED  BY <1>1, <1>2, DoneCrate

\* A type that has an ability in Move has its marker in the generated Rust, at any nesting of
\* datatypes: the where clauses of the macro and of render_enum ask for no more.
THEOREM AbilitiesAreCovered == Spec => []MarkersCoverAbilities
<1>1. IInv => MarkersCoverAbilities
  BY CompiledCrate, CrateCoversAbilities DEF MarkersCoverAbilities, Impls
<1> QED  BY <1>1, Invariant, PTL

\* A type made of structs has a marker only if Move gives it the ability: the where clauses
\* of the macro ask for no less.
THEOREM OnlyAbilitiesAreMarked == Spec => []MarkersAreEarned
<1>1. IInv => MarkersAreEarned
  <2> SUFFICES ASSUME IInv, Impls, compiled, CopyWithDrop, AllCount, NEW ty \in Types, OnlyStructs(ty),
                      NEW a \in Abilities, Has(ty, a)
               PROVE  a \in AbilitiesOf(ty, defs, <<>>)
    BY DEF MarkersAreEarned
  <2>1. Crate
    BY CompiledCrate DEF Impls
  <2>2. ty \in Universe /\ WellFormed(ty, defs, <<>>)
    BY MarkersAssumption DEF Types
  <2> QED  BY <2>1, <2>2, CrateMarkersEarned
<1> QED  BY <1>1, Invariant, PTL

\* The bounds that render_function gives a builder are enough for its body, whatever function
\* the verifier accepts.
THEOREM BuilderBodiesCompile == Spec => []BuildersCompile
<1>1. IInv => BuildersCompile
  BY CompiledCrate, BuilderBodyCompiles DEF BuildersCompile, Builder, IInv
<1> QED  BY <1>1, Invariant, PTL

\* A builder takes every call that Move takes, of arguments that are as able as their
\* datatypes declare.
THEOREM LegalCallsAccepted == Spec => []LegalCallsAreAccepted
<1>1. IInv => LegalCallsAreAccepted
  <2> SUFFICES ASSUME IInv, Builder, compiled, CopyWithDrop, NEW args \in Calls,
                      LegalCall(function, args, defs),
                      \A k \in DOMAIN function.parameters : FullyAble(Subst(function.parameters[k], args))
               PROVE  Accepts(args)
    BY DEF LegalCallsAreAccepted
  <2>1. Crate /\ Rendered
    BY CompiledCrate DEF Builder, IInv
  <2> QED  BY <2>1, CrateLegalAccepted
<1> QED  BY <1>1, Invariant, PTL

\* A call that rustc accepts is one that Move accepts, of arguments made of structs.
THEOREM AcceptedCallsLegal == Spec => []AcceptedCallsAreLegal
<1>1. IInv => AcceptedCallsAreLegal
  <2> SUFFICES ASSUME IInv, Builder, compiled, CopyWithDrop, AllCount, NEW args \in Calls,
                      \A i \in DOMAIN args : OnlyStructs(args[i]), Accepts(args)
               PROVE  LegalCall(function, args, defs)
    BY DEF AcceptedCallsAreLegal
  <2>1. Crate /\ Rendered
    BY CompiledCrate DEF Builder, IInv
  <2> QED  BY <2>1, CrateAcceptedLegal
<1> QED  BY <1>1, Invariant, PTL

\* The macro refuses key and copy on a parameter only: Move has no such struct, and a struct
\* with key has its UID.
LEMMA RefusedParameters ==
  ASSUME Published, NEW n \in Names, defs[n] # None
  PROVE  Refused(n) <=> \E i \in 1..Arity(defs[n]) : Contradiction(defs[n].params[i].constraints)
<1> DEFINE def == defs[n]
<1>1. def \in Shapes[n] /\ def \in Definitions /\ Valid(def, defs)
  BY ShapeFacts DEF Published
<1>2. DOMAIN def.params = 1..Arity(def) /\ def.abilities \subseteq Abilities
  BY <1>1, ShapeFacts
<1> HIDE DEF def
<1>3. "key" \in def.abilities => UID \in Fields(def)
  BY DEF Fields
<1>4. ~Contradiction(def.abilities)
  <2> SUFFICES ASSUME "key" \in def.abilities, "copy" \in def.abilities
               PROVE  FALSE
    BY DEF Contradiction
  <2> DEFINE all == [i \in DOMAIN def.params |-> Abilities]
  <2>1. \A a \in def.abilities : Needed(a) \in AbilitiesOf(UID, defs, all)
    BY <1>1, <1>3, FieldFacts
  <2> HIDE DEF all
  <2>2. Needed("copy") \in AbilitiesOf(UID, defs, all)
    BY <2>1
  <2>3. AbilitiesOf(UID, defs, all) = {"store"}
    BY UIDFacts
  <2> QED  BY <2>2, <2>3 DEF Needed
<1>5. /\ AttributeOf(def).abilities = def.abilities
      /\ AttributeOf(def).type_abilities = [i \in DOMAIN def.params |-> def.params[i].constraints]
  BY DEF AttributeOf
<1>6. Refuses(AttributeOf(def), Fields(def)) <=>
        \E i \in 1..Arity(def) : Contradiction(def.params[i].constraints)
  BY <1>2, <1>3, <1>4, <1>5 DEF Refuses
<1> QED  BY <1>6 DEF Refused, def

\* A parameter is used where a field mentions it or, of a struct, where it is phantom.
LEMMA UsedParameters ==
  ASSUME IInv, phase = "done", NEW n \in Names, NEW i \in 1..Arity(defs[n])
  PROVE  ~Used(n, i) <=> /\ \A ty \in Fields(defs[n]) : ~Mentions(ty, i)
                         /\ defs[n].kind = "struct" => ~defs[n].params[i].phantom
<1>1. attribute[n] = IF Struct(n) THEN AttributeOf(defs[n]) ELSE None
  BY DEF IInv, Attributed, Written
<1>2. defs[n] \in Shapes[n]
  BY DEF IInv, Published
<1>3. AttributeOf(defs[n]) # None
  BY <1>2, AttributeTyped, MarkersAssumption
<1>4. DOMAIN defs[n].params = 1..Arity(defs[n])
  BY <1>2, ShapeFacts
<1>5. AttributeOf(defs[n]).phantoms = {k \in 1..Arity(defs[n]) : defs[n].params[k].phantom}
  BY <1>4 DEF AttributeOf
<1>6. (attribute[n] # None /\ i \in attribute[n].phantoms) <=>
        defs[n].kind = "struct" /\ defs[n].params[i].phantom
  BY <1>1, <1>3, <1>5 DEF Struct
<1> QED  BY <1>6 DEF Used

\* rustc's verdict, in terms of the four obstacles.
LEMMA Verdict ==
  ASSUME IInv, Impls, CopyWithDrop
  PROVE  compiled <=> ~ \E n \in Names : Obstacle(n)
<1> DEFINE Unused(n) == \E i \in 1..Arity(defs[n]) :
                          /\ \A ty \in Fields(defs[n]) : ~Mentions(ty, i)
                          /\ defs[n].kind = "struct" => ~defs[n].params[i].phantom
           Contradicted(n) == \E i \in 1..Arity(defs[n]) : Contradiction(defs[n].params[i].constraints)
           Closing(n) == \A field \in Fields(defs[n]) : Closed(field, Arity(defs[n])) => Clonable(field)
           Copied(n) == \A i \in 1..Arity(defs[n]) : "copy" \in defs[n].params[i].constraints
           Applied(n) == \A field \in Fields(defs[n]) : ~StructOf(field, Arity(defs[n]))
           All(n) == \A impl \in ImplsOf(n, defs[n]) : ImplCompiles(impl, Arity(defs[n]), impls)
           Copying(n) == defs[n].kind = "enum" /\ "copy" \in defs[n].abilities
<1>1. phase = "done" /\ (compiled <=> \A n \in Names : Compiles(n))
      /\ Published /\ \A n \in Names : defs[n] # None
  BY DEF Impls, IInv, Published
<1>2. \A n \in Names : Obstacle(n) <=> \/ Unused(n)
                                       \/ Struct(n) /\ Contradicted(n)
                                       \/ Struct(n) /\ ~Closing(n)
                                       \/ Copying(n) /\ ~(Copied(n) /\ Applied(n))
  BY DEF Obstacle, Struct
<1>3. \A n \in Names : n \in refused <=> Struct(n) /\ Contradicted(n)
  <2>1. \A n \in Names : n \in refused <=> Struct(n) /\ Refused(n)
    BY <1>1 DEF IInv, Implemented, Expanded
  <2> QED  BY <1>1, <2>1, RefusedParameters
<1>4. \A n \in Names : (\A i \in 1..Arity(defs[n]) : Used(n, i)) <=> ~Unused(n)
  BY <1>1, UsedParameters
<1>5. Crate => \A n \in Names : Compiles(n) <=> n \notin refused /\ ~Unused(n) /\ All(n)
  <2> SUFFICES ASSUME Crate, NEW n \in Names
               PROVE  Compiles(n) <=> n \notin refused /\ ~Unused(n) /\ All(n)
    OBVIOUS
  <2>1. \A impl : impl \in impls /\ impl.name = n <=> impl \in ImplsOf(n, defs[n])
    BY ImplNames
  <2>2. (\A impl \in impls : impl.name = n => ImplCompiles(impl, Arity(defs[n]), impls)) <=> All(n)
    BY <2>1
  <2> HIDE DEF Unused, All
  <2> QED  BY <1>4, <2>2 DEF Compiles
<1>6. Crate => ((\A n \in Names : All(n)) <=>
                \A n \in Names : /\ Struct(n) => Closing(n)
                                 /\ Copying(n) => Copied(n) /\ Applied(n))
  <2> SUFFICES ASSUME Crate
               PROVE  (\A n \in Names : All(n)) <=>
                        \A n \in Names : /\ Struct(n) => Closing(n)
                                         /\ Copying(n) => Copied(n) /\ Applied(n)
    OBVIOUS
  <2> QED  BY ImplsCompile DEF Struct
<1>7. compiled => Crate
  BY <1>1, CompiledCrate
<1>8. ASSUME ~ \E n \in Names : Obstacle(n)
      PROVE  Crate
  <2>1. refused = {}
    <3>1. refused \subseteq Names
      BY <1>1 DEF IInv, Implemented, Expanded
    <3> HIDE DEF Unused, Contradicted, Closing, Copied, Applied, Copying
    <3> QED  BY <1>2, <1>3, <1>8, <3>1
  <2> QED  BY <1>1, <2>1, DoneCrate
<1> HIDE DEF Unused, Contradicted, Closing, Copied, Applied, Copying, All
<1>9. Crate => ((\A n \in Names : Compiles(n)) <=> ~ \E n \in Names : Obstacle(n))
  BY <1>2, <1>3, <1>5, <1>6
<1> QED  BY <1>1, <1>7, <1>8, <1>9

\* The crate compiles where there is no obstacle, and only there: where clauses of the impls
\* are met by the impls of the others, however datatypes nest.
THEOREM ObstaclesDecide == Spec => []CompilesUnlessObstructed
<1>1. IInv => CompilesUnlessObstructed
  BY Verdict DEF CompilesUnlessObstructed
<1> QED  BY <1>1, Invariant, PTL

-----------------------------------------------------------------------------
(* Types of the state *)

\* Bounds and impls, one kind after the other.
LEMMA ParamBoundsTyped ==
  ASSUME NEW n \in Names, NEW def \in Shapes[n], NEW c, DOMAIN c = DOMAIN def.params,
         \A i \in DOMAIN c : c[i] \subseteq Abilities
  PROVE  ParamBounds(c) \subseteq Goals
<1> SUFFICES ASSUME NEW b \in ParamBounds(c)
             PROVE  b \in Goals
  OBVIOUS
<1>1. PICK i \in DOMAIN c : \/ b = Bound(Parameter(i), "MoveType")
                            \/ \E a \in c[i] : b = Bound(Parameter(i), Marker[a])
  BY ParamBoundsFacts
<1>2. Parameter(i) \in Universe
  BY ShapeFacts
<1> QED  BY <1>1, <1>2, FlagNames DEF Bound, Goals

LEMMA FieldBoundsTyped ==
  ASSUME NEW fields \in SUBSET Universe, NEW trait \in Traits
  PROVE  FieldBounds(fields, trait) \subseteq Goals
BY DEF FieldBounds, Bound, Goals

LEMMA FlagsTyped ==
  ASSUME NEW abilities \in SUBSET Abilities
  PROVE  Flags(abilities) \subseteq Abilities
BY DEF Flags, Abilities

LEMMA MarkerImplTyped ==
  ASSUME NEW n \in Names, NEW def \in Shapes[n], NEW where \in SUBSET Goals, NEW a \in Abilities
  PROVE  MarkerImpl(a, n, def, where) \in Implementations
<1>1. Self(n, def) \in Universe
  BY MarkersAssumption
<1>2. Supertrait(Marker[a]) \subseteq Traits
  BY FlagNames DEF Supertrait
<1>3. {Bound(Self(n, def), trait) : trait \in Supertrait(Marker[a])} \subseteq Goals
  BY <1>1, <1>2 DEF Bound, Goals
<1>4. Marker[a] \in Traits
  BY FlagNames
<1> QED  BY <1>3, <1>4 DEF MarkerImpl, Impl, Implementations

LEMMA TypeImplsTyped ==
  ASSUME NEW n \in Names, NEW def \in Shapes[n], NEW where \in SUBSET Goals
  PROVE  TypeImpls(n, def, where) \subseteq Implementations
<1>1. Self(n, def) \in Universe
  BY MarkersAssumption
<1>2. Bound(Self(n, def), "MoveType") \in Goals
  BY <1>1, FlagNames DEF Bound, Goals
<1> QED  BY <1>2, FlagNames DEF TypeImpls, Impl, Implementations

LEMMA StructImplsTyped ==
  ASSUME NEW n \in Names, NEW def \in Shapes[n]
  PROVE  StructImpls(n, def, AttributeOf(def)) \subseteq Implementations
<1> DEFINE c == [i \in DOMAIN def.params |-> Flags(def.params[i].constraints)]
           params == ParamBounds(c)
           fields == Fields(def)
           clone == Impl("Clone", n, CloneWhere(params, fields), FieldBounds(fields, "Clone"))
           marker(a) == MarkerImpl(a, n, def, MarkerWhere(params, a, fields))
<1>1. /\ def.abilities \subseteq Abilities /\ fields \subseteq Universe
      /\ \A i \in DOMAIN def.params : def.params[i].constraints \subseteq Abilities
  BY ShapeFacts
<1>2. \A i \in DOMAIN c : c[i] \subseteq Abilities
  BY <1>1, FlagsTyped
<1>3. params \subseteq Goals
  BY <1>2, ParamBoundsTyped
<1>4. /\ AttributeOf(def).abilities = def.abilities
      /\ [i \in DOMAIN AttributeOf(def).type_abilities |-> Flags(AttributeOf(def).type_abilities[i])] = c
  BY DEF AttributeOf
<1> HIDE DEF c, fields
<1>5. StructImpls(n, def, AttributeOf(def)) =
        {clone} \cup TypeImpls(n, def, params) \cup {marker(a) : a \in Flags(def.abilities)}
  BY <1>4 DEF StructImpls, fields
<1> HIDE DEF params
<1>6. FieldBounds(fields, "Clone") \subseteq Goals
  BY <1>1, FlagNames, FieldBoundsTyped
<1>7. clone \in Implementations
  BY <1>3, <1>6, FlagNames DEF CloneWhere, Impl, Implementations
<1>8. ASSUME NEW a \in Flags(def.abilities)
      PROVE  marker(a) \in Implementations
  <2>1. a \in Abilities /\ Marker[a] \in Traits
    BY <1>1, FlagsTyped, FlagNames
  <2>2. FieldBounds(fields, Marker[a]) \subseteq Goals
    BY <1>1, <2>1, FieldBoundsTyped
  <2>3. MarkerWhere(params, a, fields) \in SUBSET Goals
    BY <1>3, <2>2 DEF MarkerWhere
  <2> QED  BY <2>1, <2>3, MarkerImplTyped
<1>9. TypeImpls(n, def, params) \subseteq Implementations
  BY <1>3, TypeImplsTyped
<1> HIDE DEF clone, marker
<1> QED  BY <1>5, <1>7, <1>8, <1>9

LEMMA EnumImplsTyped ==
  ASSUME NEW n \in Names, NEW def \in Shapes[n]
  PROVE  EnumImpls(n, def) \subseteq Implementations
<1> DEFINE c == [i \in DOMAIN def.params |-> def.params[i].constraints]
           where == ParamBounds(c)
           clones == {Bound(Parameter(i), "Clone") : i \in 1..Arity(def)}
           marker(a) == MarkerImpl(a, n, def, where)
<1>1. /\ def \in Definitions /\ def.abilities \subseteq Abilities
      /\ DOMAIN def.params = 1..Arity(def)
      /\ \A i \in DOMAIN def.params : /\ def.params[i].constraints \subseteq Abilities
                                      /\ Parameter(i) \in Universe
  BY ShapeFacts
<1>2. where \subseteq Goals
  BY <1>1, ParamBoundsTyped
<1>3. clones \subseteq Goals
  BY <1>1, FlagNames DEF Bound, Goals
<1>4. FieldBounds(def.fields, "Clone") \subseteq Goals
  <2>1. def.fields \subseteq Universe
    BY <1>1 DEF Definitions
  <2> QED  BY <2>1, FlagNames, FieldBoundsTyped
<1>5. EnumClone(n, def) \in Implementations
  BY <1>3, <1>4, FlagNames DEF EnumClone, Impl, Implementations
<1>6. EnumImpls(n, def) = TypeImpls(n, def, where) \cup {marker(a) : a \in def.abilities}
                            \cup IF "copy" \in def.abilities THEN {EnumClone(n, def)} ELSE {}
  BY DEF EnumImpls
<1> HIDE DEF where
<1>7. \A a \in def.abilities : marker(a) \in Implementations
  BY <1>1, <1>2, MarkerImplTyped
<1>8. TypeImpls(n, def, where) \subseteq Implementations
  BY <1>2, TypeImplsTyped
<1> HIDE DEF marker
<1> QED  BY <1>5, <1>6, <1>7, <1>8

\* What IInv leaves open: a builder without a function, and the verdict before there is one.
Beginnings == (function = None => bounds = {}) /\ compiled \in BOOLEAN

\* Only RenderFunction gives bounds, and only Check a verdict.
LEMMA BeginningsKept == Beginnings /\ [Next]_vars => Beginnings'
<1> SUFFICES ASSUME Beginnings, [Next]_vars
             PROVE  Beginnings'
  OBVIOUS
<1> USE DEF Beginnings, rust, builder
<1>1. ASSUME NEW n \in Names, Publish(n)
      PROVE  Beginnings'
  BY <1>1 DEF Publish
<1>2. CASE BeginRender \/ RenderEnds
  BY <1>2 DEF BeginRender, RenderEnds
<1>3. CASE RenderStruct
  BY <1>3 DEF RenderStruct
<1>4. CASE RenderEnum
  BY <1>4 DEF RenderEnum
<1>5. CASE RenderFunction
  <2>1. function' # None /\ compiled' = compiled
    BY <1>5, MarkersAssumption DEF RenderFunction
  <2> QED  BY <2>1
<1>6. CASE ExpandMoveStruct
  BY <1>6 DEF ExpandMoveStruct
<1>7. CASE Check
  <2>1. compiled' \in BOOLEAN
    BY <1>7 DEF Check
  <2>2. UNCHANGED <<function, bounds>>
    BY <1>7 DEF Check
  <2> QED  BY <2>1, <2>2
<1>8. CASE UNCHANGED vars
  BY <1>8 DEF vars
<1> QED  BY <1>1, <1>2, <1>3, <1>4, <1>5, <1>6, <1>7, <1>8 DEF Next

\* The state has its type: bounds are on types there are, of traits there are.
THEOREM TypeCorrect == Spec => []TypeOK
<1>1. Init => Beginnings
  BY DEF Init, Beginnings
<1>2. IInv /\ Beginnings => TypeOK
  <2> SUFFICES ASSUME IInv, Beginnings
               PROVE  TypeOK
    OBVIOUS
  <2>1. defs \in [Names -> Definitions \cup {None}]
    <3>1. \A n \in Names : Shapes[n] \subseteq Definitions
      BY MarkersAssumption
    <3> QED  BY <3>1 DEF IInv, Published
  <2>2. Written \subseteq Names /\ Expanded \subseteq Names
    BY BeforeFacts DEF Written, Expanded
  <2>3. ASSUME NEW n \in Written
        PROVE  defs[n] \in Shapes[n]
    <3>1. phase # "move"
      BY DEF Written
    <3> QED  BY <2>2, <3>1 DEF IInv, Published
  <2>4. attribute \in [Names -> Attributes \cup {None}]
    <3>1. \A n \in Names : n \in Written => AttributeOf(defs[n]) \in Attributes
      BY <2>3, AttributeTyped
    <3> QED  BY <3>1 DEF IInv, Attributed
  <2>5. refused \subseteq Names
    BY <2>2 DEF IInv, Implemented
  <2>6. impls \subseteq Implementations
    <3>1. \A n \in Written : EnumImpls(n, defs[n]) \subseteq Implementations
      BY <2>2, <2>3, EnumImplsTyped
    <3>2. Expanded \subseteq Written
      BY BeforeFacts DEF Written, Expanded, IInv, Phases
    <3>3. \A n \in Expanded : StructImpls(n, defs[n], AttributeOf(defs[n])) \subseteq Implementations
      BY <2>2, <2>3, <3>2, StructImplsTyped
    <3> QED  BY <3>1, <3>3 DEF IInv, Implemented
  <2>7. function \in Functions \cup {None} /\ bounds \subseteq Goals
    <3>1. CASE function = None
      BY <3>1 DEF Beginnings
    <3>2. CASE function # None
      <4>1. Rendered
        BY <3>2 DEF IInv
      <4>2. \A i \in DOMAIN function.constraints : Parameter(i) \in Universe
        BY <4>1, FunctionFacts
      <4>3. ASSUME NEW b \in bounds
            PROVE  b \in Goals
        <5>1. PICK i \in DOMAIN function.constraints :
                \/ b = Bound(Parameter(i), IF <<i, "key">> \in Required(function) THEN "MoveStruct" ELSE "MoveType")
                \/ \E a \in Abilities : b = Bound(Parameter(i), Marker[a])
          BY <4>1, BuilderBoundsFacts
        <5>2. PICK trait \in Traits : b = Bound(Parameter(i), trait)
          BY <5>1, FlagNames
        <5> QED  BY <4>2, <5>2 DEF Bound, Goals
      <4> QED  BY <4>1, <4>3 DEF Rendered
    <3> QED  BY <3>1, <3>2
  <2> QED  BY <2>1, <2>4, <2>5, <2>6, <2>7 DEF TypeOK, IInv, Phases, Beginnings
<1> QED  BY <1>1, <1>2, Invariant, BeginningsKept, PTL DEF Spec

=============================================================================
