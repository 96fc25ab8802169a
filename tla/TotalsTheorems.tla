--------------------------- MODULE TotalsTheorems ---------------------------
(***************************************************************************)
(* The laws of Total that the proofs about the ledger rest on.  There is   *)
(* no induction here: changing one value of f exchanges that point's       *)
(* tokens and leaves the others alone.                                     *)
(***************************************************************************)
EXTENDS Totals, FiniteSetTheorems, TLAPS

TokensOf(f, x) == {x} \X (1 .. f[x])

\* One point has as many tokens as its value.
LEMMA TokensOfOne ==
    ASSUME NEW f, NEW x, f[x] \in Nat
    PROVE  IsFiniteSet(TokensOf(f, x)) /\ Cardinality(TokensOf(f, x)) = f[x]
<1>1. IsFiniteSet({x}) /\ Cardinality({x}) = 1
    BY FS_Singleton
<1>2. IsFiniteSet(1 .. f[x]) /\ Cardinality(1 .. f[x]) = f[x]
    BY FS_Interval
<1>3. Cardinality({x}) * Cardinality(1 .. f[x]) = f[x]
    BY <1>1, <1>2
<1>q. QED
    BY <1>1, <1>2, <1>3, FS_Product DEF TokensOf

\* A function on a finite domain has finitely many tokens.
LEMMA TokensFinite ==
    ASSUME NEW S, IsFiniteSet(S), NEW f \in [S -> Nat]
    PROVE  IsFiniteSet(Tokens(f))
<1> DEFINE image == {TokensOf(f, x) : x \in S}
           onto == [x \in S |-> TokensOf(f, x)]
<1>1. onto \in Surjection(S, image)
    BY DEF Surjection
<1>2. IsFiniteSet(image)
    <2> HIDE DEF image, onto
    <2> QED BY <1>1, FS_Surjection
<1>3. \A T \in image : IsFiniteSet(T)
    BY TokensOfOne
<1>4. Tokens(f) = UNION image
    BY DEF Tokens, TokensOf
<1>q. QED
    BY <1>2, <1>3, <1>4, FS_UNION

\* The sum is a natural number.
LEMMA TotalType ==
    ASSUME NEW S, IsFiniteSet(S), NEW f \in [S -> Nat]
    PROVE  Total(f) \in Nat
BY TokensFinite, FS_CardinalityType DEF Total

\* The tokens of all the other points, and the sum without x.
OtherTokens(f, x) == Tokens(f) \ TokensOf(f, x)

LEMMA TotalSplit ==
    ASSUME NEW S, IsFiniteSet(S), NEW f \in [S -> Nat], NEW x \in S
    PROVE  /\ Cardinality(OtherTokens(f, x)) \in Nat
           /\ Total(f) = Cardinality(OtherTokens(f, x)) + f[x]
<1>1. IsFiniteSet(Tokens(f)) /\ Cardinality(Tokens(f)) \in Nat
    BY TokensFinite, FS_CardinalityType
<1>2. Tokens(f) \cap TokensOf(f, x) = TokensOf(f, x)
    BY DEF Tokens, TokensOf
<1>3. Cardinality(TokensOf(f, x)) = f[x] /\ f[x] \in Nat
    BY TokensOfOne
<1>4. IsFiniteSet(OtherTokens(f, x))
      /\ Cardinality(OtherTokens(f, x)) = Cardinality(Tokens(f)) - f[x]
    <2>1. /\ IsFiniteSet(Tokens(f) \ TokensOf(f, x))
          /\ Cardinality(Tokens(f) \ TokensOf(f, x))
                = Cardinality(Tokens(f)) - Cardinality(Tokens(f) \cap TokensOf(f, x))
        BY <1>1, FS_Difference
    <2>q. QED
        BY <2>1, <1>2, <1>3 DEF OtherTokens
<1>5. Cardinality(OtherTokens(f, x)) \in Nat
    BY <1>4, FS_CardinalityType
<1>q. QED
    BY <1>1, <1>3, <1>4, <1>5 DEF Total

\* Changing the value at x changes the sum by the difference.
LEMMA TotalUpdate ==
    ASSUME NEW S, IsFiniteSet(S), NEW f \in [S -> Nat], NEW x \in S, NEW n \in Nat
    PROVE  Total([f EXCEPT ![x] = n]) = Total(f) - f[x] + n
<1> DEFINE g == [f EXCEPT ![x] = n]
<1>1. g \in [S -> Nat] /\ g[x] = n
    OBVIOUS
<1>2. OtherTokens(g, x) = OtherTokens(f, x)
    <2>1. \A y \in S : y # x => g[y] = f[y]
        OBVIOUS
    <2>2. OtherTokens(f, x) = UNION {TokensOf(f, y) : y \in S \ {x}}
        BY DEF OtherTokens, Tokens, TokensOf
    <2>3. OtherTokens(g, x) = UNION {TokensOf(g, y) : y \in S \ {x}}
        <3> HIDE DEF g
        <3> QED BY <1>1 DEF OtherTokens, Tokens, TokensOf
    <2>4. \A y \in S \ {x} : TokensOf(g, y) = TokensOf(f, y)
        BY <2>1 DEF TokensOf
    <2>q. QED
        <3> HIDE DEF g
        <3> QED BY <2>2, <2>3, <2>4
<1> HIDE DEF g
<1>3. /\ Total(f) = Cardinality(OtherTokens(f, x)) + f[x]
      /\ Total(g) = Cardinality(OtherTokens(f, x)) + n
      /\ Cardinality(OtherTokens(f, x)) \in Nat
    BY <1>1, <1>2, TotalSplit
<1>4. Total(g) = Total(f) - f[x] + n
    BY <1>3
<1>q. QED
    BY <1>4 DEF g

\* No value exceeds the sum.
LEMMA TotalBound ==
    ASSUME NEW S, IsFiniteSet(S), NEW f \in [S -> Nat], NEW x \in S
    PROVE  f[x] <= Total(f)
BY TotalSplit

\* The sum of zeroes.
LEMMA TotalZero ==
    ASSUME NEW S
    PROVE  Total([x \in S |-> 0]) = 0
<1> DEFINE f == [x \in S |-> 0]
<1>1. Tokens(f) = {}
    <2>1. 1 .. 0 = {}
        OBVIOUS
    <2>q. QED
        BY <2>1 DEF Tokens
<1>q. QED
    BY <1>1, FS_EmptySet DEF Total
=============================================================================
