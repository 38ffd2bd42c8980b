---------------------------- MODULE CachesProofs ----------------------------
(***************************************************************************)
(* Theorems about the caches, for any requests, profiles, categories, apps *)
(* and tokens, whatever portfolios, past operations and lists of tokens.   *)
(***************************************************************************)
EXTENDS Caches, FiniteSetTheorems, TLAPS

-----------------------------------------------------------------------------
(* Induction, by least counterexamples.                                    *)

LEMMA LeastSet ==
  ASSUME NEW S, IsFiniteSet(S), NEW C, C \subseteq SUBSET S, C # {}
  PROVE  \E U \in C : \A V \in C : V \subseteq U => V = U
  <1>1. C \subseteq FiniteSubsetsOf(S)
    BY FS_FiniteSubsetsOfFinite
  <1>2. IsWellFoundedOn(StrictSubsetOrdering(S), FiniteSubsetsOf(S))
    BY FS_StrictSubsetOrderingWellFounded
  <1>3. PICK U \in C : \A V \in C : ~(<<V, U>> \in StrictSubsetOrdering(S))
    BY <1>1, <1>2, WFMin
  <1> QED BY <1>3 DEF StrictSubsetOrdering

LEMMA LeastNumber ==
  ASSUME NEW T \in SUBSET Nat, T # {}
  PROVE  \E n \in T : \A m \in T : n <= m
  <1> DEFINE Below == {0..m : m \in T}
  <1>1. Below \subseteq FiniteSubsetsOf(Nat)
    <2> SUFFICES ASSUME NEW m \in T PROVE IsFiniteSet(0..m)
      BY DEF FiniteSubsetsOf
    <2> QED BY FS_Interval
  <1>a. Below # {}
    OBVIOUS
  <1>2. \E x \in Below : \A y \in Below : ~(<<y, x>> \in StrictSubsetOrdering(Nat))
    BY <1>1, <1>a, FS_StrictSubsetOrderingWellFounded, WFMin
  <1>3. PICK n \in T : \A m \in T : ~(<<0..m, 0..n>> \in StrictSubsetOrdering(Nat))
    BY <1>2
  <1>4. SUFFICES ASSUME NEW m \in T, m < n PROVE FALSE
    OBVIOUS
  <1>5. 0..m \subseteq 0..n /\ 0..m # 0..n /\ 0..m \in SUBSET Nat /\ 0..n \in SUBSET Nat
    BY <1>4
  <1> QED BY <1>3, <1>5 DEF StrictSubsetOrdering

-----------------------------------------------------------------------------
(* The sum of a portfolio.                                                 *)

\* f sums the portfolio over the subsets of S.
SumsTo(f, S, portfolio) ==
  f = [U \in SUBSET S |->
         IF U = {} THEN 0
         ELSE LET t == CHOOSE t \in U : TRUE IN portfolio[t] + f[U \ {t}]]

LEMMA SumUnfolds ==
  ASSUME NEW S, NEW f, NEW portfolio, SumsTo(f, S, portfolio), NEW U \in SUBSET S
  PROVE  /\ U = {} => f[U] = 0
         /\ U # {} => \E t \in U : /\ t = (CHOOSE x \in U : TRUE)
                                   /\ f[U] = portfolio[t] + f[U \ {t}]
  BY DEF SumsTo

\* Two such functions agree where both are defined.
LEMMA SumUnique ==
  ASSUME NEW S, IsFiniteSet(S), NEW T, NEW f, NEW g, NEW portfolio,
         SumsTo(f, S, portfolio), SumsTo(g, T, portfolio), NEW U \in SUBSET S, U \subseteq T
  PROVE  f[U] = g[U]
  <1> DEFINE Differ == {V \in SUBSET S : V \subseteq T /\ f[V] # g[V]}
  <1>1. SUFFICES ASSUME Differ # {} PROVE FALSE
    OBVIOUS
  <1>2. PICK V \in Differ : \A W \in Differ : W \subseteq V => W = V
    <2>1. Differ \subseteq SUBSET S
      OBVIOUS
    <2> HIDE DEF Differ
    <2> QED BY <1>1, <2>1, LeastSet
  <1>c. V \in SUBSET S /\ V \in SUBSET T
    OBVIOUS
  <1>3. V # {}
    BY <1>c, SumUnfolds
  <1>4. PICK t \in V : t = (CHOOSE x \in V : TRUE) /\ f[V] = portfolio[t] + f[V \ {t}]
    BY <1>3, SumUnfolds
  <1>5. g[V] = portfolio[t] + g[V \ {t}]
    <2>1. \E u \in V : u = (CHOOSE x \in V : TRUE) /\ g[V] = portfolio[u] + g[V \ {u}]
      BY <1>c, <1>3, SumUnfolds
    <2> QED BY <1>4, <2>1
  <1>6. V \ {t} \notin Differ
    BY <1>2, <1>4
  <1> QED BY <1>4, <1>5, <1>6

LEMMA SumExists ==
  ASSUME NEW S, IsFiniteSet(S), NEW portfolio
  PROVE  \E f : SumsTo(f, S, portfolio)
  <1> DEFINE Missing == {V \in SUBSET S : ~\E f : SumsTo(f, V, portfolio)}
             Sum(V) == CHOOSE f : SumsTo(f, V, portfolio)
  <1>1. SUFFICES ASSUME Missing # {} PROVE FALSE
    OBVIOUS
  <1>2. PICK V \in Missing : \A W \in Missing : W \subseteq V => W = V
    <2>1. Missing \subseteq SUBSET S
      OBVIOUS
    <2> HIDE DEF Missing
    <2> QED BY <1>1, <2>1, LeastSet
  <1> DEFINE g == [U \in SUBSET V |->
                     IF U = {} THEN 0
                     ELSE LET t == CHOOSE t \in U : TRUE IN portfolio[t] + Sum(U \ {t})[U \ {t}]]
  <1>3. ASSUME NEW W \in SUBSET V, W # V PROVE SumsTo(Sum(W), W, portfolio)
    BY <1>2, <1>3
  <1>4. ASSUME NEW W \in SUBSET V, W # V PROVE g[W] = Sum(W)[W]
    <2>1. IsFiniteSet(W)
      BY FS_Subset
    <2>2. SumsTo(Sum(W), W, portfolio)
      BY <1>3, <1>4
    <2>3. CASE W = {}
      BY <2>2, <2>3, SumUnfolds
    <2>4. CASE W # {}
      <3>1. PICK t \in W : t = (CHOOSE x \in W : TRUE) /\ Sum(W)[W] = portfolio[t] + Sum(W)[W \ {t}]
        <4>1. W \in SUBSET W
          OBVIOUS
        <4> HIDE DEF Sum
        <4> QED BY <2>2, <2>4, <4>1, SumUnfolds
      <3>2. SumsTo(Sum(W \ {t}), W \ {t}, portfolio)
        BY <1>3, <1>4
      <3>3. Sum(W)[W \ {t}] = Sum(W \ {t})[W \ {t}]
        <4>1. W \ {t} \in SUBSET W /\ W \ {t} \subseteq W \ {t}
          OBVIOUS
        <4> HIDE DEF Sum
        <4> QED BY <2>1, <2>2, <3>2, <4>1, SumUnique
      <3>4. g[W] = portfolio[t] + Sum(W \ {t})[W \ {t}]
        BY <2>4, <3>1
      <3> QED BY <3>1, <3>3, <3>4
    <2> QED BY <2>3, <2>4
  <1>5. SumsTo(g, V, portfolio)
    <2>1. ASSUME NEW U \in SUBSET V, U # {}
          PROVE  LET t == CHOOSE t \in U : TRUE IN Sum(U \ {t})[U \ {t}] = g[U \ {t}]
      <3> DEFINE t == CHOOSE t \in U : TRUE
      <3>1. t \in U
        BY <2>1
      <3>2. U \ {t} \in SUBSET V /\ U \ {t} # V
        BY <3>1
      <3> HIDE DEF t, g, Sum
      <3>3. g[U \ {t}] = Sum(U \ {t})[U \ {t}]
        BY <3>2, <1>4
      <3> QED BY <3>3 DEF t
    <2> DEFINE Body(h) == [U \in SUBSET V |->
                     IF U = {} THEN 0
                     ELSE LET t == CHOOSE t \in U : TRUE IN portfolio[t] + h[U \ {t}]]
    <2>2. g = Body(g)
      <3>1. ASSUME NEW U \in SUBSET V PROVE g[U] = Body(g)[U]
        <4>1. CASE U = {}
          BY <4>1
        <4>2. CASE U # {}
          <5> DEFINE t == CHOOSE t \in U : TRUE
          <5>1. g[U] = portfolio[t] + Sum(U \ {t})[U \ {t}]
            BY <4>2
          <5>2. Body(g)[U] = portfolio[t] + g[U \ {t}]
            <6> HIDE DEF g
            <6> QED BY <4>2
          <5>3. Sum(U \ {t})[U \ {t}] = g[U \ {t}]
            BY <2>1, <4>2
          <5> QED BY <5>1, <5>2, <5>3
        <4> QED BY <4>1, <4>2
      <3>2. g = [U \in SUBSET V |-> g[U]]
        OBVIOUS
      <3>3. Body(g) = [U \in SUBSET V |-> Body(g)[U]]
        OBVIOUS
      <3> HIDE DEF g, Body
      <3> QED BY <3>1, <3>2, <3>3
    <2> HIDE DEF g
    <2> QED BY <2>2 DEF SumsTo
  <1> QED BY <1>2, <1>5

LEMMA TotalSums ==
  ASSUME NEW portfolio
  PROVE  \E f : SumsTo(f, Tokens, portfolio) /\ Total(portfolio) = f[Tokens]
  <1> DEFINE f == CHOOSE f : SumsTo(f, Tokens, portfolio)
  <1>1. SumsTo(f, Tokens, portfolio)
    BY SumExists, SomeTokens
  <1>2. Total(portfolio) = f[Tokens]
    BY DEF Total, SumsTo
  <1> QED BY <1>1, <1>2

\* A sum is at least what it adds up.
LEMMA SumBounds ==
  ASSUME NEW S, IsFiniteSet(S), NEW portfolio \in [S -> Nat], NEW f, SumsTo(f, S, portfolio)
  PROVE  /\ f[S] \in Nat
         /\ \A t \in S : portfolio[t] <= f[S]
         /\ \A t, u \in S : t # u => portfolio[t] + portfolio[u] <= f[S]
  <1> DEFINE Good(V) == /\ f[V] \in Nat
                        /\ \A t \in V : portfolio[t] <= f[V]
                        /\ \A t, u \in V : t # u => portfolio[t] + portfolio[u] <= f[V]
             Bad == {V \in SUBSET S : ~Good(V)}
  <1>1. SUFFICES ASSUME Bad # {} PROVE FALSE
    OBVIOUS
  <1>2. PICK V \in Bad : \A W \in Bad : W \subseteq V => W = V
    <2>1. Bad \subseteq SUBSET S
      OBVIOUS
    <2> HIDE DEF Bad
    <2> QED BY <1>1, <2>1, LeastSet
  <1>3. V # {}
    BY SumUnfolds
  <1>4. PICK x \in V : f[V] = portfolio[x] + f[V \ {x}]
    BY <1>3, SumUnfolds
  <1>5. Good(V \ {x})
    <2> HIDE DEF Good
    <2> QED BY <1>2, <1>4
  <1>6. portfolio[x] \in Nat /\ \A t \in V : portfolio[t] \in Nat
    OBVIOUS
  <1>7. Good(V)
    BY <1>4, <1>5, <1>6
  <1> QED BY <1>7

\* What a portfolio holds of two tokens is within its total.
LEMMA TotalBounds ==
  ASSUME NEW portfolio \in Portfolios
  PROVE  /\ Total(portfolio) \in Nat
         /\ \A t \in Tokens : portfolio[t] \in Nat /\ portfolio[t] <= Total(portfolio)
         /\ \A t, u \in Tokens : t # u => portfolio[t] + portfolio[u] <= Total(portfolio)
  <1>1. portfolio \in [Tokens -> Nat]
    BY SomeTokens DEF Portfolios
  <1>2. PICK f : SumsTo(f, Tokens, portfolio) /\ Total(portfolio) = f[Tokens]
    BY TotalSums
  <1> QED BY <1>1, <1>2, SumBounds, SomeTokens

-----------------------------------------------------------------------------
(* The tokens whose ids are asked of Orby.                                 *)

\* g lists, for each of the first n positions, the tokens pushed up to it.
Pushes(g, n, tokens, cached) ==
  g = [i \in 0..n |->
         IF i = 0 THEN <<>>
         ELSE IF tokens[i] \in cached THEN g[i - 1] ELSE Append(g[i - 1], tokens[i])]

LEMMA PushUnfolds ==
  ASSUME NEW n \in Nat, NEW g, NEW tokens, NEW cached, Pushes(g, n, tokens, cached)
  PROVE  /\ g[0] = <<>>
         /\ \A i \in 1..n :
              g[i] = IF tokens[i] \in cached THEN g[i - 1] ELSE Append(g[i - 1], tokens[i])
  <1>1. \A i \in 0..n : g[i] = IF i = 0 THEN <<>>
          ELSE IF tokens[i] \in cached THEN g[i - 1] ELSE Append(g[i - 1], tokens[i])
    BY DEF Pushes
  <1>2. 0 \in 0..n
    OBVIOUS
  <1>3. \A i \in 1..n : i \in 0..n /\ i # 0
    OBVIOUS
  <1> QED BY <1>1, <1>2, <1>3

LEMMA PushExists ==
  ASSUME NEW n \in Nat, NEW tokens, NEW cached
  PROVE  \E g : Pushes(g, n, tokens, cached)
  <1> DEFINE Missing == {m \in Nat : ~\E g : Pushes(g, m, tokens, cached)}
  <1>1. SUFFICES ASSUME Missing # {} PROVE FALSE
    OBVIOUS
  <1>2. PICK m \in Missing : \A k \in Missing : m <= k
    <2>1. Missing \subseteq Nat
      OBVIOUS
    <2> HIDE DEF Missing
    <2> QED BY <1>1, <2>1, LeastNumber
  <1>3. m \in Nat
    OBVIOUS
  <1>4. CASE m = 0
    <2> DEFINE g == [i \in 0..0 |-> <<>>]
    <2>1. Pushes(g, 0, tokens, cached)
      <3>1. \A i \in 0..0 : i = 0
        OBVIOUS
      <3> QED BY <3>1 DEF Pushes
    <2> QED BY <1>2, <1>4, <2>1
  <1>5. CASE m # 0
    <2>1. m - 1 \in Nat /\ m - 1 \notin Missing
      BY <1>2, <1>3, <1>5
    <2>2. PICK g : Pushes(g, m - 1, tokens, cached)
      BY <2>1
    <2> DEFINE h == [i \in 0..m |->
                       IF i = m
                       THEN IF tokens[m] \in cached THEN g[m - 1] ELSE Append(g[m - 1], tokens[m])
                       ELSE g[i]]
               Body(i) == IF i = 0 THEN <<>>
                          ELSE IF tokens[i] \in cached THEN h[i - 1] ELSE Append(h[i - 1], tokens[i])
    <2>3. ASSUME NEW i \in 0..m PROVE h[i] = Body(i)
      <3>1. i - 1 # m /\ (i # 0 => i - 1 \in 0..m)
        BY <1>3
      <3>2. i # 0 => h[i - 1] = g[i - 1]
        BY <3>1
      <3>3. CASE i = m
        <4>1. h[i] = IF tokens[i] \in cached THEN g[i - 1] ELSE Append(g[i - 1], tokens[i])
          BY <3>3
        <4> HIDE DEF h
        <4> QED BY <1>5, <3>2, <3>3, <4>1
      <3>4. CASE i # m
        <4>1. h[i] = g[i]
          BY <3>4
        <4>2. i \in 0..(m - 1) /\ (i # 0 => i \in 1..(m - 1))
          BY <1>3, <3>4
        <4>3. CASE i = 0
          <5>1. g[0] = <<>>
            BY <2>1, <2>2, PushUnfolds
          <5> QED BY <4>1, <4>3, <5>1
        <4>4. CASE i # 0
          <5>1. \A j \in 1..(m - 1) :
                   g[j] = IF tokens[j] \in cached THEN g[j - 1] ELSE Append(g[j - 1], tokens[j])
            BY <2>1, <2>2, PushUnfolds
          <5>2. g[i] = IF tokens[i] \in cached THEN g[i - 1] ELSE Append(g[i - 1], tokens[i])
            BY <4>2, <4>4, <5>1
          <5> HIDE DEF h
          <5> QED BY <3>2, <4>1, <4>4, <5>2
        <4> QED BY <4>3, <4>4
      <3> QED BY <3>3, <3>4
    <2>4. h = [i \in 0..m |-> h[i]]
      OBVIOUS
    <2>5. Pushes(h, m, tokens, cached)
      <3> HIDE DEF h
      <3> QED BY <2>3, <2>4 DEF Pushes
    <2> QED BY <1>2, <2>5
  <1> QED BY <1>4, <1>5

LEMMA PushedPushes ==
  ASSUME NEW tokens, Len(tokens) \in Nat, NEW cached
  PROVE  Pushes(Pushed(tokens, cached), Len(tokens), tokens, cached)
  <1> DEFINE g == CHOOSE g : Pushes(g, Len(tokens), tokens, cached)
  <1>1. Pushes(g, Len(tokens), tokens, cached)
    BY PushExists
  <1>2. Pushed(tokens, cached) = g
    BY DEF Pushed, Pushes
  <1> QED BY <1>1, <1>2

\* A later list begins with every earlier one.
Begins(s, t) == Len(s) <= Len(t) /\ \A i \in 1..Len(s) : t[i] = s[i]
Grows(g, n) ==
  \A j \in 0..n : g[j] \in Seq(Tokens) /\ \A i \in 0..j : Begins(g[i], g[j])

LEMMA PushedGrows ==
  ASSUME NEW tokens \in Seq(Tokens), NEW cached
  PROVE  Grows(Pushed(tokens, cached), Len(tokens))
  <1> DEFINE g == Pushed(tokens, cached)
             Good(j) == g[j] \in Seq(Tokens) /\ \A i \in 0..j : Begins(g[i], g[j])
             Bad == {j \in 0..Len(tokens) : ~Good(j)}
  <1>1. Len(tokens) \in Nat /\ \A i \in 1..Len(tokens) : tokens[i] \in Tokens
    OBVIOUS
  <1>2. /\ g[0] = <<>>
        /\ \A i \in 1..Len(tokens) :
             g[i] = IF tokens[i] \in cached THEN g[i - 1] ELSE Append(g[i - 1], tokens[i])
    <2>1. Pushes(g, Len(tokens), tokens, cached)
      BY <1>1, PushedPushes
    <2> HIDE DEF g
    <2> QED BY <1>1, <2>1, PushUnfolds
  <1> HIDE DEF g
  <1>3. SUFFICES ASSUME Bad # {} PROVE FALSE
    BY DEF g, Grows
  <1>4. PICK j \in Bad : \A k \in Bad : j <= k
    <2>1. Bad \subseteq Nat
      OBVIOUS
    <2> HIDE DEF Bad
    <2> QED BY <1>3, <2>1, LeastNumber
  <1>5. j \in 0..Len(tokens) /\ j \in Nat
    BY <1>1
  <1>6. j # 0
    <2>1. Good(0)
      <3>1. g[0] \in Seq(Tokens)
        BY <1>2
      <3>2. \A i \in 0..0 : i = 0
        OBVIOUS
      <3>3. Begins(g[0], g[0])
        BY <3>1 DEF Begins
      <3> QED BY <3>1, <3>2, <3>3
    <2> QED BY <2>1
  <1>7. Good(j - 1)
    <2>1. j - 1 \in 0..Len(tokens) /\ j - 1 < j
      BY <1>1, <1>5, <1>6
    <2> HIDE DEF Good
    <2> QED BY <1>4, <1>5, <2>1
  <1>8. g[j] = IF tokens[j] \in cached THEN g[j - 1] ELSE Append(g[j - 1], tokens[j])
    <2>1. j \in 1..Len(tokens)
      BY <1>5, <1>6
    <2> QED BY <1>2, <2>1
  <1>9. g[j - 1] \in Seq(Tokens) /\ tokens[j] \in Tokens
    BY <1>1, <1>5, <1>6, <1>7
  <1>10. g[j] \in Seq(Tokens) /\ Begins(g[j - 1], g[j]) /\ Begins(g[j], g[j])
    BY <1>8, <1>9 DEF Begins
  <1>11. ASSUME NEW i \in 0..j PROVE Begins(g[i], g[j])
    <2>1. CASE i = j
      BY <1>10, <2>1
    <2>2. CASE i # j
      <3>1. i \in 0..(j - 1) /\ j - 1 \in 0..(j - 1)
        BY <1>5, <1>6, <2>2
      <3>2. Begins(g[i], g[j - 1])
        BY <1>7, <3>1
      <3>3. Len(g[j - 1]) \in Nat /\ Len(g[j]) \in Nat
        BY <1>9, <1>10
      <3>4. \A n \in 1..Len(g[i]) : n \in 1..Len(g[j - 1])
        BY <3>2, <3>3 DEF Begins
      <3> QED BY <1>10, <3>2, <3>3, <3>4 DEF Begins
    <2> QED BY <2>1, <2>2
  <1>12. Good(j)
    BY <1>10, <1>11
  <1> QED BY <1>12

\* Filtering and merging give every position the id of its own token.
LEMMA MergeInOrder ==
  ASSUME NEW tokens \in Seq(Tokens), NEW cached
  PROVE  Merge(tokens, cached, Uncached(tokens, cached)) = tokens
  <1> DEFINE g == Pushed(tokens, cached)
             n == Len(tokens)
             ids == Merge(tokens, cached, Uncached(tokens, cached))
  <1>1. n \in Nat /\ DOMAIN tokens = 1..n /\ tokens = [i \in 1..n |-> tokens[i]]
    OBVIOUS
  <1>2. \A i \in 1..n :
           g[i] = IF tokens[i] \in cached THEN g[i - 1] ELSE Append(g[i - 1], tokens[i])
    <2>1. Pushes(g, n, tokens, cached)
      BY <1>1, PushedPushes
    <2> HIDE DEF g
    <2> QED BY <1>1, <2>1, PushUnfolds
  <1>3. ids = [i \in 1..n |-> IF tokens[i] \in cached THEN tokens[i] ELSE g[n][Len(g[i])]]
    BY <1>1 DEF Merge, Uncached
  <1>4. \A j \in 0..n :
           g[j] \in Seq(Tokens) /\ \A i \in 0..j : Begins(g[i], g[j])
    BY PushedGrows DEF Grows
  <1> HIDE DEF g
  <1>5. ASSUME NEW i \in 1..n, tokens[i] \notin cached PROVE g[n][Len(g[i])] = tokens[i]
    <2>1. i - 1 \in 0..n /\ i \in 0..n /\ n \in 0..n
      BY <1>1
    <2>2. g[i] = Append(g[i - 1], tokens[i])
      BY <1>2, <1>5
    <2>3. g[i - 1] \in Seq(Tokens) /\ tokens[i] \in Tokens
      BY <1>1, <1>4, <2>1
    <2>4. Len(g[i]) \in 1..Len(g[i]) /\ g[i][Len(g[i])] = tokens[i]
      BY <2>2, <2>3
    <2> QED BY <1>4, <2>1, <2>4 DEF Begins
  <1> HIDE DEF n
  <1> QED BY <1>1, <1>3, <1>5

-----------------------------------------------------------------------------
(* The invariant.                                                          *)

AppRow ==
  [category: Categories, url: Urls, active: BOOLEAN, featured: BOOLEAN, popularity: Int]
Rows == AppRow \union {NoApp}

Functions ==
  /\ cache = [k \in Keys |-> cache[k]]
  /\ req = [r \in Requests |-> req[r]]
  /\ storeApp \in [StoreApps -> Rows]
  /\ preferred = [p \in Profiles |-> preferred[p]]

\* Every score is one that a preference of 0 to 100 gives a token that is held.
Scored(scores, portfolio) ==
  /\ scores = [t \in DOMAIN scores |-> scores[t]]
  /\ DOMAIN scores \subseteq Held(portfolio)
  /\ \A t \in DOMAIN scores : \E n \in 0..100 : scores[t] = Score(t, portfolio, n)

\* What a request carries across its awaits.
Carries(q) ==
  /\ q.op \in {"query", "answer", "clear"} => q.key \in {"featured", "categories"}
  /\ q.op = "create app" => q.row \in AppRow
  /\ q.op = "view" => q.app \in StoreApps
  /\ q.op \in {"portfolio", "score", "invalidate"} => q.profile \in Profiles
  /\ q.op = "score" =>
       /\ q = [op |-> "score", profile |-> q.profile, portfolio |-> q.portfolio,
               choice |-> q.choice, scores |-> q.scores]
       /\ q.portfolio \in Portfolios /\ Scored(q.scores, q.portfolio)
  /\ q.op = "ids" => q.tokens \in Asked
  /\ q.op = "ids answered" => q.ids = q.tokens

RequestsCarry == \A r \in Requests : Carries(req[r])

CachesInv ==
  /\ Functions /\ RequestsCarry
  /\ FeaturedCleared /\ PreferenceCleared /\ NativeUnlessPreferred

-----------------------------------------------------------------------------
(* What the steps of the cache do.                                         *)

LEMMA KeyKinds ==
  /\ "featured" \in Keys /\ "categories" \in Keys
  /\ "featured" \notin Profiles /\ "categories" \notin Profiles
  /\ \A p \in Profiles : p \in Keys
  BY KeysApart

LEMMA GotoMoves ==
  ASSUME Functions, NEW r \in Requests, NEW q, Goto(r, q)
  PROVE  /\ req'[r] = q
         /\ \A x \in Requests : x # r => req'[x] = req[x]
         /\ req' = [x \in Requests |-> req'[x]]
  BY DEF Functions, Goto

\* Whoever will delete an entry still will, but for a request that moves on.
LEMMA StillClearing ==
  ASSUME Functions, NEW r \in Requests, NEW q, Goto(r, q), NEW k, Clearing(k),
         ~(req[r].op = "clear" /\ req[r].key = k),
         ~(req[r].op = "invalidate" /\ req[r].profile = k)
  PROVE  Clearing(k)'
  <1>1. \A x \in Requests : x # r => req'[x] = req[x]
    BY GotoMoves
  <1>2. CASE \E x \in Requests : req[x].op = "clear" /\ req[x].key = k
    BY <1>1, <1>2 DEF Clearing
  <1>3. CASE \E x \in Requests : req[x].op = "invalidate" /\ req[x].profile = k
    BY <1>1, <1>3 DEF Clearing
  <1> QED BY <1>2, <1>3 DEF Clearing

LEMMA Stored ==
  ASSUME Functions, NEW k \in Keys, NEW value, NEW ttl, NEW right \in BOOLEAN,
         Set(k, value, ttl, right)
  PROVE  /\ cache' = [j \in Keys |-> cache'[j]]
         /\ \A j \in Keys : j # k => cache'[j] = cache[j] /\ (j \in late' <=> j \in late)
         /\ \/ cache'[k] = Entry(value, ttl) /\ (right \/ k \in late')
            \/ cache' = cache /\ late' = late
  <1>1. CASE redis
    <2>1. cache' = [cache EXCEPT ![k] = Entry(value, ttl)]
      BY <1>1 DEF Set
    <2>2. late' = IF right THEN late \ {k} ELSE late \union {k}
      BY <1>1 DEF Set
    <2> QED BY <2>1, <2>2 DEF Functions
  <1>2. CASE ~redis
    BY <1>2 DEF Set, Functions
  <1> QED BY <1>1, <1>2

LEMMA Deleted ==
  ASSUME Functions, NEW k \in Keys, Delete(k)
  PROVE  /\ cache' = [j \in Keys |-> cache'[j]]
         /\ \A j \in Keys : j # k => cache'[j] = cache[j] /\ (j \in late' <=> j \in late)
         /\ cache'[k] = NoEntry \/ (k \in late' /\ cache'[k] = cache[k])
  <1>1. CASE redis
    <2>1. cache' = [cache EXCEPT ![k] = NoEntry]
      BY <1>1 DEF Delete
    <2>2. late' = late \ {k}
      BY <1>1 DEF Delete
    <2> QED BY <2>1, <2>2 DEF Functions
  <1>2. CASE ~redis
    <2>1. cache' = cache
      BY <1>2 DEF Delete
    <2>2. late' = IF cache[k] = NoEntry THEN late ELSE late \union {k}
      BY <1>2 DEF Delete
    <2> QED BY <2>1, <2>2 DEF Functions
  <1> QED BY <1>1, <1>2

LEMMA Expired ==
  ASSUME Functions, NEW k \in Keys, Expire(k)
  PROVE  /\ cache' = [j \in Keys |-> cache'[j]]
         /\ \A j \in Keys : j # k => cache'[j] = cache[j] /\ (j \in late' <=> j \in late)
         /\ cache'[k] = NoEntry
  <1>1. cache' = [cache EXCEPT ![k] = NoEntry] /\ late' = late \ {k}
    BY DEF Expire
  <1> QED BY <1>1 DEF Functions

LEMMA EntryHolds ==
  ASSUME NEW value, NEW ttl
  PROVE  Entry(value, ttl) # NoEntry /\ Entry(value, ttl).value = value
  <1>1. Entry(value, ttl).value = value
    BY DEF Entry
  <1>2. "expires" \in DOMAIN Entry(value, ttl) /\ "expires" \notin DOMAIN NoEntry
    BY DEF Entry, NoEntry
  <1> QED BY <1>1, <1>2

-----------------------------------------------------------------------------
(* What requests carry.                                                    *)

LEMMA StoreCarries ==
  ASSUME CachesInv, NEW r \in Requests, StoreStep(r)
  PROVE  \E q : Goto(r, q) /\ Carries(q)
  <1>1. Carries(req[r])
    BY DEF CachesInv, RequestsCarry
  <1>2. Carries(Done)
    BY DEF Carries, Done
  <1>3. \A k \in {"featured", "categories"} : Carries([op |-> "clear", key |-> k])
    BY DEF Carries
  <1>4. ASSUME NEW k \in {"featured", "categories"}, Lookup(r, k)
        PROVE  \E q : Goto(r, q) /\ Carries(q)
    <2>1. Carries([op |-> "query", key |-> k])
      BY DEF Carries
    <2> QED BY <1>2, <1>4, <2>1 DEF Lookup
  <1>5. CASE Query(r)
    <2>0. PICK list \in Answers(req[r].key) :
            Goto(r, [op |-> "answer", key |-> req[r].key, list |-> list])
      BY <1>5 DEF Query
    <2> DEFINE q == [op |-> "answer", key |-> req[r].key, list |-> list]
    <2>1. Goto(r, q) /\ req[r].op = "query"
      BY <1>5, <2>0 DEF Query
    <2>2. q.op = "answer" /\ q.key = req[r].key
      OBVIOUS
    <2>3. Carries(q)
      <3> HIDE DEF q
      <3> QED BY <1>1, <2>1, <2>2 DEF Carries
    <2> QED BY <2>1, <2>3
  <1>6. CASE StoreAnswer(r)
    BY <1>2, <1>6 DEF StoreAnswer
  <1>7. CASE AppsRequest(r)
    <2>1. ASSUME NEW c \in Categories, NEW u \in Urls, NEW f \in BOOLEAN,
                 CreateAppCheck(r, c, u, f)
          PROVE  \E q : Goto(r, q) /\ Carries(q)
      <3> DEFINE row == [category |-> c, url |-> u, active |-> TRUE,
                         featured |-> f, popularity |-> 0]
                 q == [op |-> "create app", row |-> row]
      <3>1. Goto(r, q)
        BY <2>1 DEF CreateAppCheck
      <3>2. row \in AppRow
        BY DEF AppRow
      <3>3. q.op = "create app" /\ q.row = row
        OBVIOUS
      <3>4. Carries(q)
        <4> HIDE DEF q, row
        <4> QED BY <3>2, <3>3 DEF Carries
      <3> QED BY <3>1, <3>4
    <2>2. CASE CreateApp(r)
      BY <1>3, <2>2 DEF CreateApp, ThenClear
    <2>3. ASSUME NEW a, NEW row, UpdateApp(r, a, row)
          PROVE  \E q : Goto(r, q) /\ Carries(q)
      BY <1>3, <2>3 DEF UpdateApp, ThenClear
    <2>4. ASSUME NEW a, DeleteApp(r, a)
          PROVE  \E q : Goto(r, q) /\ Carries(q)
      BY <1>3, <2>4 DEF DeleteApp, ThenClear
    <2>5. ASSUME NEW a \in StoreApps, ViewCheck(r, a)
          PROVE  \E q : Goto(r, q) /\ Carries(q)
      <3>1. Carries([op |-> "view", app |-> a])
        BY DEF Carries
      <3> QED BY <2>5, <3>1 DEF ViewCheck
    <2>6. CASE View(r)
      BY <1>2, <2>6 DEF View
    <2> QED BY <1>7, <2>1, <2>2, <2>3, <2>4, <2>5, <2>6 DEF AppsRequest
  <1>8. CASE CategoriesRequest(r)
    <2>1. ASSUME NEW s, CreateCategoryCheck(r, s)
          PROVE  \E q : Goto(r, q) /\ Carries(q)
      <3>1. Carries([op |-> "create category", slug |-> s])
        BY DEF Carries
      <3> QED BY <2>1, <3>1 DEF CreateCategoryCheck
    <2>2. CASE CreateCategory(r)
      BY <1>2, <1>3, <2>2 DEF CreateCategory, ThenClear
    <2>3. ASSUME NEW c, NEW s, NEW b, UpdateCategoryCheck(r, c, s, b)
          PROVE  \E q : Goto(r, q) /\ Carries(q)
      <3> DEFINE q == [op |-> "update category", category |-> c,
                       row |-> [slug |-> s, active |-> b]]
      <3>1. Goto(r, q)
        BY <2>3 DEF UpdateCategoryCheck
      <3>2. Carries(q)
        BY DEF Carries
      <3> QED BY <3>1, <3>2
    <2>4. CASE UpdateCategory(r)
      BY <1>2, <1>3, <2>4 DEF UpdateCategory, ThenClear
    <2>5. ASSUME NEW c, DeleteCategoryCheck(r, c)
          PROVE  \E q : Goto(r, q) /\ Carries(q)
      <3>1. Carries([op |-> "delete category", category |-> c])
        BY DEF Carries
      <3> QED BY <2>5, <3>1 DEF DeleteCategoryCheck
    <2>6. CASE DeleteCategory(r)
      BY <1>3, <2>6 DEF DeleteCategory, ThenClear
    <2> QED BY <1>8, <2>1, <2>2, <2>3, <2>4, <2>5, <2>6 DEF CategoriesRequest
  <1>9. CASE Clear(r)
    BY <1>2, <1>9 DEF Clear
  <1> QED BY <1>4, <1>5, <1>6, <1>7, <1>8, <1>9 DEF StoreStep

LEMMA EmptyScored ==
  ASSUME NEW portfolio
  PROVE  Scored(<<>>, portfolio)
  <1>1. DOMAIN <<>> = {} /\ <<>> = [t \in {} |-> <<>>[t]]
    OBVIOUS
  <1> QED BY <1>1 DEF Scored

\* One more token is scored.
LEMMA ScoreAdded ==
  ASSUME NEW scores, NEW portfolio, Scored(scores, portfolio),
         NEW t \in Held(portfolio), NEW n \in 0..100
  PROVE  Scored([u \in {t} \union DOMAIN scores |->
                    IF u = t THEN Score(t, portfolio, n) ELSE scores[u]], portfolio)
  <1> DEFINE new == [u \in {t} \union DOMAIN scores |->
                        IF u = t THEN Score(t, portfolio, n) ELSE scores[u]]
  <1>1. DOMAIN new = {t} \union DOMAIN scores /\ new = [u \in DOMAIN new |-> new[u]]
    OBVIOUS
  <1>2. DOMAIN new \subseteq Held(portfolio)
    BY <1>1 DEF Scored
  <1>3. ASSUME NEW u \in DOMAIN new PROVE \E m \in 0..100 : new[u] = Score(u, portfolio, m)
    <2>1. CASE u = t
      BY <2>1
    <2>2. CASE u # t
      BY <2>2 DEF Scored
    <2> QED BY <2>1, <2>2
  <1> HIDE DEF new
  <1>4. Scored(new, portfolio)
    BY <1>1, <1>2, <1>3 DEF Scored
  <1> QED BY <1>4 DEF new

LEMMA TokenCarries ==
  ASSUME CachesInv, NEW r \in Requests, TokenStep(r)
  PROVE  \E q : Goto(r, q) /\ Carries(q)
  <1>1. Carries(req[r])
    BY DEF CachesInv, RequestsCarry
  <1>2. Carries(Done)
    BY DEF Carries, Done
  <1>3. ASSUME NEW p \in Profiles, AnalyzeLookup(r, p)
        PROVE  \E q : Goto(r, q) /\ Carries(q)
    <2>1. Carries([op |-> "portfolio", profile |-> p])
      BY DEF Carries
    <2> QED BY <1>2, <1>3, <2>1 DEF AnalyzeLookup
  <1>4. CASE AnalyzePortfolio(r)
    <2>1. PICK portfolio \in Portfolios :
            Goto(r, [op |-> "score", profile |-> req[r].profile, portfolio |-> portfolio,
                     choice |-> preferred[req[r].profile], scores |-> <<>>])
      BY <1>4 DEF AnalyzePortfolio
    <2> DEFINE q == [op |-> "score", profile |-> req[r].profile, portfolio |-> portfolio,
                     choice |-> preferred[req[r].profile], scores |-> <<>>]
    <2>2. req[r].profile \in Profiles
      BY <1>1, <1>4 DEF AnalyzePortfolio, Carries
    <2>3. /\ q.op = "score" /\ q.profile = req[r].profile
          /\ q.portfolio = portfolio /\ q.scores = <<>>
          /\ q = [op |-> "score", profile |-> q.profile, portfolio |-> q.portfolio,
                  choice |-> q.choice, scores |-> q.scores]
      OBVIOUS
    <2>4. Carries(q)
      <3> HIDE DEF q
      <3> QED BY <2>2, <2>3, EmptyScored DEF Carries
    <2> QED BY <2>1, <2>4
  <1>5. CASE AnalyzeScore(r)
    <2>1. req[r].op = "score"
      BY <1>5 DEF AnalyzeScore
    <2>a. PICK t \in Unscored(r) : \E n \in PreferenceScores(req[r].profile, t) :
            Goto(r, [req[r] EXCEPT !.scores =
                [u \in {t} \union DOMAIN @ |->
                    IF u = t THEN Score(t, req[r].portfolio, n) ELSE @[u]]])
      BY <1>5 DEF AnalyzeScore
    <2>2. PICK n \in PreferenceScores(req[r].profile, t) :
            Goto(r, [req[r] EXCEPT !.scores =
                [u \in {t} \union DOMAIN @ |->
                    IF u = t THEN Score(t, req[r].portfolio, n) ELSE @[u]]])
      BY <2>a
    <2>3. t \in Held(req[r].portfolio) /\ n \in 0..100
      BY SomeTokens DEF Unscored, PreferenceScores
    <2> DEFINE new == [u \in {t} \union DOMAIN req[r].scores |->
                          IF u = t THEN Score(t, req[r].portfolio, n) ELSE req[r].scores[u]]
               q == [req[r] EXCEPT !.scores = new]
    <2>4. Goto(r, q)
      BY <2>2
    <2>5. /\ req[r] = [op |-> "score", profile |-> req[r].profile,
                       portfolio |-> req[r].portfolio, choice |-> req[r].choice,
                       scores |-> req[r].scores]
          /\ req[r].profile \in Profiles
          /\ req[r].portfolio \in Portfolios
          /\ Scored(req[r].scores, req[r].portfolio)
      BY <1>1, <2>1 DEF Carries
    <2>6. Scored(new, req[r].portfolio)
      BY <2>3, <2>5, ScoreAdded
    <2>7. /\ q = [op |-> "score", profile |-> req[r].profile,
                  portfolio |-> req[r].portfolio, choice |-> req[r].choice, scores |-> new]
          /\ q.op = "score" /\ q.profile = req[r].profile
          /\ q.portfolio = req[r].portfolio /\ q.choice = req[r].choice /\ q.scores = new
      <3> HIDE DEF new
      <3> QED BY <2>5
    <2>8. Carries(q)
      <3> HIDE DEF q, new
      <3> QED BY <2>5, <2>6, <2>7 DEF Carries
    <2> QED BY <2>4, <2>8
  <1>6. CASE AnalyzeStore(r)
    BY <1>2, <1>6 DEF AnalyzeStore
  <1>7. ASSUME NEW p \in Profiles, NEW t, PreferWrite(r, p, t)
        PROVE  \E q : Goto(r, q) /\ Carries(q)
    <2>1. Carries([op |-> "invalidate", profile |-> p])
      BY DEF Carries
    <2> QED BY <1>7, <2>1 DEF PreferWrite
  <1>8. CASE PreferInvalidate(r)
    BY <1>2, <1>8 DEF PreferInvalidate
  <1>9. ASSUME NEW tokens \in Asked, IdsLookup(r, tokens)
        PROVE  \E q : Goto(r, q) /\ Carries(q)
    <2> DEFINE q == [op |-> "ids", tokens |-> tokens,
                     cached |-> {t \in CachedTokenIds : \E i \in DOMAIN tokens : tokens[i] = t}]
    <2>1. Goto(r, q)
      BY <1>9 DEF IdsLookup
    <2>2. q.op = "ids" /\ q.tokens = tokens
      OBVIOUS
    <2>3. Carries(q)
      <3> HIDE DEF q
      <3> QED BY <2>2 DEF Carries
    <2> QED BY <2>1, <2>3
  <1>10. CASE IdsFetch(r)
    <2> DEFINE ids == Merge(req[r].tokens, req[r].cached, Uncached(req[r].tokens, req[r].cached))
               q == [op |-> "ids answered", tokens |-> req[r].tokens, ids |-> ids]
    <2>1. Goto(r, q) /\ req[r].op = "ids"
      BY <1>10 DEF IdsFetch
    <2>2. req[r].tokens \in Seq(Tokens)
      BY <1>1, <2>1, SomeTokens DEF Carries
    <2>3. ids = req[r].tokens
      BY <2>2, MergeInOrder
    <2>4. q.op = "ids answered" /\ q.ids = q.tokens
      <3> HIDE DEF ids
      <3> QED BY <2>3
    <2>5. Carries(q)
      <3> HIDE DEF q
      <3> QED BY <2>4 DEF Carries
    <2> QED BY <2>1, <2>5
  <1> QED BY <1>3, <1>4, <1>5, <1>6, <1>7, <1>8, <1>9, <1>10
        DEF TokenStep, GetGasTokens, SetPreferredGasToken

LEMMA CarriesKept ==
  ASSUME CachesInv, [Next]_vars
  PROVE  RequestsCarry'
  <1>1. ASSUME NEW r \in Requests, NEW q, Goto(r, q), Carries(q)
        PROVE  RequestsCarry'
    <2>1. \A x \in Requests : req'[x] = q \/ req'[x] = req[x]
      BY <1>1, GotoMoves DEF CachesInv
    <2>2. \A x \in Requests : Carries(req'[x])
      BY <1>1, <2>1 DEF CachesInv, RequestsCarry
    <2> QED BY <2>2 DEF RequestsCarry
  <1>2. ASSUME UNCHANGED req PROVE RequestsCarry'
    BY <1>2 DEF CachesInv, RequestsCarry
  <1>3. ASSUME NEW r \in Requests, StoreStep(r) PROVE RequestsCarry'
    BY <1>1, <1>3, StoreCarries
  <1>4. ASSUME NEW r \in Requests, TokenStep(r) PROVE RequestsCarry'
    BY <1>1, <1>4, TokenCarries
  <1>5. ASSUME NEW k, Expire(k) PROVE UNCHANGED req
    BY <1>5 DEF Expire
  <1>6. ASSUME NEW t, IdsExpire(t) PROVE UNCHANGED req
    BY <1>6 DEF IdsExpire, cacheVars
  <1>7. RedisChanges => UNCHANGED req
    BY DEF RedisChanges
  <1>8. UNCHANGED vars => UNCHANGED req
    BY DEF vars, cacheVars
  <1> QED BY <1>2, <1>3, <1>4, <1>5, <1>6, <1>7, <1>8 DEF Next

-----------------------------------------------------------------------------
(* The suggestion.                                                         *)

LEMMA Division ==
  \A n \in Nat, d \in Nat \ {0} : n \div d \in Nat /\ (n \div d) * d <= n
  OBVIOUS

\* Less than the whole, times a hundred, is less than a hundred parts of it.
LEMMA PartOfWhole ==
  ASSUME NEW part \in Nat, NEW whole \in Nat, part < whole
  PROVE  (part * 100) \div whole \in 0..99
  <1> DEFINE q == (part * 100) \div whole
  <1>1. q \in Nat /\ q * whole <= part * 100
    BY Division
  <1>2. part * 100 < 100 * whole
    OBVIOUS
  <1> HIDE DEF q
  <1>3. q >= 100 => q * whole >= 100 * whole
    <2>1. q >= 100 => \E d \in Nat : q = 100 + d
      <3>1. q >= 100 => q - 100 \in Nat /\ q = 100 + (q - 100)
        BY <1>1
      <3> QED BY <3>1
    <2>2. \A d \in Nat : (100 + d) * whole = 100 * whole + d * whole /\ d * whole \in Nat
      OBVIOUS
    <2> QED BY <2>1, <2>2
  <1>4. q * whole \in Nat
    BY <1>1
  <1>5. q < 100
    BY <1>1, <1>2, <1>3, <1>4
  <1> QED BY <1>1, <1>5 DEF q

\* 2 * 99 + 3 * 100 is less than the bonus of 500, which no score of a native token
\* falls below.
LEMMA BonusDecides ==
  ASSUME NEW portfolio \in Portfolios, NEW t \in Held(portfolio), NEW u \in Held(portfolio),
         t \notin Native, u \in Native, NEW n \in 0..100, NEW m \in 0..100
  PROVE  ~(Score(t, portfolio, n) >= Score(u, portfolio, m))
  <1> DEFINE T == Total(portfolio)
             x == (portfolio[t] * 100) \div T
             y == (portfolio[u] * 100) \div T
  <1>1. /\ portfolio[t] \in Nat /\ portfolio[u] \in Nat /\ portfolio[u] > 0
        /\ T \in Nat /\ portfolio[t] + portfolio[u] <= T
    BY TotalBounds DEF Held
  <1> HIDE DEF T
  <1>2. T # 0 /\ portfolio[t] < T
    BY <1>1
  <1>3. x \in 0..99
    BY <1>1, <1>2, PartOfWhole
  <1>4. y \in Nat
    BY <1>1, <1>2, Division
  <1>5. Score(t, portfolio, n) = 2 * x + 0 + 3 * n
    BY DEF Score, T
  <1>6. Score(u, portfolio, m) = 2 * y + 500 + 3 * m
    BY DEF Score, T
  <1> HIDE DEF x, y
  <1> QED BY <1>3, <1>4, <1>5, <1>6

LEMMA SuggestsNative ==
  ASSUME NEW scores, NEW portfolio \in Portfolios, Scored(scores, portfolio), NEW choice,
         NEW t \in Suggested(scores, choice)
  PROVE  \/ t \in Native \union {NoToken, choice}
         \/ DOMAIN scores \intersect Native = {}
  <1>1. CASE choice \in DOMAIN scores
    BY <1>1 DEF Suggested
  <1>2. CASE choice \notin DOMAIN scores /\ scores = <<>>
    BY <1>2 DEF Suggested
  <1>3. CASE choice \notin DOMAIN scores /\ scores # <<>>
    <2>1. t \in DOMAIN scores /\ \A u \in DOMAIN scores : scores[t] >= scores[u]
      BY <1>3 DEF Suggested
    <2>2. SUFFICES ASSUME t \notin Native, NEW u \in DOMAIN scores, u \in Native PROVE FALSE
      OBVIOUS
    <2>3. t \in Held(portfolio) /\ u \in Held(portfolio)
      BY <2>1, <2>2 DEF Scored
    <2>4. PICK n \in 0..100 : scores[t] = Score(t, portfolio, n)
      BY <2>1 DEF Scored
    <2>5. PICK m \in 0..100 : scores[u] = Score(u, portfolio, m)
      BY <2>2 DEF Scored
    <2>6. ~(Score(t, portfolio, n) >= Score(u, portfolio, m))
      BY <2>2, <2>3, BonusDecides
    <2> QED BY <2>1, <2>2, <2>4, <2>5, <2>6
  <1> QED BY <1>1, <1>2, <1>3

-----------------------------------------------------------------------------
(* The steps, by what they do to the entries.                              *)

\* A step of r that leaves the entries alone and was not to delete one.
Quiet(r) ==
  /\ \E q : Goto(r, q)
  /\ UNCHANGED <<cache, late>>
  /\ req[r].op \notin {"clear", "invalidate"}

\* The same apps are featured, with the same URLs.
SameFeatured ==
  /\ Featurable' = Featurable
  /\ \A a \in Featurable : storeApp'[a].url = storeApp[a].url

LEMMA SameStore ==
  ASSUME UNCHANGED storeApp
  PROVE  SameFeatured
  BY DEF SameFeatured, Featurable, Listed

\* Only the number of those who looked at the app changes.
LEMMA ViewedIsSame ==
  ASSUME CachesInv, NEW r \in Requests, View(r)
  PROVE  SameFeatured /\ storeApp' \in [StoreApps -> Rows]
  <1> DEFINE a == req[r].app
             row == [storeApp[a] EXCEPT !.popularity = @ + 1]
  <1>1. /\ storeApp' = [storeApp EXCEPT ![a] = row]
        /\ req[r].op = "view"
    BY DEF View
  <1>2. a \in StoreApps /\ storeApp \in [StoreApps -> Rows]
    BY <1>1 DEF CachesInv, Functions, RequestsCarry, Carries
  <1>3. storeApp'[a] = row /\ \A x \in StoreApps : x # a => storeApp'[x] = storeApp[x]
    BY <1>1, <1>2
  <1>4. storeApp[a] = NoApp => row = NoApp
    BY DEF NoApp
  <1>5. storeApp[a] \in AppRow =>
          /\ row \in AppRow /\ row.url = storeApp[a].url
          /\ row.active = storeApp[a].active /\ row.featured = storeApp[a].featured
    BY DEF AppRow
  <1>6. \A x \in AppRow : x # NoApp
    <2> SUFFICES ASSUME NEW x \in AppRow PROVE x # NoApp
      OBVIOUS
    <2>1. "active" \in DOMAIN x /\ "active" \notin DOMAIN NoApp
      BY DEF AppRow, NoApp
    <2> QED BY <2>1
  <1>7. storeApp[a] \in AppRow \/ storeApp[a] = NoApp
    BY <1>2 DEF Rows
  <1> HIDE DEF row, a
  <1>8. storeApp' \in [StoreApps -> Rows]
    <2>1. row \in Rows
      BY <1>4, <1>5, <1>7 DEF Rows
    <2> QED BY <1>1, <1>2, <2>1
  <1>9. \A x \in StoreApps :
          /\ storeApp'[x] = NoApp <=> storeApp[x] = NoApp
          /\ storeApp[x] # NoApp => /\ storeApp'[x].url = storeApp[x].url
                                    /\ storeApp'[x].active = storeApp[x].active
                                    /\ storeApp'[x].featured = storeApp[x].featured
    BY <1>3, <1>4, <1>5, <1>6, <1>7
  <1>10. Featurable' = Featurable /\ Featurable \subseteq Listed
    BY <1>9 DEF Featurable, Listed
  <1>11. SameFeatured
    BY <1>9, <1>10 DEF SameFeatured, Listed
  <1> QED BY <1>8, <1>11

LEMMA StoreKinds ==
  ASSUME CachesInv, NEW r \in Requests, StoreStep(r)
  PROVE  \/ Quiet(r) /\ (SameFeatured \/ Clearing("featured")') /\ storeApp' \in [StoreApps -> Rows]
         \/ StoreAnswer(r)
         \/ Clear(r)
  <1>1. Functions
    BY DEF CachesInv
  <1>i. Idle.op \notin {"clear", "invalidate"}
    BY DEF Idle
  <1>2. storeApp \in [StoreApps -> Rows]
    BY <1>1 DEF Functions
  <1>3. ASSUME ThenClear(r, "featured") PROVE Clearing("featured")'
    <2>1. req'[r] = [op |-> "clear", key |-> "featured"]
      BY <1>1, <1>3, GotoMoves DEF ThenClear
    <2> QED BY <2>1 DEF Clearing
  <1>4. ASSUME NEW k, Lookup(r, k) PROVE Quiet(r) /\ UNCHANGED storeApp
    BY <1>4, <1>i DEF Lookup, Quiet, storeVars
  <1>5. Query(r) => Quiet(r) /\ UNCHANGED storeApp
    BY DEF Query, Quiet, storeVars
  <1>6. ASSUME NEW c, NEW u, NEW f, CreateAppCheck(r, c, u, f) PROVE Quiet(r) /\ UNCHANGED storeApp
    BY <1>6, <1>i DEF CreateAppCheck, Quiet, storeVars
  <1>v. View(r) => Quiet(r) /\ SameFeatured /\ storeApp' \in [StoreApps -> Rows]
    <2>1. View(r) => Quiet(r)
      BY DEF View, Quiet
    <2> QED BY <2>1, ViewedIsSame
  <1>w. ASSUME NEW a, ViewCheck(r, a) PROVE Quiet(r) /\ UNCHANGED storeApp
    BY <1>w, <1>i DEF ViewCheck, Quiet, storeVars
  <1>7. ASSUME CreateApp(r)
        PROVE  Quiet(r) /\ Clearing("featured")' /\ storeApp' \in [StoreApps -> Rows]
    <2>1. ThenClear(r, "featured") /\ req[r].op = "create app"
      BY <1>7 DEF CreateApp
    <2>2. Quiet(r)
      BY <2>1 DEF Quiet, ThenClear
    <2>3. req[r].row \in Rows
      BY <2>1 DEF CachesInv, RequestsCarry, Carries, Rows
    <2>4. storeApp' \in [StoreApps -> Rows]
      BY <1>2, <1>7, <2>3 DEF CreateApp
    <2> QED BY <1>3, <2>1, <2>2, <2>4
  <1>8. ASSUME NEW a \in Listed, NEW row \in AppRows(a), UpdateApp(r, a, row)
        PROVE  Quiet(r) /\ Clearing("featured")' /\ storeApp' \in [StoreApps -> Rows]
    <2>1. ThenClear(r, "featured") /\ req[r] = Idle
      BY <1>8 DEF UpdateApp
    <2>2. Quiet(r)
      BY <2>1, <1>i DEF Quiet, ThenClear
    <2>3. row \in AppRow
      <3>1. storeApp[a] \in AppRow
        BY <1>2 DEF Listed, Rows
      <3>2. storeApp[a].popularity \in Int
        BY <3>1 DEF AppRow
      <3> QED BY <3>2, SomeApps DEF AppRows, AppRow
    <2>4. storeApp' \in [StoreApps -> Rows]
      BY <1>2, <1>8, <2>3 DEF UpdateApp, Rows
    <2> QED BY <1>3, <2>1, <2>2, <2>4
  <1>9. ASSUME NEW a, DeleteApp(r, a)
        PROVE  Quiet(r) /\ Clearing("featured")' /\ storeApp' \in [StoreApps -> Rows]
    <2>1. ThenClear(r, "featured") /\ req[r] = Idle
      BY <1>9 DEF DeleteApp
    <2>2. Quiet(r)
      BY <2>1, <1>i DEF Quiet, ThenClear
    <2>3. a \in StoreApps /\ storeApp[a] \in AppRow
      BY <1>2, <1>9 DEF DeleteApp, Listed, Rows
    <2>4. [storeApp[a] EXCEPT !.active = FALSE] \in Rows
      BY <2>3 DEF AppRow, Rows
    <2>5. storeApp' \in [StoreApps -> Rows]
      BY <1>2, <1>9, <2>3, <2>4 DEF DeleteApp
    <2> QED BY <1>3, <2>1, <2>2, <2>5
  <1>10. ASSUME NEW s, CreateCategoryCheck(r, s) PROVE Quiet(r) /\ UNCHANGED storeApp
    BY <1>10, <1>i DEF CreateCategoryCheck, Quiet, storeVars
  <1>11. CreateCategory(r) => Quiet(r) /\ UNCHANGED storeApp
    BY DEF CreateCategory, Quiet, ThenClear
  <1>12. ASSUME NEW c, NEW s, NEW b, UpdateCategoryCheck(r, c, s, b) PROVE Quiet(r) /\ UNCHANGED storeApp
    BY <1>12, <1>i DEF UpdateCategoryCheck, Quiet, storeVars
  <1>13. UpdateCategory(r) => Quiet(r) /\ UNCHANGED storeApp
    BY DEF UpdateCategory, Quiet, ThenClear
  <1>14. ASSUME NEW c, DeleteCategoryCheck(r, c) PROVE Quiet(r) /\ UNCHANGED storeApp
    BY <1>14, <1>i DEF DeleteCategoryCheck, Quiet, storeVars
  <1>15. DeleteCategory(r) => Quiet(r) /\ UNCHANGED storeApp
    BY DEF DeleteCategory, Quiet, ThenClear
  <1>16. AppsRequest(r) =>
           /\ Quiet(r) /\ (SameFeatured \/ Clearing("featured")')
           /\ storeApp' \in [StoreApps -> Rows]
    BY <1>2, <1>6, <1>v, <1>w, <1>7, <1>8, <1>9, SameStore DEF AppsRequest
  <1>17. CategoriesRequest(r) => Quiet(r) /\ UNCHANGED storeApp
    BY <1>10, <1>11, <1>12, <1>13, <1>14, <1>15 DEF CategoriesRequest
  <1> HIDE DEF Quiet
  <1> QED BY <1>2, <1>4, <1>5, <1>16, <1>17, SameStore DEF StoreStep

LEMMA TokenKinds ==
  ASSUME CachesInv, NEW r \in Requests, TokenStep(r)
  PROVE  \/ /\ Quiet(r) /\ preferred' = [p \in Profiles |-> preferred'[p]]
            /\ \A p \in Profiles : preferred'[p] = preferred[p] \/ Clearing(p)'
         \/ AnalyzeStore(r)
         \/ PreferInvalidate(r)
  <1>1. Functions
    BY DEF CachesInv
  <1>i. Idle.op \notin {"clear", "invalidate"}
    BY DEF Idle
  <1>2. preferred = [p \in Profiles |-> preferred[p]]
    BY <1>1 DEF Functions
  <1>3. ASSUME NEW p, AnalyzeLookup(r, p) PROVE Quiet(r) /\ UNCHANGED preferred
    BY <1>3, <1>i DEF AnalyzeLookup, Quiet, tokenVars
  <1>4. AnalyzePortfolio(r) => Quiet(r) /\ UNCHANGED preferred
    BY DEF AnalyzePortfolio, Quiet, tokenVars
  <1>5. AnalyzeScore(r) => Quiet(r) /\ UNCHANGED preferred
    BY DEF AnalyzeScore, Quiet, tokenVars
  <1>6. ASSUME NEW p \in Profiles, NEW t, PreferWrite(r, p, t)
        PROVE  /\ Quiet(r) /\ preferred' = [x \in Profiles |-> preferred'[x]]
               /\ \A x \in Profiles : preferred'[x] = preferred[x] \/ Clearing(x)'
    <2>1. req[r] = Idle /\ Goto(r, [op |-> "invalidate", profile |-> p])
      BY <1>6 DEF PreferWrite
    <2>2. Quiet(r)
      BY <1>6, <1>i DEF PreferWrite, Quiet
    <2>3. req'[r] = [op |-> "invalidate", profile |-> p]
      BY <1>1, <2>1, GotoMoves
    <2>4. Clearing(p)'
      BY <2>3 DEF Clearing
    <2>5. preferred' = [preferred EXCEPT ![p] = t]
      BY <1>6 DEF PreferWrite
    <2> QED BY <1>2, <2>2, <2>4, <2>5
  <1>7. ASSUME NEW tokens, IdsLookup(r, tokens) PROVE Quiet(r) /\ UNCHANGED preferred
    BY <1>7, <1>i DEF IdsLookup, Quiet, tokenVars
  <1>8. IdsFetch(r) => Quiet(r) /\ UNCHANGED preferred
    BY DEF IdsFetch, Quiet
  <1>9. UNCHANGED preferred =>
          /\ preferred' = [p \in Profiles |-> preferred'[p]]
          /\ \A p \in Profiles : preferred'[p] = preferred[p] \/ Clearing(p)'
    BY <1>2
  <1> HIDE DEF Quiet
  <1> QED BY <1>3, <1>4, <1>5, <1>6, <1>7, <1>8, <1>9 DEF TokenStep, GetGasTokens, SetPreferredGasToken

-----------------------------------------------------------------------------
(* Each part of the invariant.                                             *)

\* An entry that stays, while what it is compared with stays or is to be cleared.
LEMMA FeaturedKept ==
  ASSUME FeaturedCleared, cache'["featured"] = cache["featured"],
         "featured" \in late' <=> "featured" \in late,
         SameFeatured \/ Clearing("featured")',
         Clearing("featured") => Clearing("featured")'
  PROVE  FeaturedCleared'
  <1>1. CASE Clearing("featured")'
    BY <1>1 DEF FeaturedCleared
  <1>2. CASE "featured" \in late
    BY <1>2 DEF FeaturedCleared
  <1>3. CASE SameFeatured /\ ShowsFeatured
    <2>1. Featurable' = Featurable /\ \A a \in Featurable : storeApp'[a].url = storeApp[a].url
      BY <1>3 DEF SameFeatured
    <2>2. ASSUME NEW list, ListsFeatured(list) PROVE ListsFeatured(list)'
      BY <2>1, <2>2 DEF ListsFeatured, Fits
    <2>3. ShowsFeatured'
      BY <1>3, <2>2 DEF ShowsFeatured
    <2> QED BY <2>3 DEF FeaturedCleared
  <1> QED BY <1>1, <1>2, <1>3 DEF FeaturedCleared

\* What is queried is a full list of featured apps.
LEMMA FeaturedLists ==
  ASSUME NEW list \in Featured
  PROVE  ListsFeatured(list)
  <1> DEFINE row(a) == [app |-> a, url |-> storeApp[a].url, popularity |-> storeApp[a].popularity,
                        slug |-> category[storeApp[a].category].slug]
  <1>1. PICK top \in SUBSET Featurable : Fits(top) /\ list = {row(a) : a \in top}
    BY DEF Featured
  <1>2. \A a : row(a).app = a /\ row(a).url = storeApp[a].url
    OBVIOUS
  <1> HIDE DEF row
  <1>3. \A x \in list : x.app \in Featurable /\ x.url = storeApp[x.app].url
    BY <1>1, <1>2
  <1>4. Cardinality(list) = Cardinality(top)
    <2> DEFINE f == [a \in top |-> row(a)]
    <2>1. IsFiniteSet(top)
      <3>1. top \subseteq StoreApps
        BY <1>1 DEF Featurable, Listed
      <3> QED BY <3>1, SomeApps, FS_Subset
    <2>2. f \in Bijection(top, list)
      BY <1>1, <1>2 DEF Bijection, Injection, Surjection, IsInjective
    <2> HIDE DEF f
    <2> QED BY <2>1, <2>2, FS_Bijection DEF ExistsBijection
  <1> QED BY <1>1, <1>3, <1>4 DEF ListsFeatured, Fits

LEMMA FeaturedGone ==
  ASSUME cache'["featured"] = NoEntry \/ "featured" \in late'
  PROVE  FeaturedCleared'
  BY DEF FeaturedCleared, ShowsFeatured

\* The same of one profile's analysis.
ProfileCleared(p) == Right(p) \/ p \in late \/ Clearing(p)

LEMMA ProfileKept ==
  ASSUME NEW p \in Profiles, ProfileCleared(p), cache'[p] = cache[p],
         p \in late' <=> p \in late,
         preferred'[p] = preferred[p] \/ Clearing(p)',
         Clearing(p) => Clearing(p)'
  PROVE  ProfileCleared(p)'
  <1>1. CASE Clearing(p)'
    BY <1>1 DEF ProfileCleared
  <1>2. CASE p \in late
    BY <1>2 DEF ProfileCleared
  <1>3. CASE preferred'[p] = preferred[p] /\ Right(p)
    <2>1. Right(p)'
      BY <1>3 DEF Right, Agrees
    <2> QED BY <2>1 DEF ProfileCleared
  <1> QED BY <1>1, <1>2, <1>3 DEF ProfileCleared

LEMMA ProfileGone ==
  ASSUME NEW p \in Profiles, cache'[p] = NoEntry \/ p \in late'
  PROVE  ProfileCleared(p)'
  BY DEF ProfileCleared, Right

\* What is cached for a profile was suggested by the rule.
Suggests(entry) ==
  entry # NoEntry =>
      \/ entry.value.suggested \in Native \union {NoToken, entry.value.preference}
      \/ entry.value.available \intersect Native = {}

LEMMA InvParts ==
  /\ PreferenceCleared <=> \A p \in Profiles : ProfileCleared(p)
  /\ NativeUnlessPreferred <=> \A p \in Profiles : Suggests(cache[p])
  /\ PreferenceCleared' <=> \A p \in Profiles : ProfileCleared(p)'
  /\ NativeUnlessPreferred' <=> \A p \in Profiles : Suggests(cache'[p])
  BY DEF PreferenceCleared, ProfileCleared, NativeUnlessPreferred, Suggests

Parts == Functions /\ FeaturedCleared /\ PreferenceCleared /\ NativeUnlessPreferred

\* Quiet steps of either service.
LEMMA QuietKeeps ==
  ASSUME CachesInv, NEW r \in Requests, Quiet(r),
         SameFeatured \/ Clearing("featured")',
         storeApp' \in [StoreApps -> Rows],
         preferred' = [p \in Profiles |-> preferred'[p]],
         \A p \in Profiles : preferred'[p] = preferred[p] \/ Clearing(p)'
  PROVE  Parts'
  <1>1. PICK q : Goto(r, q)
    BY DEF Quiet
  <1>2. Functions /\ cache' = cache /\ late' = late
    BY DEF CachesInv, Quiet
  <1>3. ASSUME NEW k, Clearing(k) PROVE Clearing(k)'
    BY <1>1, <1>2, <1>3, StillClearing DEF Quiet
  <1>4. Functions'
    <2>1. req' = [x \in Requests |-> req'[x]]
      BY <1>1, <1>2, GotoMoves
    <2> QED BY <1>2, <2>1 DEF Functions
  <1>5. FeaturedCleared'
    BY <1>2, <1>3, FeaturedKept DEF CachesInv
  <1>6. \A p \in Profiles : ProfileCleared(p)'
    BY <1>2, <1>3, ProfileKept, InvParts DEF CachesInv
  <1>7. NativeUnlessPreferred'
    BY <1>2, InvParts DEF CachesInv
  <1> QED BY <1>4, <1>5, <1>6, <1>7, InvParts DEF Parts

LEMMA StoreAnswerKeeps ==
  ASSUME CachesInv, NEW r \in Requests, StoreAnswer(r), UNCHANGED tokenVars
  PROVE  Parts'
  <1> DEFINE k == req[r].key
             right == Holds(k, req[r].list)
  <1>1. /\ req[r].op = "answer" /\ Set(k, req[r].list, CACHE_TTL, right)
        /\ Goto(r, Done) /\ UNCHANGED storeApp /\ UNCHANGED category /\ UNCHANGED preferred
    BY DEF StoreAnswer, storeVars, tokenVars
  <1>2. Functions
    BY DEF CachesInv
  <1>3. k \in {"featured", "categories"} /\ k \in Keys /\ k \notin Profiles
    BY <1>1, KeyKinds DEF CachesInv, RequestsCarry, Carries
  <1>4. /\ cache' = [j \in Keys |-> cache'[j]]
        /\ \A j \in Keys : j # k => cache'[j] = cache[j] /\ (j \in late' <=> j \in late)
        /\ \/ cache'[k] = Entry(req[r].list, CACHE_TTL) /\ (right \/ k \in late')
           \/ cache' = cache /\ late' = late
    <2>1. right \in BOOLEAN
      BY DEF Holds, ListsFeatured, Fits
    <2> HIDE DEF k, right
    <2> QED BY <1>1, <1>2, <1>3, <2>1, Stored
  <1>5. ASSUME NEW j, Clearing(j) PROVE Clearing(j)'
    BY <1>1, <1>2, <1>5, StillClearing
  <1>6. Functions'
    <2>1. req' = [x \in Requests |-> req'[x]]
      BY <1>1, <1>2, GotoMoves
    <2> QED BY <1>1, <1>2, <1>4, <2>1 DEF Functions
  <1>7. FeaturedCleared'
    <2>1. CASE k # "featured" \/ (cache' = cache /\ late' = late)
      <3>1. cache'["featured"] = cache["featured"] /\ ("featured" \in late' <=> "featured" \in late)
        BY <1>4, <2>1, KeyKinds
      <3> QED BY <1>1, <1>5, <3>1, FeaturedKept, SameStore DEF CachesInv
    <2>2. CASE k = "featured" /\ k \in late'
      BY <2>2, FeaturedGone
    <2>3. CASE k = "featured" /\ cache'[k] = Entry(req[r].list, CACHE_TTL) /\ right
      <3>1. cache'["featured"].value = req[r].list
        BY <2>3, EntryHolds
      <3>2. ListsFeatured(req[r].list)
        BY <2>3, FeaturedLists DEF Holds, Answers
      <3>3. PICK list : list = req[r].list
        OBVIOUS
      <3>4. ListsFeatured(list)'
        BY <1>1, <3>2, <3>3 DEF ListsFeatured, Fits, Featurable, Listed
      <3>5. ShowsFeatured'
        BY <3>1, <3>3, <3>4 DEF ShowsFeatured
      <3> QED BY <3>5 DEF FeaturedCleared
    <2> QED BY <1>4, <2>1, <2>2, <2>3
  <1>8. ASSUME NEW p \in Profiles
        PROVE  cache'[p] = cache[p] /\ (p \in late' <=> p \in late)
    BY <1>3, <1>4, KeyKinds
  <1>9. \A p \in Profiles : ProfileCleared(p)'
    BY <1>1, <1>5, <1>8, ProfileKept, InvParts DEF CachesInv
  <1>10. NativeUnlessPreferred'
    BY <1>8, InvParts DEF CachesInv
  <1> QED BY <1>6, <1>7, <1>9, <1>10, InvParts DEF Parts

LEMMA ClearKeeps ==
  ASSUME CachesInv, NEW r \in Requests, Clear(r), UNCHANGED tokenVars
  PROVE  Parts'
  <1> DEFINE k == req[r].key
  <1>1. /\ req[r].op = "clear" /\ Delete(k)
        /\ Goto(r, Done) /\ UNCHANGED storeApp /\ UNCHANGED preferred
    BY DEF Clear, storeVars, tokenVars
  <1>2. Functions
    BY DEF CachesInv
  <1>3. k \in {"featured", "categories"} /\ k \in Keys /\ k \notin Profiles
    BY <1>1, KeyKinds DEF CachesInv, RequestsCarry, Carries
  <1>4. /\ cache' = [j \in Keys |-> cache'[j]]
        /\ \A j \in Keys : j # k => cache'[j] = cache[j] /\ (j \in late' <=> j \in late)
        /\ cache'[k] = NoEntry \/ k \in late'
    <2> HIDE DEF k
    <2> QED BY <1>1, <1>2, <1>3, Deleted
  <1>5. ASSUME NEW j, j # k, Clearing(j) PROVE Clearing(j)'
    BY <1>1, <1>2, <1>5, StillClearing
  <1>6. Functions'
    <2>1. req' = [x \in Requests |-> req'[x]]
      BY <1>1, <1>2, GotoMoves
    <2> QED BY <1>1, <1>2, <1>4, <2>1 DEF Functions
  <1>7. FeaturedCleared'
    <2>1. CASE k # "featured"
      <3>1. cache'["featured"] = cache["featured"] /\ ("featured" \in late' <=> "featured" \in late)
        BY <1>4, <2>1, KeyKinds
      <3> QED BY <1>1, <1>5, <2>1, <3>1, FeaturedKept, SameStore DEF CachesInv
    <2>2. CASE k = "featured"
      BY <1>4, <2>2, FeaturedGone
    <2> QED BY <2>1, <2>2
  <1>8. ASSUME NEW p \in Profiles
        PROVE  p # k /\ cache'[p] = cache[p] /\ (p \in late' <=> p \in late)
    BY <1>3, <1>4, KeyKinds
  <1>9. \A p \in Profiles : ProfileCleared(p)'
    BY <1>1, <1>5, <1>8, ProfileKept, InvParts DEF CachesInv
  <1>10. NativeUnlessPreferred'
    BY <1>8, InvParts DEF CachesInv
  <1> QED BY <1>6, <1>7, <1>9, <1>10, InvParts DEF Parts

LEMMA AnalyzeStoreKeeps ==
  ASSUME CachesInv, NEW r \in Requests, AnalyzeStore(r), UNCHANGED storeVars
  PROVE  Parts'
  <1> DEFINE k == req[r].profile
             analysis(t) == [suggested |-> t, available |-> DOMAIN req[r].scores,
                             preference |-> req[r].choice]
  <1>1. /\ req[r].op = "score"
        /\ Goto(r, Done) /\ UNCHANGED storeApp /\ UNCHANGED preferred
    BY DEF AnalyzeStore, storeVars, tokenVars
  <1>2. PICK t \in Suggested(req[r].scores, req[r].choice) :
          Set(k, analysis(t), DEFAULT_GAS_ANALYSIS_TTL, Agrees(k, analysis(t)))
    BY DEF AnalyzeStore
  <1>3. Functions
    BY DEF CachesInv
  <1>4. /\ k \in Profiles /\ k \in Keys /\ k # "featured"
        /\ req[r].portfolio \in Portfolios /\ Scored(req[r].scores, req[r].portfolio)
    BY <1>1, KeyKinds DEF CachesInv, RequestsCarry, Carries
  <1> DEFINE entry == Entry(analysis(t), DEFAULT_GAS_ANALYSIS_TTL)
  <1>5. /\ cache' = [j \in Keys |-> cache'[j]]
        /\ \A j \in Keys : j # k => cache'[j] = cache[j] /\ (j \in late' <=> j \in late)
        /\ \/ cache'[k] = entry /\ (Agrees(k, analysis(t)) \/ k \in late')
           \/ cache' = cache /\ late' = late
    <2>1. Agrees(k, analysis(t)) \in BOOLEAN
      BY DEF Agrees
    <2> HIDE DEF k, analysis
    <2> QED BY <1>2, <1>3, <1>4, <2>1, Stored
  <1>6. ASSUME NEW j, Clearing(j) PROVE Clearing(j)'
    BY <1>1, <1>3, <1>6, StillClearing
  <1>7. Functions'
    <2>1. req' = [x \in Requests |-> req'[x]]
      BY <1>1, <1>3, GotoMoves
    <2> QED BY <1>1, <1>3, <1>5, <2>1 DEF Functions
  <1>8. FeaturedCleared'
    <2>1. cache'["featured"] = cache["featured"] /\ ("featured" \in late' <=> "featured" \in late)
      BY <1>4, <1>5, KeyKinds
    <2> QED BY <1>1, <1>6, <2>1, FeaturedKept, SameStore DEF CachesInv
  <1>9. entry.value = analysis(t)
    BY EntryHolds
  <1>10. ASSUME NEW p \in Profiles PROVE ProfileCleared(p)' /\ Suggests(cache'[p])
    <2>1. p \in Keys
      BY KeyKinds
    <2>2. ProfileCleared(p) /\ Suggests(cache[p])
      BY InvParts DEF CachesInv
    <2>3. CASE p # k \/ (cache' = cache /\ late' = late)
      <3>1. cache'[p] = cache[p] /\ (p \in late' <=> p \in late)
        BY <1>5, <2>1, <2>3
      <3>2. ProfileCleared(p)'
        BY <1>1, <1>6, <2>2, <3>1, ProfileKept
      <3> QED BY <2>2, <3>1, <3>2
    <2>4. CASE p = k /\ cache'[k] = entry /\ (Agrees(k, analysis(t)) \/ k \in late')
      <3>1. ProfileCleared(p)'
        <4>1. CASE k \in late'
          BY <2>4, <4>1, ProfileGone
        <4>2. CASE Agrees(k, analysis(t))
          <5>1. cache'[p].value = analysis(t)
            BY <1>9, <2>4
          <5>2. PICK v : v = analysis(t)
            OBVIOUS
          <5>3. Right(p)'
            <6>1. Agrees(k, v) /\ cache'[p].value = v /\ preferred' = preferred
              BY <1>1, <4>2, <5>1, <5>2
            <6> HIDE DEF analysis, entry
            <6> QED BY <2>4, <6>1 DEF Right, Agrees
          <5> QED BY <5>3 DEF ProfileCleared
        <4> QED BY <2>4, <4>1, <4>2
      <3>2. Suggests(entry)
        <4>1. \/ t \in Native \union {NoToken, req[r].choice}
              \/ DOMAIN req[r].scores \intersect Native = {}
          BY <1>2, <1>4, SuggestsNative
        <4>2. /\ analysis(t).suggested = t /\ analysis(t).preference = req[r].choice
              /\ analysis(t).available = DOMAIN req[r].scores
          OBVIOUS
        <4> HIDE DEF analysis, entry
        <4> QED BY <1>9, <4>1, <4>2 DEF Suggests
      <3> QED BY <2>4, <3>1, <3>2
    <2> QED BY <1>5, <2>3, <2>4
  <1> QED BY <1>7, <1>8, <1>10, InvParts DEF Parts

LEMMA InvalidateKeeps ==
  ASSUME CachesInv, NEW r \in Requests, PreferInvalidate(r), UNCHANGED storeVars
  PROVE  Parts'
  <1> DEFINE k == req[r].profile
  <1>1. /\ req[r].op = "invalidate" /\ Delete(k)
        /\ Goto(r, Done) /\ UNCHANGED storeApp /\ UNCHANGED preferred
    BY DEF PreferInvalidate, storeVars, tokenVars
  <1>2. Functions
    BY DEF CachesInv
  <1>3. k \in Profiles /\ k \in Keys /\ k # "featured"
    BY <1>1, KeyKinds DEF CachesInv, RequestsCarry, Carries
  <1>4. /\ cache' = [j \in Keys |-> cache'[j]]
        /\ \A j \in Keys : j # k => cache'[j] = cache[j] /\ (j \in late' <=> j \in late)
        /\ cache'[k] = NoEntry \/ (k \in late' /\ cache'[k] = cache[k])
    <2> HIDE DEF k
    <2> QED BY <1>1, <1>2, <1>3, Deleted
  <1>5. ASSUME NEW j, j # k, Clearing(j) PROVE Clearing(j)'
    BY <1>1, <1>2, <1>5, StillClearing
  <1>6. Functions'
    <2>1. req' = [x \in Requests |-> req'[x]]
      BY <1>1, <1>2, GotoMoves
    <2> QED BY <1>1, <1>2, <1>4, <2>1 DEF Functions
  <1>7. FeaturedCleared'
    <2>1. cache'["featured"] = cache["featured"] /\ ("featured" \in late' <=> "featured" \in late)
      BY <1>3, <1>4, KeyKinds
    <2> QED BY <1>1, <1>3, <1>5, <2>1, FeaturedKept, SameStore DEF CachesInv
  <1>8. ASSUME NEW p \in Profiles PROVE ProfileCleared(p)' /\ Suggests(cache'[p])
    <2>1. p \in Keys /\ ProfileCleared(p) /\ Suggests(cache[p])
      BY KeyKinds, InvParts DEF CachesInv
    <2>2. CASE p # k
      <3>1. cache'[p] = cache[p] /\ (p \in late' <=> p \in late)
        BY <1>4, <2>1, <2>2
      <3>2. ProfileCleared(p)'
        BY <1>1, <1>5, <2>1, <2>2, <3>1, ProfileKept
      <3> QED BY <2>1, <3>1, <3>2
    <2>3. CASE p = k
      <3>1. ProfileCleared(p)'
        BY <1>4, <2>3, ProfileGone
      <3>2. Suggests(cache'[p])
        BY <1>4, <2>1, <2>3 DEF Suggests
      <3> QED BY <3>1, <3>2
    <2> QED BY <2>2, <2>3
  <1> QED BY <1>6, <1>7, <1>8, InvParts DEF Parts

LEMMA ExpireKeeps ==
  ASSUME CachesInv, NEW k \in Keys, Expire(k), UNCHANGED <<storeVars, tokenVars>>
  PROVE  Parts'
  <1>1. UNCHANGED <<req, storeApp, preferred>>
    BY DEF Expire, storeVars, tokenVars
  <1>2. Functions
    BY DEF CachesInv
  <1>3. /\ cache' = [j \in Keys |-> cache'[j]]
        /\ \A j \in Keys : j # k => cache'[j] = cache[j] /\ (j \in late' <=> j \in late)
        /\ cache'[k] = NoEntry
    BY <1>2, Expired
  <1>4. \A j : Clearing(j) => Clearing(j)'
    BY <1>1 DEF Clearing
  <1>5. Functions'
    BY <1>1, <1>2, <1>3 DEF Functions
  <1>6. FeaturedCleared'
    <2>1. CASE k = "featured"
      BY <1>3, <2>1, FeaturedGone
    <2>2. CASE k # "featured"
      <3>1. cache'["featured"] = cache["featured"] /\ ("featured" \in late' <=> "featured" \in late)
        BY <1>3, <2>2, KeyKinds
      <3> QED BY <1>1, <1>4, <3>1, FeaturedKept, SameStore DEF CachesInv
    <2> QED BY <2>1, <2>2
  <1>7. ASSUME NEW p \in Profiles PROVE ProfileCleared(p)' /\ Suggests(cache'[p])
    <2>1. p \in Keys /\ ProfileCleared(p) /\ Suggests(cache[p])
      BY KeyKinds, InvParts DEF CachesInv
    <2>2. CASE p = k
      <3>1. ProfileCleared(p)'
        BY <1>3, <2>2, ProfileGone
      <3> QED BY <1>3, <2>2, <3>1 DEF Suggests
    <2>3. CASE p # k
      <3>1. cache'[p] = cache[p] /\ (p \in late' <=> p \in late)
        BY <1>3, <2>1, <2>3
      <3>2. ProfileCleared(p)'
        BY <1>1, <1>4, <2>1, <3>1, ProfileKept
      <3> QED BY <2>1, <3>1, <3>2
    <2> QED BY <2>2, <2>3
  <1> QED BY <1>5, <1>6, <1>7, InvParts DEF Parts

\* Nothing that the invariant speaks of changes.
LEMMA RestKeeps ==
  ASSUME CachesInv, UNCHANGED <<cache, req, late, storeApp, preferred>>
  PROVE  Parts'
  <1>1. \A j : Clearing(j) => Clearing(j)'
    BY DEF Clearing
  <1>2. Functions'
    BY DEF CachesInv, Functions
  <1>3. FeaturedCleared'
    BY <1>1, FeaturedKept, SameStore DEF CachesInv
  <1>4. \A p \in Profiles : ProfileCleared(p)'
    BY <1>1, ProfileKept, InvParts DEF CachesInv
  <1>5. NativeUnlessPreferred'
    BY InvParts DEF CachesInv
  <1> QED BY <1>2, <1>3, <1>4, <1>5, InvParts DEF Parts

-----------------------------------------------------------------------------
(* The theorems.                                                           *)

LEMMA StartInv == Init => CachesInv
  <1> SUFFICES ASSUME Init PROVE CachesInv
    OBVIOUS
  <1>1. cache = [k \in Keys |-> NoEntry] /\ req = [r \in Requests |-> Idle]
    BY DEF Init, CacheInit
  <1>2. preferred = [p \in Profiles |-> preferred[p]]
    BY DEF Init, TokenInit
  <1>3. storeApp \in [StoreApps -> Rows]
    <2>1. CASE storeApp = [a \in StoreApps |-> NoApp]
      BY <2>1 DEF Rows
    <2>2. ASSUME NEW c \in Categories, NEW of \in SUBSET StoreApps,
                 NEW u \in [StoreApps -> Urls],
                 storeApp = [x \in StoreApps |->
                     IF x \in of
                     THEN [category |-> c, url |-> u[x], active |-> TRUE, featured |-> TRUE,
                           popularity |-> 0]
                     ELSE NoApp]
          PROVE  storeApp \in [StoreApps -> Rows]
      <3>1. \A x \in StoreApps :
              [category |-> c, url |-> u[x], active |-> TRUE, featured |-> TRUE,
               popularity |-> 0] \in AppRow
        BY DEF AppRow
      <3>2. \A x \in StoreApps : storeApp[x] \in Rows
        BY <2>2, <3>1 DEF Rows
      <3> QED BY <2>2, <3>2
    <2> QED BY <2>1, <2>2 DEF Init, StoreInit
  <1>4. Functions
    BY <1>1, <1>2, <1>3 DEF Functions
  <1>5. Carries(Idle)
    BY DEF Carries, Idle
  <1>6. RequestsCarry
    BY <1>1, <1>5 DEF RequestsCarry
  <1>7. FeaturedCleared
    BY <1>1, KeyKinds DEF FeaturedCleared, ShowsFeatured
  <1>8. \A p \in Profiles : ProfileCleared(p) /\ Suggests(cache[p])
    BY <1>1, KeyKinds DEF ProfileCleared, Right, Suggests
  <1> QED BY <1>4, <1>6, <1>7, <1>8, InvParts DEF CachesInv

LEMMA StepInv == CachesInv /\ [Next]_vars => CachesInv'
  <1> SUFFICES ASSUME CachesInv, [Next]_vars PROVE CachesInv'
    OBVIOUS
  <1>1. RequestsCarry'
    BY CarriesKept
  <1>2. UNCHANGED tokenVars => UNCHANGED preferred
    BY DEF tokenVars
  <1>3. UNCHANGED storeVars => UNCHANGED storeApp
    BY DEF storeVars
  <1>4. /\ storeApp \in [StoreApps -> Rows]
        /\ preferred = [p \in Profiles |-> preferred[p]]
    BY DEF CachesInv, Functions
  <1>5. ASSUME NEW r \in Requests, StoreStep(r), UNCHANGED tokenVars PROVE Parts'
    <2>1. CASE StoreAnswer(r)
      BY <1>5, <2>1, StoreAnswerKeeps
    <2>2. CASE Clear(r)
      BY <1>5, <2>2, ClearKeeps
    <2>3. CASE /\ Quiet(r) /\ (SameFeatured \/ Clearing("featured")')
               /\ storeApp' \in [StoreApps -> Rows]
      <3>1. /\ preferred' = [p \in Profiles |-> preferred'[p]]
            /\ \A p \in Profiles : preferred'[p] = preferred[p] \/ Clearing(p)'
        BY <1>2, <1>4, <1>5
      <3> QED BY <2>3, <3>1, QuietKeeps
    <2> QED BY <1>5, <2>1, <2>2, <2>3, StoreKinds
  <1>6. ASSUME NEW r \in Requests, TokenStep(r), UNCHANGED storeVars PROVE Parts'
    <2>1. CASE AnalyzeStore(r)
      BY <1>6, <2>1, AnalyzeStoreKeeps
    <2>2. CASE PreferInvalidate(r)
      BY <1>6, <2>2, InvalidateKeeps
    <2>3. CASE /\ Quiet(r) /\ preferred' = [p \in Profiles |-> preferred'[p]]
               /\ \A p \in Profiles : preferred'[p] = preferred[p] \/ Clearing(p)'
      <3>1. UNCHANGED storeApp /\ storeApp' \in [StoreApps -> Rows]
        BY <1>3, <1>4, <1>6
      <3> QED BY <2>3, <3>1, QuietKeeps, SameStore
    <2> QED BY <1>6, <2>1, <2>2, <2>3, TokenKinds
  <1>7. ASSUME NEW k \in Keys, Expire(k), UNCHANGED <<storeVars, tokenVars>> PROVE Parts'
    BY <1>7, ExpireKeeps
  <1>8. ASSUME NEW t, IdsExpire(t), UNCHANGED storeVars PROVE Parts'
    <2>1. UNCHANGED <<cache, req, late, storeApp, preferred>>
      BY <1>3, <1>8 DEF IdsExpire, cacheVars
    <2> QED BY <2>1, RestKeeps
  <1>9. ASSUME RedisChanges, UNCHANGED <<storeVars, tokenVars>> PROVE Parts'
    <2>1. UNCHANGED <<cache, req, late, storeApp, preferred>>
      BY <1>2, <1>3, <1>9 DEF RedisChanges
    <2> QED BY <2>1, RestKeeps
  <1>10. ASSUME UNCHANGED vars PROVE Parts'
    <2>1. UNCHANGED <<cache, req, late, storeApp, preferred>>
      BY <1>10 DEF vars, cacheVars, storeVars, tokenVars
    <2> QED BY <2>1, RestKeeps
  <1>11. Parts'
    BY <1>5, <1>6, <1>7, <1>8, <1>9, <1>10 DEF Next
  <1> QED BY <1>1, <1>11 DEF CachesInv, Parts

LEMMA CachesInvariance == Spec => []CachesInv
  BY StartInv, StepInv, PTL DEF Spec

\* Whoever finds the featured apps in the cache finds as many as are listed, all of
\* them active, featured and with the URL they have, unless a writer has yet to clear
\* them, a reader stored what a writer had overtaken, or Redis lost a deletion: no
\* other path of getFeaturedApps, of the writers of apps and of getAppById, which
\* clears nothing, leaves them stale, for any limit and any popularity.
THEOREM FeaturedIsCleared == Spec => []FeaturedCleared
  <1>1. CachesInv => FeaturedCleared
    BY DEF CachesInv
  <1> QED BY <1>1, CachesInvariance, PTL

\* The same of a profile's gas tokens and setPreferredGasToken.
THEOREM PreferenceIsCleared == Spec => []PreferenceCleared
  <1>1. CachesInv => PreferenceCleared
    BY DEF CachesInv
  <1> QED BY <1>1, CachesInvariance, PTL

\* Whatever a portfolio holds and past operations paid with, analyzeGasTokens suggests
\* a token that cannot pay gas only as preferred or for want of another: 2 * 99 of the
\* balance and 3 * 100 of the preference stay below the bonus of 500.
THEOREM SuggestedIsNative == Spec => []NativeUnlessPreferred
  <1>1. CachesInv => NativeUnlessPreferred
    BY DEF CachesInv
  <1> QED BY <1>1, CachesInvariance, PTL

\* getStandardizedTokenIds answers the id of every token at the token's position,
\* for any list and any part of it in the cache.
THEOREM IdsAreInOrder == Spec => []IdsInOrder
  <1>1. CachesInv => IdsInOrder
    BY DEF CachesInv, RequestsCarry, Carries, IdsInOrder
  <1> QED BY <1>1, CachesInvariance, PTL
=============================================================================
