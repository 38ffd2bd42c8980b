----------------------------- MODULE TokenCaches ----------------------------
(***************************************************************************)
(* Two more users of the cache: the gas tokens of a profile, analysed from *)
(* its portfolio, its preference and its past operations and cached for    *)
(* ten minutes, and the standardized ids of tokens, cached for a day.      *)
(***************************************************************************)
EXTENDS Cache

CONSTANTS
    Profiles,
    Tokens, Native,  \* the tokens, and those that pay gas on their chain
    Amounts,         \* raw amounts a portfolio may hold of a token
    Usages,          \* preference scores that past operations may give
    Asked            \* lists of tokens whose ids are asked for

ASSUME SomeTokens ==
    /\ IsFiniteSet(Tokens) /\ Native \subseteq Tokens
    /\ Amounts \subseteq Nat /\ Usages \subseteq 0..100
    /\ Asked \subseteq Seq(Tokens)

VARIABLES
    preferred,  \* the PreferredGasToken row of each profile
    known       \* tokens whose standardized id is cached

tokenVars == <<preferred, known>>

NoToken == "none"
DEFAULT_GAS_ANALYSIS_TTL == 600

TokenInit ==
    /\ preferred = [p \in Profiles |-> NoToken]
    /\ known = {}

-----------------------------------------------------------------------------
\* analyzeGasTokens.  A score is ten times the one of the code.

Total(portfolio) ==
    LET sum[S \in SUBSET Tokens] ==
            IF S = {} THEN 0
            ELSE LET t == CHOOSE t \in S : TRUE IN portfolio[t] + sum[S \ {t}]
    IN sum[Tokens]

\* A mutation: the native tokens get no bonus.
ScoreWithoutBonus(t, portfolio, preference) ==
    2 * ((portfolio[t] * 100) \div Total(portfolio)) + 3 * preference

Score(t, portfolio, preference) ==
    2 * ((portfolio[t] * 100) \div Total(portfolio))
        + (IF t \in Native THEN 500 ELSE 0) + 3 * preference

\* The portfolio's order, and so the first of equal scores, is Orby's.
Suggested(scores, choice) ==
    IF choice \in DOMAIN scores THEN {choice}
    ELSE IF scores = <<>> THEN {NoToken}
    ELSE {t \in DOMAIN scores : \A u \in DOMAIN scores : scores[t] >= scores[u]}

AnalyzeLookup(r, p) ==
    /\ req[r] = Idle
    /\ Goto(r, IF Get(p) # NoEntry THEN Done ELSE [op |-> "portfolio", profile |-> p])
    /\ UNCHANGED <<cache, late>> /\ UNCHANGED tokenVars

\* What Orby may answer for the accounts of the profile.
Portfolios == [Tokens -> Amounts]

\* Orby answers; then the preference is read.
AnalyzePortfolio(r) ==
    /\ req[r].op = "portfolio"
    /\ \E portfolio \in Portfolios :
        Goto(r, [op |-> "score", profile |-> req[r].profile, portfolio |-> portfolio,
                 choice |-> preferred[req[r].profile], scores |-> <<>>])
    /\ UNCHANGED <<cache, late>> /\ UNCHANGED tokenVars

Held(portfolio) == {t \in Tokens : portfolio[t] > 0}
Unscored(r) == Held(req[r].portfolio) \ DOMAIN req[r].scores

\* Full for the token preferred now, else the share of past operations it paid for.
PreferenceScores(p, t) == IF preferred[p] = t THEN {100} ELSE Usages

\* Each token held is scored with the preference as it is then.
AnalyzeScore(r) ==
    /\ req[r].op = "score"
    /\ \E t \in Unscored(r) :
        \E n \in PreferenceScores(req[r].profile, t) :
            Goto(r, [req[r] EXCEPT !.scores =
                [u \in {t} \union DOMAIN @ |->
                    IF u = t THEN Score(t, req[r].portfolio, n) ELSE @[u]]])
    /\ UNCHANGED <<cache, late>> /\ UNCHANGED tokenVars

\* Does an analysis go with the preference as it is now
Agrees(p, analysis) ==
    preferred[p] \in analysis.available => analysis.suggested = preferred[p]

AnalyzeStore(r) ==
    /\ req[r].op = "score" /\ Unscored(r) = {}
    /\ \E t \in Suggested(req[r].scores, req[r].choice) :
        LET p == req[r].profile
            analysis == [suggested |-> t, available |-> DOMAIN req[r].scores,
                         preference |-> req[r].choice] IN
        Set(p, analysis, DEFAULT_GAS_ANALYSIS_TTL, Agrees(p, analysis))
    /\ Goto(r, Done)
    /\ UNCHANGED tokenVars

\* A mutation: the analysis is kept.
PreferWriteKeepsAnalysis(r, p, t) ==
    /\ req[r] = Idle
    /\ preferred' = [preferred EXCEPT ![p] = t]
    /\ Goto(r, Done)
    /\ UNCHANGED <<cache, late, known>>

\* setPreferredGasToken: the row is written, then the analysis dropped.
PreferWrite(r, p, t) ==
    /\ req[r] = Idle
    /\ preferred' = [preferred EXCEPT ![p] = t]
    /\ Goto(r, [op |-> "invalidate", profile |-> p])
    /\ UNCHANGED <<cache, late, known>>

PreferInvalidate(r) ==
    /\ req[r].op = "invalidate"
    /\ Delete(req[r].profile)
    /\ Goto(r, Done)
    /\ UNCHANGED tokenVars

-----------------------------------------------------------------------------
\* getStandardizedTokenIds.  The id of a token is written as the token.

\* The tokens the cache does not know, in order, of the first i that are asked for.
Pushed(tokens, cached) ==
    LET upTo[i \in 0..Len(tokens)] ==
            IF i = 0 THEN <<>>
            ELSE IF tokens[i] \in cached THEN upTo[i - 1] ELSE Append(upTo[i - 1], tokens[i])
    IN upTo
Uncached(tokens, cached) == Pushed(tokens, cached)[Len(tokens)]

\* A mutation: the fetched ids are taken by the position in the request.
MergeByPosition(tokens, cached, fetched) ==
    [i \in DOMAIN tokens |->
        IF tokens[i] \in cached THEN tokens[i]
        ELSE IF i \in DOMAIN fetched THEN fetched[i] ELSE NoToken]

\* The n-th position that is not filled takes the n-th id fetched.
Merge(tokens, cached, fetched) ==
    [i \in DOMAIN tokens |->
        IF tokens[i] \in cached THEN tokens[i]
        ELSE fetched[Len(Pushed(tokens, cached)[i])]]

CachedTokenIds == withRedis(known, {})

IdsLookup(r, tokens) ==
    /\ req[r] = Idle
    /\ Goto(r, [op |-> "ids", tokens |-> tokens,
                cached |-> {t \in CachedTokenIds : \E i \in DOMAIN tokens : tokens[i] = t}])
    /\ UNCHANGED <<cache, late>> /\ UNCHANGED tokenVars

\* Orby names them in the order asked, which the cache then keeps.
IdsFetch(r) ==
    /\ req[r].op = "ids"
    /\ LET fetched == Uncached(req[r].tokens, req[r].cached) IN
        /\ known' = known \union withRedis({fetched[i] : i \in DOMAIN fetched}, {})
        /\ Goto(r, [op |-> "ids answered", tokens |-> req[r].tokens,
                    ids |-> Merge(req[r].tokens, req[r].cached, fetched)])
    /\ UNCHANGED <<cache, late, preferred>>

IdsExpire(t) ==
    /\ t \in known
    /\ known' = known \ {t}
    /\ UNCHANGED cacheVars /\ UNCHANGED preferred

GetGasTokens(r) ==
    \/ \E p \in Profiles : AnalyzeLookup(r, p)
    \/ AnalyzePortfolio(r) \/ AnalyzeScore(r) \/ AnalyzeStore(r)

SetPreferredGasToken(r) ==
    \/ \E p \in Profiles, t \in Tokens : PreferWrite(r, p, t)
    \/ PreferInvalidate(r)

TokenStep(r) ==
    \/ GetGasTokens(r) \/ SetPreferredGasToken(r)
    \/ \E tokens \in Asked : IdsLookup(r, tokens)
    \/ IdsFetch(r)
=============================================================================
