-------------------------------- MODULE Caches ------------------------------
(***************************************************************************)
(* The cache with all that answers from it: the app store and the tokens'  *)
(* services, sharing Redis and its outages.                                *)
(***************************************************************************)
EXTENDS AppStore, TokenCaches

\* Each answer has a key of its own: a prefix names the kind, an id the profile.
ASSUME KeysApart ==
    /\ {"featured", "categories"} \union Profiles \subseteq Keys
    /\ {"featured", "categories"} \intersect Profiles = {}

vars == <<cacheVars, storeVars, tokenVars>>

Init == CacheInit /\ StoreInit /\ TokenInit

Next ==
    \/ \E r \in Requests : StoreStep(r) /\ UNCHANGED tokenVars
    \/ \E r \in Requests : TokenStep(r) /\ UNCHANGED storeVars
    \/ \E k \in Keys : Expire(k) /\ UNCHANGED <<storeVars, tokenVars>>
    \/ \E t \in Tokens : IdsExpire(t) /\ UNCHANGED storeVars
    \/ RedisChanges /\ UNCHANGED <<storeVars, tokenVars>>

\* Redis drops what has outlived its lifetime; no request need ever go on.
Spec ==
    /\ Init /\ [][Next]_vars
    /\ \A k \in Keys : WF_vars(Expire(k) /\ UNCHANGED <<storeVars, tokenVars>>)

-----------------------------------------------------------------------------
Right(k) ==
    \/ cache[k] = NoEntry
    \/ IF k \in Profiles THEN Agrees(k, cache[k].value) ELSE cache[k].value \in Answers(k)

\* Is what is cached a full list of featured apps, whatever their categories are
\* called and however popular they have become
ShowsFeatured ==
    cache["featured"] # NoEntry => ListsFeatured(cache["featured"].value)

\* Who will delete the entry of k
Clearing(k) ==
    \/ \E r \in Requests : req[r].op = "clear" /\ req[r].key = k
    \/ \E r \in Requests : req[r].op = "invalidate" /\ req[r].profile = k

\* Once nothing is asked any more, every answer that is cached is right or gone: a
\* stale one, stored by a reader that a writer overtook or left by an outage of Redis,
\* does not outlive its lifetime.  (CACHE_TTL and DEFAULT_GAS_ANALYSIS_TTL.)
CachesSettle == \A k \in Keys : <>[]Right(k)

\* Whoever reads the list of featured apps finds on it as many as there is room for,
\* all of them active, featured and with the URL they have, unless a writer has yet
\* to clear it, it was not so when stored or Redis lost a deletion: what createApp,
\* updateApp and deleteApp do to a list, each of them clears, and what getAppById
\* does, which clears nothing, leaves all this as it is.
FeaturedCleared == ShowsFeatured \/ "featured" \in late \/ Clearing("featured")

\* "Returns up to 12 featured apps sorted by popularity": those that lead now, but in
\* the same cases.  (docs/APP_STORE_API.md:100; getAppById clears nothing.)
FeaturedByPopularity ==
    \/ cache["featured"] = NoEntry \/ "featured" \in late \/ Clearing("featured")
    \/ {<<x.app, x.popularity>> : x \in cache["featured"].value}
          \in {{<<x.app, x.popularity>> : x \in list} : list \in Featured}

\* The suggestion in the cache ignores a preference only in the same cases.
\* (setPreferredGasToken and its invalidateGasAnalysisCache.)
PreferenceCleared ==
    \A p \in Profiles : Right(p) \/ p \in late \/ Clearing(p)

\* No two categories have one slug, although each request looks for it before it
\* writes: the second of two that overlap is refused.  (createCategory, updateCategory.)
SlugsApart == \A c, d \in Exist : category[c].slug = category[d].slug => c = d

\* A token that cannot pay gas is suggested only when it was preferred or no other
\* token that can is held, whatever the balances and the past.  (analyzeGasTokens.)
NativeUnlessPreferred ==
    \A p \in Profiles : cache[p] # NoEntry =>
        LET analysis == cache[p].value IN
        \/ analysis.suggested \in Native \union {NoToken, analysis.preference}
        \/ analysis.available \intersect Native = {}

\* Every id answered is that of the token asked for, whichever were in the cache.
\* (getStandardizedTokenIds and its merge of two lists.)
IdsInOrder ==
    \A r \in Requests : req[r].op = "ids answered" => req[r].ids = req[r].tokens

\* "Cannot delete if apps exist in the category": a category is deleted only while it
\* has no app.  (docs/APP_STORE_API.md:258 and deleteCategory, which counts first.)
DeletesOnlyEmpty ==
    [][\A r \in Requests :
        req[r].op = "delete category" /\ req'[r] # req[r] =>
            AppsUnder(req[r].category) = {}]_vars
=============================================================================
