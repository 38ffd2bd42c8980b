------------------------------ MODULE MCCaches ------------------------------
EXTENDS Caches, TLC

CacheKeys == {"featured", "categories"} \union Profiles

\* One token, two, and one that comes twice.
TokenLists == {<<t, u>> : t, u \in Tokens}

CachesSymmetry == Permutations(Requests) \union Permutations(Categories)
                      \union Permutations(StoreApps) \union Permutations(Slugs)
                      \union Permutations(Urls)
=============================================================================
