\* Two requests of any kind over one profile, two tokens and two categories and apps.
SPECIFICATION Spec
CONSTANTS
    Requests = {r1, r2}
    Keys <- CacheKeys
    Categories = {c1, c2}
    StoreApps = {a1, a2}
    Slugs = {s1, s2}
    Urls = {u1, u2}
    FeaturedLimit = 1
    Popularities = {0}
    Profiles = {p1}
    Tokens = {t1, t2}
    Native = {t1}
    Amounts = {0, 1, 199}
    Usages = {0, 50, 100}
    Asked <- TokenLists
INVARIANTS FeaturedCleared PreferenceCleared NativeUnlessPreferred IdsInOrder
PROPERTY CachesSettle
CHECK_DEADLOCK FALSE
