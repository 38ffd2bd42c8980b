------------------------------ MODULE AppStore ------------------------------
(***************************************************************************)
(* The app store: categories and apps, none of which is ever removed, only *)
(* made inactive, and the two answers that are cached for an hour.  That a *)
(* row exists, once seen, stays true, so that such a check is not a step.  *)
(***************************************************************************)
EXTENDS Cache, Integers

CONSTANTS
    Categories,  \* bound: category ids
    StoreApps,   \* bound: app ids
    Slugs, Urls,
    FeaturedLimit,  \* how many featured apps are listed: 12 in the code
    Popularities    \* numbers an administrator may write

ASSUME SomeApps ==
    /\ IsFiniteSet(StoreApps) /\ FeaturedLimit \in Nat
    /\ Popularities \subseteq Int

VARIABLES
    category,  \* the AppStoreCategory rows
    storeApp   \* the AppStoreApp rows

storeVars == <<category, storeApp>>

NoCategory == [slug |-> "no row"]
NoApp == [url |-> "no row"]
CACHE_TTL == 3600

Exist == {c \in Categories : category[c] # NoCategory}
Listed == {a \in StoreApps : storeApp[a] # NoApp}
SlugFree(slug, but) == \A c \in Exist \ {but} : category[c].slug # slug
AppsUnder(c) == {a \in Listed : storeApp[a].category = c}

\* Active and featured.
Featurable == {a \in Listed : storeApp[a].active /\ storeApp[a].featured}

\* As many of them as are listed.
Fits(S) ==
    Cardinality(S) = IF Cardinality(Featurable) <= FeaturedLimit
                     THEN Cardinality(Featurable) ELSE FeaturedLimit

\* The answers there may be: the most popular ones, any of those that tie for the
\* last place, each with its popularity and the slug of its category.
Featured ==
    {{[app |-> a, url |-> storeApp[a].url, popularity |-> storeApp[a].popularity,
       slug |-> category[storeApp[a].category].slug] : a \in top} :
        top \in {S \in SUBSET Featurable :
            /\ Fits(S)
            /\ \A a \in S, b \in Featurable \ S :
                storeApp[a].popularity >= storeApp[b].popularity}}

\* Is a list full, and of featured apps with the URL they have
ListsFeatured(list) ==
    /\ \A x \in list : x.app \in Featurable /\ x.url = storeApp[x.app].url
    /\ Fits(list)

\* The active categories, each with the number of its active apps.
CategoryList ==
    {[category |-> c, slug |-> category[c].slug,
      count |-> Cardinality({a \in AppsUnder(c) : storeApp[a].active})] :
        c \in {x \in Exist : category[x].active}}

\* Nothing yet, or one category, maybe with featured apps that nobody has seen.
StoreInit ==
    \/ /\ category = [c \in Categories |-> NoCategory]
       /\ storeApp = [a \in StoreApps |-> NoApp]
    \/ \E c \in Categories, s \in Slugs :
        /\ category = [x \in Categories |->
               IF x = c THEN [slug |-> s, active |-> TRUE] ELSE NoCategory]
        /\ \E of \in SUBSET StoreApps, u \in [StoreApps -> Urls] :
            /\ \A a, b \in of : u[a] = u[b] => a = b
            /\ storeApp = [x \in StoreApps |->
                   IF x \in of
                   THEN [category |-> c, url |-> u[x], active |-> TRUE, featured |-> TRUE,
                         popularity |-> 0]
                   ELSE NoApp]

-----------------------------------------------------------------------------
\* getFeaturedApps and getCategories: look in the cache, query, store.
Answers(k) == IF k = "featured" THEN Featured ELSE {CategoryList}

Lookup(r, k) ==
    /\ req[r] = Idle
    /\ Goto(r, IF Get(k) # NoEntry THEN Done ELSE [op |-> "query", key |-> k])
    /\ UNCHANGED <<cache, late>> /\ UNCHANGED storeVars

Query(r) ==
    /\ req[r].op = "query"
    /\ \E list \in Answers(req[r].key) :
        Goto(r, [op |-> "answer", key |-> req[r].key, list |-> list])
    /\ UNCHANGED <<cache, late>> /\ UNCHANGED storeVars

\* Would the list be answered now, or were it but for apps that have been looked at
Holds(k, list) == list \in Answers(k) \/ (k = "featured" /\ ListsFeatured(list))

StoreAnswer(r) ==
    /\ req[r].op = "answer"
    /\ Set(req[r].key, req[r].list, CACHE_TTL, Holds(req[r].key, req[r].list))
    /\ Goto(r, Done)
    /\ UNCHANGED storeVars

\* The writers' last step: clearCaches, or the deletion of the category list.
Clear(r) ==
    /\ req[r].op = "clear"
    /\ Delete(req[r].key)
    /\ Goto(r, Done)
    /\ UNCHANGED storeVars

ThenClear(r, k) == Goto(r, [op |-> "clear", key |-> k]) /\ UNCHANGED <<cache, late>>

-----------------------------------------------------------------------------
\* Apps.

\* The category need not be active; the URL must be new, also among deleted apps.
CreateAppCheck(r, c, url, featured) ==
    /\ req[r] = Idle
    /\ c \in Exist
    /\ \A a \in Listed : storeApp[a].url # url
    /\ Goto(r, [op |-> "create app",
                row |-> [category |-> c, url |-> url, active |-> TRUE,
                        featured |-> featured, popularity |-> 0]])
    /\ UNCHANGED <<cache, late>> /\ UNCHANGED storeVars

CreateApp(r) ==
    /\ req[r].op = "create app"
    /\ \E a \in StoreApps \ Listed : storeApp' = [storeApp EXCEPT ![a] = req[r].row]
    /\ ThenClear(r, "featured")
    /\ UNCHANGED category

\* What an administrator may make of an app, its popularity left alone or written, too.
AppRows(a) ==
    [category: Categories, url: Urls, active: BOOLEAN, featured: BOOLEAN,
     popularity: Popularities \union {storeApp[a].popularity}]

\* A mutation: the caches are not cleared.
UpdateAppKeepsCache(r, a, row) ==
    /\ req[r] = Idle
    /\ a \in Listed /\ row.category \in Exist
    /\ storeApp' = [storeApp EXCEPT ![a] = row]
    /\ Goto(r, Done)
    /\ UNCHANGED <<cache, late>> /\ UNCHANGED category

\* No look at other apps' URLs, nor at what is active.
UpdateApp(r, a, row) ==
    /\ req[r] = Idle
    /\ a \in Listed /\ row.category \in Exist
    /\ storeApp' = [storeApp EXCEPT ![a] = row]
    /\ ThenClear(r, "featured")
    /\ UNCHANGED category

DeleteApp(r, a) ==
    /\ req[r] = Idle
    /\ a \in Listed
    /\ storeApp' = [storeApp EXCEPT ![a].active = FALSE]
    /\ ThenClear(r, "featured")
    /\ UNCHANGED category

\* getAppById counts who looks at an app, which clears nothing.
ViewCheck(r, a) ==
    /\ req[r] = Idle
    /\ a \in Listed /\ storeApp[a].active
    /\ Goto(r, [op |-> "view", app |-> a])
    /\ UNCHANGED <<cache, late>> /\ UNCHANGED storeVars

View(r) ==
    /\ req[r].op = "view"
    /\ storeApp' = [storeApp EXCEPT ![req[r].app].popularity = @ + 1]
    /\ Goto(r, Done)
    /\ UNCHANGED <<cache, late, category>>

-----------------------------------------------------------------------------
\* Categories.  The database refuses a slug that is taken.

CreateCategoryCheck(r, slug) ==
    /\ req[r] = Idle
    /\ SlugFree(slug, "none")
    /\ Goto(r, [op |-> "create category", slug |-> slug])
    /\ UNCHANGED <<cache, late>> /\ UNCHANGED storeVars

CreateCategory(r) ==
    /\ req[r].op = "create category"
    /\ \/ /\ SlugFree(req[r].slug, "none")
          /\ \E c \in Categories \ Exist :
              category' = [category EXCEPT ![c] = [slug |-> req[r].slug, active |-> TRUE]]
          /\ ThenClear(r, "categories")
       \/ /\ ~SlugFree(req[r].slug, "none")
          /\ Goto(r, Done)
          /\ UNCHANGED <<cache, late, category>>
    /\ UNCHANGED storeApp

UpdateCategoryCheck(r, c, slug, active) ==
    /\ req[r] = Idle
    /\ c \in Exist
    /\ SlugFree(slug, c)
    /\ Goto(r, [op |-> "update category", category |-> c,
                row |-> [slug |-> slug, active |-> active]])
    /\ UNCHANGED <<cache, late>> /\ UNCHANGED storeVars

UpdateCategory(r) ==
    /\ req[r].op = "update category"
    /\ \/ /\ SlugFree(req[r].row.slug, req[r].category)
          /\ category' = [category EXCEPT ![req[r].category] = req[r].row]
          /\ ThenClear(r, "categories")
       \/ /\ ~SlugFree(req[r].row.slug, req[r].category)
          /\ Goto(r, Done)
          /\ UNCHANGED <<cache, late, category>>
    /\ UNCHANGED storeApp

\* Deleted apps count, too.
DeleteCategoryCheck(r, c) ==
    /\ req[r] = Idle
    /\ c \in Exist
    /\ AppsUnder(c) = {}
    /\ Goto(r, [op |-> "delete category", category |-> c])
    /\ UNCHANGED <<cache, late>> /\ UNCHANGED storeVars

DeleteCategory(r) ==
    /\ req[r].op = "delete category"
    /\ category' = [category EXCEPT ![req[r].category].active = FALSE]
    /\ ThenClear(r, "categories")
    /\ UNCHANGED storeApp

-----------------------------------------------------------------------------
\* The controller's handlers.
AppsRequest(r) ==
    \/ \E c \in Categories, u \in Urls, f \in BOOLEAN : CreateAppCheck(r, c, u, f)
    \/ CreateApp(r)
    \/ \E a \in Listed : \E row \in AppRows(a) : UpdateApp(r, a, row)
    \/ \E a \in StoreApps : DeleteApp(r, a) \/ ViewCheck(r, a)
    \/ View(r)

CategoriesRequest(r) ==
    \/ \E s \in Slugs : CreateCategoryCheck(r, s)
    \/ CreateCategory(r)
    \/ \E c \in Categories, s \in Slugs, b \in BOOLEAN : UpdateCategoryCheck(r, c, s, b)
    \/ UpdateCategory(r)
    \/ \E c \in Categories : DeleteCategoryCheck(r, c)
    \/ DeleteCategory(r)

StoreStep(r) ==
    \/ \E k \in {"featured", "categories"} : Lookup(r, k)
    \/ Query(r) \/ StoreAnswer(r)
    \/ AppsRequest(r) \/ CategoriesRequest(r) \/ Clear(r)
=============================================================================
