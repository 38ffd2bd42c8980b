------------------------------ MODULE Desktop -------------------------------
(***************************************************************************)
(* The folders and bookmarked apps of profiles.  A service method is one   *)
(* serializable transaction (or one write, for a deletion and for making a *)
(* folder private) and is an operator named for it; a controller method is *)
(* the action that calls it with what it takes from the request.           *)
(* The caller has access to the profiles, of which it may name any.        *)
(***************************************************************************)
EXTENDS Integers, FiniteSets, Sequences, SequencesExt

CONSTANTS
    Owners,      \* the profiles
    Folders,     \* bound: ids of folders
    Apps,        \* bound: ids of bookmarked apps
    Names,       \* names folders may be given
    Links,       \* shareable ids that may be generated
    MinPosition, MaxPosition  \* what a column of positions holds: 32 bits

VARIABLES
    folder,  \* the Folder rows
    app      \* the BookmarkedApp rows

vars == <<folder, app>>

Root == "root"        \* folderId null
Absent == "absent"    \* what a request leaves out
NoFolder == [name |-> Absent]
NoApp == [place |-> Absent]
NoLink == "none"

\* There are more numbers than rows, and what stands for nothing is none of the ids.
ASSUME DesktopConstants ==
    /\ MaxPosition \in Nat \ {0} /\ MinPosition \in Int /\ MinPosition <= 0
    /\ IsFiniteSet(Folders) /\ Cardinality(Folders) <= MaxPosition
    /\ IsFiniteSet(Apps) /\ Cardinality(Apps) <= MaxPosition
    /\ {Root, Absent} \intersect Folders = {} /\ NoLink \notin Links

Position == MinPosition..MaxPosition

FolderRow == [profile : Owners, name : Names, position : Position, public : BOOLEAN,
              link : Links \union {NoLink}]
AppRow == [profile : Owners, place : Folders \union {Root}, position : Position]

FoldersOf(p) == {f \in Folders : folder[f] # NoFolder /\ folder[f].profile = p}
AppsIn(p, place) ==
    {a \in Apps : app[a] # NoApp /\ app[a].profile = p /\ app[a].place = place}
AppsOf(p) == {a \in Apps : app[a] # NoApp /\ app[a].profile = p}

Init ==
    /\ folder = [f \in Folders |-> NoFolder]
    /\ app = [a \in Apps |-> NoApp]

\* The position after the last one that is taken: (last?.position || 0) + 1.  The
\* database refuses it, and with it the request, when the last one is the greatest.
AfterLast(positions) == IF positions = {} THEN 1 ELSE Max(positions) + 1

\* A mutation: the folder may be anybody's.
ValidPlaceAnyProfile(p, place) == place \in {Root} \union {f \in Folders : folder[f] # NoFolder}

\* The place a request names: the root, or a folder of the profile.
ValidPlace(p, place) == place = Root \/ place \in FoldersOf(p)

-----------------------------------------------------------------------------
\* foldersService.

NameTaken(p, name, but) == \E f \in FoldersOf(p) \ {but} : folder[f].name = name

FoldersService_createFolder(p, name, position) ==
    /\ ~NameTaken(p, name, Absent)
    /\ LET at == IF position = <<>>
                 THEN AfterLast({folder[f].position : f \in FoldersOf(p)}) ELSE position[1] IN
        /\ at \in Position
        /\ \E f \in Folders :
            /\ folder[f] = NoFolder
            /\ folder' = [folder EXCEPT ![f] =
                   [profile |-> p, name |-> name, position |-> at, public |-> FALSE,
                    link |-> NoLink]]
    /\ UNCHANGED app

\* A mutation: the other folders' names are not looked at.
FoldersService_updateFolderUnchecked(f, name) ==
    /\ folder[f] # NoFolder
    /\ folder' = [folder EXCEPT ![f].name = name]
    /\ UNCHANGED app

FoldersService_updateFolder(f, name) ==
    /\ folder[f] # NoFolder
    /\ ~NameTaken(folder[f].profile, name, f)
    /\ folder' = [folder EXCEPT ![f].name = name]
    /\ UNCHANGED app

\* The apps move to the root and keep their positions.
FoldersService_deleteFolder(f) ==
    /\ folder[f] # NoFolder
    /\ folder' = [folder EXCEPT ![f] = NoFolder]
    /\ app' = [a \in Apps |-> IF app[a].place = f THEN [app[a] EXCEPT !.place = Root] ELSE app[a]]

\* Positions 1, 2, ... in the order given; the folders left out keep theirs.
FoldersService_reorderFolders(p, order) ==
    /\ ToSet(order) \subseteq FoldersOf(p)
    /\ folder' = [f \in Folders |->
                     IF f \in ToSet(order)
                     THEN [folder[f] EXCEPT !.position = CHOOSE i \in DOMAIN order : order[i] = f]
                     ELSE folder[f]]
    /\ UNCHANGED app

\* A shareable id is generated once; one that is taken is not used.
Unused == {l \in Links : \A f \in Folders : folder[f] # NoFolder => folder[f].link # l}

FoldersService_shareFolder(f) ==
    /\ folder[f] # NoFolder
    /\ \E l \in (IF folder[f].link = NoLink THEN Unused ELSE {folder[f].link}) :
        folder' = [folder EXCEPT ![f].public = TRUE, ![f].link = l]
    /\ UNCHANGED app

FoldersService_unshareFolder(f) ==
    /\ folder[f] # NoFolder
    /\ folder' = [folder EXCEPT ![f].public = FALSE]
    /\ UNCHANGED app

-----------------------------------------------------------------------------
\* appsService.

AppsService_createApp(p, place, position) ==
    /\ ValidPlace(p, place)
    /\ LET at == IF position = <<>>
                 THEN AfterLast({app[a].position : a \in AppsIn(p, place)}) ELSE position[1] IN
        /\ at \in Position
        /\ \E a \in Apps :
            /\ app[a] = NoApp
            /\ app' = [app EXCEPT ![a] = [profile |-> p, place |-> place, position |-> at]]
    /\ UNCHANGED folder

AppsService_deleteApp(a) ==
    /\ app[a] # NoApp
    /\ app' = [app EXCEPT ![a] = NoApp]
    /\ UNCHANGED folder

AppsService_reorderApps(p, order, place) ==
    /\ ValidPlace(p, place)
    /\ ToSet(order) \subseteq AppsIn(p, place)
    /\ app' = [a \in Apps |->
                  IF a \in ToSet(order)
                  THEN [app[a] EXCEPT !.position = CHOOSE i \in DOMAIN order : order[i] = a]
                  ELSE app[a]]
    /\ UNCHANGED folder

\* A mutation: the app is put after the last one of the place it leaves.
AppsService_moveAppToFolderOldPlace(a, place) ==
    /\ app[a] # NoApp
    /\ LET p == app[a].profile
           to == IF place = Absent THEN app[a].place ELSE place
           at == AfterLast({app[b].position : b \in AppsIn(p, app[a].place)}) IN
        /\ ValidPlace(p, to)
        /\ at \in Position
        /\ app' = [app EXCEPT ![a] = [profile |-> p, place |-> to, position |-> at]]
    /\ UNCHANGED folder

\* A request that names no folder moves the app behind all apps of the profile
\* and leaves it where it is.
AppsService_moveAppToFolder(a, place) ==
    /\ app[a] # NoApp
    /\ LET p == app[a].profile
           there == IF place = Absent THEN AppsOf(p) ELSE AppsIn(p, place)
           to == IF place = Absent THEN app[a].place ELSE place
           at == AfterLast({app[b].position : b \in there}) IN
        /\ place # Absent => ValidPlace(p, place)
        /\ at \in Position
        /\ app' = [app EXCEPT ![a] = [profile |-> p, place |-> to, position |-> at]]
    /\ UNCHANGED folder

-----------------------------------------------------------------------------
\* The listings: sorted by position, in any order where positions are equal.
SortedApps(apps) ==
    {q \in SetToSeqs(apps) :
        \A i, j \in DOMAIN q : i < j => app[q[i]].position <= app[q[j]].position}
GetProfileFolders(p) ==
    {q \in SetToSeqs(FoldersOf(p)) :
        \A i, j \in DOMAIN q : i < j => folder[q[i]].position <= folder[q[j]].position}

GetRootApps(p) == SortedApps(AppsIn(p, Root))
GetFolderApps(f, p) == IF f \in FoldersOf(p) THEN SortedApps(AppsIn(p, f)) ELSE {}
GetSharedFolder(l) == {f \in Folders : folder[f] # NoFolder /\ folder[f].link = l /\ folder[f].public}

\* One page of a folder's apps; each page is a query of its own.
GetFolderContents(f, page, limit) ==
    {SubSeq(q, (page - 1) * limit + 1, Min({page * limit, Len(q)})) : q \in SortedApps(AppsIn(folder[f].profile, f))}

-----------------------------------------------------------------------------
\* foldersController and appsController.

\* The position a client sends, if it does: any that the database takes.
Given == {<<>>} \union {<<n>> : n \in Position}

CreateFolder ==
    \E p \in Owners, name \in Names, position \in Given :
        FoldersService_createFolder(p, name, position)

UpdateFolder == \E f \in Folders, name \in Names : FoldersService_updateFolder(f, name)
DeleteFolder == \E f \in Folders : FoldersService_deleteFolder(f)
ShareFolder == \E f \in Folders : FoldersService_shareFolder(f)
UnshareFolder == \E f \in Folders : FoldersService_unshareFolder(f)

\* folderOrders is handed on as the list it is.
ReorderFolders ==
    \E p \in Owners : \E chosen \in SUBSET FoldersOf(p) : \E order \in SetToSeqs(chosen) :
        FoldersService_reorderFolders(p, order)

CreateApp ==
    \E p \in Owners, place \in Folders \union {Root}, position \in Given :
        AppsService_createApp(p, place, position)

DeleteApp == \E a \in Apps : AppsService_deleteApp(a)

\* appOrders is handed on where an object with a list appIds is expected (a
\* list makes the transaction throw), and no folder: only root apps are ordered.
ReorderApps ==
    \E p \in Owners : \E chosen \in SUBSET AppsIn(p, Root) : \E order \in SetToSeqs(chosen) :
        AppsService_reorderApps(p, order, Root)

MoveAppToFolder ==
    \E a \in Apps, place \in Folders \union {Root, Absent} : AppsService_moveAppToFolder(a, place)

Next ==
    \/ CreateFolder \/ UpdateFolder \/ DeleteFolder \/ ReorderFolders
    \/ ShareFolder \/ UnshareFolder
    \/ CreateApp \/ DeleteApp \/ ReorderApps \/ MoveAppToFolder

Spec == Init /\ [][Next]_vars

-----------------------------------------------------------------------------
\* An app is in a folder that exists and belongs to its profile, through moves
\* and deletions of folders; a public folder has a link of its own.
DesktopTypeOK ==
    /\ folder \in [Folders -> FolderRow \union {NoFolder}]
    /\ app \in [Apps -> AppRow \union {NoApp}]
    /\ \A p \in Owners : \A a \in AppsOf(p) : app[a].place \in FoldersOf(p) \union {Root}
    /\ \A p \in Owners : \A f \in FoldersOf(p) : folder[f].public => folder[f].link # NoLink
    /\ \A l \in Links : Cardinality(GetSharedFolder(l)) <= 1

\* No two folders of a profile have the same name (nothing in the schema says
\* so: only the checks of createFolder and updateFolder do).
FoldersNamedApart ==
    \A p \in Owners : \A f, g \in FoldersOf(p) : folder[f].name = folder[g].name => f = g

\* "When moved to a new location, the app is placed at the end"
\* (api-sequence/2-apps-management.md:453), and so is a new folder, whatever
\* positions were given,
\* reordered or brought along by deleted folders before.
MovedToEnd ==
    \A a \in Apps, place \in Folders \union {Root, Absent} :
        AppsService_moveAppToFolder(a, place) =>
            LET p == app[a].profile IN
                /\ \A f \in FoldersOf(p) : app'[a].place = f => \A q \in GetFolderApps(f, p)' : Last(q) = a
                /\ app'[a].place = Root => \A q \in GetRootApps(p)' : Last(q) = a
AddedAtEnd ==
    \A p \in Owners, name \in Names : FoldersService_createFolder(p, name, <<>>) =>
        \A f \in FoldersOf(p)' \ FoldersOf(p) : \A q \in GetProfileFolders(p)' : Last(q) = f
PlacedAtEnd == [][MovedToEnd /\ AddedAtEnd]_vars

\* A shared link is for good: making the folder private and sharing it again
\* revives it, and no other folder gets it meanwhile
\* (foldersService.shareFolder, unshareFolder).
LinkKept ==
    \A f \in Folders : folder[f] # NoFolder /\ folder'[f] # NoFolder /\ folder[f].link # NoLink
                          => folder'[f].link = folder[f].link
LinksStay == [][LinkKept]_vars

\* Two pages show every app of a folder.  They may not: the order of apps with
\* equal positions is not stated, and may differ from query to query.
PagesShowEveryApp ==
    \A p \in Owners : \A f \in FoldersOf(p) :
        LET n == Cardinality(AppsIn(p, f)) IN
        \A first \in GetFolderContents(f, 1, 1), rest \in GetFolderContents(f, 2, 1) :
            n = 2 => ToSet(first) \union ToSet(rest) = AppsIn(p, f)
=============================================================================
