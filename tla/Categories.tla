----------------------------- MODULE Categories -----------------------------
(***************************************************************************)
(* The category tree (src/src/modules/categories): documents with a parent *)
(* and a materialised path, and the tree that is built of them and cached  *)
(* for an hour.  A path is the sequence of the slugs above a category: the *)
(* text "/a/b/".  A request of an administrator creates, updates or        *)
(* deletes a category by several awaited calls, a visitor reads the tree   *)
(* through the cache.                                                      *)
(*                                                                         *)
(* Names, descriptions and order are left out.  isActive is a constant: it *)
(* is a plain field, and writing it deletes the cached tree like any other *)
(* update.                                                                 *)
(***************************************************************************)
EXTENDS Naturals, SequencesExt

CONSTANTS
  CategoryIds,   \* documents that exist or may be created
  Hidden,        \* those with isActive = false
  Slugs,
  Patterns,      \* those with a character that a regular expression or replace()
                 \* reads as something else, or with a slash
  Garbled,       \* paths that such a search and replacement may leave behind
  Editors,       \* requests of administrators, each served once
  Visitors,      \* requests of getTree
  InitialTrees,  \* documents at first: functions from some ids to [parent, slug, path]
  NoCategory,    \* parentId: null
  Keep,          \* a field an update leaves out
  NoTree,        \* nothing cached
  MaxCrashes

ASSUME NamesAssumption ==
  /\ Keep \notin Slugs \union CategoryIds \union {NoCategory}
  /\ NoCategory \notin CategoryIds
  /\ Editors \intersect Visitors = {}
ASSUME CrashesAssumption == MaxCrashes \in Nat
ASSUME PatternsAssumption == Patterns \subseteq Slugs /\ \A p \in Garbled : p \in Seq(Slugs)

\* The prefix under which the paths of a category's descendants lie.
Prefix(p, s) == p \o <<s>>

ASSUME TreesAssumption ==
  \A tree \in InitialTrees :
    /\ DOMAIN tree \subseteq CategoryIds
    /\ \A c \in DOMAIN tree :
         /\ tree[c] \in [parent : DOMAIN tree \union {NoCategory}, slug : Slugs, path : Seq(Slugs)]
         /\ tree[c].path = IF tree[c].parent = NoCategory THEN <<>>
                           ELSE Prefix(tree[tree[c].parent].path, tree[tree[c].parent].slug)
         /\ \A d \in DOMAIN tree : tree[c].slug = tree[d].slug => c = d

VARIABLES
  live,          \* the categories that exist
  unused,        \* ids not given out yet
  parent, slug, path,
  treeCache,     \* vitaform:categories:tree
  editor,        \* each editor's request and what it has read
  visitor,       \* where each visitor is and the tree it has built
  upset,         \* what has happened that the promises do not cover (history)
  crashes

docs == <<live, unused, parent, slug, path>>
catVars == <<docs, treeCache, editor, visitor, upset, crashes>>

\* CreateCategoryDto, UpdateCategoryDto and the id of a deletion.
Edit == [op : {"create"}, id : CategoryIds, slug : Slugs, parent : CategoryIds \union {NoCategory}]
  \union [op : {"update"}, id : CategoryIds, slug : Slugs \union {Keep},
          parent : CategoryIds \union {NoCategory, Keep}]
  \union [op : {"delete"}, id : CategoryIds, slug : {Keep}, parent : {Keep}]

Waiting == [at |-> "idle"]
Served == [at |-> "done"]
Started(e, l) == [at |-> l, ask |-> e, seen |-> NoCategory, newPath |-> <<>>, subs |-> [c \in {} |-> <<>>]]
Working(r) == editor[r] \notin {Waiting, Served}
EditorAt(r, l) == editor' = [editor EXCEPT ![r].at = l]
Leave(r) == editor' = [editor EXCEPT ![r] = Served]
VisitorAt(v, l, tree) == visitor' = [visitor EXCEPT ![v] = [at |-> l, tree |-> tree]]

\* c and the documents above it, by parentId: what is in every set that has c and
\* whatever is the parent of something in it.
Closed(S) == \A d \in S : parent[d] \in live => parent[d] \in S
Above(c) == {d \in CategoryIds : \A S \in SUBSET CategoryIds : c \in S /\ Closed(S) => d \in S}

CategoriesInit ==
  /\ \E tree \in InitialTrees :
       /\ live = DOMAIN tree
       /\ unused = CategoryIds \ DOMAIN tree
       /\ parent = [c \in CategoryIds |-> IF c \in live THEN tree[c].parent ELSE NoCategory]
       /\ slug = [c \in CategoryIds |-> IF c \in live THEN tree[c].slug ELSE Keep]
       /\ path = [c \in CategoryIds |-> IF c \in live THEN tree[c].path ELSE <<>>]
  /\ treeCache = NoTree
  /\ editor = [r \in Editors |-> Waiting]
  /\ visitor = [v \in Visitors |-> [at |-> "idle", tree |-> NoTree]]
  /\ upset = {}
  /\ crashes = 0

-----------------------------------------------------------------------------
(* Arrivals.  upset notes what the promises below do not cover: edits that  *)
(* overlap, two that set a parent and do, a category moved below itself, a  *)
(* move to the top level, and, further down, a search by a pattern that is  *)
(* not the path it was made of and a visitor that caches a tree of the past. *)

SetsParent(e) == e.op = "create" \/ (e.op = "update" /\ e.parent # Keep)

Upsets(e) ==
  {u \in {"overlap", "moves", "loop", "top"} :
     CASE u = "overlap" -> \E q \in Editors : Working(q)
       [] u = "moves" -> SetsParent(e) /\ \E q \in Editors : Working(q) /\ SetsParent(editor[q].ask)
       [] u = "loop" -> e.parent \in CategoryIds /\ e.parent # e.id /\ e.id \in Above(e.parent)
       [] u = "top" -> e.op = "update" /\ e.parent = NoCategory}

FirstStep == [create |-> "createSlug", update |-> "updateRead", delete |-> "deleteRead"]

Arrive(r, e) ==
  /\ editor[r] = Waiting
  /\ e.op = "create" <=> e.id \in unused
  /\ unused' = unused \ {e.id}
  /\ editor' = [editor EXCEPT ![r] = Started(e, FirstStep[e.op])]
  /\ upset' = upset \union Upsets(e)
  /\ UNCHANGED <<live, parent, slug, path, treeCache, visitor, crashes>>

-----------------------------------------------------------------------------
(* createCategory *)

\* Variant: slugs differ among siblings only.
SiblingHasSlug(e) == \E c \in live \ {e.id} : slug[c] = e.slug /\ parent[c] = e.parent
SlugTaken(e) == \E c \in live \ {e.id} : slug[c] = e.slug

CreateCheckSlug(r) ==
  /\ editor[r].at = "createSlug"
  /\ LET e == editor[r].ask IN
       IF SlugTaken(e) THEN Leave(r)
       ELSE EditorAt(r, IF e.parent = NoCategory THEN "insert" ELSE "parent")
  /\ UNCHANGED <<docs, treeCache, visitor, upset, crashes>>

ReadParent(r) ==
  /\ editor[r].at = "parent"
  /\ LET e == editor[r].ask IN
       IF e.parent \notin live THEN Leave(r)
       ELSE editor' = [editor EXCEPT ![r].newPath = Prefix(path[e.parent], slug[e.parent]),
                                     ![r].at = IF e.op = "create" THEN "insert" ELSE "write"]
  /\ UNCHANGED <<docs, treeCache, visitor, upset, crashes>>

\* The unique index on slug refuses a duplicate.
Insert(r) ==
  /\ editor[r].at = "insert"
  /\ LET e == editor[r].ask IN
       IF SlugTaken(e)
       THEN Leave(r) /\ UNCHANGED docs
       ELSE /\ live' = live \union {e.id}
            /\ parent' = [parent EXCEPT ![e.id] = e.parent]
            /\ slug' = [slug EXCEPT ![e.id] = e.slug]
            /\ path' = [path EXCEPT ![e.id] = editor[r].newPath]
            /\ EditorAt(r, "delTree")
            /\ UNCHANGED unused
  /\ UNCHANGED <<treeCache, visitor, upset, crashes>>

-----------------------------------------------------------------------------
(* updateCategory *)

\* Whether an update asks to move the category it has read.
AsksToMove(e, seenParent) == e.parent # Keep /\ (e.parent = NoCategory \/ e.parent # seenParent)

\* Variant: a category may become its own parent.
NeverOwnParent(e) == FALSE
OwnParent(e) == e.parent = e.id

\* What follows the check on the slug of an update that has read s, and the path
\* it knows by then: a move below another category has to read that first.
AfterSlug(e, s) ==
  IF ~AsksToMove(e, s.parent) \/ e.parent = NoCategory THEN "write"
  ELSE IF OwnParent(e) THEN "refused" ELSE "parent"
KnownPath(e, s) == IF AsksToMove(e, s.parent) THEN <<>> ELSE s.path

UpdateRead(r) ==
  /\ editor[r].at = "updateRead"
  /\ LET e == editor[r].ask
         s == [slug |-> slug[e.id], path |-> path[e.id], parent |-> parent[e.id]]
     IN
       IF e.id \notin live THEN Leave(r)
       ELSE editor' = [editor EXCEPT
              ![r].seen = s, ![r].newPath = KnownPath(e, s),
              ![r].at = IF e.slug \notin {Keep, s.slug} THEN "updateSlug" ELSE AfterSlug(e, s)]
  /\ UNCHANGED <<docs, treeCache, visitor, upset, crashes>>

UpdateCheckSlug(r) ==
  /\ editor[r].at = "updateSlug"
  /\ LET e == editor[r].ask IN
       IF SlugTaken(e) THEN Leave(r) ELSE EditorAt(r, AfterSlug(e, editor[r].seen))
  /\ UNCHANGED <<docs, treeCache, visitor, upset, crashes>>

Refuse(r) ==
  /\ editor[r].at = "refused"
  /\ Leave(r)
  /\ UNCHANGED <<docs, treeCache, visitor, upset, crashes>>

OldPrefix(u) == Prefix(u.seen.path, u.seen.slug)
NewPrefix(u) == Prefix(u.newPath, IF u.ask.slug = Keep THEN u.seen.slug ELSE u.ask.slug)

\* findByIdAndUpdate: a parentId that is null or left out is not written.
UpdateWrite(r) ==
  /\ editor[r].at = "write"
  /\ LET e == editor[r].ask IN
       IF e.id \notin live \/ SlugTaken(e)
       THEN Leave(r) /\ UNCHANGED docs
       ELSE /\ parent' = [parent EXCEPT ![e.id] = IF e.parent \in CategoryIds THEN e.parent ELSE @]
            /\ slug' = [slug EXCEPT ![e.id] = IF e.slug = Keep THEN @ ELSE e.slug]
            /\ path' = [path EXCEPT ![e.id] = editor[r].newPath]
            /\ EditorAt(r, IF OldPrefix(editor[r]) # NewPrefix(editor[r]) THEN "findSubs" ELSE "delTree")
            /\ UNCHANGED <<live, unused>>
  /\ UNCHANGED <<treeCache, visitor, upset, crashes>>

\* Variant: only the children are found, not what lies below them.
Children(p) == {c \in live : path[c] = p}
Below(p) == {c \in live : IsPrefix(p, path[c])}

\* The prefix is put into a regular expression as it is, and no slug is refused:
\* what is found is what lies below as long as all that is compared is plain.
Odd(p) == \E n \in DOMAIN p : p[n] \in Patterns
SearchesByPattern(u) == Odd(OldPrefix(u)) \/ \E c \in live : Odd(path[c])
Found(r, S) ==
  editor' = [editor EXCEPT ![r].at = "reindex", ![r].subs = [c \in S |-> path[c]]]

FindSubs(r) ==
  /\ editor[r].at = "findSubs"
  /\ ~SearchesByPattern(editor[r])
  /\ Found(r, Below(OldPrefix(editor[r])))
  /\ UNCHANGED <<docs, treeCache, visitor, upset, crashes>>

\* Else it may be anything, and one that is no regular expression is an error.
FindByPattern(r) ==
  /\ editor[r].at = "findSubs"
  /\ SearchesByPattern(editor[r])
  /\ \/ (\E S \in SUBSET live : Found(r, S)) /\ upset' = upset \union {"pattern"}
     \/ Leave(r) /\ upset' = upset \union {"pattern", "crash"}
  /\ UNCHANGED <<docs, treeCache, visitor, crashes>>

\* replace(oldPrefix, newPrefix) of a path that starts with the old prefix.
Rebased(p, old, new) == new \o SubSeq(p, Len(old) + 1, Len(p))

\* One update after the other, by path; which of two equal paths is first is open.
WriteChild(r, c, p) ==
  /\ \A d \in DOMAIN editor[r].subs : Len(editor[r].subs[c]) <= Len(editor[r].subs[d])
  /\ path' = IF c \in live THEN [path EXCEPT ![c] = p] ELSE path
  /\ editor' = [editor EXCEPT ![r].subs = [d \in DOMAIN @ \ {c} |-> @[d]]]
  /\ UNCHANGED <<live, unused, parent, slug, treeCache, visitor, crashes>>

ReplacesByPattern(u, c) == Odd(OldPrefix(u)) \/ Odd(NewPrefix(u)) \/ Odd(u.subs[c])

ReindexOne(r) ==
  /\ editor[r].at = "reindex"
  /\ LET u == editor[r] IN
       \E c \in DOMAIN u.subs :
         /\ ~ReplacesByPattern(u, c)
         /\ WriteChild(r, c, Rebased(u.subs[c], OldPrefix(u), NewPrefix(u)))
  /\ UNCHANGED upset

\* replace() finds the old prefix as text, at its first place, and reads $ in the
\* new one: the path may be left as it is, or be rewritten otherwise.
ReindexByPattern(r) ==
  /\ editor[r].at = "reindex"
  /\ LET u == editor[r] IN
       \E c \in DOMAIN u.subs :
         /\ ReplacesByPattern(u, c)
         /\ \E p \in {u.subs[c], Rebased(u.subs[c], OldPrefix(u), NewPrefix(u))} \union Garbled :
              WriteChild(r, c, p)
  /\ upset' = upset \union {"pattern"}

Reindexed(r) ==
  /\ editor[r].at = "reindex"
  /\ DOMAIN editor[r].subs = {}
  /\ EditorAt(r, "delTree")
  /\ UNCHANGED <<docs, treeCache, visitor, upset, crashes>>

-----------------------------------------------------------------------------
(* deleteCategory *)

DeleteRead(r) ==
  /\ editor[r].at = "deleteRead"
  /\ IF editor[r].ask.id \in live THEN EditorAt(r, "children") ELSE Leave(r)
  /\ UNCHANGED <<docs, treeCache, visitor, upset, crashes>>

CountChildren(r) ==
  /\ editor[r].at = "children"
  /\ IF \E c \in live : parent[c] = editor[r].ask.id THEN Leave(r) ELSE EditorAt(r, "products")
  /\ UNCHANGED <<docs, treeCache, visitor, upset, crashes>>

\* Whether the category has products is not known here.
CountProducts(r) ==
  /\ editor[r].at = "products"
  /\ Leave(r) \/ EditorAt(r, "delete")
  /\ UNCHANGED <<docs, treeCache, visitor, upset, crashes>>

DeleteOne(r) ==
  /\ editor[r].at = "delete"
  /\ live' = live \ {editor[r].ask.id}
  /\ EditorAt(r, "delTree")
  /\ UNCHANGED <<unused, parent, slug, path, treeCache, visitor, upset, crashes>>

-----------------------------------------------------------------------------
(* The cached tree. *)

\* Variant: the invalidation is forgotten.
KeepTree(r) ==
  /\ editor[r].at = "delTree"
  /\ Leave(r)
  /\ UNCHANGED <<docs, treeCache, visitor, upset, crashes>>

DelTree(r) ==
  /\ editor[r].at = "delTree"
  /\ treeCache' = NoTree
  /\ Leave(r)
  /\ UNCHANGED <<docs, visitor, upset, crashes>>

\* buildTreeStructure: active categories, each under its parent if that is
\* active, else a root.
Shown == live \ Hidden
BuildTree == [c \in Shown |-> [slug |-> slug[c], path |-> path[c],
                               under |-> IF parent[c] \in Shown THEN parent[c] ELSE NoCategory]]

GetTree(v) ==
  /\ visitor[v].at = "idle"
  /\ VisitorAt(v, IF treeCache = NoTree THEN "find" ELSE "done", NoTree)
  /\ UNCHANGED <<docs, treeCache, editor, upset, crashes>>

FindAllActive(v) ==
  /\ visitor[v].at = "find"
  /\ VisitorAt(v, "set", BuildTree)
  /\ UNCHANGED <<docs, treeCache, editor, upset, crashes>>

SetTree(v) ==
  /\ visitor[v].at = "set"
  /\ treeCache' = visitor[v].tree
  /\ upset' = IF visitor[v].tree = BuildTree THEN upset ELSE upset \union {"late"}
  /\ VisitorAt(v, "done", NoTree)
  /\ UNCHANGED <<docs, editor, crashes>>

TreeExpires ==
  /\ treeCache # NoTree
  /\ treeCache' = NoTree
  /\ UNCHANGED <<docs, editor, visitor, upset, crashes>>

CategoriesCrash(r) ==
  /\ Working(r)
  /\ crashes < MaxCrashes
  /\ crashes' = crashes + 1
  /\ upset' = upset \union {"crash"}
  /\ Leave(r)
  /\ UNCHANGED <<docs, treeCache, visitor>>

-----------------------------------------------------------------------------

EditStep(r) ==
  \/ \E e \in Edit : Arrive(r, e)
  \/ CreateCheckSlug(r) \/ ReadParent(r) \/ Insert(r)
  \/ UpdateRead(r) \/ UpdateCheckSlug(r) \/ Refuse(r) \/ UpdateWrite(r)
  \/ FindSubs(r) \/ FindByPattern(r) \/ ReindexOne(r) \/ ReindexByPattern(r) \/ Reindexed(r)
  \/ DeleteRead(r) \/ CountChildren(r) \/ CountProducts(r) \/ DeleteOne(r)
  \/ DelTree(r) \/ CategoriesCrash(r)

CategoriesNext ==
  \/ \E r \in Editors : EditStep(r)
  \/ \E v \in Visitors : GetTree(v) \/ FindAllActive(v) \/ SetTree(v)
  \/ TreeExpires

CategoriesSpec == CategoriesInit /\ [][CategoriesNext]_catVars

-----------------------------------------------------------------------------

CategoriesTypeOK ==
  /\ live \subseteq CategoryIds \ unused
  /\ parent \in [CategoryIds -> CategoryIds \union {NoCategory}]
  /\ slug \in [CategoryIds -> Slugs \union {Keep}]
  /\ \A c \in CategoryIds : path[c] \in Seq(Slugs)
  /\ \A c, d \in live : slug[c] = slug[d] => c = d
  /\ upset \subseteq {"overlap", "moves", "loop", "top", "pattern", "crash", "late"}

\* Whatever creations, renamings, deletions, moves and crashes interleave, no
\* category is ever above itself, where it would vanish from the tree: not
\* unless somebody asks to move a category below itself, or a move overlaps
\* another or a creation.
OnlyMovesMakeCycles ==
  upset \intersect {"loop", "moves"} = {} =>
    \A c \in live : parent[c] \in live => c \notin Above(parent[c])

\* A category's parent exists and its path is the path and slug of that parent.
PathIsRight(c) ==
  IF parent[c] = NoCategory THEN path[c] = <<>>
  ELSE parent[c] \in live /\ path[c] = Prefix(path[parent[c]], slug[parent[c]])

\* Between edits, every category's path is that of its parent, however categories
\* were created, moved, renamed and deleted - as long as edits came one at a time,
\* none crashed, none moved a category below itself, none moved one to the top
\* level (which writes the path and not the parent), and none searched for or
\* replaced a prefix with a slug that is not plain.
PathsFollowParents ==
  (\A r \in Editors : ~Working(r)) /\ upset \subseteq {"late"} => \A c \in live : PathIsRight(c)

\* A cached tree is the one that would be built now, except while an edit has
\* its deletion of the cache before it, after a crash, and after a visitor was
\* overtaken by an edit between reading the documents and caching them.
TreeCacheIsFresh ==
  \/ treeCache \in {NoTree, BuildTree}
  \/ upset \intersect {"crash", "late"} # {}
  \/ \E r \in Editors : editor[r].at \in {"findSubs", "reindex", "delTree"}
=============================================================================
