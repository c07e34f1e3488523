------------------------------ MODULE Products ------------------------------
(***************************************************************************)
(* Products and their Redis caches (src/src/modules/products, and getOrSet *)
(* and deleteByPattern of infrastructure/cache).  A product is cached by   *)
(* id and by slug, and so are lists of products.  A writer - an            *)
(* administrator's request, or the listener that stores a new rating -     *)
(* writes the document and then deletes keys one command at a time; a      *)
(* reader that missed the cache reads the document and stores it later.    *)
(*                                                                         *)
(* rev stands for the fields nothing depends on: it names the last writer. *)
(* One list stands for all the filters, sorts and pages of queryProducts.  *)
(* A category's slug is represented by the category and the number of times *)
(* it has been renamed.  The event that a writer saves last is left out:   *)
(* Search begins with it.                                                  *)
(***************************************************************************)
EXTENDS Naturals

CONSTANTS
  ProductIds,       \* products that exist or may be created
  ProductSlugs,
  Shelves,          \* categories
  ProductWriters,   \* writers, each served once
  ProductReaders,   \* readers, each served once
  Changes,          \* what writers may ask for: records of op, id and fields
  InitialProducts,  \* the documents at first, by id
  Same,             \* a field a change leaves out
  NoValue,          \* a key that is not in the cache, a product that is not there
  MaxRenames,       \* of each category
  MaxProductCrashes

ShelfSlugs == Shelves \X (0..MaxRenames)
ProductDoc == [slug : ProductSlugs, category : Shelves, categorySlug : ShelfSlugs, active : BOOLEAN,
               rev : ProductWriters \union {NoValue}]

\* CreateProductDto with its required fields, UpdateProductDto, a deletion, and
\* the listener's new rating.
ProductChange ==
  [op : {"create"}, id : ProductIds, slug : ProductSlugs, category : Shelves, active : BOOLEAN]
    \union [op : {"update", "delete", "rate"}, id : ProductIds, slug : ProductSlugs \union {Same},
            category : Shelves \union {Same}, active : BOOLEAN \union {Same}]

ASSUME ChangesAssumption ==
  /\ Changes \subseteq ProductChange
  /\ Same \notin ProductSlugs \union Shelves \union BOOLEAN
  /\ NoValue \notin ProductDoc
ASSUME ProductCrashesAssumption == MaxProductCrashes \in Nat /\ MaxRenames \in Nat
ASSUME ProductsAssumption ==
  /\ DOMAIN InitialProducts \subseteq ProductIds
  /\ \A p \in DOMAIN InitialProducts :
       /\ InitialProducts[p] \in ProductDoc
       /\ InitialProducts[p].categorySlug = <<InitialProducts[p].category, 0>>
       /\ \A q \in DOMAIN InitialProducts : InitialProducts[p].slug = InitialProducts[q].slug => p = q

VARIABLES
  product,   \* documents by id
  gone,      \* ids of deleted products
  renames,   \* how often the slug of each category was changed
  cache,     \* Redis
  writer, reader,
  clashed,   \* whether two requests ever changed the same product at once (history)
  late,      \* keys last set to what was no longer so (history)
  productCrashes

productVars == <<product, gone, renames, cache, writer, reader, clashed, late, productCrashes>>

IdKey(p) == <<"product:id", p>>
SlugKey(s) == <<"product:slug", s>>
ListKey == <<"products:list", "all">>
CacheKeys == {IdKey(p) : p \in ProductIds} \union {SlugKey(s) : s \in ProductSlugs} \union {ListKey}

Exists(p) == product[p] # NoValue
Shelved(p) == Exists(p) /\ product[p].active
WithId(p) == [id |-> p, doc |-> product[p]]

\* What the factory of each cached read returns; nothing is cached when it throws.
Lookup(k) ==
  CASE k[1] = "product:id" -> IF Shelved(k[2]) THEN WithId(k[2]) ELSE NoValue
    [] k[1] = "product:slug" ->
         LET found == {p \in ProductIds : Shelved(p) /\ product[p].slug = k[2]} IN
           IF found = {} THEN NoValue ELSE WithId(CHOOSE p \in found : TRUE)
    [] OTHER -> [items |-> {WithId(p) : p \in {q \in ProductIds : Shelved(q)}}]

ToCome == [at |-> "idle"]
Over == [at |-> "done"]
Busy(w) == writer[w] \notin {ToCome, Over}
Asks(w, op) == writer[w].ask.op = op
Target(w) == writer[w].ask.id
WriterAt(w, l) == writer' = [writer EXCEPT ![w].at = l]
Finish(w) == writer' = [writer EXCEPT ![w] = Over]

ProductsInit ==
  /\ product = [p \in ProductIds |-> IF p \in DOMAIN InitialProducts THEN InitialProducts[p] ELSE NoValue]
  /\ gone = {}
  /\ renames = [s \in Shelves |-> 0]
  /\ cache = [k \in CacheKeys |-> NoValue]
  /\ writer = [w \in ProductWriters |-> ToCome]
  /\ reader = [r \in ProductReaders |-> ToCome]
  /\ clashed = FALSE
  /\ late = {}
  /\ productCrashes = 0

-----------------------------------------------------------------------------
(* Arrivals.  A new product has an id that nobody knows before.             *)

FirstRead == [create |-> "category", update |-> "read", delete |-> "read", rate |-> "write"]

\* Requests work with what they read of the product, the listener does not read it.
ReadsFirst(c) == c.op # "rate"

Receive(w, c) ==
  /\ writer[w] = ToCome
  /\ c.op = "create" =>
       /\ ~Exists(c.id) /\ c.id \notin gone
       /\ \A v \in ProductWriters : Busy(v) => Target(v) # c.id
  /\ c.op # "create" => Exists(c.id) \/ c.id \in gone
  /\ writer' = [writer EXCEPT ![w] =
       [at |-> FirstRead[c.op], ask |-> c, seen |-> NoValue, shelfSlug |-> NoValue,
        oldSlug |-> Same, updatedSlug |-> Same]]
  /\ clashed' = (clashed \/ \E v \in ProductWriters : /\ Busy(v) /\ Target(v) = c.id
                                                      /\ ReadsFirst(writer[v].ask) /\ ReadsFirst(c))
  /\ UNCHANGED <<product, gone, renames, cache, reader, late, productCrashes>>

-----------------------------------------------------------------------------
(* createProduct *)

ShelfSlug(s) == <<s, renames[s]>>
\* The slugs that a category has or had.
OwnSlugs(s) == {<<s, n>> : n \in 0..renames[s]}

\* The category, the slug and then the SKUs are looked up; SKUs are left out.
AfterCategory == [create |-> "slug", update |-> "write"]

ReadCategory(w) ==
  /\ writer[w].at = "category"
  /\ LET c == writer[w].ask IN
       \/ Finish(w)
       \/ writer' = [writer EXCEPT ![w].shelfSlug = ShelfSlug(c.category), ![w].at = AfterCategory[c.op]]
  /\ UNCHANGED <<product, gone, renames, cache, reader, clashed, late, productCrashes>>

SlugInUse(s, p) == \E q \in ProductIds \ {p} : Exists(q) /\ product[q].slug = s

FindBySlugAdmin(w) ==
  /\ writer[w].at = "slug"
  /\ IF SlugInUse(writer[w].ask.slug, Target(w)) THEN Finish(w) ELSE WriterAt(w, "create")
  /\ UNCHANGED <<product, gone, renames, cache, reader, clashed, late, productCrashes>>

CreateProduct(w) ==
  /\ writer[w].at = "create"
  /\ LET c == writer[w].ask IN
       IF SlugInUse(c.slug, c.id)
       THEN Finish(w) /\ UNCHANGED product
       ELSE /\ product' = [product EXCEPT ![c.id] =
                 [slug |-> c.slug, category |-> c.category, categorySlug |-> writer[w].shelfSlug,
                  active |-> c.active, rev |-> w]]
            /\ WriterAt(w, "keys")
  /\ UNCHANGED <<gone, renames, cache, reader, clashed, late, productCrashes>>

-----------------------------------------------------------------------------
(* updateProduct, deleteProduct and the listener's updateById *)

Moves(c, doc) == c.category # Same /\ c.category # doc.category

ReadExisting(w) ==
  /\ writer[w].at = "read"
  /\ LET c == writer[w].ask IN
       IF ~Exists(c.id) THEN Finish(w)
       ELSE writer' = [writer EXCEPT
              ![w].seen = product[c.id],
              ![w].at = IF c.op = "delete" THEN "delete"
                        ELSE IF Moves(c, product[c.id]) THEN "category" ELSE "write"]
  /\ UNCHANGED <<product, gone, renames, cache, reader, clashed, late, productCrashes>>

Or(new, old) == IF new = Same THEN old ELSE new

\* The slug of the category that was looked up, if the product is to move there.
\* Variant: the slug of the category is only written by createProduct.
OldCategorySlug(c, seen, found) == seen.categorySlug
CategorySlug(c, seen, found) == IF Moves(c, seen) THEN found ELSE seen.categorySlug

\* The fields of the DTO, and the categorySlug worked out from what was read;
\* the listener writes rating and reviewCount only.
Updated(c, seen, found, doc, w) ==
  IF c.op = "rate" THEN [doc EXCEPT !.rev = w]
  ELSE [slug |-> Or(c.slug, doc.slug), category |-> Or(c.category, doc.category),
        categorySlug |-> CategorySlug(c, seen, found), active |-> Or(c.active, doc.active), rev |-> w]

UpdateProduct(w) ==
  /\ writer[w].at = "write"
  /\ LET c == writer[w].ask  seen == writer[w].seen IN
       IF ~Exists(c.id) \/ (c.op = "update" /\ c.slug # Same /\ SlugInUse(c.slug, c.id))
       THEN Finish(w) /\ UNCHANGED product
       ELSE LET doc == Updated(c, seen, writer[w].shelfSlug, product[c.id], w) IN
              /\ product' = [product EXCEPT ![c.id] = doc]
              /\ writer' = [writer EXCEPT
                   ![w].at = "delId", ![w].updatedSlug = doc.slug,
                   ![w].oldSlug = IF c.op = "rate" THEN doc.slug ELSE seen.slug]
  /\ UNCHANGED <<gone, renames, cache, reader, clashed, late, productCrashes>>

DeleteProduct(w) ==
  /\ writer[w].at = "delete"
  /\ product' = [product EXCEPT ![Target(w)] = NoValue]
  /\ gone' = gone \union {Target(w)}
  /\ writer' = [writer EXCEPT ![w].at = "delId", ![w].updatedSlug = writer[w].seen.slug,
                              ![w].oldSlug = writer[w].seen.slug]
  /\ UNCHANGED <<renames, cache, reader, clashed, late, productCrashes>>

-----------------------------------------------------------------------------
(* Invalidation: the commands of the Promise.all, in the order in which they *)
(* are sent.  deleteByPattern asks for the keys and then deletes what it got. *)

Del(ks) ==
  /\ cache' = [k \in CacheKeys |-> IF k \in ks THEN NoValue ELSE cache[k]]
  /\ late' = late \ ks

DelId(w) ==
  /\ writer[w].at = "delId"
  /\ Del({IdKey(Target(w))})
  /\ WriterAt(w, "delSlug")
  /\ UNCHANGED <<product, gone, renames, reader, clashed, productCrashes>>

\* Variant: only the slug the product has now is deleted.
DelUpdatedSlug(w) ==
  /\ writer[w].at = "delSlug"
  /\ Del({SlugKey(writer[w].updatedSlug)})
  /\ WriterAt(w, "keys")
  /\ UNCHANGED <<product, gone, renames, reader, clashed, productCrashes>>

DelSlug(w) ==
  /\ writer[w].at = "delSlug"
  /\ Del({SlugKey(writer[w].oldSlug)})
  /\ WriterAt(w, IF writer[w].updatedSlug # writer[w].oldSlug THEN "delNewSlug" ELSE "keys")
  /\ UNCHANGED <<product, gone, renames, reader, clashed, productCrashes>>

DelNewSlug(w) ==
  /\ writer[w].at = "delNewSlug"
  /\ Del({SlugKey(writer[w].updatedSlug)})
  /\ WriterAt(w, "keys")
  /\ UNCHANGED <<product, gone, renames, reader, clashed, productCrashes>>

FindLists(w) ==
  /\ writer[w].at = "keys"
  /\ IF cache[ListKey] = NoValue THEN Finish(w) ELSE WriterAt(w, "delLists")
  /\ UNCHANGED <<product, gone, renames, cache, reader, clashed, late, productCrashes>>

DelLists(w) ==
  /\ writer[w].at = "delLists"
  /\ Del({ListKey})
  /\ Finish(w)
  /\ UNCHANGED <<product, gone, renames, reader, clashed, productCrashes>>

ProductCrash(w) ==
  /\ Busy(w)
  /\ productCrashes < MaxProductCrashes
  /\ productCrashes' = productCrashes + 1
  /\ Finish(w)
  /\ UNCHANGED <<product, gone, renames, cache, reader, clashed, late>>

-----------------------------------------------------------------------------
(* updateCategory gives a category another slug; its products are not told. *)

RenameShelf(s) ==
  /\ renames[s] < MaxRenames
  /\ renames' = [renames EXCEPT ![s] = @ + 1]
  /\ UNCHANGED <<product, gone, cache, writer, reader, clashed, late, productCrashes>>

-----------------------------------------------------------------------------
(* getOrSet, for getById, getBySlug and queryProducts. *)

CacheGet(r, k) ==
  /\ reader[r] = ToCome
  /\ reader' = [reader EXCEPT ![r] = IF cache[k] = NoValue THEN [at |-> "factory", key |-> k] ELSE Over]
  /\ UNCHANGED <<product, gone, renames, cache, writer, clashed, late, productCrashes>>

Factory(r) ==
  /\ reader[r].at = "factory"
  /\ LET found == Lookup(reader[r].key) IN
       reader' = [reader EXCEPT ![r] =
         IF found = NoValue THEN Over ELSE [at |-> "set", key |-> @.key, found |-> found]]
  /\ UNCHANGED <<product, gone, renames, cache, writer, clashed, late, productCrashes>>

CacheSet(r) ==
  /\ reader[r].at = "set"
  /\ LET k == reader[r].key IN
       /\ cache' = [cache EXCEPT ![k] = reader[r].found]
       /\ late' = IF reader[r].found = Lookup(k) THEN late \ {k} ELSE late \union {k}
  /\ reader' = [reader EXCEPT ![r] = Over]
  /\ UNCHANGED <<product, gone, renames, writer, clashed, productCrashes>>

KeyExpires(k) ==
  /\ cache[k] # NoValue
  /\ Del({k})
  /\ UNCHANGED <<product, gone, renames, writer, reader, clashed, productCrashes>>

-----------------------------------------------------------------------------

WriterStep(w) ==
  \/ \E c \in Changes : Receive(w, c)
  \/ ReadCategory(w) \/ FindBySlugAdmin(w) \/ CreateProduct(w)
  \/ ReadExisting(w) \/ UpdateProduct(w) \/ DeleteProduct(w)
  \/ DelId(w) \/ DelSlug(w) \/ DelNewSlug(w) \/ FindLists(w) \/ DelLists(w)
  \/ ProductCrash(w)

ProductsNext ==
  \/ \E w \in ProductWriters : WriterStep(w)
  \/ \E r \in ProductReaders : (\E k \in CacheKeys : CacheGet(r, k)) \/ Factory(r) \/ CacheSet(r)
  \/ \E k \in CacheKeys : KeyExpires(k)
  \/ \E s \in Shelves : RenameShelf(s)

ProductsSpec == ProductsInit /\ [][ProductsNext]_productVars

-----------------------------------------------------------------------------

ProductsTypeOK ==
  /\ \A p \in ProductIds : Exists(p) => product[p].slug \in ProductSlugs /\ ~SlugInUse(product[p].slug, p)
  /\ DOMAIN cache = CacheKeys
  /\ late \subseteq CacheKeys
  /\ productCrashes \in 0..MaxProductCrashes

\* The keys that a writer has made stale and not yet deleted.
Undeleted(w) ==
  CASE writer[w].at = "delId" ->
         {IdKey(Target(w)), SlugKey(writer[w].oldSlug), SlugKey(writer[w].updatedSlug), ListKey}
    [] writer[w].at = "delSlug" -> {SlugKey(writer[w].oldSlug), SlugKey(writer[w].updatedSlug), ListKey}
    [] writer[w].at = "delNewSlug" -> {SlugKey(writer[w].updatedSlug), ListKey}
    [] writer[w].at \in {"keys", "delLists"} -> {ListKey}
    [] OTHER -> {}

\* What the cache holds under an id, a slug or a list is what a read would find
\* now: of two writers' deletions and a reader's read and write none may be
\* missing or out of order.  Excepted are the keys a writer has still
\* to delete, a key set by a reader that was overtaken, requests that clash on one
\* product (each deletes the slug it read) and crashes.
ProductCacheIsFresh ==
  clashed \/ productCrashes > 0 \/
    \A k \in CacheKeys \ late :
      cache[k] = NoValue \/ cache[k] = Lookup(k) \/ \E w \in ProductWriters : k \in Undeleted(w)

\* A product carries a slug that its own category has or had, so the one it has
\* where it was never renamed, unless two requests clashed.  After a renaming the
\* product keeps the old slug: nothing tells it of the new one.
CategorySlugFollows ==
  ~clashed => \A p \in ProductIds : Exists(p) => product[p].categorySlug \in OwnSlugs(product[p].category)
=============================================================================
