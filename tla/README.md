# vitaFormApi: specifications and proofs

TLA+ models of the parts of vitaFormApi where requests, workers, webhooks, jobs
and crashes meet: stock, the transactional outbox, orders and payments, carts
and checkouts, sessions, the catalogue with its caches and its search index,
coupons, one-time codes and login limits, profiles, administration, support,
warranties, the sleep quiz, notifications and analytics. TLC checks them on
small instances; TLAPS proves nearly all the safety properties for every instance.
Paths below are relative to `src/`.

    tlc -workers 2 -config MCInventory.cfg MCInventory     # any run
    tlapm InventoryProofs.tla                              # any proof module

## The system

A NestJS API, several replicas of which share one MongoDB and one Redis. A
request is an async function: between two `await`s nothing else runs in its
replica, at each `await` anything may, and the other replicas run all the time.
Hence the grain of every model: one step per awaited database or Redis call.
There are hardly any transactions (only registration, verification and password
reset use one), so a request that dies leaves what it had written.

| Component | State | Operations | What makes it correct |
|---|---|---|---|
| Inventory | a Mongo document per SKU with `quantity`, `reserved`, `version`; a Redis lock | reserve, release, deplete, adjust; deletion by event | counters never negative, no overselling, effects equal to some serial order |
| Outbox | event documents with status and retry count; the batch a worker holds in memory | save, poll, claim, publish, mark, retry, purge | published means delivered, published is final, everything is settled |
| Orders | order documents with status, history, payment status | staff update, cancel, confirm | only valid transitions, stock released once |
| Payments | payment documents; the gateway's own state | initialise, verify (webhook, redirect, poll) | success means money taken or a provider nobody asks, is final, reaches the order, is announced once |
| Cart | a Redis hash per user or guest | add, update, remove, clear, merge guest cart, coupon | nothing lost or duplicated |
| Checkout | Redis locks per SKU | initiate | an order is made under the locks of its SKUs; all or nothing |
| Sessions | a Redis hash per token, a set of tokens per user | login, logout, wipe, revoke, list, guard | an ended session stays ended, every session can be found and wiped, device limit |
| Authentication | users; Redis keys per code, cooldown, guesses, lockout; counters of failed logins | register, verify, reset, resend; login | a code works once; enough wrong guesses lock; no count stays for ever |
| Categories | documents with parent, slug and materialised path; a cached tree | create, update, move, delete, read | a tree, whose paths agree with the parents; a fresh cache |
| Products | documents; caches by id, slug and list | create, update, delete, rate, read | slugs are unique, a cache holds what a read would find |
| Reviews | documents; rating and count on the product | submit, approve, reject; listener | the rating is that of the approved reviews, once their events are handled |
| Search | an autocomplete set, jobs, a history per user | listen, index, reindex, track, clear | deleted products are forgotten, the history is recent |
| Promotions | coupons; copies in Redis; the code on a cart | create, edit, delete, validate, apply, remove | copies follow their documents, a discount is covered by the subtotal |
| Users | one document with phone, addresses, devices | profile, addresses, devices, deactivate | one default address, a free phone number after deactivation |
| Admin | accounts, banners, settings, audit log | each change and its entry | the log tells what is there now |
| Support chat | tickets, a Redis lock, rooms of sockets, messages | claim, assign, close, rate; send, join, leave | one agent per ticket, dashboards agree, nobody misses a message |
| Warranty | documents with claims; a daily job | register, claim, moderate; expire, announce | the status shows the claim, one announcement |
| Sleep quiz | documents, a BullMQ queue, two worker slots | submit; analyse, complete, fail, retry | every quiz is answered, status and job agree |
| Notifications | documents per user, three queues | broadcast, welcome, delete; send | a broadcast comes once, completed means taken |
| Analytics | a buffer in memory | track, flush | every event counts once |
| Wishlist, articles, dealers, recommendations | single documents, caches | CRUD | - |

Interaction: services write documents and save outbox events; the outbox
worker hands events to in-process listeners (inventory record deletion,
ratings, search queue, notifications, analytics). Checkout reads the cart,
creates the order and initialises its payment; verifying the payment confirms
the order; cancelling an order releases stock. A cart keeps the code of its
coupon only and asks the promotions service at every read. Everybody shares
Redis locks made by `setNx` with a TTL and removed by an unconditional `del`.

Hard behaviours, listed line by line under `hazards` in `PROJECT.json`:
check-then-act on documents read earlier, unconditional writes, locks that are
ignored or deleted by others or outlived, several writes without a transaction,
events retried and delivered in parallel and out of order, duplicated webhooks,
gateway errors after success, Redis keys recreated after deletion, caches filled
by readers that a write overtook, counters whose expiry is set in a second
command, jobs that are retried from the start.

## Modules

| Module | Models | Extended by |
|---|---|---|
| `StockLedger` | abstract: the stock of one SKU as a serial object | `Inventory` (refinement) |
| `Inventory` | `modules/inventory` | `MCInventory`, `InventoryProofs` |
| `Outbox` | `infrastructure/outbox` | `MCOutbox`, `OutboxProofs` |
| `OrderPayments` | `modules/orders` + `modules/payments` | `MCOrderPayments`, `OrderPaymentsProofs` |
| `Checkout` | `modules/cart` + `modules/checkout` (+ order creation) | `MCCheckout`, `CheckoutProofs` |
| `Sessions` | `modules/auth/session.service.ts` + `common/guards/session-auth.guard.ts` | `MCSessions`, `SessionsProofs` |
| `Categories`, `Products`, `Reviews`, `Search` | `modules/categories`, `products`, `reviews`, `search`, and `getOrSet` of the cache | `MCStore` |
| `Promotions` | `modules/promotions` + pricing and coupons of `modules/cart` | `MCStore` |
| `Codes`, `Logins` | `modules/auth/otp.service.ts`, `auth.service.ts` | `MCPeople` |
| `Users`, `Admin` | `modules/users`, `modules/admin` | `MCPeople` |
| `Lists` | `$pull` on a stored list, `LREM` | `Users`, `Notifications`, `Search` |
| `Support` | `modules/support-chat` | `MCPeople` |
| `Warranty` | `modules/warranty` | `MCPeople` |
| `SleepQuiz` | `modules/sleep-quiz`, its queue and AI strategy | `MCPeople` |
| `Notifications`, `Analytics` | `modules/notifications`, `modules/analytics` | `MCPeople` |

`StoreProofs` extends `MCStore`, and `PeopleProofs` (codes, logins, users and
administration, then support, warranties, quiz, notifications and analytics)
extends `MCPeople`. What they extend fixes no constant: the values are
in the `.cfg` files, and the theorems hold for all that satisfy the assumptions.
These two and `CheckoutProofs` share `DataLemmas`: least numbers and sets, sums
over a finite set, and what is left of a list that elements are taken out of.

Conventions: `pc[r]`, or the field `at` of a request's record, is the `await` a
request is at. The rest of the record, or `job`, `req`, `op`/`target`, `seen`,
is what it asks for and what it has read. Variables marked *(history)* record
the past and no guard reads them. An operator commented `Variant:` is a
plausible bug of the definition after it; it is not part of the model but serves
to see that a property notices it.

**Inventory.** One SKU, whose document (`inv`) may exist or not. `Start*` are
the first steps of the four operations; `Read` is the read with the checks on
it; the `*Write` actions are `optimisticIncrement`, which adds increments
computed from the *seen* document if the version still matches. `ProductDeleted`
deletes the record at any time and `Create` makes another one with version 1, so
a version may match that is of another record; `orphans` are the requests whose
record was deleted between their read and their write. `SaveEvent` and
`SaveLowStockAlert` the outbox inserts, which may fail; `Unlock` the `finally`
block, which deletes the key whoever holds it. `LockExpires` is the TTL.
`LedgerSpec` says that what happens to the counters is what `StockLedger`
does in single steps: `Reserve` if enough is free, `Release`, `Deplete`,
`Adjust`, `Open`, `Close`, but for the write of an orphan (`Stray`). The mapping is the identity on `exists`,
`quantity`, `reserved`.

**Outbox.** `stage[w][e]` is what worker `w` is doing with event `e` of its
batch; the events of a batch advance independently (`Promise.allSettled`).
`Claim` is the `updateMany`, which only matches what is still `PENDING` while
the worker goes on with all it found. `Emit` delivers; whether the listeners
succeeded (`handled`) it does not learn, since the event emitter is set up to
suppress their errors (`app.module.ts:123`). Every call can fail before or after
its write is applied, so `MarkPublishedFails` and `MarkFailedFails` have both
outcomes; `ReadRetryCount` and `MarkFailed` are the two calls of `markFailed`.
The history variable `doubtful` has the events a worker went on with unclaimed
and those whose failed `markPublished` was applied, `dropped` those a crash or a
failed call may have left claimed.

**OrderPayments.** One order, its payments, and `Procs` request slots.
`VALID_ORDER_TRANSITIONS` is the table of the code. A `Verify` goes through
`AskGateway`, `RecordSuccess` or `RecordFailure`, `MarkOrderPaid`,
`ConfirmRead`/`WriteStatus`, `SavePaymentSuccess`; a `StaffUpdate` or
`CustomerCancel` through its check, `WriteStatus` and, for the latter,
`ReleaseStock`. `GatewayAnswers` is what the strategies make of the gateway: success only if the
customer paid and an error at any time, as the Paystack, Flutterwave and OPay
strategies have it when a key is set; always success, whatever was paid, for the
payments in `Unasked`, as the Moniepoint strategy does, and the Flutterwave and
OPay ones without a key (`moniepoint.strategy.ts:35`, `flutterwave.strategy.ts:87`,
`opay.strategy.ts:92`). Staff updates are checked against the table
because the controllers pass a user id where the service expects `'admin'`.

**Checkout.** Carts as quantities per SKU; each cart operation with its reads
and writes; a merge with its four commands; a checkout with the read of the
cart, the address, the locks one by one, the order, the payment, the clearing
of the cart and the `finally` block. `Fail` is any awaited call that throws: inside the `try`
it leads to `unlock`, before it out; `Crash` leaves the locks. The history
variable `wanted` is what customers have put in carts and not taken out again,
`collided` tells whether two requests ever worked on the same cart at once,
`late` whether a lock ever expired under a running checkout.

**Sessions.** The hashes and the token set of one user. `Members`, `Scan`,
`Prune` are shared by the device limit and the list, as in the code, where both
remove tokens without a session; `DelHash`, `RemoveFromSet` by logout, remote
revocation and eviction. `RefreshSession` is the guard's `hset`, which nobody
awaits: on a key that is gone it leaves a hash with `lastActivity` only, which
the guard does not take for a session. The commands of a `Promise.all` reach
Redis in the order they were issued, with other clients' in between.

**Categories.** A path is the sequence of the slugs above a category. An edit is
`FindById`, the checks of slug and parent, the write, the re-indexing of the
descendants it found one by one, and the deletion of the cached tree. The
descendants are searched by a regular expression made of the old path as it is,
and slugs are any text that is not empty, so the slugs are of two kinds: plain
ones, where the search is that of a prefix (`FindSubs`, `ReindexOne`), and those
in `Patterns`, with which it may find anything or fail (`FindByPattern`), and the
replacement may leave a path as it is or garble it (`ReindexByPattern`). The
history variable `upset` collects what happened that the promises do not
survive: two edits at once, moves at once, a move below oneself (`loop`), a move
to the top (`top`: the path is written, the parent is not), a search or
replacement with a slug that is not plain (`pattern`), a crash, a visitor who
was overtaken (`late`).

**Products.** A writer writes the document and then deletes keys: the id, the old
slug, the new one, the keys of lists that `SCAN` found. A reader that missed
reads the document and stores it later. `late` is the set of keys stored by a
reader that a write overtook; `clashed` says whether two writers worked on what
both had read. A category can be renamed at any time (`RenameShelf`), which
changes no product: a slug of a category is the category and how often it had
been renamed, and a product keeps the one that was read when it was created or
last moved.

**Reviews.** A moderation is one unconditional write and then an outbox event;
`Aggregate` and `StoreRating` are the two awaited calls of the listener.
Deliveries overlap and repeat. Either call may throw (`ListenerFails`): the
listener logs it, the event counts as handled, and the rating stays behind until
a later delivery; `lost` is the turn from which on it is right again. The rating is in tenths, rounded as in the code.

**Search.** Events reach the listener in any order, become jobs, and jobs overlap.
The listener queues the wrapper the outbox emits, not the product in its
`payload`, so `IndexTerms` finds no `name` in it: created and updated products are
never indexed, and only the reindexing after a deletion adds terms.

**Promotions.** `validateCoupon` with the copy in Redis or the document, the checks
in their order, the discount with its cap; and a cart, known by its subtotal,
that validates its code at every read and takes it off when it no longer
holds. A merge writes back the code it has read.

**Codes, Logins.** Each Redis command is a step: the cooldown, the code, `incr`,
`expire`, the lockout, the deletions. Codes are numbered as they are issued, so
`accepted` and `reused` can say which code was taken how often; `shared` are the
codes two requests held at once, or that a crash left behind. In `Logins` the
two halves of `Promise.all` are a set of things to do.

**Users, Admin.** A transaction is one step. Removing an address is two writes
without one. An administrator's request finds, writes, and then writes an entry
of the audit log; `crossed` are the entities two requests worked on at once.

**Support.** A claim is `setNx`, the conditional update, the `del` that runs whoever
holds the lock, and the broadcast; assigning and closing are unconditional.
`claimed` is who was told that the ticket is theirs. A message is stored,
broadcast to the sockets of its room, and then the room is counted: if nobody
else seems to be there a push is asked for. A room is counted by sockets, so two
of one side count as both sides (`crowd`).

**Warranty.** The job marks the expired ones, lists those that expire soon,
announces them one by one and marks them together. Requests check what they have
read and write without condition. `together` are the serial numbers two worked
on at once, `reopened` those moderated again after a decision.

**SleepQuiz.** The queue is BullMQ as it is used: three attempts, a stalled job is
handed out again up to `StallLimit` times. The worker writes `FAILED` and throws,
so a quiz can be `FAILED` and then `COMPLETED` by the next attempt; a
`markCompleted` that throws may have been applied, and `markFailed` then goes
over the result (`doubted`). The AI strategy answers in any case, with a built-in answer if the provider fails.

**Notifications, Analytics.** A broadcast lists the active users and inserts one
notification for each; a user who is verified is welcomed and given the recent
texts. E-mail jobs rethrow what their provider throws, SMS and push jobs do not.
A worker may stop over a job, before or after the provider has the message
(`PostStalls`): BullMQ hands it out again once (`maxStalledCount: 1`) and then
fails it with attempts left. An analytics batch is taken out of the buffer before
its insert is awaited; `tracked` are the events there ever were.

**MCStore, MCPeople.** These components share no state, so a behaviour of the run
is about one of them, which `subject` chooses at the start: the states add up
instead of multiplying, and a property is the conjunction of the promises of
two or three components, named in its comment.

## Runs

| Run | Instance | States | Shows |
|---|---|---|---|
| `MCInventory` | 3 requests, stock 1 or no record, quantities 1, adjustment -1; the record may be deleted and created again | 1.26 M | types and non-negative counters, `ReserveNeverOversells`, `LedgerSpec` |
| `MCOutbox` | 2 workers, 2 events, batch 2, 2 retries, 2 faults | 90 k | published means emitted; finality and settlement under their conditions |
| `MCOutboxCrash` | 1 fault | fails | an event claimed by a worker that dies is never looked at again |
| `MCOutboxHandled` | no fault | fails | an event whose listener failed is published |
| `MCOrderPayments` | 2 payments, one of them unasked, 2 slots, 4 requests, 1 fault | 656 k | types, `PaidMeansPaid`, `ReturnsFollowDelivery` always; the `Serial...` properties without overlap; `SuccessReachesOrderUnlessFault` |
| `MCOrderCrash` | 3 requests | fails | a payment whose order never hears of it |
| `MCCheckout` | 2 users, 1 guest, 2 SKUs, 3 requests, 1 fault, symmetry | 1.79 M | `LocksCoverTheOrder`, `NothingIsLost`, `NothingIsDuplicated` |
| `MCCheckoutAtomic` | the same without symmetry | fails | an order without a cleared cart |
| `MCSessions` | 2 sessions, limit 2, 3 requests, 1 crash, symmetry | 1.42 M | `EndedStaysEnded`, `SessionsAreListed`, `LogoutAllEndsListedSessions`, `DeviceLimit` |
| `MCSessionsWipe` | no crash | fails | a session that survives `logoutAll` |
| `MCStore` | 3 categories and 2 editors, 1 slug that is not plain; 2 products, 2 writers, a reader, 1 renaming; 2 reviews, 3 moderations; 3 products to index, 3 jobs; 2 coupons, an editor, a shopper; 1 or 2 faults each, symmetry | 3.34 M | `TreeHolds`, `CopiesFollow`, `CachesAreFresh`, `SearchFollows`, `DiscountIsCovered` |
| `MCPeople` | 3 requests (4 on a ticket), 2 agents, addresses or members; 3 sockets; 1 warranty and 2 jobs; 3 quizzes in 2 slots; 1 or 2 faults each, symmetry | 213 k | `CodesWorkOnce`, `LimitsHold`, `ProfilesAgree`, `AuditTellsTheLast`, `TicketsAgree`, `NobodyIsMissed`, `WarrantiesAgree`, `JobsAgree`, `DeliveredOnce`, `QuizzesComplete` |

The failing runs each check one sentence of the repository's own documents or
comments; `findings` in `PROJECT.json` quotes it and says what the code does
instead. Deadlock is not checked: requests are served once, or up to a bound,
and then the system may stop.

Why the bounds are enough. Every property is about one SKU, event, order, cart,
token, category, coupon or ticket against another, so two of each, and a third
actor to disturb the first two (three requests, or two workers and a fault)
reach every pairwise race and what a bystander makes of it. Stock 1 makes each
reservation contend; the sessions start at the limit so that every login evicts;
initial carts share a SKU so that checkouts contend and merges add up; three
categories are the fewest that have a descendant to re-index below a move; limits
of guesses, logins, devices, history and recent texts are 2, so that the third
is over it. Three quizzes are one more than there are worker slots. One fault
(`MaxFaults` and its relatives) is a crash or a failed call at any step, two
where a retry has to fail again; the theorems have no such bound.

Symmetry is used in runs that only check invariants, and in `MCPeople`, whose
one temporal property is about the quiz. No set of the quiz is symmetric, and
while the quiz is the subject all the other variables keep their initial values,
which every permutation leaves as they are, so the reduction merges no states of
the behaviours that property is about.

Conditions in properties. Several promises only hold if requests do not get in
each other's way, and their names or history variables say which way:
`Serial...` and `overlapped` (no two requests on the order at once, failures
included), `collided` (none on the same cart), `shared`, `blind`, `late`,
`faults`, `upset`, `clashed`, `overtaken`, `mixed`, `staleCodes`, `mingled`,
`crossed`, `together`, `reordered`, `orphans`, `doubtful`, `dropped`, `lost`,
`doubted`. Outside the condition they fail, and the model shows it if the condition is
left out:

- concurrent verifications announce one success twice, and a slow one writes
  `FAILED` over a `SUCCESS`; two requests that checked the same status make a
  transition that is not in the table, and two cancellations release stock twice;
- two workers that polled the same events deliver both, and a `markPublished` that
  was applied and throws puts a published event back to `PENDING`;
- a write computed from the record of a deleted SKU takes the counters of its
  successor below zero;
- a checkout that outlives its locks orders a SKU together with another one, two
  checkouts of one cart order it twice, two `addItem`s of it lose one;
- logins that overlap at the limit leave a session too many;
- two listeners store an older rating over a newer one, and a reader that a write
  overtook caches an old product;
- a slug that is special to a regular expression leaves the paths of the children
  behind;
- changes of addresses that overlap leave a book without a default address, and two
  administrators' changes are logged in the other order.

Fairness. `Outbox`, `OrderPayments` and `SleepQuiz` are checked under
weak fairness of the steps a received request or a polling worker takes by
itself (Node keeps running a pending promise, `setInterval` keeps firing, BullMQ
hands out waiting jobs to free slots, Mongo and Redis answer or throw). Arrivals, payments by customers, crashes,
stalls and failures are never fair. The other modules have safety properties
only.

## Proofs

Invariants and action properties that TLC checks in a passing run, proved for
all values of the constants that satisfy the named assumptions, and for any
number of requests, workers and faults.

| Theorem | Says |
|---|---|
| `InventoryProofs!TypeCorrect` | neither counter goes below zero unless a write strayed to a record it never read |
| `InventoryProofs!NoOverselling` | a reservation of the record it read leaves `reserved` within `quantity` |
| `InventoryProofs!RefinesLedger` | `Spec => LedgerSpec` |
| `OutboxProofs!TypeCorrect` | statuses, stages and counters keep their ranges |
| `OutboxProofs!AtLeastOnce` | published or purged implies delivered |
| `OutboxProofs!Finality` | published is final, unless a worker went on with the event unclaimed or its `markPublished` was applied and threw |
| `OrderPaymentsProofs!TypeCorrect`, `PaymentsAreReal`, `NoReturnBeforeDelivery` | the three unconditional invariants of the order |
| `OrderPaymentsProofs!AnnouncedOnce`, `ReleasedOnce` | without overlap, a success is announced once and stock released once |
| `OrderPaymentsProofs!SuccessIsFinal` | without overlap, a paid payment stays paid |
| `CheckoutProofs!OrdersAreLocked` | an order is made under the locks of all its SKUs |
| `CheckoutProofs!TypeCorrect` | carts and orders hold natural quantities |
| `CheckoutProofs!NothingIsEverLost`, `NothingIsEverDuplicated` | what customers want is in carts and orders, and with no fault and nothing under way no more than that |
| `SessionsProofs!TypeCorrect` | type correctness of sessions and requests |
| `SessionsProofs!EndedSessionsStayEnded` | an ended session never works again |
| `SessionsProofs!SessionsCanBeFound`, `LogoutAllEndsThem` | sessions are in the set, and a wipe ends all it found, unless a set was deleted that was not read in full |
| `SessionsProofs!DevicesAreLimited` | logins that do not overlap leave no more sessions than the limit |
| `PeopleProofs!CodesWorkOnceAlways` | a code is accepted once, unless two requests held it |
| `PeopleProofs!LimitsAlwaysHold` | enough wrong guesses lock, and counts of guesses and logins end |
| `PeopleProofs!AuditTellsTheLastAlways` | the last entry of the log tells what is there |
| `PeopleProofs!ProfilesAlwaysAgree` | an address book has one default address, and a deactivated account no phone number |
| `PeopleProofs!OneClaimAlwaysHolds`, `TicketsAlwaysAgree` | one claimant at most; the dashboards agree |
| `PeopleProofs!NobodyIsEverMissed` | a message reaches the other side or a push is asked for |
| `PeopleProofs!WarrantiesAlwaysAgree` | the status shows an open claim, one claim is pending at most, an expiry is announced once |
| `PeopleProofs!JobsAlwaysAgree` | quiz and job agree; an e-mail recorded as sent was taken by its provider, and one is given up after all attempts or too many stalls |
| `PeopleProofs!DeliveredOnceAlways` | a tracked event is in one place, always; a broadcast comes once |
| `PeopleProofs!PeopleTypesCorrect` | type correctness of all accounts and services: distinct addresses and devices, agents of tickets, the length of the log |
| `StoreProofs!DiscountsAreCovered` | a discount is between nothing and what it is taken off |
| `StoreProofs!CopiesAlwaysFollow` | the category slug a product stores is one its category has or had, and its rating that of its reviews |
| `StoreProofs!CachesAreAlwaysFresh` | the cached tree, products and coupons are what a read would find |
| `StoreProofs!SearchAlwaysFollows` | a deleted product is forgotten; the history is what was searched last |
| `StoreProofs!TreeAlwaysHolds` | no category is above itself; paths are those of the parents, where slugs are plain |
| `StoreProofs!StoreTypesCorrect` | type correctness of the catalogue: unique slugs, ids of categories, reviews of buyers only, a rating that fits their number, the length of a history |

*Inventory.* Availability is checked on a document read several steps before
the write, so the properties are not inductive. The strengthening relates every
document that was seen to the current one: the version never decreases while
the record lives, a seen document with the current version is the current
document, and a request at its write step has passed its check on what it saw.
The step facts then reduce to arithmetic on one document. A record that is
deleted and created again starts at version 1, so all of this is said of the
requests that are no orphans, and the properties name the write of an orphan as
the one exception: with it a counter may go below zero.

*Outbox.* The strengthening follows an event through a worker: one at stage
`publish` has been emitted. It needs no assumption on how many workers hold the
same event. Finality needs to know how many do: as long as nobody went on with it
unclaimed and no `markPublished` of it threw after it was applied, an event at
work is `PROCESSING` and one worker has it (`ClaimInv`).

*OrderPayments.* A request at `paySuccess`, `orderPaid`, or on its way from there to
`successEvent` as a webhook is about a payment the gateway took, which nothing takes
back, or about one of a provider that is not asked. For
returns: whatever an interleaved write stores, a request at its write step for
a return or refund was checked against a status in `visited` that allows it.
The `Serial...` properties rest on `SerialInv`: until two requests overlap, one
is at work at most (`Alone`), so what it read is still so when it writes
(`PaymentRead`, `OrderRead`); a success was announced only of a payment that has
it, and stock released only of an order that is cancelled, from which the table
leads nowhere.

*Checkout.* The property speaks of the three stages in which an order is
made. It is proved from acquiredLocks: as long as no lock expired under a
running checkout, every SKU in `held[r]` of a checkout in its `try` or `finally`
block has its lock set by `r` (`HeldIsOwned`), nothing is held before
(`NothingHeldBefore`), and what is held when the order is made is all of the
cart (`HeldIsTheCart`). The types are proved from one more fact, that the parts
of a job which a stage uses are there at that stage (`JobsFit`).

What is neither lost nor duplicated is a sum over all carts and orders, and
while an order exists and its cart is not yet cleared the sum is too large; a
fault may leave it so. The invariant therefore counts a cart for nothing while
a request that has moved its items elsewhere is about to empty it (`Doubled`,
`Worth`): with that, the `Balance` of a SKU is at least what is wanted, and
equal to it without faults, in every state. It is kept since requests that do
not collide work on different carts (`Alone`), so that what they read of them
is what they overwrite (`ReadsAreCurrent`). The lemmas on sums (`SumChanges`: a sum
grows by what one summand grows by; `SumGrows`) are proved from the definition
of the fold by a least counterexample among the subsets of a finite set. The
theorems assume finitely many carts and requests, and that no guest's cart is a
user's (`getCartKey` gives them different prefixes).

*Sessions.* The guard writes `lastActivity` to a session's key without waiting or
looking, so an ended session has a key again. What keeps it from coming back
to life is that only its own login writes the other fields, once. The
strengthening says when a token is born: nothing in Redis and nothing a request
holds names a token whose login has not written its hash (`OnlyBornAreNamed`),
and a token about to be taken off the set is one whose session is over
(`RemovedAreOver`). For a wipe, what it found is ahead of it or ended
(`WipesAreComplete`). For the limit, a login that is alone has every device in
what it found up to the eviction, and from then on there is room for one more
(`LoginKnows`).

*Accounts.* That a code works once is inductive when it is said of the code that
is in Redis: one that was accepted and is still there is in the hands of a
request about to delete it, so the next one to read it shares it. For the
limit on guesses (`GuessInv`): while an identifier is not locked, no more wrong
guesses count than the key in Redis says, so whoever is told the limit cannot
be told less. For the counts of failed logins (`LoginInv`): whoever counted
first sees to the expiry. For the audit log (`AuditInv`): what the last entry
tells is so, or the request that changed it has yet to write its entry, and
where no two met there is one such request (`ByOne`); what it found before its
write still stands (`Standing`). The last entry is that with the largest index;
appending another one changes what is told of one entity only. For an address
book (`ProfileInv`): a removal that did not mingle is the only change of
addresses under way (`Separate`), so what a request found when it read the
profile is so when it writes (`FindsAgain`). `$pull` is a recursive function (`Lists!Dropping`);
that what it leaves are the elements it should, each at another place of the
list (`DroppingIs`, and `PulledIs` of the ids and the default ones), is proved by
a least counterexample among the lengths of its prefixes.

*Support.* Only the conditional update matters for `OneClaimHolds`: a claim needs
the status `OPEN`, and no operation goes back to it. The lock, which may expire
and which a loser deletes, is not used in the proof. The dashboards are behind
by the one broadcast that is under way. For messages, whoever is in the room
when it is counted, and did not join since the broadcast, has been reached by it.

*Other services.* A warranty that only one worked on at a time (`OnlyOne`) has for
a request about to add a claim none pending (`MayStillClaim`); the job has
announced each of those it has found and is past once, or once more for each
fault (`Announcing`). A quiz is in one slot at most (`Apart`), with its job
active (`Slots`), and an answer that was written belongs to a job that is
completed, about to be acknowledged, or was stalled (`Answers`). An analytics
event is in exactly one place: not tracked yet, the buffer, one batch, the
database, or dropped (`PlaceInv`). A member who was welcomed once has each text from the broadcast or
from the copy of the recent ones, not both (`InboxInv`).

*Types of accounts and services.* `PeopleTypesOK` says more than where values lie,
so it needs most of these invariants together (`AllInv`), and more (`AllTypes`):
that ids in a book differ and are none of those still to be given out
(`UserTypes`), that a list of devices, cut at the limit from its end, has each
once, that an entry of the audit log is written by a request that closes
(`ClosedOnes`), that a text is in the list of the latest ones once
(`FreshenedIs`). It assumes finitely many administrative requests and
broadcasts, and natural numbers as the bounds on faults and deliveries.

*Promotions.* `validateCoupon` computes a discount that is right for the subtotal
and the terms it was given; that it still is when the cart is priced follows
from the order of the reads: the cart, then the coupon, and nothing read again.
It assumes integers as coupon values, natural numbers as subtotals, and initial
documents that are coupons. A negative coupon value is excluded by the
property, since an update can store one.

*Copies and caches.* An editor of a coupon, or a writer of a product that reads
first, knows the code, the slug and the category as they are, where no other
one works on the same document (`Knows` and `Apart`; `OneReads` and `SeenIsSo`),
so it deletes every key its write makes stale, or has yet to; a product about
to be created is nobody else's (`Unborn`). Of the tree nothing needs to be
known but that every write leaves its editor before the deletion of the cache.
For ratings, turns number the aggregations: the newest is of the reviews as
they are, unless an event is on its way, and it is on the product or carried
by a listener (`NewestIsSo`, `TurnsDiffer`).

*Search.* Unless reindexes mixed, a deleted product is suggested, or about to be,
only while a reindex is yet to come, and one that has emptied the set is the
only one (`IndexInv`). A history is the end of what was searched: its terms in
the order of their last searches, the latest first, and no term that was
searched later than one of them is missing (`Recent`). `LREM` is a recursive
function of the history; that it takes out the one place where the term is, and
moves what comes after by one, is proved by a least counterexample
(`WithoutIs`).

*The tree.* What is above a category is the least set that has it and is closed
under parents, so it is never unfolded: what is above p stays so, or shrinks,
when i moves below p, unless i was in it (`UpWhenMoved`), and a category that is
new is above nothing (`UpWhenBorn`). An id that is not out yet, or whose
creation is under way, is nobody's parent (`Births`); of the requests that set
a parent one is at work, and its parent stays above (`NoLoops`). For the paths,
the invariant speaks of what they will be when the edit under way is through
(`Finished`): those agree with the parents in every state, although the paths
themselves do not between a write and the last subcategory (`InTurn`). The write
keeps that since what starts with the old path and slug lies below the category
(`BelowByPath`, by a least counterexample, as slugs are unique) and is rewritten
with it (`PathsMove`). It assumes that the initial documents have the paths of
their parents and different slugs.

*Types of the catalogue.* `StoreTypesOK` follows from the invariants above and four
small ones: keys that readers ask for, codes and faults noted, and ratings. The
last says of every aggregation that a listener carries, as of the product, that
the count is at most that of the buyers and the rating is zero just when the
count is (`Rates`). It rests on the sum of n ratings from 1 to 5 being between n
and 5n (`SumBetween`, by a smallest set that violates it) and on the rounding to
tenths keeping that within 10 and 50 (`TenthsAre`). It assumes finitely many
buyers and natural numbers as the bounds on hours and faults.

Only model-checked: everything temporal. `SettledUnlessDropped`,
`SuccessReachesOrderUnlessFault` and `QuizzesComplete` need fairness and `ENABLED`.
Every invariant and every action property that a passing run checks is proved.

## Not modelled

Wording of notifications, gateway and AI protocols, prompts, the full-text
query, validation and authorisation in the HTTP layer, storage, logging, health
and seed data; reports and lists, which only read. Single-document CRUD
(articles, dealers, wishlist, quiz questions and rules, user preferences, read
flags, helpful votes) has no behaviour that another step can disturb.
Recommendations read other collections and a cache that nothing fills. The
seven days of a cart and the prices stored with its items are left out. So is a
worker whose BullMQ lock is lost while it goes on: a stalled job is one whose
worker has stopped, and two workers never have the same job. Which key is set for
which provider is not modelled either: `Unasked` is any set of payments.

## What the models showed of the code

The failing runs are findings, each against a sentence of the repository that
`findings` in `PROJECT.json` quotes: an event claimed by a worker that dies is
lost; an event whose listener failed counts as published and is not retried; a
payment is stored and its order never hears of it; a checkout that throws leaves
its order behind; a session survives `logoutAll`.

Beside these, the following came up while the code was modelled.

- The state machine of orders is not the documented one. The table of
  `order-status.enum.ts:20-52` allows staff to go from `PENDING` to any later state,
  `DELIVERED` included, to cancel in `PROCESSING`, `SHIPPED` and
  `OUT_FOR_DELIVERY`, and to refund without a return request; the "Strict Order
  State Machine" of `PROJECT_PHASES.md:230-234` has single steps forward and
  cancellation before processing only. The model has the table of the code, and
  no property claims the documented one.
- Moniepoint's `verifyPayment` answers success for every reference, and Flutterwave's
  and OPay's do without a key: a verification then marks an unpaid order paid.
  `PaidMeansPaid` names these payments as the exception.
- No lock deduplicates webhooks (`PROJECT_PHASES.md:255` has one). A payment that
  succeeds on an order cancelled meanwhile is kept, and not refunded.
- `releaseStock` ignores the result of `setNx` and deletes the lock of a reservation
  that is running; the optimistic version keeps the stock right all the same. A SKU
  created again starts at version 1, so the version does not tell the records apart.
- Checkout never calls `reserveStock` (`PROJECT_PHASES.md:220`), its SKU lock key
  (`vitaform:lock:inventory:`) is not the one inventory uses, carts live 7 days
  and not 30 (`PROJECT_PHASES.md:213`).
- `incrementUsage` of coupons has no caller, so no usage limit is ever reached
  (`PROJECT_PHASES.md:343`). An update of a coupon may store a negative value. A merge of a
  guest cart writes back a coupon that was removed meanwhile.
- Products are never indexed when they are created or updated: the search
  listener queues the event's wrapper, and the processor looks for fields of
  the product in it (`search-event.listener.ts`).
- Renaming a category leaves its old slug on its products, where the search looks
  for it. A listener of reviews that fails is logged only, and the rating stays
  as it was until the next moderation.
- An e-mail whose worker stopped twice is given up with attempts left, and may
  have been sent. A result of a quiz that was stored may be marked `FAILED`.
- Moving a category to the top writes its path and leaves its parent. A category
  can be moved below its own descendant. A category may get a child between the
  check and the deletion.
- The quiz is submitted on a public route, where the guard sets no session: no quiz
  belongs to a user, and recommendations use their defaults. A submission whose
  job is not queued stays `PENDING`.
- Registered users are active before they are verified, so a broadcast reaches
  them and the welcome copies it again.
- Both the creation of an order and its payment are tracked as `PURCHASE`. A batch of
  analytics that fails is lost.
- `support.message.offline` and `WARRANTY_EXPIRING` have no listener. Assigning a
  closed ticket reopens it. Filing a claim does not look at the date.
- `updateProfile` can write a phone number back to an account deactivated
  meanwhile. A change of role, a reset of the password by an administrator and a
  deletion leave the sessions of the user alone. Two first readers of the
  settings create two documents.
- A right code may lift a lockout that another request has just set and that is
  about to delete its count: the guesses start from zero again without a lockout
  (it takes five requests). `LimitLocks` counts from there; up to that, enough
  wrong codes always lock.
- `resendOtp` accepts a type that does not fit the identifier. A
  verification answers "verified" although no user matched.

## What is left

1. Compositions: a cancellation in `OrderPayments` as `Release` of
   `StockLedger`; `Checkout` creating the order that `OrderPayments` starts from;
   outbox deliveries driving `Reviews` and `Search` instead of events that may
   come at any time.
2. Abstract specifications for the caches (a cache is the document or
   nothing) and for the queues.
