# Formal model of the marketplace platform

TLA+ specifications of the marketplace API (`src/apps/api`) and of the React client
that calls it (`src/apps/web`): what the API's transactions do to the shared rows, what
row locks and unique indexes guarantee when requests overlap, how the client's tabs
share a session, what its pages show and send while answers come late or never; and
machine-checked proofs of the properties a sale depends on. `PROJECT.json` lists the
components, runs, mutants, the source lines behind every definition, the hazards and
the theorems.

## The system

A FastAPI server over PostgreSQL, and a React client. Every request is one SQLAlchemy
session (READ COMMITTED, `autoflush=False`); there is one background thread, the auction
scheduler. All coordination between requests goes through the database: row locks
(`SELECT ... FOR UPDATE`), unique and partial unique indexes, and lazy expiry (a deadline
that has passed takes effect when somebody touches the row). The client keeps its tokens
in `localStorage`, which all tabs share; everything else is React state of one tab.

| Component | State | Operations | Talks to |
|---|---|---|---|
| Listings, moderation (`catalog.py`, `admin.py`) | `Listing.status`, price, texts | create, submit, PATCH, remove, restore | every trading component writes `Listing.status` |
| Listing images (`catalog.py`, `media/local.py`) | `listing_images` rows, files of `MEDIA_DIR` | upload, register, edit, delete | the row's transaction and the file are separate |
| Orders (`checkout.py`, `orders.py`, `orders/views.py`) | orders, payments, shipments, status history | three checkouts, pay, retry, cancel, lazy expiry, ship, deliver | listing status, offer, auction result and auction rows |
| Offers (`offers.py`) | offers with deadlines | create, accept, decline, withdraw, lazy expiry | reads the listing; an ACCEPTED offer is checked out by Orders |
| Auctions (`auctions.py`, `auctions/scheduler.py`) | auctions, bids, results | create, schedule, start, bid, close by hand or by the scheduler | a result AWAITING_CHECKOUT is checked out by Orders, which settles the auction |
| Identity (`auth.py`, `identity/`) | users, refresh tokens, one-time tokens | register, verify, login, refresh, logout, reset | suspension by `admin.py`; the client's session |
| User administration (`admin.py`) | user status | suspend, reactivate | ends the sessions of the user |
| Reviews, reports, support, messages, notifications, WebSocket, addresses, profile | their own rows | create, read, moderate, reply, push | orders (a review needs a delivered one), users |
| Rate limiting, HTTP headers (`core/`) | in-memory windows | check, record | wraps the routes |
| Web client: session (`auth/`, `Login.jsx`, `Register.jsx`) | stored tokens, the user of each tab | load, log in, register, call with one refresh and one retry, log out | Identity |
| Web client: pages (`pages/`, `admin/`, `hooks/`, `components/`) | what each page shows, loads and sends | load, filter, act, reload | all routes |
| Web client: sell wizard (`Sell.jsx`) | step, draft, photos | next, save, upload, publish | listings, images |

What is hard here:

* requests on one order or listing overlap: two buyers, a buyer and an expiry, a
  payment and a cancellation, a seller or moderator and all of these;
* some handlers lock before they read, some read before they lock (and SQLAlchemy
  then keeps the old columns), some never lock;
* the release of an abandoned order commits in the middle of a checkout;
* locks are taken in two orders (listing then order, order then listing);
* a deadline can pass at any moment and takes effect only when a row is touched;
* one step changes up to five rows (order, payment, listing, result, auction) that
  have to agree afterwards;
* the file of an image is in no transaction with its row;
* tabs present the same refresh token, and a rotated token that comes back is
  taken for a theft;
* answers to the client come in any order, or not at all, while the page moves on to
  another filter, id or account, and other clients move the rows it shows.

What makes each component correct: a listing is sold once, held only for an open
order and never put back on sale by an order after it was sold or taken down (listings,
orders); money moves once, in time, and only for the holder (orders); a result, its
order and its auction agree (auctions, orders); an order rests on an accepted offer
(offers); bids only rise and the highest one at the end wins (auctions); one token
of a login chain works (identity); a picture that is shown exists (images); a page
offers what the status it shows allows, shows what it was asked for, acts on what it shows
and never hangs (client). `PROJECT.json` lists the hazards line by line.

## Modules

| Module | Models | Built on |
|---|---|---|
| `Catalog` | the life of `Listing.status`; the seller's, the ADMIN's and the moderator's transitions | |
| `Sale` | abstract: a listing is held for one buyer at a time, only the holder is charged, a charge is final | |
| `Orders` | every state-changing handler of checkout, payment and fulfilment, one action per committed transaction | `Catalog`; refines `Sale` |
| `OrderTx` | the same tables, with each request a database session whose reads, locks and commit are separate steps | `Orders` |
| `OfferBook` | offers: creation, answers, withdrawal and lazy expiry, with row locks and unlocked reads as separate steps | `Catalog` |
| `Ascending` | abstract: the price only rises, for the one who raised it, until the outcome is decided once, by the reserve | |
| `Auctions` | auctions, bids, results, the requests of the seller and the thread that closes auctions | refines `Ascending` |
| `Tokens` | accounts and refresh tokens on the server | |
| `Session` | the tabs of a browser against them | `Tokens` |
| `Gallery` | image rows, files, and the handlers that change both | |
| `Api` | the statuses and moves of each kind of row, as a client meets them; the shape of a page | |
| `DeskPages`, `TradePages`, `ShopPages`, `ContactPages` | one record per page of the client | `Api` |
| `Site` | all these records, by the name of their page | the four modules |
| `Pages` | the machine that runs any page against the API, for any `Book` of pages | `Api` |
| `SellWizard` | the wizard for a new listing | |
| `OrdersProofs`, `OrderTxProofs` | theorems about `Orders` and `OrderTx` | the second on the first, TLAPS |
| `OfferBookProofs`, `AuctionsProofs`, `SessionProofs`, `GalleryProofs`, `SellWizardProofs` | theorems about the module they are named for | that module, TLAPS |
| `PagesProofs` | theorems about `Pages` for any book of pages, and about the client's own | `Pages`, `Site`, TLAPS |
| `MC...` | small instances for TLC | |

The components of the server meet in the rows they share. `Orders` takes an ACCEPTED
offer and an auction result as given; `OfferBook` and `Auctions` say how they come
about, and contain of the sale only what it does to their rows (`CheckoutOffer`,
`ListingMoves`; `ClaimOrder`, `Forfeit`, `Settle`). `Session` composes the server's
tokens with the client. `Api` gives the pages the outcome of each handler as a table of
status moves, with the status names of the modules above.

### Orders

`order`, `payment`, `result`, `auction`, `shipment` and `history` are the tables,
`listing` is the status column of `Catalog`, `late` is the set of rows whose
`checkout_expires_at` has passed. A row that has not been inserted is `Absent`.
Each action is a whole handler: `PaySucceeds` is `pay_order` with its
idempotency lookup, expiry gate, re-arming of a declined order, settlement of the
auction and audit rows. Requests that are rejected change nothing and are
stuttering steps. Accepted offers and auction results are constants here: an
ACCEPTED offer never leaves that status, and a result enters as
AWAITING_CHECKOUT. The unique indexes of the orders table are `Insertable`.

`history` counts, for each order and status, the audit rows that leave the status and those
that lead to it. The table orders them no further: `created_at` is the start of the
transaction and the id is random, so the two rows of a retry have no first and second.

With `AdminOverrides = TRUE` an ADMIN may PATCH a listing to any status, as
`_apply_seller_status` allows: then only what rests on order and payment rows
holds. The runs set it to FALSE; the theorems that need FALSE say so, the others
(type, ledger, money, settlement, history, refinement) hold for either.

### OrderTx

A request is a task (operation, order, listing, buyer, key) and a session: its
next step, the order row it has in hand, and its copies of the order status
(`seen`) and of the listing status (`shelf`). A lock is a row of `lock`. The steps
are the points where the code reads, waits or commits:

| Request | Steps |
|---|---|
| pay, decline, cancel | `LockOrder` (fresh read and all guards), `ReadListing` (no lock), `CommitPayment` or `CommitCancel` |
| read (`GET /orders/{id}`) | `LoadOrder` (no lock), `RelockOrder` (the copy stays old), `ReadListing`, `CommitCancel` |
| checkout | `LockListing`, then `CommitCheckout`; or `FindAbandoned`, `RelockOrder`, `CommitCancel` (drops the listing lock as well), `RefreshListing` (no lock), `CommitCheckout` |
| ship, deliver | `LoadOrder` (no lock), `CommitFulfilment` |
| archive | `LoadListing` (no lock), `CommitArchive` |
| remove, restore | `Moderate`, which holds the lock from read to commit |

Any session may `Abort`; a lock cycle is broken by aborting one of the two
(`BreakDeadlock`). Orders are fixed-price ones in this module: the offer and
auction checkouts lock one more row first and are left out.

The four operations that lock first (pay, decline, cancel, checkout: `AllLock`) are as
good as sequential: `LockedRowsAgree` and `LockedSaleSteps`. For the others only what
the indexes and the lock of `pay_order` enforce is left: `OneLiveOrder`,
`ChargedWhileUnpaid`, `ShippedIsCharged`. Both halves are proved (below).

`LapsedIsFinal` is the expiry gate among overlapping requests: once the deadline has passed
while nobody holds the row of the order, no payment of it ever succeeds. One that decided
before the deadline holds the row, and its commit may come after it.

### OfferBook

A slot serves one request after another, so that requests may overlap and new ones
keep coming. `Begin` is what the dependencies load with no lock: for an acceptance,
whether the listing was ACTIVE (`onSale`); for a GET, whether the offer was past due.
`LockOffer` is the refresh under the row lock with all the guards and, for an expired
offer, the write of EXPIRED; `LockSiblings` is the `SKIP LOCKED` select of an
acceptance, `CommitAnswer` the commit. `CommitExpiry` is the GET that writes what it
decided earlier. `CreateOffer` is one step: it holds the listing, and the partial
unique index backs its lookup. In place of the rest of the system, `ListingMoves`
changes the listing as `Orders` and moderation do, and `CheckoutOffer` records which
offers an order refers to.

### Auctions

`place_bid` and `close_auction` hold the row of the auction from their first read to
their commit, and are one step each (`PlaceBid`, `Decide`). `schedule`, `start` and
the close endpoint go by a row read with no lock: `LoadAuction`, then `CommitMove` or
`CloseByHand`. The scheduler is the set `sweep` of auctions its cycle still has to
close; an attempt may fail (`SweepSkips`), the process may restart at any point
(`Restart`), which loses requests and the cycle but no row. `clock` is where the time
is in the window of an auction, and `Tick` moves it. Bid rows are numbered in the
order of their creation, which is the tie-break of `_highest_bid`; the idempotency key
of a bid finds the row that exists and changes nothing.

`DueIsDecided` is about auctions that stay LIVE: a schedule request that was overtaken
by a start commits SCHEDULED over LIVE, and past its window such an auction can be
neither started nor closed. `auction_revived` shows the other overwrite of this kind.

The refinement of `Ascending` maps the leader to the bidder of
`current_winning_bid_id` and the outcome to the result row.

### Tokens and Session

`account` and `rows` are `users.status` and `auth_refresh_tokens`; a token is the number
of its row, a chain of rotations is its `family`. `refresh` locks the row it presents
and is one step, its commit; a login counts the active rows (`CountSessions`) before its
commit adds one (`ServeForm`), because nothing locks what it counted. The revocation of a
family and a suspension update rows they have not locked (`Revokes`): they may miss the
successor that a refresh under way is about to commit, also when that refresh read the
account before the suspension.

In the client, `storage` is `localStorage`; each tab has its `user`, its `loading` flag
and five jobs: the load of the user (`loadMe`), the login or registration form, a call
through `authFetch`, the logout, and the flight of the shared refresh, for which load and
call wait. A job is at a request until the answer comes back or is lost; the JavaScript
between two awaits is one step. The calls of a tab are alike, so one at a time stands
for them. `Watched` names the tab whose progress is checked.

### Gallery

`image` is `listing_images`, `file` the keys that have a file. The key of an upload is named
like its image. `add_image` registers a reference with whatever `storage_key` it is given
(`catalog/schemas.py:145`): one that no upload has (`None`), or one that a row shows
(`Shown`); no constraint keeps keys apart, and `remove_image` unlinks the key of its row
whoever uploaded it. `borrowed` records the keys that a reference was registered with, and
`PictureOnDisk` is about the others: nothing but such a removal takes a file away from under
a row. (`media/local.py:5` and `catalog.py:927` speak of keys that never match the file of
another listing; the pattern there tells generated keys from paths, not one upload from
another.)

`upload_image` runs on the
event loop with no await after the body is read, so there is one upload at a time, which
reads the last number, counts, saves the file, inserts the row, and undoes the file after a
conflict; the other handlers run in threads and overlap. A number
beyond the range of the column (`MaxSort`) makes the insert fail after the file was
written, and writing (`UploadBreaks`) or removing (`UnlinkFails`) the file may fail as well. `spoiled` records the files whose request failed or was cut off by a restart
before it was through with them: no handler looks for them later, and
`LeftOnlyByFailure` says that nothing else leaves a file behind.

### Api, Pages and the page modules

A page of the client is a record (`Api!Reader` lists the fields): who may see it and how
it treats a visitor (`gate`), the kind of its rows, whether it shows one row or a list,
whether it numbers its loads and drops overtaken answers (`guarded`), whether another id
mounts it anew (`keyed`), whether it keeps or loses what it showed while it loads or after
a failure, whether it polls, which action it offers in which status (`offers`), which
buttons an action disables (`busy`), where the action takes its row from (`target`), and
what it does with each answer (`done`, `refused`, `failed`: reload, patch the row, stay,
show an error, leave, reload the session, or show the answer apart from what was loaded).
`Conditional` lists the actions that a handler may refuse although the status of the row
allows them (the listing of an acceptance, the window of a bid, the deadline of a checkout
or payment, a spent key), `Repeatable` those it answers with what is already there. `DeskPages` has the administration,
`TradePages` checkout with its addresses, payment, orders, offers, auctions and the seller's
listings, `ShopPages` catalogue, listing, favourites, account and profile, `ContactPages` messages, notifications,
reports and support.

`Pages` runs one of them at a time. `Turn` changes the filter, page number or id, `Again`
is a retry or a poll, `Served` and `Return` are the two ends of a load, `Click`,
`ServeAct` and `ActReturns` those of an action; `Others` is the rest of the world moving a
row within the moves of `Api`. `result` is the answer that the payment page shows in place of
the order it loaded (`View`), until the next press of its button drops it (`Payment.jsx:66`).
`Open`, `Known`, `Visit` and `SignIn` are how a page comes
to be mounted.

### SellWizard

The four steps, the one request under way (`runGuarded`), the draft and the photos on the
screen and in the API. A behaviour is one opening of the wizard.

## What the runs check

| Run | Instance | Result |
|---|---|---|
| `orders_market` | a fixed-price listing with an accepted offer, an auctioned listing with a winner, 3 orders, 3 payment keys, two buyers and the seller | all invariants, action properties and the refinement of `Sale` hold |
| `order_tx` | 4 overlapping requests of all kinds around one listing, a deadline | among requests that lock, the steps of `Sale` and the agreement of the rows; among all of them, one live order per listing, payment only of unpaid orders and never after a deadline that found the row free, shipment only of paid ones; every request is answered |
| `stale_cancel` | a payment and a GET past the deadline | violated: the PAID order is cancelled |
| `offers_answered` | 2 offers on one listing, 2 overlapping requests at a time, expiry, checkout, moderation | an answer stands, an order rests on an accepted offer (both but for a late EXPIRED), every request ends |
| `two_accepted` | 3 offers on one listing | violated: an offer made after an acceptance is accepted too |
| `auctions_live` | 2 auctions with a reserve, 2 bids, 3 amounts, 2 overlapping requests of the seller, the scheduler, restarts | leader, increment and outcome are right, `Ascending` is refined, every auction past its end is decided |
| `auction_revived` | one auction, two requests of the seller | violated: a stale start brings an ENDED auction back to LIVE |
| `web_session` | 2 tabs, one account, 2 jobs at a time, 2 tokens, a cap of 2 | one working token per login chain; loads and calls of a tab come to an end |
| `rotation_evicts` | as `web_session`, 3 tokens | violated: a refresh at the cap revokes another session |
| `web_pages` | every page, 2 rows, 2 moves, 2 loads under way, one turn | what a page offers is refused only when overtaken or by a handler that asks more than the status; it shows the user's own change and what it was asked for, acts on the row on the screen, and settles |
| `gallery` | one listing, 3 images, an upload and 2 other requests, 2 sort numbers, restarts | an uploaded image has its file unless its key was borrowed; only failures leave files |
| `wizard_stuck` | room for 2 photos | violated: a new listing never gets past the first step |

The violated runs state what a comment or docstring of the repository promises; the
`findings` of `PROJECT.json` quote it.

Bounds. Three orders on one listing are enough for an abandoned, a declined and a
live one, and three keys for a decline, its retry and a rival's payment; a property
over two rows (double sale, double charge) needs two of each and one more to get
there. Order ids and keys are interchangeable, hence the symmetry of
`MCOrders`. In `MCOrderTx` every pair of operations overlaps in some choice of
tasks, and the four-request choices include the two-buyer scenarios; the tasks are
fixed per request. In `MCOfferBook` two offers and two requests suffice for rivals
that each hold the row the other one looks for, and for a reader that is overtaken; a
slot is used again and again, so sequences are not bounded. In `MCAuctions` the second
auction is there for what a bid must not do to others, the second slot for a request
that is overtaken by its like; the amounts lie below, on and above the reserve and
closer than the increment as well as apart.

In `MCSession` two tabs suffice for a refresh that another tab overtakes, two tokens for a
rotation and the reuse of what it replaced, three for a cap of two and one rotation at
it; `MaxBusy` lets any two jobs overlap, of one tab or of two. In `MCPages` two rows tell
the right row from the wrong one, two loads are overtaken by each other, two moves are the
user's own change and a rival's; all rows start in the same status, which is arbitrary. A
page is left only when nothing is under way (an unmounted component takes no answer), so
behaviours go on through all pages. In `MCGallery` two sort numbers make a full
listing of two rows, and three images are the one at the limit of the column, the one that is
deleted or whose key is borrowed, and the one that comes in; ids and slots are symmetric. The theorems lift all of these bounds for what they cover. Where liveness is
checked there is no symmetry. Deadlock checking is off where the system may stop: a market
where everything is sold, requests that are all answered, offers that have all been dealt
with, tokens or images that are used up.

Fairness.

* `OrderTx`: each request's next step happens if it stays possible (the server runs
  every request to its end; a lock that is held is given back because its holder goes
  on), and PostgreSQL's deadlock detector always wakes up.
* `OfferBook`: the same, and strong fairness for the steps that wait for a row lock,
  because PostgreSQL hands a row lock on in the order of arrival while new requests
  keep coming.
* `Auctions`: the thread wakes up every 30 seconds and goes through what it found due
  (weak fairness); an attempt to close an auction that is tried again and again does not
  fail for ever (strong fairness of `SweepCloses`).
* `Session`, `Pages`: a request of the browser ends, with an answer or with a network
  failure, and the browser runs the handler that awaits it. Nothing is owed by the API,
  the other tabs or the user.
* `SellWizard`: a seller who keeps clicking what is enabled, and requests that end. The
  violation is stronger for it: even this seller is stuck.

No fairness is assumed for buyers, sellers, moderators, the clock, crashes or restarts.

## What is proved

`OrdersProofs` proves for every number of listings, users, orders, keys,
offers and results, from the assumptions on the constants (`CatalogAssumption`,
`OrdersAssumption`):

* `TypeCorrect`: `TypeOK` is an invariant. One lemma per group of actions that share
  their effect (checkouts, the five ways into `CancelOrder`, payments, fulfilment).
* `LedgerCorrect`: `LedgerInv`, the inductive invariant: at most one live order
  per listing, at most one SUCCEEDED payment per order, charged orders are exactly
  the paid ones. `NoDoubleSale` alone is not inductive: that two charges are for
  different listings follows from different orders, both paid, hence both live.
* `MoneyCorrect` and `SoldOnce` follow from it.
* `ShelfCorrect` (no ADMIN overrides): RESERVED and SOLD mirror the orders. The
  induction runs over both at once, since a declined order leaves its listing to
  whatever comes next only as long as no other order can become live.
* `ModerationHolds` (no ADMIN overrides): an archived listing never comes back, and a removed
  one only in a step that writes no other table, from the type invariant and a case per action.
* `Implementation`: every step of `Orders` is a step of `Sale` or leaves the
  held and charged pairs alone (`PairsMeaning` says what the mapped sets contain).

* `SettlementCorrect`: the inductive invariant `SettledInv` adds that an accepted offer
  or a result has at most one order (`SourceOnce`): otherwise the cancellation of one order
  would close the claim under another.
* `SoldCorrect` is the half of `ShelfCorrect` about paid orders.
* `HistoryCorrect`: `HistoryBalanced` is inductive beside `TypeOK`: one row (`BalancedRow`) or
  the two rows of a retry (`BalancedAttempt`), in whichever order they are stored, keep the
  account of every status.

The lemmas behind them are about `TradeStep`, the kinds of transaction the trade makes,
so that `OrderTxProofs` can use them for the commits of `OrderTx`.

`OrderTxProofs` proves for every number of requests, of any kind, from
`OrderTxAssumption` besides:

* the inductive invariant `TxInv`. `Disciplined(p)` is the lock discipline: a session
  that prepares a payment or a cancellation has its order locked; if it is a payment, the
  order is unpaid; one that will ship or deliver has an order that was charged. The part
  about payments is not inductive without the part about locks, because unlocked writers
  (stale readers, ship, deliver) write statuses too, and must all wait for the row.
* `TxTypeCorrect`, `OneLiveCorrect`, `ShippedCorrect`, `ChargeCorrect` follow from it.
* `LapsedCorrect`: once the deadline found the row of an unpaid order free, no session with a
  payment of it can come to hold the row, so none ever charges it (`Forgone`).

About waiting, for requests of every kind:

* `UntangledCorrect`: every line of waiting requests ends, after three of them at the latest,
  with one that waits for nobody or with two that wait for each other, a payment or
  cancellation and the checkout that releases its order. The inductive part is `Lined`: who
  holds an order only goes on to its listing; who holds a listing is a checkout and goes on to
  an order on that listing. This is why aborting one of two (`BreakDeadlock`) is enough. The
  assumption `OrderIds \cap Listings = {}` says that row locks belong to rows of two tables.
* `LocksRespected` ties the definition of the wait (`Wanted`) to the steps: no request takes
  a step while another one holds what it wants.

About requests that all lock (`AllLock`), with no condition on `AdminOverrides`:

* the inductive invariant `LockedInv` joins the invariants of `Orders` with
  `Informed(p)`: the copies that a session decides on still are what the rows say. The copy
  of the order is, because it is locked; the copy of the listing, which no payment or
  cancellation locks, because an unpaid order determines the status of its listing
  (`ShelfOfUnpaid`) and no other order on it can be live.
* hence every commit is a `TradeStep` (`CheckoutIsTrade`, `CancelIsTrade`,
  `PaymentIsTrade`), and the lemmas of `OrdersProofs` apply: `RowsAgreeCorrect` and
  `SaleStepsCorrect`.
* `PaymentWinsAmongLockers`: an order that has been paid is never cancelled. This is the
  comment that `stale_cancel` refutes, with the condition under which it is true: the run
  needs the request that reads first.

`OfferBookProofs` proves for every number of offers, listings, users and slots
(`OfferAssumption`, `CatalogAssumption`):

* `DisciplineKept`: `Discipline`, the inductive invariant together with `TypeOK`. A
  request has its offer locked from its guards to its commit, and whatever is locked is
  still PENDING. Neither half is inductive alone: a commit writes all rows the request
  has locked, so they must be unanswered; they stay unanswered because the others need
  the lock. Type correctness needs it as well, since a status can be written only to a
  row that exists.
* `AnswerCorrect`, `OrderedCorrect` follow from one lemma
  (`StepSettles`): every row a request writes was PENDING, or becomes EXPIRED.
* `HoldersNeverWait`: who holds an offer waits for no other, so offers cannot deadlock
  although an acceptance locks a set of rows in no fixed order. It rests on `SKIP LOCKED`
  (`PassOver`) and on the discipline; it is the safety half of `RequestsEnd`.

`AuctionsProofs` proves for every number of auctions, bids, users, amounts and slots
(`AuctionAssumption`):

* `BookCorrect`: `BookInv`, the inductive invariant. The columns of an auction describe
  its leading bid (`Leads`), all other bids are OUTBID and an increment below (`Trails`),
  bids keep their distance (`Apart`), and a result exists only after the end and names
  the leading bid or says why it does not win (`Decided`).
* `LeaderCorrect`, `IncrementKept`, `OutcomeCorrect` follow from it; none of the three
  is inductive alone: the outcome is fair because bids cannot come after it, and the
  increment is kept because the price is that of the highest bid.
* `Implementation`: a bid is a `Raise`, a close that decides is a `Decide`
  (`WinnerIsTop`: only the leading bid can win), everything else is a stutter.
* `EndedIsFinalAlone`: with one slot, an ENDED auction becomes SETTLED or stays ENDED. The
  invariant `Alone` says that the request under way still has the status of its auction
  right. `auction_revived` needs two slots; one request of the seller and any number of bids,
  sweeps and restarts are harmless.

`SessionProofs` proves for every number of accounts, tabs, tokens and jobs
(`TokensAssumption`, `SessionAssumption`):

* `TokensTracked`: `SessionInv`. Every token that storage, a job or an answer on its way
  holds was issued by the server; a rotation leaves one working token in its family because
  the successor is added in the step that revokes the one before. `TypeCorrect` and
  `ChainCorrect` follow.
* `NobodyWaitsInVain`: a tab shows that it loads exactly while the profile is on its way,
  and what waits for the shared refresh of its tab has one under way. The invariant
  `Attended` is the safety half of `RequestsSettle`: given answers, nothing else can hold a
  job up.
* `NoLoops`: "One refresh + one retry, then give up" (`auth/auth.js`); a second try never
  waits for another refresh.
* `RotationBelowCap`: a refresh never adds a session of its user, and while there are fewer
  than the cap it ends none but its own. `rotation_evicts` is about the one case that is left,
  as many sessions as the cap.

`GalleryProofs` proves for every number of listings, images, slots and sort numbers
(`GalleryAssumption`):

* `FilesCorrect`: `FilesInv`. Besides `PictureOnDisk` it says that an upload between save and
  commit still has its file and shares its image and key with nobody (`UploadHolds`), that what a
  request is about to unlink has no row any more (`UnlinksDead`), that a row, and whoever removes
  it, has the key of its own image, of no upload, or one that is borrowed (`OwnOrBorrowed`), and
  that a row whose image has a file has its key (`OwnFile`): without them, a deletion could take
  the file of another row or of one that is yet to come. `TypeCorrect` and `PictureCorrect`
  follow; `LeftoversCorrect` needs it too, to know what each step does to the files.

`PagesProofs` proves, for every book of pages and any number of rows, commits, loads,
actions and turns (`PagesAssumption`; TLC evaluates it, and with it that each page of
the client is `WellFormed`):

* `PageCorrect`: `PageInv`, the inductive invariant. `Bounded` counts the commits made and
  those still owed to actions under way, without which the version numbers would leave their
  type. `Idle`: nothing is under way behind a page that is not there. `Waits`: a page that
  says it loads has a load under way whose answer it will take, the safety half of
  `PageSettles`. `QueryInv`: loads, screen and actions belong to the query they were made for.
* `ShownCorrect`, `TargetCorrect` follow from it, for pages that are `Following` (a page
  that numbers its loads drops the screen when the newest fails, and offers nothing while it
  still shows other rows).
* `OfferedCorrect`, for pages that are `Honest` (what is offered for a status has a move from
  it); the refusals of `Conditional` apart: `VersionInv` says that what was read under a version number is what
  the row was at that version, in answers, on the screen and in actions alike.
* `AnswerShown`, for honest pages that are `Confirming` (one action at a time, a reload after it):
  `ToldInv` says that a load whose answer will be shown was sent after the last action was
  answered, hence read its commit.
* `ClientCorrect`: the client itself. `SiteSound` goes through the records of the four page
  modules and shows that each is `Following`, `Honest` and `Confirming`, so that the four
  properties hold of `Book = Site` with no condition but the exemptions they state. The tables are finite; what the
  theorem adds to the run is any number of rows, rivals, loads and turns.

`SellWizardProofs` proves for any number of photos:

* `NothingIsSent` and `DetailsUnreachable`: for a new listing photos wait for a draft, the
  draft for the details, the details for a photo (`Stuck`). No click sends anything, and
  `SellerReachesDetails` fails in every behaviour, not only in the one that `wizard_stuck`
  shows.

Every type invariant, safety invariant, action property and refinement that a passing run
checks is the conclusion of a theorem. Only model-checked: liveness (`EveryRequestAnswers`,
`RequestsEnd`, `DueIsDecided`, `RequestsSettle`, `PageSettles`), which the prover does not
handle. For all but `DueIsDecided` a theorem says that whoever waits, waits for something
that is under way (`UntangledCorrect`, `HoldersNeverWait`, `NobodyWaitsInVain`,
`PageCorrect`); that these steps come is the fairness above. The findings are
counterexamples, which need no proof; four of the five have a theorem about what they depend
on (`PaymentWinsAmongLockers`, `EndedIsFinalAlone`, `RotationBelowCap`, `DetailsUnreachable`).

## Behaviours that no property forbids

Found while the models were written, and part of them; no run states the opposite,
because the repository promises nothing definite, or because one run already shows the
same kind of overwrite. Paths are below `src/apps/api/app` and `src/apps/web/src`.

Server:

* A declined payment shows its listing as ACTIVE ("so the listing stays purchasable",
  `api/v1/orders.py:354`), but its order is still live and `uq_orders_listing_id` blocks
  every checkout until somebody cancels it or reads it after its deadline. The payment of
  such an order reserves and sells the listing again.
* A stale GET or cancellation writes ACTIVE over what another order has made of the listing
  (`orders/views.py:71`): over SOLD after a new checkout and its payment. `LockedSaleSteps`
  is therefore about sessions that lock. Likewise a GET writes EXPIRED over an ACCEPTED
  offer (`api/v1/offers.py:76`).
* The timeline of an order is sorted by `created_at` and id (`orders/views.py:153`): the two rows
  of a retry have the same time and random ids, so the second may be listed first.
* Removing a reference that was registered with the key of an upload removes the file of that
  upload (`api/v1/catalog.py:944`).
* Two ship requests ship twice, or put DELIVERED back to SHIPPED (`api/v1/orders.py:459`).
* The checkout that has released an abandoned order reserves a listing that a moderator
  removed in between (`api/v1/checkout.py:174`).
* Overlapping logins exceed the session cap (`api/v1/auth.py:186`), and `verify_email`
  writes ACTIVE over a suspension (`api/v1/auth.py:446`).
* `sort_order` of an image is not bounded by the request schema (`catalog/schemas.py`) but by
  its column: one image at the limit makes all further uploads of the listing fail. Deleting
  the primary image leaves a gallery without one.
* `start_conversation` looks for the stripped text of a first message and stores the raw one,
  and two first messages race on a unique constraint (`api/v1/messages.py:130`).

Client, session:

* A refresh under way at logout stores its tokens afterwards, and the next load signs the
  user in again (`auth/auth.js:124`).
* `loadMe` and the administration clear the tokens on any failure, a lost answer included;
  the refresh is shared within a tab only, so that two tabs can present one token and lose
  the whole login chain.
* Logging out on a page behind a gate stores that page as the destination of the next
  sign-in. `reloadUser` sets `loading`, which unmounts the page that called it (`"remount"`).

Client, pages:

* Pages that do not number their loads show the answer that comes last: the
  administration's lists (`useAdminData`), `Users.jsx`, and `Messages.jsx`, where the thread
  of one conversation can appear under another one and a reply goes to the latter. The
  properties exempt them once the query has changed (`guarded`, `keyed`, `turns = 0`).
* After a reload of the browser, `Support`, `SupportDetail` and `Reports` send a signed-in
  user to the login page, because they do not wait for the session (`gate = "own"`).
* `MyListings` remembers one busy row: a second action re-enables the first row's buttons,
  and their reloads overtake each other.
* A press on the payment page drops the answer of the one before (`Payment.jsx:66`) and falls back
  to the order as it was loaded: after a decline, a retry that fails or is refused leaves
  PENDING_PAYMENT on the screen, older than the PAYMENT_FAILED the user was told of.
  `ReadYourWrites` is about this page only while it shows an answer.
* Buttons that go by the status are refused for other reasons: an acceptance when the listing is
  not ACTIVE (`api/v1/offers.py:305`, offered by `OfferDetailModal.jsx:173` for every PENDING offer),
  a bid outside the window of a LIVE auction (`api/v1/auctions.py:447`), a checkout whose listing
  or deadline is gone.
* `Payment` keeps its result and key when the address changes from one order to another, and
  offers payment of orders that are CANCELLED or SHIPPED; `OfferCheckout` keeps its form when
  an order exists. A fixed-price checkout whose answer is lost only gets a 409 on its retry.
* `SupportDetail` reports a failed reload as a failed reply; `Messages` blanks its thread at
  every poll; hearts and reviewed marks are empty until their first answer.
* A page that turns to other criteria does not go back to its first page of results.
* The notification socket reconnects after the server has refused it (4401, 4403).
* The wizard never updates the terms of an auction after the first save.

## Plan

Done: all modules above, with their runs, and the proofs of all safety properties that
the runs check, the pages of the client included.

What would come next, in this order:

1. `OrderTx` with the offer and auction checkouts (one more lock in front) and the PATCH of
   an ADMIN; `LockedInv` would need the offer and result rows.
2. One-time codes and their resending in `Tokens`, and the unlocked read of `verify_email` as a
   step of its own.
3. Conversations and the default address: two small modules of the same shape (a decision on
   an unlocked read, backed or not by a unique index).

4. A theorem on the boundary of `two_accepted`, the finding that has none: what an acceptance
   that overlaps no other one leaves unanswered was offered after it looked for siblings.

Runs stay one per question: a run that shows the same kind of overwrite as another one
(a stale reader, an unlocked update) makes room for those of new components.

## Not modelled

Prices, texts, search, pagination counts and serialisation (no property here is about
them); ratings and summaries; the rows of notifications and their push beyond what the
pages show; rate limiting, which only refuses requests early (every model lets a request be
refused or lost); HTTP headers and configuration; the migrations (the models define the
constraints); the bootstrap script; layout, menus and the hash router of the client. The
status of each component is in `PROJECT.json`.
