# Verification of the NGU spices backend

TLA+ models of this Django backend: orders, payments, stock and tax documents, the
pricing and the returns filed from it, accounts, the catalogue and its cache,
reviews, analytics, the assistant and the search; the TLC runs that check them on
small instances, and theorems that the TLAPS proof system checks for every
instance. `PROJECT.json` ties each definition to the lines it models and lists the
runs, hazards, findings and theorems. Paths below are relative to the repository
(`src/`).

Contents: [the system](#1-the-system) ·
[what is hard](#2-what-is-hard-about-it) · [the modules](#3-the-modules) ·
[the runs](#4-the-runs) · [bounds](#5-bounds) · [fairness](#6-fairness) ·
[proofs](#7-proofs) · [findings](#8-where-the-code-does-not-do-what-it-says) ·
[what the code does not promise](#9-what-the-code-does-not-promise) ·
[not modelled](#10-not-modelled) · [plan](#11-plan)

## 1. The system

A web shop. Several gunicorn workers serve requests, one scheduler process runs
background jobs, staff run repair commands by hand; they share one PostgreSQL
database and a Redis cache. `ATOMIC_REQUESTS` is not set: only what is inside
`transaction.atomic()` is a transaction, and every other statement commits by
itself. Money comes through Razorpay (ONLINE) or in cash (COD).

| Component | State | Operations | Module |
|---|---|---|---|
| Cart (`cart/views.py`) | `Cart`, `CartItem` | add, update, remove, clear, sync | Checkout |
| Checkout (`orders/views.py` create) | `Order`, `OrderItem`, `OrderItemComponent`, stock, coupon uses | read and price the cart, then one transaction: supersede, reserve, redeem, empty the cart | Checkout; one step in OrderPayments |
| Stock (`orders/views.py` `restore_order_stock`, `products/`) | `ProductVariant.stock`, `ProductComboItem` | reserve, give back, count, edit | Checkout, OrderPayments |
| Orders (`orders/views.py`) | `Order` | cancel, staff PATCH, Recycle Bin | OrderPayments |
| Payments (`payments/views.py`, `payments/services.py`) | `Payment`, `PaymentEvent`, `ProcessedWebhookEvent` | create-order, verify, webhook, captured, failed | OrderPayments |
| Reconciliation (`payments/management/commands`) | the Razorpay orders it asks about | L3 job, resync | OrderPayments |
| Refunds (`orders/refunds.py`) | `OrderRefund` | record a refund | OrderPayments, TaxDocuments |
| Tax documents (`orders/invoicing.py`, `credit_notes.py`) | `Invoice`, `CreditNote`, `InvoiceCounter` | issue, fail, backfill | TaxDocuments |
| Recycle Bin purge (`purge_recycle_bin.py`) | - | check, delete | TaxDocuments, Listings |
| Coupons (`admin_panel/models.py`) | `Coupon.usage_count` | redeem, discount | Checkout, Pricing |
| Pricing and GST (`orders/pricing.py`, `orders/views.py`) | the columns of an order's lines and header | quote, bill, refund, reverse | Money, Pricing |
| Returns and papers (`orders/gst_ledger.py`, `gst_reports.py`, `invoice.py`) | - | registers, summaries, print, export | GstLedger, Documents |
| Sizes (`products/`) | `ProductVariant`, the mirror columns of `Product` | add, edit, retire, bulk editor, sheet import | Sizes |
| Products (`products/`) | `Product`, `ProductSlugAlias` | create, edit, rename, bin, restore, purge | Listings |
| Reviews (`reviews/`) | `Review` | post, edit, delete, hide, feature, strip | Reviews |
| Catalogue cache (`products/cache.py`, signals) | the cached pages | read, compute, store, drop, expire | Storefront |
| Accounts (`users/`) | `User`, `PasswordResetOTP`, refresh tokens | register, codes, reset, profile, email, login, refresh, logout | Accounts |
| Analytics (`analytics/`) | Redis counters, `DailyAnonStat`, `UserEvent`, roll-up rows | visit, drain, roll up, drift check, panels | AnonCounters, Analytics |
| Assistant (`assistant/`) | `AssistantConversation`, `AssistantMessage`, the account's lock | turn, hand-off, staff reply and form, tools | Assistant, ShopTools |
| Search and favourites (`products/recommendations.py`, `personalization.py`, `cart/views.py`) | the cached corpus, `ProductSearchKB`, `Favorite` | search, suggest, recommend, synonyms, sync | Search, Discovery |
| Support form, e-mail, saved payment methods, limits | | | see [10](#10-not-modelled) |

How they interact:

- The Order row is the meeting point. The customer, staff, the webhook, verify,
  L3, resync and a later checkout all move it. The canonical lock order is
  Order, then Payment; each such transaction is one action of the models.
- Razorpay is outside. create-order calls it between a check and a lock, L3
  between a query and a lock; whoever holds a Razorpay order may pay it at any
  time, even after it was replaced on the Payment row.
- Documents are raised inside the transaction of the event that makes them due,
  in a savepoint whose failure is logged and repaired by a command.
- Commands take no order lock when they decide: `backfill_invoices` judges
  copies read in batches, the purge checks and then deletes.
- Signals connect the catalogue to its cache, its mirror columns and the search
  corpus: a save in autocommit is visible before its signal runs, a save in a
  transaction after it.
- Roll-ups read orders, refunds and events in several queries while they change;
  returns and prints read only what was frozen, exports and credit-note PDFs
  also the present.
- The assistant acts on the cart only through a card the customer taps later.
- Checkout reads the cart and recipes twice with no lock, and looks again only
  at the stock and the coupon when it holds their locks.

## 2. What is hard about it

The hazards, each at its line, are in `PROJECT.json`. By family:

- **Reports of one capture** by verify, the webhook and its redeliveries, L3
  and resync, in any order, against declines of other attempts.
- **State read before a call or a lock and used after it**: create-order around
  the mint, L3 around the fetch, checkout around its two reads, a staff form
  around a sale, the backfill around its batch, the purge around its check.
- **Five ways to release an order** (cancel, staff edit, refund, L3,
  supersession), some of them after one another.
- **Partial failure**: a document that fails inside a capture, a lost insert
  that burns a number, a worker that dies after the mint.
- **Whole-row writes**: Django's `save()` without `update_fields` writes back every
  column as it was read: users, sizes, products, reviews, threads.
- **A cache between a change and its reader**: the product list, the search
  corpus, the anonymous counters, the account's lock.
- **One figure computed in several places**: quote, bill, invoice rows, refund
  tax, credit note, returns, export, each with its own rounding.
- **Limits**: a coupon with one use, the last unit, the cap on COD orders.
- **Something must happen**: an unpaid order gives back its stock, a capture
  gets an outcome, although webhooks are lost.

Correct means: stock adds up; money taken is booked or flagged, once; a
cancelled order does not come back through a payment; refunds stay within money
received; each supply has one invoice, in an unbroken series, and what is given
back has a credit note; a coupon is not used more often than it may be; every
figure of a filed month can be derived again; an account's password, address and
sessions are what its owner last made them; what the shop shows is what it has,
or about to be; a day's figures settle; a waiting customer is seen.

## 3. The modules

| Module | What it is |
|---|---|
| `OrderPayments` | Orders and payments: rows, handlers, Razorpay, webhooks, L3 |
| `CaptureOutcome` | Abstract: a capture gets one outcome and keeps it |
| `TaxDocuments` | Extends OrderPayments with invoices, credit notes, series, repairs, purge |
| `Checkout` | Opens the one-step checkout of OrderPayments: carts, combos, coupon, editors |
| `Money` | Rounding, tax in and out of a price, discounts, the split of a combo line |
| `Pricing` | One order from the shelf to its notes, to the paisa |
| `GstLedger` | Extends Pricing with the returns of a month |
| `Documents` | Extends GstLedger with what is printed and exported |
| `Accounts` | Users, emailed codes, sessions |
| `Sizes` | The sizes of a product, the default one, its mirror |
| `Listings`, `Reviews` | Products with slugs and bin; reviews and the strip of the home page |
| `Storefront` | Composes the two under the cached page |
| `AnonCounters`, `Analytics` | Counters and their drain; the roll-ups, which run the drain |
| `Assistant` | One thread of a customer, the assistant and the team |
| `ShopTools`, `Search` | What the tools say and propose; scores and rows: pure functions |
| `Discovery` | Composes the two with edits, cached corpus, synonyms, cards, favourites |
| `MC...` | Instances for TLC |
| `Checkout_proofs` | Types of the rows, uses of a coupon, one order awaiting payment, stock |
| `TaxDocuments_proofs` | OrderPayments: types, stock, no reopening, completed is final, confirmations, accounting, refinement of CaptureOutcome, money behind the books. TaxDocuments: both series, what is billed and noted, the amounts credited, invoices kept |
| `Accounts_proofs` | What is verified was proved; passwords, evictions, quota of codes |
| `Pricing_proofs` | Money: roundings, splits, sums of sums. Quote, bill, invoice, refunds, notes, prints, returns and export of an order |
| `Catalogue_proofs` | Storefront: links and bin, the strip, the cached page; sequences of a set in order. Sizes: one default, the due one, and its mirror |
| `Assistant_proofs` | Assistant: one question at a time, waiting customers seen, flags and silence. Discovery, with ShopTools and Search: what is cached, ranked and shown, and what a tap does |
| `Analytics_proofs` | Visits counted once, rows that tell of their day |
| `NumberFacts` | Lemmas on least and greatest numbers, places by a strict order, and sums over finite sets |

### OrderPayments

State: `order` and `payment` are the rows, with the columns some guard reads;
`shelf` is the stock of the one variant sold; `processed`, `ledger`, `mails`
are the webhook de-duplication table, the `PaymentEvent` rows, and the
confirmations sent; `razorpay` is the other side; `acked` the webhook events
answered 200; `req` and `l3` hold what a handler read and has not yet used.

| Action | Code |
|---|---|
| `Checkout` | the transaction of `OrderViewSet.create`, supersession included |
| `Cancel`, `AdminUpdate`, `SoftDelete`, `Undelete` | `cancel`, PATCH (all its edits in the order of the code, refund last), Recycle Bin |
| `CreateOrderMint`, `CreateOrderCommit`, `CreateOrderDies` | `create_razorpay_order` up to the API call, after it, and a worker that dies between |
| `VerifyPayment`, `RazorpayWebhook` | L1 and L2, both through `MarkCaptured` / `MarkFailed` of `payments/services.py` |
| `GatewayCapture`, `GatewayDecline` | Razorpay |
| `L3Query`, `L3Fetch`, `L3FetchFails`, `L3Act`, `L3Finish`, `L3Crash` | `reconcile_payments` |
| `ResyncPayment` | `resync_payments` |

`Outcome == INSTANCE CaptureOutcome WITH outcome <- ...` reads the outcome of a
capture off the `PaymentEvent` rows: `OneOutcome` is the safety part and
`EveryCaptureSettles` the whole, with liveness.

### TaxDocuments

Each handler that can raise a document is the OrderPayments action conjoined
with what it raises (`PlaceOrder`, `Capture`, `CancelOrder`, `PatchOrder`);
actions that raise none leave the documents alone (`Elsewhere`).
`MaybeIssueInvoice`, `RecordRefund` and `MaybeIssueCancellationNote` have a
branch for failure; `backfill` is `backfill_invoices` with its stale copies
(`BackfillLoad`, `BackfillJudge`, `BackfillIssue`, `BackfillEnds`);
`BackfillCreditNote`, `PurgeCheck` and `PurgeDelete` are the other commands.
`PatchPlaceCheck` and the PATCH are two steps because the check of
`place_of_supply_state_code` precedes the transaction.

### Checkout

`ReadCart` is the validation and the first read of the recipes, `PriceCart` the
second read and the gates of COD, `PlaceOrder` the transaction, `CheckoutFails`
every way to give up. `Credited` is what `restore_order_stock` gives back for a
line: the snapshot, or today's recipe when there is none. A staff form
(`EditSize`, `SaveSize`) writes the whole row it read; a recipe is deleted and
written row by row (`EditRecipe`, `WriteComponent`). `units` and `clobbered`
are history variables: how many units there are, and which sizes a form has
taken back in time.

### Money, Pricing, GstLedger, Documents

Amounts are whole paise and rates whole percent. Each rounding of the code is
modelled as it is: `HalfUp` for tax, `HalfEven` for a percent coupon, and
`Nearest` where the code divides in 28 digits before it rounds, so that a tie may
fall either way. `CreateOrder` is the arithmetic of `OrderViewSet.create` (a
discount per line, a price per unit, the slabs of a combo), `ViewCart`,
`ValidateCoupon` and `QrAmount` are the code's other prices of the same cart.
`Issued` freezes the invoice, `RecordRefund`, `CancellationNote` and
`BackfillNote` reverse it, while staff edit the shelf, the order's place of supply
and the shop's own state. Whether and when a document is raised is TaxDocuments'.

### Accounts

No handler is in a transaction. Each is two steps, a read of the rows it
decides from (`Session`, `Judge`, ...) and a write from those copies (`Entered`,
`SaveProfile`, `SwapEmail`, ...), and any other request may come between. A write
with `update_fields` changes those columns only; the others put the row back.
`proved`, `standing`, `stale` are history variables.

### Sizes, Listings, Reviews, Storefront

`ProductVariant.save` is one transaction with its signal in it; Sizes has its
reads, its writes and its commit as steps, with the locks of the rows written.
Listings has the forms of products as read and save, the slugs with the aliases
that a rename leaves, the slugs of the sizes, the bin, and the purge as a check and a
delete. `Resolve` is the detail endpoint: the product at the slug, else that of a size
on sale there, else that of the alias, each looked for among the rows that who asks
(staff or a shopper) is shown. Reviews has
the three requests that save what they read: the author's edit, hide, feature.
Storefront runs both under the cached page: `Compute` and `Store` are two steps,
and so are a change and the `Drop` of its signal, in the order of autocommit
(change first) or of a transaction (drop first).

### AnonCounters, Analytics

`Hit` bumps the counters of a request; a drain is `ReadIndex`, `TakeCounts`,
`UpsertCounts`, `CleanUp`, and dies anywhere. An order is placed, cancelled, revived,
binned, restored, refunded, and its cash ticked and un-ticked, each an action
(`CancelOrder`, ..., `ConfirmCash`). A roll-up reads the orders of a day,
then the rest, then writes the row over whatever is there. Every figure is a sum
over orders, so a row keeps the sets; two rows with the same sets have the same
figures.

### Assistant

A turn is `ClaimTurn` (the lock), `BeginTurn` (reads the thread), the saved
question, `Round`s of the language model and their failures, the answer and
`ReleaseTurn`; each is a step. Staff reply or save a form from the row they read.
The tools read the shop and touch nothing of the thread, so a round is one step,
and what they say is in ShopTools.

### ShopTools, Search, Discovery

Texts are words whose likeness is given: what the fuzzy matcher and the embedding
return is data, what is done with it (weights, thresholds, merging, padding,
clamps) is the code's. Discovery lets the shop change between the building of the
corpus and a search, and between a card and its tap. What the model says is joined with the
boosts of the name and with terms of the product's own (`Deterministic`) and cleaned of the
name and of generic words (`Cleaned`). A view and a purchase are recorded by requests of
their own (`ViewProduct`, `BuyProduct`); the personal row reads both.

## 4. The runs

All runs use small sets, breadth-first and exhaustive. `CHECK_DEADLOCK FALSE` where
a shop in which nothing is left to do within the bounds stops.

| Run | Question |
|---|---|
| `order_payments_races` | Two ONLINE orders, one superseding the other, two create-order requests, two Razorpay orders, every handler: types, stock, one confirmation, no capture dropped, money not booked is flagged, no reopening, one outcome |
| `order_payments_settles` | Under L3 alone an order awaiting payment is paid or cancelled; with Razorpay's redeliveries every capture gets its outcome: OrderPayments implements CaptureOutcome, liveness included |
| `tax_documents` | ONLINE, COD and free orders, two of them, refunds in instalments, failures, repairs, purge: billed or logged, noted or logged, squared, backed by money, both series accounted for number by number |
| `checkout` | Two checkouts of a customer, ONLINE or free by a coupon with one use, a size and a combo made of it, one staff edit: stock, coupon, one order awaiting payment |
| `pricing` | An order of three carts, two shelves, four coupons, over two months: quote, bill, slabs, notes, returns, prints and the export tell one story |
| `accounts` | Two requests among all of users/views.py on one account: what is verified was proved, the password and evictions stand, codes within the quota |
| `sizes` | Two staff requests on the sizes of a product: the next undisturbed save leaves one default, the due one, and its price on the product |
| `storefront` | Products, reviews and their cached page: links, the bin's clock, the strip, no old page |
| `analytics` | Two jobs over two days with deaths, visits and edits of orders: counted once, rows exact, every day settles |
| `assistant` | Two requests of a customer, two of staff: one question at a time, a waiting customer is seen, every question is answered |
| `discovery` | Edits, a cached corpus, synonyms, cards and favourites: found by name, matches first, taps checked again |
| `self_cancel_keeps_no_capture` | expects a violation, see [8](#8-where-the-code-does-not-do-what-it-says) |

A run checks few names; most are the conjunction of properties that are stated, with
their comments, above it in the module:

| Checked | Parts |
|---|---|
| `MoneyBacked` | `PaidMoneyExists`, `RefundsBacked` |
| `UnitsAddUp` | `TypeOK`, `StockConserved` of OrderPayments |
| `Documented`, `SeriesAccounted` | `SupplyInvoiced`, `RefundsNoted`; `DocTypeOK`, `InvoiceSeries`, `GapsExplained` |
| `StockAddsUp` | `TypeOK`, `StockConserved` of Checkout |
| `BillReconciles` | `TypeOK`, `SplitExact`, `RowsNearHeader`, `SlabsReconcile`, `QrAsksForTheGoods` |
| `ReversalsCover`, `FiguresAgree`, `PapersStand` | `NotesCover`, `WholeReversalNets`; `ReportsAgree`, `PrintAddsUp`, `ExportAgrees`; `FiledStands`, `PrintStands` |
| `AccountProved`, `OwnerStands` | `TypeOK`, `VerifiedProven`, `SessionsProved`; `PasswordStands`, `EvictedStaysOut` |
| `SizesSettle`, `ListingsHold`, `StripSound` | `TypeOK`, `SettledExact`; `ListingTypeOK`, `LinksLead`, `BinClock`; `ReviewTypeOK`, `StripFull`, `BannedStaysOff` |
| `RowsTell`, `VisitsCounted` | `TypeOK`, `RowsExact`, `PanelsAgree`, `NewOnce`, `FunnelHonest`; `CountedOnce`, `LostOnlyInTheGap`, `DevicesAddUp` |
| `ThreadSound`, `HandoffMeans`, `TurnsEnd` | `ChatTypeOK`, `OneQuestionAtATime`, `WaitingIsSeen`; `TroubleRaisesNoFlag`, `PauseKept`; `QuestionsAreAnswered`, `LockGivenBack` |
| `ShownTrue`, `TapsHold` | `DiscoveryTypeOK`, `CorpusTrue`, `KbFilled`, `MatchesOutrank`, `RowFull`, `ShownCanBeProposed`; `TapsAreChecked`, `FavouritesKept` |

What the less obvious properties say:

- `UnbookedMoneyFlagged`: a completed payment whose order does not say paid, and
  was not refunded, is on the exceptions queue.
- `CaptureAccounted`: a 200 to Razorpay is given only after some row says what
  became of the money. Razorpay does not send the event again.
- `EveryCaptureSettles`: whatever happens, an outcome once given stays; and if the
  webhooks are redelivered every capture gets one.
- `CancellationSquares`: with the notes before it, the cancellation note
  credits exactly the invoice.
- `GapsExplained`: the gap the ledger report shows is at most the numbers burned
  by lost inserts; credit notes have no gap.
- `StockConserved` of Checkout: a unit is on the shelf or in a live order. It
  sets apart two leaks that the code has (see 8): sizes overwritten by a form
  (`clobbered`) and orders whose combo lines left a snapshot other than what
  they drew (`Loose`).
- `RowsNearHeader`, `ReportsAgree`: rows and header of a bill are rounded apart; the
  properties bound how far, and by that bound the two returns made from them.
- `PasswordStands`, `EvictedStaysOut`: set apart an account one of whose rows was
  written back from an old copy (`stale`), and a rotation that had passed its
  check when the tokens were revoked (`late`); everything else must hold.
- `SettledExact`, `DefaultFollows`: say what the next undisturbed save repairs, since
  two overlapping ones may leave two defaults or none.
- `PageTrue`, `CorpusTrue`: an old page is either about to be dropped, or one of the
  three ways in which the code lets it live until it expires (`excused`).
- `RowsExact`: outside `stale`, which a change of a day's source sets and a run that
  begins to read later takes off; `Settles` says that every day leaves it.

Every property of a passing run has a mutant in `PROJECT.json`: a plausible bug
in one mapped definition under which the same run fails.

## 5. Bounds

| Bound | Value | Why it is enough |
|---|---|---|
| `Orders` | 1 or 2 | Orders meet only by supersession, stock, the series and the counter: two |
| `Requests`, `Hands`, `MaxDesks`, `MaxTurns` | 1 or 2 | A race is between two: create-orders, checkouts, saves, questions |
| `MaxRzp` | 1 or 2 | A replaced Razorpay order and its replacement |
| `Units`, `FirstStock` | 1 or 2 | The last unit |
| `Totals` | 1; 0 and 2 | Free orders; refunds in two instalments |
| `MaxFailures` | 1 | One failed invoice and one failed note, at any time |
| `PairIsPlain`, `ShortIsAlone` (constraints of MCOrderPayments) | | While two orders are placed they are superseded, paid or binned, without declines, refunds or a second request; those are explored on one order |
| `PairIsCash` (constraint of MCTaxDocuments) | | While two orders are placed they are cash orders to be billed, which is where the series and the backfill meet; the rest is explored on one order |
| `CombinedEdits` | FALSE | Leaves out the PATCH that un-ticks the cash and refunds at once (see 9) |
| `HandEdits` | {} | Staff may type any payment_status; leaving it out keeps `RefundsBacked` and `PaidMoneyExists` about the handlers (see 9) |
| `AdminStatuses` | per run | shipped, cancelled, refunded are the ones with effects |
| `Places` (TaxDocuments) | 1 | The place never decides a step there; Pricing has two |
| `Counts`, `MaxEdits`, `MaxQuantity`, `Recipes` (Checkout) | {2}, 1, 1, two recipes | One staff edit of each kind, at any moment of two checkouts; a box of one or of two |
| `Tenders` | ONLINE without coupon, COD free by it | What a coupon costs, and an order that is paid at once |
| `Shelves`, `Carts`, `Coupons` (Pricing) | 2, 3, 4 | A nil-rated and a taxed product, a combo of both, odd prices that round; no coupon, percent, fixed with a minimum, fixed above the cart |
| `RefundAmounts`, `MaxRefunds`, `MaxMonth` | a part and the rest, 2, 2 | A note in the month of its refund or late |
| `MaxCodesPerDay`, `MaxFailedAttempts` | 1, 1 | The limit itself; a larger one only repeats the step before it |
| `MaxRows`, `MaxServed` (Accounts) | 3, 5 | Codes of two kinds and a replaced one; five requests in a row, two at a time |
| `Sizes`, `Prices` | 2, 2 | The default and another |
| `Products`, `Slugs`, `Editors` | 2, 3, 1 | Names taken over, and taken back, by a product, a size or an alias; `ListingsDoHold` is for any number |
| `Authors`, `MaxFeatured` | 3, 2 | One review more than the strip holds |
| `MaxServed` (Sizes, Storefront) | 3, 4 | A request after two that overlapped; four in a row there |
| `MaxDay`, `Ttl`, `Backfill`, `Recent` (Analytics) | 2, 1, 2, 1 | A day inside and one outside the short window; the code has 35 and 2 |
| `MaxRounds` (Assistant) | 2 | A round in the middle and the last; the code has 4 |
| `MaxActs`, `MaxChanges`, `MaxTasks` | 1 or 2 | Deaths, edits and the clock, at any moment |

Symmetry is over requests, orders, products, slugs, passwords and addresses only,
in runs without liveness properties.

## 6. Fairness

- `ReconcileFairness`: `run_scheduler` starts L3 every few minutes with
  `max_instances=1` and `coalesce=True`, survives a failed run (`_run` catches),
  and starts one at boot. Strong fairness, because a run may crash or a fetch
  fail, but not every time. Nothing is assumed of customers, staff or Razorpay.
- `WebhookFairness`: Razorpay redelivers an event until it gets a 200. Only the
  second half of `EveryCaptureSettles` assumes it.
- Analytics: a job that is started goes on (weak fairness of `RollupStep`), and the
  nightly one is started again, as the scheduler's cron triggers do. Deaths are
  bounded and not fair.
- Assistant: a turn whose worker lives goes on, because every call of the model has
  a timeout; the lock of a dead one lapses (its cache entry has 180 s).

Safety runs and theorems assume no fairness.

## 7. Proofs

The theorems hold for every value of the constants (any orders, requests,
Razorpay orders, stock, recipes, coupon limit, places, accounts, turns) and assume
the named `ASSUME`s of the modules. Four say more about the staff, because the code
takes `payment_status` as typed and judges a PATCH by the row before it
([9](#9-what-the-code-does-not-promise)), and say it in their statement:

| Theorem | Assumes | Why |
|---|---|---|
| `MoneyIsBacked`, `MoneyOutlivesPurge` | `PlainEdits`: staff do not type `paid` or `refunded`, nor take the cash tick back and refund in one PATCH | either makes the books say what no money backs |
| `UnbookedMoneyIsFlagged` | the only status staff type is `paid` | another, typed over a paid order, unbooks it without an exception |
| `DocumentsAreRaised` | no PATCH both edits and refunds (`~CombinedEdits`) | the invoice is judged before the refund rewrites the row |

Everything else is proved with every edit, combined ones too.

Of OrderPayments, in layers:

1. `TypeInv`: `TypeOK`, and what `req` and `l3` carry exists while they carry it
   (`TypeCorrect`).
2. `StockInv` adds that requests, payments and the L3 job only speak of placed
   orders. Without that a capture could write the row of an order that took no
   unit, so `StockConserved` alone is not inductive (`StockIsConserved`).
   `CancelledStaysCancelled` and `CompletedStays` are action properties on the
   same types.
3. `MoneyInv` says why no lock is held across a Razorpay call: a minted id is
   untouched, and belongs to one request, until its commit gives it to one
   Payment; it has no outcome exactly while that Payment is open on it; every
   processed event is accounted for. It gives `ConfirmedAtMostOnce`,
   `CapturesAreAccounted` and `OutcomesAreFinal` (the refinement: every step
   of OrderPayments is a step of CaptureOutcome or a stutter).
4. `BooksInv` ties the Order row to the ledger. Every step does one of eight
   things to a row (`RowStep`: nothing, born, lost, typed, sold, cash in, cash out,
   money back), and an id belongs to the order it was minted for (`Owned`). So a
   row that came to read paid has its sale on the ledger, which only grows
   (`MoneyIsBacked`); refunds never pass the total, whatever is combined
   (`RefundsWithinTotal`); and a completed payment whose order was closed first
   left its exception (`UnbookedMoneyIsFlagged`).

Of Checkout:

5. `RowsTyped` types what the later layers read of orders, carts, recipes, coupons and
   requests (`RowsAreTyped`). What a request carries is of its type even if the
   cart, the recipe or the coupon it was read from changed since.
6. `CouponIsCounted`: the counter equals the *number* of orders with a discount
   because an order row is new when it is placed, and stays with its discount
   through supersession and cancel. The limit holds because the transaction
   looks at the coupon again under its row lock; the discount in the request's
   hands, computed before, proves nothing.
7. `OneIsAwaiting`: a placed ONLINE order supersedes every earlier open one of its
   customer in the same step. Nothing the tabs read before matters.
8. `StockIsKept`: the units of a size are those on the shelf plus a *sum* over the live
   orders. A placement takes from the shelf what it adds to the sum, a release the
   opposite, several at once for a supersession. `StockConserved` compares draw and
   snapshot for the combos an order holds; `LinesMatch` adds that for the others both are
   nothing. `Shelved` keeps the shelf a number:
   a draw looked at the shelf under the lock, and a form that saves an old stock
   puts its size among the `clobbered`.

Of TaxDocuments, `DocInv` in layers:

9. `SeriesInv` is `InvoiceSeries` with the types of the counter and of the numbers. A
   step is *sound* for the series if it leaves it, gives the next number to an order
   that has none, or burns it; sound steps keep `SeriesInv`, and every step is
   sound. For the handlers that is `invoice_is_due` under the lock of the order;
   for `backfill_invoices`, which judges copies, it is the second look before the
   number is drawn, and `BackfillInv` (it bills only an order it judged).
   `CreditInv` says the same of the credit notes, refunds' and cancellations'
   together. Both give `SeriesAreAccounted`, with a lemma on the gap of a set.
10. A step is a step of OrderPayments or the purge deletes an order *without an
    invoice* (`DocStepIs`), so `TypeInv` and `BooksInv` survive the purge
    (`MoneyOutlivesPurge`). `BillInv` says that an order with an invoice is placed,
    and that a supply without one has its failure logged; with the first half an
    invoiced order is never deleted, though the purge looked before
    (`InvoicesAreKept`).
11. `NoteInv`: an order without an invoice has no note, and a refund without a note
    has a logged failure. With `BillInv`: `DocumentsAreRaised`.
12. `SquareInv`: the refunds of an order add up to the column `refunded`, and the
    cancellation note was cut to what the notes *numbered before it* left. Notes that come
    later draw higher numbers (`NumbersDrawn`, from `CreditInv`), so they leave that
    sum alone. It gives `CancellationsSquare`.

Of Accounts, `Sound` in three parts. `Typed` adds to `TypeOK` what each kind of request
carries. `AddressInv`: a verified account, and one that was ever given a session, has
proved the address it has; a code goes to the inbox of its account, or the account has
proved another; and the same of the copies, codes and tokens that requests still carry.
`OwnerInv` adds to `PasswordStands` and `EvictedStaysOut` that a copy in a request's
hands is the row itself unless the request is `late`, and that registration writes over
nothing but what it read unclaimed. They give `AccountsAreProved`, `OwnersWordStands` and
`VerifiedPasswordsAreKept`. `QuotaIsBounded` needs `QuotaInv` beside them: the codes of a
day *and* the requests that counted and have not written are within the bound;
`CodeQuota` alone is not inductive.

Of Assistant, `Inv`: a turn at work holds the lock (`RunsAlone`); what a turn has said in
the log follows from where it is, an answer at the end included (`Saved`); the reply a
desk is about to pause the thread for is in the log (`DeskSound`); and `WaitingIsSeen`
itself. They give `ThreadIsSound`; `HandoffIsMeant` is two action properties on the types.

Of Sizes, `SizesInv` in four parts, over the rows as a request in its transaction sees them
(`View`). `Sound`: what a request is about to write are rows. `Locks`: no two
transactions hold one row, and the one that took the flag holds every row that has it;
with the partial unique index that is why two committed sizes never both have it.
`Course`, of a request that nothing disturbs, says at each of its places how far it is
from one default, the due one; it is what makes the next such save repair whatever
overlapping ones left (`SizesDoSettle`, `TheDueSizeIsDefault`). `Rest`: after such a save
the rows stand until the next request.

Of Storefront, one conjunct per component. *Products*: `HolderIsThere` and `LeftBehind`, who is
at a slug is its holder, and who left one that nobody has since is its alias. `LinksLead`
alone is not inductive: it does not say where the alias of a slug stands that is in use,
and that alias shows once the slug is left, or once its product is in the bin and a shopper
asks. From the two it follows case by case of `Resolve`, for staff and for shoppers, with
the sizes as they may be. `BinInv` adds to `BinClock` that a form
carries the stamp it has read. *Reviews*: `BanInv`, what was taken down last is hidden;
`InOrderLists`, the members of a finite set have one sequence by a strict total order
(each at the place of its rank), from which `StripIsFull` counts. *Page*: what a page
shows is changed only by steps that also drop it or are about to. They
give `ListingsDoHold`, `TheStripIsSound`, `ThePageIsTrue`.

Of Analytics, `Typed` (the tables, and what a job carries between two statements) and
two more. *Counters*: `CountInv`. The stored, the buffered and a *sum* over what the
drains hold never pass what came (`Bounded`), and on a day that met no gap are all of it
(`Found`); a drain that holds counts is about to store them (`HoldsToSave`). A drain
deletes the keys of the counters it has read in the index, not of those it took: that
loses nothing because a day that met no gap has in the index every counter that Redis
holds, and the drain knows all of that index and leaves nothing in it (`Knows`). Devices add up
because every visit bumps one device beside the total (`Balanced`, kept by sums of
tables). It gives `EachVisitIsCounted`, for any finite number of jobs. *Rows*: `RowInv`. What a
job has read of a day is true of it until an order that tells of the day changes
(`JobSound`), and so is the row of a day that is not stale (`RowSound`): the job that
writes last writes what is true, or marks the day. It gives `TheRowsTell`.

Of Pricing, with the returns and prints that read it, `MoneyInv` (`MoneyIsKept`). First the
roundings: each is `Near` its quotient, off by half a paisa at most, and a sum of such
figures is off by half a paisa each. A split adds up to its line because its largest
component takes what the others leave. Then one conjunct per document: `QuoteInv` works
the quote out from the shelf as it is, which holds because an edit of the shelf takes the
quote off the screen; `BillInv` (`BillSound`) is of the order alone, whose lines keep what
they were charged at, so it survives every edit of the shelf; `InvoiceInv` makes the
invoice that of its order, but for the place of supply, which staff correct only while
there is none; `RefundInv` keeps refunds within the bill, their tax too; `NoteInv` says that notes
are of one kind, one for each refund or one for what was cancelled. `BillReconciles` and
`QuoteHolds` then are about one state of one document (`BillAlwaysReconciles`,
`QuoteAlwaysHolds`). `ReversalsAlwaysCover` adds the refunds up: the tax of a refund is cut to what
the ones before it left. `PapersAlwaysStand` needs that the registers of a month are sums
over the invoice and the notes of that month, which steps only add to.
`FiguresAlwaysAgree` follows one tax through four reports that sum it in other orders (by
slab, by HSN and rate, by head, by document): `SumsOfSums` exchanges two sums over tables whose
columns differ, and what is left are the halves of a paisa.

`PricingAssumption` says what the columns of the shelf admit: prices, counts and fees are
numbers of paise, refunds more than nothing, goods and combos apart. One is stronger
than its column: rates are *whole* percents up to 100, though the column has two decimals;
every rate of the code and of GST is one.

Of Discovery, `DiscoveryInv`: the product row mirrors its default size (`Mirrored`, by every
save of a size), cart, card and favourites are typed, a thread that asks has a name to ask
for, and what is cached or being read is made of entries. With `CorpusTrue` and `KbFilled`
it is inductive: the truth depends on name, listing, combo and synonyms only, and each
of their writers awaits a drop (`SameCorpus`, `DropAwaited`). The rest of `ShownTrue` is
about one state. `Top` takes the highest k of a ranking, or all (`TopIs`, from `Ranked` of NumberFacts:
in a strict order over a finite set the places are 0, 1, 2, ...); so the fallback, the
padding and the row have the lengths they should (`FallbackIs`, `PadIs`, `RowIs`). A match
scores its threshold at least, a hundredfold, and padding 6000 or 3000: over 60
it comes first (`DirectIs`, `PaddingIs`). It gives `WhatIsShownIsTrue`, and, with what a tap does to
each line of the cart (`AddIs`, `UpdateIs`), `WhatIsTappedHolds`.
`SearchAssumption` and `DiscoveryAssumption` say that likenesses are percents, products
are numbered, and the threshold is over 60 (70 in the code).

**What the proofs found.** The rounding of a combo line is left to its largest
component, which may then be less than nothing: a line of fewer paise than half the square of
its number of components (`Enough`). Bills reconcile all the same (see 9). The devices of a visit were any set of labels: `DevicesAddUp`
then held of one instance only. `_device` gives each request exactly one; AnonCounters
now says so, and a source is no longer read as a device. Two conditions of the models
overlapped, so that a CASE left open which branch is taken (TLC takes the first): `Due` of
Sizes, `Aliased` of Listings. And the link of another product is lost to a stale rename
(see 9), which needs two open forms: the run has one. The instance of Discovery gave every
name a term of its own; names that have none (`Mute`, see 8) leave the row of synonyms
empty without any thread having died, and `KbFilled` now says so.

**Sums.** `SumFunctionOnSet` of the community modules is a CHOOSE of a recursive
function. `NumberFacts` proves that the function exists, that any member may be
taken first, and so that a sum splits into parts. Induction is on a *set* of naturals
(`Induct`, from the well-foundedness of <), because the library's induction theorems
take an operator.

**Model-checked only:** `FoundByName`, which is not true of every value of the constants:
whether a name finds its own product first depends on how many others are as like it,
against `TopK`, and on names short enough to be scored otherwise. And what is out of the
prover's reach: all liveness (`AwaitingSettles`, `EveryCaptureSettles`, `TurnsEnd` and the
like), ENABLED, RECURSIVE operators.

## 8. Where the code does not do what it says

One run shows a disagreement with the code's own words as a counterexample:

| Run | What happens |
|---|---|
| `self_cancel_keeps_no_capture` | A payment captured while a second create-order waits for Razorpay is set back to pending by its commit; the customer then cancels the paid order (`payments/views.py:264`, against the comment at `orders/views.py:1490`) |

The others were met while modelling; the models behave as the code does, and their
properties are stated so that they set the case apart, by name.

| Where | What is said, what is done |
|---|---|
| `reconcile_payments.py:8` and `:54` | L3 is to settle every unpaid order. It asks for pending and processing ones; an order whose attempt was declined is `failed`, and neither L3 nor a new checkout looks at it again: it keeps its stock |
| `invoicing.py:26`, `backfill_invoices.py:70` | A cancelled order is never billed. The backfill judges copies, and bills one cancelled since |
| `products/views.py:547`, `orders/views.py:926` | The lock of a size is to prevent overselling. A PATCH of its price saves the whole row, with the stock it read, over a sale (`clobbered` in Checkout) |
| `orders/views.py:78` | Restock mirrors the draw. The recipe is read for the draw (600) and for the snapshot (700), and deleted and written row by row (`products/serializers.py:832`): between or during, the snapshot is not what was drawn (`Loose` in Checkout) |
| `products/models.py:463` and `:396` | Old links lead to the right product, and a slug is canonical or an alias, never both. Only a rename takes an alias away: a product *created* under a retired slug takes it and the alias stays beside it. Create A at s, rename it, create B at s, bin B: a shopper at s is shown A. And a size on sale whose slug is s (slugs of sizes are unique among sizes only, `models.py:34`) comes before the alias (`products/views.py:307`): its product is shown, not the one that left s (`LinksLead` names both cases) |
| `reviews/views.py:193` | The cap of featured reviews is counted under a lock. `select_for_update().count()` sends no FOR UPDATE, so two picks may both find a place. `StripFull` holds anyway: the strip takes the first of them |
| `orders/pricing.py:223` | A full reversal leaves no tax. A return in parts fills the goods first each time, and leaves the tax of the delivery on the books; `WholeReversalNets` is about a return in one step |
| `orders/credit_notes.py:150` | The note of a cancelled order whose goods are nil-rated credits a taxable value of 0 |
| `orders/invoice.py`, `orders/views.py:1884` | What a document shows is frozen. The PDF of a credit note and the CSV export tell CGST and SGST from IGST by the state the shop is in today (`SellerMoves` in Pricing) |
| `orders/views.py:403` | Quote and bill must agree on GST to the paisa. With a discount they do not: the quote takes the tax out of the discounted line, the bill out of a price per unit that was rounded first (`QuoteHolds` says when they agree) |
| `assistant/views.py:95` | Silence must never mean a lost message: a message in a paused thread flags it. The flag is not written if the copy read at the start has it, though staff cleared it since; and a staff form puts an older copy of the row back (`loose` in Assistant) |
| `products/recommendations.py:313` | A row of synonyms is never left empty. It is committed empty before the model is asked, and when the task dies it stays so: a later save refreshes it only after 7 days (`KbFilled`). Nor are the product's own terms always something: cleaning drops the name itself and generic words, so that a product of one word, sold by no weight, in a category like "Spices" has none, and without the model its row is filled with nothing (`Mute`; against "never returns empty" at 409, too) |
| `products/recommendations.py:615` | A genuine match always outranks a padded row, since it clears 70. The threshold is a parameter of the request (`products/views.py:652`), and under a lower one a match may rank below (`MatchesOutrank` takes the default) |
| `run_scheduler.py:25` | The docstring says `--days 3`; the setting is `ROLLUP_BACKFILL_DAYS`, 35. Comments say that the interval job takes today; it takes yesterday too. The assistant of staff cuts its periods in UTC, roll-ups in local days (`assistant/admin_tools.py:72`) |

## 9. What the code does not promise

Behaviour the models have, or leave out by a named bound, that no comment, doc
or test forbids; a reader may be surprised by it. By part:

**Orders and payments**

- create-order accepts a refunded order and puts its Payment back to pending
  (`payments/views.py:213`).
- A declined order is not superseded by the next checkout (`orders/views.py:814`).
- A payment captured after the cancel leaves `payment_status` unpaid, so the
  refund it calls for is refused until staff edit that column (`orders/views.py:210`).
- The guard of the self-cancel looks at `Payment.status`, which COD orders lack
  (`orders/views.py:1495`).
- Staff may un-cancel an order; nothing is reserved again (`orders/views.py:1378`).
- An order paid and refunded between L3's query and its lock is auto-cancelled
  (`reconcile_payments.py:137`).
- `payment_status` typed by staff is taken as typed (`orders/views.py:1278`), and
  one PATCH may take the cash tick back and record a refund (`orders/views.py:1263`).
- An order restored from the bin may be the second one awaiting payment
  (`orders/views.py:1541`); the purge of an unpaid one gives back no stock
  (`purge_recycle_bin.py:101`).
- Sizes are locked without an order (`orders/views.py:961`), so two carts may lock
  them crosswise; PostgreSQL then refuses one of the two, as CheckoutFails does.
- A capture empties whatever is in the cart by then (`payments/services.py:314`).
- The cap on COD orders is counted without a lock (`orders/views.py:769`); a COD
  order may be placed from a cart refilled since it was read (`orders/views.py:798`).
- A use of a coupon is never given back (`orders/views.py:1075`).

**Documents and money**

- A refund recorded after a cancellation note is credited again
  (`orders/credit_notes.py:74`); a cancellation note that fails is not retried.
- The place of supply may change between its check and its write
  (`orders/views.py:1218`).
- The band of a credit note is live: an old note of a part says FULL REFUND once the
  order is refunded. A backfilled note is dated in the month of its refund.
- The code of the cart's QR ignores the delivery and fixed coupons. The preview of a
  coupon does not know the customer.
- A coupon may bring the cart below free delivery and make the order dearer; a combo
  may cost more than its parts after these are re-priced.
- The export shows the tax of an order whose reversal is a cancellation note.
- Tax is split into its heads once per order, or slab by slab: half a paisa a slab.
- The packing slip of a refunded COD order still says COLLECT.
- A combo line charged fewer paise than half the square of its number of components may
  give its largest component a negative amount (`orders/pricing.py:309`).
- The summary of the cart delivers goods that cost nothing for nothing; checkout charges
  the delivery. The preview of a coupon taxes a combo without components at the default
  rate; the bill does not tax it.

**Accounts**

- Two wrong codes at once count as one (`users/views.py:458`).
- A rotation past its check when all tokens are revoked yields a live one (`late`).
- A whole-row save puts back an older password or address (`stale`).

**Catalogue, reviews, search**

- A save of an old copy undoes a hide; a review may be both hidden and featured,
  and is then not shown.
- The product purge deletes what was restored after its read; `BinClock` is about what
  its query selects.
- A slug of digits only is looked up as an id (`products/views.py:299`); in Listings slugs
  are names.
- A rename saved from an old copy of the row writes the alias of the slug that copy has
  (`products/models.py:391`). Another product may have taken that slug and left it since:
  its old link then leads to the first one (`holder` becomes `Nobody` in Listings).
- A deleted category sends no signal; suggestions are cached for 300 s; synonyms of an
  old name stay until they are a week old; of two generations the last write wins.
- A favourite taken off on one device comes back with the list of another.

**Assistant**

- A staff reply clears the flag over a question asked meanwhile; a form saved from an
  old copy takes back another's pause or flag; a turn under way may answer after staff.
- A message in a resolved thread leaves it resolved.
- The cart tool prices a line at the product's default size; search hides a product whose
  default size is sold out though others are not; a card asks for stock above 0, not
  for the quantity; the line of a retired size cannot be taken out by a card.

## 10. Not modelled

- **Support form**: a message is edited one row at a time; a late mark_read puts a
  replied one back to read, and nothing else depends on it.
- **E-mail**: sent after commit and not retried; `ConfirmedOnce` counts what is sent.
- **Saved payment methods**: no payment uses them.
- **Limits, throttles, middleware, settings**: configuration. The caps that gate a
  checkout are constants of Checkout.
- **Layout**: PDFs, packing slip, delivery bill; the figures on them are in Documents.
- **Images, sections, categories, combo placement**: rows of their own, read only to be
  shown; recipes are in Checkout.
- **Caches of recommendations and insights** (60 to 300 s, never dropped), the places of
  visits and their reverse geocoding, alerts of low stock and of coupon limits.
- **Speech input, the assistant of staff, titles and lists of threads**: external calls,
  and reads.
- **Likeness of texts, embeddings, language models**: given, as data.
- **The gateway refund handler** (`mark_payment_refunded`): not called by the webhook.
- **Legacy products without a size, `Product.stock`**: a display mirror.

## 11. Plan

Done: OrderPayments, CaptureOutcome and the refinement, with the proofs; TaxDocuments;
Checkout; Money, Pricing, GstLedger, Documents; Accounts; Sizes, Listings, Reviews and
Storefront over them; AnonCounters and Analytics; Assistant and ShopTools; Search and
Discovery. Proved: OrderPayments, Checkout, TaxDocuments, Accounts, Sizes, Storefront,
Assistant, AnonCounters and Analytics, Money, Pricing, GstLedger and Documents, Discovery
with ShopTools and Search. Next, in this order:

1. *Composition.* Checkout's transaction shown to implement the one-step checkout
   of OrderPayments (units of one size, no combos) by INSTANCE.
2. *Models.* The purge of a live binned order composed with stock; the sections of the
   home page under Storefront.
