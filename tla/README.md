# Astronomy Shop: a verification development

TLA+ specifications of the OpenTelemetry Astronomy Shop and of the SRE learning
lab that injects faults into it, the TLC configurations that model-check them
on small instances, and theorems about them checked by TLAPS. Paths below are
relative to the repository's root.

## The system

The shop is some twenty services behind a proxy. A feature flag document, one
JSON file watched by flagd, decides which of them misbehave. Four parts carry
most of the repository's own logic and are where orders of events matter:

1. **The flags.** `src/flagd-ui` is a Phoenix application. Its *Storage* process
   owns the document: it serves reads, applies single flag writes and
   whole-document replacements in the order of its mailbox, and persists each
   change by writing a temporary file and renaming it. Its *Scheduler* process
   switches randomly picked flags on and back. The pages and a REST API send
   both processes their requests.
2. **The lab.** `sre-learning-lab` is a Streamlit application: a learner presses
   a button, a fault is injected through the REST API after a snapshot of the
   flags was saved in a recovery file, and a later button restores the snapshot.
3. **The orders.** `src/checkout` reads a cart, prices it, charges a card, ships,
   empties the cart, mails a confirmation and puts the order on a Kafka topic
   that `src/accounting` records in a database. All of its handlers share one
   Kafka producer and the two channels of its results.
4. **The storefront.** `src/frontend` is a Next.js application. Its pages keep
   copies of the cart and work out totals; its API routes call the services
   through protocol code, `protos/demo.ts`, which is a third of the
   repository's TypeScript.

| Component | State it keeps | Operations | Talks to |
|---|---|---|---|
| flagd-ui Storage | document, file | read (call), write and replace (casts), restart from the file | pages and Scheduler (broadcast), flagd (file) |
| flagd-ui Scheduler | run (epoch, configuration, eligible flags), active holds, announced activations, timers | start, stop, begin interval, trigger, revert, terminate | Storage (one call, casts), its own timers |
| flagd-ui pages, REST API | form and a copy of the flags | flag change, save document, start, stop, read, write | Storage, Scheduler |
| lab flag manager | recovery file `active-session.json` | activate, restore, force restore, keep and close | REST API, flag file |
| lab bank, app, progress | YAML bank, session state, progress file | validate, render, save submission, reset | flag manager, files |
| checkout | the producer: messages taken, two channels of results, goroutines that send copies | PlaceOrder | cart, catalog, currency, shipping, payment, email, Kafka |
| checkout money | none | Sum, MultiplySlow, Must | PlaceOrder |
| cart | one hash entry per user in Valkey | AddItem, GetCart, EmptyCart | Valkey |
| accounting | orders in PostgreSQL, the offset of the last commit | consume a message, save an order in one transaction, commit in the background | Kafka, PostgreSQL |
| fraud-detection | none | consume a message | Kafka |
| payment, shipping, quote, currency, email, ad, recommendation, product-catalog | none, or a cache | one request each | each other, PostgreSQL |
| frontend, protocol code | none | blank, encode, decode, fromJSON, toJSON, create, fromPartial for each message; a definition for each method | the services |
| frontend, cart and orders | a copy of the cart in each tab, its fetch, calls under way | add, change a quantity, empty, order; the API routes `cart`, `checkout`, `recommendations` | cart, checkout, catalog, recommendation |
| frontend, totals | none | price of a line, total of a cart or of an order | |
| mobile app | a copy of the cart | the same API, with code of its own | frontend |
| load generator, chatbot, agent | client state | pages and API routes | all of the above |

What is hard about them is listed with its line under `hazards` in
`PROJECT.json`. In short: messages that are already in a mailbox when the timer
behind them is cancelled; timer chains that re-arm themselves; two values in
one flag, of which a read uses one and a write the other; state remembered
across a call; checks followed by writes that others can get between; requests
whose outcome is unknown to their sender; results handed to whoever reads
first; copies of messages, and commits that run ahead of what they commit;
copies of a cart that are refetched while it changes; crashes between two
steps; integers of a fixed width, and numbers that JavaScript rounds.

What makes each part correct:

* Scheduler and Storage: every held flag will be given back; a flag that is not
  held is at rest; stopping restores everything; one interval follows another,
  once; what is announced is what happens; a hold lasts as long as it was given.
* Lab: a fault is never on without the file that restores it; the snapshot that
  is restored is the one from before the first fault; edits by others are not
  overwritten without asking; a script run ends.
* Money: the total is worth what its parts are worth, and the arithmetic never
  refuses a legitimate order.
* Checkout and cart: what is shipped was charged, and what is confirmed was
  shipped; the cart keeps what was added and loses what was bought.
* The producer and accounting: whoever waits for a result finds one, until a
  message fails; an order is recorded at most once, and is not lost unless a step
  was taken that may lose it.
* Protocol code: what is read is what was written, in whatever order and beside
  whatever new fields, or the call fails, and then for a number.
* Cart and orders in the browser: a tab shows the changes it was told of; a
  picked quantity lands in the cart; a confirmed order was placed and a declined
  one was not charged; every press gets an answer.
* Totals: a page shows what was charged.

## Modules

| Module | Models | Extends |
|---|---|---|
| `FlagStorage` | Storage: document, file, mailbox, and its handlers as actions the others compose | |
| `FlagScheduler` | Scheduler, the timers of the runtime, the page's requests, over `FlagStorage` | `FlagStorage` |
| `FlagHolds` | what the scheduler promises: flags are taken hold of and given back at rest | |
| `FlagSchedulerProofs` | theorems about `FlagScheduler`, that it implements `FlagHolds` and its chain of intervals among them | `FlagScheduler` |
| `FlagLab` | the flag manager and the lab's controls for several sessions, other users, over `FlagStorage` | `FlagStorage` |
| `FlagLabProofs` | theorems about `FlagLab` | `FlagLab` |
| `Money` | `money.go` | |
| `PageTotals` | the totals the pages work out | `Money` |
| `OrderTotal` | the total in PlaceOrder, one `Sum` at a time, next to the pages' | `PageTotals` |
| `OrderTotalProofs` | theorems about `Money`, `PageTotals` and `OrderTotal` | `OrderTotal`, `PageTotals` |
| `Checkout` | PlaceOrder's calls and the cart store, for one user's requests | |
| `CheckoutProofs` | theorems about `Checkout` | `Checkout` |
| `OrderPipeline` | the producer all handlers share, the copies a flag sends, the broker and accounting, over `Checkout` | `Checkout` |
| `OrderPipelineProofs` | theorems about `OrderPipeline`, that it implements `Checkout` among them | `OrderPipeline`, `CheckoutProofs` |
| `DemoMessages` | the messages and methods of `demo.ts`, as a table | |
| `MessageLayer` | the functions `demo.ts` has for each message, at one depth of nesting | |
| `MessageLayerProofs` | theorems about `MessageLayer`, for any table of messages | `MessageLayer` |
| `Rpc` | a call from an API route to a service and back, with an instance of `MessageLayer` for each depth | |
| `RpcProofs` | theorems about `Rpc`, from an instance of `MessageLayerProofs` for each depth | `Rpc` |
| `Storefront` | the tabs of one browser and the API routes `cart` and `checkout` | |
| `StorefrontProofs` | theorems about `Storefront` | `Storefront` |
| `MCFlagScheduler`, `MCFlagLab`, `MCOrderTotal`, `MCOrderPipeline`, `MCRpc`, `MCStorefront` | the instances TLC checks | |

### FlagStorage and FlagScheduler

A document maps each flag to the two values Storage can write: its
`defaultVariant` (`default`) and, for a flag whose targeting is a three-element
`if`, the second element of that rule (`on`). `UpdateFlag` writes the rule's
value if there is such a rule and the default otherwise, as `update_flag` does,
while the scheduler reads the resting variant from the default alone
(`EligibleSpecs`).

One action is one handler of a GenServer: it takes the message at the head of
its mailbox and does everything the handler does before the next message.
`handle_call({:start_schedule, ...})` is the exception, because it waits for
Storage in the middle: `BeginStart` cancels the timers, casts the reverts and
the read; `FinishStart` installs the new run when the reply is there; in between
the scheduler takes no message and its old state is still what `terminate`
would see (`ReadExits`).

Timers are part of the model because the code's correctness hangs on them. A
timer that is armed counts down with `Tick`; at zero, `Fire` moves its message
to the mailbox, where cancelling no longer reaches it. The scheduler's `timers`
remembers a reference for each key. References are numbers, reused when no
timer of the key has them any more, so that the state space stays finite.

The fields that only the page shows (history, seed, interval counter) are left
out, and the seeded picks are nondeterministic choices among what the code could
pick: one plan per distinct flag, with a duration between the configured bounds
and an offset that leaves room for it.

### FlagLab

A learner is a browser session. Streamlit runs the script once per button press
and a script is not interrupted inside a flag manager call, so `at` says where
a session's run is and `job` holds its local variables; runs of different
sessions interleave between any two accesses to the recovery file, the flag
file and the API. A read is a message in Storage's mailbox with the learner as
its sender. A sender that gives up leaves the read where it is, and nobody takes
the answer (`Abandoned`). A POST may fail without arriving, fail after it was delivered, or be
delivered long after its sender gave up (`posts`, `LateArrival`). `disturbed`
is a history variable: it becomes true when faults are kept on purpose or such
a late request arrives, after which no promise about orphaned faults is made.

### Money, PageTotals and OrderTotal

`Money` is `money.go` with Go's wrap-around and truncation; the size of a unit
and the widths of the integers are constants. `OrderTotal` starts after the
order was prepared, with a shipping cost and items chosen from all small
amounts, and runs PlaceOrder's additions and MultiplySlow's loop one `Sum` at a
time. `PageTotals` has the arithmetic of the cart page and of the order page,
which multiply and carry once, with JavaScript's `Math.floor` and `%`;
`PageShowsTheCharge` compares the two at the moment of the charge.

### Checkout

Carts of different users share nothing, so the module has one cart and the
requests of one user: some AddItems and some PlaceOrders, all of which may be
open at once. A cart is the set of units in it, named by the AddItem that brought
them, which is what lets the properties say where an item went. `AddItemAsync`
is two actions, `AddItem` (the read) and `StoreItem` (the write), because
nothing excludes other requests in between. `PlaceOrder` is one action for each
call to another service that changes something (`Prepare` stands for the
three that only read). A call that fails may have had its effect; for EmptyCart
the effect may also come later (`emptying`, `LateEmptyCart`). The process can end
at any moment (`CheckoutCrash`: a panic in `money.Must`, a restart), and does so
in `SendToPostProcessor` when the broker could not be reached at start, because
the producer is then nil. Between the producer's input and a result the handler
waits (`await`, `AwaitAck`).

`charged`, `shipped`, `mailed` and `published` are what the other services have
done; `discarded` and `raced` are history. Once an AddItem has overlapped another
request the code can lose or resurrect items, and the two properties about the
cart say nothing more; orders that overlap each other, or the emptying of the
cart, are not excluded.

### OrderPipeline

The module adds to `Checkout` what `Checkout` leaves to chance: where a message
goes and whose result a handler takes. A handler puts its message on the
producer's input while there is room (`PutMessage`) and then takes a success, an
error, or leaves when its request ends (`TakeSuccess`, `TakeError`, `GiveUp`).
The code never looks at which message a result is about, so results are only
counted: handlers, the goroutines that `kafkaQueueProblems` starts for its copies
(`PutCopy`, `TakeForCopy`) and the goroutine that logs errors (`LogError`) all
take from the same two channels, which hold `ChannelSize` each. The producer is
configured with `NoResponse`, so that a success (`Send`) says nothing about the
broker having the message. A restart of checkout empties channels and goroutines
(`CheckoutEnds`).

Accounting consumes a message, saves its order in one transaction, where the
keys of the tables reject an order that is already there, and has its offset
committed in the background, before or after the transaction
(`Consume`, `Save`, `Commit`); after a restart it reads on from the last commit.

Three variables are history. `lossy` is set by each step that may lose an order:
a send that fails or that the broker misses, a restart of checkout with messages
to send, a database that does not take an order, a restart of accounting between
a commit and the end of the transaction. `failed` and `gaveUp` say of the present
process that a message failed, and how many handlers left without a result.

`ImplementsCheckout` is `Checkout!Spec` under the identity mapping: every step of
the pipeline is one of `Checkout` or leaves its variables alone, which is what
lets `Checkout`'s properties be proved there and hold here.

### DemoMessages, MessageLayer and Rpc

`demo.ts` repeats the same functions for every message; what differs between
messages is a table of fields, with their numbers, kinds, nested messages and
whether they repeat. `DemoMessages` is that table, translated from the bodies of
the functions, with the methods of the ten services. `MessageLayer` has the
functions: on the wire a message is a sequence of entries, each with a number, a
wire type and a value; defaults are left out (`Written`, `Encode`); a decoder
skips what it does not know, lets the last entry of a field win and collects
those of an array (`Decode`). An `int32` that is too wide fails the writer, an
`int64` beyond JavaScript's safe integers fails the reader, after `Number` has
rounded it.

On a nested message the code calls the functions of that message.
`MessageLayer` takes these as constants (`InnerEncode`, `InnerDecode` and so
on), and `Rpc` has four instances of it, each given the operators of the one
before: the messages of the shop nest four deep (`PlaceOrderResponse` holds an
`OrderResult`, which holds `OrderItem`s, which hold a `CartItem` and `Money`),
and `MessagesAssumption` says so. One depth can so be reasoned about for any
nested messages, and no recursion over data is needed.

A call goes through `Call` (or `AskRecommendations`), `Serve`, `Answer` (or
`Recommend`, `Refuse`), `Reply` and `Deliver`. `Reply` is where another language
writes: fields in another order, and entries of a newer version of the message.
The recommendation call is followed from the page to the service, because the
API route casts a string to a list and so sends single characters, which
`recommendation_server.py` joins again and splits at the commas.

### Storefront

A tab has a copy of the cart, a fetch and calls under way. A press sends a call;
`AddItem`, `Delete` and `Checkout` are the API routes with the services behind
them, each of which can fail before or after its effect; `Settle` is the tab's
handler of the answer, `Disconnect` the loss of it. A success invalidates the
copy, and React Query then gives up a fetch under way for a new one, unless the
tab has no copy yet (`Invalidated`). `ReadCart` repeats a fetch that failed,
`Receive` replaces the copy, `Focus` is the shopper coming back.

A cart carries the number of changes made to it, and `owed` the youngest change
the tab has been told of; both are history that the properties need. An update of
a quantity is the difference to the tab's copy, as `updateItemQuantity` sends it,
with the age of that copy.

## Runs

| Run | Checks | Shows |
|---|---|---|
| `scheduler_safety` | TypeOK, HeldFlagHasRevert, AtRestUnlessHeld, ImplementsHolds | two requests at any moment, three configurations of which one is rejected, no faults |
| `scheduler_faults` | NextUpIsAccurate, HeldFlagHasRevert, OneIntervalAhead, IntervalsDoNotOverlap | the same code behind the clock (`Prompt = FALSE`), with one fault of either process |
| `scheduler_live` | StopRestores, HoldsEnd | liveness under fairness |
| `scheduler_early_revert` | RevertEndsItsOwnHold | violated: finding 1 |
| `lab_one` | TypeOK, NoOrphanFault, RecoveryKept, UneditedRestoreIsExact, ScriptRunsEnd | one session, one edit by others, two failures |
| `lab_two_sessions` | RecoveryKept | violated: finding 2 |
| `lab_restore_race` | NormalRestoreKeepsEdits | violated: finding 3 |
| `order_total` | TypeOK, TotalIsExact, WholePricesNeverPanic, PageShowsTheCharge | every order of up to two items with amounts below two units |
| `checkout` | TypeOK, PaidThenShipped, AddedItemsAreKept, BoughtItemsLeave, PipelineTypeOK, ResultsBalance, RecordedOnce, PublishedIsRecorded, ImplementsCheckout | two orders and two items of one user, any failures, crashes and overlaps, from the cart to the accounting tables; 1.1 million states |
| `rpc` | TypeOK, RequestKept, AnswerKept, FailsForItsNumbers, JsonRestores, RecommendsOthers | each method with blank, full and changed messages and foreign answers; 43 thousand states |
| `storefront` | TypeOK, ReadsOwnWrites, ConfirmedMeansPlaced, DeclinedMeansUncharged, UpdateLands, Settles | two tabs of one shopper, two presses and one fault, with liveness; 578 thousand states |
| `order_total_small_amounts` | SumsAreValid | violated: finding 4 |

Every property of a passing run has a mutant in `PROJECT.json`: a definition
that models code, changed as a plausible bug would change it, with which TLC
finds the property violated. The mutants stand before the definitions they
replace, with the change in their names.

### Bounds, and why they are enough

* Scheduler: three flags (a plain one, one with a rule, one without a default
  that must never be picked) and two variants cover the cases `UpdateFlag` and
  `EligibleSpecs` tell apart. Intervals of one to three seconds with holds of
  the same length or shorter give holds that meet the next interval, which is
  where the timers race. `MaxRequests = 2` allows start-restart, start-stop and
  stop-start; `InboxCap` lets Storage lag behind by one or two handlers;
  `MaxFaults` bounds crashes. Time is in seconds, the least duration the code
  accepts. Nothing bounds the epoch or the number of intervals besides these.
* Lab: a flag with a rule, a plain managed flag and one that only others touch;
  four presses allow activate, restore, emergency restore and keep; `Polls = 2`
  stands for the reads before the deadline of six seconds; two failures allow a
  failed repair of a failure.
* Checkout and the pipeline: two orders and two AddItems give every pair of
  overlapping requests; failures and crashes are not bounded. `Overload` is one
  copy for the code's hundred and `ChannelSize` one place for sarama's 256, so
  that channels are full with two messages. `MCInit` splits the initial states:
  without a broker address the user adds items, and with one the AddItems have
  failed before. The cart and the producer touch only through `at`, so that the
  two families together meet what either part can do; `CheckoutProofs` and
  `OrderPipelineProofs` remove the split with the bounds.
* Protocol code: 7 stands for 2^53 - 1 and 5 for 2^31 - 1; numbers lie on both
  sides of each. Strings are the empty one, which is the default, a comma, which
  separates products, and one more. Messages are a blank one, a full one, and each of these with one
  field changed at every depth, since the functions treat each field on its
  own; wires have one pair swapped or one entry more at every depth. Six
  products are spelled with two letters, so that one is part of another.
  `RpcProofs` removes the bounds on numbers, strings, tables and catalogues; the
  messages of a call stay the blank, the full and the changed ones (`Samples`),
  to which its last lemmas are specific, while `CorrectDepth` is about any
  message.
* Storefront: two tabs, two calls under way, one product in quantities of one
  and two, one of it in the cart or none, one retry, two presses and one fault:
  a change meets another tab's fetch, update or order, and one of them fails.
  `StorefrontProofs` removes these bounds; `Settles` keeps them.
* The scheduler, the lab and the totals lose their bounds in their proofs too;
  what stays is named with each theorem.
* Money: four nanos to a unit, eight for 2^32 and small widths keep every
  carry, borrow and wrap reachable; `OrderTotalProofs` removes these bounds and
  those on the order.

### Fairness

`scheduler_live` assumes weak fairness of the two processes, of the runtime that
fires timers and of the clock: the BEAM schedules every process that has a
message, and none of these can be disabled for ever by users. Users' requests
and faults have no fairness. `lab_one` assumes that a script run that has begun
goes on and that Storage handles its mailbox; buttons, edits and failures have
none. `storefront` assumes weak fairness of each call's route or handler, and of
each tab's fetch: routes and services answer in the end, with a status or an
error, and the browser runs the handler of what has arrived. Presses, the return
to a tab and faults have none. A route that never ends its response would not
satisfy this, and is what the mutant of `Settles` is. `OrderPipeline` states no
fairness: after a failed message a handler without a deadline may wait for ever,
and nothing in the code says otherwise.

Deadlock checking is off (`CHECK_DEADLOCK FALSE`) in the runs of the scheduler,
the lab and the total, because each of these systems may rest: no timer is
armed and nobody asks for anything, or the bounded requests are used up. It is on
in `checkout`, `rpc` and `storefront`.

## Findings

1. **A stale revert ends the next hold and then stops the scheduler**
   (`scheduler_early_revert`). Cancelling the revert timer of a flag that is
   picked again does not remove a message the timer has already sent.
2. **Two sessions can lose the snapshot** (`lab_two_sessions`). `activate` checks
   for the recovery file and writes it later.
3. **A normal restore can overwrite an edit** (`lab_restore_race`). The check for
   a conflict and the restore are two requests.
4. **Sums below one unit are malformed** (`order_total_small_amounts`), and the
   next `Sum` refuses them: PlaceOrder panics.

## Proofs

* `FlagSchedulerProofs!TypeCorrect`: `Spec => []TypeOK`. `TypeOK` is not
  inductive as it stands, because what `Trigger` and `FinishStart` install comes
  from messages and from a document: `TypeInv` adds that the process's functions
  are typed by their domains and that a message of each type has its fields.
* `FlagSchedulerProofs!NoForgottenHold`: `Spec => []HeldFlagHasRevert`. Given the
  types the property is inductive: the trigger handler arms the revert it
  cancels, a firing timer moves its message from `armed` to `mailbox`, other
  handlers neither cancel it nor take it without giving the flag back, and a
  stop, a restart of the run or of the process clears the holds. It holds for
  any flags, configurations, faults and lag.
* `FlagSchedulerProofs!FlagsComeToRest`: `Spec => []AtRestUnlessHeld`, under two
  conditions. `MaxFaults = 0`: after a crash of either process the code makes no
  such promise. `RulesAgree`: a flag with a targeting rule has that rule yield its
  default, because the scheduler takes the default for the variant to go back to
  while Storage writes the rule; it is so in `demo.flagd.json`, whose only such
  rule is that of `productCatalogFailure`. The invariant `RestInv` says what the
  flags *will be*: of the writes to a flag that are in Storage's mailbox only the
  last counts, so it relates that write, or the document when there is none, to
  the scheduler's state (`AtRestUnlessHeld`), and adds that writes do not change
  which values a flag has (`SameShape`), that the scheduler knows what the flags
  rest on (`RestsKnown`), that no write is behind the read it waits for, so that
  the answer shows every flag at rest (`ReadIsLast`), and that no write goes to
  a flag it would not change (`WritesTake`).
* `FlagSchedulerProofs!HoldsImplemented`: `Spec => ImplementsHolds`, under the same
  conditions. A handler that casts writes is where `FlagHolds` takes or gives
  back; Storage's own steps are stutters, because `RestInv` has already counted
  their writes.
* `FlagSchedulerProofs!IntervalsGoOn`, `NextUpIsTold`, `IntervalsAreApart`:
  `OneIntervalAhead`, `NextUpIsAccurate` and `IntervalsDoNotOverlap`, for any
  configurations, requests, lag and faults. The invariant `IntervalInv` has no message
  of a later run than the present one (`EpochsPast`), and, while the scheduler runs,
  `Chain`: one next interval, armed or in the mailbox; one trigger for each
  activation announced; and every trigger before that interval, by its remaining
  time, by its place in the mailbox, or by being there already. Whoever fires first
  is in the mailbox first, so that the order survives a scheduler that is late.
* `FlagLabProofs!TypeCorrect`: `Spec => []TypeOK`, for any number of sessions.
* `FlagLabProofs!SnapshotIsKept`, `NoFaultIsOrphaned`, `RestoreIsExact`: `RecoveryKept`,
  `NoOrphanFault` and `UneditedRestoreIsExact` for one session, any number of
  buttons, polls, edits and failures, and any faults of the bank. With two sessions
  the first of them is finding 2. `OneSession` says that a script run past the
  check works with the snapshot that is in the file. `OneRead` says that a session
  has a read in the mailbox only while it waits, and only one; the answer that
  ends a wait is therefore the document as it was after everything sent before
  that read. `NoFaultLeft` and `Agreed` say what may still be behind the read, and
  so what the document can become after the answer: no fault when the others
  leave the managed flags alone, nothing but reads when there was no edit.
  `NoFaultIsOrphaned` also asks that the flags have no fault at the start, as in
  `demo.flagd.json`, whose defaults are the question bank's safe variants.
* `OrderTotalProofs!SumIsExact`, `SumIsValid`, `SumOfFractionsIsInvalid`,
  `NegativeFractionsWrap`: for any size of the unit and any widths that hold the
  sum of two nanos, the sum of two amounts of any sign is worth what they are worth,
  as long as neither the units nor, in the branch for different signs, the nanos
  overflow. The sum of non-negative amounts is valid when the units are not both
  zero, and invalid when it stays below one unit: that is finding 4 for every
  such pair. The condition on the nanos fails for two negative amounts without
  units whose nanos together are below 10^9 - 2^31, and then the sum is 2^32
  nanos too high; no price of the shop is negative.
* `OrderTotalProofs!PageReadsLikeTheCharge`: units and nanos carried once read like any
  valid, non-negative amount that is worth the same.
* `OrderTotalProofs!TypeCorrect`, `OrderTotalIsExact`, `WholePricesAreSafe`,
  `PagesShowTheCharge`: the four properties of the `order_total` run for orders of
  any length. The last three take prices that are not negative and at most `K`
  units, with `K` so small that no order overflows an int64 (`PricesUpTo`): a
  million units and two thousand items are far from it. `WholePricesAreSafe` adds that
  the currency service returned valid amounts in the user's currency
  (`Converted`), without which `Must` may panic. The totals are sums over the items, so the
  invariants need induction. The library's induction rule cannot be used here
  because it takes an operator; `NatSetInduction` states it for a set of numbers and
  derives it from the pigeonhole principle, and `SumTo`'s equations follow from it.
* `CheckoutProofs!TypeCorrect`, `OnlyPaidIsShipped`, `NoItemIsLost`,
  `NothingBoughtStays`: the four properties of the `checkout` run that are about
  `Checkout`, for any sets of requests. The inductive invariant `Inv` adds to them
  `Progress` (where a handler is tells what has been done for its order),
  `Unwritten` (a unit is nowhere before its write) and `Alone` (an AddItem that
  overlaps nothing writes what it has read, and an order has the whole cart among
  its items, so that emptying the cart loses nothing). `Invariance` proves it
  with one lemma for each part.
* `OrderPipelineProofs!CheckoutImplemented`: `PipelineSpec => ImplementsCheckout`,
  for any set of orders, channel size and number of copies. One lemma,
  `Simulates`, takes each action to an action of `Checkout` or to a stutter.
  Through it the four theorems above hold of the whole pipeline.
* `OrderPipelineProofs!PipelineTypeCorrect`, `ResultsAreBalanced`,
  `OrdersAreRecordedOnce`, `NoPublishedOrderIsLost`. The invariant `PipelineInv`
  joins the types with `Places` (an order that has not got to the producer has no
  message anywhere, and what is anywhere was published), `Balance` (the count of
  results and of those who wait), `Recorded` (at most one record, of an order
  that was published) and `PublishedIsRecorded`. Counting waiting handlers needs
  `Orders` to be finite, which is part of `PipelineAssumption`.
* `StorefrontProofs!TypeCorrect`, `OwnWritesAreRead`, `ConfirmationsAreTrue`,
  `DeclinesAreTrue`, `UpdatesLand`: the safety properties of the `storefront` run for any tabs,
  products, calls under way, retries and faults. To the types, `Inv` adds `Aged`
  (nothing is younger than the cart), `Same` (a copy of the cart's age is the cart, and a
  difference taken from such a copy still makes the quantity asked for, which is
  why `UpdateLands` holds), `Seen` (a fetch that was read, and a copy at rest, are not older than
  what the tab is owed, which is why a fetch under way has to be given up) and
  `Truthful` (what an answer's status says of the order is so).

* `MessageLayerProofs!CorrectDepth`: if the functions of the nested messages are
  correct, those of the messages that hold them are. *Correct* is four statements
  about a set of messages. `ReadsDepth`: from what the encoder wrote, or from any
  other wire of it (`OtherWires`), the reader recovers the message if it can read
  it, and otherwise the message has an `int64` that is not safe; it goes through
  what a decoder collects for one field of a sequence of entries (`ValuesOn`),
  which swapped fields, unknown entries and other nested wires leave alone
  (`SwapRead`, `InsertRead`, `ReplaceRead`). `CountsDepth`: the
  numbers in a message are integers. `RestoresDepth`: `fromJSON` and
  `fromPartial` give back what `toJSON` was given. `MakesDepth`: blank, full and
  changed messages are messages, with the numbers they were made of. All of them rest on what `FlattenSeq` does to
  sequences of any length, so they need induction: `SeqSetInduction` is for a set
  of sequences, and is derived from `NatSetInduction`, and that from the
  pigeonhole principle.
* `RpcProofs!Invariant`: the inductive invariant of a call says, phase by phase,
  what is under way: a message of the method called, with the wire its encoder
  gives (`request`); that message, read (`served`); an answer (`answered`), with
  one of its wires (`reply`), read in its turn (`done`) or with a number that is
  not safe (`unreadable`); and for recommendations the list the page passed, and
  an answer that leaves its products out. `RequestKept` and `AnswerKept` are not
  inductive by themselves: nothing in them says what the wire has to do with the
  message. `Correct1` to `Correct4` apply
  `CorrectDepth` once for each depth, starting from messages with none inside.
  TLC checked the invariant on the instance of the `rpc` run before it was
  proved.
* `RpcProofs!TypeCorrect`, `RequestIsKept`, `AnswerIsKept`, `FailsOnlyForNumbers`,
  `JsonIsRestored`, `OthersAreRecommended`: the six properties of the `rpc` run, for any
  table of messages as in `MessagesAssumption` (distinct numbers, known kinds,
  four levels of nesting), any methods, numbers, strings, catalogue and lists.
  For the last one, `JoinedSplits` shows by induction over the list that the
  characters the service joins and splits at the commas are the products the page
  passed, for which `CatalogueAssumption` asks that products are spelled
  differently, without commas and not empty; `ShowsOthers` counts the products
  that are left. `RecommendationsAssumption` says what fields the two messages
  of that call have.

The assumptions are those the modules name (`...Assumption`), which TLC evaluates
in every run that extends them, and the hypotheses said above. Only
model-checked are the liveness properties (`StopRestores`, `HoldsEnd`,
`ScriptRunsEnd`, `Settles`), because fairness and `ENABLED` are outside the
prover's reach, and the four findings, which are counterexamples.

## Not modelled

Of the parts that are modelled:

* The clients of Storage that work on old documents: the editor that saves the
  document it loaded, and a lab snapshot taken while accepted edits are still in
  the mailbox. In both the last writer wins with a whole document, and nothing in
  the repository says that the edits in between are kept: their hazards are listed
  without a property.
* The shutdown of flagd-ui, where the scheduler casts its reverts to a Storage
  that is stopped next.
* Handlers of checkout that wait for ever after a failed message: the code sets
  no deadline, so nothing can be promised of them beyond `ResultsBalance`.
* In the storefront: the currency in the keys of queries, the shipping quote,
  adverts, the currency switch and sessions; an update made from an old copy,
  whose difference can then leave any quantity in the cart, negative ones too
  (`UpdateLands` states what is promised instead).
* In the protocol code: bytes that are no message at all, groups, and packed
  numbers, which no message of the shop has; `fromJSON` for values of another
  type than the field's.

Parts that are not modelled:

* The mobile app is a second client of the same routes. Its cart provider is the
  web page's; its `Request.ts` does not look at the status of an answer, which is
  the mutant `Accepts_any_answer` of `Storefront` and breaks
  `ConfirmedMeansPlaced`. Its copy of `demo.ts` is older, and only its types are
  used.
* The lab's progress store is one read-modify-write of a file that nothing else
  reads; two sessions can lose a submission.
* The list that recommendation keeps growing and the lock that product-catalog's
  queries contend for are there to misbehave when a flag is on; the lock is
  PostgreSQL's.
* Currency, quote, shipping, payment, email and ad keep no state, and compute in
  floating point or pick at random; they appear as calls that may fail.
  Currency's map of rates, into which a lookup of an unknown currency inserts a
  zero while other requests read it, is a data race inside a standard container,
  below what these modules describe.
* fraud-detection logs; the load generator sends independent requests; chatbot,
  agent and the tools they share are clients of a language model.
* Telemetry, rendering, styles, generated stubs of the other languages, and the
  configuration of proxies, brokers and databases.
