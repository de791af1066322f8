# ABEX in TLA+

ABEX is an order gateway for crypto exchanges (OKX, Binance, and a simulator).
Clients place, cancel and amend orders through one canonical interface; the
gateway checks and journals each intent, calls the venue, and merges the
execution reports that come back over the venue's stream, over answers to its
own calls and over reconciliation. This directory holds TLA+ models of that path
and of the concurrent parts around it, the TLC configurations that check them,
and TLAPS proofs. File names below are relative to the root of the repository.

## 1. The parts of the system

| Part | State | Operations | What makes it correct |
|---|---|---|---|
| `OrderStateMachine` (`include/abex/domain/order_state_machine.hpp`) | none; works on an `Order` | `apply(order, report)` | the result does not depend on the order or repetition of reports; terminal orders stay terminal; fills are real and monotonic; pending actions end when the venue says so |
| `OrderGateway` (`src/application/order_gateway.cpp`) | `orders_`, `active_operations_`, `deferred_amend_reports_`, `conservative_positions_`, `health_`, the journal sequence | `place`, `cancel`, `amend`, `reconcile`, the event and connection callbacks, `start`, `stop` | append before route; one venue call per request; one operation per order; position = sum of the orders; a terminal order does not trade; a healthy gateway has what the venue has |
| Pre-trade checks (`risk_manager.cpp`, `order_gateway.cpp`, `decimal.cpp`) | limits, instrument rules, balances | `validate`, `instrument_rules_decision`, `funding_decision` | an accepted order keeps every limit, although products are truncated |
| `SpscExecutionLane` | ring, `head_`, `tail_`, `pending_`, two semaphores, `producer_active_` | `submit`, worker `run`, `flush`, destructor | FIFO, no overwritten slot, no lost or doubled report, `flush` and the destructor return and mean what they say |
| `MpscRing`, `AsyncOrderObserverQueue`, `OperationalEventWriter`, `AsyncJournalLane` | slots with sequence numbers, semaphores, `pending_`, observers | push, worker, `flush`, `add`/`remove`, destructor | order of positions, no loss in silence, no call after removal, drain on stop |
| `FileOrderStore` | journal file, indexes, two generations | `append`, `commit_order`, `append_event`, sync worker, recovery, destructor | what was acknowledged survives; synced means on disk; numbers are unique |
| Venue adapters, `ReconnectingWebSocket`, heartbeat | sockets, write queue, request table, login and subscription | `send`, the handlers of the io thread, readiness, requests, `stop` | ready means subscribed; nothing is written twice or forgotten; the session comes back |
| `VenueCache`, `TokenBucketRateLimiter` | maps of rules and balances; capacity, period and arrival time of a bucket | look-up, `warm`, refresh, `stop`; `try_acquire`, `synchronize` | freshness; no more tokens than the budget |
| `SimulatedExchangeAdapter`, `SequenceTracker` | simulated orders, held-back reports, sequence | the commands, matching, `disconnect`, `reconnect`, `restore`; `observe` | every report exists once; a lost one is noticed |
| Market-data ring, feed, `MarketDataBook` | shared-memory ring, cursor, slots with versions | `publish`, `read_available`, `read_slot` | no torn or stale record passes for a quote |
| HTTP server, API, web console | sessions and their queues; the list of orders shown | accept, snapshot, broadcast, write; poll, command | the console ends at the latest state |
| CLI, bootstrap, JSON views, HTTP client, crypto | none of their own | parsing, formatting, wiring | not state machines |

How they interact. API threads call the gateway. The gateway works under
`mutex_` but never holds it across journal writes or venue calls, so each
command is a sequence of lock sections with I/O between them. A stream thread
of an adapter submits reports to the lane of its venue; the lane's worker
applies them under `mutex_`. A reconciliation worker asks the venue for its open
orders and then for each order it has not seen, again with the lock released
during each query. All of them persist through `prepare_persist` (numbers the
record, under the lock) and `commit_persist` (appends it, outside the lock), and
announce changes through the observer queue, from which the HTTP server
broadcasts to the browsers. Prices come from another process through a ring in
shared memory.

What is hard: an answer, a stream report and a reconciliation answer about one
order in any order; timeouts whose request takes effect later or never; the two
physical orders of a Binance cancel-replace; full rings; lost streams; a crash
between intent, send and outcome; lock-free code between threads and between
processes. `PROJECT.json` lists each hazard at its line with the properties that
are about it.

## 2. Modules

| Module | Models | Notes |
|---|---|---|
| `OrderStateMachine` | `apply` and its helpers, as operators on order and report records | no state |
| `OrderLifecycle` | one canonical order, its physical order, and reports delivered late, reordered, repeated | each delivery is one `apply` |
| `PreTrade` | risk limits, instrument rules and funding over fixed-point numbers | operators |
| `OrderGateway` | commands, lane worker, reconciliation, journal contract, stream and venue | composes the two above; uses lane and journal by what they promise |
| `ReportQueue` | a bounded FIFO that drains | abstract specification |
| `SpscExecutionLane` | the lane, one step per access to shared memory | implements `ReportQueue` |
| `MpscEventQueue` | `MpscRing` and the queues on it, one step per access | implements `ReportQueue` |
| `FileOrderStore` | the journal, its sync worker and its recovery | provides the contract of `OrderGateway` |
| `VenueSession` | the private session of a live venue | Binance and OKX over one socket module |
| `TokenBucket` | the budget of requests | one step per atomic access and clock reading |
| `BudgetWindow` | an observer of the bucket, who opens a window at any time | history only |
| `VenueCache` | cache of rules and balances | composes `TokenBucket`, the adapters' queries and the cache |
| `SimulatedExchange` | the simulator with lane, state machine and tracker | composes `OrderStateMachine` |
| `MarketData` | writer process, ring, feed, book, reader | |
| `LiveStream` | observer queue, server session, console | |
| `..._proofs` | theorems about the module they are named after; `OrderLifecycle_proofs` also about `SimulatedExchange`, `OrderGateway_proofs` also about `PreTrade`, `VenueCache_proofs` also about `TokenBucket` and `BudgetWindow`; `Sessions_proofs` about `VenueSession` and `LiveStream` | |
| `MC...` | the constants of the TLC runs | |

### OrderStateMachine and OrderLifecycle

An order record holds the fields on which `apply` decides: status, quantity,
price, filled quantity, exchange id and client ids, the aliases and offsets of
earlier generations, the pending action with its terms, the last sequence and
the processed event ids. Money columns, timestamps and messages are left out.
`Disposition`, `DeriveStatus`, `MergeTerms`, `MergeFills` and `Merge` follow the
function from top to bottom, including the order in which terms, status, fill
and pending action are updated.

`OrderLifecycle` takes the sequence numbers of the simulator (`Sequenced = TRUE`)
or none, as the OKX and Binance adapters report (`Sequenced = FALSE`). Its physical
order is a venue that amends no order below what it has filled; the simulator does not
compare the two (section 5), and `SimulatedExchange` models it as it is.

### PreTrade and OrderGateway

A Decimal is its raw integer; `Scale` and `MaxRaw` are parameters. A product is
truncated by the scale and does not exist when it does not fit: then the check
throws. `Validate`, `RulesDecision` and `FundingDecision` keep the order of the
code's tests, and a verdict is accept, reject or throw.

A step of `OrderGateway` is one hold of `mutex_`, one append to the journal, one
venue call, or one event at the venue. A command runs `...Begin` (lock section up
to the intent, the pre-trade verdict included), `CommitPersist` (append), one of
the `Send`/`Accepted` actions (the venue call, with its effect at the venue),
`...Finish` (lock section after the call), `CommitPersist` (outcome),
`CommandApply` (reports that came with the answer or were deferred),
`CommandReturn`. `LaneApply` is the lane's worker, `RecBegin` ... `RecEnd` is
`reconcile()` query by query. `VenueFill`, `VenueArrive` and `VenueLose` are the
venue: it fills, executes a request whose caller has timed out, or never gets
it. `Crash` is the death of the process and the restart from the journal.

Simplifications, all of data and not of control: one venue, one symbol that the
compiled index knows; reports without sequence numbers; amendments of quantity
only; the immediate query after an OKX market order is not made; OKX takes client
ids unchanged. The journal is used by its contract, the record of highest
sequence per order survives the death of the process (`FileOrderStore` shows it).
`LaneCapacity` is `event_queue_capacity` plus the report in the worker's hand. A
scenario is a record of settings that a behaviour starts with: several settings
share one run.

### The queues

In `SpscExecutionLane` and `MpscEventQueue` every load, store, semaphore
operation and exchange is a step of its own. The accesses are at least
acquire/release wherever another thread reads the same location, so a
sequentially consistent interleaving is adequate; the plain accesses to the
slots are separate steps, and `RingIntact` says that they never collide. Indexes are 64-bit and do not wrap in practice. Both refinements
map the abstract queue to what has its position and is not yet handled.
`MpscEventQueue` stands for all three classes on the ring; its owner is the thread
that destroys the HTTP server (remove, flush) and then the gateway.

### FileOrderStore

The file is a sequence of tokens: records, whole or cut short, and newlines. A
step of a caller is: take a number, write (a piece at a time: whole or half),
update an index, raise the generation, notify. The worker's check of the
predicate and its sleep are two steps, so the wake-up that `signal_sync` sends
without the mutex can be lost. `ProcessDies` keeps the file, `PowerLoss` keeps at
least what a completed fdatasync covered, and of the record at the cut any part
(`Cut`); `Recover` repairs a torn tail, refuses
other damage, and rebuilds indexes and numbers. `RepairFails` is a repair that was made
and whose fdatasync failed: the constructor throws, and the next start finds the
repaired file. A repair that fails itself changes nothing.

### VenueSession, TokenBucket and VenueCache

The handlers of the socket run on one io thread, so each is one action; `send` of
another thread counts, then posts. Name resolution and the handshakes are one
step. Assumed: handlers posted and completions due run before the reconnect timer
(250 ms or more) and the heartbeat timers; the interval of the clock thread is
longer than a round trip. A caller takes a step per lock section: the two waits for
readiness, the entry in the table, the message, the wait, and the erasure after it, so an
answer may come between the end of the wait and the erasure. The peer of either venue
may fall silent (`PeerDies`); only OKX has a heartbeat (`Heartbeats`).

`TokenBucket` has one step per atomic access and per reading of the clock of
`try_acquire` and `synchronize`: `capacity`, `period` and `tat` are the three atomics, so
a request may combine what three different reports stored. Time is counted in units in
which every period is whole. `BudgetWindow` adds an observer, who opens a window at any
time (`OpenWindow`) and adds up what is granted from then on; the arrival time that a
report stores begins a window too. `VenueCache` puts the look-ups, the worker, the
adapter's own cache of rules and the rate reports of the venue on top of the bucket. Its
one clock stands for the wall clock that `VenueCache` reads and the steady clock of the
adapter and the bucket: a wall clock that is set is outside the model.

### SimulatedExchange, MarketData, LiveStream

The simulator numbers a report under its lock and hands it over in a later step,
so numbers overtake one another; `reconnect` raises the flag, takes the buffer,
and delivers outside the lock. The gateway's side is the lane, `Apply` and
`Observe`. Orders whose command had no answer are in `doubt`: they wait for
reconciliation, which is in `OrderGateway`. So are orders that the simulator has amended
below what it had filled (section 5).

A quote of `MarketData` is named by the life of its writer, its number and its
key, and is stored in two halves, so that a reader can meet halves of two quotes.
Accesses take effect in program order, as on x86.

`LiveStream` follows one order whose n-th state is n, again read in two halves:
the observer gets the shared `Order` without `mutex_`. The browser hears of it
over the session, over answers to its commands and over `refreshAll`. Each request is
asked, answered and applied in steps of its own and may fail at any of them
(`RequestFails`). `refreshAll` shows what it got only if all its requests
succeeded; without a market-data book one of them never does (`Apply`). A command
changes the order, announces it, and answers with the copy it made (`place`) or, after
`flush_events`, with a copy made under `mutex_`.

## 3. Runs

Every cfg but that of `market_data` says `CHECK_DEADLOCK FALSE`: commands and
events are bounded, and a system to which nothing happens rightly stands still
(the feed polls for ever).

| Run | Bounds | Shows |
|---|---|---|
| `reports` | one order of quantity 3, one amendment to 2 or 5, 7 reports; or the simulator with 2 orders of 1 or 3, fills of any part, 3 calls, 3 reports per life, one disconnection or restart | the order follows the physical order whatever the delivery, an amendment is confirmed by the venue only, and settles, nothing is undone; reports conserved, none stranded, gaps flagged, gateway converges, numbers move on |
| `lane` | 2 slots, 2 producer threads, 4 submits, 1 flush, destructor at any time | FIFO, exclusion on slots, producer exclusion, flush, drain, refinement, termination |
| `gateway` | six scenarios, below | accounting, exclusion, append before route, no second send, health, limits, no invented fill or end |
| `gateway_fills` | one order, lost stream, full lane, passes of reconciliation, fairness | every fill arrives |
| `journal` | 2 threads, 2 sequence numbers, caches of 1, four journals found at start (empty, one order, a torn tail, two records glued before another), failing write, fdatasync and repair, one death or loss of power | what survives, what synced means, unique numbers, indexes, the destructor ends |
| `event_queue` | 2 slots, 2 producers, 3 posts, 1 observer added and removed | order, exclusion, flush, removal, refinement, termination |
| `market_data` | 1 key, ring of 2, 3 quotes per life, 2 lives | no torn quote or answer, the book is current, old quotes go, the feed catches up |
| `venue_session` | both venues, 1 caller with 2 requests, 3 outbound messages, 3 faults | readiness, exact count, at most one write, no forgotten request; the session comes back after loss and refusal, and on OKX after silence (a silent Binance peer is exempt: nothing notices it) |
| `token_bucket` | 2 threads, costs, capacities and periods of 1 or 2, 3 ticks | in every window no more is granted than was left and refilled; the debt is bounded |
| `venue_cache` | 1 caller and the worker, a budget of 1 or 2, queries of 2, 1 symbol, 1 currency, 3 ticks | freshness, entries stay, calls return, stop ends |
| `live_stream` | a server with a market-data book, 2 changes, ring of 1, 2 pending messages, 2 sessions, other broadcasts while at most 1 handler is posted | the buffer of a write stays, the stream converges or asks for a resync, polling repairs the console |
| `gateway_vterminal` | one order | a disagreement (section 5) |

`reports` starts `OrderLifecycle` and `SimulatedExchange` side by side, and whichever takes
the first step goes on alone (`MCReports`).

The scenarios of `gateway`: *Racing* (two threads cancel and amend one OKX order,
requests are refused or time out), *Dropping* (one thread, a lane of 3, the stream
breaks once), *Replacing* (a Binance cancel-replace by two threads, half-done
too), *Crashing* (two orders of 2 under a limit of 3, failing appends, one crash
at any step), *Reconciled* (passes of reconciliation beside commands, failing
queries), *Refusing* (orders of several sizes and prices on both sides against
varying quotes, rules and balances, with products that are truncated or
overflow).

Why the bounds are enough to be interesting. Quantity 3 to 5 with 7 reports gives
several partial fills, the amendment, the final fill or cancel, and every overtaking
among them. Four submits wrap a ring of two slots twice and overrun it; three posts
wrap and overrun the other. Two threads and two or three commands give each race of
the gateway: a command against a command, against the lane, against reconciliation.
`maxStamp` stops fills, not cancellations or answers, after so many events. Two
records of two threads give every order of numbering, writing and indexing; a
journal that start-up refuses takes three, so one of the journals found at the start
(`MCFound`) is what a half-way failed write and two more appends leave. Three quotes
in a ring of two overwrite a record that is being read; two lives reuse its number.
Three faults break a session, break its successor, and refuse a request. Two
capacities and two periods make a request of either cost affordable under one report
and not under another, between any two of whose stores it may read; three ticks
refill a bucket, and leave it idle. Two versions and a ring of one give a dropped, a
torn and an overtaken update. All bounds are guards of the actions and are named in
the modules.

A property of a run is often a conjunction of named parts that belong together
(`RingIntact`, `IndexesAgree`, ...; the type invariant is one of them where it is not
a property of its own); each part has its own comment in the module.

The properties of `gateway` carry the conditions under which they hold
(`~Reconciling`, `"journal" \notin Faults`, one side only); section 5 says what
happens without them.

### Fairness

A thread inside a call goes on when it can, a worker or io thread runs what is
ready, timers expire. No thread is obliged to call anything, nobody to trade, to
publish, to crash or to disconnect. In particular:

- gateway: every venue call has a timeout; the timer of the reconciliation worker
  fires again (`reconciliation_interval`, 30 s by default; with an interval of zero
  `FillsArrive` does not apply); a lost stream is reconnected; a request on its way
  is executed or lost at some time;
- journal: the worker, callers inside an append, and the destructor;
- market data: the feed polls (`MarketDataFeed` sleeps between passes, no more);
- venue session: a living venue answers; nothing says the connection stays, the
  faults are bounded. A silent OKX peer is noticed by the heartbeat's timers;
- venue cache: threads, and queries that are answered or time out;
- live stream: only the 15 s timer of the console, and that not every `refreshAll`
  fails (strong fairness of its answer and of its arrival). The server's other threads,
  the socket and the commands may stand still; one `refreshAll` at a time.

## 4. Proofs

`OrderLifecycle_proofs` proves, for every quantity, every number of reports, and
any constants that satisfy `LifecycleAssumption`:

- `TypeCorrect`: the type invariant, with amendments, with and without sequence
  numbers;
- `TerminalNeverReopens`: no delivery takes an order out of a terminal status,
  and FILLED is kept;
- `FinishedByTheVenue`: a terminal status of the gateway is a fact at the venue, for
  any number of amendments, with and without sequence numbers;
- `AmendmentsSettle` (`AmendmentSettled`): the first amendment of an order is pending
  until the venue has made it and a report of it has arrived, and no longer, if it
  changes the quantity; with and without sequence numbers.

and, when reports carry sequence numbers, for every order:

- `OrderFollowsVenue` (`FollowsVenue`), from `TypeCorrect`, `FinishedByTheVenue`, `FillsAreReal` (as
  long as no amendment has been requested, a fill of the gateway is a fact at the
  venue) and `DeliveryOrderIrrelevant` (when every report has arrived, in whatever
  order and however often, order and venue agree, again without amendment);
- `DeliveryUndoesNothing` (`NothingUndone`), from `TerminalNeverReopens` and
  `FillsNeverShrink`.

The assumptions are needed. With `Sequenced = FALSE` TLC refutes `Converges`: a
late LIVE report turns PARTIALLY_FILLED back into LIVE (`derive_status`,
`order_state_machine.hpp:47`). Without `amends = 0` it refutes `FillMonotonic`: a
stale report brings back the quantity of before the amendment (line 117), and
the fill of a FILLED order falls to it (line 135). And with a second amendment, or one
that asks for the quantity the order has, it refutes `AmendmentSettled`: a late report of
the same quantity confirms what the venue has not made (`amendment_confirmed`, lines
51-60, compares quantities and not the age of the report).

The argument. None of these is inductive: that the gateway shows the venue's
status depends on what the reports say of one another. `IInv` has three parts
besides the types. `VenueInv` is the physical order by itself, with its last
report in `sent`. `SentInv` says that reports are numbered without repetition,
that cumulative quantities grow with the number, and that a CANCELED or REJECTED
report is the last. `OrderInv` says what the gateway shows as a function of the
*set* of delivered reports: the largest cumulative quantity, the cancellation if
it is among them, and otherwise the status that the quantity implies; and that
the event ids processed are those of the delivered reports. The invariant is
kept by every step but an amendment, and no step forgets that one was requested
(`AmendsCounted`), so `amends = 0 => IInv` holds always (`UnamendedInv`). A repeated report
changes nothing (`RepeatedReport`); a new one is followed field by field
(`NewReport`) and keeps `OrderInv` (`NewReportKeeps`); an event at the venue keeps
it too (`EmitKeeps`).

The two theorems with amendments rest on a second invariant that says nothing of the
order of the reports. In `BaseInv`, `EvidenceInv` says that a report that finishes the
order, by its status or by filling the quantity that it states itself, comes from a venue
that has finished it; `AcceptInv`, that the order accepts every report and knows each it
has had. `MergedReport` shows that `apply` compares the fill of a report with the quantity
of the same report, which is why a stale report cannot finish an order that still works.
`AmendInv` adds who has the old and who the new terms, and that a pending amendment has
not been reported to the order yet.

The same module proves of `SimulatedExchange`, for any number of orders, commands, reports,
disconnections and restarts (`SimAssumption`), `ReportsAreAccountedFor`
(`ReportsAccountedFor`). `SimInv` has, besides the types and the property itself,
`ThreadInv` (what a thread holds at each step, and that the order of a command is known to
the simulator from its lock section on) and `BufferInv` (the buffer of a connected
simulator is empty but for the moment between the flag and the swap of `reconnect`).
`ReportsConserved` is proved as a statement about sets and counts (`Accounted`), which
moving a report leaves alone. `RestoreMovesOn` is the part that is not inductive: `restore`
computes the next number and the next identifier from the open orders that the *gateway*
recovered, so `IdentityInv` says that every report names the identifier of its order in the
simulator or none, that the gateway knows no other, that what it has applied is below the
next number, and that an order which is missing in the simulator has ended or has never
been acknowledged.

`GatewayDoesConverge` (`GatewayConverges`) rests on a second invariant, `ConvInv`, relative
to `SimInv`. The property speaks only of states in which no report is on its way; `ConvInv`
says what each report on its way is going to do. It looks at an order of the simulator, the
gateway's copy of it and the set of its reports, wherever they are, with the order in which
the lane applies them (`Converging`): the highest fill is known to the gateway or on its way
(`Fills`); reports with the quantity before an amendment are ahead of those with the new one
(`Terms`); no report has a quantity that the fills applied before it have reached, or `apply`
would call the order filled too early (`Room`); the report of a cancellation has the
highest number when it is applied (`Ends`), or it would be refused as stale. An amendment
may bring the quantity down to exactly what is filled, with the simulator still calling the
order open (`Squeezed`): the gateway must then not settle the amendment before the report
that fills it up, or its next command would find the order in another state (`Squeeze`,
`Pressed`). `Commanded` says what a command finds under the lock of the simulator, and
`Remembers` that the events the gateway has seen are not on their way again, for which
`HeadIsNew` counts: as many reports as numbers means each number is in one place. After a
restart numbers that the lost reports had are given out again, which is why `Remembers`
splits the events at the first number of the life.

`SpscExecutionLane_proofs` proves, for every capacity of at least 1 and any
number of threads, flushes and submits (`LaneAssumption`):

- `LaneTypeCorrect`: in particular no counter is taken below zero;
- `RingStaysIntact`, from `LaneTypeCorrect`, `OneProducer`, `SlotsNeverOverwritten`, `WakeupsAreReal`
  and `FirstInFirstOut`: the flag and the two semaphores keep threads apart,
  although `push` reads no `head_`, and the reports in order;
- `CallsAreComplete`, from `FlushIsComplete` and `DestructorDrains`;
- `LaneIsAQueue`: each step is a step of `ReportQueue` or leaves it alone.

The argument. That push finds an empty slot follows from no single variable: it
is a matter of what all counters together count. `LInv` has four parts besides the
types. `ProducerInv` is the flag: at most one thread is inside `submit`, none once
the destructor runs. `CountInv` is bookkeeping: every slot is in `available_slots_`,
published, or in the hands of the producer or of the worker; every item is in
`available_items_`, in the worker's hands or about to be released, the sentinel
counted once; `pending_` is what is published and not settled, or about to be
published. `SlotInv` says what each slot holds, and rests on `IndexDistinct`:
positions less than the capacity apart have different slots. `HistoryInv` relates
what was published, returned, handled and awaited by `flush`. Each part has one
lemma for the step (`CountInvStep`, `SlotInvStep`, ...), with the producer's side
split off where it is long.

`OrderGateway_proofs` proves, for every set of orders, commands, threads, physical
orders and scenarios, with failing appends, uncertain answers, passes of
reconciliation and crashes:

- `OneOperation` (`OneOperationPerOrder`): two commands are never in venue calls for
  one order;
- `CommandsRoutedOnce` (`RoutedOnce`): what an adapter was given is in the journal, and no
  retry, concurrent or after a restart, makes a second venue call;
- `GatewayTyped` (`TypeOK`): the types, which contain the capacity of the lane;
- `PositionIsKept` (`PositionKept`): every step moves `conservative_positions_` by what the
  contributions of the orders change by, and a restart sets it to their sum;
- `JournalForgetsNothing`: the journal loses no request that it has once held;
- `VenueKeepsLimits` (`VenueOrdersLegal`): what rests at the venue keeps the limits of size
  and notional value, amendments and replacements included, and the rules of an instrument
  that trades if it was never amended, at OKX and at Binance;
- `OkxShowsOnlyFacts`, which is `OnlyFacts` at OKX: an order that the gateway calls finished
  does not trade any more, and the fills it shows were made, across timeouts, late and
  repeated reports, passes of reconciliation and crashes.

The assumptions are those of the modules: orders and physical orders are disjoint
sets of identifiers, the physical orders finitely many, thread names differ from the
lane's and the reconciler's, scenarios are well formed, the value for "none" is no physical
order, limits and minimum notional are not negative (`GatewayAssumption`), and for `Decimal`
the scale is positive. `RiskManager::from_json` does not check the sign of a limit, but a
gateway with a negative one refuses every order; the protocols keep only a positive minimum
notional (`positive_decimal_field`).

The argument. `AppendBeforeRoute` fails to be inductive in two ways. A record is
numbered under `mutex_` and appended outside it, so an older record can arrive after
a newer one; and what is sent depends on a thread that is still to append.
`GInv` therefore adds to the types: `CallInv`, a thread inside a venue call owns its
order in `active_operations_` and has noted its request in memory; `OwnInv`, who
holds a sequence number is about to append, holds one only, and that record contains
its request; `LogInv`, the records that are numbered and not yet appended grow with
their number, the journal is at least as new as those it has superseded and not newer
than those it has not, and memory has what either has; `SentInv`, a thread that is
about to send finds its request in the journal, and nothing has been sent under its
identifier. `Journaled` keeps the record of the highest number, which is exactly what
`LogInv` needs. A crash empties `reserved` and reads memory from the journal, so
`LogInv` also carries `SentInv` over a restart. Of `apply` the proof uses the lemmas
at the head of the module (it keeps an order well formed).

`PositionKept` compares a difference, which the code adds, with a sum over all orders,
which `rebuild_indexes_locked` computes in a loop (`Totals`). What the loop computes for
every number of orders is an induction over data. It is done by the least counterexample,
from the well-foundedness of the naturals (`LeastNat`): the loop has a value after every
number of turns (`SumExists`, `TotalsAddUp`), visits every order once (`OrderOfCids`), and its
result moves by the difference when one order changes (`ExposureMoves`). Each step then changes
one order at most, together with the position (`StepAdjusts`), except for the unanswered
query that reopens a terminal order (section 5), which `PositionKept` names.

The last two theorems relate the gateway to the venue. A report or a copy of an order is in
many places: under way from the venue, in the lane, deferred, in the hands of a
thread or of reconciliation, in memory, in a record to be appended, in the journal. The
lemmas `StepReports`, `StepOrders` and `CrashOrders` say once how a step moves them, so that
a statement about all reports or all copies (`ReportsIn`, `OrdersIn`) is kept when each new
one satisfies it. `VenueSteps`, `RequestSteps` and `ThreadSteps` say what a step does to a physical order,
to a request under way and to a thread. On these rest four invariants beside `GInv`:

- `NamesInv`: an exchange identifier, wherever it is held, names a physical order of that
  very client order, so that no request and no report reaches another one;
- `LegalInv`: every physical order, every request under way and every intent has passed the
  checks with the terms it has now;
- `OneInv` (OKX): an order is placed once, by one request that has one physical order at
  most, and a thread that still has to place it is the first;
- `FactsInv` (OKX): every report is a fact (`Facts`: its fill was made, its end has
  happened, and it states no more than the present quantity unless the order was made
  smaller), facts stay facts (`FactsStay`), and every copy of an order claims what is a
  fact (`FactOrders`). A REJECTED order needs more than the venue's silence: `Ended`
  also says that no placement is under way or still to come.

Crashes are why `FactOrders` speaks of the journal's copies too: a restart may bring back
any of them.

The same module proves, for every scale and width of Decimal, `ValidatedKeepsLimits`
(an accepted quantity keeps size and position limit exactly and exceeds the
notional limit by less than one unit) and `AcceptedOrderIsLegal` (an accepted limit
order keeps in addition the rules and the minimum value of the venue exactly, and
the balance covers it up to less than one unit). Both rest on what truncation does
to a product (`CutFromAbove`, `CutFromBelow`).

`MpscEventQueue_proofs` proves, for every capacity of at least 1 and any number of
producers, posts and observers:

- `RingStaysIntact`: a producer finds its slot empty, the worker a value in it, events
  are processed and observers called in the order of `tail_`;
- `CallsAreComplete`: `flush`, the removal of an observer and the destructor mean what
  they say;
- `EventsComeOnce`: no event is processed, and no observer told of it, twice;
- `EventsAreAQueue`: each step is a step of `ReportQueue` or leaves it alone.

The argument. Several producers hold positions at once and publish them in any
order, while the permits of `available_items_` are interchangeable: a permit says
that some slot is published, not which. `QInv` is the type invariant with `CountInv`
(every slot is in `available_slots_`, held, occupied or about to be given back;
`pending_`), `WriterInv` (a position between `head_` and `tail_` is published or in the
hands of one producer), `SlotInv` (the sequence number and the value of each slot),
`WorkerInv`, `CallInv`, `EventInv` and `UniqueInv` (where an event can be, and that it
is in one place), and `OwnerInv` (the thread that removes observers and destroys).
Counting needs cardinalities of sets of threads (`FiniteSetTheorems`).

`FileOrderStore_proofs` proves, for any number of callers, orders, records, crashes
and restarts and every journal an earlier process may have left (`MCFound` is four of
them):

- `AcknowledgedSurvives`: start-up accepts the journal and finds every acknowledged
  record, unless a write failed half-way through its line;
- `DurabilityAsPromised`: an append that returned up to the generation that the sync
  worker has published is on stable storage, and all of them once the destructor has
  returned, until an fdatasync has failed;
- `UniqueNumbers`, and `IndexIsNotStale`: the indexed snapshot of an order is not older
  than one whose append has returned;
- `IndexesDoAgree` (`IndexesAgree`): both, the types, and that with no call under way the
  caches of events hold the newest events of the journal in order, for every size of the
  caches, in whatever order the calls wrote and indexed, and after every restart.

The argument. `StoreInv` has, besides the types, `ThreadInv` (what each caller holds of
the write lock and of its record), `NumberInv` (numbers are below `next`, and are
unique in the file and among the callers), `WrittenInv` (the file is whole lines but
for the record being written), `WorkerInv` and `SyncInv` (the generation the worker has
read is covered by the length at which it called fdatasync, and what it publishes by
`durable`), `SurviveInv` (every acknowledged record is whole in the file, and those of
before a loss of power were durable) and `LatestInv` (the index against the
acknowledged records). `NextAfter` takes a maximum of a finite set; that it exists is
proved by a minimal counterexample, with no induction over data.

The caches have an invariant of their own, `CacheInv`, beside `StoreInv`. While calls are
under way the caches lag behind the file, by events that come in any order: `Indexed` is the
set of events of the file that no call has still to index, and `NewestInv` says that the
caches hold its newest ones. A number joins the waiting calls before it is in the file and
leaves them when it is indexed, so `Indexed` changes in `UpdateIndex` only (`IndexedStays`,
`IndexedGrows`), and `insert_event_sorted` keeps the newest of what it is given
(`InsertedNewest`): what it cuts off at the front is older than all it keeps. The loop of
the constructor is settled by the least token at which it would go wrong (`RecentNewest`).

`VenueCache_proofs` proves, for every number of threads and every set of costs,
capacities and periods (`BudgetAssumption`), with reports of the venue at any moment:

- `BudgetIsKept` (`BudgetKept`) of the bucket with its observer: in a window opened at
  any time, the refill time of the tokens granted is at most what was left at its start
  plus what has passed since, and the arrival time is at most one full bucket ahead of
  the clock. A full bucket is the largest capacity at the longest period, because a
  request may read the capacity of one report and the period of another;
- `UsesBucket`: `VenueCache` implements `TokenBucket` (every step is a step of the bucket
  or leaves it alone), and hence `QueriesKeepBudget`: the same budget while the cache runs
  with the observer beside it (`WatchedSpec`);
- `ServedStaysFresh` (`CacheIsFresh`) and `EntriesStay` (`NoLostEntry`), for any number of
  threads and keys and all times to live.

The argument for the budget: a grant moves the arrival time by its cost from the value
it has compared, brought up to the clock, and only if the result stays within the
bucket. So the invariant adds to the types and to `DebtIsBounded` what a thread carries
between its reads and its exchange (`Carried`: a clock value not in the future, a limit
and a period that were configured, a cost within the limit), that the arrival time has
moved by at least what was granted since the base of the window (`Moved`), and a
bound on that base. `Moved` and `DebtIsBounded` together give the budget. A call
that read the clock before the window began counts only when it moves an arrival
time that the window has reached (`Counted`). For the freshness,
`CacheInv` bounds the age of what a refresh carries (`JobSound`) by the adapter's own
cache and the timeout of its query, and that of an entry by what it had when it was
stored (`Sound`). Proving it showed that the bound must not count the adapter's time
to live when it is zero (`InnerAge`).

`MarketData_proofs` proves, for every capacity, every set of keys, any number of quotes
and of deaths and restarts of the writer:

- `NothingIsTorn` (`NothingTorn`): the feed takes whole quotes of the present life from
  the ring, and `read_slot` answers with whole quotes that are shown;
- `BookStaysSound` (`BookIsSound`): a book at rest shows nothing of an earlier life than
  the one it knows, and when the feed has caught up with a writer at rest, the newest
  quote that the ring holds of every key.

The argument. The ring by itself (`RingInv`): a committed record is whole and in its
cell, the record being written is not committed; a number that the writer has passed
(`Past`) is never committed again in the same life; the ring holds the last `Capacity`
numbers and no others. From it, `CopyInv`: as long as a record still has its number, a
copy of it is a copy of what is there now. That gives `NothingTorn`. For the book the
invariant follows each number: what the feed has buffered and what a slot shows is
what was published under its number (`GenuineInv`), and every number that is still in
the ring and that the cursor has passed is in the book or on its way there (`CoverInv`);
`read_available` may pass over a number whose record does not show it because a passed
number does not come back. `StatusInv` and `SlotInv` follow the clearing of the slots
between two lives and the versions, `ApiInv` a reader between two looks at a version.
`NothingTorn` speaks of the present life only; across a restart it is false
(section 5).

`Sessions_proofs` proves of `VenueSession`, for any number of callers, requests, faults and
every outbound limit (`BoundsAssumption`), and of `LiveStream`, for every size of its ring
and backlog and any number of changes and sessions (`SizesAssumption`):

- `RequestsAreAccountedFor` (`RequestsAccountedFor`): `outbound_count_` is exact, a request
  is handed to a socket at most once, the table of requests holds only callers that wait;
- `ReadyIsSubscribed` (`ReadyMeansSubscribed`): the gateway is told that a venue is connected
  only while the venue has accepted the subscription on the open socket;
- `BacklogIsKept` (`BacklogKept`) and `StreamDoesConverge` (`StreamConverges`) of the session
  with a browser.

The argument for the venue, `VInv`. The bound on the counter rests on there being one ping
at most in the queue, for a ping alone may exceed it (`CountInv`). That a request is written
once needs where its copies are: `WrittenInv` says that no request is queued twice, that
what is queued was issued by its caller and has not been written, but for the message in
the hands of the socket. `ReadyMeansSubscribed` fails to be inductive because OKX drops its
readiness on an answer to a login: the invariant must exclude one that arrives after the
subscription was accepted. `LoginInv` counts the logins of a connection in all three queues,
`FreshInv` empties them between two connections, and `ReadyInv` puts the accepted
subscription behind every good answer and the answer to the login before it.

For the browser, `LiveInv` says where the newest state of the order is: with the worker
(`WorkerFresh`), or else `WillTell` of the session (`SessionFresh`): the last message that
speaks of the order, in the posted handlers, in the backlog, or heard, tells the present
state or asks for a resync. Messages that a full backlog drops are covered by `resync`.

Only model-checked, and why:

- all liveness, the fairness of both refinements included: the prover does not do it;
- `OnlyFacts` at Binance: a cancel-replace ends one physical order and begins another, and
  the fills of an order are a sum over its generations; `OneInv` is false there, and the
  invariant would have to follow every report by its generation and offset;
- `HealthyMeansConverged`: it says that nothing is missing, so its invariant must account for
  every report that was dropped, deferred or refused, and for the pass that makes up for it;
- `ExposureWithinLimit`: it compares a sum over the physical orders with the sum that the
  gateway had when it checked, and needs, beyond `PositionIsKept` and `OkxShowsOnlyFacts`,
  that the gateway is never behind the venue in what an order may still fill.

## 5. Where the code and its documents disagree, and observations

`gateway_vterminal` is a run with `"expect": "violation"`: a `place` that times out
after its fill was reported writes UNKNOWN over FILLED (`order_gateway.cpp:638`),
against `docs/ARCHITECTURE.md:162`. TLC prints the steps.

The rest was met while modelling. Where a property would fail, its comment states
the condition; the behaviour is seen by removing it.

Gateway:

- the end of a pass of reconciliation clears the flag that a report dropped during
  the pass had set (`order_gateway.cpp:1170`);
- after a restart the pass of `start()` may end before the stream is up, and the first
  connection asks for no other (line 1674): a fill between the two is missed while the
  gateway calls itself healthy, until the next pass of the timer;
- OKX: a report with the terms of before an amendment that made the order smaller, applied
  after FILLED, sets the filled quantity to the old quantity
  (`order_state_machine.hpp:117`), which was never traded;
- an amendment under way reserves nothing, so another order passes the limit check
  (line 1403); purchases and sales are netted, so the cancel of one side can leave
  the other beyond the limit (`risk_manager.cpp:155`); a symbol outside the compiled
  index has position 0 always (line 1393);
- an unanswered query writes UNKNOWN over an order that became terminal meanwhile
  without adjusting the position (line 1155); after one, the CANCELED report of a
  replaced Binance order can finish the canonical order while its replacement works;
- a lost cancel leaves the order in pending CANCEL, and further cancels are refused
  (line 799);
- an order that a timed-out `place` set to UNKNOWN after its LIVE report was applied
  stays UNKNOWN: the answer to every later query carries the event id of that report
  and is dropped as a duplicate;
- amendments are checked against the risk limits, not against instrument rules or
  balance (line 878).

Simulator:

- an OKX style amendment is not compared with what is filled
  (`simulated_exchange_adapter.cpp:270`): a fill that crosses the command leaves an order with
  more filled than ordered, whose reports `apply` refuses as invalid.

Journal:

- a record written in part is glued to the next one when the process goes on; the next
  start drops both or refuses the file (`file_order_store_impl.hpp:111`; `README.md:120`);
- a lost wake-up leaves the last append of a burst unsynced until the next append or
  the clean close (line 118; `README.md:61`); records of an earlier process are not
  synced again by a clean close.

Sessions and cache:

- a message posted by `send` and not yet queued when the socket fails is written on
  the next socket, although its caller was told it is lost
  (`reconnecting_websocket.cpp:138`; the comment at line 293);
- a refused clock answer tells the gateway that Binance is disconnected while it is
  subscribed, and nothing takes it back until a reconnection
  (`binance_adapter.cpp:439`); a subscription refused at the outbound limit waits for a
  reconnection (line 410); OKX does not repeat a refused login or subscription;
- the cache refreshes entries that have expired, not "before they expire"
  (`venue_cache.hpp:22`); its time to live adds to that of the adapter's cache; an older
  result can replace a newer one; orders between two refreshes see the same balance;
- `synchronize` forgets grants that are in flight, and its three stores (`rate_limiter.hpp:119`)
  let a request combine the limits of different reports: what can be granted in a window
  is bounded by the largest capacity at the longest period, not by one report's budget;
- a Binance peer that falls silent is noticed by nothing in the code: its socket has no
  heartbeat (`binance_adapter.cpp:45`), and the client's suggested timeout has none for
  an idle connection (`reconnecting_websocket.cpp:187`), while `json_views.cpp:193` calls its
  heartbeat "WebSocket control ping/pong". Readiness stays until TCP gives the connection up;
- the cache compares ages by the wall clock (`venue_cache.hpp:97`), the adapter's own
  cache by the steady one (`binance_adapter.cpp:215`): a wall clock set back keeps
  entries longer.

Market data and live stream:

- a quote can be torn when a restarted writer reuses its number during one copy
  (`SUBMISSION.md:495`);
- an update broadcast between the reading and the sending of a snapshot is overtaken by
  it (`http_server.cpp:222`; `README.md:720`); the console is behind until its next poll;
- a server without a market-data book answers one request of `refreshAll` with 503
  (`gateway_api.cpp:258`), so polling then repairs nothing (`app.js:892`); `abex_server`
  always has a book (`apps/abex_server/main.cpp:230`);
- a full observer ring or a failing append announces nothing; answers of commands and
  polls may overwrite newer state; `~HttpServer` does not wait for a market-data observer
  that is being called (`http_server.cpp:588`, `market_data_book.cpp:46`).

## 6. What is not modelled, and the plan

Not modelled because there is nothing to check: JSON views, CLI, bootstrap (parsing,
formatting, wiring), `SymbolIndex` (a table), the HTTP client and the crypto helpers
(wrappers of libraries), the clients of public market data (they subscribe, parse and
call `publish`), static files and the file watcher of the server, presentation in the
console.

Left out of modelled parts: `stop()` of the gateway and its order against the callbacks;
two venues at once (they share only `mutex_` and the position of a symbol); amendments
of the price; the wake-up of the reconciliation worker (`order_gateway.cpp:1721`: the bit
is set without the mutex, and the timer hides a lost notification); the race on `*outbound`
that the adapters read without `mutex_` (the model reads it at one instant); balances,
injected faults and queries of the simulator; the age of quotes; Decimal division, parsing
and formatting; starvation of the io threads.

Next: `OnlyFacts` for the generations of a Binance order, and `ExposureWithinLimit`; then the
reconciliation worker with `stop()`.
