# A verification development for vulpy-commerce-core

TLA+ models of the parts of this repository whose correctness depends on what
several processes do to shared files and state, the TLC configurations that
check them on small instances, and proofs, checked by the TLA+ proof system, of
what matters most for every size.

The repository is a web shop template: a storefront (Next.js, Payload), a
commerce backend (Medusa), an agent container ("Fox", Hermes) with a WebUI, and
host scripts that tie them together. The programs mostly call frameworks; the
core logic that is the repository's own is in the host scripts (a command
bridge, the life cycle of the dev servers, image rebuilds with rollback), in
the checkout and cart of the storefront and in the caches and reports of the
backend.

## Inventory

| Component | State | Operations | Talks to | What is hard | What makes it correct |
|---|---|---|---|---|---|
| Agent command bridge (`vulpy-agent-cmd-server.py`, `vulpy-agent-cmd.py`, env-actions panel, `agent_server_start/stop`) | request and response files, lock files, pid file; in the daemon: processed cache, rate buckets, current child | drop, poll, give up; scan, check, run, stream, answer; start, stop | files polled by both sides; child processes; signals | several daemons alive, crashes, children that outlive their daemon, files that cannot be deleted, stale locks | a request runs once, answers are true, pushes exclude each other, everyone is answered |
| Dev life cycle and watchdogs (`dev-app-server.sh`, `dev-watchdog-*.sh`) | flock, pid file, status, desired state, process groups, ports | start, stop, wake, restart, self-heal; probe and revive | bridge (dev.*), systemd timer, cron in the container | concurrent operations, a start that fails half-way, stale decisions | one stack at most, the operator's intent survives failures, a dead shop is revived |
| Hermes rebuild (`hermes-rebuild-bridge.sh`, `vulpy-hermes-rebuild.sh`) | image name, backup tag, container, process table, shell variables of the rollback | guard, queue, poll, launch; tag, build, smoke test, swap, health check, roll back | bridge (hermes.rebuild), docker, WebUI sessions | look-then-launch without a lock, commands whose failure is ignored, exits and signals at every line | one rebuild and one waiter at a time; whatever fails, a working image serves and has the name; no chat that was seen is torn down |
| Cart server actions (`app/actions/cart.ts`, `order.ts`, `poll-payment-return.ts`, `lib/medusa/*`) | carts in Medusa, the cart cookie, one server action per tab | add, set, remove, read, save details, session, quote, place an order, poll | Medusa, the browser | failures before or after their effect, lost replies, cookies set by replies of several tabs | a cart becomes one order, no cart with items is lost |
| Cart context (`CartContext.tsx`, `useAddToCart.ts`) | the cart as shown, the snapshot of each addition | optimistic add, rollback, apply a result, refresh | server actions | results and rollbacks that overlap | the shown cart is the server's when the tab is at rest |
| Checkout and payment return (`checkout-state-machine.ts`, `CheckoutForm.tsx`, `PaymentReturnPoller.tsx`) | reducer step, rendered step, payment session, running handlers | submit, save, confirm, place, return, poll | server actions, Stripe, consent | double clicks on a stale rendering, two tabs, events that are ignored, an effect cleaned up while its poll runs | no double order, no dead end, the customer learns the outcome |
| Product search index (`productSearch/index.ts`, its subscriber) | index, documents, shared rebuild promise | ensure, rebuild, query, invalidate | product events, database | an event during a rebuild, a `finally` of a promise that is no longer current | rebuilds are shared, the index lags only in a named case |
| Shop catalogue cache (`shopCatalog/*`, `tiered-cache.ts`, its subscriber) | generation, builds in flight, memory and Redis tiers | get, build, sort, page, store, invalidate, purge | product events, Redis, database | an event during a build, a purge after a write, a restart that resets the generation | no answer older than the last event before its request |
| Commerce reporting (`commerceReporting/service.ts`, its subscriber) | daily buckets | find or create, add, write | order events | two events in one bucket | every recorded event counted once |
| Shop listing and product list (`sort-products.ts`, `shop-facets.ts`, `shop-query.ts` of both programs, `shop-catalog.server.ts`, `useShopCatalogInfiniteScroll.ts`) | the rendered list's props; products shown, page loaded, observer, page under way; the stored ranking | filter, sort, page along two ways; render, fall back, scroll, append | server actions, catalogue caches, ranking job | pages of one list read at different times, along different ways, and for a list that is gone | the pages join up to the listing, what is sold out comes last, the end is reached |
| Content sync, newsletter | CMS documents, customers | sync, subscribe, compensate | Medusa events | find or create | one customer per address |
| Consent and analytics, WebUI extension, plugins and patches, install scripts, pages, database scripts | — | presentation, text patches, one-pass I/O | — | — | not modelled (see `PROJECT.json` for each reason) |
| Impeccable (`src/impeccable`) | — | a vendored command line and design skill | — | — | not this program's |

Every component, with its sources and what is or is not modelled of it, is
listed in `PROJECT.json` under "components"; what is hard to test in the code,
each at its line, under "hazards", with the properties that would catch it.

## The modules

| Module | What it is |
|---|---|
| `CommandService` | what the bridge promises of a request; `AgentCmd` implements it |
| `AgentCmd`, `MC_AgentCmd`, `AgentCmd_proofs` | the command bridge: clients, request and response files, daemons, lock file, child processes |
| `DevLifecycle`, `MC_DevLifecycle`, `DevLifecycle_proofs` | the dev servers' life cycle: concurrent operations, the servers, the world, both watchdogs |
| `DevRevival` | `DevLifecycle` under fair scheduling, with a history of the wakes a fault broke off: does the shop come back? |
| `HermesRebuild`, `MC_HermesRebuild`, `HermesRebuild_proofs` | the guarded launch of a rebuild, its waiter, the rebuild with its rollback, chats |
| `ProductStore` | the product data, and product events to come: what the next two share |
| `SearchIndex` | the in-memory product search |
| `CatalogCache`, `CatalogCache_proofs` | the two-tier cache of listings and facets |
| `CommerceReporting` | the daily counters |
| `Backend`, `MC_Backend`, `Backend_proofs` | the Medusa process: these three composed, with its restarts (the proofs of `SearchIndex` and `CommerceReporting` are there, too) |
| `CartStore` | carts in Medusa, the cookie, and every server action call by call |
| `CartContext` | what the shop's tabs show of the cart |
| `Checkout` | the checkout form, its state machine, the payment return page |
| `Storefront`, `MC_Storefront`, `Storefront_proofs`, `CartKept_proofs` | the tabs of a browser: these three composed |
| `ShopListing` | what a page of the shop's listing contains: filters, order, the two ways |
| `CatalogScroll`, `MC_CatalogScroll`, `CatalogScroll_proofs` | the product list in the browser: rendered page, further pages, changes of list |
| `PlaceOrderOnce` | what the checkout promises of an order; `Storefront` implements it |

Where systems meet. The bridge runs `dev.*` and `hermes.rebuild` by starting the
scripts as child processes: in `AgentCmd` such a child is any command that ends
well or not, in `DevLifecycle` an operation that may be killed after 300 s, in
`HermesRebuild` a call of the rebuild bridge, whose launches run in sessions of
their own and so outlive the child. They read none of each other's files and
are checked apart. The storefront reaches the Medusa process by HTTP; the cart
endpoints it uses are Medusa's own (external), the search and catalogue routes
only show what `Backend` answers, so these two are checked apart as well: the
product list (`CatalogScroll`) takes from `CatalogCache` that a page may show an
earlier catalogue, and no more.
Inside a process or a browser, where components do share state, they are
composed: `Backend` (product data, restarts) and `Storefront` (cookie, queue of
server actions, carts).

Operators marked "Mutant" in their comment (for example `CreateLockShared`,
`RestoreIfStopped`) are not part of a specification: each is a plausible bug of
the definition that follows it, and a property of a run fails when it replaces
that definition.

### AgentCmd

State and code: `reqFile`, `resp` are the files in `agent-cmds/req` and `resp`
as far as daemon and client can tell them apart; `up`, `pidFile` the daemon
processes and `agent-cmd-server.pid`; `pc`, `queue`, `cur`, `exit` the points of
`main` and `handle_request`, the directory listing of the tick and the request
at hand; `processed`, `spent` the daemon's memory (`_processed`,
`_rate_buckets`); `lock` the lock file of `env.push`; `child` the live child
processes. `ran`, `evicted`, `succeeded`, `disrupted` are histories the
properties are stated with and no guard reads.

Each action is one uninterruptible stretch of the code: between two file
accesses that another process can come between, or between two waits. The lock
file takes four steps (`CreateLock`, `StatLock`, `StealLock`, `RecreateLock`)
because another daemon can act between any two of them; a refusal writes the
answer, marks the request and unlinks it in one step, because nobody can tell
the order of the three.

Abstracted: the content of requests (a request is one of nine kinds that the
daemon treats differently), the content of answers (the verdict), time (a file
is stale or not, a lock is old or not, a rate bucket loses its oldest entry).
The time limits of the code keep an order that the guards of the ageing actions
state: 300 s for a command < 320 s for a client < 600 s for a stale request or
lock. Not modelled: that a pid is reused, that the directory of the locks is
not writable, that the write of a refusal fails; the start and the stop script
are one step each. The rate family `dev` stands for every family that is only
charged.

### DevLifecycle

State and code: `op` are the processes of `dev-app-server.sh` with the point
they have come to; `lock` is the `flock` on `.tmp/dev/dev.lock`; `pidFile`,
`status`, `desired` are the three files, `young` whether `status.json` is
younger than `STALE_AFTER_SECONDS`; `stack` and `port` are the process groups
of servers and who listens on the shop's ports; `plan` is what a watchdog has
read or decided so far. `intent` and `disturbed` are histories.

A stop is `kill` then `report`; a start is `check`, `ports`, `mark` under the
lock, then `spawn`, `pid`, `running`, `ready` without it. A wake is a stop whose
`then` is `check`. The watchdogs read the desired state, the status and the
probe in steps of their own, and act in another, so whatever an operator does
in between is in the model. Watchdogs do not overlap with themselves (systemd
does not start a running service again; the cron job is one process).

Abstracted: shop and API port are one resource (the script demands or frees
both); the wait for readiness is one look that may come before the boot has
finished (75 s have passed) or after; the sweep of `/proc` reaches every stack,
including one whose leader died. `pnpm vulpy dev up|wake` is not in the
repository's tree; the watchdogs' use of it is taken to run the same script's
`start` and `wake`. `status.json` is written in one step. Not modelled: the
restart of companion containers, a wiped `.tmp`, the knob that turns the
readiness wait off for tests, log files, the ownership repair, the clearing of
caches.

### HermesRebuild

State and code: `tag` is what `IMAGE_NAME` names, `container` the image of the
running container (a container that does not run is no container: `compose ps`
does not list it and the clean-up removes it); `active` is `session_active`;
`bridge[b]` a process of `hermes-rebuild-bridge.sh`, caller or queued waiter, at
the point between two looks it has come to; `rebuild[r]` a process of
`vulpy-hermes-rebuild.sh` with `BACKUP_TAGGED` and its tag (`backup`),
`STACK_STOPPED` (`stopped`). `Running` is what `pgrep` finds. `harmed`,
`overlapped`, `raced`, `lateChat` and the fields `failed`, `byHand` are
histories that no guard reads.

A step is one command another process can see. Every command may fail where the
script has a branch for it or goes on with `|| true`; SIGTERM and SIGINT run the
EXIT trap from wherever the script is, SIGKILL and a signal in the trap end it.
A built image is good, sick (it never passes the health check) or poison (no
container can be created from it). Rebuilds started by hand, or by
`vulpy-hermes.sh up` on a stale image, pass no guard.

Abstracted: ages of session files (active or not), the 300 s of the health
check and the 30 s of the poll, log files. `grep -q` behind `docker logs` under
`pipefail` may turn a healthy container into a miss: that is one of the faults
of `Health`. Companion containers count as far as `compose up` fails with them.
Not modelled: the pruning of old backups, a reboot of the host (which loses
waiters), the `compose up` that `vulpy-hermes.sh` runs after its rebuild, that
`pgrep` may see children of its own pipeline.

Where the script's messages are more optimistic than the model finds, without a
run of its own: a failed `compose up` is announced as "then rolling back"
(`vulpy-hermes-rebuild.sh:273`), but the health check may find a container
healthy and report success, even the old one when `down` had failed too (hence
the exceptions in `NameIsWhatRuns` and `SuccessIsNew`); "the running stack was
left untouched" (l. 176) is wrong after a signal between `compose down` and
`STACK_STOPPED=1` (hence `harmed`); two simultaneous calls with `--wait` see
each other's argument and refuse both, though no waiter is queued; a call with
`--wait` whose first look finds the WebUI idle is refused, not queued, when
its second look (`hermes-rebuild-bridge.sh:267`) does not.

### SearchIndex, CatalogCache, CommerceReporting, Backend

Node runs one continuation at a time; a step is a stretch between two awaits.
Data is the version of the product store it was read from (`ProductStore`: a
write raises the version, and each of the two subscribers has its own count of
the events it has handled).

`SearchIndex`: `db`, `documents`, `fresh`, `rebuildPromise` are the fields of
`state`; `search[s]` is a search and where it is in `ensureIndex` or after. A
rebuild is named by the search that started it; the `finally` that clears
`rebuildPromise`, whosever it is by then, is a step of its own. What a query
matches and in which order is left out: an answer is the version of the copy it
came from.

`CatalogCache`: `cacheGeneration`, `scopeBuilds` are the module's variables,
`memory` and `redis` the two tiers by key, `request[r]` a request with the
generations in the keys it computed and when it computed them, `purging` the
part of the invalidation behind its first await. Entries carry the life of the
process that read them, because Redis outlives the process and the generation
starts from 1 again. Not modelled: the list of bestseller ids, whose key has no
generation and which a job writes (what it holds is `Ranking` in `ShopListing`); the database listing (`canUseDatabaseListing`
returns false); the warm-up at boot; several regions and scopes. The queries behind a
read ask for caching themselves (`cache: { enable: true }`,
`shop-catalog-service.ts` lines 266-271, 393-399, 450-456); `medusa-config.ts`
sets the feature flag but registers no caching module, so these options are taken
to do nothing, and a read to be one of the database.

`CommerceReporting`: `buckets` are the rows, `handler[h]` an event being handled
and the value it read; the six events of the subscriber, a placed order makes
two updates. One day. The amounts of an event are added with its count.

`Backend` composes the three: they move by themselves, share the product data,
and a restart takes all three at once. Each behaviour has a load, which says
which requests and events come, never how they interleave.

### CartStore, CartContext, Checkout, Storefront

`CartStore`: `carts` are Medusa's, `cookie` the browser's `_medusa_cart_id`;
`queue[t]` the server actions tab t has asked for, which the router of Next.js
runs one at a time; `call[t]` the one that runs, with the cookie its request
carried (`sent`), the one it sees after its own writes (`jar`), and whether the
reply will set it (`wrote`). Each call of Medusa is a step that may fail before
or after its effect, and a reply may be lost with its cookie. One variant: a
cart is a quantity.

`CartContext`: `shown` is the cart a tab shows; an addition carries the snapshot
its rollback restores. `doubt` is a history: the tabs whose cart may differ, and
why (see the comment of `Doubt`).

`Checkout`: `step` is the reducer's state, `view` the one rendered last, which is
what the guards of the handlers look at; `job[t][j]` the handlers that run,
`session` the payment session, `page` where the tab is, `cancelled` the pollers
whose effect was cleaned up. `transition` is the reducer restricted to the
events that are dispatched anywhere.

`Storefront` composes them: the action of a tab's form reads and writes the
same carts and cookie as the shop in another tab.

Not modelled: amounts (so not a total that changes after the payment session
was made), a redirect to the payment while another server action of the form
runs, the validation of the form, promotion codes and `clearCartAction`, the
removal of unavailable items by `getEnrichedCart`, the effect that takes over
the layout's cart on a new rendering, regions. Saving addresses and choosing the
shipping method are one step `save`.

### ShopListing, CatalogScroll

`ShopListing` has no state: `Listing` is the list of ids that
`resolveShopCatalog` cuts into pages, `ByIndex` and `BySortedIds` the two ways it
takes (the third, the database listing, is switched off). A catalogue is a
record of what the products are worth, sold, in stock, published; a request is
what the address asks for. An order is a set of pairs, and a sorted list has each
product at the place that says how many come before it (`InOrder`).

`CatalogScroll`: `props` is what the server component passed to the list;
`visible`, `loadedPage`, `load` are `visibleProducts`, `loadedPage` and the page
`loadingRef` stands for; `armed` says that the observer will call back (it was
just set up, or the customer has moved away and back). A new list resets the
first two but leaves the page under way, which arrives for whatever list is
there then. `catalogues` are the states of the shop so far: each request is
answered from any of them, because responses are cached for minutes. `readFrom`
and `upset` are histories of the list on the screen.

Properties with circumstances. `PagesJoinUp` (what is shown is the listing, from
the page the customer landed on to the page loaded, nothing missing) does not
hold after a page for another list, a page of the fallback, or a change between
two pages. Nor does it hold in two cases that need no fault, each found by
letting TLC refute the plain wish. The address of a further page is built without
the ends of the price slider, so it never carries the highest price: with one
set, the later pages show dearer products. And it always carries the lowest
price, which makes the backend treat page 2 of an unfiltered list as filtered:
sorted by bestsellers (page 1 from the stored ranking, which holds unpublished
products and does not move what is sold out to the end) or by price while a sale
is on (page 1 by sale price, page 2 by regular price) the pages miss and repeat
products (`WaysDisagree`). An explicit lowest price of zero (an address written by
hand) is the same disagreement the other way round: page 1 is a filtered listing,
and the addresses of the further pages leave the zero out (`AsksNothing`).

Abstracted: a product has one variant and one price; the filter by size stands
for every list of values; a sale price of zero is one for the order
and the slider, but none for the price filter (`Effective`); the page fetched ahead is read when it is used, since
any page may show an earlier catalogue anyway; a render and its effects are one
step. Not modelled: sorting by name, categories as filters (a category's page is
a list with `ranked` empty), selections, price lists, the search page, the order
and expansion of sizes, the pagination bar's "Prev" link (whose address is the
page it is on, `CatalogPagination.tsx`), `finishes`, which the storefront's
request leaves out (`shop-catalog-api.ts`).

## What the runs check

Every pass run fails, by design, for each of its properties under a plausible
bug (`PROJECT.json`, "mutants").

| Run | Instance | Shows |
|---|---|---|
| `AgentCmd_safety` | 3 daemon processes, 2 of them alive at a time, and 1 push, or 1 process and 2 requests of 5 kinds, at least one of them a command; cache of 1, rate limit 1, crashes, failing spawns, locks that outlive their TTL, and, for one process, failing responses; 577,000 states | `TypeOK`, `PushExclusive`, `LockHasOwner`, `OkMeansSucceeded`, `RefusedMeansNotStarted`, `AtMostOncePerDaemon`; the refinement `ServesCommands` |
| `AgentCmd_live` | 1 daemon process, 2 requests (push, query, a file that is no object), spawns and response writes that fail as often as they like; 232,000 states | `EveryRequestAnswered` under fairness |
| `AgentCmd_concurrent` | 2 daemons, 2 pushes | violated: `PushNeverConcurrent` |
| `DevLifecycle_ops` | 2 scripts at a time, 3 stacks, 2 operator commands, 1 fault of 8 kinds; 1.3 million states | `TypeOK`, `StacksTracked`, `StoppedMeansDown`, `OperatorStopSticks` |
| `DevLifecycle_live` | `DevRevival`: 1 script at a time, 2 stacks, 2 commands, 2 faults of 8 kinds; 388,000 states | `Revived` under fairness |
| `DevLifecycle_heal` | as `_ops` | violated: `RefusedOnlyIfBusy` |
| `DevLifecycle_desired` | 1 script at a time, 2 faults | violated: `DesiredFollowsOperator` |
| `HermesRebuild` | 4 bridge processes (2 calls, 2 waiters), 2 rebuilds, 2 faults, 3 loads; 470,000 states | `TypeOK`, `ServesAfterwards`, `NameIsWhatRuns`, `PoisonNeverStopsStack`, `OneRebuildUnlessRaced`, `OneWaiter`, `SuccessIsNew`, `ChatsKept`; `WaiterEnds` under fairness |
| `Backend` | 3 searches, 2 requests at a time of 3 in all, 2 handlers of 3 events, 2 product writes, 1 fault, 2 lives, 7 loads; 1.4 million states | `TypeOK`, `RebuildsCoalesced`, `StaleOnlyIfOverlapped`, `PromiseLive`, `StaleOnlyAcrossRestart`, `SingleFlight`, `JoinedIsBuilding`, `CountsExactUnlessContended` |
| `Storefront` | 2 tabs, 2 handlers per form, 3 carts, 3 changes, 6 attempts, 2 faults, 9 loads; 178,000 states | `TypeOK`, `CartKept`, `ShownUnlessInDoubt`, `StuckOnlyAfterFailedSave`, the refinement `PlacesOrdersOnce`; `PollerSettles` under fairness |
| `CatalogScroll` | 5 products in pages of 2, 3 catalogues, 8 requests, 2 lists, 1 change of the catalogue; 50,000 states | `TypeOK`, `PagesJoinUp`, `StockFirst`; `EndReached` under fairness |
| `Storefront_retry` | 1 tab with a form, 1 fault | violated: `RetryableAfterError` |

Many properties have the form "X, unless Y": X is what one would wish, and Y the
exact circumstance under which the code does not give it, found by letting TLC
refute the plain wish. `StaleOnlyIfOverlapped` says that a rebuild begun before
an event may install old documents after it (they stay until the TTL);
`StaleOnlyAcrossRestart` that only what an earlier process left in Redis under
a generation counted anew may be stale; `CountsExactUnlessContended` that two
handlers holding the same counter of one bucket lose an increment, and nothing
else does; `CartKept` that a failing call or a reply that overwrites a cookie it
had not seen may orphan a cart; `StuckOnlyAfterFailedSave` that a failed save
is the only dead end of the form; `EveryRequestAnswered` that only a request
at or before one's own in the listing which raises tick after tick, or a command
whose pipes never close, keeps a client waiting; `Revived` that the shop stays
down only after a watchdog's wake was broken off between its stop and its start.

### Bounds, and why they are enough

`AgentCmd`: two requests are the least in which one request's fate can depend on
another's (the order of the listing, the lock, the rate bucket, the cache); a
cache and a rate limit of one make overflow and refusal happen with them. Three
daemons are the least in which two fight over the lock a third one left; two live
at a time (two thieves and a dead owner, or an owner and a thief), and the third
is started once a lock is old. The two kinds of instance are one run with a constraint (`OneOrTheOther`): their product
adds no way to interfere, since two daemons share nothing but files of requests,
which `AgentCmd_concurrent` and the proofs put together.

`DevLifecycle`: two scripts are the least that can interleave, a third has to
wait or is refused like the second; `MaxCommands = 2` is a start and a stop, with
any number of operations of the watchdogs beside them; three stacks let two be
alive while the pid file names a dead one. `MaxFaults = 1` is one fault from a
reachable state of any depth: the properties' provisos already name the faults
they do not survive. The constraint `OneDisturbance` cuts behaviours off once two
kinds of disturbance have come together: `disturbed` only grows, and after an
overlap or a killed script every property but `TypeOK` (which is proved) holds
trivially. `DevLifecycle_live` has two, the least that take a running
shop down and then break off the wake that should bring it back.

`HermesRebuild`: two calls, each of which may become a waiter, are the least
that race at every guard; two rebuilds the least that overlap or follow each
other, so that the second finds what the first left; two faults let a command
fail in a deployment and another in its rollback, or both `down` and `up`.
A rebuild started by hand is in a load of its own, because it lifts the
exclusion. Beyond two rebuilds the proofs take over.

`Backend`: a rebuild, the event that overtakes it and a third search that
finds its promise cleared need three searches and two writes; an orphaned
cache entry needs a write and two lives; two requests at a time share a build
or overtake each other, the third reads what they left. Two handlers are the
least that contend, three events the least that show a bucket created twice and
then used. Loads keep components that share nothing but the restart from being
multiplied with each other; one load combines search and cache.

`Storefront`: two tabs share a cookie; two handlers are a double click or a
payment beside a refresh of its session; `MAX_ATTEMPTS = 6` is the code's own
number; three carts are the first, its replacement and the one of the other
tab. Changes and faults are bounded per load, with two faults where one tab is
alone and one where tabs interleave.

`CatalogScroll`: five products in pages of two make a first, a middle and a last,
partial page; a second list is the least that a page under way can overtake,
and one change the least that comes between two pages. The catalogues and the
requests are chosen so that each circumstance named in a property occurs: taking
any one of them out of the property makes the run fail.

CHECK_DEADLOCK is on in `DevLifecycle`. In the other runs it is off because the
system does stop: when each client of `AgentCmd` has left and no daemon may be
started, when no bridge is called any more, when the requests of a load are
used up, when the customer has left every tab or has seen the whole list.

### Fairness

`AgentCmd`: the daemon's loop is a sleep-and-poll loop that no exception leaves
(`main` catches around the listing), and a command is killed at its time limit:
hence weak fairness of each daemon's steps. No more is assumed. A spawn may fail
at every tick (a program that is not there) and a disk stay full for ever; each
such failure is an exception that drops the rest of the listing, like a file that
is JSON but no object. The step out of `_drain` and `communicate` is not fair
either, because these read until every process that holds the command's pipe has
closed it, and have no limit (fairness is of steps from elsewhere than `drain`).
Nothing is assumed of clients, operators or lock ageing. `EveryRequestAnswered`
therefore carries what can starve a request as exceptions of its own, per
request: an infinite number of exceptions of one request at or before it in the
listing, or a daemon that stays in `drain`. Each exception is needed (without
any one of them, or with only earlier requests or only the request itself in the
first, TLC finds a behaviour that violates it), and what is left says something
of the code: a request that sorts later, one already answered, a taken lock or a
full bucket starves nobody.

`DevLifecycle`: scripts run to their end (every wait in them is bounded), the
systemd timer fires again and again (strong fairness of the host watchdog's
steps, which wait while its own operation runs), files age, a foreign program
leaves the ports some time, and a stack that is given time boots (strong
fairness of `Boot`: the 300 s a watchdog leaves between two operations exceed a
boot). The cron watchdog is not assumed to run. `Revived` says that a
shop meant to run is healthy later, or an operator's script at work. It does not
count the marker "stopped" as an outcome, since a watchdog's own wake writes it:
the one exception is `broken /\ GivenUp`, where `broken` is the history of
`DevRevival` that between the stop and the start of a wake the ports turned out
to be taken, the database did not answer, the script was killed or the host went
down. Without the exception, or any one of its four causes, the run fails. It is
checked with one
script at a time: with two, the number of fair behaviours is beyond what a run
of minutes can check.

`HermesRebuild`: a queued waiter's loop runs on (weak fairness of its steps) and
time passes (`Expire`: its deadline). Nobody has to call, no rebuild has to end
and no chat has to become idle: with a chat that never ends, the deadline is
what ends the waiter.

`Storefront`: server actions run to their reply, replies reach their tab (or are
lost, which is a step as well), and the effect that starts the poll runs. Nobody
has to click. `CatalogScroll`: the observer calls back while a customer stays at
the end of the list (an assumption about the customer, who is asked to do
nothing else), and a server action brings a page or nothing (`fetch` settles), so
a page being loaded ends to be so.
`Backend` has no liveness property: its steps are requests, and
each ends with the calls it awaits.

### What disagrees with the documentation

The four violation runs each state what a comment, a docstring or a guide of the
repository says and show the behaviour that contradicts it; `PROJECT.json`,
"findings", quotes the lines. In short: a failed rewrite of a streaming answer
releases the push lock while the push runs; the self-heal of a wedged boot can
never retry, because its stop finds the lock descriptor closed; a watchdog's
failed wake leaves "stopped" in the marker that is said to hold the operator's
intent, and so ends all revival (`broken /\ GivenUp`, the exception of
`Revived`); an `ORDER_ERROR` that reports a failed save is ignored in `saving_cart`,
so that the form does not stay retryable but disabled.

## What is proved

For any number of processes, requests, tabs, writes, lives and faults, with
nothing assumed of the constants but the named `ASSUME`s (sets of the right
kind, bounds that are natural numbers, "None" is none of the others). Each proof
has one step per action, under it one per conjunct the action can disturb; what
an action does to one piece of state is a lemma.

`AgentCmd_proofs`: `TypeCorrect`, `PushesExclude`, `LocksAreOwned`, from the
inductive invariant `IInv == TypeOK /\ LoopInv /\ OwnerInv /\ ExclusionInv`.
`PushExclusive` alone is not inductive: that two pushes do not overlap depends
on who owns the lock while a push runs. `OwnerInv` says that a lock was created
by a daemon that is dead or at a point between creating and releasing it;
`ExclusionInv` that, undisrupted, no lock is old (so nobody steals), every
daemon past the lock owns it, and a live push belongs to its owner, be it alive
and watching or dead. `LoopInv` ties loop points to processes and requests.
`OkIsTrue`, `RefusedIsTrue` and `RunsOnce` rest on a second invariant,
`AnswersAgree`: an answer "ok" has a run that succeeded behind it (`ResultInv`);
while a daemon has dropped no id from its cache and lost no response write, what
it has run is in the cache or running, and what it is about to run is not
(`MemoryInv`); and what the only daemon there has been declined is in its cache,
so that it will not be run later (`RefusalInv`). `Serves` is the
refinement of `CommandService`: fresh request files are its open requests, `cur`,
`ran` and `child` what its workers have taken, started and left running, a daemon
whose cache dropped an id is one that has forgotten, and a disruption shakes its
exclusion. The step-by-step map takes all of the above: `ExclusionInv` shows that
a push starts alone, `MemoryInv` that nothing remembered is started or refused
again, `ResultInv` that "ok" is reported of what ended well; and a third
invariant, `WorkInv`, that between requests a daemon has none, what it runs it has
started, and until it has seen the end there is a child.

`DevLifecycle_proofs`: `TypeCorrect`, `Tracking`, `StoppedIsTrue`, `StopSticks`,
from `IInv == TypeOK /\ LockInv /\ CommandInv /\ SafeInv /\ QuietInv`. The lock
(`LockInv`) keeps two operations out of `check .. mark` only. `OpenInv` adds
that, serialised, nobody else is in the locked section while an operation is
between `spawn` and `running`; `EmptyInv` that nothing lives and no pid file
exists from the report of a stop to the spawn: with both, the stack an
operation spawns is the only one, which is what `StacksTracked` needs when the
pid file is written. `QuietInv` is the state of rest after an undisturbed stop:
every slot idle or waiting for the operator, the watchdogs without a decision,
"stopped" in both files, nothing alive; no step but the operator's leaves it.

`HermesRebuild_proofs`: every property of the run but `WaiterEnds`, from
`IInv == TypeOK /\ QueueInv /\ LaunchInv /\ ChatInv /\ OwnInv /\ SoloInv`. The
queue has no lock; what makes it one place (`QueueInv`) is that a caller past
the guard keeps `--wait` in its arguments until its waiter exists. `LaunchInv`
says that, unraced, who is past the second look is alone there and nothing
runs. `OwnInv` says where a rebuild that is alone finds its image: under the
name from the smoke test on. `SoloInv` is the rollback's argument: alone and
unharmed, at every point of a rebuild an image that serves is in the container,
in its backup tag or in both (`Fallback`), and no poison image has the name
from `down` on. `ServesAfterwards`, `NameIsWhatRuns` and `PoisonNeverStopsStack`
read off it; `SuccessIsNew` and `ChatsKept` are action properties from `OwnInv`
and `ChatInv`.

`CatalogCache_proofs`: type correctness, `StaleOnlyAcrossRestart`,
`SingleFlight`, `JoinedIsBuilding`. What is stored under a key was read by an
earlier process or is as new as the beginning of the generation in the key
(`TierInv`), generations begin one after another (`GenerationInv`), a request
only uses keys of its own generation or later ones (`RequestInv`), and a build
that an invalidation overtakes keeps its generation, so that nobody of a later
one joins it (`BuildInv`).

`Backend_proofs`. Search: type correctness, `RebuildsCoalesced`,
`StaleOnlyIfOverlapped`, `PromiseLive`. While no event has come between the
searches under way, the only rebuild is the one in `rebuildPromise`
(`UndisturbedInv`); while the last event met no rebuild, whatever is installed
or about to be read after it (`CalmInv`).
Reports: type correctness and `CountsExactUnlessContended`. That the figures of a
counter add up to the events written needs to know which row each event went to,
which no variable says; so the invariant says that there is a way to share the
updates out (`UpdateInv`): no row shows, and no handler about to write remembers,
more than its row's share, and both are exact while no two handlers have held the
counter of one row. `EventInv` counts what the events under way may still add,
which bounds figures and rows by the events (the types need it: an event creates
a second row at most when its payment follows its order). Sums are folds in the
model; `SumOf` of the proofs fixes them by what adding one element does, shown
for finite sets by a least counterexample (`WFMin`), not by induction.
Composition: the process implements each component's specification
(`ComposesSearch`, `ComposesCache`, `ComposesReport`), so that all of this and what
is proved of the cache holds of the process (`ProcessTypes`, `ProcessSafe`).

`CatalogScroll_proofs`: type correctness, `PagesJoinUp` and `StockFirst`, for any
catalogues, requests and page size. In a strict order of a finite set no two have
as many before them, so a sorted list has each product once, in the order
(`InOrderIs`), and a page of it is known by its places (`PageOf`). The invariant,
`ListInv == BlankInv /\ LoadInv /\ ShownInv`: the page under way for the list on
the screen is the next one, asked for with the list's query; if all that is shown
was read from one catalogue undisturbed, the lowest price in that request turns
nothing away (`FloorIs`, which has two cases, because the slider's own request may
fail), so the further pages choose the same products (`SameChosen`) and, unless
the two ways disagree, in the same order (`SameListing`). A page appended then
continues what is shown and repeats nothing of it (`PageJoins`). `StockFirst`
holds even where the order differs, and there needs `StockShown`: once something
sold out is shown, the pages loaded have room for all that is in stock, whatever
the order, so that no further page brings more of it.

`Storefront_proofs`: type correctness, and `OrdersOnce`: `Storefront` implements
`PlaceOrderOnce` with the orders of Medusa for `ordered` and what the customer
has been told for `told`. Initial states map to initial states and each step to
one new order, one message about an order that exists, or a stutter. The
invariant (`Calls`) says that a call whose answer is an order has a cart that
has become one, and that a call belongs to the head of its tab's queue.
`NeverStuckOtherwise` proves `StuckOnlyAfterFailedSave`. The machine of a form is
held in a state that disables its button by a handler at work (`Engaged`):
`confirming` by one that waits for Stripe, `completing_order` by one on its way to
an order, `saving_cart` by a submit whose save is in the queue, or by a save that
failed. That a handler leaves no such state behind needs that it waits for one
server action at a time and that only a handler that asks for a session gets one
(`Work`); `None \notin Job` (`JobAssumption`) keeps the tasks of pages apart from
those of handlers.

`CartKept_proofs`: `CartNotLost`. `CartKept` speaks of the cookie and of the
replies on their way; what makes it inductive (`Kept`) is what each call knows.
Until a call has written its cookie it works on the cart its request carried;
once it has, that cart is an order (`Stands`), because, when nothing fails, a new
cart is made only for a request without one or with one that has become an
order. So a reply whose request saw the cookie it replaces loses nothing open.
`ShowsTheCart` proves `ShownUnlessInDoubt` from `ShopInv`: without a pending
addition, a tab not in doubt shows the cart of the cookie; with one asked for at
rest, the snapshot is that cart; from the step that reads the cart to its reply
both are suspended, and what was read is what the cookie will name. A new cart
does not change what the cookie's cart holds, since a cart that was never created
holds nothing (`NothingInUnused`).

### Only model-checked

Liveness, which needs fairness: `EveryRequestAnswered`, `Revived`, `WaiterEnds`,
`PollerSettles`, `EndReached`. `Storefront`'s theorem is about safety; the
liveness of the abstract checkout is `PollerSettles`. And the violation runs:
a counterexample is not a theorem.

## Not modelled

More than a third of the implementation lines in the tree are not this program's
(`src/impeccable` is vendored and pinned), and most of the rest is presentation, generated types, text patches of third-party packages and
seed data: code without state of its own, about which a model would only
restate a rendering. The modelled components are nearly all of the code in
which several actors share state. What is left out of a modelled component is
said in its section above; components without a model, each with its reason:

- Content sync: switched off in this tree (`isPayloadSyncSuppressed` returns
  true). The newsletter workflow is a find-or-create with one compensation whose
  outcome depends on a uniqueness constraint outside the repository.
- Consent and analytics: the bus gates and de-duplicates events for vendor
  scripts outside the repository; the one effect on a modelled component, the
  clean-up of the poller's effect, is `Consent` in `Checkout`.
- WebUI extension, plugins and patches, install and tenant scripts, storefront
  pages, database scripts: no state kept between calls, or state in programs
  outside the repository.

## Plan

1. Sizes (`getSizeSortKey`, `expandSizeForFilter`) as operators against reference
   definitions.
2. Payment amounts in `Checkout`: a total that changes between the payment
   session and its confirmation.

Runs are one pass run per component or composition and one violation run per
real disagreement with a documented claim; bounds stay at the least number of
actors that can get in each other's way.
