# n8n-showcase in TLA+

This directory specifies the parts of the n8n-showcase platform in which processes
overlap and calls fail, checks them with TLC on small instances, and proves the most
important results with TLAPS for instances of every size. `PROJECT.json` maps each
definition to the source lines it models and lists the runs, their mutants, the
hazards and the theorems. All paths below are relative to the repository root.

## 1. The system

A NestJS backend (`apps/backend`), a self-hosted n8n instance with three workflows
(`apps/n8n`), a Next.js console (`apps/frontend`), and PostgreSQL. Shopify and Clerk
send webhooks; n8n executions call the backend's internal endpoints, and the backend
calls Shopify, inventory providers, carriers, mailers and chat services for them.

    Shopify, Clerk --webhook--> backend inbox --POST--> n8n execution
                                      |                     |  one HTTP request per node
                                      v                     v
    console --REST, activity stream--> backend <---- internal endpoints --breaker--> providers
                                      |
                                  PostgreSQL

### Inventory

| component | state | operations | what is hard |
|---|---|---|---|
| Webhook inbox (`webhooks/webhook-inbox-claim.util.ts`, `shopify-webhook.*`, `clerk-webhook.controller.ts`) | `webhook_inbound_events.status`; orders, their `order_received` events; runs started | claim, reclaim of a FAILED row, reject, process, settle, mark FAILED | concurrent deliveries, redeliveries after a time-out, a throw at any statement, a restart between two |
| Order-validation workflow (`apps/n8n/workflows/order-validation.json`) with `internal/internal.service.ts`, `workflow-runs`, `orders` | order status, tracking number, timeline; run row and its step rows; notifications; labels, fulfillments | open a run, validate, mark, buy, fulfill, record, close; retry; override; crash | retries of every node, answers lost after the effect, overlapping executions |
| Integration lifecycle (`integrations/integrations.service.ts`, `credentials`) | integration row, OAuth state, credential, webhooks at Shopify | connect, callback, test, disconnect, fail, abandon | checks made several awaits before the write they guard; callbacks delivered twice |
| Members (`webhooks/clerk-webhook.service.ts`, `tenants/members.service.ts`, `auth/clerk-backend.service.ts`, `prisma/sync-clerk.ts`) | tenant, users, membership rows; Clerk's own copy | Clerk's events; invite, change role, remove; sync | two copies written by webhooks, requests and a script, in any order |
| Permissions (`auth/guards`, `prisma/seed.ts`, `lib/roles.ts`) | the seeded grants | admit, permit, offer | backend and console decide by different tables |
| Integration actions, adapters and circuit breaker (`internal/integration-actions.service.ts`, `integrations/adapters`, `common/circuit-breaker`) | credentials, one breaker per provider, requests under way | the eight actions, test, token refresh | rows and tokens change while a call is out; refusals count as failures |
| Cart-reminder workflow (`apps/n8n/workflows/cart-reminder.json`) | run row, step rows | wait, check, remind | a node reads the answer of whatever node precedes it |
| Console (`apps/frontend`: shell, hooks, screens) and realtime (`realtime`, `use-event-stream.ts`) | react-query's cache, requests and mutations under way, URL, Clerk's active organization, feed | read, write, invalidate, navigate, switch workspace, listen | requests outlive the screen and workspace they were made for |
| Rate limiting, SSRF guard, audit log, health, schemas | none, or single-row reads and writes | | pure decisions on one read |

What makes each correct: the inbox processes an event under one claim at a time and
never twice to completion; a run row tells the truth about what its execution did; an
ACTIVE integration can really be used; the membership rows end up saying what Clerk
says, and the console offers what the guards permit; credentials belong to the rows
that hold them and a breaker never stays shut; the console shows a workspace its own
data, with the user's writes in it.

## 2. Modules

| module | role |
|---|---|
| `ExclusiveClaim` | abstract specification: what the inbox promises about the work on an event |
| `WebhookInbox`, `WebhookInboxProofs` | the inbox and the Shopify controller, await by await |
| `RunLedger` | abstract specification: what the records promise of an order's runs |
| `OrderPipeline`, `OrderPipelineProofs` | executions of the order-validation workflow and the endpoints they call |
| `IntegrationLifecycle`, `IntegrationLifecycleProofs` | the tenants' integration rows and the requests that work on them |
| `Permissions` | operators only: the seeded grants, the guards' decision, the console's ranks |
| `Membership`, `MembershipProofs`, `MembershipAgreement` | Clerk, the membership rows, the webhooks, the members endpoints, the sync script; uses `Permissions` |
| `Actions`, `ActionsProofs` | calls to third parties through the breakers, with the credential they read |
| `CartReminder`, `CartReminderProofs` | executions of the cart-reminder workflow |
| `Console`, `ConsoleProofs` | one browser tab, its requests and the backend's answers |
| `MC...` | instances for TLC |

The modules meet at narrow places. `WebhookInbox` starts runs, `OrderPipeline`
executes them (`Receive`, twice where `WebhookInbox` took n8n's answer for lost). What
becomes of an event under one claim is `WebhookInbox`; `Membership` has the order of
events, and the claim only as far as an event may be lost to it. How a credential comes to a row is `IntegrationLifecycle`;
`Actions` starts from rows and credentials that come and go. `Console` starts from data
that others write.

### WebhookInbox

A *delivery* is one HTTP request; `pc[d]` is the await it is at, and there is one action
per await of `verifyAndResolve` and `handle` / `handleCart`: `Lookup` (integration row),
`CreateRow`, `Reclaim` (the two statements of the claim), `Reject`, `UpsertOrder`,
`WriteReceived`, `StartRun`, `Settle`, `MarkFailed`. `Throw` is the same await throwing:
inside the `try` block control goes to the catch block, outside it leaves the handler.
`Answer` is the response. The environment delivers and redelivers (`Deliver`), stops
waiting (`GiveUpWaiting`), connects and disconnects the store (`IntegrationChanges`), and
restarts the process (`Restart`, which strands whatever was PROCESSING).

`ExclusiveClaim` forgets requests altogether: each event is new, claimed, started,
failed, done or stranded. The refinement mapping `Phase` reads these off the row, the
holder of the claim and the history variable `started`.

### OrderPipeline

An *execution* `r` stands at the node `at[r]`; `tries[r]` counts the failed tries of that
node and `good[r]` is what the next IF node will read. Handlers with two effects have two
nodes (`shipment`/`track`, `markFailed`/`reason`, `close`/`notify`), because a try may fail
between them; a retry starts the handler from its top (`Top`). Every effect has an
alternative in which it is kept and the answer lost, and `NodeFails` is the try with no
effect. `OnError` is the workflow's `onError` configuration and `After` its connections.
`Receive` is the inbox starting an execution; `Retry` is `POST /workflow-runs/:id/retry`;
`Override` a person's change of the status; `Crash` a restart of n8n, which does not resume
executions. The call to Shopify outlives its request: the breaker around `updateOrder` sets no
time-out, so opossum's default of 10 s gives up on a job of two fetches that may take 10 s
each, and the job runs on. `abandoned` holds the executions with such a job under way (a
restart of n8n leaves one too), and `FulfillLate` is its landing, at any later time or never,
be the node retried, the run closed or the execution gone. A shipment is named by its
execution and number, so that the tracking number on the order, the label at the carrier and
the fulfillment in Shopify can be told apart.

`RunLedger` forgets nodes, tries, the order's status and everything at the carrier. It
keeps what somebody reads later: how each run stands (`row`), which run fulfilled the
order (read off the shipment Shopify holds), the reasons on the timeline (`failures`, the
`order_failed` events), the notifications (`notices`) and whether the order is refused
(`~valid`). A closed run stays closed; it closes as a success only if it is the one that
fulfilled, as a failure only with a reason of its own; then it is notified, at most once.
The order is fulfilled once, by a run that is open or, since a call given up on may still
land, by one that was closed as a failure. Receiving, validating, buying, recording, retrying a node and overriding are stutters.

### IntegrationLifecycle

A *request* is one call of `initConnect`, `handleCallback`, `test` or `disconnect`;
`req[q].at` is the await it is at. Like the code it reads the row early, keeps what it read
(`seen`) and writes by that row's id, so that the row may be reconnected, disconnected or
gone when it writes: `Found` is the row still being there, and the write throws otherwise.
`Connect` leads through the check of the exclusive group to `Mint` (OAuth) or `StoreKey`
(API key). `Callback` is the browser's return, with or without a code, any number of times
and at any time; its checks are `Resolve` and `Collide`, its effects `Exchange` to
`Activate`, and what cannot complete goes to `Abandon` or `Fail`. `Test` probes and then
writes ACTIVE or DEGRADED. `Disconnect` removes the webhook as well as it can and deletes
the row. Rows, states and webhooks are named by the number of the connect behind them.

### Permissions and Membership

`Permissions` writes out the seed's grants by role and the guard's decision (`Permits`)
next to the console's (`canPerform` of `toWorkspaceRole`, which knows `org:admin` as admin and
`org:member` as nothing). `Membership` keeps the members of one workspace twice: `clerk` and
`row`. Clerk changes (`Join`, `ChangeInClerk`, `Leave`, `DeleteOrg`), emits events, and
delivers each any number of times, or never: `Waiting` is an event sent or FAILED, and nothing
says that one is handled. `CutShort` is a delivery that does not come to its end: it leaves
the event FAILED, or PROCESSING for good where the process restarted or the FAILED could not be
written, as the claim it shares with the inboxes has it. There is an action per handler; `Count` and `OnMembershipCreated` are two, because another event may be
handled between the count of memberships and the upsert. Clerk's organization and user
events are separate and late, which is what `Throw` answers. A members request (`req[q]`)
goes from call to call: metadata, role, row for a change of role; delete, row for a removal.
Each call may succeed with its answer lost (`Answered`) or fail (`GiveUp`). `Sync...` are the
stages of `sync-clerk.ts`, which fetches a list and writes it row by row while all this
goes on. `granted` and `clean` are history: the roles anybody ever gave a user, and whether
anything overtook anything else for him.

### Actions

A request chooses a provider (`CheckInventory` .. `CheckCartCheckout`, `Test`), reads row and
credential, fires the breaker, waits for the provider's answers and, for Zoho's 401, goes
round again as a refresh and a second check (`job`). A credential is known by its `grant`,
the connect that obtained it, and `home` remembers the row that connect was for. `Serve` is
what the process does by itself, its own time-out included; `Answered`, `Refused` and
`Timeout` are what calls come to. The breaker is opossum's: closed, open, half-open with one
trial; `Slide` lets calls drop out of the rolling window, `HalfOpen` is its timer.
`Connect`, `Suspend`, `Disconnect`, `Lapse` and `Restart` are what happens meanwhile.

### CartReminder

The workflow's nodes with their tries, as in `OrderPipeline`, and `json[r]`: which facts the
answer of the node before holds. `Shop` is the shopper opening a checkout and buying it.

### Console

One tab: `slug` is the workspace in its URL, `org` Clerk's active organization (the two
disagree until `SetActive`, the shell's effect), `screen` the page. A resource has up to three
queries, its `View`s: the list, what is shown of one item, and an order's timeline; `Used` says
which of them a screen mounts. A key `k` is a view and the workspace the code's key names, if
it names one. A query's cache entry is `cache[k]`, whether it must be read again `stale`, its request under way `fetch[k]`, which
keeps the workspace it was made for; the session token it carries is whatever Clerk had
when it was minted, so `Serve` takes any. `Mount`, `Invalidate` and `Ask` are react-query's
rules as the code configures them: an invalidation marks what the cache holds, and cancels and
restarts the reads of mounted queries that hold data; a query on its first fetch keeps it,
and counts its answer as fresh. `job[j]` is a mutation: `Begin` is the click (what each
screen offers is an operator of the screen's name), `SendBatch`, `Apply`, `Refuse` and `Settle`
its life; `here` is whether the component that started it is still mounted. `Navigate`,
`SwitchTo`, `Arrive`, `GoBackTo`, `SetActive` and `Reload` move about, and `Leave` says what
unmounting takes away. Others write (`OthersWrite`), and every write is published to the
stream, if it is open. `acked` is history: for a workspace and a view, the last write that was
reported to a screen that had the view's data (`Told`).

## 3. Runs

| run | instance | question and result |
|---|---|---|
| `inbox` | 1 event, 2 requests, 4 deliveries | claim exclusive (`OneWorker`), PROCESSED final and complete, a 2xx implies a row, implements `ExclusiveClaim`, a claim is always given back: holds |
| `inbox_stranded` | same | is an acknowledged event settled or worked on? No: a restart strands it |
| `inbox_unretried` | same | is a failing handler's 503 always delivered? No: an overlapping redelivery was answered 200 |
| `pipeline` | 2 executions, 2 tries | what SUCCEEDED and FAILED rows promise, at most one success, one notification, bounded purchases, implements `RunLedger`: holds |
| `pipeline_alone` | 1 execution, 3 tries, all overrides | a lone execution moves the order only forward, Shopify and the order row agree, it settles: holds |
| `lifecycle` | 1 store, Zoho, Odoo; 2 shops, 2 connects, 2 requests at a time | a row that reads usable has a credential, an ACTIVE store has a live webhook, an answered callback leaves nothing pending: holds |
| `shop_collision` | 2 stores of 2 tenants, 1 shop, 1 request at a time | is a shop ACTIVE for one tenant only? No: a failed test hides the holder from the check |
| `membership` | a creator and one user, 3 events, 1 upset, 1 request at a time | no role nobody gave; row agrees with Clerk when nothing overtook; the console offers only what is served; no event is falsely PROCESSED; removal and cancellation last: holds |
| `actions` | Zoho, 2 requests, 2 connects, orders of 0 or 1 line, window 2 | credentials stay with their rows and fresh but for time, every request is answered, every circuit comes back: holds |
| `zoho_locked_out` | Zoho, 1 request, 1 connect | are checks served again once a lapsed token is all that is wrong? No: once the circuit is open, each trial's 401 opens it again before the refresh |
| `cart_unreminded` | 2 executions, 3 tries | is an unbought cart's customer reminded? No: the IF reads the answer of a bookkeeping node |
| `console` | 2 workspaces, 1 mutation at a time; an order and its page (1 write, its own or of others), 2 runs in batches of 1 (2 writes, 1 change of workspace), or a provider (2 writes, 1 of others, 2 changes) | own workspace's data, own writes shown, bulk complete, feed in order, shell settles: holds |

**Bounds.** Two requests are enough for every race on a claim, since an action changes the
state of one request and the row; four deliveries allow a first delivery, its failure, a
reclaim racing another, and a late duplicate. Events do not share state. Two executions
overlap in every way a pair can, and two tries per node give one retry of each; the
workflow's own three tries are used with one execution. In `lifecycle` two connects allow a
reconnect of one integration, or one of each of two, under every pair of requests;
callbacks are unlimited. In `membership` three events are created, updated and deleted of one
user, or the first memberships of both, in every order; a second request at a time would
only make users unclean, and one upset is one loss or one run of the script. In `actions`
the breaker's thresholds of 5 and 8 calls are scaled to 2 and 3, so that a window of two
requests' calls can open it; a second provider would share nothing with the first but
requests. In `console` the bounds go with the resource a behaviour follows. With an order, the
list, the page and its timeline are three queries at different stages of their fetches while
one write is confirmed. With runs, a batch of one and two runs make a bulk of two batches,
and one change of workspace falls anywhere in it. With a provider, whose keys name no
workspace, a write of others stands before or after the user's own around each read, and two
changes of workspace have the switcher, the history and the shell's effect in one behaviour.
Executions, requests and attempts that are interchangeable are so declared in the safety runs. The theorems drop all of these bounds.

**Deadlock** is not checked in `pipeline`, `membership`, and the runs of the lifecycle and
the actions: when executions have ended and people, Clerk or the connects are at
their bound, nothing is left to do. It is checked in all others.

**Fairness** is weak throughout. `Handle(d)` and `Execute(r)`: an await of a handler and a
node of an execution end, with an answer, an error or a time-out (`fetchWithTimeout` bounds
calls to third parties, the database client its statements, n8n its HTTP nodes).
`Serve(q)` and `HalfOpen(p)` in `Actions`: the process runs on and opossum's timers fire;
a provider owes no answer, which is why `RequestsAnswered` is about the time-outs. In
`Console`, `Arrive` and `SetActive`: the browser navigates and runs effects. In `CartReminder`,
n8n goes on with what it started. Nothing is assumed of people, of restarts, of calls given up
on, or of the providers' redeliveries, which are finite; `Membership` has no fairness at all.

### Disagreements between the code and its documentation

Each violation run is one, quoted in `PROJECT.json` under `findings`: an event stranded in
PROCESSING is never recovered; a failure behind an acknowledged duplicate is never retried;
two tenants can hold one Shopify store; a lapsed Zoho token keeps an open circuit from the
refresh that would mend it; the cart reminder is never sent. Met while modelling and not given a run:

- `order-status-pipeline.tsx:5` calls the statuses a strict progression; an override, or a
  second execution, takes them back.
- `schema.prisma:366` speaks of retrying a step; a retry is a whole new execution, and
  runs steps that succeeded again.
- `workflow-run-detail.tsx:34-38` invalidates a key without the workspace, which no query has.
- Two tests of one integration at once both notify (`integrations.service.ts:335`).
- A token refresh that outlives a reconnect of the same row overwrites the newer credential
  with an older one, fresh nonetheless.
- A run can be closed FAILED, with its reason on the timeline and its alert sent, and the
  order be fulfilled afterwards: the breaker gives up on `updateOrder`
  (`circuit-breaker.service.ts:91-97`), its fetches (`shopify.adapter.ts:169-238`) do not stop.
- A query on its first fetch when a write is confirmed keeps the older answer as fresh for
  `staleTime`: the timeline of an order overridden while it still loads
  (`order-detail.tsx:18-20`, `orders/hooks.ts:69-72`), or another page of a list.
- The Clerk inbox has the claim of the others, and loses events as they do, although
  `clerk-webhook.controller.ts:66-75` says a failed one is not to be swallowed.
- Two first `org:admin` memberships handled at once both find no other and both become Owner,
  which `clerk-webhook.service.ts:195-198` reserves for the first.
- The Shippo adapter reads `zip`, the action passes `postalCode`.

## 4. Proofs

Every module with constants names what it assumes of them (`InboxAssumption`,
`PipelineAssumption`, `LifecycleAssumption`, `MembershipAssumption`, `ActionsAssumption`,
`ConsoleAssumption`): sentinels are not members of the sets they stand beside, bounds are
natural numbers, some sets are finite. TLC evaluates them in the runs. Each proof module
defines an inductive invariant `IInv` (checked by TLC before it was proved), proves that it
holds initially and under every action, and concludes `Invariance == Spec => []IInv`.

`WebhookInboxProofs`. `OneWorker` is not inductive: a request could win `create` while
another works. `IInv` adds that the row is PROCESSING for as long as anyone works on it
(`RowHeld`), that requests past the claim have seen the row (`Recorded`), and how far each
request's effects have come (`Progress`). From it: `TypeCorrect`, `MutualExclusion`,
`Completeness`, `Acknowledgement`, `Finality`, and `Refinement` (`Spec => ClaimSpec`; each
concrete step is one abstract step or a stutter, and `Restart` is `Strand` of all events
then held).

`OrderPipelineProofs`. What a SUCCEEDED row promises is only visible at the end of an
execution, so `Stage(r)` carries it along the nodes: stock on record while buying, label on
record while shipping, everything complete from `markFulfilled` on. `RowFits(r)` says where
an execution can stand given its row, which is what makes a notification unrepeatable;
`Purchases(r)` ties labels bought to failed tries. A step of one execution cannot disturb
these for another: only `UpdateShopify` and `FulfillLate` write shared state they mention, and
both require that no fulfillment exists. A late one can only precede the success of its
own execution, or contradict its failure. From `IInv`: `TypeCorrect`, `SuccessComplete`, `SingleSuccess`,
`SingleNotice`, `BoundedPurchases`. `FailureExplained` needs a counting argument of its own:
the set `Failing` of executions that are, or are about to be, FAILED grows only by the step
that writes an `order_failed` event. A second invariant, `LoneInv`, is about an execution
that has the order to itself: a table (`Reached`) of the statuses the order can have by
node, and what Shopify and the row name by then. From it: `Forward` and `ShopifyTracked`.
`LedgerKept` (`Spec => LedgerSpec`) shows that every step is one step of the ledger or a
stutter. The guard of the ledger's `Fail` is `FailureExplained` at the next state, that of
`Succeed` the stage `Complete`; `Opened` adds that an execution past its first node has a
row, and so has one whose call was given up on, without which a fulfillment could precede its
run. A fulfillment may follow the run's failure, and the ledger says so.

`IntegrationLifecycleProofs`. A request writes by what it read awaits ago. `RequestFits(m)`
says what it may still rely on: that the row it names is its integration's, if it is
there at all, that a credential or a webhook it saw is still there for that id, that one who
disconnects is on record as closing it, and what pending state it may leave behind. `Fresh`
says that the names running connects are about to give are nobody's yet. Every step is shown
to be a change (`Disturbs`) that takes nothing from other requests, which leaves one case per
kind of change instead of one per pair of actions. From `IInv`: `TypeCorrect`,
`CredentialBehindStatus`, `WebhookBehindActive`, `NothingLeftPending`.

`MembershipProofs`. A role reaches a row along many ways; the invariant says of each carrier
on the way (events, Clerk's roles and hints, requests, the script's list) that the roles it
can become were given to that user (`EventsFit`, `ClerkFits`, `RequestsFit`, `ListFits`), and
that the first membership's Owner is only the creator (`CreatorGranted`). Results:
`TypeCorrect`, `OnlyGranted`, `Recorded`, `Canceled`, `NotResurrected`.

`MembershipAgreement` proves what those invariants cannot: that for a user whom nothing
overtook the row ends up saying what Clerk says. The argument is about the order of
his events. `Stories`: a change of a membership was preceded by its creation, with no
removal between. `ClerkTold`: he is in Clerk if an event created him and none removed him
since. `LastTold`: his last event names Clerk's role and hint, but for a hint that a request
is still turning into a role. `Ahead`: what such a request has done to Clerk and to the row so
far. `RowFollows`: a row comes from an event. `StatusFollows`, `RemovalFollows`, `RoleFollows`:
what a processed event leaves in the row for as long as no later event undoes it.
`Prepared`: what was resolved before the await between the count and the upsert of a
first membership still is. The lemmas go by what a
step does to a user, not by action: it concerns another (`Untouched`), sends an event
(`SendStep`), handles one in its turn (`AppliesStep`), or leaves his events, his row and
Clerk as they were (`QuietStep`). Results: `Agreement`, `RowsAgree` (the property
`InOrderAgrees`), `OffersAreServed` (`ShownIsServed`, which
adds to the agreement that what the console's ranks offer an admin the seed grants him).

`ActionsProofs`. A refresh stores a credential it read many awaits ago; `RequestOK` carries
where that came from. That a breaker counts down only what it counted up is a matter of
cardinalities: the calls waiting for an answer are never more than the window counts.
Results: `TypeCorrect`, `CredentialKept`, `FreshnessKept`.

`ConsoleProofs`. Reads and writes outlive the screen that asked for them, so `IInv` says of
each that is under way what it will find. `FetchFits`: a read is of the workspace its
header names, and its answer is as new as any write the screen was told of with that view's
data on it, because telling it restarts the reads of the views that had data. `JobFits`: a mutation whose component is mounted is of the
workspace shown, and its rows are written, being written or still to be sent. Results:
`TypeCorrect`, `TenantIsolation`, `ReadsOwnWrites`, `NoRowLeftOut`, `FeedInOrder`, for any
batch size, feed length and number of mutations.

`CartReminderProofs`. The run `cart_unreminded` shows one execution that ends without a
reminder; `NeverReminds` shows that none ever sends one, for any number of executions and
tries: what the IF node reads is empty (`Barred`), so the nodes behind its other branch are
never reached.

**Only model-checked:** liveness, which is out of the prover's reach (`HeldIsReleased`,
`ExecutionSettles`, `RequestsAnswered`, `AlwaysAccepts`, `ShellSettles`,
and the runs that refute a liveness property). Every invariant and every action property of
a passing run, and both refinements, are theorems.

## 5. What the models abstract

Everywhere: a failed database statement has no effect, a committed one is durable; one
backend process; payloads, names, addresses, messages and times of day are left out.

- `WebhookInbox`: signature and header checks precede any state and are left out; the three
  reasons for which a verified event is rejected are one flag, `accepting`.
- `OrderPipeline`: results of validation and inventory are arbitrary but, for validation,
  fixed per order; Slack and e-mail are only their outcome; run rows n8n lost track of are a
  flag (`orphaned`). Assumed: the carrier sells a label on every call; Shopify refuses to
  fulfill what is fulfilled already; a fulfillment asked for by a call given up on lands once or
  never; n8n does not resume executions. Orders are independent
  of one another, so one is modelled.
- `IntegrationLifecycle`: a callback's first lookup, and the reads that open `test` and
  `disconnect`, are one step with the call's arrival; a Zoho exchange and its organization
  lookup are one. `closing` and `spent` are not in the database: who asked to disconnect,
  and what a provider remembers of its codes.
- `Membership`: the guards' reads and the read of the target are one step (`Begin`); users
  without an email address, slugs, names and `organization.updated` are left out; the seed
  has been run; the audit entry of a role change is left out. The claim's statements and two
  deliveries of one event at a time are in `WebhookInbox`; what they lose is `CutShort`.
- `Actions`: a job the breaker gave up on runs on, and its result is dropped; a
  time-out is possible at any moment; a lapse never falls between a refresh and its storing
  (an hour against milliseconds); rows without a credential are not tested. Breakers are
  shared by all tenants, and one tenant's calls stand for theirs.
- `CartReminder`: endpoints answer only which facts the workflow's IF looks for; a fact that is
  absent passes for false and for empty, as n8n's operators have it.
- `Console`: a behaviour follows one resource; filters and pages of its list are one query, and
  so are the pages of its items; `staleTime` passing is a choice made when data arrives; two retries and giving up
  are one choice. Orders' and runs' keys name the workspace; integrations' and notifications'
  name none and show another workspace's data until it is stale. The bulk header
  checkbox, which compares sizes, is the choice of any rows. A write that settles after its page was
  left, with a read under way, may count older data as fresh, and so may a view on its first
  fetch: `OwnWritesShown` speaks of what an open screen showed when the write was reported. Events published while the stream is down are lost.
  Shopify and Zoho are connected by a redirect: a write of others and a `Reload`.

## 6. Not modelled

- The delivered-notification branch of the order-validation workflow; the cart webhook and
  `updateCredential` in the lifecycle; notifications being read on the backend, and their
  fan-out to members; audit entries.
- The members page of the console (Clerk's own component), the audit log's page and the
  stream of a single run.
- Rate limiting: the counting is the throttler library's, the guards only choose keys.
- The SSRF guard: a pure predicate on the text of URLs and addresses.
- Audit log, tenants and health endpoints: reads and single-row updates.
- Layout, forms' validation, encryption, opossum's and react-query's internals beyond
  what the code relies on, type and schema packages.

Worth doing next, in this order: the delivered-notification branch as an execution of
`OrderPipeline` started by the carrier's tracking webhook; the fan-out of notifications
over members who come and go; an abstract specification of a circuit, which `Actions`
would implement once per provider.
