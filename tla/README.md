# Specifications of agent-integrations

TLA+ modules of the parts of this repository that decide, under concurrency and
failure, who may act on a webhook, a purchase, a subscription, a credential, an
approval or a provider event; TLC configurations that check them on small
instances; and TLAPS proofs about the durable claim store, the router over it,
managed numbers, the subscription record, the shared credential refresh, the
guarded invocation, billing evidence and event routing.

Paths below are relative to the repository; line numbers are those of the
commit the modules were written from. `PROJECT.json` lists the components, the
runs, the mutants that show each property can fail, the lines every definition
models, the hazards and the theorems.

## 1. The system

The package integrates third-party services. 728 of its 837 files under `src/`
are connector adapters: request and response mapping, one per provider, without
state. What remains, about 23 000 lines, holds catalogs and types, HTTP
clients, and the components with behaviour of their own:

| Component | State | Operations | Hard behaviour |
|---|---|---|---|
| Idempotency stores, `src/idempotency.ts` | a journal of files per key; in each process a map of owned claims with heartbeat timers | `claimStatus`, `complete`, `release`, renewal | every await interleaves with other requests, heartbeats and processes; crashes; an I/O error after the effect; leases that lapse |
| Webhook router, `src/webhooks/router.ts` | the claim store | `handle`, `deliverEach` | batches claimed before they are delivered; repeated posts; a failure between claims; workers that die |
| Managed numbers, `src/managed-messaging/provision.ts` | the order row, versioned; provider state | one tick per phase | purchases that must not repeat, lost answers, late execution, two ticks at once, cancellation |
| Stripe dispatcher, `src/stripe/webhooks.ts`, `subscription-state.ts` | one versioned record per workspace, claims per event | `dispatch` and eight handlers | events in any order and more than once, equal timestamps, lost compare-and-sets, listeners that fail after a durable change |
| Credentials, `src/credentials.ts` | secret store, connection store; in memory the flights, leases and revocations | `resolveConnectionCredentials`, rotation callback, `revokeConnection` | one refresh shared by many callers, revocation during a refresh, checks that are stale when used |
| Hub, guard, approvals, `src/hub.ts`, `guard.ts`, `approval.ts` | connections, OAuth states, idempotency records, approvals | `startAuth`, `completeAuth`, `issueCapability`, `invokeWithCapability`, `decide`, resolve | reads before awaits, records written back without a version |
| Events, workflows, grants, `src/events.ts`, `workflow.ts`, `runtime.ts` | stored events, installed workflows, grants | receive, install, dispatch, `createGrants` | deduplicate, store, dispatch as three awaits; grants revoked in between |
| Hosted triggers, `src/triggers/index.ts` | a cursor per subscription | `pollHostedTrigger` | limits of the cursor: 50 events a poll, 200 keys |
| Billing evidence, `src/billing-access-policy.ts` | claims in an idempotency store, two weak sets | verify, decide | one-time purchases: complete fails after its effect |
| Adapter provider, `src/adapter-provider.ts` | a promise chain per invocation | `invokeAction` | rotations persisted in order, errors that stop the chain |

They interact by calls through ports: the router and the billing dispatcher
call an `AtomicIdempotencyStore`; the dispatcher calls a `SubscriptionStore`, a
snapshot reader and the product's listener; a managed-number tick calls the
order store, the provider, the vault and the host's authorization; the
credential resolver calls a secret store and a connection store, and is called
back by adapters that rotate a token. All shared state is behind those ports,
so all interleaving happens at awaits, and that is where every model takes its
steps.

What makes each part correct, in a sentence:

- the journal: at most one owner at a time, and only it ends its claim;
- the router: 200 means delivered, no two handlers deliver an event at once
  unless a process stalls or loses an entry of its owners map, no claim is
  stranded, every delivery is acknowledged in the end;
- managed numbers: nothing is bought twice, no receipt is lost, a cancellation
  sticks, every order settles;
- billing: the record ends in Stripe's state in whatever order events come,
  never goes back, and nobody misses a change;
- credentials: what was revoked stays revoked, a refresh token is redeemed
  once unless an adapter was handed it, every caller is answered;
- hub, guard and approvals: nothing is sent without authority that held during
  the invocation, an answered request is not sent again, a mutation is executed
  twice for one key only if invocations with the key overlapped or one ended
  between the effect and its record;
- hosted triggers: no poll emits what another one has, and every record after
  the baseline is emitted in the end, as long as no listing is overrun: a page
  or a list may hold less than is pending, and a form that was read may get more
  before the list has ended (section 5);
- billing evidence: one purchase buys access once;
- events and grants: an answered delivery is kept as a whole, a workflow and a
  sandbox act on a grant that was active during the call.

## 2. The modules

### ClaimJournal, AtomicClaim, ClaimJournalProofs

`ClaimJournal` is `FileSystemAtomicIdempotencyStore` for one key; keys never
share a file. `journal` is the sequence of linked files. The code derives the
path of a node from the token of the one before it and creates it with a hard
link, so appending at position n + 1 succeeds only while n is the last one:
that is `Link`. `owners[p]` is the entry of the key in the map of process p,
`renewals` the `renewOwnership` calls under way. A request goes through
`ClaimStart`, `ClaimReadHead`, `ClaimDecide`, `ClaimLinkWon` or `ClaimLinkLost`
and `ClaimAcquired`, which are the awaits of `claimStatus`; `EndStart` ...
`EndDone` are `transitionOwned`, called by `complete` and `release`, and
`Renew...` the heartbeat. `ClaimFails` and `EndFails` are I/O errors,
before or after the link took effect. One clock serves all processes, which is
what the code assumes of `Date.now()`.

`AtomicClaim` is what the interface promises: a key is free, held or done, and
only its owner changes that while the claim is live. `ImplementsAtomicClaim`
maps the last node of the journal to that state.

### WebhookRouter, WebhookRouterProofs

`handle` and `deliverEach` over that store, with one `AtomicClaim` per event
key and the owners map of each process. `claimStatus` stays two steps here (the
check of the map, the decision on the record), because handlers of one process
run between them. A request is posted to any process until it is answered 200;
`ClaimHeldHere`, `ClaimAcquired`, `ClaimCompleted`, `ClaimHeld`, `ClaimThrows`
are the outcomes of a claim. A complete or a release is three steps: it reads the
owner from the map (`Begin`), links its record if the head is a claim of that
owner (`CallLinks`), and deletes the entry awaits later, whoever's it is by then
(`CallReturns`, `Delete`), or throws (`ReleaseThrows`, `CompleteThrows`).
`closing[r]` holds the calls of a handler that are under way: one in
`deliverEach` (`Deliver...`, `CompleteEvent`, `ReleaseEvent`), one for each claim
of a batch whose later claim throws, in any order (`Unwound` waits for them).
Between the link and the delete a handler of the same process may claim the
event and lose its entry, and with it its heartbeat: the history variable
`disowned` marks the events of a handler to which that happened.

`Stall` is a lease missed by a living process that renews the claim or has a
call under way that is to end it: such a call is assumed to take less than a
lease unless the process stalls. The ttl of 7 days outlives the retries of a
provider and does not lapse.

### ManagedNumber, ManagedNumberProofs

One order and several ticks of `advanceManagedNumber`. The order row keeps its
phase, the journal field of the attempt, its status, whether it is due and the
receipts; its version number is replaced by who holds a copy of the stored
version. `inbound` are calls on their way to the provider, abandoned ones
included: they may execute later, and `made` counts what was executed. The
actions follow the tick: read, lease, claim, authorize, recheck, call, keep,
save, and the repair of a lost save (`Record...`), each with its error paths.

### StripeBilling, StripeBillingProofs

Calls of `dispatch` for the events of a timeline. Stripe produces the timeline
in order (`StripeMoves`); any call for an event Stripe has produced and not
seen acknowledged may begin, `Copies` of it at once, in any order. The record
keeps subscription, state, timestamp, last event, pending mark and version. The
steps are the awaits of `advance`, `reconcileEqualTimestamp`, `emitPersisted`
and `clearPendingSubscriptionEvent`. Which of the eight handlers runs decides
the guards `Target`, `Accepts`, `OutOfOrder`, `AlreadyCanceled`; the transition
table is copied from the source.

### CredentialRefresh, CredentialRefreshProofs

Callers of `resolveConnectionCredentials`, invocations that rotate the
credentials, and revocations of one connection in one process. A token is named
by who obtained it. `AssertStatus` to `AssertMark` are the steps of
`assertCredentialRefreshActive`, which every writer passes between its writes;
`Flight...` is the shared refresh; `entry` is the map of flights. The provider
takes a refresh token once and refuses it afterwards. An invocation is handed
what is stored (`Rotate`; the connection and the secret are read in one step
there), and its adapter redeems that token later, whatever is stored by then
(`RotationRedeems`): it then calls back, which takes the lease, or keeps the new
credentials to itself, as the two calendar adapters do
(`google-calendar.ts:753-779`).

### GuardedInvocation, GuardedInvocationProofs

`invokeWithCapability` from the token to the answer, for invocations that start
one after the other and overlap from then on. `inv[w].step` is the await that
invocation w has reached: the connection, the guard's lookup, the dry run or the
rate limit, the approval named in the request, the base policy, the adapter's
read before the effect, the effect, the idempotency record, the audit.
`approvals` are the stored records, changed by invocations that find one expired
and by `Resolve` at any time; `overdue` are those whose `expiresAt` has passed.
`Withdraw` ends the capability or the connection. `inbound` and `done` are
mutations under way and executed: a call whose caller gave up (`GiveUp`, the
`AbortSignal` timeout) may still execute. A deployment fixes the effect of the
base policy and who executes: Google Calendar with its request id, Graph without
one, or a declarative REST adapter that only sends. `Preflight`, the calendars'
free/busy query, says free or busy whatever was booked: the answer is older than
the insert, may be about another calendar than the one the insert goes to, and
reads the error of one calendar as free. Two fields of an invocation are history:
which authority has held since it started, and whether its request had been
answered; `overlapped` collects the keys of which two mutations were under way
at once or one ended without leaving its record.

### HostedTrigger, HostedTriggerProofs

`pollHostedTrigger` against a provider that records `born`. A listing says how a
trigger definition reads: ascending from the cursor (Attio, HubSpot), newest
first (Gmail, Outlook, Pipedrive), or form by form (Typeform, Tally, and Intercom
as one form): one page of each form of the account, in any order, of what is
pending of that form (`Form`, `FormPages`), and all pages one after the other.
The listing has its page size, its number of pages, and the form of each record.
`ReadPage` is one read, and records are created between the pages; one that
comes to a form behind the list is `Passed`;
`Emit` filters, sorts, caps and moves the cursor; `PollFails` is a read that
throws or a result the host loses. `told[r]` counts the polls that emitted r.
The filter and the stable sort are said by positions in the list that was read:
`Left` passes the filter, `Before` orders it, `Place` is the rank of a position
and `Fresh` puts every position at its rank.

`overrun` is history: the list could not show all that is pending. More was
pending than a newest-first listing reads, or than the page of a form holds, or
a record came to a form that had been read while the list went on to others.
Without the second or the third TLC finds `NothingSkipped` violated.

Three definitions are left out, because their lists are not by the cursor:
Webflow (up to 50 forms without a time filter, `definitions.ts:331`), Calendly
(by the start of the meeting, `:374`) and Cal.com (upcoming bookings, `:405`).
The others are modelled under assumptions about the provider: it filters by the
cursor's time, lists a record as soon as it is created, deletes none, and the
account has no more forms than are read (10). Rows that a definition drops after
reading them, such as an automated sender's mail, are not records; they take up
room, so that a listing is overrun sooner. The forms are read in the order of
their numbers; a poll begins with nothing read, so their names may be exchanged
between polls.

### BillingEvidence

`verifyTrustedPlatformEvidence` as verify, claim, complete and release over a
claim store shared by processes, and `decideBillingAccess`. The store is the
abstract claim of `AtomicClaim`, with the completion's ttl counted from the
claim (in-memory store) or from the completion (file store). A claim lapses when
its owner is dead or stalled; `Complete` may throw although it is durable,
`CompleteThrows` without effect; `returned` and `allowed` count what was granted
for a token and for a funding record.

### EventRouting

Calls of four kinds over one event store, one workflow and one grant:
`receiveIntegrationWebhook` (check, put and dispatch for every event of the
payload), `dispatchEvent`, `buildSandboxBundle` and `install` with
`createGrants`. `lawful` is history: which authority has held since the call
began.

### HubServices, HubServicesProofs, MC_HubServices

`HubServices` composes the guard with the other three: it extends
`GuardedInvocation` and instantiates `HostedTrigger`, `BillingEvidence` and
`EventRouting`, each over variables of its own, and a step of the hub is a step
of one of them. The functions take their stores as arguments; where the services
meet in the system (a dispatched event whose workflow invokes an action), one
has returned before the other begins, and what two of them read, the connection,
may be withdrawn in each at any time.

`MC_HubServices` gives the constants values and lets the first state choose the
service that runs while the others stand still, so that the run is the union of
four state spaces and not their product. These are behaviours of `HubSpec`; that
nothing is lost by it is the theorem `ServicesRunAsAlone` (section 4).

## 3. The runs

A run's cfg gives the constants values and names its properties. Every property
of a passing run has a mutant of the modelled code that breaks it under the
same cfg; the mutants stand in the modules as operators marked "Fault".

| Run | Instance | What it shows |
|---|---|---|
| `journal_procs` | two processes, one request in each, clock 0..2, depth 3, one crash, perhaps a version-1 record | claims, renewals, completions, releases and takeovers race: `OnlyOwnerEndsClaim`, `LeasesExcludeEachOther`, `CompletionHoldsForTtl`, `CompletedAnswerIsTrue`, `CompleteIsRetained`, `ChainIsBounded` |
| `journal_siblings` | two requests of one process | they share an owners entry; the journal still implements `AtomicClaim` |
| `journal_shared_map` | the same | violated: `CompleteIsRetained` (finding 1) |
| `router_fleet` | two processes, two deliveries `<<k1, k2>>` and `<<k2, k1, k2>>`, two faults, one stall; 1 450 966 states | `AckMeansDelivered`, `DeliversOnlyWhatItHolds`, `NoClaimStranded`, `EveryDeliveryAcknowledged` |
| `number_sms` | two ticks, two faults, one denial | `NothingBoughtTwice`, `CallsAreJournaled`, `ReceiptsAreKept`, `CancellationSticks` |
| `number_imessage` | two ticks, one fault, one denial | `EveryOrderSettles` |
| `billing_timelines` | four worlds: created, updated in the same second, deleted, each dispatched in two regions, one fault; a trial with a notice, its cancellation and a new subscription; a subscription billed and paused in one second; a trial paid and canceled, each change in its own second | `Converged` (once all events are handled, the record holds the last state of the subscription it is bound to), `AckedEventsAreTold`, `AppliedEventsAreTold`, `RecordNeverGoesBack`, `EveryEventHandled` |
| `billing_skipped_edge` | incomplete, active, past_due | violated: `Converged` (finding 2) |
| `billing_stale_snapshot` | three changes in one second | violated: `CanceledIsFinal` (finding 3) |
| `credential_three` | two callers, a rotation, a revocation, any three of which begin; one fault | `NothingResurrected`, `RedeemedOnce`, `FlightsAreCleared`, `EveryCallerEnds` |
| `credential_resurrected` | all four begin | violated: `NothingResurrected` (finding 4) |
| `hub_services` | three invocations of two keys, one of them as a dry run, four deployments, an approval, a fault; seven listings, three of them by form, seven records; three presentations of a purchase in two tokens and a plan, one error; three calls over payloads `<<e1, e2>>` and `<<e2, e3>>`, one fault | `WithdrawnAuthorityHasNoEffect`, `AnsweredIsNotRepeated`, `DoneOnce`; `ToldOnce`, `NothingSkipped`, `CatchesUp`; `GrantedOnce`; `AnsweredBatchIsKept`, `AuthorityIsCurrent` |

### Bounds, and why they are enough

- *Journal.* Every decision looks at the last node and one owners entry, so a
  conflict needs two actors and one of their heartbeats. With lease and ttl 1
  and a clock up to 2, a claim lapses, is taken over, and the takeover lapses
  too. Depth 3 is reached and exceeded. The proofs drop all these bounds.
- *Router.* Two batches that cross and one that repeats a key give every pair
  of claim outcomes; posts go to any process, so the two handlers are in one
  process or in two. Two faults let a release fail while a batch is unwound,
  which is the longest error path. One key repeated in a batch and two handlers
  are what a late delete needs: a call that has linked, and a claim that comes
  before its delete.
- *Managed number.* A third tick adds no new relation: a tick only compares
  the row it read with the stored row. Two faults combine a lost answer with a
  crash, a stall or a failed repair. `tries` keeps the code's own limit of three
  attempts, and `IN_FLIGHT_MS` is a change from recent to old.
- *Billing.* Version counters and timestamps are bounded by the timeline. Two
  regions for three events give all overtaking of one event by another within
  the load and the save. The other timelines have the kinds of event the first
  has not. `maxCasRetries` is 2 and 1 instead of 3: the code treats every
  attempt alike. One fault is as far as `Converged` holds on the first timeline;
  section 4 says what a second does, and on which timelines no number of faults
  does any harm.
- *Credentials.* Three operations give every pair of writers together with a
  revocation; a fourth is what finding 4 needs. Each operation runs once.

- *Guard.* Three invocations are two that overlap and one that starts after an
  answer; two keys are one that is repeated and one that is not. One approval suffices, since every decision looks at the record it is given.
- *Triggers.* Cap 2 and 6 keys stand for 50 and 200, listings of 4, 2, 3 x 2 and
  3 x 2 for 100, 50, 3 x 100 and 3 x 100, and one and two forms with a page of 2
  for up to 10 with one of 50: a form and a later one are all that a record can
  come too late for. In one account the forms alternate record by record, in the
  other by pairs. Seven records in three ticks exceed
  cap, page and keys. Three of one timestamp exceed the cap; with the two copies
  of a row that a newest-first listing may show they just fill the keys, which
  is what `TriggerAssumption` asks of `MaxPerTick`. In the code the keys are 200
  and Pipedrive may show three copies, so it asks for bursts of at most 66
  records of one timestamp there and of 200 elsewhere: an assumption about the
  provider (section 5 says what happens beyond it).
- *Evidence.* A third call meets what the first two left: a completed, a lapsed
  or a released claim. Time 0..2 passes the expiry of every token, and the
  retention of a purchase (years in the code) outlives it.
- *Events.* Two payloads that share an event, and three calls of any kind.

Bounds are guards: `MaxTime`, `MaxCrashes`, `MaxFaults`, `MaxStalls`,
`MaxDenials`, `MaxBegun`, `Copies`, `MaxCasRetries`, `MaxInvocations`,
`MaxApprovals`, `MaxRecords`, `MaxPerTick`, `MaxFailures`, `MaxCalls`,
`MaxErrors`. `journal_procs`,
`journal_siblings` and `number_sms` use symmetry, none of them with a liveness
property. `CHECK_DEADLOCK FALSE` stands where the system stops: an order that is
complete, a timeline that has ended, operations that have all returned.

### Fairness

Only what the code's scheduling and its environment provide:

- `WebhookRouter`: weak fairness on the steps of a handler (the event loop runs
  it on), on `Arrive` (providers retry what is not acknowledged) and on `Lapse`
  (time passes). None on crashes, stalls, late renewals or failures, which are
  bounded. Each `Handle(r)` has fairness of its own: one handler's turn does not
  depend on another's.
- `ManagedNumber`: weak fairness on ticks (the host's queue ticks every due
  order), on the provider executing what it received and showing the line, and
  on the clock. A cancellation or a fault never has to happen.
- `StripeBilling`: weak fairness on the steps of a call, on the lapse of a dead
  call's claim, and on Stripe's timeline; a call that may begin is a step, since
  Stripe delivers again for days.
- `CredentialRefresh`: weak fairness on what has begun; nothing has to begin.

- `HostedTrigger`: weak fairness on `ReadPage` and `Emit`, since the host polls
  every subscription on its interval. Nothing has to be created, and failures
  are bounded.

The other modules have safety properties only and no fairness.

## 4. What is proved

`ClaimJournalProofs` proves, for any set of processes and requests, any lease,
ttl and depth of at least 1, any clock bound and any version-1 records:

| Theorem | Statement |
|---|---|
| `TypeCorrect` | `Spec => []TypeOK` |
| `OwnerEndsItsClaim` | `Spec => []OnlyOwnerEndsClaim` |
| `LeasesAreExclusive` | `Spec => []LeasesExcludeEachOther` |
| `CompletionIsKept` | `Spec => []CompletionHoldsForTtl` |
| `ChainStaysBounded` | `Spec => []ChainIsBounded` |
| `JournalGrows` | `Spec => JournalOnlyGrows` |
| `JournalImplementsAtomicClaim` | `Spec => ImplementsAtomicClaim` |
| `CompletedAnswersAreTrue` | `Spec => []CompletedAnswerIsTrue` |
| `CompletionIsRetained` | `RequestsAreAlone` implies `Spec => []CompleteIsRetained` |

The only assumption is `ConstantsAssumption` of `ClaimJournal`, which TLC
evaluates in every journal run. The last theorem also needs that no two requests
for the event run in one process, as in `journal_procs`; `journal_shared_map`
(finding 1) is what happens otherwise.

*The inductive invariant.* None of the properties is inductive: each speaks of
finished nodes, and the next node to be linked was decided on a head and a clock
read earlier. `JournalInv` therefore adds to `TypeOK`

- `DraftsFit`: the node that a request or a renewal is about to link may follow
  the prefix of the journal it has read (`MayFollow`). A claim is stamped at most
  a lease ahead of the clock and no earlier than the claims before it; it comes
  first, or behind a release, or behind a node that had expired when it was
  stamped, with a token not spent before, or it renews the claim of its own
  owner. A completion or a release carries the owner of the claim it follows.
  The position read exists and is not beyond the depth limit;
- `ChainInv`: the four properties above, with three facts they need of the
  chain: a version-1 record can only be its first node (`LegacyIsOldest`), an
  owner's token is as old as its first claim (`TokensAreOld`), and claims are
  stamped in the order they are linked, never more than a lease ahead of the
  clock (`StampsGrow`).

A link succeeds only if the prefix it was decided on is still the whole journal,
so the new node fits the chain as `DraftsFit` says of the draft, and each
conjunct of `ChainInv` survives it (`LinkStep`): the stamps and the tokens are
what carries the comparison with the last node to the older ones. Every other
step leaves the journal alone and only has to keep the drafts fitting while the
clock moves on (`QuietStep`, `BecomeFits`, `RenewalFits`). `JournalStep`
combines them, one case per action.

*The refinement.* A successful link is a step of `AtomicClaim` by the same
relation (`LinkRefines`): a claim is `Acquire` with a token never spent before
or `Renew` with the same one, a completion is `Complete`, an available node is
`Release`. A tick of the clock is `Lapse` or a stutter, and every other step
stutters (`QuietRefines`).

*The answers.* `claimStatus` answers from a head it read before: the journal
only grows, so what was completed then is completed now (`AnswerStep`). A
request that is alone in its process works under an entry of the owners map that
is its own and completes no claim but that one (`HoldsItsOwn`); whoever takes
the claim over, its `complete` links a completion of its own token or throws.

`WebhookRouterProofs` proves, for any processes, deliveries and batches (also
batches that repeat an event), and any number of faults and stalls:

| Theorem | Statement |
|---|---|
| `RouterTypeCorrect` | `Spec => []TypeOK` |
| `AcknowledgedIsDelivered` | `Spec => []AckMeansDelivered` |
| `NothingStranded` | `Spec => []NoClaimStranded` |
| `HandlersHold` | `Spec => []DeliversOnlyWhatItHolds` |

The only assumption is `RouterAssumption` of `WebhookRouter`.

*The inductive invariant.* An answer is true because of what a handler went
through several awaits before, and a claim is held because nobody who looked at
it in between could take it. `Parts(r)` are the places of a handler's list whose
complete or release has begun. `IInv` adds to `TypeOK` and `NoClaimStranded`

- `Shape`: where a handler stands, how far it is in its batch, that an idle one
  has an empty list, and that calls are under way only for `Parts`;
- `Covered`: unless the handler knows of trouble, every event of the batch it
  has passed is delivered or still on its list; an event that is about to be
  completed has been delivered;
- `DoneIsDelivered`: only what was delivered is completed, so an event that was
  found completed counts as passed;
- `Closed`: an entry for a claim that is being ended is there only while the call
  is under way, and is the one the call read, so no entry outlives its call;
- `Foreign`: a call that has read another handler's entry ends the claim of an
  event that is off that handler's list, or that is known to be disowned;
- `Owned`, as long as nothing stalled: the claims of the events on a handler's
  list are live and its own, and no event is on the list twice, but for the
  events it has begun to end and those another handler's call took.

A handler takes over records that are not live and otherwise links behind the
claim of the owner it read, which is its own or, by `Foreign`, one that its
owner has lost; so the other handlers keep `Owned`. `HandlerKeeps` derives
`IInv'` from that and from what the handler does to itself, and one lemma per
kind of step supplies it: `QuietSteps` (no claim is touched),
`ClaimAcquiredStep`, `BeginSteps` (calls begin), `LinkStep` (a record is
linked), `EndSteps` (a call returns or throws and deletes the entry),
`DoneStep` (an event leaves the list), `RestartStep`. `LeaseStep` and
`CrashStep` are the steps that concern several handlers at once.

`ManagedNumberProofs` proves, for any number of ticks, faults and denials and
both transports:

| Theorem | Statement |
|---|---|
| `NumberTypeCorrect` | `Spec => []TypeOK` |
| `BoughtOnce` | `Spec => []NothingBoughtTwice` |
| `SentCallsAreJournaled` | `Spec => []CallsAreJournaled` |
| `CancelledStaysCancelled` | `Spec => CancellationSticks` |
| `ReceiptsSurvive` | `Spec => ReceiptsAreKept` |

The only assumption is `NumberAssumption` of `ManagedNumber`.

*The inductive invariant* follows the journal entry of a phase. The call of a
phase is `Spent` once it was executed or is on its way; a tick `Holds` the entry
it has journaled until it calls or gives it back.

- `CallsOnce`: each call was executed once or is on its way once, and what the
  provider and the vault show was made;
- `Sound(order)`: the calls of later phases are not spent, nor is the one of
  this phase while the row says it was not attempted (but for an SMS number that
  is recorded and not ready); a recorded number exists;
- `ClaimFits`: a tick that holds an entry is the only one, the order says it was
  attempted, and its call is not spent. So only it may call or take it back;
- `DraftFits`: the row a tick is about to save, if its version is still the
  stored one, may replace the stored row (`Follows`): it is sound, keeps the
  receipts and a cancellation, and says "not attempted" only if no other tick
  holds an entry;
- `SnapFits`, `Shape`: a copy of the stored version agrees with the row in all
  but the clock; which phases a step belongs to, and that a tick waits only for
  a call that was sent.

A step either leaves the order to one tick that moves (`TickMoves`), stores what
that tick drafted (`SaveMoves`), or belongs to the provider or the clock
(`ProviderMoves`, `OrderMoves`); these four lemmas derive `IInv'`. Above them
`PlansQuietly`, `StaysInPhase`, `GoesOn`, `Caught` and `CallFails` say which
rows a tick may plan: the same phase without taking the entry back, the next
phase once the call was made, an open attempt only after a refusal that removed
the call. One lemma per kind of action cites them. The two action properties
follow from `Follows` at the steps that store (`TickTouches`, `OrderKeeps`) and
from how a tick may end (`Endings`).

`StripeBillingProofs` proves, under `BillingAssumption` (a timeline is a
sequence of events with a known kind, a time and a state; at least one region
and one attempt at a compare-and-set), for any timelines and failures:

| Theorem | Statement |
|---|---|
| `BillingTypeCorrect` | `Spec => []TypeOK` |
| `AcknowledgedAreTold` | `Spec => []AckedEventsAreTold` |
| `AppliedAreTold` | `Spec => AppliedEventsAreTold` |
| `RecordMovesForward` | `Spec => RecordNeverGoesBack` |
| `OrderlyTimelinesConverge` | `Spec => [](Orderly => Converged)` |

*The inductive invariant.* `CallFits` says what a call has told the listener by
the step it stands at, so that a completed claim, which another delivery may
find and answer as a replay, belongs to an event the listener has heard of.
`Marked`: a record carries no pending mark but that of its last event, and has
none only if the listener was told of that event. `DraftFits` carries this over
the awaits between a load and its compare-and-set: the record a call is about to
save may follow the stored one *if* that still has the version the call loaded,
and versions only grow, so whatever another call stored in between makes the
compare-and-set fail. `HasNewest` gives the retrieval an answer: the newest
event of a subscription exists as far as Stripe is.

`CallMoves` derives `IInv'` from what the moving call does to itself and from
how it touches claims and listener; `OthersFit` is the part about all other
calls, `Stored` the part about a save. `NotifyMoves`, `ThrowMoves`,
`ApplyMoves`, `CatchMoves` and `EndMoves` are the ways a handler can go on, and
one lemma per group of actions cites them. `RecordChanges` says that only a
successful compare-and-set changes the record; with `Stored` it gives the two
action properties.

*Convergence.* `Converged` is not true of every timeline, so the theorem says of
which it is: `Orderly`, there is a last change `LastChange(L)`. The workspace
has one subscription. Change L has a second of its own, later than the changes
and notices before it. `TRANSITIONS` lets the state of every earlier event go to
that of L, because L may be the first event the record hears of after any of
them: finding 2 is a timeline without this clause. After L only invoices,
unhandled events and, if the state never differed, notices of a trial's end
follow. Before a cancellation no two changes share a second: without this clause
TLC finds, on the first timeline of `billing_timelines` with two faults instead
of one, a reconciliation that outlives its lease and saves its old snapshot over
the cancellation, the mechanism of finding 3. The clauses are sufficient; that
each is necessary is not claimed. Two worlds of `billing_timelines` are orderly,
the one billed while paused and the one paid and then canceled.

The invariant is `Settles(L)`: the record, and what each call is about to save,
is `Fit`, written by some event with that event's time, and in L's state if it
is as recent as L; a call that is done with L, a completed claim on it and its
acknowledgement imply `Settled`, a record as recent as L or, if L cancels, a
record already canceled. Its step needs `IInv`: the version argument of
`DraftFits` keeps a cancellation from being undone (`KeepsCanceled`,
`SettledStays`). `LastIsAccepted` shows that no handler drops L as out of order,
`LastIsAlone` that it is never reconciled, `PeersFollowCancellation` that a
cancellation is never behind a reconciliation, and `TruthLeads` that Stripe's
answer is L's state once L has happened.

`CredentialRefreshProofs` proves, for any number of callers, rotations,
revocations and failures (`RevocationIsFinal` before the first rotation and the
first failure):

| Theorem | Statement |
|---|---|
| `RefreshTypeCorrect` | `Spec => []TypeOK` |
| `MapIsCleared` | `Spec => []FlightsAreCleared` |
| `RefreshTokensRedeemedOnce` | `Spec => RedeemedOnce` |
| `RevocationIsFinal` | `Spec => []((\A r \in Rotations : at[r] = "idle") => NothingResurrected)` |

The only assumption is `CredentialAssumption` of `CredentialRefresh`.

*The inductive invariants* share `MapInv`. It says where each actor stands,
which of its checks that is and whether it is in a flight (`CallerFits`,
`RotationFits`, `RevokerFits`), and that there is `OneFlight`: who waits, waits
for the flight in the map, an unsettled flight is the one in the map, and a
settled one stays there only while somebody waits. `CallerLeaves` and
`FlightMoves` are the two ways in which it is cleared. `HoldsToken` adds that
who redeems, a flight or an adapter, holds a token.

`TokenInv` speaks of the time before the first failure and the first revocation
(`Calm`). Then no check finds a reason to delete the secret (`Unrevoked`), and
tokens are fresh (`FreshTokens`): unless an adapter has redeemed it
(`AdapterRedeemed`), the stored token has been redeemed only while the flight
that redeemed it is about to store the next one, and what a flight is redeeming
has not been redeemed; no one holds a token that was not stored yet. Since there
is one flight, the flight that reads the secret meets no other that has just
redeemed it. `CalmBefore` shows that a calm state follows only a calm one;
`CalmActs`, `CalmIsHanded`, `CalmAsks`, `CalmRotates` and `CalmFlies` are the
steps. The exception for adapters is needed: see section 5.

`RevocationInv` is the one of `RevocationIsFinal`. Since a revocation began, an
unsettled refresh is cancelled, or it began after the revocations before it and
has not read the secret yet (`FlightsKnow`); a secret that was deleted is back
only while a cancelled flight that stored it has still to delete it
(`SecretGone`); and a connection that a caller made active after the revocation
has a caller that will write revoked (`ActiveIsRepaired`), because the check
after that write finds the secret deleted (`RepairFindsNothing`): its flight is
resolved, so it is the one in the map, and no other can have stored anything.
Rotations have no such map, and the theorem is false with them: a revoked
rotation that writes its token before its check lets another pass. TLC finds
this with two callers and one rotation (`credential_resurrected`) and, without
any caller, with three rotations that overlap one revocation: the first writes
active over revoked, the second has stored a token it is about to delete, the
third finds both and goes on to its last write. `RevocationIsFinal` therefore
speaks of the time before the first rotation.

`GuardedInvocationProofs` proves, for any requests, any deployments and any
number of invocations, approvals and faults:

| Theorem | Statement |
|---|---|
| `InvocationTypeCorrect` | `Spec => []TypeOK` |
| `WithdrawnAuthority` | `Spec => WithdrawnAuthorityHasNoEffect` |
| `AnsweredOnce` | `Spec => AnsweredIsNotRepeated` |
| `DoneOncePerKey` | `Spec => []DoneOnce` |

The only assumption is `InvocationAssumption` of `GuardedInvocation`.

*The inductive invariants.* Two of the properties are about one step and compare
it with what held when the invocation started, awaits ago. `IInv` carries that
over the awaits:

- `HoldsAuthority`: whatever authority still holds has held since an active
  invocation started (it is only withdrawn), and past the connection check the
  connection has;
- `HoldsApproval`: an approval that is in force has been in force during every
  active invocation on its input; at the effect one has been, unless the policy
  allows the action;
- `AnswersAreRecorded`: an answered request has a record under its key (another
  request may have overwritten it, but a record is never removed), and an
  invocation that started after the answer is not past the lookup.

All three survive a step for one reason, which the proof states once:
`Monotone` says what every action does to the stores (authority shrinks,
records grow), `Advances` what it does to an invocation that stays active, and
`InvariantKept` derives `IInv'` from the two. The lemmas `StartStep`,
`ResolveStep`, `LocalSteps`, `StoreSteps`, `UpstreamSteps` and `LossSteps` show
both of every action.

`DoneOnce` has an invariant of its own, `OnceInv`. It follows a key that was never
overlapped (`SoleMutation`): one invocation at a time mutates it; a call upstream
has a caller that waits; what was done is recorded, or its caller is about to;
and who is on the way to the effect finds nothing done. A lost answer, a crash
before the record and a second invocation are the three ways to leave that
state, and each puts the key among the overlapped ones. An upstream that knows
the key needs none of this. `StartKeepsOnce`, `SendKeepsOnce`, `ArrivalKeepsOnce`
and `ProceedingKeepsOnce` are the steps.

`HostedTriggerProofs` proves, under `TriggerAssumption` (the remembered keys hold
the copies of a burst of one timestamp, and a record belongs to a form that is
read), for any listings, forms, page sizes and caps and any number of records and
failed polls:

| Theorem | Statement |
|---|---|
| `TriggerInvariant` | `Spec => []IInv` |
| `TriggerTypes` | `Spec => []TypeOK` |
| `NoneToldTwice` | `Spec => []ToldOnce` |
| `NonePassedOver` | `Spec => []NothingSkipped` |

*The inductive invariant.* Records are numbered as they are created, so `born`
only grows along them (`BornInv`). `CursorInv` ties the cursor to what was
emitted: none of it is newer than the cursor's time; what has that very time is
among the remembered keys; and the keys, all of them emitted, are in the order
of time with no more copies of a record than a poll can make, so that dropping
the oldest never drops a key of the last burst. `RowsInv` speaks of a poll under
way: an ascending listing has read the first pending records one after the
other; a newest-first one may repeat rows, but leaves no gap above the depth its
pages reach by now, and one that has ended before its last page has read all
that is pending and not newer than its newest row (`RowsComplete`). Records that
are created between two pages are newer than all of these. Of a list that goes
through forms, `FormsInv` says that it holds no row twice, and that unless it was
overrun it has, of each form read, all that is pending if that fits a page; once
it has ended, all that is not newer than its newest row. A record that comes to a
form already read sets `overrun` while the list goes on (`CreateStep`), and is
newer than every row once the list has ended.

The poll's filter and sort are a permutation: `Place` is a bijection from the
positions that are left to `1..Cardinality(Left)`, so `Fresh` is ordered by time
and contains exactly what passed the filter. `EmitStep` then cuts it at the cap:
what is emitted is not older than the cursor and not remembered, hence new; what
is left behind is not older than the last record emitted, hence still pending;
and of the last time, the keys keep all that was emitted. `ReadPageStep` is the
other long step, one case per kind of listing and per reason to end; a page of a
form that holds no more than a page is all of the form, because it is an
injection between sets of one size (`FormPageRows`).

`HubServicesProofs` proves billing evidence, event routing and the hub. Under
`EvidenceAssumption` (token ids are unique, a funding record is a purchase in
all its tokens or in none, claims are retained beyond the clock's bound), for
any number of calls and errors:

| Theorem | Statement |
|---|---|
| `EvidenceTypeCorrect` | `Evidence!Spec => []Evidence!TypeOK` |
| `PurchaseGrantedOnce` | `Evidence!Spec => []Evidence!GrantedOnce` |

*The inductive invariant* follows a replay key. `ClaimsLast`: a claim, made or
about to be made, lasts until its token has expired, or for good.
`ReturnedIsDone`: evidence of a key was made by completing its claim, so a claim
that can be taken over has granted nothing that is still valid. `HoldersOwn`:
who holds evidence of a purchase is the owner of its completed claim, so there
is one holder. `AllowedIsUsed`: once access was bought, that holder has used
its evidence up. `CompleteStep` and `AllowStep` are the steps that grant; all
others keep completed claims as they are (`ClaimMoves`) or the store
(`CallStep`).

Under `RoutingAssumption` (payloads are sequences), for any number of calls and
faults:

| Theorem | Statement |
|---|---|
| `RoutingTypeCorrect` | `Routing!Spec => []Routing!TypeOK` |
| `DeliveryIsKept` | `Routing!Spec => []Routing!AnsweredBatchIsKept` |
| `RoutingAuthority` | `Routing!Spec => []Routing!AuthorityIsCurrent` |

*The inductive invariant* is one statement about each call, `Consistent`: its
step belongs to its kind; `Delivered`: what a delivery has passed, and the event
it is dispatching, is stored, and it is answered behind the last event;
`Authorized`: authority that holds now is noted by every call under way, and
what a call has checked it has noted. Events are only added and, but for
`CreateGrant`, which every call notes, authority is only lost, so the calls that
do not move stay consistent (`StaysConsistent`).

Of the hub, `ServicesRunAsAlone` needs no assumption and the others
`HubAssumption`, the conjunction of the services' assumptions:

| Theorem | Statement |
|---|---|
| `ServicesRunAsAlone` | `HubSpec => Spec /\ Trigger!Spec /\ Evidence!Spec /\ Routing!Spec` |
| `HubTypeCorrect` | `HubSpec => []HubTypeOK` |
| `HubTellsOnce` | `HubSpec => []ToldOnce` |
| `HubSkipsNothing` | `HubSpec => []NothingSkipped` |
| `HubGrantsOnce` | `HubSpec => []GrantedOnce` |
| `HubKeepsDeliveries` | `HubSpec => []AnsweredBatchIsKept` |
| `HubAuthority` | `HubSpec => []AuthorityIsCurrent` |

`ServicesRunAsAlone` is the refinement: a step of the hub is a step of one
service and a stutter of the others, so what is proved of a service alone holds
in the hub. `SameTrigger` carries the results of `HostedTriggerProofs` to the
instance of the trigger that the hub uses.

The assumptions are hypotheses of the theorems; TLC evaluates them for the
constants of `MC_HubServices`.

*Only model-checked:* `NothingResurrected` once a rotation has begun (it can fail
when four operations overlap, finding 4), `Converged` on timelines that are not orderly (there it is false on
some, findings 2 and 3), and every liveness property,
`EveryDeliveryAcknowledged`, `EveryOrderSettles` and `CatchesUp` among them;
TLAPS has no support for liveness under fairness here.

## 5. Findings

1. `CompleteIsRetained` (`src/idempotency.ts:217`). The owners map is keyed by
   the event key alone. When a second request of the same process takes over
   the lapsed claim of the first, the first deletes the entry of the second;
   the second's `complete` then returns as if it had succeeded.
2. `Converged` (`src/stripe/webhooks.ts:474`). With the stored state
   incomplete, past_due delivered before active has no edge in the table and is
   dropped for good; the record stays active.
3. `CanceledIsFinal` (`src/stripe/webhooks.ts:800`). The reconciliation of
   equal timestamps writes a snapshot read before the record was loaded, with
   no transition check, over a cancellation.
4. `NothingResurrected` (`src/credentials.ts:163`). A caller whose flight finds
   the secret deleted writes `expired` over `revoked`; together with a
   cancelled rotation that has not yet removed its secret, a second caller makes
   the connection active again after the revocation returned.

Met while modelling, and not given a run: the created event of a customer's next
subscription is acknowledged and dropped when it arrives before the cancellation
of the last one (`src/stripe/webhooks.ts:374`), which is why `Converged` speaks
of the subscription the record is bound to; the in-memory subscription store lets two first
records of one workspace both succeed (`src/stripe/subscription-state.ts:243`);
and a replay of an event that was saved but not told emits the typed event
instead of `event_replay` as the header has it (`src/stripe/webhooks.ts:36-38`
and 704).

What the modules show of the code besides, likewise without a run:

- An adapter redeems the refresh token its invocation was handed without asking
  the shared refresh (`src/adapter-provider.ts:246-256`): when the credentials
  expire meanwhile, a flight reads the same token, and the provider refuses the
  second of the two, without a failure or a revocation. `RedeemedOnce` makes
  this exception and no other. An adapter that does not call back leaves the
  redeemed token in the store.
- A complete or a release deletes the entry of the owners map awaits after it has
  linked, without looking whose it is (`src/idempotency.ts:217`, 234). A handler
  of the same process that has claimed the event in between is no longer renewed,
  though "active owners renew it until completion" (line 75): its lease lapses
  while it delivers, and another worker delivers too. `DeliversOnlyWhatItHolds`
  makes this exception (`disowned`) and no other.
- Two bookings of one slot can both succeed; no property speaks of double booking,
  because the code does not exclude it. Free/busy and insert are two requests, and
  no upstream compares, so overlapping invocations both book. The manifest says "two callers
  can't grab the same slot" (`src/connectors/adapters/google-calendar.ts:83`).
  Microsoft's adapter asks for the schedule of `userPrincipal`
  (`microsoft-calendar.ts:285`, 497-507) and inserts into
  `/me/calendars/{calendarId}` or `/me/events` (:327-329), so that a later
  invocation need not see the booking. Both read the error of one calendar in an
  answer 200 as free (`google-calendar.ts:697-700`, `microsoft-calendar.ts:529`).
- A retry with the same key whose first call was executed and whose answer was
  lost finds its own event busy and is refused; it never reaches the request id
  that "will return the original event" (`google-calendar.ts:34-36`). With
  Graph, two overlapping invocations with one key book twice, though "that layer
  prevents duplicate inserts on retry" (`microsoft-calendar.ts:25-27`): lookup
  and record are awaits apart (`src/guard.ts:79`, 118).
- Gmail and Outlook read the newest 50 messages and Pipedrive the newest 300:
  what a larger burst pushes behind them is never emitted, against "a capped or
  failed poll resumes where it stopped" (`src/triggers/index.ts:13-14`).
- Typeform and Tally merge one page of 50 of each form
  (`src/triggers/definitions.ts:264-289`, 298-322): with 49 fresh responses of
  one form and a later one of another, all 50 are emitted, and the cursor moves
  past what the first form had beyond its page. A response that comes to a form
  already read, before one that the list finds in a later form, is passed over
  too. Intercom's one page of 50 is sorted by nothing the code asks for.
- The history variable `overrun` marks the behaviours of the last two points;
  the properties hold of all others. A record created between two pages of
  Pipedrive shifts the offsets, and one poll may emit a row twice.
- A burst of one timestamp that fills an ascending listing (100 of Attio, 300 of
  HubSpot) stops the trigger: once all of it was emitted the listing shows
  nothing else, and `since` stays. With more than 200 the keys are
  forgotten and records are emitted again. `MaxPerTick` excludes both.
- An event whose dispatch throws is stored; its redelivery is a duplicate and is
  not dispatched (`src/events.ts:89-95`), and no answer lists it as received.
  The receiver's dispatch hands the workflows to a handler that does nothing
  (line 131), so only the list of received events is affected.
- A grant that was revoked is active again after a repeated `createGrants`
  (`src/runtime.ts:197`, 212); `AuthorityIsCurrent` counts it as authority, as
  the code does.
- When `complete` throws after its record became durable, the purchase is spent
  and nobody holds its evidence (`src/billing-access-policy.ts:301`). A call that
  outlives its plan token may find the key free again and return the evidence a
  second time; it has expired by then, and no decision allows it.

## 6. What is not modelled

Adapters, catalogs, clients, normalization, signature and token checks: pure or
without state of their own; where a modelled part depends on one, its outcomes
are inputs. The adapters, with their manifests, are 88 % of the lines of the
implementation (728 files), which is why the share of lines the modules map is
small and cannot become large: their operations are one request and a mapping
of its answer, and the three shapes a mutation has (free/busy and insert with and
without a request id, a single request) are in `GuardedInvocation`.

In modelled parts: file names, JSON validation and temporary files of the
journal; key derivation and parsing in the router, and an `onError` hook that
throws; input validation of a managed-number order; Stripe payload parsing, the
version files of the file store (one atomic compare-and-set), the in-memory
store, and `gateAccess`; connections that share a secret, and several processes
resolving one connection; the listings of Webflow, Calendly and Cal.com and
accounts with more than 10 forms; the slots that bookings take; `startAuth` and `completeAuth` of the hub, whose
one-time state is consumed in one synchronous step; manifests with several
requirements; the chain of rotations of one invocation of the adapter provider.

## 7. Plan

*Done:* ClaimJournal with AtomicClaim and its proofs; WebhookRouter over it,
ManagedNumber, StripeBilling and CredentialRefresh, with proofs;
GuardedInvocation, HostedTrigger, BillingEvidence and EventRouting and their
composition in HubServices, with proofs.

*Left,* in order of importance:

1. The rotation chain of the adapter provider, as an extension of
   CredentialRefresh.
2. Convergence over several subscriptions of one customer, for which the created
   event of the next one must follow the last cancellation.
3. `InMemoryAtomicIdempotencyStore` as a second implementation of `AtomicClaim`,
   and `BillingEvidence` over `AtomicClaim` itself.
4. The listings of Webflow, Calendly and Cal.com in HostedTrigger, and rows that a
   definition drops after reading them.
5. The slots that bookings take, with the calendar a query is about and the one an
   insert goes to.
