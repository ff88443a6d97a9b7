---------------------------- MODULE HubServices ----------------------------
(***************************************************************************)
(* The hub (GuardedInvocation) and the services around it: hosted          *)
(* triggers, billing evidence, and the event receiver with the workflow    *)
(* and grant runtimes.  One process runs them side by side.  Each is       *)
(* modelled with a state of its own: the functions take their stores as    *)
(* arguments, and what two of them read, the connection that its owner may *)
(* withdraw, is withdrawn in each of them at any time.                     *)
(***************************************************************************)
EXTENDS GuardedInvocation

CONSTANTS
    Listings, MAX_EVENTS_PER_POLL, SEEN_KEYS, MaxRecords, MaxPerTick, MaxFailures,
    Tokens, Tolerance, Retention,
    Batches, MaxCalls,
    MaxTime,    \* bound: the clocks
    MaxErrors   \* bound: errors and outages of each service's stores

VARIABLES
    listing, clock, born, cursor, poll, told, baseline, overrun, failures,
    now, call, store, returned, allowed, errors,
    calls, kept, workflow, grant, connected, outages

Trigger == INSTANCE HostedTrigger
Evidence == INSTANCE BillingEvidence
Routing == INSTANCE EventRouting WITH faults <- outages, MaxFaults <- MaxErrors

HubAssumption ==
    /\ Trigger!TriggerAssumption
    /\ Evidence!EvidenceAssumption
    /\ Routing!RoutingAssumption

triggerVars == <<listing, clock, born, cursor, poll, told, baseline, overrun, failures>>
evidenceVars == <<now, call, store, returned, allowed, errors>>
routingVars == <<calls, kept, workflow, grant, connected, outages>>
hubVars == <<vars, triggerVars, evidenceVars, routingVars>>

HubInit == Init /\ Trigger!Init /\ Evidence!Init /\ Routing!Init

Invoked == Next /\ UNCHANGED <<triggerVars, evidenceVars, routingVars>>
Polled == Trigger!Next /\ UNCHANGED <<vars, evidenceVars, routingVars>>
Presented == Evidence!Next /\ UNCHANGED <<vars, triggerVars, routingVars>>
RoutedEvents == Routing!Next /\ UNCHANGED <<vars, triggerVars, evidenceVars>>

HubNext == Invoked \/ Polled \/ Presented \/ RoutedEvents

HubSpec == HubInit /\ [][HubNext]_hubVars /\ Trigger!Fairness

---------------------------------------------------------------------------
(* Properties                                                              *)

\* Every service keeps the types of its module.
HubTypeOK == TypeOK /\ Trigger!TypeOK /\ Evidence!TypeOK /\ Routing!TypeOK

\* HostedTrigger: no two polls emit the same record, though since stands still
\* within a burst and the cursor forgets all but its last keys.
ToldOnce == Trigger!ToldOnce

\* HostedTrigger: the cursor passes over no record it did not emit, however
\* polls are capped and fail, unless the listing was overrun, and emits nothing
\* older than its baseline.
NothingSkipped == Trigger!NothingSkipped

\* HostedTrigger: the polls catch up with whatever is created, unless the
\* listing was overrun.
CatchesUp == Trigger!CatchesUp

\* BillingEvidence: a purchase buys access once, however often its tokens are
\* presented and however the calls stall, fail and die.
GrantedOnce == Evidence!GrantedOnce

\* EventRouting: a delivery that was answered has left its events in the store.
AnsweredBatchIsKept == Routing!AnsweredBatchIsKept

\* EventRouting: events are handled, and capabilities issued, on authority that
\* held during the call.
AuthorityIsCurrent == Routing!AuthorityIsCurrent
=============================================================================
