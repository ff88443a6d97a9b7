---------------------------- MODULE EventRouting ----------------------------
(***************************************************************************)
(* receiveIntegrationWebhook (src/events.ts), IntegrationWorkflowRuntime   *)
(* (src/workflow.ts) and the grants of IntegrationRuntime (src/runtime.ts):*)
(* provider events are kept once and routed to the installed workflow      *)
(* while its grant is active; sandbox bundles are built from the grant;    *)
(* installing the workflow creates the grant.  Every await ends a step;    *)
(* calls of all kinds overlap, stores throw, the owner revokes.            *)
(*                                                                         *)
(* There is one manifest with one requirement, thus one grant id, and one  *)
(* workflow.  Manifests, owners and connectors match; signatures are good. *)
(***************************************************************************)
EXTENDS Naturals, Sequences

CONSTANTS
    Batches,    \* what payloads carry: sequences of provider event ids
    MaxCalls,   \* bound: calls of all kinds
    MaxFaults   \* bound: stores that throw

VARIABLES
    calls,      \* calls[a]: [kind, step, batch, at, lawful]
    kept,       \* the provider event ids in the event store
    workflow,   \* the installed workflow: "none" or "active"
    grant,      \* the status of the grant, or "none"
    connected,  \* the connection is active
    faults

vars == <<calls, kept, workflow, grant, connected, faults>>

Calls == 1..MaxCalls
Events == UNION {{b[i] : i \in DOMAIN b} : b \in Batches}
Kinds == {"none", "delivery", "dispatch", "bundle", "install"}
Steps == {"new", "check", "put", "list", "grant", "handle", "connection", "issue",
          "resolve", "create", "subscribe", "store", "done", "failed"}

\* A call; lawful is history: the authority that has held since it began.
Call(kind, step, batch, lawful) ==
    [kind |-> kind, step |-> step, batch |-> batch, at |-> 1, lawful |-> lawful]

\* Payloads are sequences.
RoutingAssumption ==
    /\ \A b \in Batches : Len(b) \in Nat /\ DOMAIN b = 1..Len(b)
    /\ MaxCalls \in Nat /\ MaxFaults \in Nat

TypeOK ==
    /\ calls \in [Calls ->
          [kind : Kinds, step : Steps, batch : Batches \cup {<<>>}, at : Nat \ {0},
           lawful : SUBSET {"grant", "connection"}]]
    /\ kept \subseteq Events
    /\ workflow \in {"none", "active"} /\ grant \in {"none", "active", "revoked"}
    /\ connected \in BOOLEAN /\ faults \in 0..MaxFaults

At(a, s) == calls[a].step = s
Is(a, kind) == calls[a].kind = kind
Go(a, s) == calls' = [calls EXCEPT ![a].step = s]
Event(a) == calls[a].batch[calls[a].at]

\* A delivery goes on to its next event.
NextEvent(a) == calls' = [calls EXCEPT ![a] = [@ EXCEPT !.step = "check", !.at = calls[a].at + 1]]

Reads == UNCHANGED <<kept, workflow, grant, connected, faults>>

Start(a, kind, step, batch) ==
    /\ At(a, "new") /\ (a > 1 => ~At(a - 1, "new"))
    /\ calls' = [calls EXCEPT ![a] =
          Call(kind, step, batch, {x \in {"grant"} : grant = "active"}
                                   \cup {x \in {"connection"} : connected})]
    /\ Reads

---------------------------------------------------------------------------
(* receiveIntegrationWebhook                                               *)

\* Fault: the first duplicate ends the loop.
CheckStops(a) ==
    /\ At(a, "check")
    /\ IF calls[a].at > Len(calls[a].batch) \/ Event(a) \in kept THEN Go(a, "done")
       ELSE Go(a, "put")
    /\ Reads

\* After the last event the provider is answered; an event that is kept is a
\* duplicate and is passed over.
Check(a) ==
    /\ At(a, "check")
    /\ IF calls[a].at > Len(calls[a].batch) THEN Go(a, "done")
       ELSE IF Event(a) \in kept THEN NextEvent(a)
       ELSE Go(a, "put")
    /\ Reads

PutEvent(a) ==
    /\ At(a, "put") /\ Go(a, "list")
    /\ kept' = kept \cup {Event(a)}
    /\ UNCHANGED <<workflow, grant, connected, faults>>

---------------------------------------------------------------------------
(* dispatchEvent                                                           *)

\* The receiver's own handler does nothing, it goes on to the next event.
Routed(a) == IF Is(a, "delivery") THEN NextEvent(a) ELSE Go(a, "done")

\* The candidates: workflows installed and active.
ListWorkflows(a) ==
    /\ At(a, "list")
    /\ IF workflow = "active" THEN Go(a, "grant") ELSE Routed(a)
    /\ Reads

\* Fault: whatever the grant is, the workflow is active.
ReadGrantTrusted(a) ==
    /\ At(a, "grant")
    /\ Go(a, IF Is(a, "bundle") THEN "connection" ELSE "handle")
    /\ Reads

\* The current grant decides; a bundle without an active grant throws.
ReadGrant(a) ==
    /\ At(a, "grant")
    /\ IF Is(a, "bundle") THEN Go(a, IF grant = "active" THEN "connection" ELSE "failed")
       ELSE IF grant = "active" THEN Go(a, "handle") ELSE Routed(a)
    /\ Reads

Handle(a) == At(a, "handle") /\ Routed(a) /\ Reads

---------------------------------------------------------------------------
(* buildSandboxBundle, install, createGrants                               *)

\* getConnection, and again in issueCapability.
ReadConnection(a) ==
    /\ At(a, "connection")
    /\ Go(a, IF connected THEN "issue" ELSE "failed")
    /\ Reads

Issue(a) ==
    /\ At(a, "issue")
    /\ Go(a, IF connected THEN "done" ELSE "failed")
    /\ Reads

\* resolveManifest needs an active connection.
Resolve(a) ==
    /\ At(a, "resolve")
    /\ Go(a, IF connected THEN "create" ELSE "failed")
    /\ Reads

\* The grant has a derived id: a grant that was revoked is active again.
CreateGrant(a) ==
    /\ At(a, "create")
    /\ grant' = "active"
    /\ calls' = [b \in Calls |->
          LET moved == IF b = a THEN [calls[b] EXCEPT !.step = "subscribe"] ELSE calls[b]
          IN IF At(b, "new") THEN moved
             ELSE [moved EXCEPT !.lawful = @ \cup {"grant"}]]
    /\ UNCHANGED <<kept, workflow, connected, faults>>

Subscribe(a) ==
    /\ At(a, "subscribe")
    /\ Go(a, IF connected THEN "store" ELSE "failed")
    /\ Reads

StoreWorkflow(a) ==
    /\ At(a, "store") /\ Go(a, "done")
    /\ workflow' = "active"
    /\ UNCHANGED <<kept, grant, connected, faults>>

---------------------------------------------------------------------------
(* The environment                                                         *)

RevokeGrant ==
    /\ grant = "active" /\ grant' = "revoked"
    /\ UNCHANGED <<calls, kept, workflow, connected, faults>>

Disconnect ==
    /\ connected /\ connected' = FALSE
    /\ UNCHANGED <<calls, kept, workflow, grant, faults>>

\* A store, the subscription or a handler throws.
Throws(a) ==
    /\ calls[a].step \notin {"new", "done", "failed"} /\ faults < MaxFaults
    /\ faults' = faults + 1
    /\ Go(a, "failed")
    /\ UNCHANGED <<kept, workflow, grant, connected>>

Init ==
    /\ calls = [a \in Calls |-> Call("none", "new", <<>>, {})]
    /\ kept = {}
    /\ workflow = "none" /\ grant = "none" /\ connected = TRUE
    /\ faults = 0

Begin(a) ==
    \/ \E b \in Batches : Start(a, "delivery", "check", b)
    \/ Start(a, "dispatch", "list", <<>>)
    \/ Start(a, "bundle", "grant", <<>>)
    \/ Start(a, "install", "resolve", <<>>)

Next ==
    \/ \E a \in Calls :
          \/ Begin(a) \/ Check(a) \/ PutEvent(a) \/ ListWorkflows(a) \/ ReadGrant(a) \/ Handle(a)
          \/ ReadConnection(a) \/ Issue(a) \/ Resolve(a) \/ CreateGrant(a) \/ Subscribe(a)
          \/ StoreWorkflow(a) \/ Throws(a)
    \/ RevokeGrant \/ Disconnect

Spec == Init /\ [][Next]_vars

---------------------------------------------------------------------------
(* Properties                                                              *)

\* A delivery that is answered 2xx left nothing behind: all its events are
\* kept, though others keep some of them meanwhile and earlier deliveries of
\* them failed halfway.
AnsweredBatchIsKept ==
    \A a \in Calls : Is(a, "delivery") /\ At(a, "done") =>
        \A i \in DOMAIN calls[a].batch : calls[a].batch[i] \in kept

\* "an active subscription is not authority": a workflow handles an event, and
\* a sandbox gets a capability, only if the grant was active, and for the
\* capability the connection, too, at some time since the call began.
AuthorityIsCurrent ==
    \A a \in Calls :
        /\ At(a, "handle") => "grant" \in calls[a].lawful
        /\ Is(a, "bundle") /\ At(a, "done") => calls[a].lawful = {"grant", "connection"}
=============================================================================
