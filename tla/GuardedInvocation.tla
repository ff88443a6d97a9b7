------------------------- MODULE GuardedInvocation -------------------------
(***************************************************************************)
(* IntegrationHub.invokeWithCapability (src/hub.ts) on a calendar: the     *)
(* capability and the connection are checked, DefaultIntegrationAction-    *)
(* Guard (src/guard.ts) looks the idempotency key up, ApprovalBackedPolicy-*)
(* Engine (src/approval.ts) decides, and the adapter acts: book_slot of    *)
(* Google or Graph reads free/busy and inserts, a declarative REST adapter *)
(* only sends.  Every await ends a step, so invocations overtake each      *)
(* other, approvals are resolved and expire and authority is withdrawn in  *)
(* between.                                                                *)
(*                                                                         *)
(* Invocations are numbered in the order they start.  A request is its     *)
(* key, its input and its dryRun flag; the checks of scopes, actions and   *)
(* connectors decide on constants and pass.                                *)
(***************************************************************************)
EXTENDS Naturals, Sequences

CONSTANTS
    Requests,       \* records [key, input, dry]
    Deployments,    \* records [policy, adapter]: the effect of the base policy
                    \*   on the action, and who executes it
    MaxInvocations, \* bound: invocations
    MaxApprovals,   \* bound: approval records
    MaxFaults       \* bound: lost answers, failing stores and crashes

VARIABLES
    deployment,
    inv,        \* inv[w]: invocation w, see Running
    valid,      \* what still holds of "capability" (unexpired) and "connection" (active)
    approvals,  \* the approval records, by id
    overdue,    \* the ids past their expiresAt
    records,    \* records[k]: the request whose result is kept for key k
    inbound,    \* mutations on their way upstream: [by, key]
    done,       \* done[k]: how often key k's mutation was executed
    answered,   \* history: requests that were answered ok
    overlapped, \* history: keys of which two mutations ran at once, or one of
                \*   which ended without an answer or a record
    faults

authority == <<deployment, valid>>
vars == <<authority, inv, approvals, overdue, records, inbound, done, answered, overlapped, faults>>

Invocations == 1..MaxInvocations
Keys == {r.key : r \in Requests}
Inputs == {r.input : r \in Requests}
NoRequest == [key |-> "none"]
Statuses == {"pending", "approved", "denied", "expired"}

ASSUME InvocationAssumption ==
    /\ NoRequest \notin Requests /\ \A r \in Requests : r.dry \in BOOLEAN
    /\ Deployments \subseteq [policy : {"allow", "require_approval", "deny"},
                              adapter : {"google", "graph", "rest"}]
    /\ MaxInvocations \in Nat /\ MaxApprovals \in Nat /\ MaxFaults \in Nat

\* An invocation: where it stands, what it asks for, and the approval id in
\* its metadata (0 for none); and as history which authority has held at some
\* time since it started, and whether its request had been answered when it
\* started.
Running(s, r, id, lawful, late) ==
    [step |-> s, request |-> r, given |-> id, lawful |-> lawful, late |-> late]
Idle(s) == Running(s, NoRequest, 0, {}, FALSE)

Steps == {"new", "connection", "lookup", "dry", "limit", "approval", "expire", "policy",
          "ask", "preflight", "send", "put", "audit", "over"}

TypeOK ==
    /\ deployment \in Deployments
    /\ inv \in [Invocations ->
                  [step : Steps, request : Requests \cup {NoRequest}, given : 0..MaxApprovals,
                   lawful : SUBSET {"capability", "connection", "approval"},
                   late : BOOLEAN]]
    /\ valid \subseteq {"capability", "connection"}
    /\ approvals \in Seq([input : Inputs, status : Statuses])
    /\ overdue \subseteq DOMAIN approvals
    /\ records \in [Keys -> Requests \cup {NoRequest}]
    /\ inbound \subseteq [by : Invocations, key : Keys]
    /\ done \in [Keys -> Nat]
    /\ answered \subseteq Requests /\ overlapped \subseteq Keys
    /\ faults \in 0..MaxFaults

Fault == faults < MaxFaults /\ faults' = faults + 1
Quiet == UNCHANGED faults

At(w, s) == inv[w].step = s
Request(w) == inv[w].request
Key(w) == Request(w).key
Given(w) == inv[w].given
Active(w) == inv[w].step \notin {"new", "over"}
Go(w, s) ==
    inv' = [inv EXCEPT ![w] = IF s = "over" THEN Idle("over") ELSE [@ EXCEPT !.step = s]]

\* The mutation of key k ends, or has to be expected, outside of the records.
Overlap(ks) == overlapped' = overlapped \cup ks

\* Another mutation with the key of r is under way.
Concurrent(w, r) ==
    \E v \in Invocations \ {w} :
        Active(v) /\ Key(v) = r.key /\ ~r.dry /\ ~Request(v).dry

---------------------------------------------------------------------------
(* The approvals                                                           *)

\* An approval in force for this input; approvalMatches also compares what is
\* the same in all invocations.
InForce(id, input) ==
    /\ id \in DOMAIN approvals \ overdue
    /\ approvals[id].status = "approved" /\ approvals[id].input = input

\* What an approval of this input adds to the authority of an invocation.
Approved(input) ==
    {a \in {"approval"} : \E id \in DOMAIN approvals : InForce(id, input)}

SetStatus(id, status) == approvals' = [approvals EXCEPT ![id].status = status]

\* resolveIntegrationApproval: whatever the status is by the time it writes.
Resolve(id, verdict) ==
    /\ id \in DOMAIN approvals /\ approvals[id].status # verdict
    /\ SetStatus(id, verdict)
    /\ inv' = [w \in Invocations |->
                 IF verdict = "approved" /\ id \notin overdue /\ ~At(w, "new") /\ ~At(w, "over")
                    /\ Request(w).input = approvals[id].input
                 THEN [inv[w] EXCEPT !.lawful = @ \cup {"approval"}] ELSE inv[w]]
    /\ Quiet /\ UNCHANGED <<authority, overdue, records, inbound, done, answered, overlapped>>

PassDeadline(id) ==
    /\ id \in DOMAIN approvals \ overdue
    /\ overdue' = overdue \cup {id}
    /\ Quiet
    /\ UNCHANGED <<authority, inv, approvals, records, inbound, done, answered, overlapped>>

---------------------------------------------------------------------------
(* The hub and the guard                                                   *)

\* The stores and the upstream stay, but for what is said besides.
Stores == UNCHANGED <<authority, approvals, overdue, records, inbound, done, answered>>

\* Only the invocation moves on.
Local == Stores /\ UNCHANGED overlapped

\* verifyCapability is the first thing an invocation does.
Start(w, r, id) ==
    /\ At(w, "new") /\ (w > 1 => ~At(w - 1, "new"))
    /\ id \in {0} \cup DOMAIN approvals
    /\ inv' = [inv EXCEPT ![w] =
                 IF "capability" \notin valid THEN Idle("over")
                 ELSE Running("connection", r, id, valid \cup Approved(r.input), r \in answered)]
    /\ Overlap(IF Concurrent(w, r) THEN {r.key} ELSE {})
    /\ Quiet /\ Stores

\* requireConnection, assertConnectionActive
ReadConnection(w) ==
    /\ At(w, "connection")
    /\ Go(w, IF "connection" \in valid THEN "lookup" ELSE "over")
    /\ Quiet /\ Local

\* Fault: only a record of the same request counts.
LookUpByRequest(w) ==
    /\ At(w, "lookup")
    /\ Go(w, IF records[Key(w)] = Request(w) THEN "over"
             ELSE IF Request(w).dry THEN "dry" ELSE "limit")
    /\ Quiet /\ Local

\* The key has a record: replayed for the same request, else a conflict.  A
\* replay repeats an answer the request has had.
LookUp(w) ==
    /\ At(w, "lookup")
    /\ Go(w, IF records[Key(w)] # NoRequest THEN "over"
             ELSE IF Request(w).dry THEN "dry" ELSE "limit")
    /\ Quiet /\ Local

\* A dry run is recorded under the key and answered ok.
DryRun(w) ==
    /\ At(w, "dry")
    /\ Go(w, "over")
    /\ records' = [records EXCEPT ![Key(w)] = Request(w)]
    /\ answered' = answered \cup {Request(w)}
    /\ Quiet /\ UNCHANGED <<authority, approvals, overdue, inbound, done, overlapped>>

RateLimit(w) ==
    /\ At(w, "limit")
    /\ Go(w, "approval") \/ Go(w, "over")
    /\ Quiet /\ Local

---------------------------------------------------------------------------
(* The policy                                                              *)

\* Fault: the deadline is not looked at.
FindApprovedTimeless(w) ==
    /\ At(w, "approval")
    /\ Go(w, IF /\ Given(w) # 0 /\ approvals[Given(w)].status = "approved"
                /\ approvals[Given(w)].input = Request(w).input
             THEN "preflight" ELSE "policy")
    /\ Quiet /\ Local

\* findApprovedRecord: the approval named in the request allows it, is written
\* back as expired, or is of no use.
FindApproved(w) ==
    /\ At(w, "approval")
    /\ Go(w, IF Given(w) # 0 /\ InForce(Given(w), Request(w).input) THEN "preflight"
             ELSE IF Given(w) \in overdue /\ approvals[Given(w)].status = "approved"
             THEN "expire" ELSE "policy")
    /\ Quiet /\ Local

ExpireApproval(w) ==
    /\ At(w, "expire")
    /\ SetStatus(Given(w), "expired")
    /\ Go(w, "policy")
    /\ Quiet /\ UNCHANGED <<authority, overdue, records, inbound, done, answered, overlapped>>

\* The base policy; a denial throws.
Decide(w) ==
    /\ At(w, "policy")
    /\ \/ deployment.policy = "allow" /\ Go(w, "preflight")
       \/ deployment.policy = "deny" /\ Go(w, "over")
       \/ deployment.policy = "require_approval" /\ Go(w, "ask")
    /\ Quiet /\ Local

\* A new pending record, and the answer approvalRequired.
AskApproval(w) ==
    /\ At(w, "ask") /\ Len(approvals) < MaxApprovals
    /\ approvals' = Append(approvals, [input |-> Request(w).input, status |-> "pending"])
    /\ Go(w, "over")
    /\ Quiet /\ UNCHANGED <<authority, overdue, records, inbound, done, answered, overlapped>>

---------------------------------------------------------------------------
(* executeMutation                                                         *)

Send(w) ==
    /\ Go(w, "send")
    /\ inbound' = inbound \cup {[by |-> w, key |-> Key(w)]}

\* The calendars ask for free/busy (getSchedule) and insert into a slot they
\* are told is free; a busy slot or a failing query throws.  The answer shows
\* neither an insert that is still to come nor one into another calendar than
\* the one that was asked for, and an error of one calendar reads as free: the
\* slot may be free to the adapter whatever was done.  REST sends at once.
Preflight(w) ==
    /\ At(w, "preflight")
    /\ \/ Send(w)
       \/ Go(w, "over") /\ UNCHANGED inbound
    /\ Quiet /\ UNCHANGED <<authority, approvals, overdue, records, done, answered, overlapped>>

\* Google answers 409 to a requestId it knows, and the requestId is the key.
Duplicate(k) == deployment.adapter = "google" /\ done[k] > 0

\* The mutation arrives, also when its caller gave up; no upstream looks at
\* what the slot holds.
Execute(c) ==
    /\ inbound' = inbound \ {c}
    /\ done' = [done EXCEPT ![c.key] = IF Duplicate(c.key) THEN @ ELSE @ + 1]
    /\ IF At(c.by, "send") THEN Go(c.by, "put") ELSE UNCHANGED inv
    /\ Quiet /\ UNCHANGED <<authority, approvals, overdue, records, answered, overlapped>>

\* It is rejected, or never arrives.
Reject(c) ==
    /\ inbound' = inbound \ {c}
    /\ IF At(c.by, "send") THEN Go(c.by, "over") ELSE UNCHANGED inv
    /\ Quiet /\ UNCHANGED <<authority, approvals, overdue, records, done, answered, overlapped>>

\* AbortSignal.timeout: the caller gives up, its call may still execute.
GiveUp(w) ==
    /\ At(w, "send")
    /\ Go(w, "over")
    /\ Overlap({Key(w)})
    /\ Fault /\ Stores

---------------------------------------------------------------------------
(* writeIdempotency and the audit                                          *)

WriteRecord(w) ==
    /\ At(w, "put")
    /\ records' = [records EXCEPT ![Key(w)] = Request(w)]
    /\ Go(w, "audit")
    /\ Quiet /\ UNCHANGED <<authority, approvals, overdue, inbound, done, answered, overlapped>>

Audit(w) ==
    /\ At(w, "audit")
    /\ Go(w, "over")
    /\ answered' = answered \cup {Request(w)}
    /\ Quiet /\ UNCHANGED <<authority, approvals, overdue, records, inbound, done, overlapped>>

\* A store, the limiter or the audit sink throws, or the process dies: the
\* caller gets no answer; what was done stays.
Fails(w) ==
    /\ inv[w].step \notin {"new", "send", "over"}
    /\ Go(w, "over")
    /\ Overlap(IF At(w, "put") THEN {Key(w)} ELSE {})
    /\ Fault /\ Stores

\* The capability expires, or the connection is revoked.
Withdraw(a) ==
    /\ valid' = valid \ {a}
    /\ Quiet
    /\ UNCHANGED <<deployment, inv, approvals, overdue, records, inbound, done, answered>>
    /\ UNCHANGED overlapped

Init ==
    /\ deployment \in Deployments
    /\ inv = [w \in Invocations |-> Idle("new")]
    /\ valid = {"capability", "connection"}
    /\ approvals = <<>>
    /\ overdue = {}
    /\ records = [k \in Keys |-> NoRequest]
    /\ inbound = {}
    /\ done = [k \in Keys |-> 0]
    /\ answered = {} /\ overlapped = {}
    /\ faults = 0

Invoke(w) ==
    \/ \E r \in Requests, id \in 0..MaxApprovals : Start(w, r, id)
    \/ ReadConnection(w) \/ LookUp(w) \/ DryRun(w) \/ RateLimit(w)
    \/ FindApproved(w) \/ ExpireApproval(w) \/ Decide(w) \/ AskApproval(w)
    \/ Preflight(w) \/ WriteRecord(w) \/ Audit(w)

Next ==
    \/ \E w \in Invocations : Invoke(w) \/ GiveUp(w) \/ Fails(w)
    \/ \E c \in inbound : Execute(c) \/ Reject(c)
    \/ \E id \in 1..MaxApprovals, verdict \in {"approved", "denied"} : Resolve(id, verdict)
    \/ \E id \in 1..MaxApprovals : PassDeadline(id)
    \/ \E a \in valid : Withdraw(a)

Spec == Init /\ [][Next]_vars

---------------------------------------------------------------------------
(* Properties                                                              *)

Sends(w) == At(w, "preflight") /\ inv'[w].step = "send"

\* Authority that was withdrawn has no effect: a mutation is sent only by an
\* invocation that started with a live capability on an active connection
\* and, unless the policy allows the action, during which an approval of this
\* very input was in force; the checks are several awaits before the effect.
WithdrawnAuthorityHasNoEffect ==
    [][\A w \in Invocations : Sends(w) =>
        /\ {"capability", "connection"} \subseteq inv[w].lawful
        /\ deployment.policy # "allow" => "approval" \in inv[w].lawful]_vars

\* An answer settles its request: an invocation that starts after the same
\* request was answered ok sends nothing, also when an overlapping request
\* with the same key has overwritten the record.
AnsweredIsNotRepeated ==
    [][\A w \in Invocations : Sends(w) => ~inv[w].late]_vars

\* A mutation is executed once per key: twice only where two invocations with
\* the key overlapped, or one ended between the effect and its record, and then
\* not by an upstream that knows the key.
DoneOnce ==
    \A k \in Keys : done[k] > 1 => deployment.adapter # "google" /\ k \in overlapped
=============================================================================
