--------------------------- MODULE ManagedNumber ---------------------------
(***************************************************************************)
(* advanceManagedNumber (src/managed-messaging/provision.ts): one tick of  *)
(* the host's queue moves an order one phase on, from buying an identity   *)
(* and a number to binding the connection.  Ticks of several workers run   *)
(* at once; every await ends a step.  A purchase is journaled in the order *)
(* before the provider is called, and the provider may lose the answer or  *)
(* execute the call long after the client gave up.                         *)
(*                                                                         *)
(* Abstractions.  The version of the order only tells whether it changed:  *)
(* current[w] says which of the copies worker w holds, the tick's `order`  *)
(* (snap) and the row it is about to save (draft), are of the stored       *)
(* version.  attempted and attemptedAt are one field: "none" (not          *)
(* attempted), "recent" (inside IN_FLIGHT_MS), "old", or "settled"         *)
(* (attempted, no attemptedAt).  nextAttemptAt is `waiting`, until the     *)
(* clock reaches it.  The receipts identityId and number are named, not    *)
(* numbered: `made` counts what the provider really did.                   *)
(***************************************************************************)
EXTENDS Naturals, FiniteSets

CONSTANTS
    Workers,    \* ticks that may run at the same time
    Transport,  \* order.transport
    MaxFaults,  \* bound: crashes, stalls, lost answers, failed reads, refused mints,
                \*   lost lines
    MaxDenials  \* bound: denied authorizations and refused purchases

ASSUME NumberAssumption ==
    /\ Transport \in {"sms", "imessage"}
    /\ MaxFaults \in Nat
    /\ MaxDenials \in Nat

VARIABLES
    order,      \* the stored order
    step,       \* step[w]: where the tick of w stands
    snap,       \* snap[w]: its variable `order`
    draft,      \* draft[w]: the row its next saveIfVersion writes
    current,    \* current[w]: which of the two have the stored version
    marks,      \* marks[w]: its flags mutationRefused, -Unsent and -Settled,
                \*   and "threw" when authorize threw
    tries,      \* tries[w]: the attempts of recordReceipt
    inbound,    \* calls on their way to the provider, the abandoned ones too
    made,       \* made[k]: how often the provider executed the call of phase k
    shown,      \* what getIdentity shows: "identity", "number"
    ready,      \* the SMS line is ready and active
    vault,      \* the credential is stored
    faults, denials

ticks == <<step, snap, draft, current, marks, tries>>
provider == <<inbound, made, shown, ready, vault>>
budget == <<faults, denials>>
vars == <<order, ticks, provider, budget>>

\* The phases whose call must not be repeated.
Mutations == {"identity", "number", "credential"}
Phases == Mutations \cup {"connection", "complete"}
Attempts == {"none", "recent", "old", "settled"}
Statuses == {"pending", "provider_pending", "needs_review", "ready_for_setup", "cancelled"}
Receipts == {"identity", "number"}

Order(phase, attempt, status, waiting, receipts) ==
    [phase |-> phase, attempt |-> attempt, status |-> status,
     waiting |-> waiting, receipts |-> receipts]
NewOrder == Order("identity", "none", "pending", FALSE, {})
Orders == [phase : Phases, attempt : Attempts, status : Statuses,
           waiting : BOOLEAN, receipts : SUBSET Receipts]

Steps == {"idle", "look", "vault", "claim", "authorize", "deny", "recheck",
          "unclaim", "unclaiming", "calling", "receipt", "keep", "verify",
          "bind", "save", "record", "recording"}

TypeOK ==
    /\ order \in Orders
    /\ step \in [Workers -> Steps]
    /\ snap \in [Workers -> Orders]
    /\ draft \in [Workers -> Orders]
    /\ current \in [Workers -> SUBSET {"snap", "draft"}]
    /\ marks \in [Workers -> SUBSET {"refused", "unsent", "settled", "threw"}]
    /\ tries \in [Workers -> 0..2]
    /\ inbound \subseteq Workers \X Mutations
    /\ made \in [Mutations -> Nat]
    /\ shown \subseteq Receipts
    /\ ready \in BOOLEAN
    /\ vault \in BOOLEAN
    /\ faults \in 0..MaxFaults
    /\ denials \in 0..MaxDenials

Fault == faults < MaxFaults /\ faults' = faults + 1 /\ UNCHANGED denials
Denial == denials < MaxDenials /\ denials' = denials + 1 /\ UNCHANGED faults
Quiet == UNCHANGED budget

---------------------------------------------------------------------------
(* The order store                                                         *)

\* The tick of w moves to step s and is about to write row d.
Go(w, s, d) ==
    /\ step' = [step EXCEPT ![w] = s]
    /\ draft' = [draft EXCEPT ![w] = d]

\* It goes on with its order; what it drafts from it has its version.
FromSnap(w) ==
    /\ current' = [current EXCEPT ![w] = {c \in {"snap", "draft"} : "snap" \in current[w]}]
    /\ UNCHANGED <<order, snap, tries>>

Plan(w, s, d) == Go(w, s, d) /\ FromSnap(w)
To(w, s) == Plan(w, s, draft[w])

\* The tick returns or throws: its variables are gone.
Forget(w) ==
    /\ Go(w, "idle", NewOrder)
    /\ snap' = [snap EXCEPT ![w] = NewOrder]
    /\ marks' = [marks EXCEPT ![w] = {}]
    /\ tries' = [tries EXCEPT ![w] = 0]

Return(w) ==
    /\ Forget(w)
    /\ current' = [current EXCEPT ![w] = {}]
    /\ UNCHANGED order

\* saveIfVersion wrote the draft: every other copy is outdated.
Store(w, mine) ==
    /\ "draft" \in current[w]
    /\ order' = draft[w]
    /\ current' = [v \in Workers |-> IF v = w THEN mine ELSE {}]

Stored(w) == Store(w, {"snap", "draft"})

Outdated(w) == "draft" \notin current[w]

---------------------------------------------------------------------------
(* The tick: its reads                                                     *)

\* orders.get, and the early returns for orders that are not due.
Start(w) ==
    /\ step[w] = "idle"
    /\ order.phase # "complete" /\ order.status # "cancelled" /\ ~order.waiting
    /\ Go(w, "look", order)
    /\ snap' = [snap EXCEPT ![w] = order]
    /\ current' = [current EXCEPT ![w] = {"snap", "draft"}]
    /\ marks' = [marks EXCEPT ![w] = {}]
    /\ tries' = [tries EXCEPT ![w] = 0]
    /\ Quiet /\ UNCHANGED <<order, provider>>

At(w, s, phase) == step[w] = s /\ snap[w].phase = phase

\* save({status: 'needs_review', ...}) of this tick's order.
Review(o) == Order(o.phase, o.attempt, "needs_review", TRUE, o.receipts)
Pending(o) == Order(o.phase, o.attempt, "provider_pending", TRUE, o.receipts)

\* The money gate: no receipt of the phase's call is to be seen.
ReceiptMissing(w) ==
    \/ At(w, "look", "identity") /\ "identity" \notin shown
    \/ /\ At(w, "look", "number") /\ shown = {"identity"}
       /\ "number" \notin snap[w].receipts
       /\ ~(snap[w].attempt # "none" /\ Transport = "imessage" /\ made["number"] > 0)
    \/ At(w, "vault", "credential") /\ ~vault

\* leaseAttempt: another worker's call may be in flight.
LeaseBusy(w) ==
    /\ ReceiptMissing(w) /\ snap[w].attempt = "recent"
    /\ Return(w)
    /\ Quiet /\ UNCHANGED provider

\* Fault: the error code lands in the status.
LeaseBurnedMisfiled(w) ==
    /\ ReceiptMissing(w) /\ snap[w].attempt \in {"old", "settled"}
    /\ Plan(w, "save", Order(snap[w].phase, snap[w].attempt, "outcome_unknown", TRUE, snap[w].receipts))
    /\ Quiet /\ UNCHANGED <<marks, provider>>

\* ... the attempt is burned and has nothing to show for it ...
LeaseBurned(w) ==
    /\ ReceiptMissing(w) /\ snap[w].attempt \in {"old", "settled"}
    /\ Plan(w, "save", Review(snap[w]))
    /\ Quiet /\ UNCHANGED <<marks, provider>>

\* ... or this tick journals its own.
LeaseClaim(w) ==
    /\ ReceiptMissing(w) /\ snap[w].attempt = "none"
    /\ Plan(w, "claim", Order(snap[w].phase, "recent", "pending", FALSE, snap[w].receipts))
    /\ Quiet /\ UNCHANGED <<marks, provider>>

\* Phase identity: a handle this order never tried to create.
IdentityForeign(w) ==
    /\ At(w, "look", "identity") /\ "identity" \in shown
    /\ snap[w].attempt = "none" /\ "identity" \notin snap[w].receipts
    /\ Plan(w, "save", Review(snap[w]))
    /\ Quiet /\ UNCHANGED <<marks, provider>>

HasIdentity(o) ==
    Order("number", "none", "pending", o.waiting, o.receipts \cup {"identity"})

IdentityFound(w) ==
    /\ At(w, "look", "identity") /\ "identity" \in shown
    /\ snap[w].attempt # "none" \/ "identity" \in snap[w].receipts
    /\ Plan(w, "save", HasIdentity(snap[w]))
    /\ Quiet /\ UNCHANGED <<marks, provider>>

\* Later phases: the identity is gone, or the recorded number is gone or, once
\* its phase is over, not usable.
SomethingMissing(w) ==
    /\ step[w] = "look" /\ snap[w].phase # "identity"
    /\ \/ "identity" \notin shown
       \/ "number" \notin shown /\ "number" \in snap[w].receipts
       \/ Transport = "sms" /\ ~ready /\ snap[w].phase # "number"
    /\ Plan(w, "save", Review(snap[w]))
    /\ Quiet /\ UNCHANGED <<marks, provider>>

\* Phase number: the iMessage claim was accepted, its line is not there yet.
LinePending(w) ==
    /\ At(w, "look", "number") /\ shown = {"identity"}
    /\ "number" \notin snap[w].receipts
    /\ snap[w].attempt # "none" /\ Transport = "imessage" /\ made["number"] > 0
    /\ Plan(w, "save", Pending(snap[w]))
    /\ Quiet /\ UNCHANGED <<marks, provider>>

\* The row that records the number; an SMS line must also be ready to go on.
HasNumber(o) ==
    IF Transport = "sms" /\ ~ready
    THEN Order("number", "none", "provider_pending", TRUE, o.receipts \cup {"number"})
    ELSE Order("credential", "none", "pending", FALSE, o.receipts \cup {"number"})

NumberFound(w) ==
    /\ At(w, "look", "number") /\ shown = Receipts
    /\ Plan(w, "save", HasNumber(snap[w]))
    /\ Quiet /\ UNCHANGED <<marks, provider>>

\* Phases credential and connection: identity and number are as recorded.
LineConfirmed(w) ==
    /\ step[w] = "look" /\ snap[w].phase \in {"credential", "connection"}
    /\ shown = Receipts /\ (ready \/ Transport = "imessage")
    /\ To(w, "vault")
    /\ Quiet /\ UNCHANGED <<marks, provider>>

VaultRead(w) ==
    /\ vault
    /\ \/ At(w, "vault", "credential") /\ To(w, "verify")
       \/ At(w, "vault", "connection") /\ To(w, "authorize")
    /\ Quiet /\ UNCHANGED <<marks, provider>>

---------------------------------------------------------------------------
(* The catch block                                                         *)

\* Fault: any refusal reopens the attempt, in the credential phase too.
AfterErrorReopens(o, ms) ==
    IF "refused" \in ms THEN "none"
    ELSE IF "settled" \in ms /\ o.attempt # "none" THEN "settled" ELSE o.attempt

\* Only a definite refusal reopens the attempt, and of a credential only a
\* call that was never sent; a call that has returned is not in flight.
AfterError(o, ms) ==
    IF "refused" \in ms /\ (o.phase # "credential" \/ "unsent" \in ms) THEN "none"
    ELSE IF "settled" \in ms /\ o.attempt # "none" THEN "settled" ELSE o.attempt

\* The tick of w fails with flags ms: save the error and back off.
Catch(w, ms, status) ==
    /\ Plan(w, "save", Order(snap[w].phase, AfterError(snap[w], ms), status, TRUE, snap[w].receipts))
    /\ marks' = [marks EXCEPT ![w] = ms]

\* A read of the provider or the vault, the verification or the binding fails.
ReadThrows(w) ==
    /\ step[w] \in {"look", "vault", "receipt", "verify", "bind"}
    /\ Fault
    /\ Catch(w, marks[w], "provider_pending")
    /\ UNCHANGED provider

---------------------------------------------------------------------------
(* claim, authorize and releaseClaim                                       *)

ClaimSaved(w) ==
    /\ step[w] = "claim"
    /\ Stored(w)
    /\ Go(w, "authorize", draft[w])
    /\ snap' = [snap EXCEPT ![w] = draft[w]]
    /\ Quiet /\ UNCHANGED <<marks, tries, provider>>

ClaimLost(w) ==
    /\ step[w] = "claim"
    /\ Outdated(w)
    /\ Return(w)
    /\ Quiet /\ UNCHANGED provider

\* After authorize returned false: claim() gives its journal entry back; the
\* connection phase has none.
NotGranted(w) ==
    \/ snap[w].phase # "connection" /\ To(w, "unclaim") /\ UNCHANGED marks
    \/ snap[w].phase = "connection" /\ Return(w)

\* orders.get finds another version, or the order cancelled.
AuthorizeStale(w) ==
    /\ step[w] \in {"authorize", "recheck"}
    /\ "snap" \notin current[w] \/ order.status = "cancelled"
    /\ NotGranted(w)
    /\ Quiet /\ UNCHANGED provider

AuthorizeDenied(w) ==
    /\ step[w] = "authorize"
    /\ "snap" \in current[w] /\ order.status # "cancelled"
    /\ Denial
    /\ Plan(w, "deny", Pending(snap[w]))
    /\ UNCHANGED <<marks, provider>>

AuthorizeGranted(w) ==
    /\ step[w] = "authorize"
    /\ "snap" \in current[w] /\ order.status # "cancelled"
    /\ To(w, "recheck")
    /\ Quiet /\ UNCHANGED <<marks, provider>>

\* A port throws: the claim is given back, then the error is caught.
AuthorizeThrows(w) ==
    /\ step[w] = "authorize"
    /\ Fault
    /\ \/ /\ snap[w].phase # "connection"
          /\ To(w, "unclaim")
          /\ marks' = [marks EXCEPT ![w] = marks[w] \cup {"threw"}]
       \/ /\ snap[w].phase = "connection"
          /\ Catch(w, marks[w], "provider_pending")
    /\ UNCHANGED provider

DenySaved(w) ==
    /\ step[w] = "deny"
    /\ \/ /\ snap[w].phase # "connection"
          /\ Stored(w)
          /\ Go(w, "unclaim", draft[w])
          /\ snap' = [snap EXCEPT ![w] = draft[w]]
          /\ UNCHANGED <<marks, tries>>
       \/ /\ snap[w].phase = "connection"
          /\ Store(w, {})
          /\ Forget(w)
    /\ Quiet /\ UNCHANGED provider

DenyLost(w) ==
    /\ step[w] = "deny"
    /\ Outdated(w)
    /\ NotGranted(w)
    /\ Quiet /\ UNCHANGED provider

\* The order is as it was: the call goes out, or the connection is bound.
AuthorizeRechecked(w) ==
    /\ step[w] = "recheck"
    /\ "snap" \in current[w] /\ order.status # "cancelled"
    /\ \/ /\ snap[w].phase # "connection"
          /\ To(w, "calling")
          /\ inbound' = inbound \cup {<<w, snap[w].phase>>}
       \/ /\ snap[w].phase = "connection"
          /\ To(w, "bind")
          /\ UNCHANGED inbound
    /\ Quiet /\ UNCHANGED <<marks, made, shown, ready, vault>>

\* claim() is over: return the stored order, or go on with the error.
ClaimOver(w) ==
    \/ "threw" \in marks[w] /\ Catch(w, marks[w] \ {"threw"}, "provider_pending")
    \/ "threw" \notin marks[w] /\ Return(w)

UnclaimNothing(w) ==
    /\ step[w] = "unclaim"
    /\ order.attempt = "none" \/ order.status = "cancelled"
    /\ ClaimOver(w)
    /\ Quiet /\ UNCHANGED provider

\* Fault: the claim is kept although no call follows.
UnclaimForgotten(w) ==
    /\ step[w] = "unclaim"
    /\ ClaimOver(w)
    /\ Quiet /\ UNCHANGED provider

\* releaseClaim reads the order ...
UnclaimRead(w) ==
    /\ step[w] = "unclaim"
    /\ order.attempt # "none" /\ order.status # "cancelled"
    /\ Go(w, "unclaiming", Order(order.phase, "none", order.status, order.waiting, order.receipts))
    /\ current' = [current EXCEPT ![w] = current[w] \cup {"draft"}]
    /\ Quiet /\ UNCHANGED <<order, snap, marks, tries, provider>>

\* ... and saves it with attempted: false, which becomes the tick's order.
UnclaimSaved(w) ==
    /\ step[w] = "unclaiming"
    /\ \/ /\ "threw" \notin marks[w]
          /\ Store(w, {})
          /\ Forget(w)
       \/ /\ "threw" \in marks[w]
          /\ Stored(w)
          /\ Go(w, "save", Pending(draft[w]))
          /\ snap' = [snap EXCEPT ![w] = draft[w]]
          /\ marks' = [marks EXCEPT ![w] = marks[w] \ {"threw"}]
          /\ UNCHANGED tries
    /\ Quiet /\ UNCHANGED provider

UnclaimLost(w) ==
    /\ step[w] = "unclaiming"
    /\ Outdated(w)
    /\ ClaimOver(w)
    /\ Quiet /\ UNCHANGED provider

---------------------------------------------------------------------------
(* Provider calls                                                          *)

Call(w) == <<w, snap[w].phase>>
Settled(w) == marks[w] \cup {"settled"}

\* The provider executes a call, whether or not its client still waits.
Execute(c) ==
    /\ c \in inbound
    /\ inbound' = inbound \ {c}
    /\ made' = [made EXCEPT ![c[2]] = @ + 1]
    /\ \/ c[2] = "identity" /\ shown' = shown \cup {"identity"}
       \/ c[2] = "number" /\ Transport = "sms" /\ shown' = shown \cup {"number"}
       \/ c[2] = "number" /\ Transport = "imessage" /\ UNCHANGED shown
       \/ c[2] = "credential" /\ UNCHANGED shown
    /\ Quiet /\ UNCHANGED <<order, ticks, ready, vault>>

\* The answer of the executed call: the identity, the SMS purchase (which is
\* read back), the iMessage identity with or without its line, the key.
CallReturns(w) ==
    /\ step[w] = "calling" /\ Call(w) \notin inbound
    /\ \/ snap[w].phase = "identity" /\ Plan(w, "save", HasIdentity(snap[w]))
       \/ snap[w].phase = "number" /\ Transport = "sms" /\ To(w, "receipt")
       \/ /\ snap[w].phase = "number" /\ Transport = "imessage"
          /\ \/ "number" \in shown /\ Plan(w, "save", HasNumber(snap[w]))
             \/ "number" \notin shown /\ Plan(w, "save", Pending(snap[w]))
       \/ snap[w].phase = "credential" /\ To(w, "keep")
    /\ marks' = [marks EXCEPT ![w] = Settled(w)]
    /\ Quiet /\ UNCHANGED provider

\* provider_rejected: nothing was done, except that a refused mint may have
\* issued its key.
CallRejected(w) ==
    /\ step[w] = "calling"
    /\ \/ snap[w].phase # "credential" /\ Call(w) \in inbound /\ Denial
       \/ snap[w].phase = "credential" /\ Fault
    /\ inbound' = inbound \ {Call(w)}
    /\ Catch(w, Settled(w) \cup {"refused"}, "provider_pending")
    /\ UNCHANGED <<made, shown, ready, vault>>

\* invalid_input: the client sent nothing.
CallUnsent(w) ==
    /\ step[w] = "calling"
    /\ Call(w) \in inbound
    /\ Denial
    /\ inbound' = inbound \ {Call(w)}
    /\ Catch(w, Settled(w) \cup {"refused", "unsent"}, "provider_pending")
    /\ UNCHANGED <<made, shown, ready, vault>>

\* Fault: a lost answer counts as a refusal.
CallUnknownReopens(w) ==
    /\ step[w] = "calling"
    /\ Fault
    /\ Catch(w, Settled(w) \cup {"refused"}, "provider_pending")
    /\ inbound' \in {inbound, inbound \ {Call(w)}}
    /\ UNCHANGED <<made, shown, ready, vault>>

\* The answer is lost: executed, or still to be executed, or never.
CallUnknown(w) ==
    /\ step[w] = "calling"
    /\ Fault
    /\ Catch(w, Settled(w), "provider_pending")
    /\ inbound' \in {inbound, inbound \ {Call(w)}}
    /\ UNCHANGED <<made, shown, ready, vault>>

\* The ownership read after an SMS purchase.
ReceiptRead(w) ==
    /\ step[w] = "receipt"
    /\ \/ shown = Receipts /\ Plan(w, "save", HasNumber(snap[w])) /\ UNCHANGED marks
       \/ shown # Receipts /\ Catch(w, marks[w], "needs_review")
    /\ Quiet /\ UNCHANGED provider

KeepCredential(w) ==
    /\ step[w] = "keep"
    /\ vault' = TRUE
    /\ To(w, "verify")
    /\ Quiet /\ UNCHANGED <<marks, inbound, made, shown, ready>>

\* putIfAbsent throws, before or after the key is stored.
KeepThrows(w) ==
    /\ step[w] = "keep"
    /\ Fault
    /\ Catch(w, marks[w], "provider_pending")
    /\ vault' \in {vault, TRUE}
    /\ UNCHANGED <<inbound, made, shown, ready>>

Verified(w) ==
    /\ step[w] = "verify"
    /\ Plan(w, "save", Order("connection", "none", "pending", snap[w].waiting, snap[w].receipts))
    /\ Quiet /\ UNCHANGED <<marks, provider>>

\* bindConnection creates or recovers this order's one connection.
Bound(w) ==
    /\ step[w] = "bind"
    /\ Plan(w, "save", Order("complete", "none", "ready_for_setup", snap[w].waiting, snap[w].receipts))
    /\ Quiet /\ UNCHANGED <<marks, provider>>

---------------------------------------------------------------------------
(* save and recordReceipt                                                  *)

\* Fault: the save does not compare versions.
SaveUnchecked(w) ==
    /\ step[w] = "save"
    /\ order' = draft[w]
    /\ current' = [v \in Workers |-> {}]
    /\ Forget(w)
    /\ Quiet /\ UNCHANGED provider

Saved(w) ==
    /\ step[w] = "save"
    /\ Store(w, {})
    /\ Forget(w)
    /\ Quiet /\ UNCHANGED provider

\* Fault: a lost save is dropped with its receipt.
SaveDropped(w) ==
    /\ step[w] = "save"
    /\ Outdated(w)
    /\ Return(w)
    /\ Quiet /\ UNCHANGED provider

SaveLost(w) ==
    /\ step[w] = "save"
    /\ Outdated(w)
    /\ To(w, "record")
    /\ Quiet /\ UNCHANGED <<marks, provider>>

RecordNothing(w) ==
    /\ step[w] = "record"
    /\ draft[w].receipts \subseteq order.receipts
    /\ Return(w)
    /\ Quiet /\ UNCHANGED provider

RecordRead(w) ==
    /\ step[w] = "record"
    /\ ~(draft[w].receipts \subseteq order.receipts)
    /\ Go(w, "recording", Order(order.phase, order.attempt, order.status, order.waiting,
                                order.receipts \cup draft[w].receipts))
    /\ current' = [current EXCEPT ![w] = {"draft"}]
    /\ Quiet /\ UNCHANGED <<order, snap, marks, tries, provider>>

Recorded(w) ==
    /\ step[w] = "recording"
    /\ Store(w, {})
    /\ Forget(w)
    /\ Quiet /\ UNCHANGED provider

\* The third lost attempt throws out of the tick.
RecordLost(w) ==
    /\ step[w] = "recording"
    /\ Outdated(w)
    /\ \/ /\ tries[w] < 2
          /\ Go(w, "record", draft[w])
          /\ UNCHANGED <<order, snap, current>>
          /\ tries' = [tries EXCEPT ![w] = @ + 1]
          /\ UNCHANGED marks
       \/ /\ tries[w] = 2
          /\ Return(w)
    /\ Quiet /\ UNCHANGED provider

---------------------------------------------------------------------------
(* The environment                                                         *)

\* The row changes in the reader's eyes as the clock moves; its version
\* does not.
Clock(attempt, waiting) ==
    /\ order' = Order(order.phase, attempt, order.status, waiting, order.receipts)
    /\ UNCHANGED <<ticks, provider>>

Due == order.waiting /\ Clock(order.attempt, FALSE) /\ Quiet

\* A tick that journaled the attempt is at work on it.
Working(w) ==
    \/ step[w] \in {"authorize", "deny", "recheck", "unclaim", "unclaiming",
                   "calling", "receipt", "keep"}
    \/ "settled" \in marks[w]

\* The in-flight window of a call nobody makes any more passes ...
Overdue ==
    /\ order.attempt = "recent"
    /\ \A w \in Workers : ~Working(w)
    /\ Clock("old", order.waiting)
    /\ Quiet

\* ... or a tick takes longer than the window.
Stall ==
    /\ order.attempt = "recent"
    /\ \E w \in Workers : Working(w)
    /\ Clock("old", order.waiting)
    /\ Fault

\* The host cancels the order.
Cancel ==
    /\ order.phase # "complete" /\ order.status # "cancelled"
    /\ order' = Order(order.phase, order.attempt, "cancelled", order.waiting, order.receipts)
    /\ current' = [w \in Workers |-> {}]
    /\ Quiet /\ UNCHANGED <<step, snap, draft, marks, tries, provider>>

Crash(w) ==
    /\ step[w] # "idle"
    /\ Fault
    /\ Return(w)
    /\ UNCHANGED provider

\* The provider attaches a claimed line, and makes an SMS line ready.
LineAppears ==
    /\ made["number"] > 0
    /\ \/ Transport = "imessage" /\ "number" \notin shown
          /\ shown' = shown \cup {"number"} /\ UNCHANGED ready
       \/ Transport = "sms" /\ ~ready /\ ready' = TRUE /\ UNCHANGED shown
    /\ Quiet /\ UNCHANGED <<order, ticks, inbound, made, vault>>

Vanish(r) ==
    /\ r \in shown
    /\ Fault
    /\ shown' = shown \ {r}
    /\ UNCHANGED <<order, ticks, inbound, made, ready, vault>>

Init ==
    /\ order = NewOrder
    /\ step = [w \in Workers |-> "idle"]
    /\ snap = [w \in Workers |-> NewOrder]
    /\ draft = [w \in Workers |-> NewOrder]
    /\ current = [w \in Workers |-> {}]
    /\ marks = [w \in Workers |-> {}]
    /\ tries = [w \in Workers |-> 0]
    /\ inbound = {}
    /\ made = [k \in Mutations |-> 0]
    /\ shown = {}
    /\ ready = FALSE
    /\ vault = FALSE
    /\ faults = 0
    /\ denials = 0

Tick(w) ==
    \/ Start(w) \/ LeaseBusy(w) \/ LeaseBurned(w) \/ LeaseClaim(w)
    \/ IdentityForeign(w) \/ IdentityFound(w) \/ SomethingMissing(w)
    \/ LinePending(w) \/ NumberFound(w) \/ LineConfirmed(w) \/ VaultRead(w)
    \/ ClaimSaved(w) \/ ClaimLost(w)
    \/ AuthorizeStale(w) \/ AuthorizeGranted(w) \/ AuthorizeRechecked(w)
    \/ DenySaved(w) \/ DenyLost(w)
    \/ UnclaimNothing(w) \/ UnclaimRead(w) \/ UnclaimSaved(w) \/ UnclaimLost(w)
    \/ CallReturns(w) \/ ReceiptRead(w) \/ KeepCredential(w) \/ Verified(w)
    \/ Bound(w)
    \/ Saved(w) \/ SaveLost(w) \/ RecordNothing(w) \/ RecordRead(w)
    \/ Recorded(w) \/ RecordLost(w)

Trouble(w) ==
    \/ AuthorizeDenied(w) \/ AuthorizeThrows(w) \/ ReadThrows(w)
    \/ CallRejected(w) \/ CallUnsent(w) \/ CallUnknown(w) \/ KeepThrows(w)
    \/ Crash(w)

Next ==
    \/ \E w \in Workers : Tick(w) \/ Trouble(w)
    \/ \E c \in inbound : Execute(c)
    \/ \E r \in Receipts : Vanish(r)
    \/ LineAppears \/ Due \/ Overdue \/ Stall \/ Cancel

\* The host's queue ticks every due order, a tick runs on, time passes and
\* the provider works.
Spec ==
    /\ Init /\ [][Next]_vars
    /\ \A w \in Workers : WF_vars(Tick(w))
    /\ \A w \in Workers, k \in Mutations : WF_vars(Execute(<<w, k>>))
    /\ WF_vars(LineAppears) /\ WF_vars(Due) /\ WF_vars(Overdue)

---------------------------------------------------------------------------
(* Properties                                                              *)

\* "A journaled non-idempotent call is reconciled by reading provider state,
\* never blindly repeated": the identity is created, the number bought and
\* the key minted at most once, however ticks, lost answers, late executions,
\* refusals and crashes interleave.
NothingBoughtTwice == \A k \in Mutations : made[k] <= 1

\* While a call of the order's phase is on its way, the order says so: no
\* tick gives back the journal entry of a call that was sent.
CallsAreJournaled ==
    \A c \in inbound : order.phase = c[2] => order.attempt # "none"

\* "A purchased number no order records cannot be released by cleanup": a
\* tick that ends with a receipt in hand leaves it in the order, also when it
\* lost the race for the version, unless it crashed or lost three more races;
\* and no save removes a receipt.
ReceiptsAreKept ==
    [][/\ order.receipts \subseteq order'.receipts
       /\ \A w \in Workers :
            step[w] \in {"save", "record", "recording"} /\ step'[w] = "idle" =>
                \/ draft[w].receipts \subseteq order'.receipts
                \/ faults' # faults
                \/ tries[w] = 2]_vars

\* A cancelled order stays cancelled: no tick that was already running
\* revives it.
CancellationSticks ==
    [][order.status = "cancelled" => order'.status = "cancelled"]_vars

\* Every order is completed or cancelled, or comes under review; review needs
\* a lost answer, a crash, a stall, a refused mint or a line the provider lost,
\* and never comes from ticks that meet, denials or refused purchases alone.
EveryOrderSettles ==
    <>(\/ order.phase = "complete" \/ order.status = "cancelled"
       \/ order.status = "needs_review" /\ faults > 0)
=============================================================================
