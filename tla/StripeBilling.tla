--------------------------- MODULE StripeBilling ---------------------------
(***************************************************************************)
(* StripeBillingDispatcher (src/stripe/webhooks.ts) and the subscription   *)
(* record of one workspace (src/stripe/subscription-state.ts).  Stripe     *)
(* moves through a timeline of events, delivers each in any order, and     *)
(* delivers it again until dispatch() returns.  Calls of dispatch() for    *)
(* different events, and for one event in two regions, interleave at every *)
(* await: claim, load, compare-and-set, listener, retrieval.               *)
(*                                                                         *)
(* Of a record the model keeps what the handlers decide on.  Events that   *)
(* need no record (an unhandled type, no identity, no workspace, a zero    *)
(* invoice) are of kind "other".                                           *)
(***************************************************************************)
EXTENDS Naturals, Sequences

CONSTANTS
    Worlds      \* what happens at Stripe and to the dispatcher, see BillingAssumption

VARIABLES
    world,      \* the world of this behaviour
    emitted,    \* how far Stripe is in its timeline
    record,     \* the stored SubscriptionRecord
    claims,     \* claims[e]: the claim on event e in the idempotency store
    step,       \* step[h]: where call h of dispatch() stands
    base,       \* base[h]: the version call h loaded
    draft,      \* draft[h]: the record it saves
    outcome,    \* outcome[h]: the event it emits: see Outcomes
    tries,      \* tries[h]: compare-and-sets lost
    snapshot,   \* snapshot[h]: the state retrieveSubscription returned
    told,       \* told[e]: the outcomes the listener accepted for event e
    acked,      \* the events Stripe does not deliver again
    faults

calls == <<step, base, draft, outcome, tries, snapshot>>
vars == <<world, emitted, record, claims, calls, told, acked, faults>>

Timeline == world.timeline              \* the events: kind, sub, at, state
Copies == world.copies                  \* concurrent dispatch() calls for one event
MaxCasRetries == world.maxCasRetries
MaxFaults == world.faults               \* bound: failing listeners, reads, claims, crashes

Events == DOMAIN Timeline
NoEvent == 0

\* The events and calls of all worlds.
AllEvents == UNION {DOMAIN w.timeline : w \in Worlds}
Calls == UNION {(DOMAIN w.timeline) \X (1..w.copies) : w \in Worlds}
Event(h) == h[1]

States == {"incomplete", "incomplete_expired", "trialing", "active",
           "past_due", "canceled", "unpaid", "paused"}
Subs == {Timeline[e].sub : e \in Events}

ASSUME BillingAssumption ==
    \A w \in Worlds :
        /\ Len(w.timeline) \in Nat /\ DOMAIN w.timeline = 1..Len(w.timeline)
        /\ \A e \in DOMAIN w.timeline :
              /\ w.timeline[e].kind \in {"created", "updated", "deleted", "trial_will_end",
                                        "paused", "resumed", "invoice", "other"}
              /\ w.timeline[e].at \in Nat
              /\ w.timeline[e].state \in States
        /\ w.copies \in Nat \ {0}
        /\ w.maxCasRetries \in Nat \ {0}
        /\ w.faults \in Nat

Record(sub, state, at, last, pending, version) ==
    [sub |-> sub, state |-> state, at |-> at, last |-> last,
     pending |-> pending, version |-> version]
Records == [sub : Subs, state : States, at : Nat, last : Events,
            pending : Events \cup {NoEvent}, version : Nat]
NoRecord == [version |-> 0]

Steps == {"idle", "load", "save", "retrieve", "reload", "resave", "emit",
          "clear", "clearing", "complete", "release", "replay"}

\* "applied": the event's own typed event; "dropped": event_dropped_out_of_
\* order; "replay": event_replay.
Outcomes == {"none", "applied", "dropped", "replay"}

\* claims[e] is free, done, or the call that holds it.
Holders == {<<"free">>, <<"done">>} \cup Calls

TypeOK ==
    /\ world \in Worlds
    /\ emitted \in 0..Len(Timeline)
    /\ record \in Records \cup {NoRecord}
    /\ claims \in [AllEvents -> Holders]
    /\ step \in [Calls -> Steps]
    /\ base \in [Calls -> Nat]
    /\ draft \in [Calls -> Records \cup {NoRecord}]
    /\ outcome \in [Calls -> Outcomes]
    /\ tries \in [Calls -> 0..MaxCasRetries]
    /\ snapshot \in [Calls -> States \cup {"none"}]
    /\ told \in [AllEvents -> SUBSET Outcomes]
    /\ acked \subseteq Events
    /\ faults \in 0..MaxFaults

Fault == faults < MaxFaults /\ faults' = faults + 1

---------------------------------------------------------------------------
(* subscription-state.ts                                                   *)

TRANSITIONS ==
    [incomplete |-> {"active", "trialing", "incomplete_expired", "canceled"},
     incomplete_expired |-> {},
     trialing |-> {"active", "past_due", "canceled", "paused", "unpaid"},
     active |-> {"past_due", "canceled", "paused", "unpaid", "trialing"},
     past_due |-> {"active", "canceled", "unpaid", "paused"},
     canceled |-> {},
     unpaid |-> {"active", "canceled", "past_due"},
     paused |-> {"active", "canceled", "past_due"}]

isValidTransition(from, to) == from = to \/ to \in TRANSITIONS[from]

\* Fault: the save compares nothing.
SaveAnyVersion(next, expected) == record' = next

\* saveIfVersion(next, expected) of the file store succeeds: it links the file
\* of next.version, so a second record of version 0 is refused too.
SaveIfVersion(next, expected) ==
    /\ \/ record = NoRecord /\ expected = 0
       \/ record # NoRecord /\ record.version = expected
    /\ record # NoRecord => next.version = expected + 1
    /\ record' = next

SaveRefused(next, expected) ==
    /\ record # NoRecord
    /\ record.version # expected \/ next.version # expected + 1

---------------------------------------------------------------------------
(* What a handler finds when it has loaded the record                      *)

Kind(e) == Timeline[e].kind
Sub(e) == Timeline[e].sub
At(e) == Timeline[e].at
To(e) == Timeline[e].state

isTerminal(state) == state \in {"canceled", "incomplete_expired"}

\* A created event of the customer's next subscription.
Rebinds(e) ==
    Kind(e) = "created" /\ record.sub # Sub(e) /\ isTerminal(record.state)

Unavailable(e) == record = NoRecord /\ Kind(e) # "created"
Foreign(e) == record # NoRecord /\ record.sub # Sub(e) /\ ~Rebinds(e)

\* The record is this event's to look at.
Bound(e) == record # NoRecord /\ ~Foreign(e)

\* Fault: another event's pending delivery does not block.
NeverBlocked(e) == FALSE

Blocked(e) == Bound(e) /\ record.pending \notin {NoEvent, e}
Repeated(e) == Bound(e) /\ ~Blocked(e) /\ record.last = e

Older(e) == Bound(e) /\ ~Blocked(e) /\ record.last # e /\ At(e) < record.at
Equal(e) == Bound(e) /\ ~Blocked(e) /\ record.last # e /\ At(e) = record.at
Newer(e) == Bound(e) /\ ~Blocked(e) /\ record.last # e /\ ~Older(e) /\ ~Equal(e)

\* The state a newer event puts the record in.
Target(e) ==
    CASE Kind(e) = "deleted" -> "canceled"
      [] Kind(e) = "paused" -> "paused"
      [] Kind(e) = "resumed" -> "active"
      [] Kind(e) = "trial_will_end" -> record.state
      [] OTHER -> To(e)

\* canApplyFreshCreate
Accepts(e) == Kind(e) = "created" => record.state = "incomplete" \/ isTerminal(record.state)
LegalEdge(e) == Rebinds(e) \/ isValidTransition(record.state, Target(e))

\* A newer event that is dropped, one whose applyTransition throws, one that
\* finds its work done, and one that is applied.
OutOfOrder(e) ==
    Newer(e) /\ (~Accepts(e) \/ (Kind(e) \in {"updated", "paused", "resumed"} /\ ~LegalEdge(e)))
Illegal(e) ==
    /\ Newer(e) /\ Accepts(e) /\ ~LegalEdge(e)
    /\ \/ Kind(e) = "created"
       \/ Kind(e) = "deleted" /\ record.state # "canceled"
AlreadyCanceled(e) == Newer(e) /\ Kind(e) = "deleted" /\ record.state = "canceled"
Applies(e) ==
    \/ record = NoRecord /\ Kind(e) = "created"
    \/ Newer(e) /\ Accepts(e) /\ LegalEdge(e) /\ ~AlreadyCanceled(e)

\* The record event e writes: the first one has version 0.
Applied(e, state) ==
    Record(Sub(e), state, At(e), e, e,
           IF record = NoRecord THEN 0 ELSE record.version + 1)

---------------------------------------------------------------------------
(* Steps of a call                                                         *)

Go(h, s, o) ==
    /\ step' = [step EXCEPT ![h] = s]
    /\ outcome' = [outcome EXCEPT ![h] = o]

\* It has loaded the record and is about to save d, or saves nothing.
Hold(h, d) ==
    /\ base' = [base EXCEPT ![h] = record.version]
    /\ draft' = [draft EXCEPT ![h] = d]

\* It ends; everything it knew is gone.
End(h) ==
    /\ Go(h, "idle", "none")
    /\ base' = [base EXCEPT ![h] = 0]
    /\ draft' = [draft EXCEPT ![h] = NoRecord]
    /\ tries' = [tries EXCEPT ![h] = 0]
    /\ snapshot' = [snapshot EXCEPT ![h] = "none"]

\* It emits o, with no record of its own to clear.
Notify(h, o) == Go(h, "emit", o) /\ Hold(h, NoRecord) /\ UNCHANGED <<tries, snapshot>>
Throw(h) == Go(h, "release", "none") /\ Hold(h, NoRecord) /\ UNCHANGED <<tries, snapshot>>

\* Stripe delivers the event of h, to one region more if there are copies.
Delivered(h) == Event(h) <= emitted /\ Event(h) \notin acked /\ h[2] <= Copies

\* dispatch: claimStatus answers 'acquired' ...
Claim(h) ==
    /\ step[h] = "idle"
    /\ Delivered(h)
    /\ claims[Event(h)] = <<"free">>
    /\ claims' = [claims EXCEPT ![Event(h)] = h]
    /\ \/ Kind(Event(h)) = "other" /\ Go(h, "emit", "applied")
       \/ Kind(Event(h)) # "other" /\ Go(h, "load", "none")
    /\ UNCHANGED <<world, emitted, record, base, draft, tries, snapshot, told, acked, faults>>

\* ... 'completed', which is reported as a replay ('in_progress' throws and
\* changes nothing) ...
ClaimCompleted(h) ==
    /\ step[h] = "idle"
    /\ Delivered(h)
    /\ claims[Event(h)] = <<"done">>
    /\ Go(h, "replay", "replay")
    /\ UNCHANGED <<world, emitted, record, claims, base, draft, tries, snapshot, told, acked, faults>>

\* The lease of a call is missed and its claim may be taken over.
Stall(h) ==
    /\ claims[Event(h)] = h
    /\ Fault
    /\ claims' = [claims EXCEPT ![Event(h)] = <<"free">>]
    /\ UNCHANGED <<world, emitted, record, calls, told, acked>>

\* load, then what the handlers have in common.
LoadRejected(h) ==
    /\ step[h] = "load"
    /\ \/ Unavailable(Event(h)) \/ Blocked(Event(h)) \/ Illegal(Event(h))
    /\ Kind(Event(h)) # "invoice" \/ record = NoRecord
    /\ Throw(h)
    /\ UNCHANGED <<world, emitted, record, claims, told, acked, faults>>

LoadDropped(h) ==
    /\ step[h] = "load"
    /\ \/ Foreign(Event(h))
       \/ Kind(Event(h)) # "invoice" /\ (Older(Event(h)) \/ OutOfOrder(Event(h)))
    /\ Notify(h, "dropped")
    /\ UNCHANGED <<world, emitted, record, claims, told, acked, faults>>

LoadInvoice(h) ==
    /\ step[h] = "load"
    /\ Kind(Event(h)) = "invoice" /\ Bound(Event(h))
    /\ Notify(h, "applied")
    /\ UNCHANGED <<world, emitted, record, claims, told, acked, faults>>

\* This event was saved before: its typed event is emitted again.
LoadRepeated(h) ==
    /\ step[h] = "load"
    /\ Kind(Event(h)) # "invoice" /\ Repeated(Event(h))
    /\ Go(h, "emit", "applied")
    /\ Hold(h, record)
    /\ UNCHANGED <<world, emitted, record, claims, tries, snapshot, told, acked, faults>>

LoadAlreadyCanceled(h) ==
    /\ step[h] = "load"
    /\ AlreadyCanceled(Event(h))
    /\ Notify(h, "replay")
    /\ UNCHANGED <<world, emitted, record, claims, told, acked, faults>>

LoadApplies(h) ==
    /\ step[h] = "load"
    /\ Kind(Event(h)) # "invoice" /\ Applies(Event(h))
    /\ Go(h, "save", "applied")
    /\ Hold(h, Applied(Event(h), IF record = NoRecord THEN To(Event(h)) ELSE Target(Event(h))))
    /\ UNCHANGED <<world, emitted, record, claims, tries, snapshot, told, acked, faults>>

LoadEqual(h) ==
    /\ step[h] = "load"
    /\ Kind(Event(h)) # "invoice" /\ Equal(Event(h))
    /\ Go(h, "retrieve", "none")
    /\ Hold(h, NoRecord)
    /\ tries' = [tries EXCEPT ![h] = 0]
    /\ UNCHANGED <<world, emitted, record, claims, snapshot, told, acked, faults>>

Saved(h) ==
    /\ step[h] \in {"save", "resave"}
    /\ SaveIfVersion(draft[h], base[h])
    /\ Go(h, "emit", "applied")
    /\ UNCHANGED <<world, emitted, claims, base, draft, tries, snapshot, told, acked, faults>>

\* created and trial_will_end give up on a lost compare-and-set ...
SaveLostDropped(h) ==
    /\ step[h] = "save"
    /\ Kind(Event(h)) \in {"created", "trial_will_end"}
    /\ SaveRefused(draft[h], base[h])
    /\ Notify(h, "dropped")
    /\ UNCHANGED <<world, emitted, record, claims, told, acked, faults>>

\* Fault: every event gives up.
SaveLostGivesUp(h) ==
    /\ step[h] \in {"save", "resave"}
    /\ SaveRefused(draft[h], base[h])
    /\ Notify(h, "dropped")
    /\ UNCHANGED <<world, emitted, record, claims, told, acked, faults>>

\* ... the others load again, and throw when the attempts are used up.
SaveLostRetried(h) ==
    /\ \/ step[h] = "save" /\ Kind(Event(h)) \notin {"created", "trial_will_end"}
       \/ step[h] = "resave"
    /\ SaveRefused(draft[h], base[h])
    /\ tries' = [tries EXCEPT ![h] = @ + 1]
    /\ \/ tries[h] + 1 < MaxCasRetries /\ step[h] = "save" /\ Go(h, "load", "none")
       \/ tries[h] + 1 < MaxCasRetries /\ step[h] = "resave" /\ Go(h, "reload", "none")
       \/ tries[h] + 1 = MaxCasRetries /\ Go(h, "release", "none")
    /\ UNCHANGED <<world, emitted, record, claims, base, draft, snapshot, told, acked, faults>>

---------------------------------------------------------------------------
(* reconcileEqualTimestamp                                                 *)

\* Stripe's own state of a subscription.
Truth(sub) ==
    LET past == {e \in 1..emitted : Sub(e) = sub}
    IN To(CHOOSE e \in past : \A d \in past : d <= e)

\* Fault: parseState lets an unknown status through.
RetrieveUnparsed(h) ==
    /\ step[h] = "retrieve"
    /\ Go(h, "reload", "none")
    /\ snapshot' = [snapshot EXCEPT ![h] = "unknown"]
    /\ UNCHANGED <<world, emitted, record, claims, base, draft, tries, told, acked, faults>>

\* Stripe answers; an answer parseState refuses is a failure.
Retrieve(h) ==
    /\ step[h] = "retrieve"
    /\ Go(h, "reload", "none")
    /\ snapshot' = [snapshot EXCEPT ![h] = Truth(Sub(Event(h)))]
    /\ UNCHANGED <<world, emitted, record, claims, base, draft, tries, told, acked, faults>>

\* The record is loaded again: it may have moved on.  Even a created event
\* is refused here by a record of another subscription.
ReloadMoved(h) ==
    /\ step[h] = "reload"
    /\ \/ Foreign(Event(h)) \/ Rebinds(Event(h)) \/ Older(Event(h))
    /\ Notify(h, "dropped")
    /\ UNCHANGED <<world, emitted, record, claims, told, acked, faults>>

ReloadRejected(h) ==
    /\ step[h] = "reload"
    /\ ~Rebinds(Event(h))
    /\ Blocked(Event(h)) \/ Newer(Event(h))
    /\ Throw(h)
    /\ UNCHANGED <<world, emitted, record, claims, told, acked, faults>>

ReloadRepeated(h) ==
    /\ step[h] = "reload"
    /\ Repeated(Event(h)) /\ ~Rebinds(Event(h))
    /\ Go(h, "emit", "applied")
    /\ Hold(h, record)
    /\ UNCHANGED <<world, emitted, record, claims, tries, snapshot, told, acked, faults>>

ReloadApplies(h) ==
    /\ step[h] = "reload"
    /\ Equal(Event(h)) /\ ~Rebinds(Event(h))
    /\ Go(h, "resave", "applied")
    /\ Hold(h, Applied(Event(h), snapshot[h]))
    /\ UNCHANGED <<world, emitted, record, claims, tries, snapshot, told, acked, faults>>

---------------------------------------------------------------------------
(* emit, emitPersisted and the end of dispatch                             *)

Tell(h) == told' = [told EXCEPT ![Event(h)] = @ \cup {outcome[h]}]

\* Fault: the pending mark stays.
EmittedUncleared(h) ==
    /\ step[h] = "emit"
    /\ Tell(h)
    /\ Go(h, "complete", outcome[h])
    /\ tries' = [tries EXCEPT ![h] = 0]
    /\ UNCHANGED <<world, emitted, record, claims, base, draft, snapshot, acked, faults>>

\* The listener resolves; a saved event then clears its pending mark.
Emitted(h) ==
    /\ step[h] = "emit"
    /\ Tell(h)
    /\ \/ draft[h] # NoRecord /\ Go(h, "clear", outcome[h])
       \/ draft[h] = NoRecord /\ Go(h, "complete", outcome[h])
    /\ tries' = [tries EXCEPT ![h] = 0]
    /\ UNCHANGED <<world, emitted, record, claims, base, draft, snapshot, acked, faults>>

\* The listener of a completed event resolves, and dispatch returns.
Replayed(h) ==
    /\ step[h] = "replay"
    /\ Tell(h)
    /\ End(h)
    /\ acked' = acked \cup {Event(h)}
    /\ UNCHANGED <<world, emitted, record, claims, faults>>

\* clearPendingSubscriptionEvent loads the record ...
Clear(h) ==
    /\ step[h] = "clear"
    /\ \/ record.pending = NoEvent /\ Go(h, "complete", outcome[h])
          /\ UNCHANGED <<base, draft>>
       \/ record.pending = Event(h) /\ Go(h, "clearing", outcome[h])
          /\ Hold(h, Record(record.sub, record.state, record.at, record.last,
                            NoEvent, record.version + 1))
       \/ record.pending \notin {NoEvent, Event(h)} /\ Go(h, "release", "none")
          /\ UNCHANGED <<base, draft>>
    /\ UNCHANGED <<world, emitted, record, claims, tries, snapshot, told, acked, faults>>

\* ... and saves it without the mark, or tries again.
Cleared(h) ==
    /\ step[h] = "clearing"
    /\ SaveIfVersion(draft[h], base[h])
    /\ Go(h, "complete", outcome[h])
    /\ UNCHANGED <<world, emitted, claims, base, draft, tries, snapshot, told, acked, faults>>

ClearLost(h) ==
    /\ step[h] = "clearing"
    /\ SaveRefused(draft[h], base[h])
    /\ tries' = [tries EXCEPT ![h] = @ + 1]
    /\ \/ tries[h] + 1 < MaxCasRetries /\ Go(h, "clear", outcome[h])
       \/ tries[h] + 1 = MaxCasRetries /\ Go(h, "release", "none")
    /\ UNCHANGED <<world, emitted, record, claims, base, draft, snapshot, told, acked, faults>>

\* complete(): the claim is retained and dispatch returns, or it is lost.
Complete(h) ==
    /\ step[h] = "complete"
    /\ \/ /\ claims[Event(h)] = h
          /\ claims' = [claims EXCEPT ![Event(h)] = <<"done">>]
          /\ End(h)
          /\ acked' = acked \cup {Event(h)}
       \/ /\ claims[Event(h)] # h
          /\ Go(h, "release", "none")
          /\ UNCHANGED <<claims, base, draft, tries, snapshot, acked>>
    /\ UNCHANGED <<world, emitted, record, told, faults>>

\* Fault: the claim of a failed event is kept as completed.
ReleaseCompletes(h) ==
    /\ step[h] = "release"
    /\ claims' = [claims EXCEPT ![Event(h)] = IF @ = h THEN <<"done">> ELSE @]
    /\ End(h)
    /\ UNCHANGED <<world, emitted, record, told, acked, faults>>

\* The catch block releases the claim and throws: Stripe delivers again.
Release(h) ==
    /\ step[h] = "release"
    /\ \/ claims[Event(h)] = h /\ claims' = [claims EXCEPT ![Event(h)] = <<"free">>]
       \/ claims[Event(h)] # h /\ UNCHANGED claims
    /\ End(h)
    /\ UNCHANGED <<world, emitted, record, told, acked, faults>>

---------------------------------------------------------------------------
(* Failures and the environment                                            *)

\* A load, a save, the retrieval, the listener or complete() throws; a save,
\* a listener or complete() may have taken effect.
Fails(h) ==
    /\ step[h] \notin {"idle", "release", "replay"}
    /\ Fault
    /\ Go(h, "release", "none")
    /\ \/ UNCHANGED <<record, told, claims>>
       \/ step[h] = "emit" /\ Tell(h) /\ UNCHANGED <<record, claims>>
       \/ /\ step[h] \in {"save", "resave", "clearing"}
          /\ SaveIfVersion(draft[h], base[h])
          /\ UNCHANGED <<told, claims>>
       \/ /\ step[h] = "complete" /\ claims[Event(h)] = h
          /\ claims' = [claims EXCEPT ![Event(h)] = <<"done">>]
          /\ UNCHANGED <<record, told>>
    /\ UNCHANGED <<world, emitted, base, draft, tries, snapshot, acked>>

\* The process of the call dies; or the listener of a replay throws.
Crash(h) ==
    /\ step[h] # "idle"
    /\ Fault
    /\ End(h)
    /\ UNCHANGED <<world, emitted, record, claims, told, acked>>

\* The claim of a dead call runs out.
Lapse(h) ==
    /\ step[h] = "idle" /\ claims[Event(h)] = h
    /\ claims' = [claims EXCEPT ![Event(h)] = <<"free">>]
    /\ UNCHANGED <<world, emitted, record, calls, told, acked, faults>>

StripeMoves ==
    /\ emitted < Len(Timeline)
    /\ emitted' = emitted + 1
    /\ UNCHANGED <<world, record, claims, calls, told, acked, faults>>

Init ==
    /\ world \in Worlds
    /\ emitted = 0
    /\ record = NoRecord
    /\ claims = [e \in AllEvents |-> <<"free">>]
    /\ step = [h \in Calls |-> "idle"]
    /\ base = [h \in Calls |-> 0]
    /\ draft = [h \in Calls |-> NoRecord]
    /\ outcome = [h \in Calls |-> "none"]
    /\ tries = [h \in Calls |-> 0]
    /\ snapshot = [h \in Calls |-> "none"]
    /\ told = [e \in AllEvents |-> {}]
    /\ acked = {}
    /\ faults = 0

Dispatch(h) ==
    \/ Claim(h) \/ ClaimCompleted(h)
    \/ LoadRejected(h) \/ LoadDropped(h) \/ LoadInvoice(h) \/ LoadRepeated(h)
    \/ LoadAlreadyCanceled(h) \/ LoadApplies(h) \/ LoadEqual(h)
    \/ Saved(h) \/ SaveLostDropped(h) \/ SaveLostRetried(h)
    \/ Retrieve(h) \/ ReloadMoved(h) \/ ReloadRejected(h) \/ ReloadRepeated(h) \/ ReloadApplies(h)
    \/ Emitted(h) \/ Replayed(h) \/ Clear(h) \/ Cleared(h) \/ ClearLost(h)
    \/ Complete(h) \/ Release(h)

Next ==
    \/ \E h \in Calls : Dispatch(h) \/ Fails(h) \/ Crash(h) \/ Stall(h) \/ Lapse(h)
    \/ StripeMoves

\* A call runs on, leases of dead calls end, Stripe goes on and delivers again.
Spec ==
    /\ Init /\ [][Next]_vars
    /\ \A h \in Calls : WF_vars(Dispatch(h)) /\ WF_vars(Lapse(h))
    /\ WF_vars(StripeMoves)

---------------------------------------------------------------------------
(* Properties                                                              *)

\* An event that changed the record has reached the listener as what it is
\* before another event changes the record: "A different subscription event
\* cannot advance until this is cleared".
AppliedEventsAreTold ==
    [][record # NoRecord /\ record'.last # record.last =>
        "applied" \in told[record.last]]_vars

\* The record only moves to newer events: a late or repeated event never
\* takes it back in time, whatever was loaded before it.
RecordNeverGoesBack ==
    [][record # NoRecord => record'.at >= record.at /\ record'.version >= record.version]_vars

\* Stripe stops delivering an event only when the listener has heard of it
\* for what it is: a replay does not count, except for the cancellation of
\* what is already canceled.
AckedEventsAreTold ==
    \A e \in acked :
        \/ told[e] \cap {"applied", "dropped"} # {}
        \/ Kind(e) = "deleted" /\ "replay" \in told[e]

\* Order independence: once every event has been handled, the record holds
\* the state its subscription has at Stripe, in whatever order the events came
\* and however often they were retried.
Converged ==
    acked = Events =>
        \E e \in Events :
            /\ record.sub = Sub(e) /\ record.state = To(e)
            /\ \A later \in Events : later > e => Sub(later) # Sub(e)

\* "canceled -- terminal": no event puts a canceled subscription back to work.
CanceledIsFinal ==
    [][record # NoRecord /\ record.state = "canceled" /\ record'.sub = record.sub
        => record'.state = "canceled"]_vars

\* Every event is handled in the end: a failed listener, a lost claim and a
\* pending event of another call delay it, and nothing blocks it for ever.
EveryEventHandled == <>(acked = Events)
=============================================================================
