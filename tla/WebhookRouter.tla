--------------------------- MODULE WebhookRouter ---------------------------
(***************************************************************************)
(* WebhookRouter.handle (src/webhooks/router.ts) over the claim store its  *)
(* workers share.  A provider posts a delivery, a batch of events, until   *)
(* it is answered 200; a delivery it posts twice at once is two of         *)
(* Requests with one batch.  Handlers of several processes claim the       *)
(* events of their batch, deliver the ones they acquired, and complete or  *)
(* release every claim.                                                    *)
(*                                                                         *)
(* The store is AtomicClaim, which ClaimJournal implements, once per event *)
(* key, with the owners map of each process.  Handlers of one process run  *)
(* between the awaits of a call: claimStatus is two steps, the check of    *)
(* the map and the decision on the record; complete and release are three, *)
(* the read of the map, the link, and the delete from the map, which comes *)
(* awaits after the link.  A request is its own owner token: calls under   *)
(* way that still hold it forget it when the request claims again.  The    *)
(* ttl (7 days by default) outlives the provider's retries, so completions *)
(* do not lapse.                                                           *)
(***************************************************************************)
EXTENDS Naturals, SequencesExt

CONSTANTS
    Procs,      \* worker processes
    Requests,   \* deliveries, each posted until acknowledged
    Keys,       \* event keys
    Batch,      \* Batch[r]: the event keys of delivery r, in order
    NoOne,      \* no owner, no process
    MaxFaults,  \* bound: crashes, refusals, failed deliveries, store errors
    MaxStalls   \* bound: leases that lapse while they are renewed or ended

ASSUME RouterAssumption ==
    /\ Batch \in [Requests -> Seq(Keys)]
    /\ NoOne \notin Requests \cup Procs
    /\ MaxFaults \in Nat
    /\ MaxStalls \in Nat

VARIABLES
    store,      \* store[k]: the record of event k, live until its lease ends
    owners,     \* owners[p][k]: the request whose claim p renews
    home,       \* home[r]: the process that handles the post of r
    step,       \* step[r]: where the handler of r stands
    pos,        \* pos[r]: the event of the batch the handler claims next
    accepted,   \* accepted[r]: the events it acquired and has not finished
    closing,    \* closing[r][i]: the complete or release of accepted[r][i]
                \*   under way: the owner it read, and whether it has linked
    disowned,   \* disowned[r]: history; the events whose owners entry a call
                \*   of another handler took for its own or deleted
    troubled,   \* troubled[r]: inProgress + failed > 0
    response,   \* response[r]: what the provider heard since it posted
    delivered,  \* the events whose deliver(event) has resolved
    faults,
    stalls

calls == <<closing, disowned>>
handlers == <<home, step, pos, accepted, calls, troubled, response>>
vars == <<store, owners, handlers, delivered, faults, stalls>>

Record(kind, r, live) == [kind |-> kind, owner |-> r, live |-> live]
Free == Record("free", NoOne, FALSE)
Records == {Free} \cup [kind : {"held", "done"}, owner : Requests, live : BOOLEAN]

Calls == [owner : Requests \cup {NoOne}, linked : BOOLEAN]

Steps == {"idle", "claim", "claiming", "unwind", "deliver",
          "complete", "release"}
Responses == {"none", "ok", "unavailable", "refused", "error"}

TypeOK ==
    /\ store \in [Keys -> Records]
    /\ owners \in [Procs -> [Keys -> Requests \cup {NoOne}]]
    /\ home \in [Requests -> Procs \cup {NoOne}]
    /\ step \in [Requests -> Steps]
    /\ pos \in [Requests -> Nat]
    /\ accepted \in [Requests -> Seq(Keys)]
    /\ DOMAIN closing = Requests
    /\ \A r \in Requests :
          /\ DOMAIN closing[r] \subseteq DOMAIN accepted[r]
          /\ closing[r] \in [DOMAIN closing[r] -> Calls]
    /\ disowned \in [Requests -> SUBSET Keys]
    /\ troubled \in [Requests -> BOOLEAN]
    /\ response \in [Requests -> Responses]
    /\ delivered \subseteq Keys
    /\ faults \in 0..MaxFaults
    /\ stalls \in 0..MaxStalls

Fault == faults < MaxFaults /\ faults' = faults + 1

---------------------------------------------------------------------------
(* The store                                                               *)

\* The record of k is the claim of owner o.
Holds(o, k) == o # NoOne /\ store[k].kind = "held" /\ store[k].owner = o

\* The record of k is the claim of the owner p's map names.
StillOwns(p, k) == Holds(owners[p][k], k)

\* A process renews the claim of k, or a call that is to end it is under way.
Attended(k) ==
    \/ \E p \in Procs : StillOwns(p, k)
    \/ \E r \in Requests : \E i \in DOMAIN closing[r] :
           accepted[r][i] = k /\ Holds(closing[r][i].owner, k)

\* The lease of a claim nobody attends to runs out.
Lapse(k) ==
    /\ store[k].kind = "held" /\ store[k].live
    /\ ~Attended(k)
    /\ store' = [store EXCEPT ![k].live = FALSE]
    /\ UNCHANGED <<owners, handlers, delivered, faults, stalls>>

\* A process stalls past the lease of a claim it should have renewed or ended ...
Stall(k) ==
    /\ store[k].kind = "held" /\ store[k].live
    /\ Attended(k)
    /\ stalls < MaxStalls
    /\ stalls' = stalls + 1
    /\ store' = [store EXCEPT ![k].live = FALSE]
    /\ UNCHANGED <<owners, handlers, delivered, faults>>

\* ... and renews it late, when nobody has taken it over.
Renew(p, k) ==
    /\ StillOwns(p, k) /\ ~store[k].live
    /\ store' = [store EXCEPT ![k].live = TRUE]
    /\ UNCHANGED <<owners, handlers, delivered, faults, stalls>>

---------------------------------------------------------------------------
(* handle                                                                  *)

\* Request r moves: its step, the next event to claim, the events to finish.
Become(r, s, i, events) ==
    /\ step' = [step EXCEPT ![r] = s]
    /\ pos' = [pos EXCEPT ![r] = i]
    /\ accepted' = [accepted EXCEPT ![r] = events]
    /\ UNCHANGED home

\* The handler of r starts at process p, or ends.
Restart(r, s, p) ==
    /\ home' = [home EXCEPT ![r] = p]
    /\ step' = [step EXCEPT ![r] = s]
    /\ pos' = [pos EXCEPT ![r] = 1]
    /\ accepted' = [accepted EXCEPT ![r] = <<>>]
    /\ closing' = [closing EXCEPT ![r] = <<>>]
    /\ disowned' = [disowned EXCEPT ![r] = {}]

Answer(r, status) ==
    /\ Restart(r, "idle", NoOne)
    /\ response' = [response EXCEPT ![r] = status]
    /\ troubled' = [troubled EXCEPT ![r] = FALSE]

Trouble(r) == troubled' = [troubled EXCEPT ![r] = TRUE]

\* The provider posts a delivery that was not acknowledged, to any process;
\* provider, secret and signature are good and the body parses.
Arrive(r) ==
    /\ step[r] = "idle"
    /\ response[r] # "ok"
    /\ \E p \in Procs : Restart(r, "claim", p)
    /\ response' = [response EXCEPT ![r] = "none"]
    /\ UNCHANGED <<store, owners, troubled, delivered, faults, stalls>>

\* 404, 401 or 400: nothing is claimed.
Refuse(r) ==
    /\ step[r] = "idle"
    /\ response[r] # "ok"
    /\ Fault
    /\ Answer(r, "refused")
    /\ UNCHANGED <<store, owners, delivered, stalls>>

Claimed(r) == Batch[r][pos[r]]

\* Fault: wait until the event is nobody's instead of answering.
ClaimHeldHereWaits(r) ==
    /\ step[r] = "claim"
    /\ pos[r] <= Len(Batch[r])
    /\ owners[home[r]][Claimed(r)] # NoOne
    /\ UNCHANGED vars

\* claimStatus answers 'in_progress' from the owners map.
ClaimHeldHere(r) ==
    /\ step[r] = "claim"
    /\ pos[r] <= Len(Batch[r])
    /\ owners[home[r]][Claimed(r)] # NoOne
    /\ Become(r, "claim", pos[r] + 1, accepted[r])
    /\ Trouble(r)
    /\ UNCHANGED <<store, owners, calls, response, delivered, faults, stalls>>

ClaimStart(r) ==
    /\ step[r] = "claim"
    /\ pos[r] <= Len(Batch[r])
    /\ owners[home[r]][Claimed(r)] = NoOne
    /\ Become(r, "claiming", pos[r], accepted[r])
    /\ UNCHANGED <<store, owners, calls, troubled, response, delivered, faults, stalls>>

\* The record of a new claim by r is linked.
Link(r) == store' = [store EXCEPT ![Claimed(r)] = Record("held", r, TRUE)]

\* The calls under way when r claims anew: none has the token of that claim.
Forgotten(r) ==
    [q \in Requests |-> [i \in DOMAIN closing[q] |->
        IF closing[q][i].owner = r /\ accepted[q][i] = Claimed(r)
        THEN [closing[q][i] EXCEPT !.owner = NoOne]
        ELSE closing[q][i]]]

\* r enters its claim in the owners map, on its list, and goes on.
Own(r) ==
    /\ Link(r)
    /\ owners' = [owners EXCEPT ![home[r]][Claimed(r)] = r]
    /\ Become(r, "claim", pos[r] + 1, Append(accepted[r], Claimed(r)))
    /\ closing' = Forgotten(r)
    /\ UNCHANGED <<disowned, troubled, response, delivered, faults, stalls>>

\* Fault: the lease of a held claim is not looked at.
ClaimAcquiredFromOwner(r) ==
    /\ step[r] = "claiming"
    /\ store[Claimed(r)].kind # "done"
    /\ Own(r)

ClaimAcquired(r) ==
    /\ step[r] = "claiming"
    /\ ~store[Claimed(r)].live
    /\ Own(r)

ClaimCompleted(r) ==
    /\ step[r] = "claiming"
    /\ store[Claimed(r)].kind = "done"
    /\ Become(r, "claim", pos[r] + 1, accepted[r])
    /\ UNCHANGED <<store, owners, calls, troubled, response, delivered, faults, stalls>>

\* Fault: an event somebody else works on counts as a replay.
ClaimHeldAsReplay(r) ==
    /\ step[r] = "claiming"
    /\ store[Claimed(r)].kind = "held" /\ store[Claimed(r)].live
    /\ Become(r, "claim", pos[r] + 1, accepted[r])
    /\ UNCHANGED <<store, owners, calls, troubled, response, delivered, faults, stalls>>

ClaimHeld(r) ==
    /\ step[r] = "claiming"
    /\ store[Claimed(r)].kind = "held" /\ store[Claimed(r)].live
    /\ Become(r, "claim", pos[r] + 1, accepted[r])
    /\ Trouble(r)
    /\ UNCHANGED <<store, owners, calls, response, delivered, faults, stalls>>

---------------------------------------------------------------------------
(* complete and release                                                    *)

\* A call of r takes the entries of these events: it disowns their owners.
Disown(r, events) ==
    disowned' = [q \in Requests |->
        disowned[q] \cup {k \in events : q # r /\ owners[home[r]][k] = q}]

\* The calls of r for some events of its list begin, all at once, beside the
\* other calls of that moment; without an entry a call returns at once.
Begin(r, s, positions, others) ==
    LET Entry(i) == owners[home[r]][accepted[r][i]] IN
    /\ step' = [step EXCEPT ![r] = s]
    /\ closing' = [others EXCEPT ![r] =
           [i \in {j \in positions : Entry(j) # NoOne} |-> [owner |-> Entry(i), linked |-> FALSE]]]
    /\ Disown(r, {accepted[r][i] : i \in positions})
    /\ UNCHANGED <<home, pos, accepted>>

\* claimStatus throws on an I/O error, before or after its record was linked;
\* then nobody renews that record, and the earlier claims are released.
ClaimThrows(r) ==
    /\ step[r] = "claiming"
    /\ Fault
    /\ \/ UNCHANGED store /\ Begin(r, "unwind", DOMAIN accepted[r], closing)
       \/ /\ ~store[Claimed(r)].live
          /\ Link(r)
          /\ Begin(r, "unwind", DOMAIN accepted[r], Forgotten(r))
    /\ UNCHANGED <<owners, troubled, response, delivered, stalls>>

\* The 'completed' or 'available' record is linked after the owner's.
CallLinks(r) ==
    /\ \E i \in DOMAIN closing[r] :
           LET o == closing[r][i].owner
               k == accepted[r][i]
           IN  /\ ~closing[r][i].linked /\ Holds(o, k)
               /\ store' = [store EXCEPT ![k] =
                      IF step[r] = "complete" THEN Record("done", o, TRUE) ELSE Free]
               /\ closing' = [closing EXCEPT ![r][i].linked = TRUE]
    /\ UNCHANGED <<owners, home, step, pos, accepted, disowned, troubled, response,
                   delivered, faults, stalls>>

\* The call for the i-th event deletes the entry, whoever's it is.
Delete(r, i) ==
    /\ owners' = [owners EXCEPT ![home[r]][accepted[r][i]] = NoOne]
    /\ Disown(r, {accepted[r][i]})

\* The call for the i-th event found another head than a claim of the owner.
Lost(r, i) == ~closing[r][i].linked /\ ~Holds(closing[r][i].owner, accepted[r][i])

\* The call for the i-th event is over.
Over(r, i) ==
    /\ closing' = [closing EXCEPT ![r] = Restrict(closing[r], DOMAIN closing[r] \ {i})]
    /\ UNCHANGED <<store, home, step, pos, accepted, troubled, response, delivered, stalls>>

\* A call returns: its record was linked, or release found its claim lost.
CallReturns(r) ==
    /\ \E i \in DOMAIN closing[r] :
           /\ closing[r][i].linked \/ (step[r] # "complete" /\ Lost(r, i))
           /\ Delete(r, i)
           /\ Over(r, i)
    /\ UNCHANGED faults

\* release throws on an I/O error, before or after its link: the entry is
\* deleted if it is still the one the call read.
ReleaseThrows(r) ==
    /\ step[r] # "complete"
    /\ Fault
    /\ \E i \in DOMAIN closing[r] :
           /\ \/ /\ owners[home[r]][accepted[r][i]] = closing[r][i].owner
                 /\ Delete(r, i)
              \/ /\ owners[home[r]][accepted[r][i]] # closing[r][i].owner
                 /\ UNCHANGED <<owners, disowned>>
           /\ Over(r, i)

\* Promise.allSettled over the releases, in any order, then the error.
Unwound(r) ==
    /\ step[r] = "unwind"
    /\ DOMAIN closing[r] = {}
    /\ Answer(r, "error")
    /\ UNCHANGED <<store, owners, delivered, faults, stalls>>

ClaimedAll(r) ==
    /\ step[r] = "claim"
    /\ pos[r] > Len(Batch[r])
    /\ Become(r, "deliver", pos[r], accepted[r])
    /\ UNCHANGED <<store, owners, calls, troubled, response, delivered, faults, stalls>>

---------------------------------------------------------------------------
(* deliverEach                                                             *)

\* deliver(event) is under way for the first event of the list; it resolves.
DeliverResolves(r) ==
    /\ step[r] = "deliver"
    /\ accepted[r] # <<>>
    /\ delivered' = delivered \cup {Head(accepted[r])}
    /\ Begin(r, "complete", {1}, closing)
    /\ UNCHANGED <<store, owners, troubled, response, faults, stalls>>

DeliverRejects(r) ==
    /\ step[r] = "deliver"
    /\ accepted[r] # <<>>
    /\ Fault
    /\ Begin(r, "release", {1}, closing)
    /\ UNCHANGED <<store, owners, troubled, response, delivered, stalls>>

CompleteEvent(r) ==
    /\ step[r] = "complete"
    /\ DOMAIN closing[r] = {}
    /\ Become(r, "deliver", pos[r], Tail(accepted[r]))
    /\ UNCHANGED <<store, owners, calls, troubled, response, delivered, faults, stalls>>

\* Fault: after an I/O error the event goes on without releasing its claim.
CompleteThrowsUnreleased(r) ==
    /\ step[r] = "complete"
    /\ 1 \in DOMAIN closing[r]
    /\ Fault
    /\ Become(r, "deliver", pos[r], Tail(accepted[r]))
    /\ closing' = [closing EXCEPT ![r] = <<>>]
    /\ Trouble(r)
    /\ UNCHANGED <<store, owners, disowned, response, delivered, stalls>>

\* complete throws: ownership was lost and the entry is deleted, or I/O failed
\* before or after the link and the entry stays.  The claim is given back, for
\* which the map is read anew.
CompleteThrows(r) ==
    /\ step[r] = "complete"
    /\ 1 \in DOMAIN closing[r]
    /\ \/ /\ Lost(r, 1)
          /\ Delete(r, 1)
          /\ closing' = [closing EXCEPT ![r] = <<>>]
          /\ step' = [step EXCEPT ![r] = "release"]
          /\ UNCHANGED <<home, pos, accepted, faults>>
       \/ /\ Fault
          /\ Begin(r, "release", {1}, closing)
          /\ UNCHANGED owners
    /\ UNCHANGED <<store, troubled, response, delivered, stalls>>

\* Fault: the release is not awaited.
ReleaseUnawaited(r) ==
    /\ step[r] = "release"
    /\ Become(r, "deliver", pos[r], Tail(accepted[r]))
    /\ Trouble(r)
    /\ UNCHANGED <<store, owners, calls, response, delivered, faults, stalls>>

\* The release is over, an error of it is reported, failed++.
ReleaseEvent(r) ==
    /\ step[r] = "release"
    /\ DOMAIN closing[r] = {}
    /\ Become(r, "deliver", pos[r], Tail(accepted[r]))
    /\ Trouble(r)
    /\ UNCHANGED <<store, owners, calls, response, delivered, faults, stalls>>

Respond(r) ==
    /\ step[r] = "deliver"
    /\ accepted[r] = <<>>
    /\ \/ troubled[r] /\ Answer(r, "unavailable")
       \/ ~troubled[r] /\ Answer(r, "ok")
    /\ UNCHANGED <<store, owners, delivered, faults, stalls>>

---------------------------------------------------------------------------
\* A process dies and restarts; the provider sees its connections drop.
Crash(p) ==
    /\ Fault
    /\ owners' = [owners EXCEPT ![p] = [k \in Keys |-> NoOne]]
    /\ home' = [r \in Requests |-> IF home[r] = p THEN NoOne ELSE home[r]]
    /\ step' = [r \in Requests |-> IF home[r] = p THEN "idle" ELSE step[r]]
    /\ pos' = [r \in Requests |-> IF home[r] = p THEN 1 ELSE pos[r]]
    /\ accepted' = [r \in Requests |-> IF home[r] = p THEN <<>> ELSE accepted[r]]
    /\ closing' = [r \in Requests |-> IF home[r] = p THEN <<>> ELSE closing[r]]
    /\ disowned' = [r \in Requests |-> IF home[r] = p THEN {} ELSE disowned[r]]
    /\ troubled' = [r \in Requests |-> home[r] # p /\ troubled[r]]
    /\ UNCHANGED <<store, response, delivered, stalls>>

Init ==
    /\ store = [k \in Keys |-> Free]
    /\ owners = [p \in Procs |-> [k \in Keys |-> NoOne]]
    /\ home = [r \in Requests |-> NoOne]
    /\ step = [r \in Requests |-> "idle"]
    /\ pos = [r \in Requests |-> 1]
    /\ accepted = [r \in Requests |-> <<>>]
    /\ closing = [r \in Requests |-> <<>>]
    /\ disowned = [r \in Requests |-> {}]
    /\ troubled = [r \in Requests |-> FALSE]
    /\ response = [r \in Requests |-> "none"]
    /\ delivered = {}
    /\ faults = 0
    /\ stalls = 0

Handle(r) ==
    \/ ClaimHeldHere(r) \/ ClaimStart(r) \/ ClaimAcquired(r)
    \/ ClaimCompleted(r) \/ ClaimHeld(r) \/ ClaimThrows(r)
    \/ Unwound(r) \/ ClaimedAll(r)
    \/ DeliverResolves(r) \/ DeliverRejects(r)
    \/ CallLinks(r) \/ CallReturns(r) \/ ReleaseThrows(r)
    \/ CompleteEvent(r) \/ CompleteThrows(r) \/ ReleaseEvent(r)
    \/ Respond(r)

\* All deliveries are acknowledged and the handlers are done.
Finished ==
    /\ \A r \in Requests : response[r] = "ok" /\ step[r] = "idle"
    /\ UNCHANGED vars

Next ==
    \/ \E r \in Requests : Arrive(r) \/ Refuse(r) \/ Handle(r)
    \/ \E k \in Keys : Lapse(k) \/ Stall(k) \/ \E p \in Procs : Renew(p, k)
    \/ \E p \in Procs : Crash(p)
    \/ Finished

\* The event loop runs every handler on, time passes, and the provider
\* retries; nothing makes a fault, a stall or a late renewal happen.
Spec ==
    /\ Init /\ [][Next]_vars
    /\ \A r \in Requests : WF_vars(Arrive(r)) /\ WF_vars(Handle(r))
    /\ \A k \in Keys : WF_vars(Lapse(k))

---------------------------------------------------------------------------
(* Properties                                                              *)

\* 200 is answered only when every event of the batch was delivered, by this
\* handler or by the one whose claim is completed: "never acknowledge another
\* worker's unfinished attempt".
AckMeansDelivered ==
    \A r \in Requests : response[r] = "ok" =>
        \A i \in DOMAIN Batch[r] : Batch[r][i] \in delivered

\* A claim is renewed only for a handler that has yet to finish its event:
\* no path of handle or deliverEach leaves an entry behind, which the
\* heartbeat would renew for as long as the process lives.
NoClaimStranded ==
    \A p \in Procs, k \in Keys : owners[p][k] # NoOne =>
        LET r == owners[p][k] IN
        home[r] = p /\ \E i \in DOMAIN accepted[r] : accepted[r][i] = k

\* As long as no process stalls past a lease, a handler that delivers events
\* holds the claims of all it has yet to deliver, so that no other handler
\* delivers them too and no completed event is delivered again: unless a call of
\* another handler of its process took its entry.  That is the late delete,
\* which does not look whose entry it finds (idempotency.ts:217 and :234).
DeliversOnlyWhatItHolds ==
    stalls = 0 =>
        \A r \in Requests : step[r] = "deliver" =>
            \A i \in DOMAIN accepted[r] : accepted[r][i] \notin disowned[r] =>
                /\ owners[home[r]][accepted[r][i]] = r
                /\ StillOwns(home[r], accepted[r][i])

\* Every delivery is acknowledged in the end: no order of retries, failures,
\* crashes and lapses leaves an event blocked for ever.
EveryDeliveryAcknowledged == \A r \in Requests : <>(response[r] = "ok")
=============================================================================
